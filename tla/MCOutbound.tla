----------------------------- MODULE MCOutbound -----------------------------
(***************************************************************************)
(* A small instance of Outbound for TLC: three recipients, two of them in  *)
(* one domain, and two MX hosts per domain.                                *)
(***************************************************************************)
EXTENDS Outbound

MCDomainOf == [r \in Rcpts |-> IF r = 1 THEN "a.example" ELSE "b.example"]

\* A message to both domains, without a relay and with TLS required, so that no
\* host is spoken to a second time.
TwoDomains == Init /\ to = Rcpts /\ ~relay /\ requireTLS

TwoDomainsSpec == TwoDomains /\ [][Next]_vars

=============================================================================
