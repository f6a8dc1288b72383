------------------------------ MODULE Outbound ------------------------------
(***************************************************************************)
(* One call of SMTPTransporter.Send, step by step: the domains of the      *)
(* envelope in an arbitrary order (they are the keys of a Go map), the MX  *)
(* hosts of each, and on each host one SMTP dialogue or, after a TLS       *)
(* failure, a second one that does not verify the certificate.             *)
(*                                                                         *)
(* The remote servers and the network answer as they like.  One deadline   *)
(* covers a whole dialogue, so each of its steps ends.                     *)
(***************************************************************************)
EXTENDS SendOutcome

CONSTANTS
  MxHosts   \* bound: the longest MX list of a domain

ASSUME OutboundAssumption == MxHosts \in Nat \ {0}

VARIABLES
  to,          \* the envelope's recipients
  relay,       \* a smarthost is configured: it gets the whole envelope
  requireTLS,  \* the setting security.require_tls_outbound
  pc,          \* where the call is
  left,        \* domains not yet begun
  group,       \* recipients addressed at the present host
  hosts,       \* hosts that remain for them, the present one included
  insecure,    \* the present dialogue is the one that verifies nothing
  secured,     \* the session runs over TLS with a verified certificate
  ok,          \* recipients the present host accepted at RCPT
  refusal,     \* the kind of the last RCPT refusal, or "none"
  result,      \* what the call returns
  exposed      \* recipients whose copy went over a session not secured

vars == <<to, relay, requireTLS, pc, left, group, hosts, insecure, secured,
          ok, refusal, result, exposed>>

envelope == <<to, relay, requireTLS>>
session == <<secured, ok, refusal>>

Errors == {"temp", "perm"}

Init ==
  /\ to \in (SUBSET Rcpts) \ {{}}
  /\ relay \in BOOLEAN
  /\ requireTLS \in BOOLEAN
  /\ pc = IF relay THEN "dial" ELSE "domain"
  /\ left = IF relay THEN {} ELSE DomainsOf(to)
  /\ group = IF relay THEN to ELSE {}
  /\ hosts = IF relay THEN 1 ELSE 0
  /\ insecure = FALSE
  /\ secured = FALSE
  /\ ok = {}
  /\ refusal = "none"
  /\ result = NoResult
  /\ exposed = {}

-----------------------------------------------------------------------------
(* Send: the domains.                                                      *)

Return(err, partial) ==
  /\ pc' = "done"
  /\ result' = [result EXCEPT !.err = err, !.partial = partial]

\* An address that does not split fails the call before anything is sent.  The
\* error quotes it, and permanentFail looks for words in it.
BadRecipient ==
  /\ pc = "domain"
  /\ left = DomainsOf(to)
  /\ \E err \in Errors : Return(err, {})
  /\ UNCHANGED <<envelope, left, group, hosts, insecure, session, exposed>>

\* mxHosts: hosts in order of preference; none at all is a 550, a lookup that
\* fails a 450.
LookupMx(d) ==
  /\ pc = "domain"
  /\ d \in left
  /\ left' = left \ {d}
  /\ \/ /\ \E err \in Errors : Return(err, {})
        /\ UNCHANGED <<group, hosts>>
     \/ /\ hosts' \in 1..MxHosts
        /\ group' = RcptsAt(to, d)
        /\ pc' = "dial"
        /\ UNCHANGED result
  /\ UNCHANGED <<envelope, insecure, session, exposed>>

AllDomainsDone ==
  /\ pc = "domain"
  /\ left = {}
  /\ Return("none", {})
  /\ UNCHANGED <<envelope, left, group, hosts, insecure, session, exposed>>

-----------------------------------------------------------------------------
(* sendToHost: one dialogue, and after a TLS error perhaps a second.       *)

\* The host took the message for the whole group: on to the next domain.
HostDone ==
  /\ pc' = IF relay THEN "done" ELSE "domain"
  /\ insecure' = FALSE
  /\ result' = [result EXCEPT !.took = @ \cup ok]
  /\ UNCHANGED hosts

\* Faulty variants: the dialogue that verifies nothing is used whatever the
\* setting; and it is repeated without end.
HostFailedWaiving(err, partial, taken, tlsError) ==
  IF tlsError /\ ~insecure
  THEN /\ pc' = "dial"
       /\ insecure' = TRUE
       /\ result' = [result EXCEPT !.took = @ \cup taken]
       /\ UNCHANGED hosts
  ELSE /\ pc' = "done"
       /\ result' = [err |-> err, partial |-> partial, took |-> result.took \cup taken]
       /\ UNCHANGED <<insecure, hosts>>

HostFailedRepeating(err, partial, taken, tlsError) ==
  IF tlsError /\ ~requireTLS
  THEN /\ pc' = "dial"
       /\ insecure' = TRUE
       /\ result' = [result EXCEPT !.took = @ \cup taken]
       /\ UNCHANGED hosts
  ELSE /\ pc' = "done"
       /\ result' = [err |-> err, partial |-> partial, took |-> result.took \cup taken]
       /\ UNCHANGED <<insecure, hosts>>

\* The dialogue failed with err, naming `partial`, after the host took `taken`.
\* IsTLSError looks for words in the text, which may be the peer's own, so any
\* error can pass for a TLS error.
HostFailed(err, partial, taken, tlsError) ==
  IF tlsError /\ ~requireTLS /\ ~insecure
  THEN /\ pc' = "dial"
       /\ insecure' = TRUE
       /\ result' = [result EXCEPT !.took = @ \cup taken]
       /\ UNCHANGED hosts
  ELSE IF err = "temp" /\ hosts > 1
  THEN /\ pc' = "dial"
       /\ insecure' = FALSE
       /\ hosts' = hosts - 1
       /\ result' = [result EXCEPT !.took = @ \cup taken]
  ELSE /\ pc' = "done"
       /\ result' = [err |-> err, partial |-> partial, took |-> result.took \cup taken]
       /\ UNCHANGED <<insecure, hosts>>

\* Fails without having handed over anything; the session is closed.
Refused ==
  /\ \E err \in Errors, tlsError \in BOOLEAN : HostFailed(err, {}, {}, tlsError)
  /\ UNCHANGED <<envelope, left, group, session, exposed>>

\* dialAndSend up to STARTTLS.  A peer that offers no STARTTLS is refused when
\* TLS is required and else spoken to in the clear.
Dial ==
  /\ pc = "dial"
  /\ \/ Refused
     \/ /\ \E offersTLS \in BOOLEAN :
             /\ requireTLS => offersTLS
             /\ secured' = (offersTLS /\ ~insecure)
        /\ pc' = "envelope"
        /\ ok' = {}
        /\ refusal' = "none"
        /\ UNCHANGED <<envelope, left, group, hosts, insecure, result, exposed>>

\* Faulty variant: a refused RCPT is forgotten once another is accepted.
EnvelopeForgetting ==
  /\ pc = "envelope"
  /\ \/ Refused
     \/ /\ ok' \in (SUBSET group) \ {{}}
        /\ refusal' = "none"
        /\ pc' = "data"
        /\ UNCHANGED <<envelope, left, group, hosts, insecure, secured, result, exposed>>

\* MAIL and one RCPT for each recipient of the group.
Envelope ==
  /\ pc = "envelope"
  /\ \/ Refused
     \/ /\ ok' \in (SUBSET group) \ {{}}
        /\ refusal' \in IF ok' = group THEN {"none"} ELSE Errors
        /\ pc' = "data"
        /\ UNCHANGED <<envelope, left, group, hosts, insecure, secured, result, exposed>>

\* DATA is refused; the write of the body fails (the accepted RCPTs are named
\* as Partial); the end of the body gets an error reply, or no reply at all
\* although the server may have taken the message; or the server takes it.
Data ==
  /\ pc = "data"
  /\ UNCHANGED <<envelope, left, group, session>>
  /\ \/ /\ \E err \in Errors, tlsError \in BOOLEAN : HostFailed(err, {}, {}, tlsError)
        /\ UNCHANGED exposed
     \/ /\ \E tlsError \in BOOLEAN : HostFailed("temp", ok, {}, tlsError)
        /\ UNCHANGED exposed
     \/ /\ \E tlsError \in BOOLEAN : HostFailed("temp", {}, ok, tlsError)
        /\ exposed' = IF secured THEN exposed ELSE exposed \cup ok
     \/ /\ IF refusal = "none"
           THEN HostDone
           ELSE \E tlsError \in BOOLEAN : HostFailed(refusal, ok, ok, tlsError)
        /\ exposed' = IF secured THEN exposed ELSE exposed \cup ok

Next ==
  \/ BadRecipient
  \/ \E d \in left : LookupMx(d)
  \/ AllDomainsDone
  \/ Dial
  \/ Envelope
  \/ Data

Spec == Init /\ [][Next]_vars /\ WF_vars(Next)

-----------------------------------------------------------------------------
(* Properties.                                                             *)

TypeOK ==
  /\ to \subseteq Rcpts
  /\ relay \in BOOLEAN
  /\ requireTLS \in BOOLEAN
  /\ pc \in {"domain", "dial", "envelope", "data", "done"}
  /\ left \subseteq DomainsOf(to)
  /\ group \subseteq to
  /\ hosts \in 0..MxHosts
  /\ insecure \in BOOLEAN
  /\ secured \in BOOLEAN
  /\ ok \subseteq to
  /\ refusal \in Errors \cup {"none"}
  /\ result \in Results
  /\ exposed \subseteq result.took

\* A relay is one host for the whole envelope: as if all recipients were in
\* one domain.
Relayed == INSTANCE SendOutcome WITH DomainOf <- [r \in Rcpts |-> "relay"]

\* The call ends in one of the results that Delivery counts with.  In
\* particular nil means that every recipient was taken, and a 5xx error with
\* a Partial that the Partial was taken.
EndsAsExpected ==
  pc = "done" =>
    result \in IF relay THEN Relayed!SendResults(to) ELSE SendResults(to)

\* With TLS required no copy of the message leaves over a session that is not
\* both encrypted and verified, in whatever order TLS errors, fallbacks and
\* further hosts follow each other.
TLSHonoured == requireTLS => exposed = {}

\* The call returns: the certificate check is waived once per host, and the
\* lists of hosts and domains run out.
CallEnds == <>(pc = "done")

\* "recipients that were accepted before failure (for retry of remainder)"
\* (smtp_errors.go): those that Partial names, and handle therefore does not
\* send again, have been given the message.
PartialWasTaken == pc = "done" => result.partial \subseteq result.took

\* "Your message could not be delivered to " (dsn.go): after a call that makes
\* the job dead at once, the recipient the bounce names has not been given the
\* message.
BounceNamesTheFailed ==
  pc = "done" /\ result.err = "perm" /\ result.partial = {}
    => FailedTo(to) \cap result.took = {}

=============================================================================
