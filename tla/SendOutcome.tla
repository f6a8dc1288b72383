----------------------------- MODULE SendOutcome -----------------------------
(***************************************************************************)
(* What one call of the outbound transport can report and do: the results  *)
(* of SMTPTransporter.Send for an envelope.  Outbound takes the same call  *)
(* apart step by step and shows that it ends in one of these results;      *)
(* Delivery, which runs many such calls, uses the results alone.           *)
(***************************************************************************)
EXTENDS Naturals

CONSTANTS
  Rcpts,     \* recipients, numbered in the order the envelope names them
  DomainOf   \* DomainOf[r]: the domain part of recipient r's address

ASSUME SendOutcomeAssumption == Rcpts \subseteq Nat

\* The recipients of `to` that Send groups under domain d.
RcptsAt(to, d) == {r \in to : DomainOf[r] = d}

DomainsOf(to) == {DomainOf[r] : r \in to}

\* err: nil, an error whose code is 5xx, or any other error.  partial:
\* DeliveryError.Partial.  took is no part of the program: the recipients
\* for whom some remote server accepted the message data during the call.
Results == [err : {"none", "temp", "perm"},
            partial : SUBSET Rcpts, took : SUBSET Rcpts]

NoResult == [err |-> "none", partial |-> {}, took |-> {}]

Success(to) == [err |-> "none", partial |-> {}, took |-> to]

\* Send leaves at the first domain d it cannot finish.  The domains finished
\* before it took their recipients, and Partial does not name those.  At d,
\* earlier MX hosts may have taken anyone (`here`).  A 5xx error carries a
\* Partial only after DATA went through for it; any other error may come from
\* a failed write of the body, and then Partial names the accepted RCPTs
\* although no server has the message.
FailsAt(to, d, res) ==
  \E finished \in SUBSET (DomainsOf(to) \ {d}), here \in SUBSET RcptsAt(to, d) :
    /\ res.err \in {"temp", "perm"}
    /\ res.partial \subseteq RcptsAt(to, d)
    /\ res.took = here \cup {r \in to : DomainOf[r] \in finished}
    /\ res.err = "perm" => /\ res.partial \subseteq here
                           /\ res.partial # RcptsAt(to, d)

SendResults(to) ==
  {res \in Results :
     \/ res = Success(to)
     \/ \E d \in DomainsOf(to) : FailsAt(to, d, res)}

\* What the worker gets to see of a result.
Replies == [err : {"none", "temp", "perm"}, partial : SUBSET Rcpts]

NoReply == [err |-> "none", partial |-> {}]

SendReplies(to) == {[err |-> res.err, partial |-> res.partial] : res \in SendResults(to)}

\* enqueueBounce: the bounce for a dead job names the first recipient of the
\* envelope, whatever became of him.
FailedTo(to) == {r \in to : \A s \in to : r <= s}

=============================================================================
