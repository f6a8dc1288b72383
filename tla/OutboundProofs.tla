--------------------------- MODULE OutboundProofs ---------------------------
(***************************************************************************)
(* Proofs about one call of Send, for every envelope, every grouping of    *)
(* its recipients into domains and every number of MX hosts: the call ends *)
(* in one of the results Delivery counts with, and a required TLS holds    *)
(* through every fallback and every further host.  Then the types of       *)
(* ImapPoll, Alerts and Settings: for the last, that the mask of a page    *)
(* and the mark of a backup never come back as the secret.                 *)
(***************************************************************************)
EXTENDS MCSending, TLAPS

-----------------------------------------------------------------------------
(* The inductive invariant.                                                *)

AtHost == pc \in {"dial", "envelope", "data"}

\* Nothing is reported before the end, and a relay has one host and no domain.
CallOpen ==
  /\ to # {}
  /\ pc # "done" => result.err = "none" /\ result.partial = {}
  /\ relay => left = {} /\ group = to /\ pc # "domain"

\* What has been taken: all of the domains behind the present one, some of
\* the present one, nothing of those to come.
TakenSoFar ==
  /\ pc = "domain" => result.took = {r \in to : DomainOf[r] \notin left}
  /\ relay /\ AtHost => result.took \subseteq group
  /\ ~relay /\ AtHost =>
       \E d \in DomainsOf(to) \ left :
         /\ group = RcptsAt(to, d)
         /\ \E here \in SUBSET group :
              result.took = here \cup {r \in to : DomainOf[r] \notin left \cup {d}}

\* The recipients accepted at the present host, and whether one was refused.
RcptsAnswered ==
  pc = "data" => /\ ok # {}
                 /\ ok \subseteq group
                 /\ refusal = "none" <=> ok = group

\* The waiver of the certificate check and the clear session never meet a
\* required TLS.
NoWaiver ==
  requireTLS => /\ ~insecure
                /\ pc \in {"envelope", "data"} => secured
                /\ exposed = {}

CallInv ==
  /\ TypeOK
  /\ CallOpen
  /\ TakenSoFar
  /\ RcptsAnswered
  /\ NoWaiver
  /\ EndsAsExpected

-----------------------------------------------------------------------------
(* The results a call may end in.                                          *)

\* The recipients of an envelope are those of its domains.
LEMMA DomainsCover ==
  ASSUME NEW S, NEW r \in S
  PROVE  DomainOf[r] \in DomainsOf(S)
  BY DEF DomainsOf

LEMMA RcptsAtSome ==
  ASSUME NEW S, NEW d \in DomainsOf(S)
  PROVE  RcptsAt(S, d) # {}
  BY DEF DomainsOf, RcptsAt

\* A call that fails at domain d, having finished the domains `done`.
LEMMA FailureExpected ==
  ASSUME NEW S \in SUBSET Rcpts, NEW d \in DomainsOf(S),
         NEW done \in SUBSET (DomainsOf(S) \ {d}),
         NEW here \in SUBSET RcptsAt(S, d), NEW partial \in SUBSET RcptsAt(S, d),
         NEW err \in {"temp", "perm"},
         err = "perm" => partial \subseteq here /\ partial # RcptsAt(S, d)
  PROVE  [err |-> err, partial |-> partial,
          took |-> here \cup {r \in S : DomainOf[r] \in done}] \in SendResults(S)
  <1> DEFINE res == [err |-> err, partial |-> partial,
                     took |-> here \cup {r \in S : DomainOf[r] \in done}]
  <1>1. res \in Results
    BY DEF Results, RcptsAt
  <1>2. FailsAt(S, d, res)
    BY DEF FailsAt
  <1> QED
    BY <1>1, <1>2 DEF SendResults

\* The same of a relay: one domain, of which nothing is finished before.
LEMMA RelayFailureExpected ==
  ASSUME NEW S \in SUBSET Rcpts, S # {},
         NEW here \in SUBSET S, NEW partial \in SUBSET S,
         NEW err \in {"temp", "perm"},
         err = "perm" => partial \subseteq here /\ partial # S
  PROVE  [err |-> err, partial |-> partial, took |-> here] \in Relayed!SendResults(S)
  <1> DEFINE res == [err |-> err, partial |-> partial, took |-> here]
             f == [r \in Rcpts |-> "relay"]
  <1>1. res \in Relayed!Results
    BY DEF Relayed!Results
  <1>2. "relay" \in Relayed!DomainsOf(S) /\ Relayed!RcptsAt(S, "relay") = S
    BY DEF Relayed!DomainsOf, Relayed!RcptsAt
  <1>3. res.took = here \cup {r \in S : f[r] \in {}}
    OBVIOUS
  <1>4. Relayed!FailsAt(S, "relay", res)
    <2> SUFFICES \E finished \in SUBSET (Relayed!DomainsOf(S) \ {"relay"}), h \in SUBSET S :
                   /\ res.err \in {"temp", "perm"}
                   /\ res.partial \subseteq S
                   /\ res.took = h \cup {r \in S : f[r] \in finished}
                   /\ res.err = "perm" => /\ res.partial \subseteq h
                                          /\ res.partial # S
      BY <1>2, Zenon DEF Relayed!FailsAt
    <2> WITNESS {} \in SUBSET (Relayed!DomainsOf(S) \ {"relay"}), here \in SUBSET S
    <2> QED
      BY <1>3
  <1> QED
    BY <1>1, <1>2, <1>4 DEF Relayed!SendResults

LEMMA SuccessExpected ==
  ASSUME NEW S \in SUBSET Rcpts
  PROVE  /\ Success(S) \in SendResults(S)
         /\ Success(S) \in Relayed!SendResults(S)
  BY DEF Success, SendResults, Results, Relayed!Success, Relayed!SendResults, Relayed!Results

-----------------------------------------------------------------------------
(* The steps.                                                              *)

LEMMA InitCallInv == Init => CallInv
  <1> SUFFICES ASSUME Init PROVE CallInv
    OBVIOUS
  <1>0. /\ to \subseteq Rcpts /\ to # {} /\ relay \in BOOLEAN /\ requireTLS \in BOOLEAN
        /\ insecure = FALSE /\ secured = FALSE /\ ok = {} /\ refusal = "none"
        /\ result = NoResult /\ exposed = {}
        /\ \/ relay /\ pc = "dial" /\ left = {} /\ group = to /\ hosts = 1
           \/ ~relay /\ pc = "domain" /\ left = DomainsOf(to) /\ group = {} /\ hosts = 0
    BY DEF Init
  <1>1. TypeOK
    <2>1. result \in Results /\ result.took = {}
      BY <1>0 DEF Results, NoResult
    <2>2. hosts \in 0..MxHosts
      BY <1>0, OutboundAssumption
    <2> QED
      BY <1>0, <2>1, <2>2 DEF TypeOK
  <1>2. CallOpen /\ RcptsAnswered /\ NoWaiver /\ EndsAsExpected
    BY <1>0 DEF CallOpen, RcptsAnswered, NoWaiver, EndsAsExpected, NoResult
  <1>3. TakenSoFar
    BY DomainsCover DEF Init, TakenSoFar, NoResult, AtHost
  <1> QED
    BY <1>1, <1>2, <1>3 DEF CallInv

LEMMA TakenAdded ==
  ASSUME NEW res \in Results, NEW taken \in SUBSET Rcpts
  PROVE  /\ [res EXCEPT !.took = @ \cup taken] \in Results
         /\ [res EXCEPT !.took = @ \cup taken].took = res.took \cup taken
         /\ [res EXCEPT !.took = @ \cup taken].err = res.err
         /\ [res EXCEPT !.took = @ \cup taken].partial = res.partial
  BY DEF Results

\* A failed dialogue, whatever it was: the waived one, the next host or the
\* end of the call.
LEMMA HostFailedKeeps ==
  ASSUME CallInv, AtHost,
         NEW err \in Errors, NEW partial \in SUBSET group,
         NEW taken \in SUBSET group, NEW tlsError \in BOOLEAN,
         err = "perm" => partial \subseteq taken /\ partial # group,
         pc = "dial" => taken = {},
         HostFailed(err, partial, taken, tlsError),
         UNCHANGED <<envelope, left, group, session>>,
         exposed' \subseteq exposed \cup taken,
         secured \/ taken = {} => exposed' = exposed
  PROVE  CallInv'
  <1> USE DEF CallInv
  <1>1. /\ UNCHANGED <<to, relay, requireTLS, left, group, secured, ok, refusal>>
        /\ pc' \in {"dial", "done"}
        /\ result'.took = result.took \cup taken
        /\ hosts' \in 0..MxHosts
        /\ insecure' \in BOOLEAN
        /\ result' \in Results
        /\ pc' = "done" => result' = [err |-> err, partial |-> partial,
                                     took |-> result.took \cup taken]
        /\ pc' # "done" => result'.err = "none" /\ result'.partial = {}
        /\ requireTLS => insecure' = FALSE
    <2>1. UNCHANGED <<to, relay, requireTLS, left, group, secured, ok, refusal>>
      BY DEF envelope, session
    <2>2. /\ result \in Results /\ err \in {"none", "temp", "perm"}
          /\ partial \in SUBSET Rcpts /\ result.took \cup taken \in SUBSET Rcpts
          /\ taken \in SUBSET Rcpts
          /\ result.err = "none" /\ result.partial = {}
          /\ hosts \in 0..MxHosts
      BY DEF TypeOK, Results, Errors, CallOpen, AtHost
    <2> DEFINE more == [result EXCEPT !.took = @ \cup taken]
    <2>a. /\ more \in Results
          /\ more.took = result.took \cup taken
          /\ more.err = "none" /\ more.partial = {}
      BY <2>2, TakenAdded
    <2> HIDE DEF more
    <2>3. CASE tlsError /\ ~requireTLS /\ ~insecure
      <3>1. pc' = "dial" /\ insecure' = TRUE /\ result' = more /\ hosts' = hosts
        BY <2>3 DEF HostFailed, more
      <3> QED
        BY <2>1, <2>2, <2>3, <2>a, <3>1
    <2>4. CASE ~(tlsError /\ ~requireTLS /\ ~insecure) /\ err = "temp" /\ hosts > 1
      <3>1. pc' = "dial" /\ insecure' = FALSE /\ result' = more /\ hosts' = hosts - 1
        BY <2>4 DEF HostFailed, more
      <3>2. hosts' \in 0..MxHosts
        BY <2>2, <2>4, <3>1, OutboundAssumption
      <3> QED
        BY <2>1, <2>2, <2>4, <2>a, <3>1, <3>2
    <2>5. CASE ~(tlsError /\ ~requireTLS /\ ~insecure) /\ ~(err = "temp" /\ hosts > 1)
      BY <2>1, <2>2, <2>5 DEF HostFailed, TypeOK, Results, NoWaiver
    <2> QED
      BY <2>3, <2>4, <2>5
  <1>2. TypeOK'
    BY <1>1 DEF TypeOK
  <1>3. CallOpen' /\ RcptsAnswered'
    BY <1>1 DEF CallOpen, RcptsAnswered
  <1>4. NoWaiver'
    BY <1>1 DEF NoWaiver, AtHost
  <1>5. TakenSoFar'
    <2>1. CASE relay
      BY <1>1, <2>1 DEF TakenSoFar, AtHost
    <2>2. CASE ~relay
      <3>1. PICK d \in DomainsOf(to) \ left :
              /\ group = RcptsAt(to, d)
              /\ \E here \in SUBSET group :
                   result.took = here \cup {r \in to : DomainOf[r] \notin left \cup {d}}
        BY <2>2 DEF TakenSoFar
      <3>2. PICK here \in SUBSET group :
              result.took = here \cup {r \in to : DomainOf[r] \notin left \cup {d}}
        BY <3>1
      <3> DEFINE rest == {r \in to : DomainOf[r] \notin left \cup {d}}
      <3>3. here \cup taken \in SUBSET group /\ result'.took = (here \cup taken) \cup rest
        BY <1>1, <3>2
      <3>4. \E h \in SUBSET group' :
              result'.took = h \cup {r \in to' : DomainOf[r] \notin left' \cup {d}}
        BY <1>1, <3>3
      <3>5. d \in DomainsOf(to)' \ left' /\ group' = RcptsAt(to, d)'
        BY <1>1, <3>1 DEF DomainsOf, RcptsAt
      <3> QED
        BY <1>1, <2>2, <3>4, <3>5 DEF TakenSoFar
    <2> QED
      BY <2>1, <2>2 DEF TypeOK
  <1>6. EndsAsExpected'
    <2> SUFFICES ASSUME pc' = "done"
                 PROVE  result' \in IF relay THEN Relayed!SendResults(to) ELSE SendResults(to)
      BY <1>1 DEF EndsAsExpected
    <2>1. result' = [err |-> err, partial |-> partial, took |-> result.took \cup taken]
      BY <1>1
    <2>2. CASE relay
      <3>1. group = to /\ to # {} /\ to \in SUBSET Rcpts /\ result.took \in SUBSET to
        BY <2>2 DEF CallOpen, TypeOK, TakenSoFar
      <3>2. result' \in Relayed!SendResults(to)
        BY <2>1, <3>1, RelayFailureExpected DEF Errors
      <3> QED
        BY <2>2, <3>2
    <2>3. CASE ~relay
      <3>1. PICK d \in DomainsOf(to) \ left :
              /\ group = RcptsAt(to, d)
              /\ \E here \in SUBSET group :
                   result.took = here \cup {r \in to : DomainOf[r] \notin left \cup {d}}
        BY <2>3 DEF TakenSoFar
      <3>2. PICK here \in SUBSET group :
              result.took = here \cup {r \in to : DomainOf[r] \notin left \cup {d}}
        BY <3>1
      <3> DEFINE done == DomainsOf(to) \ (left \cup {d})
      <3>3. result.took \cup taken = (here \cup taken) \cup {r \in to : DomainOf[r] \in done}
        <4>1. ASSUME NEW r \in to
              PROVE  DomainOf[r] \notin left \cup {d} <=> DomainOf[r] \in done
          BY DomainsCover
        <4>2. {r \in to : DomainOf[r] \notin left \cup {d}} = {r \in to : DomainOf[r] \in done}
          BY <4>1
        <4> QED
          BY <3>2, <4>2
      <3>4. /\ done \in SUBSET (DomainsOf(to) \ {d})
            /\ here \cup taken \in SUBSET RcptsAt(to, d)
            /\ partial \in SUBSET RcptsAt(to, d)
            /\ to \in SUBSET Rcpts
            /\ err = "perm" => partial \subseteq here \cup taken /\ partial # RcptsAt(to, d)
        BY <3>1, <3>2 DEF TypeOK
      <3> HIDE DEF done
      <3>5. result' \in SendResults(to)
        BY <2>1, <3>3, <3>4, FailureExpected DEF Errors
      <3> QED
        BY <2>3, <3>5
    <2> QED
      BY <2>2, <2>3 DEF TypeOK
  <1> QED
    BY <1>2, <1>3, <1>4, <1>5, <1>6

LEMMA BadRecipientKeeps == CallInv /\ BadRecipient => CallInv'
  <1> SUFFICES ASSUME CallInv, BadRecipient PROVE CallInv'
    OBVIOUS
  <1>1. PICK err \in Errors : Return(err, {})
    BY DEF BadRecipient
  <1>2. /\ pc = "domain" /\ pc' = "done" /\ left = DomainsOf(to) /\ ~relay
        /\ UNCHANGED <<to, relay, requireTLS, left, group, hosts, insecure, secured, ok,
                      refusal, exposed>>
        /\ to \in SUBSET Rcpts /\ to # {} /\ result \in Results
    BY <1>1 DEF BadRecipient, Return, CallInv, CallOpen, TypeOK, envelope, session
  <1>3. result' = [err |-> err, partial |-> {}, took |-> result.took]
    BY <1>1, <1>2 DEF Return, Results
  <1>4. result.took = {}
    BY <1>2, DomainsCover DEF CallInv, TakenSoFar
  <1>5. PICK d \in DomainsOf(to) : TRUE
    BY <1>2 DEF DomainsOf
  <1>6. result'.took = {} \cup {r \in to : DomainOf[r] \in {}}
    BY <1>3, <1>4
  <1>7. result' = [err |-> err, partial |-> {}, took |-> {} \cup {r \in to : DomainOf[r] \in {}}]
    BY <1>3, <1>6
  <1>8. RcptsAt(to, d) # {}
    BY <1>5, RcptsAtSome
  <1>9. result' \in SendResults(to)
    BY <1>2, <1>5, <1>7, <1>8, FailureExpected DEF Errors
  <1>10. result' \in Results
    BY <1>2, <1>3 DEF Results, Errors
  <1> QED
    BY <1>2, <1>3, <1>9, <1>10
       DEF CallInv, TypeOK, CallOpen, TakenSoFar, AtHost, RcptsAnswered, NoWaiver, EndsAsExpected

LEMMA LookupMxKeeps ==
  ASSUME CallInv, NEW d \in left, LookupMx(d)
  PROVE  CallInv'
  <1>1. /\ pc = "domain" /\ d \in DomainsOf(to) /\ left' = left \ {d} /\ ~relay
        /\ UNCHANGED <<to, relay, requireTLS, insecure, secured, ok, refusal, exposed>>
        /\ to \in SUBSET Rcpts /\ to # {} /\ result \in Results
        /\ left \subseteq DomainsOf(to)
        /\ result.took = {r \in to : DomainOf[r] \notin left}
    BY DEF LookupMx, CallInv, CallOpen, TakenSoFar, TypeOK, envelope, session
  <1>2. CASE \E err \in Errors : Return(err, {}) /\ UNCHANGED <<group, hosts>>
    <2>1. PICK err \in Errors : Return(err, {}) /\ UNCHANGED <<group, hosts>>
      BY <1>2
    <2>2. result' = [err |-> err, partial |-> {}, took |-> result.took] /\ pc' = "done"
      BY <1>1, <2>1 DEF Return, Results
    <2> DEFINE done == DomainsOf(to) \ left
    <2>3. result.took = {} \cup {r \in to : DomainOf[r] \in done}
      <3>1. ASSUME NEW r \in to
            PROVE  DomainOf[r] \notin left <=> DomainOf[r] \in done
        BY DomainsCover
      <3>2. {r \in to : DomainOf[r] \notin left} = {r \in to : DomainOf[r] \in done}
        BY <3>1
      <3> QED
        BY <1>1, <3>2
    <2>4. done \in SUBSET (DomainsOf(to) \ {d}) /\ RcptsAt(to, d) # {}
      BY <1>1, RcptsAtSome
    <2>5. result' = [err |-> err, partial |-> {},
                     took |-> {} \cup {r \in to : DomainOf[r] \in done}]
      BY <2>2, <2>3
    <2> HIDE DEF done
    <2>6. result' \in SendResults(to)
      BY <1>1, <2>4, <2>5, FailureExpected DEF Errors
    <2>7. result' \in Results
      BY <1>1, <2>2 DEF Results, Errors
    <2> QED
      BY <1>1, <2>1, <2>2, <2>6, <2>7
         DEF CallInv, TypeOK, CallOpen, TakenSoFar, AtHost, RcptsAnswered, NoWaiver,
             EndsAsExpected
  <1>3. CASE /\ hosts' \in 1..MxHosts
             /\ group' = RcptsAt(to, d)
             /\ pc' = "dial"
             /\ UNCHANGED result
    <2>1. TypeOK'
      BY <1>1, <1>3, OutboundAssumption DEF CallInv, TypeOK, RcptsAt
    <2>2. CallOpen' /\ RcptsAnswered' /\ EndsAsExpected' /\ NoWaiver'
      BY <1>1, <1>3 DEF CallInv, CallOpen, RcptsAnswered, EndsAsExpected, NoWaiver
    <2>3. TakenSoFar'
      <3>1. d \in DomainsOf(to)' \ left' /\ group' = RcptsAt(to, d)'
        BY <1>1, <1>3 DEF DomainsOf, RcptsAt
      <3>2. result'.took = {} \cup {r \in to' : DomainOf[r] \notin left' \cup {d}}
        BY <1>1, <1>3
      <3>3. \E h \in SUBSET group' :
              result'.took = h \cup {r \in to' : DomainOf[r] \notin left' \cup {d}}
        BY <3>2
      <3> QED
        BY <1>1, <1>3, <3>1, <3>3 DEF TakenSoFar
    <2> QED
      BY <2>1, <2>2, <2>3 DEF CallInv
  <1> QED
    BY <1>2, <1>3 DEF LookupMx

LEMMA AllDomainsDoneKeeps == CallInv /\ AllDomainsDone => CallInv'
  <1> SUFFICES ASSUME CallInv, AllDomainsDone PROVE CallInv'
    OBVIOUS
  <1>1. /\ pc = "domain" /\ left = {} /\ Return("none", {}) /\ ~relay
        /\ UNCHANGED <<to, relay, requireTLS, left, group, hosts, insecure, secured, ok,
                      refusal, exposed>>
        /\ to \in SUBSET Rcpts /\ result \in Results
    BY DEF AllDomainsDone, CallInv, CallOpen, TypeOK, envelope, session
  <1>2. result.took = to
    BY <1>1 DEF CallInv, TakenSoFar
  <1>3. result' = Success(to) /\ pc' = "done"
    BY <1>1, <1>2 DEF Return, Results, Success
  <1>4. result' \in SendResults(to) /\ result' \in Results
    BY <1>1, <1>3, SuccessExpected DEF Success, Results
  <1>5. exposed \subseteq result'.took
    BY <1>2, <1>3 DEF CallInv, TypeOK, Success
  <1> QED
    BY <1>1, <1>3, <1>4, <1>5
       DEF CallInv, TypeOK, CallOpen, TakenSoFar, AtHost, RcptsAnswered, NoWaiver, EndsAsExpected

\* A dialogue that ends before anything was handed over.
LEMMA RefusedKeeps ==
  ASSUME CallInv, AtHost, Refused
  PROVE  CallInv'
  <1>1. PICK err \in Errors, tlsError \in BOOLEAN : HostFailed(err, {}, {}, tlsError)
    BY DEF Refused
  <1>2. UNCHANGED <<envelope, left, group, session>> /\ exposed' = exposed
    BY DEF Refused
  <1>3. group # {}
    BY RcptsAtSome DEF CallInv, TakenSoFar, CallOpen, TypeOK
  <1> QED
    BY <1>1, <1>2, <1>3, HostFailedKeeps

LEMMA DialKeeps == CallInv /\ Dial => CallInv'
  <1> SUFFICES ASSUME CallInv, Dial PROVE CallInv'
    OBVIOUS
  <1>1. CASE Refused
    BY <1>1, RefusedKeeps DEF Dial, AtHost
  <1>2. CASE ~Refused
    <2>1. /\ pc = "dial" /\ pc' = "envelope" /\ ok' = {} /\ refusal' = "none"
          /\ secured' \in BOOLEAN
          /\ requireTLS /\ ~insecure => secured'
          /\ UNCHANGED <<to, relay, requireTLS, left, group, hosts, insecure, result, exposed>>
      BY <1>2 DEF Dial, envelope
    <2>2. TypeOK' /\ CallOpen' /\ RcptsAnswered' /\ EndsAsExpected'
      BY <2>1 DEF CallInv, TypeOK, CallOpen, RcptsAnswered, EndsAsExpected
    <2>3. NoWaiver'
      BY <2>1 DEF CallInv, TypeOK, NoWaiver
    <2>4. TakenSoFar'
      BY <2>1 DEF CallInv, TakenSoFar, AtHost, DomainsOf, RcptsAt
    <2> QED
      BY <2>2, <2>3, <2>4 DEF CallInv
  <1> QED
    BY <1>1, <1>2

LEMMA EnvelopeKeeps == CallInv /\ Envelope => CallInv'
  <1> SUFFICES ASSUME CallInv, Envelope PROVE CallInv'
    OBVIOUS
  <1>1. CASE Refused
    BY <1>1, RefusedKeeps DEF Envelope, AtHost
  <1>2. CASE ~Refused
    <2>1. /\ pc = "envelope" /\ pc' = "data"
          /\ ok' \in SUBSET group /\ ok' # {}
          /\ refusal' \in Errors \cup {"none"}
          /\ refusal' = "none" <=> ok' = group
          /\ UNCHANGED <<to, relay, requireTLS, left, group, hosts, insecure, secured, result,
                        exposed>>
      BY <1>2 DEF Envelope, envelope, Errors
    <2>2. TypeOK' /\ CallOpen' /\ RcptsAnswered' /\ EndsAsExpected'
      BY <2>1 DEF CallInv, TypeOK, CallOpen, RcptsAnswered, EndsAsExpected
    <2>3. NoWaiver'
      BY <2>1 DEF CallInv, TypeOK, NoWaiver
    <2>4. TakenSoFar'
      BY <2>1 DEF CallInv, TakenSoFar, AtHost, DomainsOf, RcptsAt
    <2> QED
      BY <2>2, <2>3, <2>4 DEF CallInv
  <1> QED
    BY <1>1, <1>2

\* The present host took the message for all it was asked to take.
LEMMA HostDoneKeeps ==
  ASSUME CallInv, pc = "data", refusal = "none", HostDone,
         UNCHANGED <<envelope, left, group, session>>,
         exposed' = IF secured THEN exposed ELSE exposed \cup ok
  PROVE  CallInv'
  <1>1. /\ UNCHANGED <<to, relay, requireTLS, left, group, secured, ok, refusal, hosts>>
        /\ pc' = IF relay THEN "done" ELSE "domain"
        /\ insecure' = FALSE
        /\ result' = [result EXCEPT !.took = @ \cup ok]
        /\ ok = group
        /\ to \in SUBSET Rcpts /\ result \in Results /\ group \in SUBSET to
        /\ result.err = "none" /\ result.partial = {}
        /\ relay \in BOOLEAN
    BY DEF HostDone, envelope, session, CallInv, CallOpen, RcptsAnswered, TypeOK
  <1>2. /\ result' \in Results
        /\ result'.took = result.took \cup group
        /\ result'.err = "none" /\ result'.partial = {}
    BY <1>1, TakenAdded
  <1>3. TypeOK'
    BY <1>1, <1>2 DEF CallInv, TypeOK
  <1>4. NoWaiver' /\ CallOpen' /\ RcptsAnswered'
    BY <1>1, <1>2 DEF CallInv, NoWaiver, CallOpen, RcptsAnswered
  <1>5. relay => result'.took = to
    BY <1>1, <1>2 DEF CallInv, TakenSoFar, CallOpen, AtHost
  <1>6. TakenSoFar'
    <2>1. CASE relay
      BY <1>1, <2>1 DEF TakenSoFar, AtHost
    <2>2. CASE ~relay
      <3>1. PICK d \in DomainsOf(to) \ left :
              /\ group = RcptsAt(to, d)
              /\ \E here \in SUBSET group :
                   result.took = here \cup {r \in to : DomainOf[r] \notin left \cup {d}}
        BY <2>2 DEF CallInv, TakenSoFar, AtHost
      <3>2. result'.took = {r \in to : DomainOf[r] \notin left}
        BY <1>2, <3>1 DEF RcptsAt
      <3> QED
        BY <1>1, <2>2, <3>2 DEF TakenSoFar, AtHost
    <2> QED
      BY <1>1, <2>1, <2>2
  <1>7. EndsAsExpected'
    <2> SUFFICES ASSUME pc' = "done"
                 PROVE  relay' /\ result' \in Relayed!SendResults(to)'
      BY DEF EndsAsExpected
    <2>1. relay /\ result' = Success(to)
      BY <1>1, <1>2, <1>5 DEF Success, Results
    <2> QED
      BY <1>1, <2>1, SuccessExpected
  <1> QED
    BY <1>3, <1>4, <1>6, <1>7 DEF CallInv

LEMMA DataKeeps == CallInv /\ Data => CallInv'
  <1> SUFFICES ASSUME CallInv, Data PROVE CallInv'
    OBVIOUS
  <1>1. pc = "data" /\ AtHost /\ UNCHANGED <<envelope, left, group, session>>
    BY DEF Data, AtHost
  <1>2. /\ ok # {} /\ ok \in SUBSET group /\ {} \in SUBSET group /\ {} # group
        /\ refusal = "none" <=> ok = group
        /\ refusal \in Errors \cup {"none"}
        /\ "temp" \in Errors /\ "temp" # "perm"
    BY <1>1 DEF CallInv, RcptsAnswered, TypeOK, Errors
  <1>3. CASE /\ \E err \in Errors, tlsError \in BOOLEAN : HostFailed(err, {}, {}, tlsError)
             /\ UNCHANGED exposed
    BY <1>1, <1>3, RefusedKeeps DEF Refused
  <1>4. CASE /\ \E tlsError \in BOOLEAN : HostFailed("temp", ok, {}, tlsError)
             /\ UNCHANGED exposed
    <2>1. PICK tlsError \in BOOLEAN : HostFailed("temp", ok, {}, tlsError)
      BY <1>4
    <2> QED
      BY <1>1, <1>2, <1>4, <2>1, HostFailedKeeps
  <1>5. CASE /\ \E tlsError \in BOOLEAN : HostFailed("temp", {}, ok, tlsError)
             /\ exposed' = IF secured THEN exposed ELSE exposed \cup ok
    <2>1. PICK tlsError \in BOOLEAN : HostFailed("temp", {}, ok, tlsError)
      BY <1>5
    <2> QED
      BY <1>1, <1>2, <1>5, <2>1, HostFailedKeeps
  <1>6. CASE /\ refusal = "none" /\ HostDone
             /\ exposed' = IF secured THEN exposed ELSE exposed \cup ok
    BY <1>1, <1>6, HostDoneKeeps
  <1>7. CASE /\ refusal # "none"
             /\ \E tlsError \in BOOLEAN : HostFailed(refusal, ok, ok, tlsError)
             /\ exposed' = IF secured THEN exposed ELSE exposed \cup ok
    <2>1. PICK tlsError \in BOOLEAN : HostFailed(refusal, ok, ok, tlsError)
      BY <1>7
    <2> QED
      BY <1>1, <1>2, <1>7, <2>1, HostFailedKeeps
  <1> QED
    BY <1>3, <1>4, <1>5, <1>6, <1>7 DEF Data

LEMMA StutterKeeps == CallInv /\ UNCHANGED vars => CallInv'
  <1> SUFFICES ASSUME CallInv, UNCHANGED vars PROVE CallInv'
    OBVIOUS
  <1>1. UNCHANGED <<to, relay, requireTLS, pc, left, group, hosts, insecure, secured,
                    ok, refusal, result, exposed>>
    BY DEF vars
  <1> QED
    BY <1>1 DEF CallInv, TypeOK, CallOpen, TakenSoFar, AtHost, RcptsAnswered, NoWaiver,
                EndsAsExpected

-----------------------------------------------------------------------------
(* The results.                                                            *)

LEMMA CallStep == CallInv /\ [Next]_vars => CallInv'
  BY BadRecipientKeeps, LookupMxKeeps, AllDomainsDoneKeeps, DialKeeps, EnvelopeKeeps,
     DataKeeps, StutterKeeps DEF Next

LEMMA CallInvariant == Spec => []CallInv
  BY InitCallInv, CallStep, PTL DEF Spec

\* Type correctness of a call of Send, for every envelope and MX list.
THEOREM OutboundTypeCorrect == Spec => []TypeOK
  <1>1. CallInv => TypeOK
    BY DEF CallInv
  <1> QED
    BY <1>1, CallInvariant, PTL

\* Whatever the remote servers answer, Send ends in one of the results of
\* SendOutcome, the only ones the model of the worker reckons with: nil means
\* every recipient was taken, and a 5xx with a Partial that the Partial was.
THEOREM CallEndsAsExpected == Spec => []EndsAsExpected
  <1>1. CallInv => EndsAsExpected
    BY DEF CallInv
  <1> QED
    BY <1>1, CallInvariant, PTL

\* security.require_tls_outbound holds through every fallback: no copy leaves
\* over a session that is not both encrypted and verified.
THEOREM RequiredTLSHonoured == Spec => []TLSHonoured
  <1>1. CallInv => TLSHonoured
    BY DEF CallInv, NoWaiver, TLSHonoured
  <1> QED
    BY <1>1, CallInvariant, PTL

-----------------------------------------------------------------------------
(* ImapPoll.                                                               *)

Updates == [folder : Boxes, stats : Stats]

Halves == [folder : Boxes \cup {"none"}, count : Counts]

Selects == [at : {"no", "mailbox", "keep", "status", "next", "answer"},
            folder : Boxes \cup {"none"}, count : Counts, next : Nat]

PollInv ==
  /\ ImapPollTypeOK
  /\ half \in Halves
  /\ opening \in Selects
  /\ opening.at = "answer" => opening.next # 0
  /\ updates \in Seq(Updates)
  /\ failures \in Nat

LEMMA StatsKinds ==
  /\ Absent \notin Stats /\ Unread \notin Stats /\ Absent # Unread
  /\ "none" \notin Boxes /\ 0 \in Counts
  /\ NoHalf \in Halves /\ NoHalf.folder = "none"
  /\ Closed \in Selects /\ Closed.at = "no"
  BY ImapPollAssumption DEF Absent, Unread, Stats, Halves, NoHalf, Selects, Closed

LEMMA PollStart == ImapPollInit => PollInv
  <1> SUFFICES ASSUME ImapPollInit PROVE PollInv
    OBVIOUS
  <1>1. MaxWrites \in Nat /\ ChanSize \in Nat \ {0} /\ MaxFailures \in Nat
    BY ImapPollAssumption
  <1>2. updates \in Seq(Updates) /\ Len(updates) = 0
    BY DEF ImapPollInit
  <1>3. half \in Halves /\ half.folder = "none" /\ opening \in Selects /\ opening.at = "no"
    BY StatsKinds DEF ImapPollInit
  <1>4. [count |-> 0, next |-> 1] \in Stats
    BY StatsKinds DEF Stats
  <1>5. content \in [Boxes -> Stats] /\ snap \in [Boxes -> Stats \cup {Absent, Unread}]
    BY <1>4 DEF ImapPollInit
  <1>6. /\ rev = 0 /\ lastRev = 0 /\ unbumped = 0 /\ selected = "none" /\ polling = {}
        /\ ticked = FALSE /\ told = Absent /\ hidden = FALSE /\ dropped = {}
        /\ astray = FALSE /\ failures = 0
    BY DEF ImapPollInit
  <1>7. 0 \in Nat /\ 0 \in 0..0 /\ 0 <= MaxFailures /\ 0 <= ChanSize
    BY <1>1
  <1>8. ImapPollTypeOK
    BY <1>2, <1>3, <1>5, <1>6, <1>7 DEF ImapPollTypeOK
  <1> QED
    BY <1>2, <1>3, <1>6, <1>7, <1>8 DEF PollInv

LEMMA PollStep == PollInv /\ [ImapPollNext]_pollVars => PollInv'
  <1> SUFFICES ASSUME PollInv, [ImapPollNext]_pollVars PROVE PollInv'
    OBVIOUS
  <1>1. MaxWrites \in Nat /\ ChanSize \in Nat \ {0} /\ MaxFailures \in Nat
    BY ImapPollAssumption
  <1>2. Failure => failures' \in Nat /\ failures' <= MaxFailures
    BY <1>1 DEF Failure, PollInv
  <1> USE DEF PollInv, ImapPollTypeOK
  <1>3. ASSUME NEW f \in Boxes, Write(f)
        PROVE  PollInv'
    <2>1. PICK c \in Counts, n \in {content[f].next, content[f].next + 1} :
            content' = [content EXCEPT ![f] = [count |-> c, next |-> n]]
      BY <1>3 DEF Write
    <2>2. /\ unbumped' = unbumped + 1
          /\ UNCHANGED <<rev, selected, opening, told, astray, snap, lastRev, ticked, polling,
                         half, updates, hidden, dropped, failures>>
      BY <1>3 DEF Write, client, poller
    <2>3. [count |-> c, next |-> n] \in Stats
      BY DEF Stats
    <2>4. content' \in [Boxes -> Stats] /\ unbumped' \in Nat
      BY <2>1, <2>2, <2>3
    <2> QED
      BY <2>2, <2>4
  <1>4. ASSUME NEW f \in Boxes, Select(f)
        PROVE  PollInv'
    <2>1. /\ selected' = "none" /\ told' = Absent /\ astray' = FALSE
          /\ opening' = [Closed EXCEPT !.at = IF snap[f] = Absent THEN "mailbox" ELSE "status",
                                       !.folder = f]
          /\ UNCHANGED <<content, unbumped, rev, snap, lastRev, ticked, polling, half, updates,
                         hidden, dropped, failures>>
      BY <1>4 DEF Select, writers, poller
    <2>2. opening' \in Selects /\ opening'.folder = f /\ opening'.at \in {"mailbox", "status"}
      BY <2>1, StatsKinds DEF Closed, Selects
    <2> QED
      BY <2>1, <2>2
  <1>5. CASE ReadFirst
    <2>1. UNCHANGED <<content, unbumped, rev, selected, told, astray, snap, lastRev, ticked,
                      polling, half, updates, hidden, dropped, failures>>
      BY <1>5 DEF ReadFirst, writers, poller
    <2>2. /\ opening.at # "no" /\ opening'.at \in {"keep", "next"}
          /\ opening' \in Selects /\ opening'.folder = opening.folder
      <3>1. opening.at # "no"
        BY <1>5 DEF ReadFirst
      <3>2. content[opening.folder].count \in Counts
        BY <3>1 DEF Stats
      <3>3. PICK b \in {"keep", "next"} :
              opening' = [opening EXCEPT !.at = b, !.count = content[opening.folder].count]
        BY <1>5 DEF ReadFirst
      <3> QED
        BY <3>1, <3>2, <3>3 DEF Selects
    <2> QED
      BY <2>1, <2>2
  <1>6. CASE Keep
    <2>1. /\ UNCHANGED <<content, unbumped, rev, selected, told, astray, lastRev, ticked,
                         polling, half, updates, hidden, dropped>>
          /\ opening' = [opening EXCEPT !.at = "status", !.count = 0]
          /\ opening.at # "no"
      BY <1>6 DEF Keep, writers, poller
    <2>2. opening' \in Selects /\ opening'.folder = opening.folder /\ opening'.at = "status"
      BY <2>1, StatsKinds DEF Selects
    <2>3. failures' \in Nat /\ failures' <= MaxFailures
      BY <1>2, <1>6 DEF Keep
    <2>4. [count |-> opening.count, next |-> content[opening.folder].next] \in Stats
      BY <2>1 DEF Stats, Selects
    <2>5. snap' \in [Boxes -> Stats \cup {Absent, Unread}]
      BY <1>6, <2>4 DEF Keep
    <2> QED
      BY <2>1, <2>2, <2>3, <2>5
  <1>7. CASE ReadStatus
    <2>1. /\ UNCHANGED <<content, unbumped, rev, selected, told, astray, snap, lastRev, ticked,
                         polling, half, updates, hidden, dropped, failures>>
          /\ opening' = [opening EXCEPT !.at = "answer", !.next = content[opening.folder].next]
          /\ opening.at # "no"
      BY <1>7 DEF ReadStatus, writers, poller
    <2>2. content[opening.folder].next \in Nat \ {0}
      BY <2>1 DEF Stats
    <2>3. /\ opening' \in Selects /\ opening'.folder = opening.folder /\ opening'.at = "answer"
          /\ opening'.next # 0
      BY <2>1, <2>2 DEF Selects
    <2> QED
      BY <2>1, <2>3
  <1>8. CASE StatusFails
    <2>1. /\ UNCHANGED <<content, unbumped, rev, selected, told, astray, snap, lastRev, ticked,
                         polling, half, updates, hidden, dropped>>
          /\ opening' = Closed
      BY <1>8 DEF StatusFails, writers, poller
    <2>2. failures' \in Nat /\ failures' <= MaxFailures
      BY <1>2, <1>8 DEF StatusFails
    <2> QED
      BY <2>1, <2>2, StatsKinds
  <1>9. CASE AnswerSelect
    <2>1. /\ UNCHANGED <<content, unbumped, rev, snap, lastRev, ticked, polling, half, updates,
                         hidden, dropped, failures>>
          /\ selected' = opening.folder
          /\ told' = [count |-> opening.count, next |-> opening.next]
          /\ astray' \in BOOLEAN
          /\ opening' = Closed
          /\ opening.at = "answer"
      BY <1>9 DEF AnswerSelect, writers, poller
    <2>2. told' \in Stats
      BY <2>1 DEF Stats, Selects
    <2> QED
      BY <2>1, <2>2, StatsKinds
  <1>10. CASE Bump
    <2>1. /\ unbumped > 0 /\ unbumped' = unbumped - 1
          /\ \/ rev' = rev + 1 /\ hidden' = FALSE /\ failures' = failures
             \/ Failure /\ hidden' = TRUE /\ rev' = rev
          /\ UNCHANGED <<content, selected, opening, told, astray, snap, lastRev, ticked, polling,
                         half, updates, dropped>>
      BY <1>10 DEF Bump, client, poller
    <2>2. unbumped' \in Nat /\ rev' \in Nat /\ lastRev' \in 0..rev'
      BY <2>1
    <2>3. failures' \in Nat /\ failures' <= MaxFailures
      BY <1>2, <2>1
    <2>4. hidden' \in BOOLEAN
      BY <2>1
    <2> QED
      BY <2>1, <2>2, <2>3, <2>4
  <1>11. CASE Tick
    <2>1. /\ lastRev' = rev /\ ticked' = TRUE
          /\ UNCHANGED <<content, unbumped, rev, selected, opening, told, astray, snap, polling,
                         half, updates, hidden, dropped, failures>>
      BY <1>11 DEF Tick, writers, client
    <2>2. lastRev' \in 0..rev'
      BY <2>1
    <2> QED
      BY <2>1, <2>2
  <1>12. CASE ListFolders
    <2>1. /\ ticked' = FALSE /\ polling' = Opened
          /\ UNCHANGED <<content, unbumped, rev, selected, opening, told, astray, snap, lastRev,
                         half, updates, hidden, dropped, failures>>
      BY <1>12 DEF ListFolders, writers, client
    <2>2. Opened \subseteq Boxes
      BY DEF Opened
    <2> QED
      BY <2>1, <2>2
  <1>13. ASSUME NEW f \in polling, ReadCount(f)
         PROVE  PollInv'
    <2>1. /\ polling' = polling \ {f}
          /\ \/ /\ half' = [folder |-> f, count |-> content[f].count]
                /\ hidden' = hidden /\ failures' = failures
             \/ Failure /\ hidden' = TRUE /\ half' = half
          /\ UNCHANGED <<content, unbumped, rev, selected, opening, told, astray, snap, lastRev,
                         ticked, updates, dropped>>
      BY <1>13 DEF ReadCount, writers, client
    <2>2. [folder |-> f, count |-> content[f].count] \in Halves
      BY DEF Halves, Stats
    <2>3. half' \in Halves /\ half'.folder \in Boxes \cup {"none"}
      BY <2>1, <2>2 DEF Halves
    <2>4. failures' \in Nat /\ failures' <= MaxFailures
      BY <1>2, <2>1
    <2>5. hidden' \in BOOLEAN
      BY <2>1
    <2> QED
      BY <2>1, <2>3, <2>4, <2>5
  <1>14. ASSUME NEW f \in Boxes, Compare(f)
         PROVE  PollInv'
    <2> DEFINE next == [count |-> half.count, next |-> content[f].next]
               news == [folder |-> f, stats |-> next]
    <2>1. next \in Stats
      BY DEF Stats, Halves
    <2>2. news \in Updates
      BY <2>1 DEF Updates
    <2>3. /\ half' = NoHalf /\ snap' = [snap EXCEPT ![f] = next]
          /\ \/ UNCHANGED <<updates, dropped, astray>>
             \/ /\ Len(updates) < ChanSize /\ updates' = Append(updates, news)
                /\ dropped' = dropped \ {f} /\ astray' \in BOOLEAN
             \/ updates' = updates /\ dropped' = dropped \cup {f} /\ astray' = astray
          /\ UNCHANGED <<content, unbumped, rev, selected, opening, told, lastRev, ticked, polling,
                         hidden, failures>>
      BY <1>14 DEF Compare, Announce, writers
    <2> HIDE DEF next, news
    <2>4. snap' \in [Boxes -> Stats \cup {Absent, Unread}]
      BY <2>1, <2>3
    <2>5. updates' \in Seq(Updates) /\ Len(updates') <= ChanSize
      <3>1. CASE updates' = updates
        BY <3>1
      <3>2. CASE updates' = Append(updates, news) /\ Len(updates) < ChanSize
        <4>1. updates' \in Seq(Updates) /\ Len(updates') = Len(updates) + 1 /\ Len(updates) \in Nat
          BY <2>2, <3>2
        <4> QED
          BY <1>1, <3>2, <4>1
      <3> QED
        BY <2>3, <3>1, <3>2
    <2>6. dropped' \subseteq Boxes /\ astray' \in BOOLEAN
      BY <2>3
    <2> QED
      BY <2>3, <2>4, <2>5, <2>6, StatsKinds
  <1>15. CASE Deliver
    <2>1. /\ updates # <<>> /\ updates' = Tail(updates)
          /\ told' = IF Head(updates).folder = selected THEN Head(updates).stats ELSE told
          /\ UNCHANGED <<content, unbumped, rev, selected, opening, astray, snap, lastRev, ticked,
                         polling, half, hidden, dropped, failures>>
      BY <1>15 DEF Deliver, writers, poller
    <2>2. Head(updates) \in Updates /\ Tail(updates) \in Seq(Updates) /\ Len(Tail(updates)) <= ChanSize
      BY <1>1, <2>1
    <2>3. told' \in Stats \cup {Absent}
      BY <2>1, <2>2 DEF Updates
    <2> QED
      BY <2>1, <2>2, <2>3
  <1>16. CASE UNCHANGED pollVars
    BY <1>16 DEF pollVars
  <1> QED
    BY <1>3, <1>4, <1>5, <1>6, <1>7, <1>8, <1>9, <1>10, <1>11, <1>12, <1>13, <1>14, <1>15, <1>16
    DEF ImapPollNext, Open, Poll, Finish

\* What a session has seen, the SELECT and the poll that are under way and the
\* channel keep their types, and the channel its capacity.
THEOREM ImapPollTypeCorrect == ImapPollSpec => []ImapPollTypeOK
  <1>1. PollInv => ImapPollTypeOK
    BY DEF PollInv
  <1> QED
    BY <1>1, PollStart, PollStep, PTL DEF ImapPollSpec

-----------------------------------------------------------------------------
(* News of a folder on its way to the client.                              *)

\* A change that is not yet seen has a poll, or a folder of the present one, to come.
Pending(f) == unbumped > 0 \/ rev # lastRev \/ ticked \/ f \in polling

\* The last update for folder f in the channel u has the stats s, or there is none.
Unsent(u, f) == \A j \in 1..Len(u) : u[j].folder # f
LastSent(u, f, s) ==
  \E i \in 1..Len(u) : /\ u[i].folder = f /\ u[i].stats = s
                       /\ \A j \in 1..Len(u) : j > i => u[j].folder # f

\* The poll and the client are at folders that the session keeps, and GetMailbox
\* takes a snapshot only of one that it does not keep.
AtOpened ==
  /\ polling \subseteq Opened
  /\ half.folder # "none" => half.folder \in Opened
  /\ selected # "none" => selected \in Opened
  /\ opening.at \in {"status", "next", "answer"} => opening.folder \in Opened
  /\ opening.at \in {"mailbox", "keep"} => snap[opening.folder] = Absent

\* When what the session, half of a poll or half of GetMailbox saw of folder f is not
\* what the folder has, a poll is to come that finds it.
Seen(f) ==
  /\ snap[f] \in Stats /\ snap[f] # content[f] => hidden \/ Pending(f) \/ half.folder = f
  /\ half.folder = f /\ half.count # content[f].count => hidden \/ Pending(f)
  /\ opening.at = "keep" /\ opening.folder = f /\ opening.count # content[f].count =>
       hidden \/ Pending(f)

\* What the session saw of a folder has been told or is in the channel, behind all
\* that is older.
ToldOrSent(f) ==
  /\ snap[f] \notin Stats => Unsent(updates, f) /\ (selected = f => astray)
  /\ snap[f] \in Stats /\ f \notin dropped =>
       \/ LastSent(updates, f, snap[f])
       \/ Unsent(updates, f) /\ (selected = f => astray \/ told = snap[f])

NewsInv == PollInv /\ AtOpened /\ \A f \in Boxes : Seen(f) /\ ToldOrSent(f)

\* An update that is sent is the last for its folder, and of no other folder.
LEMMA AfterAppend ==
  ASSUME NEW u \in Seq(Updates), NEW x \in Updates, NEW f, NEW s
  PROVE  /\ LastSent(Append(u, x), x.folder, x.stats)
         /\ f # x.folder /\ Unsent(u, f) => Unsent(Append(u, x), f)
         /\ f # x.folder /\ LastSent(u, f, s) => LastSent(Append(u, x), f, s)
  <1> DEFINE v == Append(u, x)
  <1>1. /\ Len(u) \in Nat /\ Len(v) = Len(u) + 1 /\ v[Len(u) + 1] = x
        /\ \A i \in 1..Len(u) : v[i] = u[i]
    OBVIOUS
  <1> HIDE DEF v
  <1>2. LastSent(v, x.folder, x.stats)
    <2>1. Len(v) \in 1..Len(v) /\ v[Len(v)] = x
      BY <1>1
    <2>2. \A j \in 1..Len(v) : ~ (j > Len(v))
      BY <1>1
    <2> QED
      BY <2>1, <2>2 DEF LastSent
  <1>3. ASSUME f # x.folder, Unsent(u, f) PROVE Unsent(v, f)
    BY <1>1, <1>3 DEF Unsent
  <1>4. ASSUME f # x.folder, LastSent(u, f, s) PROVE LastSent(v, f, s)
    <2>1. PICK i \in 1..Len(u) : /\ u[i].folder = f /\ u[i].stats = s
                                 /\ \A j \in 1..Len(u) : j > i => u[j].folder # f
      BY <1>4 DEF LastSent
    <2>2. i \in 1..Len(v) /\ v[i] = u[i]
      BY <1>1
    <2>3. ASSUME NEW j \in 1..Len(v), j > i PROVE v[j].folder # f
      BY <1>1, <1>4, <2>1, <2>3
    <2> QED
      BY <2>1, <2>2, <2>3 DEF LastSent
  <1> QED
    BY <1>2, <1>3, <1>4 DEF v

\* When the first update is taken, the last for a folder stays or was that one.
LEMMA AfterTail ==
  ASSUME NEW u \in Seq(Updates), u # <<>>, NEW f, NEW s
  PROVE  /\ Unsent(u, f) => Unsent(Tail(u), f) /\ Head(u).folder # f
         /\ LastSent(u, f, s) =>
              \/ LastSent(Tail(u), f, s)
              \/ Unsent(Tail(u), f) /\ Head(u).folder = f /\ Head(u).stats = s
  <1> DEFINE v == Tail(u)
  <1>1. /\ Len(u) \in Nat \ {0} /\ Len(v) = Len(u) - 1 /\ Head(u) = u[1]
        /\ \A i \in 1..Len(v) : v[i] = u[i + 1] /\ i + 1 \in 1..Len(u)
    OBVIOUS
  <1> HIDE DEF v
  <1>2. ASSUME Unsent(u, f) PROVE Unsent(v, f) /\ Head(u).folder # f
    BY <1>1, <1>2 DEF Unsent
  <1>3. ASSUME LastSent(u, f, s)
        PROVE  \/ LastSent(v, f, s)
               \/ Unsent(v, f) /\ Head(u).folder = f /\ Head(u).stats = s
    <2>1. PICK i \in 1..Len(u) : /\ u[i].folder = f /\ u[i].stats = s
                                 /\ \A j \in 1..Len(u) : j > i => u[j].folder # f
      BY <1>3 DEF LastSent
    <2>2. CASE i = 1
      <3>1. ASSUME NEW j \in 1..Len(v) PROVE v[j].folder # f
        <4>1. j + 1 > i
          BY <1>1, <2>2
        <4> QED
          BY <1>1, <2>1, <4>1
      <3> QED
        BY <1>1, <2>1, <2>2, <3>1 DEF Unsent
    <2>3. CASE i # 1
      <3>1. i - 1 \in 1..Len(v) /\ (i - 1) + 1 = i
        BY <1>1, <2>3
      <3>2. v[i - 1] = u[i]
        BY <1>1, <3>1
      <3>3. ASSUME NEW j \in 1..Len(v), j > i - 1 PROVE v[j].folder # f
        <4>1. j + 1 > i
          BY <1>1, <3>3
        <4> QED
          BY <1>1, <2>1, <4>1
      <3> QED
        BY <2>1, <3>1, <3>2, <3>3 DEF LastSent
    <2> QED
      BY <2>2, <2>3
  <1> QED
    BY <1>2, <1>3 DEF v

LEMMA NewsStart == ImapPollInit => NewsInv
  <1> SUFFICES ASSUME ImapPollInit PROVE NewsInv
    OBVIOUS
  <1>1. PollInv
    BY PollStart
  <1>2. /\ selected = "none" /\ polling = {} /\ half.folder = "none" /\ updates = <<>>
        /\ opening.at = "no" /\ \A f \in Boxes : snap[f] = Absent
    BY DEF ImapPollInit, NoHalf, Closed
  <1>3. AtOpened
    BY <1>2 DEF AtOpened
  <1>4. ASSUME NEW f \in Boxes PROVE Seen(f) /\ ToldOrSent(f)
    <2>1. snap[f] \notin Stats /\ half.folder # f /\ selected # f
      BY <1>2, StatsKinds
    <2>2. Unsent(updates, f)
      BY <1>2 DEF Unsent
    <2> QED
      BY <1>2, <2>1, <2>2 DEF Seen, ToldOrSent
  <1> QED
    BY <1>1, <1>3, <1>4 DEF NewsInv

\* One lemma for each action.

LEMMA NewsWrite ==
  ASSUME NewsInv, NEW f \in Boxes, Write(f)
  PROVE  AtOpened' /\ \A g \in Boxes : Seen(g)' /\ ToldOrSent(g)'
  <1> USE DEF NewsInv, PollInv, ImapPollTypeOK
  <1>1. /\ unbumped' = unbumped + 1
        /\ UNCHANGED <<rev, selected, opening, told, astray, snap, lastRev, ticked, polling, half,
                       updates, hidden, dropped>>
    BY DEF Write, client, poller
  <1>2. \A g \in Boxes : Pending(g)'
    BY <1>1 DEF Pending
  <1>3. AtOpened'
    BY <1>1 DEF AtOpened, Opened
  <1>4. ASSUME NEW g \in Boxes PROVE Seen(g)' /\ ToldOrSent(g)'
    <2>1. Seen(g)'
      BY <1>2 DEF Seen
    <2>2. ToldOrSent(g)'
      BY <1>1 DEF ToldOrSent
    <2> QED
      BY <2>1, <2>2
  <1> QED
    BY <1>3, <1>4

LEMMA NewsSelect ==
  ASSUME NewsInv, NEW f \in Boxes, Select(f)
  PROVE  AtOpened' /\ \A g \in Boxes : Seen(g)' /\ ToldOrSent(g)'
  <1> USE DEF NewsInv
  <1>1. /\ selected' = "none"
        /\ opening' = [Closed EXCEPT !.at = IF snap[f] = Absent THEN "mailbox" ELSE "status",
                                     !.folder = f]
        /\ UNCHANGED <<content, unbumped, rev, snap, lastRev, ticked, polling, half, updates,
                       hidden, dropped>>
    BY DEF Select, writers, poller
  <1>2. /\ opening'.folder = f
        /\ opening'.at = IF snap[f] = Absent THEN "mailbox" ELSE "status"
    BY <1>1 DEF Closed
  <1>3. AtOpened'
    BY <1>1, <1>2 DEF AtOpened, Opened
  <1>4. ASSUME NEW g \in Boxes PROVE Seen(g)' /\ ToldOrSent(g)'
    <2>1. Seen(g) /\ ToldOrSent(g) /\ (Pending(g)' <=> Pending(g)) /\ selected' # g
      BY <1>1, StatsKinds DEF Pending
    <2>2. Seen(g)'
      BY <1>1, <1>2, <2>1 DEF Seen
    <2>3. ToldOrSent(g)'
      BY <1>1, <2>1 DEF ToldOrSent
    <2> QED
      BY <2>2, <2>3
  <1> QED
    BY <1>3, <1>4

LEMMA NewsReadFirst ==
  ASSUME NewsInv, ReadFirst
  PROVE  AtOpened' /\ \A g \in Boxes : Seen(g)' /\ ToldOrSent(g)'
  <1> USE DEF NewsInv, PollInv, ImapPollTypeOK
  <1>1. /\ opening.at = "mailbox" \/ opening.at = "status"
        /\ opening' = [opening EXCEPT !.at = IF opening.at = "mailbox" THEN "keep" ELSE "next",
                                      !.count = content[opening.folder].count]
        /\ UNCHANGED <<content, unbumped, rev, selected, told, astray, snap, lastRev, ticked,
                       polling, half, updates, hidden, dropped>>
    BY DEF ReadFirst, writers, poller
  <1>2. /\ opening'.at = IF opening.at = "mailbox" THEN "keep" ELSE "next"
        /\ opening'.folder = opening.folder
        /\ opening'.count = content[opening.folder].count
    BY <1>1 DEF Selects
  <1>3. AtOpened'
    BY <1>1, <1>2 DEF AtOpened, Opened
  <1>4. ASSUME NEW g \in Boxes PROVE Seen(g)' /\ ToldOrSent(g)'
    <2>1. Seen(g) /\ ToldOrSent(g) /\ (Pending(g)' <=> Pending(g))
      BY <1>1 DEF Pending
    <2>2. opening'.folder = g => opening'.count = content'[g].count
      BY <1>1, <1>2
    <2>3. Seen(g)'
      BY <1>1, <2>1, <2>2 DEF Seen
    <2>4. ToldOrSent(g)'
      BY <1>1, <2>1 DEF ToldOrSent
    <2> QED
      BY <2>3, <2>4
  <1> QED
    BY <1>3, <1>4

LEMMA NewsKeep ==
  ASSUME NewsInv, Keep
  PROVE  AtOpened' /\ \A g \in Boxes : Seen(g)' /\ ToldOrSent(g)'
  <1> USE DEF NewsInv, PollInv, ImapPollTypeOK
  <1> DEFINE f == opening.folder
             new == [count |-> opening.count, next |-> content[f].next]
  <1>1. /\ opening.at \in {"mailbox", "keep"}
        /\ opening' = [opening EXCEPT !.at = "status", !.count = 0]
        /\ \/ opening.at = "keep" /\ snap' = [snap EXCEPT ![f] = new]
           \/ snap' = [snap EXCEPT ![f] = Unread]
        /\ UNCHANGED <<content, unbumped, rev, selected, told, astray, lastRev, ticked, polling,
                       half, updates, hidden, dropped>>
    BY DEF Keep, writers, poller
  <1>2. f \in Boxes /\ selected = "none" /\ snap[f] = Absent
    BY <1>1 DEF AtOpened
  <1>3. new \in Stats /\ new.count = opening.count /\ new.next = content[f].next
    BY <1>2 DEF Stats, Selects
  <1>4. new # content[f] => opening.count # content[f].count
    BY <1>2 DEF Stats
  <1>5. opening'.at = "status" /\ opening'.folder = f
    BY <1>1 DEF Selects
  <1>6. Unsent(updates, f) /\ half.folder # f
    BY <1>2, StatsKinds DEF ToldOrSent, AtOpened, Opened
  <1> HIDE DEF f, new
  <1>7. /\ (opening.at = "keep" /\ snap'[f] = new) \/ snap'[f] = Unread
        /\ \A g \in Boxes : g # f => snap'[g] = snap[g]
    BY <1>1, <1>2
  <1>8. AtOpened'
    <2>1. Opened \subseteq Opened' /\ f \in Opened'
      BY <1>2, <1>3, <1>7, StatsKinds DEF Opened
    <2> QED
      BY <1>1, <1>2, <1>5, <2>1 DEF AtOpened
  <1>9. ASSUME NEW g \in Boxes PROVE Seen(g)' /\ ToldOrSent(g)'
    <2>1. /\ Seen(g) /\ ToldOrSent(g) /\ (Pending(g)' <=> Pending(g)) /\ selected' # g
          /\ opening'.at # "keep"
      BY <1>1, <1>2, <1>5, StatsKinds DEF Pending
    <2>2. CASE g # f
      <3>1. snap'[g] = snap[g]
        BY <1>7, <2>2
      <3> QED
        BY <1>1, <2>1, <3>1 DEF Seen, ToldOrSent
    <2>3. CASE g = f
      <3>1. snap'[g] \in Stats /\ snap'[g] # content[g] => hidden \/ Pending(g)
        BY <1>4, <1>7, <2>1, <2>3, StatsKinds DEF Seen, f
      <3>2. Seen(g)'
        BY <1>1, <1>6, <2>1, <2>3, <3>1 DEF Seen
      <3>3. ToldOrSent(g)'
        BY <1>1, <1>6, <2>1, <2>3 DEF ToldOrSent
      <3> QED
        BY <3>2, <3>3
    <2> QED
      BY <2>2, <2>3
  <1> QED
    BY <1>8, <1>9

LEMMA NewsReadStatus ==
  ASSUME NewsInv, ReadStatus \/ StatusFails
  PROVE  AtOpened' /\ \A g \in Boxes : Seen(g)' /\ ToldOrSent(g)'
  <1> USE DEF NewsInv, PollInv, ImapPollTypeOK
  <1>1. /\ opening.at \in {"status", "next"}
        /\ \/ opening' = [opening EXCEPT !.at = "answer", !.next = content[opening.folder].next]
           \/ opening' = Closed
        /\ UNCHANGED <<content, unbumped, rev, selected, told, astray, snap, lastRev, ticked,
                       polling, half, updates, hidden, dropped>>
    BY DEF ReadStatus, StatusFails, writers, poller
  <1>2. \/ opening'.at = "answer" /\ opening'.folder = opening.folder
        \/ opening'.at = "no"
    <2>1. opening \in Selects
      OBVIOUS
    <2>2. ASSUME NEW n, opening' = [opening EXCEPT !.at = "answer", !.next = n]
          PROVE  opening'.at = "answer" /\ opening'.folder = opening.folder
      BY <2>1, <2>2 DEF Selects
    <2> QED
      BY <1>1, <2>2, StatsKinds
  <1>3. AtOpened'
    BY <1>1, <1>2 DEF AtOpened, Opened
  <1>4. ASSUME NEW g \in Boxes PROVE Seen(g)' /\ ToldOrSent(g)'
    <2>1. Seen(g) /\ ToldOrSent(g) /\ (Pending(g)' <=> Pending(g)) /\ opening'.at # "keep"
      BY <1>1, <1>2 DEF Pending
    <2> QED
      BY <1>1, <2>1 DEF Seen, ToldOrSent
  <1> QED
    BY <1>3, <1>4

LEMMA NewsAnswerSelect ==
  ASSUME NewsInv, AnswerSelect
  PROVE  AtOpened' /\ \A g \in Boxes : Seen(g)' /\ ToldOrSent(g)'
  <1> USE DEF NewsInv, PollInv, ImapPollTypeOK
  <1> DEFINE f == opening.folder
             stats == [count |-> opening.count, next |-> opening.next]
  <1>1. /\ opening.at = "answer" /\ opening' = Closed
        /\ selected' = f /\ told' = stats
        /\ astray' = (snap[f] # stats /\ ~ InChannel(f))
        /\ UNCHANGED <<content, unbumped, rev, snap, lastRev, ticked, polling, half, updates,
                       hidden, dropped>>
    BY DEF AnswerSelect, writers, poller
  <1>2. f \in Boxes /\ f \in Opened /\ stats \in Stats
    BY <1>1 DEF AtOpened, Selects, Stats
  <1> HIDE DEF f, stats
  <1>3. AtOpened'
    BY <1>1, <1>2, StatsKinds DEF AtOpened, Opened
  <1>4. InChannel(f) <=> ~ Unsent(updates, f)
    BY DEF InChannel, Unsent
  <1>5. ASSUME NEW g \in Boxes PROVE Seen(g)' /\ ToldOrSent(g)'
    <2>1. /\ Seen(g) /\ ToldOrSent(g) /\ (Pending(g)' <=> Pending(g)) /\ opening'.at = "no"
      BY <1>1, StatsKinds DEF Pending
    <2>2. Seen(g)'
      BY <1>1, <2>1 DEF Seen
    <2>3. LastSent(updates, g, snap[g]) => ~ Unsent(updates, g)
      BY DEF LastSent, Unsent
    <2>4. CASE g = f
      BY <1>1, <1>2, <1>4, <2>1, <2>2, <2>3, <2>4 DEF ToldOrSent
    <2>5. CASE g # f
      BY <1>1, <2>1, <2>2, <2>5 DEF ToldOrSent
    <2> QED
      BY <2>2, <2>4, <2>5
  <1> QED
    BY <1>3, <1>5

LEMMA NewsBump ==
  ASSUME NewsInv, Bump
  PROVE  AtOpened' /\ \A g \in Boxes : Seen(g)' /\ ToldOrSent(g)'
  <1> USE DEF NewsInv, PollInv, ImapPollTypeOK
  <1>1. /\ \/ rev' = rev + 1 /\ hidden' = FALSE
           \/ hidden' = TRUE
        /\ UNCHANGED <<content, selected, opening, told, astray, snap, lastRev, ticked, polling,
                       half, updates, dropped>>
    BY DEF Bump, client, poller
  <1>2. hidden' \/ rev' # lastRev'
    BY <1>1
  <1>3. AtOpened'
    BY <1>1 DEF AtOpened, Opened
  <1>4. ASSUME NEW g \in Boxes PROVE Seen(g)' /\ ToldOrSent(g)'
    <2>1. Seen(g) /\ ToldOrSent(g) /\ (hidden' \/ Pending(g)')
      BY <1>1, <1>2 DEF Pending
    <2>2. Seen(g)'
      BY <1>1, <2>1 DEF Seen
    <2>3. ToldOrSent(g)'
      BY <1>1, <2>1 DEF ToldOrSent
    <2> QED
      BY <2>2, <2>3
  <1> QED
    BY <1>3, <1>4

LEMMA NewsTick ==
  ASSUME NewsInv, Tick
  PROVE  AtOpened' /\ \A g \in Boxes : Seen(g)' /\ ToldOrSent(g)'
  <1> USE DEF NewsInv
  <1>1. /\ ticked' = TRUE
        /\ UNCHANGED <<content, selected, opening, told, astray, snap, polling, half, updates,
                       hidden, dropped>>
    BY DEF Tick, writers, client
  <1>2. AtOpened'
    BY <1>1 DEF AtOpened, Opened
  <1>3. ASSUME NEW g \in Boxes PROVE Seen(g)' /\ ToldOrSent(g)'
    <2>1. ToldOrSent(g) /\ Pending(g)'
      BY <1>1 DEF Pending
    <2>2. Seen(g)'
      BY <2>1 DEF Seen
    <2>3. ToldOrSent(g)'
      BY <1>1, <2>1 DEF ToldOrSent
    <2> QED
      BY <2>2, <2>3
  <1> QED
    BY <1>2, <1>3

\* The lock keeps a snapshot that GetMailbox is taking from being missed.
LEMMA NewsListFolders ==
  ASSUME NewsInv, ListFolders
  PROVE  AtOpened' /\ \A g \in Boxes : Seen(g)' /\ ToldOrSent(g)'
  <1> USE DEF NewsInv
  <1>1. /\ opening.at # "keep" /\ polling' = Opened
        /\ UNCHANGED <<content, unbumped, rev, selected, opening, told, astray, snap, lastRev,
                       half, updates, hidden, dropped>>
    BY DEF ListFolders, Locked, writers, client
  <1>2. AtOpened'
    BY <1>1 DEF AtOpened, Opened
  <1>3. ASSUME NEW g \in Boxes PROVE Seen(g)' /\ ToldOrSent(g)'
    <2>1. Seen(g) /\ ToldOrSent(g)
      OBVIOUS
    <2>2. snap[g] # Absent => Pending(g)'
      BY <1>1 DEF Pending, Opened
    <2>3. half.folder = g => snap[g] # Absent
      BY StatsKinds DEF AtOpened, Opened
    <2>4. Seen(g)'
      BY <1>1, <2>1, <2>2, <2>3, StatsKinds DEF Seen
    <2>5. ToldOrSent(g)'
      BY <1>1, <2>1 DEF ToldOrSent
    <2> QED
      BY <2>4, <2>5
  <1> QED
    BY <1>2, <1>3

LEMMA NewsReadCount ==
  ASSUME NewsInv, NEW f \in polling, ReadCount(f)
  PROVE  AtOpened' /\ \A g \in Boxes : Seen(g)' /\ ToldOrSent(g)'
  <1> USE DEF NewsInv
  <1>1. /\ half = NoHalf /\ polling' = polling \ {f}
        /\ \/ half' = [folder |-> f, count |-> content[f].count] /\ hidden' = hidden
           \/ hidden' = TRUE /\ half' = half
        /\ UNCHANGED <<content, unbumped, rev, selected, opening, told, astray, snap, lastRev,
                       ticked, updates, dropped>>
    BY DEF ReadCount, writers, client
  <1>2. f \in Opened
    BY DEF AtOpened
  <1>3. AtOpened'
    BY <1>1, <1>2, StatsKinds DEF AtOpened, Opened
  <1>4. ASSUME NEW g \in Boxes PROVE Seen(g)' /\ ToldOrSent(g)'
    <2>1. Seen(g) /\ ToldOrSent(g) /\ half.folder # g
      BY <1>1, StatsKinds
    <2>2. g # f => (Pending(g)' <=> Pending(g))
      BY <1>1 DEF Pending
    <2>3. opening.at = "keep" => opening.folder # f
      BY <1>2, StatsKinds DEF AtOpened, Opened
    <2>4. Seen(g)'
      <3>1. CASE hidden' = TRUE /\ half' = half
        BY <1>1, <2>1, <3>1 DEF Seen
      <3>2. CASE half' = [folder |-> f, count |-> content[f].count] /\ hidden' = hidden
        <4>1. half'.folder = f /\ half'.count = content[f].count
          BY <3>2
        <4>2. CASE g = f
          BY <1>1, <2>1, <2>3, <4>1, <4>2 DEF Seen
        <4>3. CASE g # f
          BY <1>1, <2>1, <2>2, <3>2, <4>1, <4>3 DEF Seen
        <4> QED
          BY <4>2, <4>3
      <3> QED
        BY <1>1, <3>1, <3>2
    <2>5. ToldOrSent(g)'
      BY <1>1, <2>1 DEF ToldOrSent
    <2> QED
      BY <2>4, <2>5
  <1> QED
    BY <1>3, <1>4

LEMMA NewsCompare ==
  ASSUME NewsInv, NEW f \in Boxes, Compare(f)
  PROVE  AtOpened' /\ \A g \in Boxes : Seen(g)' /\ ToldOrSent(g)'
  <1> USE DEF NewsInv
  <1> DEFINE next == [count |-> half.count, next |-> content[f].next]
             news == [folder |-> f, stats |-> next]
  <1>1. /\ half.folder = f /\ opening.at # "keep" /\ half' = NoHalf
        /\ snap' = [snap EXCEPT ![f] = next]
        /\ \/ snap[f] = next /\ UNCHANGED <<updates, dropped, astray>>
           \/ /\ snap[f] # Unread
              /\ updates' = Append(updates, news) /\ dropped' = dropped \ {f}
              /\ astray' = (astray /\ selected # f)
           \/ updates' = updates /\ dropped' = dropped \cup {f} /\ astray' = astray
        /\ UNCHANGED <<content, unbumped, rev, selected, opening, told, lastRev, ticked, polling,
                       hidden>>
    BY DEF Compare, Announce, Locked, writers
  <1>2. /\ snap \in [Boxes -> Stats \cup {Absent, Unread}] /\ content \in [Boxes -> Stats]
        /\ half.count \in Counts /\ updates \in Seq(Updates)
    BY DEF PollInv, ImapPollTypeOK, Halves
  <1>3. next \in Stats
    BY <1>2 DEF Stats
  <1>4. news \in Updates /\ news.folder = f /\ news.stats = next
    BY <1>3 DEF Updates
  <1>5. next # content[f] => half.count # content[f].count
    BY <1>2 DEF Stats
  <1> HIDE DEF next, news
  <1>6. /\ snap'[f] = next /\ \A g \in Boxes : g # f => snap'[g] = snap[g]
        /\ half'.folder = "none"
    BY <1>1, <1>2, StatsKinds
  <1>7. snap[f] # Absent
    BY <1>1, StatsKinds DEF AtOpened, Opened
  <1>8. AtOpened'
    <2>1. Opened' = Opened
      BY <1>3, <1>6, <1>7, StatsKinds DEF Opened
    <2>2. opening.at \in {"mailbox", "keep"} => opening.folder # f
      BY <1>7 DEF AtOpened
    <2>3. opening.at # "no" => opening.folder \in Boxes
      BY DEF PollInv, ImapPollTypeOK
    <2> QED
      BY <1>1, <1>6, <2>1, <2>2, <2>3 DEF AtOpened
  <1>9. ASSUME NEW g \in Boxes PROVE Seen(g)' /\ ToldOrSent(g)'
    <2>1. /\ Seen(g) /\ ToldOrSent(g) /\ half'.folder # g
          /\ Pending(g)' <=> Pending(g)
      BY <1>1, <1>6, StatsKinds DEF Pending
    <2>2. CASE g = f
      <3>1. snap'[g] = next /\ next \in Stats
        BY <1>3, <1>6, <2>2
      <3>2. next # content[g] => hidden' \/ Pending(g)'
        BY <1>1, <1>5, <2>1, <2>2 DEF Seen
      <3>3. Seen(g)'
        BY <1>1, <2>1, <3>1, <3>2 DEF Seen
      <3>4. ToldOrSent(g)'
        <4>1. CASE snap[f] = next /\ UNCHANGED <<updates, dropped, astray>>
          BY <1>1, <2>1, <2>2, <3>1, <4>1 DEF ToldOrSent
        <4>2. CASE updates' = Append(updates, news)
          <5>1. LastSent(updates', g, snap'[g])
            BY <1>2, <1>4, <2>2, <3>1, <4>2, AfterAppend
          <5> QED
            BY <3>1, <5>1 DEF ToldOrSent
        <4>3. CASE dropped' = dropped \cup {f}
          BY <2>2, <3>1, <4>3 DEF ToldOrSent
        <4> QED
          BY <1>1, <4>1, <4>2, <4>3
      <3> QED
        BY <3>3, <3>4
    <2>3. CASE g # f
      <3>1. /\ snap'[g] = snap[g] /\ half.folder # g /\ (g \in dropped' <=> g \in dropped)
            /\ selected = g => astray' = astray
        BY <1>1, <1>6, <2>3, StatsKinds DEF PollInv, ImapPollTypeOK
      <3>2. Seen(g)'
        BY <1>1, <2>1, <3>1 DEF Seen
      <3>3. /\ Unsent(updates, g) => Unsent(updates', g)
            /\ LastSent(updates, g, snap[g]) => LastSent(updates', g, snap[g])
        <4>1. CASE updates' = updates
          BY <4>1
        <4>2. CASE updates' = Append(updates, news)
          BY <1>2, <1>4, <2>3, <4>2, AfterAppend
        <4> QED
          BY <1>1, <4>1, <4>2
      <3>4. ToldOrSent(g)'
        BY <1>1, <2>1, <3>1, <3>3 DEF ToldOrSent
      <3> QED
        BY <3>2, <3>4
    <2> QED
      BY <2>2, <2>3
  <1> QED
    BY <1>8, <1>9

LEMMA NewsDeliver ==
  ASSUME NewsInv, Deliver
  PROVE  AtOpened' /\ \A g \in Boxes : Seen(g)' /\ ToldOrSent(g)'
  <1> USE DEF NewsInv
  <1>1. /\ updates # <<>> /\ updates' = Tail(updates)
        /\ told' = IF Head(updates).folder = selected THEN Head(updates).stats ELSE told
        /\ UNCHANGED <<content, unbumped, rev, selected, opening, astray, snap, lastRev, ticked,
                       polling, half, hidden, dropped>>
    BY DEF Deliver, writers, poller
  <1>2. updates \in Seq(Updates)
    BY DEF PollInv
  <1>3. AtOpened'
    BY <1>1 DEF AtOpened, Opened
  <1>4. ASSUME NEW g \in Boxes PROVE Seen(g)' /\ ToldOrSent(g)'
    <2>1. /\ Seen(g) /\ ToldOrSent(g) /\ (Pending(g)' <=> Pending(g))
      BY <1>1 DEF Pending
    <2>2. /\ Unsent(updates, g) => Unsent(updates', g) /\ Head(updates).folder # g
          /\ LastSent(updates, g, snap[g]) =>
               \/ LastSent(updates', g, snap[g])
               \/ /\ Unsent(updates', g)
                  /\ Head(updates).folder = g /\ Head(updates).stats = snap[g]
      BY <1>1, <1>2, AfterTail
    <2>3. Unsent(updates, g) /\ selected = g => told' = told
      BY <1>1, <2>2
    <2>4. Seen(g)'
      BY <1>1, <2>1 DEF Seen
    <2>5. ToldOrSent(g)'
      <3>1. snap[g] \notin Stats => Unsent(updates', g) /\ (selected = g => astray)
        BY <2>1, <2>2 DEF ToldOrSent
      <3>2. ASSUME snap[g] \in Stats, g \notin dropped
            PROVE  \/ LastSent(updates', g, snap[g])
                   \/ Unsent(updates', g) /\ (selected = g => astray \/ told' = snap[g])
        <4>1. CASE LastSent(updates, g, snap[g])
          BY <1>1, <2>2, <4>1
        <4>2. CASE Unsent(updates, g) /\ (selected = g => astray \/ told = snap[g])
          BY <2>2, <2>3, <4>2
        <4> QED
          BY <2>1, <3>2, <4>1, <4>2 DEF ToldOrSent
      <3> QED
        BY <1>1, <2>1, <3>1, <3>2 DEF ToldOrSent
    <2> QED
      BY <2>4, <2>5
  <1> QED
    BY <1>3, <1>4

LEMMA NewsStep == NewsInv /\ [ImapPollNext]_pollVars => NewsInv'
  <1> SUFFICES ASSUME NewsInv, [ImapPollNext]_pollVars PROVE NewsInv'
    OBVIOUS
  <1>1. PollInv'
    BY PollStep DEF NewsInv
  <1>2. AtOpened' /\ \A g \in Boxes : Seen(g)' /\ ToldOrSent(g)'
    <2>1. CASE UNCHANGED pollVars
      BY <2>1 DEF NewsInv, pollVars, AtOpened, Opened, Seen, ToldOrSent, Pending
    <2>2. CASE Open
      BY <2>2, NewsReadFirst, NewsKeep, NewsReadStatus, NewsAnswerSelect DEF Open
    <2> QED
      BY <2>1, <2>2, NewsWrite, NewsSelect, NewsBump, NewsTick, NewsListFolders, NewsReadCount,
         NewsCompare, NewsDeliver
      DEF ImapPollNext, Poll, Finish
  <1> QED
    BY <1>1, <1>2 DEF NewsInv

LEMMA NewsArrives == NewsInv => NewsUnderWay
  <1> SUFFICES ASSUME NewsInv, selected \in Boxes, told # content[selected], ~ Excused
               PROVE  UnderWay(selected)
    BY DEF NewsUnderWay
  <1> DEFINE f == selected
  <1>1. Seen(f) /\ ToldOrSent(f) /\ ~ hidden /\ f \notin dropped /\ ~ astray
    BY DEF NewsInv, Excused
  <1>2. snap[f] \in Stats
    BY <1>1 DEF ToldOrSent
  <1>3. snap[f] # content[f] => Pending(f) \/ half.folder = f
    BY <1>1, <1>2 DEF Seen
  <1>4. snap[f] = content[f] => \E i \in 1..Len(updates) : updates[i].folder = f
    BY <1>1, <1>2 DEF ToldOrSent, LastSent
  <1>5. DOMAIN updates = 1..Len(updates)
    BY DEF NewsInv, PollInv
  <1> QED
    BY <1>3, <1>4, <1>5 DEF UnderWay, Pending, InChannel

\* The poller of imapd loses no news by itself, for any number of folders and
\* writes and any capacity of the channel: what the client of a selected folder was
\* not told yet of its numbers is under way to it, whatever the order of bumps,
\* polls, updates and the steps of SELECT; or a statement failed, an update was not
\* sent, or SELECT itself answered other numbers than the poller compares with.
THEOREM NoNewsIsLost == ImapPollSpec => []NewsUnderWay
  <1> QED
    BY NewsStart, NewsStep, NewsArrives, PTL DEF ImapPollSpec

-----------------------------------------------------------------------------
(* Alerts.                                                                 *)

Notes == [at : {"idle", "issue", "send"}, issues : Seq(Issues), channels : Seq(Channels),
          left : Seq(Channels), spent : 0..TickTime, errs : BOOLEAN]

AlertInv ==
  /\ health \subseteq Issues
  /\ line \in [Channels -> {"works", "fails", "hangs"}]
  /\ wanted \subseteq Channels
  /\ notify \in Notes
  /\ notify.at # "idle" => notify.issues # <<>>
  /\ age \in [Issues -> 0..Cooldown]
  /\ heard \in [Issues -> SUBSET Channels]
  /\ changes \in 0..MaxChanges

LEMMA OneOrNone ==
  ASSUME NEW S, NEW x, NEW here, here => x \in S
  PROVE  When(here, x) \in Seq(S)
  BY DEF When

LEMMA IssuesCollected == CollectIssues \in Seq(Issues)
  <1>1. /\ When(Present("queue.error"), "queue.error") \in Seq(Issues)
        /\ When(Present("queue.dead"), "queue.dead") \in Seq(Issues)
        /\ When(Present("queue.pending"), "queue.pending") \in Seq(Issues)
        /\ When(Present("stack.missing"), "stack.missing") \in Seq(Issues)
    BY OneOrNone DEF Issues
  <1> QED
    BY <1>1 DEF CollectIssues

LEMMA ChannelsConfigured == wanted \subseteq Channels => Configured \in Seq(Channels)
  <1> SUFFICES ASSUME wanted \subseteq Channels PROVE Configured \in Seq(Channels)
    OBVIOUS
  <1>1. /\ When("email" \in wanted, "email") \in Seq(Channels)
        /\ When("telegram" \in wanted, "telegram") \in Seq(Channels)
        /\ When("webhook" \in wanted, "webhook") \in Seq(Channels)
    BY OneOrNone
  <1> QED
    BY <1>1 DEF Configured

LEMMA RestingNote == Resting \in Notes /\ Resting.at = "idle"
  <1>1. <<>> \in Seq(Issues) /\ <<>> \in Seq(Channels) /\ 0 \in 0..TickTime
    BY DEF TickTime
  <1> QED
    BY <1>1 DEF Resting, Notes

\* Notify goes on to the next issue.
LEMMA AdvanceNote ==
  ASSUME NEW n \in Notes, n.issues # <<>>
  PROVE  Advance(n) \in Notes /\ (Advance(n).at # "idle" => Advance(n).issues # <<>>)
  <1>1. n.issues \in Seq(Issues) /\ Len(n.issues) \in Nat
    BY DEF Notes
  <1>2. CASE Len(n.issues) = 1
    BY <1>2, RestingNote DEF Advance
  <1>3. CASE Len(n.issues) # 1
    <2>1. PICK rest \in Seq(Issues) : rest = Tail(n.issues) /\ rest # <<>>
      <3>1. Tail(n.issues) \in Seq(Issues) /\ Len(Tail(n.issues)) = Len(n.issues) - 1
            /\ Len(n.issues) >= 1
        BY <1>1
      <3>2. Len(Tail(n.issues)) # 0
        BY <1>1, <1>3, <3>1
      <3>3. Tail(n.issues) # <<>>
        <4>1. Len(<<>>) = 0
          OBVIOUS
        <4> QED
          BY <3>2, <4>1
      <3> QED
        BY <3>1, <3>3
    <2>2. Advance(n) = [n EXCEPT !.at = "issue", !.issues = rest, !.left = <<>>, !.errs = FALSE]
      BY <1>3, <2>1 DEF Advance
    <2>3. <<>> \in Seq(Channels)
      OBVIOUS
    <2>4. Advance(n) \in Notes /\ Advance(n).issues = rest
      BY <2>2, <2>3 DEF Notes
    <2> QED
      BY <2>1, <2>4
  <1> QED
    BY <1>2, <1>3

LEMMA AlertStart == AlertsInit => AlertInv
  <1> SUFFICES ASSUME AlertsInit PROVE AlertInv
    OBVIOUS
  <1>1. Cooldown \in 0..Cooldown /\ 0 \in 0..MaxChanges
    BY AlertsAssumption
  <1>2. health \subseteq Issues /\ wanted \subseteq Channels
    BY AlertsAssumption DEF AlertsInit
  <1>3. age \in [Issues -> 0..Cooldown] /\ heard \in [Issues -> SUBSET Channels]
    BY <1>1 DEF AlertsInit
  <1> QED
    BY <1>1, <1>2, <1>3, RestingNote DEF AlertsInit, AlertInv

LEMMA AlertStep == AlertInv /\ [AlertsNext]_alertVars => AlertInv'
  <1> SUFFICES ASSUME AlertInv, [AlertsNext]_alertVars PROVE AlertInv'
    OBVIOUS
  <1> USE DEF AlertInv
  <1>0. ASSUME Change
        PROVE  changes' \in 0..MaxChanges
    BY <1>0, AlertsAssumption DEF Change
  <1>1. CASE ConditionChanges
    <2>1. PICK i \in Watched :
            /\ Change
            /\ health' = IF i \in health THEN health \ {i} ELSE health \cup {i}
            /\ heard' = [heard EXCEPT ![i] = {}]
            /\ UNCHANGED <<line, wanted, notify, age>>
      BY <1>1 DEF ConditionChanges
    <2>2. i \in Issues
      BY AlertsAssumption
    <2>3. health' \subseteq Issues
      BY <2>1, <2>2
    <2>4. heard' \in [Issues -> SUBSET Channels]
      BY <2>1, <2>2
    <2> QED
      BY <1>0, <2>1, <2>3, <2>4
  <1>2. CASE ChannelChanges
    <2>1. PICK c \in Channels, new \in {"works", "fails", "hangs"} :
            Change /\ line' = [line EXCEPT ![c] = new] /\ UNCHANGED <<health, wanted, notify, age, heard>>
      BY <1>2 DEF ChannelChanges
    <2>2. line' \in [Channels -> {"works", "fails", "hangs"}]
      BY <2>1
    <2> QED
      BY <1>0, <2>1, <2>2
  <1>3. CASE Configure
    <2>1. PICK new \in SUBSET Channels :
            Change /\ wanted' = new /\ UNCHANGED <<health, line, notify, age, heard>>
      BY <1>3 DEF Configure
    <2> QED
      BY <1>0, <2>1
  <1>4. CASE Minute
    <2>1. /\ age' = [i \in Issues |-> IF age[i] < Cooldown THEN age[i] + 1 ELSE Cooldown]
          /\ notify' = IF wanted = {} \/ CollectIssues = <<>> THEN Resting
                       ELSE [Resting EXCEPT !.at = "issue", !.issues = CollectIssues,
                                          !.channels = Configured]
          /\ UNCHANGED <<health, line, wanted, heard, changes>>
      BY <1>4 DEF Minute
    <2>2. age' \in [Issues -> 0..Cooldown]
      BY <2>1, AlertsAssumption
    <2>3. PICK all \in Seq(Issues) : all = CollectIssues
      BY IssuesCollected
    <2>4. PICK over \in Seq(Channels) : over = Configured
      BY ChannelsConfigured
    <2>5. notify' \in Notes /\ (notify'.at # "idle" => notify'.issues # <<>>)
      <3>1. CASE notify' = Resting
        BY <3>1, RestingNote
      <3>2. CASE all # <<>> /\ notify' = [Resting EXCEPT !.at = "issue", !.issues = all, !.channels = over]
        <4>1. notify' \in Notes /\ notify'.issues = all
          BY <3>2, RestingNote DEF Notes
        <4> QED
          BY <3>2, <4>1
      <3> QED
        BY <2>1, <2>3, <2>4, <3>1, <3>2
    <2> QED
      BY <2>1, <2>2, <2>5
  <1>5. CASE Consider
    <2>1. /\ notify.at = "issue" /\ UNCHANGED <<health, line, wanted, age, heard, changes>>
          /\ \/ notify' = [notify EXCEPT !.at = "send", !.left = notify.channels]
             \/ notify' = Advance(notify)
      BY <1>5 DEF Consider
    <2>2. notify' \in Notes /\ (notify'.at # "idle" => notify'.issues # <<>>)
      <3>1. CASE notify' = [notify EXCEPT !.at = "send", !.left = notify.channels]
        <4>1. notify' \in Notes /\ notify'.issues = notify.issues
          BY <3>1 DEF Notes
        <4> QED
          BY <2>1, <4>1
      <3>2. CASE notify' = Advance(notify)
        BY <2>1, <3>2, AdvanceNote
      <3> QED
        BY <2>1, <3>1, <3>2
    <2> QED
      BY <2>1, <2>2
  <1>6. CASE Send
    <2> DEFINE c == Head(notify.left)
               inTime == notify.spent < TickTime
               good == inTime /\ line[c] = "works"
               cost == IF inTime /\ line[c] = "hangs" THEN Hang(c) ELSE 0
               rest == [well \in BOOLEAN |-> Tail(notify.left)]
               sum == notify.spent + cost
    <2>1. /\ notify.at = "send" /\ notify.left # <<>>
          /\ heard' = IF good /\ Issue \in health THEN [heard EXCEPT ![Issue] = heard[Issue] \cup {c}] ELSE heard
          /\ notify' = [notify EXCEPT !.left = rest[good], !.errs = notify.errs \/ ~good,
                          !.spent = IF sum > TickTime THEN TickTime ELSE sum]
          /\ UNCHANGED <<health, line, wanted, age, changes>>
      BY <1>6 DEF Send, SendOn
    <2>2. notify.left \in Seq(Channels) /\ notify.errs \in BOOLEAN /\ notify.spent \in 0..TickTime
      BY DEF Notes
    <2>3. c \in Channels /\ Tail(notify.left) \in Seq(Channels)
      BY <2>1, <2>2
    <2>4. good \in BOOLEAN
      OBVIOUS
    <2>5. PICK t \in Seq(Channels) : t = rest[good]
      BY <2>3, <2>4
    <2>6. cost \in Nat
      BY DEF Hang
    <2> HIDE DEF c, good, cost, rest, inTime
    <2>7. PICK spent \in 0..TickTime : spent = IF sum > TickTime THEN TickTime ELSE sum
      BY <2>2, <2>6 DEF TickTime
    <2>8. PICK errs \in BOOLEAN : errs = (notify.errs \/ ~good)
      BY <2>2, <2>4
    <2> HIDE DEF sum
    <2>9. notify' = [notify EXCEPT !.left = t, !.errs = errs, !.spent = spent]
      BY <2>1, <2>5, <2>7, <2>8
    <2>10. notify' \in Notes /\ notify'.issues = notify.issues /\ notify'.at = notify.at
      BY <2>9 DEF Notes
    <2>11. heard' \in [Issues -> SUBSET Channels]
      <3>1. CASE Issue \in health /\ heard' = [heard EXCEPT ![Issue] = heard[Issue] \cup {c}]
        <4>1. PICK i \in Issues : i = Issue
          BY <3>1
        <4> QED
          BY <2>3, <3>1, <4>1
      <3> QED
        BY <2>1, <3>1
    <2> QED
      BY <2>1, <2>10, <2>11
  <1>7. CASE Mark
    <2>1. /\ notify.at = "send" /\ UNCHANGED <<health, line, wanted, heard, changes>>
          /\ age' = age \/ age' = [age EXCEPT ![Issue] = 0]
          /\ notify' = Advance(notify)
      BY <1>7 DEF Mark
    <2>2. notify' \in Notes /\ (notify'.at # "idle" => notify'.issues # <<>>)
      BY <2>1, AdvanceNote
    <2>3. age' \in [Issues -> 0..Cooldown]
      <3>1. 0 \in 0..Cooldown
        BY AlertsAssumption
      <3>2. PICK i \in Issues : i = Issue
        BY <2>1 DEF Issue, Notes
      <3> QED
        BY <2>1, <3>1, <3>2
    <2> QED
      BY <2>1, <2>2, <2>3
  <1>8. CASE UNCHANGED alertVars
    BY <1>8 DEF alertVars
  <1> QED
    BY <1>1, <1>2, <1>3, <1>4, <1>5, <1>6, <1>7, <1>8 DEF AlertsNext, Watchdog

LEMMA AlertTyped == AlertInv => AlertsTypeOK
  <1> SUFFICES ASSUME AlertInv PROVE AlertsTypeOK
    OBVIOUS
  <1>1. /\ notify.at \in {"idle", "issue", "send"} /\ notify.issues \in Seq(Issues)
        /\ notify.channels \in Seq(Channels) /\ notify.left \in Seq(Channels)
        /\ notify.spent \in 0..TickTime /\ notify.errs \in BOOLEAN
    BY DEF AlertInv, Notes
  <1>2. \A S : \A s \in Seq(S) : Range(s) \subseteq S
    BY DEF Range
  <1> QED
    BY <1>1, <1>2 DEF AlertInv, AlertsTypeOK

\* The watchdog's notes, cooldowns and the rest of its time keep their types:
\* it tells only of issues there are, over channels there are.
THEOREM AlertsTypeCorrect == AlertsSpec => []AlertsTypeOK
BY AlertTyped, AlertStart, AlertStep, PTL DEF AlertsSpec

-----------------------------------------------------------------------------
(* Settings.                                                               *)

Strings == {"", "t", "r", "3", "4", "0", "60"}

\* A page and a backup hold the settings, but for the mark in place of a secret.
Shown(mark) ==
  {s \in [Keys -> Strings \cup {mark}] :
     \A k \in Keys : s[k] \in Values[k] \/ (k \in SecretKeys /\ s[k] = mark)}

\* What a request still has to write: values of the kind of their keys.
Bodies ==
  {b \in UNION {[ks -> Strings] : ks \in SUBSET Keys} : \A k \in DOMAIN b : b[k] \in Values[k]}

Tasks == [at : {"idle", "listed", "next", "row"}, op : {"", "turn", "get", "backup", "edit"},
          read : Tables \cup {Nothing}, body : Bodies, key : Keys \cup {""}]

SettingsInv ==
  /\ table \in Tables
  /\ cache \in [Processes -> Tables]
  /\ thread \in [Threads -> Tasks]
  /\ \A t \in Threads : /\ thread[t].at = "listed" => thread[t].read \in Tables
                        /\ thread[t].at = "row" => thread[t].key \in DOMAIN thread[t].body
  /\ form \in Shown(SecretMask) \cup {Nothing}
  /\ export \in Shown(Redacted) \cup {Nothing}
  /\ relayHost \in {"", "r"}
  /\ engine \in {"3", "4"}
  /\ glSecs \in {"0", "60"} /\ outdated \in BOOLEAN
  /\ edits \in 0..MaxEdits
  /\ setFailures \in 0..MaxSetFailures

LEMMA ValuesAre ==
  /\ Values["token"] = {"", "t"} /\ Values["relay"] = {"", "r"} /\ Values["flagAt"] = {"3", "4"}
  /\ Values["delay"] = {"0", "60"} /\ Values.delay = {"0", "60"}
  /\ Values.token = {"", "t"} /\ Values.relay = {"", "r"} /\ Values.flagAt = {"3", "4"}
  BY DEF Values

LEMMA ValuesStrings == \A k \in Keys : Values[k] \subseteq Strings
  BY ValuesAre DEF Keys, Strings

LEMMA TableValues ==
  ASSUME NEW s \in Tables
  PROVE  /\ s \in [Keys -> Strings] /\ \A k \in Keys : s[k] \in Values[k]
         /\ s.relay \in {"", "r"} /\ s.flagAt \in {"3", "4"} /\ s.delay \in {"0", "60"}
  <1>1. s \in [Keys -> Strings] /\ \A k \in Keys : s[k] \in Values[k]
    BY DEF Tables, Strings
  <1>2. "relay" \in Keys /\ "flagAt" \in Keys /\ "delay" \in Keys
    BY DEF Keys
  <1> QED
    BY <1>1, <1>2, ValuesAre

LEMMA NothingBody == Nothing \in Bodies /\ DOMAIN Nothing = {}
  <1>1. Nothing \in [{} -> Strings] /\ DOMAIN Nothing = {}
    BY DEF Nothing
  <1> QED
    BY <1>1 DEF Bodies

LEMMA QuietTask == Quiet \in Tasks /\ Quiet.at = "idle"
  BY NothingBody DEF Quiet, Tasks

LEMMA TableWritten ==
  ASSUME NEW s \in Tables, NEW k \in Keys, NEW v \in Values[k]
  PROVE  [s EXCEPT ![k] = v] \in Tables
  <1>1. v \in Strings
    BY ValuesStrings
  <1>2. [s EXCEPT ![k] = v] \in [Keys -> Strings]
    BY <1>1, TableValues
  <1>3. \A j \in Keys : [s EXCEPT ![k] = v][j] \in Values[j]
    BY TableValues
  <1> QED
    BY <1>2, <1>3 DEF Tables, Strings

\* PublicSettings and redactSettings.
LEMMA SettingsShown ==
  ASSUME NEW s \in Tables
  PROVE  PublicSettings(s) \in Shown(SecretMask) /\ RedactSettings(s) \in Shown(Redacted)
  <1>1. s \in [Keys -> Strings] /\ \A k \in Keys : s[k] \in Values[k]
    BY TableValues
  <1> QED
    BY <1>1 DEF PublicSettings, RedactSettings, Shown

LEMMA BodyOver ==
  ASSUME NEW ks \in SUBSET Keys, NEW b, b = [k \in ks |-> b[k]], \A k \in ks : b[k] \in Values[k]
  PROVE  b \in Bodies
  <1>1. b \in [ks -> Strings]
    BY ValuesStrings
  <1>2. DOMAIN b = ks
    OBVIOUS
  <1> QED
    BY <1>1, <1>2 DEF Bodies

\* What putSettings and restoreBackup leave of a page and of a backup is
\* values only: the mark is where the secret is, and there it is passed over.
LEMMA PutBodyClean ==
  ASSUME NEW page \in Shown(SecretMask), NEW k \in Keys, NEW v \in Values[k]
  PROVE  PutBody([page EXCEPT ![k] = v]) \in Bodies
  <1> DEFINE f == [page EXCEPT ![k] = v]
             ks == {j \in DOMAIN f : ~KeepsSecret(j, f[j])}
  <1>1. /\ DOMAIN f = Keys
        /\ \A j \in Keys : f[j] \in Values[j] \/ (j \in SecretKeys /\ f[j] = SecretMask)
    BY DEF Shown
  <1> HIDE DEF f
  <1>2. ks \in SUBSET Keys /\ \A j \in ks : f[j] \in Values[j]
    BY <1>1 DEF KeepsSecret
  <1> HIDE DEF ks
  <1> DEFINE b == [j \in ks |-> f[j]]
  <1>3. b = [j \in ks |-> b[j]] /\ \A j \in ks : b[j] \in Values[j]
    BY <1>2
  <1> HIDE DEF b
  <1>4. b \in Bodies
    BY <1>2, <1>3, BodyOver
  <1> QED
    BY <1>4 DEF b, ks, f, PutBody

LEMMA RestoreBodyClean ==
  ASSUME NEW f \in Shown(Redacted)
  PROVE  RestoreBody(f) \in Bodies
  <1> DEFINE ks == {j \in DOMAIN f : f[j] # Redacted}
  <1>1. /\ DOMAIN f = Keys
        /\ \A j \in Keys : f[j] \in Values[j] \/ (j \in SecretKeys /\ f[j] = Redacted)
    BY DEF Shown
  <1>2. ks \in SUBSET Keys /\ \A j \in ks : f[j] \in Values[j]
    BY <1>1
  <1> HIDE DEF ks
  <1> DEFINE b == [j \in ks |-> f[j]]
  <1>3. b = [j \in ks |-> b[j]] /\ \A j \in ks : b[j] \in Values[j]
    BY <1>2
  <1> HIDE DEF b
  <1>4. b \in Bodies
    BY <1>2, <1>3, BodyOver
  <1> QED
    BY <1>4 DEF b, ks, RestoreBody

LEMMA BodyShorter ==
  ASSUME NEW body \in Bodies, NEW k
  PROVE  [j \in DOMAIN body \ {k} |-> body[j]] \in Bodies
  <1> DEFINE ks == DOMAIN body \ {k}
             b == [j \in ks |-> body[j]]
  <1>1. ks \in SUBSET Keys /\ \A j \in ks : body[j] \in Values[j]
    BY DEF Bodies
  <1> HIDE DEF ks
  <1>2. b = [j \in ks |-> b[j]] /\ \A j \in ks : b[j] \in Values[j]
    BY <1>1
  <1> HIDE DEF b
  <1>3. b \in Bodies
    BY <1>1, <1>2, BodyOver
  <1> QED
    BY <1>3 DEF b, ks

LEMMA SettingsStart == SettingsInit => SettingsInv
  <1> SUFFICES ASSUME SettingsInit PROVE SettingsInv
    OBVIOUS
  <1>1. table \in Tables
    <2>1. table = [token |-> "t", relay |-> "r", flagAt |-> "3", delay |-> "0"]
      BY DEF SettingsInit
    <2>4. table["token"] = "t" /\ table["relay"] = "r" /\ table["flagAt"] = "3"
          /\ table["delay"] = "0"
      BY <2>1
    <2>6. DOMAIN table = Keys
      BY <2>1 DEF Keys
    <2>7. table = [k \in Keys |-> table[k]]
      BY <2>1, <2>6 DEF Keys
    <2>8. \A k \in Keys : table[k] \in Strings
      BY <2>4 DEF Keys, Strings
    <2>2. table \in [Keys -> Strings]
      BY <2>7, <2>8
    <2>3. \A k \in Keys : table[k] \in Values[k]
      BY <2>4, ValuesAre DEF Keys
    <2> QED
      BY <2>2, <2>3 DEF Tables, Strings
  <1>2. cache \in [Processes -> Tables]
    BY <1>1 DEF SettingsInit
  <1>3. thread \in [Threads -> Tasks] /\ \A t \in Threads : thread[t].at = "idle"
    BY QuietTask DEF SettingsInit
  <1>4. relayHost \in {"", "r"} /\ engine \in {"3", "4"} /\ glSecs \in {"0", "60"}
        /\ outdated \in BOOLEAN
    BY <1>1, TableValues DEF SettingsInit
  <1>5. edits \in 0..MaxEdits /\ setFailures \in 0..MaxSetFailures
    BY SettingsAssumption DEF SettingsInit
  <1>6. form = Nothing /\ export = Nothing
    BY DEF SettingsInit
  <1> QED
    BY <1>1, <1>2, <1>3, <1>4, <1>5, <1>6 DEF SettingsInv

\* A thread that takes up another task.
LEMMA ThreadMoves ==
  ASSUME SettingsInv, NEW t \in Threads, NEW new \in Tasks,
         new.at = "listed" => new.read \in Tables,
         new.at = "row" => new.key \in DOMAIN new.body,
         SetThread(t, new)
  PROVE  /\ thread' \in [Threads -> Tasks]
         /\ \A u \in Threads : /\ thread'[u].at = "listed" => thread'[u].read \in Tables
                               /\ thread'[u].at = "row" => thread'[u].key \in DOMAIN thread'[u].body
  <1>1. thread' = [thread EXCEPT ![t] = new] /\ thread \in [Threads -> Tasks]
    BY DEF SetThread, SettingsInv
  <1>2. \A u \in Threads : thread'[u] = IF u = t THEN new ELSE thread[u]
    BY <1>1
  <1>3. thread' \in [Threads -> Tasks]
    BY <1>1
  <1> QED
    BY <1>2, <1>3 DEF SettingsInv

LEMMA UseKeeps ==
  ASSUME SettingsInv, NEW t, NEW settings \in Tables, NEW reloaded \in BOOLEAN,
         Use(t, settings, reloaded)
  PROVE  /\ form' \in Shown(SecretMask) \cup {Nothing}
         /\ export' \in Shown(Redacted) \cup {Nothing}
         /\ relayHost' \in {"", "r"}
         /\ engine' \in {"3", "4"}
  <1>1. form' = PublicSettings(settings) \/ form' = form
    BY DEF Use
  <1>2. export' = RedactSettings(settings) \/ export' = export
    BY DEF Use
  <1>3. relayHost' = settings.relay \/ relayHost' = relayHost
    BY DEF Use, Refresh
  <1>4. engine' = settings.flagAt \/ engine' = engine
    BY DEF Use
  <1> QED
    BY <1>1, <1>2, <1>3, <1>4, SettingsShown, TableValues DEF SettingsInv

LEMMA OwnerProcess == \A t : Owner(t) \in Processes
  BY DEF Owner, Processes

LEMMA SettingsStep == SettingsInv /\ [SettingsNext]_settingsVars => SettingsInv'
  <1> SUFFICES ASSUME SettingsInv, [SettingsNext]_settingsVars PROVE SettingsInv'
    OBVIOUS
  <1>0. /\ MaxEdits \in Nat /\ MaxSetFailures \in Nat
        /\ \A r \in Requests : r \in Threads
        /\ \A t \in Loops : t \in Threads
    BY SettingsAssumption DEF Threads
  <1>n. edits \in 0..MaxEdits /\ setFailures \in 0..MaxSetFailures
    BY DEF SettingsInv
  <1>1. ASSUME NEW t \in Threads, NEW op \in {"turn", "get", "backup"}, List(t, op)
        PROVE  SettingsInv'
    <2> DEFINE new == [Quiet EXCEPT !.at = "listed", !.op = op, !.read = table]
    <2>1. SetThread(t, new)
          /\ UNCHANGED <<table, cache, form, export, relayHost, engine, glSecs, outdated, edits, setFailures>>
      BY <1>1 DEF List, started
    <2>2. table \in Tables
      BY DEF SettingsInv
    <2>3. new \in Tasks /\ new.at = "listed" /\ new.read = table
      BY <2>2, QuietTask DEF Tasks
    <2> HIDE DEF new
    <2> QED
      BY <2>1, <2>2, <2>3, ThreadMoves DEF SettingsInv
  <1>2. ASSUME NEW t \in Threads, Install(t)
        PROVE  SettingsInv'
    <2>1. PICK read \in Tables : read = thread[t].read
      BY <1>2 DEF Install, SettingsInv
    <2>2. /\ cache' = [cache EXCEPT ![Owner(t)] = read] /\ Use(t, read, TRUE)
          /\ SetThread(t, Quiet) /\ UNCHANGED <<table, glSecs, outdated, edits, setFailures>>
      BY <1>2, <2>1 DEF Install, NewCache, started
    <2>3. cache' \in [Processes -> Tables]
      BY <2>2, OwnerProcess DEF SettingsInv
    <2> QED
      BY <2>2, <2>3, UseKeeps, ThreadMoves, QuietTask DEF SettingsInv
  <1>3. ASSUME NEW t \in Threads, ReloadFails(t)
        PROVE  SettingsInv'
    <2>1. /\ setFailures < MaxSetFailures /\ setFailures' = setFailures + 1
          /\ Use(t, cache[Owner(t)], FALSE)
          /\ SetThread(t, Quiet) /\ UNCHANGED <<table, cache, glSecs, outdated, edits>>
      BY <1>3 DEF ReloadFails, started
    <2>2. setFailures' \in 0..MaxSetFailures
      BY <1>0, <1>n, <2>1
    <2>3. cache[Owner(t)] \in Tables
      BY OwnerProcess DEF SettingsInv
    <2> QED
      BY <2>1, <2>2, <2>3, UseKeeps, ThreadMoves, QuietTask DEF SettingsInv
  <1>4. ASSUME NEW r \in Requests, NEW b \in Bodies, Edit(r, b)
        PROVE  SettingsInv'
    <2> DEFINE new == [Quiet EXCEPT !.at = "next", !.op = "edit", !.body = b]
    <2>1. /\ SetThread(r, new) /\ edits < MaxEdits /\ edits' = edits + 1
          /\ UNCHANGED <<table, cache, form, export, relayHost, engine, glSecs, outdated, setFailures>>
      BY <1>4 DEF Edit, started
    <2>2. new \in Tasks /\ new.at = "next"
      BY QuietTask DEF Tasks
    <2>3. edits' \in 0..MaxEdits
      BY <1>0, <1>n, <2>1
    <2> HIDE DEF new
    <2> QED
      BY <1>0, <2>1, <2>2, <2>3, ThreadMoves DEF SettingsInv
  <1>5. ASSUME NEW r \in Requests, PutSettings(r)
        PROVE  SettingsInv'
    <2>1. form \in Shown(SecretMask)
      BY <1>5 DEF PutSettings, SettingsInv
    <2>2. PICK k \in Keys : \E v \in Values[k] : Edit(r, PutBody([form EXCEPT ![k] = v]))
      BY <1>5 DEF PutSettings
    <2>5. PICK v \in Values[k] : Edit(r, PutBody([form EXCEPT ![k] = v]))
      BY <2>2
    <2>3. PICK page \in Shown(SecretMask) : page = form
      BY <2>1
    <2>4. PutBody([page EXCEPT ![k] = v]) \in Bodies
      BY PutBodyClean
    <2> QED
      BY <1>4, <2>3, <2>4, <2>5
  <1>6. ASSUME NEW r \in Requests, RestoreSettings(r)
        PROVE  SettingsInv'
    <2>1. export \in Shown(Redacted) /\ Edit(r, RestoreBody(export))
      BY <1>6 DEF RestoreSettings, SettingsInv
    <2>2. PICK f \in Shown(Redacted) : f = export
      BY <2>1
    <2> QED
      BY <1>4, <2>1, <2>2, RestoreBodyClean
  <1>7. ASSUME NEW r \in Requests, SetRow(r)
        PROVE  SettingsInv'
    <2>1. PICK body \in Bodies : body = thread[r].body
      BY <1>0 DEF SettingsInv, Tasks
    <2>2. PICK k \in DOMAIN body :
            /\ table' = [table EXCEPT ![k] = body[k]]
            /\ SetThread(r, [thread[r] EXCEPT !.at = "row", !.key = k])
      BY <1>7, <2>1 DEF SetRow
    <2>3. /\ UNCHANGED <<cache, form, export, relayHost, engine, glSecs, edits, setFailures>>
          /\ outdated' \in BOOLEAN
      BY <1>7 DEF SetRow, SettingsInv
    <2>4. k \in Keys /\ body[k] \in Values[k]
      BY DEF Bodies
    <2>5. table' \in Tables
      BY <2>2, <2>4, TableWritten DEF SettingsInv
    <2> DEFINE new == [thread[r] EXCEPT !.at = "row", !.key = k]
    <2>6. new \in Tasks /\ new.at = "row" /\ new.key = k /\ new.body = body
      BY <1>0, <2>1, <2>4 DEF SettingsInv, Tasks
    <2>7. PICK task \in Tasks : task = new
      BY <2>6
    <2> HIDE DEF new
    <2>8. SetThread(r, task)
      BY <2>2, <2>7 DEF new
    <2>9. task.at = "row" /\ task.key \in DOMAIN task.body
      BY <2>6, <2>7
    <2> QED
      BY <1>0, <2>3, <2>5, <2>8, <2>9, ThreadMoves DEF SettingsInv
  <1>8. ASSUME NEW r \in Requests, SetRowFails(r)
        PROVE  SettingsInv'
    <2>1. /\ setFailures < MaxSetFailures /\ setFailures' = setFailures + 1
          /\ SetThread(r, Quiet)
          /\ UNCHANGED <<table, cache, form, export, relayHost, engine, glSecs, outdated, edits>>
      BY <1>8 DEF SetRowFails, started
    <2>2. setFailures' \in 0..MaxSetFailures
      BY <1>0, <1>n, <2>1
    <2> QED
      BY <1>0, <2>1, <2>2, ThreadMoves, QuietTask DEF SettingsInv
  <1>9. ASSUME NEW r \in Requests, SetCache(r)
        PROVE  SettingsInv'
    <2>0. PICK body \in Bodies : body = thread[r].body
      BY <1>0 DEF SettingsInv, Tasks
    <2>1. PICK k \in DOMAIN body : k = thread[r].key
      BY <1>0, <1>9, <2>0 DEF SetCache, SettingsInv
    <2> DEFINE less == [j \in DOMAIN body \ {k} |-> body[j]]
               new == [thread[r] EXCEPT !.at = "next", !.key = "", !.body = less]
    <2>2. /\ cache' = [cache EXCEPT !.admin[k] = body[k]]
          /\ SetThread(r, new)
          /\ UNCHANGED <<table, form, export, relayHost, engine, glSecs, outdated, edits, setFailures>>
      BY <1>9, <2>0, <2>1 DEF SetCache, started
    <2>3. k \in Keys /\ body[k] \in Values[k]
      BY DEF Bodies
    <2>4. PICK old \in Tables : old = cache["admin"]
      BY DEF SettingsInv, Processes
    <2>5. cache' = [cache EXCEPT !["admin"] = [old EXCEPT ![k] = body[k]]]
      BY <2>2, <2>4
    <2>6. [old EXCEPT ![k] = body[k]] \in Tables
      BY <2>3, TableWritten
    <2>7. cache' \in [Processes -> Tables]
      BY <2>5, <2>6 DEF SettingsInv
    <2>8. less \in Bodies
      BY BodyShorter
    <2> HIDE DEF less
    <2>9. new \in Tasks /\ new.at = "next"
      BY <1>0, <2>8 DEF SettingsInv, Tasks
    <2>10. PICK task \in Tasks : task = new
      BY <2>9
    <2> HIDE DEF new
    <2>11. SetThread(r, task) /\ task.at = "next"
      BY <2>2, <2>9, <2>10
    <2> QED
      BY <1>0, <2>2, <2>7, <2>11, ThreadMoves DEF SettingsInv
  <1>10. ASSUME NEW r \in Requests, Written(r)
        PROVE  SettingsInv'
    <2>1. /\ form' = PublicSettings(cache["admin"]) /\ SetThread(r, Quiet)
          /\ UNCHANGED <<table, cache, export, relayHost, engine, glSecs, outdated, edits, setFailures>>
      BY <1>10 DEF Written, started
    <2>2. form' \in Shown(SecretMask)
      BY <2>1, SettingsShown DEF SettingsInv, Processes
    <2> QED
      BY <1>0, <2>1, <2>2, ThreadMoves, QuietTask DEF SettingsInv
  <1>11. CASE UNCHANGED settingsVars
    BY <1>11 DEF settingsVars, SettingsInv
  <1>12. ASSUME NEW t \in Threads, Proceed(t)
         PROVE  SettingsInv'
    BY <1>2, <1>3, <1>7, <1>8, <1>9, <1>10, <1>12 DEF Proceed
  <1>13. ASSUME NEW t \in Loops, Turn(t)
         PROVE  SettingsInv'
    BY <1>0, <1>1, <1>13 DEF Turn
  <1>14. ASSUME NEW r \in Requests, GetSettings(r) \/ Backup(r)
         PROVE  SettingsInv'
    BY <1>0, <1>1, <1>14 DEF GetSettings, Backup
  <1>15. CASE StartMTA
    <2>1. /\ cache' = [cache EXCEPT !["mta"] = table] /\ engine' = table.flagAt
          /\ glSecs' = table.delay /\ outdated' = FALSE
          /\ SetThread("mta", Quiet)
          /\ UNCHANGED <<table, form, export, relayHost, edits, setFailures>>
      BY <1>15 DEF StartMTA
    <2>2. cache' \in [Processes -> Tables]
      BY <2>1 DEF SettingsInv, Processes
    <2>3. engine' \in {"3", "4"} /\ glSecs' \in {"0", "60"}
      BY <2>1, TableValues DEF SettingsInv
    <2>4. "mta" \in Threads
      BY DEF Threads, Loops
    <2> QED
      BY <2>1, <2>2, <2>3, <2>4, ThreadMoves, QuietTask DEF SettingsInv
  <1> QED
    BY <1>5, <1>6, <1>11, <1>12, <1>13, <1>14, <1>15 DEF SettingsNext

LEMMA SettingsTyped == SettingsInv => SettingsTypeOK
  <1> SUFFICES ASSUME SettingsInv PROVE SettingsTypeOK
    OBVIOUS
  <1>1. \A t \in Threads : /\ thread[t].at \in {"idle", "listed", "next", "row"}
                           /\ thread[t].at = "listed" => thread[t].read \in Tables
    BY DEF SettingsInv, Tasks
  <1> QED
    BY <1>1, ValuesAre DEF SettingsInv, SettingsTypeOK

\* The table, every cache and every copy hold under each key a value of its
\* kind, whatever requests and loops overlap: the mask of the page and the mark
\* of a backup never come back as the secret (putSettings, restoreBackup, Set).
THEOREM SettingsTypeCorrect == SettingsSpec => []SettingsTypeOK
BY SettingsTyped, SettingsStart, SettingsStep, PTL DEF SettingsSpec

-----------------------------------------------------------------------------
(* The instance of the runs.                                               *)

\* It shows each of the components as its module has it, but for the fairness.
THEOREM PlanesAreTheirParts ==
  SendingSpec => /\ Init /\ [][Next]_vars
                 /\ ImapPollInit /\ [][ImapPollNext]_pollVars
                 /\ SettingsInit /\ [][SettingsNext]_settingsVars
                 /\ AlertsInit /\ [][AlertsNext]_alertVars
  <1>1. SendingInit => Init /\ ImapPollInit /\ SettingsInit /\ AlertsInit
    BY DEF SendingInit
  <1>2. [SendingNext]_sendingVars => /\ [Next]_vars /\ [ImapPollNext]_pollVars
                                     /\ [SettingsNext]_settingsVars /\ [AlertsNext]_alertVars
    BY DEF SendingNext, sendingVars
  <1> QED
    BY <1>1, <1>2, PTL DEF SendingSpec

\* The type invariant of the runs.
THEOREM SendingTypeCorrect == SendingSpec => []SendingTypeOK
  <1> DEFINE Typed == CallInv /\ PollInv /\ SettingsInv /\ AlertInv
  <1>1. Typed => SendingTypeOK
    BY SettingsTyped, AlertTyped DEF SendingTypeOK, CallInv, PollInv
  <1>2. Init /\ ImapPollInit /\ SettingsInit /\ AlertsInit => Typed
    BY InitCallInv, PollStart, SettingsStart, AlertStart
  <1>3. Typed /\ [Next]_vars /\ [ImapPollNext]_pollVars /\ [SettingsNext]_settingsVars
          /\ [AlertsNext]_alertVars => Typed'
    BY CallStep, PollStep, SettingsStep, AlertStep
  <1> HIDE DEF Typed
  <1> QED
    BY <1>1, <1>2, <1>3, PlanesAreTheirParts, PTL

=============================================================================
