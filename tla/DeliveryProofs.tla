--------------------------- MODULE DeliveryProofs ---------------------------
(***************************************************************************)
(* Proofs about Delivery, for any number of workers, messages, recipients  *)
(* and attempts: it is type correct, nothing is forgotten, a row has one   *)
(* handler as long as its lease is left alone, it implements MailPromise,  *)
(* attempts are only rewound by the administrator, and nobody is sent a    *)
(* message again without cause (a lapsed lease, a lost remainder).         *)
(***************************************************************************)
EXTENDS Delivery, JobQueueProofs

-----------------------------------------------------------------------------
(* Type correctness.                                                       *)

\* A send returns one of the results that are typed.
LEMMA SendRepliesTyped == \A to \in SUBSET Rcpts : SendReplies(to) \subseteq Replies
  BY DEF SendReplies, SendResults, Results, Replies

LEMMA NoReplyTyped == NoReply \in Replies
  BY DEF NoReply, Replies

\* The initial state is well formed.
LEMMA TypeInit == Init => TypeOK
  <1> SUFFICES ASSUME Init PROVE TypeOK
    OBVIOUS
  <1>1. QueueTypeOK
    BY QueueInitOK DEF Init
  <1>2. QED
    BY <1>1, NoReplyTyped DEF Init, TypeOK, Steps, QueueInit

\* A worker that comes to rest keeps the typing of its three variables.
LEMMA RestTyped ==
  ASSUME TypeOK, NEW w \in Workers, Rest(w)
  PROVE  /\ pc' \in [Workers -> Steps]
         /\ held' \in [Workers -> Copies \cup {NoCopy}]
         /\ \A v \in Workers : held'[v] = NoCopy <=> pc'[v] = "idle"
         /\ result' \in [Workers -> Replies]
  BY NoReplyTyped DEF TypeOK, Rest, Goto, Steps

\* A worker at work holds the copy of a row.
LEMMA BusyHolds ==
  ASSUME TypeOK, NEW w \in Workers, pc[w] # "idle"
  PROVE  held[w] \in Copies
  BY DEF TypeOK

\* Going on to another step with the copy in hand keeps the typing.
LEMMA GotoTyped ==
  ASSUME TypeOK, NEW w \in Workers, NEW step \in Steps \ {"idle"},
         pc[w] # "idle", Goto(w, step), UNCHANGED held
  PROVE  /\ pc' \in [Workers -> Steps]
         /\ held' \in [Workers -> Copies \cup {NoCopy}]
         /\ \A v \in Workers : held'[v] = NoCopy <=> pc'[v] = "idle"
  BY DEF TypeOK, Goto

LEMMA SettleTyped ==
  ASSUME TypeOK, NEW m \in Msgs, NEW rcpts \in SUBSET Rcpts, Settle(m, rcpts)
  PROVE  settled' \in [Msgs -> SUBSET Rcpts]
  BY DEF TypeOK, Settle

\* A row that is out stands for mail.
LEMMA TakenTyped ==
  ASSUME QueueTypeOK, NEW id \in DOMAIN jobs
  PROVE  Taken(id) \subseteq Msgs
  BY DEF QueueTypeOK, Jobs, Taken

\* Every step keeps the state well formed.
LEMMA TypeNext == TypeOK /\ [Next]_vars => TypeOK'
  <1> SUFFICES ASSUME TypeOK, [Next]_vars PROVE TypeOK'
    OBVIOUS
  <1>q. QueueTypeOK
    BY DEF TypeOK
  <1>1. ASSUME NEW m \in Msgs, Accept(m) PROVE TypeOK'
    <2>1. KindOf[m] \in Kinds /\ Addressed[m] \in SUBSET Rcpts
      BY DeliveryAssumption DEF Kinds
    <2>2. Enqueue(KindOf[m], m, Addressed[m])
      BY <1>1 DEF Accept
    <2>3. QueueTypeOK' /\ nextId' = nextId + 1
      BY <1>q, <2>1, <2>2, EnqueueEffect
    <2>4. QED
      BY <1>1, <1>q, <2>3 DEF TypeOK, Accept, QueueTypeOK
  <1>2. ASSUME NEW w \in Workers, ClaimJob(w) PROVE TypeOK'
    <2>1. PICK id \in Claimable :
            /\ Claim(id)
            /\ held' = [held EXCEPT ![w] =
                 [id |-> id, kind |-> jobs[id].kind, msg |-> jobs[id].msg,
                  to |-> jobs[id].to, attempts |-> jobs[id].attempts + 1]]
      BY <1>2 DEF ClaimJob
    <2>2. QueueTypeOK' /\ nextId' = nextId /\ id \in DOMAIN jobs
      BY <1>q, <2>1, ClaimEffect
    <2>3. jobs[id] \in Jobs /\ id \in Nat \ {0} /\ jobs[id].attempts + 1 \in Nat
      BY <1>q, <2>2 DEF QueueTypeOK, Jobs
    <2> DEFINE copy == [id |-> id, kind |-> jobs[id].kind, msg |-> jobs[id].msg,
                        to |-> jobs[id].to, attempts |-> jobs[id].attempts + 1]
    <2>4. copy \in Copies
      BY <2>3, Zenon DEF Jobs, Copies
    <2>5. copy # NoCopy
      BY <2>3, copy.id = id, NoCopy.id = 0 DEF NoCopy
    <2>6. held' = [held EXCEPT ![w] = copy] /\ pc' = [pc EXCEPT ![w] = "handle"]
      BY <1>2, <2>1 DEF ClaimJob, Goto
    <2> HIDE DEF copy
    <2>7. QED
      BY <1>2, <2>2, <2>4, <2>5, <2>6 DEF TypeOK, ClaimJob, Steps
  <1>3. ASSUME NEW w \in Workers, DeliverInbound(w) PROVE TypeOK'
    <2>1. held[w] \in Copies
      BY <1>3, BusyHolds DEF DeliverInbound
    <2>2. held[w].msg \in Msgs /\ held[w].to \in SUBSET Rcpts
      BY <2>1 DEF Copies
    <2>3. settled' \in [Msgs -> SUBSET Rcpts]
      BY <1>3, <2>2, SettleTyped DEF DeliverInbound, TypeOK
    <2>4. result' \in [Workers -> Replies]
      BY <1>3 DEF DeliverInbound, TypeOK, Replies
    <2>5. /\ pc' \in [Workers -> Steps]
          /\ held' \in [Workers -> Copies \cup {NoCopy}]
          /\ \A v \in Workers : held'[v] = NoCopy <=> pc'[v] = "idle"
      BY <1>3, GotoTyped DEF DeliverInbound, Steps
    <2>6. QED
      BY <1>3, <2>3, <2>4, <2>5 DEF TypeOK, DeliverInbound, QueueTypeOK
  <1>4. ASSUME NEW w \in Workers, SendOutbound(w) PROVE TypeOK'
    <2>1. held[w] \in Copies
      BY <1>4, BusyHolds DEF SendOutbound
    <2>2. held[w].msg \in Msgs /\ held[w].to \in SUBSET Rcpts
      BY <2>1 DEF Copies
    <2>3. PICK res \in SendReplies(held[w].to) :
            /\ Goto(w, StepAfter(held[w].to, res))
            /\ result' = [result EXCEPT ![w] =
                 IF StepAfter(held[w].to, res) = "complete" THEN NoReply ELSE res]
            /\ Settle(held[w].msg, IF res.err = "none" THEN held[w].to ELSE res.partial)
      BY <1>4 DEF SendOutbound
    <2>4. res \in Replies /\ res.partial \in SUBSET Rcpts
      BY <2>2, <2>3, SendRepliesTyped DEF Replies
    <2>5. settled' \in [Msgs -> SUBSET Rcpts]
      BY <2>2, <2>3, <2>4, SettleTyped
    <2>6. result' \in [Workers -> Replies]
      BY <2>3, <2>4, NoReplyTyped DEF TypeOK
    <2>7. StepAfter(held[w].to, res) \in Steps \ {"idle"}
      BY DEF StepAfter, Steps
    <2>8. /\ pc' \in [Workers -> Steps]
          /\ held' \in [Workers -> Copies \cup {NoCopy}]
          /\ \A v \in Workers : held'[v] = NoCopy <=> pc'[v] = "idle"
      BY <1>4, <2>3, <2>7, GotoTyped DEF SendOutbound
    <2>9. QED
      BY <1>4, <2>5, <2>6, <2>8 DEF TypeOK, SendOutbound, QueueTypeOK
  <1>5. ASSUME NEW w \in Workers, DeliverBounce(w) PROVE TypeOK'
    <2>1. result' \in [Workers -> Replies]
      BY <1>5 DEF DeliverBounce, TypeOK, Replies
    <2>2. /\ pc' \in [Workers -> Steps]
          /\ held' \in [Workers -> Copies \cup {NoCopy}]
          /\ \A v \in Workers : held'[v] = NoCopy <=> pc'[v] = "idle"
      BY <1>5, GotoTyped DEF DeliverBounce, Steps
    <2>3. QED
      BY <1>5, <2>1, <2>2 DEF TypeOK, DeliverBounce, QueueTypeOK
  <1>6. ASSUME NEW w \in Workers, RequeueRemainder(w) PROVE TypeOK'
    <2>1. held[w] \in Copies
      BY <1>6, BusyHolds DEF RequeueRemainder
    <2>2. /\ held[w].msg \in Msgs
          /\ held[w].to \ result[w].partial \in SUBSET Rcpts
          /\ "outbound" \in Kinds
      BY <2>1 DEF Copies, Kinds
    <2>3. QueueTypeOK' /\ nextId' \in {nextId, nextId + 1}
      <3>1. CASE Enqueue("outbound", held[w].msg, held[w].to \ result[w].partial)
        BY <1>q, <2>2, <3>1, EnqueueEffect
      <3>2. CASE UNCHANGED <<jobs, nextId>>
        BY <1>q, <3>2 DEF QueueTypeOK
      <3>3. QED
        BY <1>6, <3>1, <3>2 DEF RequeueRemainder
    <2>4. result' \in [Workers -> Replies]
      BY <1>6, NoReplyTyped DEF RequeueRemainder, TypeOK
    <2>5. /\ pc' \in [Workers -> Steps]
          /\ held' \in [Workers -> Copies \cup {NoCopy}]
          /\ \A v \in Workers : held'[v] = NoCopy <=> pc'[v] = "idle"
      BY <1>6, GotoTyped DEF RequeueRemainder, Steps
    <2>6. lapsed' \subseteq Msgs
      BY <1>6, <2>2 DEF TypeOK, RequeueRemainder
    <2>7. QED
      BY <1>6, <1>q, <2>3, <2>4, <2>5, <2>6 DEF TypeOK, RequeueRemainder, QueueTypeOK
  <1>7. ASSUME NEW w \in Workers, CompleteJob(w) PROVE TypeOK'
    <2>1. QueueTypeOK' /\ nextId' = nextId
      <3>1. CASE Complete(held[w].id)
        BY <1>q, <3>1, CompleteEffect
      <3>2. CASE UNCHANGED <<jobs, nextId>>
        BY <1>q, <3>2 DEF QueueTypeOK
      <3>3. QED
        BY <1>7, <3>1, <3>2 DEF CompleteJob
    <2>2. QED
      BY <1>7, <2>1, RestTyped DEF TypeOK, CompleteJob
  <1>8. ASSUME NEW w \in Workers, FailJob(w) PROVE TypeOK'
    <2>1. held[w] \in Copies /\ result[w] \in Replies
      BY <1>8, BusyHolds DEF FailJob, TypeOK
    <2>2. Dead(w) \in BOOLEAN
      BY DEF Dead
    <2>3. QueueTypeOK' /\ nextId' = nextId
      <3>1. CASE Fail(held[w].id, Dead(w))
        BY <1>q, <2>2, <3>1, FailEffect
      <3>2. CASE UNCHANGED <<jobs, nextId>>
        BY <1>q, <3>2 DEF QueueTypeOK
      <3>3. QED
        BY <1>8, <3>1, <3>2 DEF FailJob
    <2>4. /\ pc' \in [Workers -> Steps]
          /\ held' \in [Workers -> Copies \cup {NoCopy}]
          /\ \A v \in Workers : held'[v] = NoCopy <=> pc'[v] = "idle"
          /\ result' \in [Workers -> Replies]
      <3>1. CASE Goto(w, "bounce") /\ UNCHANGED <<held, result>>
        <4>1. "bounce" \in Steps \ {"idle"} /\ pc[w] # "idle"
          BY <1>8 DEF Steps, FailJob
        <4>2. QED
          BY <3>1, <4>1, GotoTyped DEF TypeOK
      <3>2. CASE Rest(w)
        BY <3>2, RestTyped
      <3>3. QED
        BY <1>8, <3>1, <3>2 DEF FailJob
    <2>5. QED
      BY <1>8, <2>3, <2>4 DEF TypeOK, FailJob
  <1>9. ASSUME NEW w \in Workers, EnqueueBounce(w) PROVE TypeOK'
    <2>1. held[w] \in Copies
      BY <1>9, BusyHolds DEF EnqueueBounce
    <2>2. held[w].msg \in Msgs /\ FailedTo(held[w].to) \in SUBSET Rcpts /\ "bounce" \in Kinds
      BY <2>1 DEF Copies, FailedTo, Kinds
    <2>3. QueueTypeOK' /\ nextId' \in {nextId, nextId + 1}
      <3>1. CASE Enqueue("bounce", held[w].msg, FailedTo(held[w].to))
        BY <1>q, <2>2, <3>1, EnqueueEffect
      <3>2. CASE UNCHANGED <<jobs, nextId>>
        BY <1>q, <3>2 DEF QueueTypeOK
      <3>3. QED
        BY <1>9, <3>1, <3>2 DEF EnqueueBounce
    <2>4. QED
      BY <1>9, <1>q, <2>3, RestTyped DEF TypeOK, EnqueueBounce, QueueTypeOK
  <1>10. ASSUME NEW w \in Workers, Crash(w) PROVE TypeOK'
    BY <1>10, RestTyped DEF TypeOK, Crash, QueueTypeOK
  <1>11. ASSUME NEW id \in DOMAIN jobs, AdminRetry(id) PROVE TypeOK'
    <2>1. QueueTypeOK' /\ nextId' = nextId
      BY <1>q, <1>11, RetryEffect DEF AdminRetry
    <2>2. QED
      BY <1>11, <1>q, <2>1, TakenTyped DEF TypeOK, AdminRetry, QueueTypeOK
  <1>12. ASSUME NEW id \in DOMAIN jobs, AdminDelete(id) PROVE TypeOK'
    <2>1. QueueTypeOK' /\ nextId' = nextId
      BY <1>q, <1>12, DeleteJobEffect, CompleteEffect DEF AdminDelete
    <2>2. jobs[id].msg \in Msgs /\ jobs[id].to \in SUBSET Rcpts
      BY <1>q, <1>12 DEF QueueTypeOK, Jobs
    <2>3. settled' \in [Msgs -> SUBSET Rcpts]
      BY <1>12, <2>2, SettleTyped DEF AdminDelete, TypeOK
    <2>4. QED
      BY <1>12, <1>q, <2>1, <2>3, TakenTyped DEF TypeOK, AdminDelete
  <1>13. ASSUME NEW id \in DOMAIN jobs, PassLease(id) PROVE TypeOK'
    <2>1. QueueTypeOK' /\ nextId' = nextId
      BY <1>q, <1>13, ClockEffect DEF PassLease
    <2>2. QED
      BY <1>13, <1>q, <2>1, TakenTyped DEF TypeOK, PassLease, QueueTypeOK
  <1>14. ASSUME NEW id \in DOMAIN jobs, PassBackoff(id) PROVE TypeOK'
    <2>1. QueueTypeOK' /\ nextId' = nextId
      BY <1>q, <1>14, ClockEffect DEF PassBackoff
    <2>2. QED
      BY <1>14, <2>1 DEF TypeOK, PassBackoff
  <1>15. CASE UNCHANGED vars
    BY <1>15 DEF TypeOK, vars, QueueTypeOK
  <1>16. QED
    BY <1>1, <1>2, <1>3, <1>4, <1>5, <1>6, <1>7, <1>8, <1>9, <1>10, <1>11, <1>12,
       <1>13, <1>14, <1>15 DEF Next, Work

\* The state of the delivery path is always well formed.
THEOREM TypeCorrect == Spec => []TypeOK
  BY TypeInit, TypeNext, PTL DEF Spec

-----------------------------------------------------------------------------
(* What a step may do, in the terms in which the invariant is carried over. *)

\* Old rows that are still there keep their mail.
Inherited ==
  /\ nextId <= nextId'
  /\ \A i \in DOMAIN jobs' : i < nextId =>
       /\ i \in DOMAIN jobs
       /\ jobs'[i].kind = jobs[i].kind
       /\ jobs'[i].msg = jobs[i].msg
       /\ jobs'[i].to = jobs[i].to

\* Who was named by a row is named by a row or settled afterwards.
Carried ==
  \A m \in Msgs :
    /\ settled[m] \subseteq settled'[m]
    /\ Pending(m) \subseteq settled'[m] \cup Pending(m)'
    /\ \A i \in Nat : Later(m, i) \subseteq settled'[m] \cup Later(m, i)'

\* No worker takes up a row.
Onward ==
  \A v \in Workers : pc'[v] # "idle" => pc[v] # "idle" /\ held'[v] = held[v]

Unmoved(v) == pc'[v] = pc[v] /\ held'[v] = held[v] /\ result'[v] = result[v]

Grows == \A m \in Msgs : settled[m] \subseteq settled'[m]

\* Only mail that was accepted gets rows or settled recipients.
AcceptedOnly ==
  /\ \A i \in DOMAIN jobs' : jobs'[i].msg \in accepted'
  /\ \A m \in Msgs : m \notin accepted' => settled'[m] = {}

-----------------------------------------------------------------------------

\* When all rows stay, whoever was named is still named.
LEMMA KeptCarries ==
  ASSUME TypeOK, SameMail(DOMAIN jobs), Grows
  PROVE  Carried
  BY DEF SameMail, Grows, Carried, Pending, Later, MailRows, TypeOK, QueueTypeOK

\* A row may be deleted when those it names are settled or named by later rows.
LEMMA RemoveCarries ==
  ASSUME TypeOK, Grows, NEW id, Complete(id),
         id \in DOMAIN jobs /\ jobs[id].kind # "bounce" =>
           jobs[id].to \subseteq settled'[jobs[id].msg] \cup Later(jobs[id].msg, id)
  PROVE  Carried
  <1>q. QueueTypeOK
    BY DEF TypeOK
  <1>1. /\ DOMAIN jobs' = DOMAIN jobs \ {id}
        /\ SameMail(DOMAIN jobs \ {id})
    BY <1>q, CompleteEffect
  <1>2. ASSUME NEW m \in Msgs, NEW i \in DOMAIN jobs, i \in MailRows(m), i # id
        PROVE  i \in MailRows(m)' /\ jobs'[i].to = jobs[i].to
    BY <1>1, <1>2 DEF SameMail, MailRows
  <1>3. ASSUME NEW m \in Msgs, id \in MailRows(m), NEW r \in jobs[id].to, r \notin settled'[m]
        PROVE  \E j \in MailRows(m)' : j > id /\ r \in jobs'[j].to
    <2>1. id \in DOMAIN jobs /\ jobs[id].kind # "bounce" /\ jobs[id].msg = m
      BY <1>3 DEF MailRows
    <2>2. r \in Later(m, id)
      BY <1>3, <2>1
    <2>3. PICK j \in MailRows(m) : j > id /\ r \in jobs[j].to
      BY <2>2 DEF Later
    <2>4. j \in DOMAIN jobs /\ j # id
      BY <1>q, <2>1, <2>3 DEF MailRows, QueueTypeOK
    <2>5. QED
      BY <1>2, <2>3, <2>4
  <1>4. ASSUME NEW m \in Msgs, NEW r \in Pending(m), r \notin settled'[m]
        PROVE  r \in Pending(m)'
    <2>1. PICK i \in MailRows(m) : r \in jobs[i].to
      BY DEF Pending
    <2>2. \E j \in MailRows(m)' : r \in jobs'[j].to
      <3>1. CASE i = id
        BY <1>3, <1>4, <2>1, <3>1
      <3>2. CASE i # id
        BY <1>2, <2>1, <3>2 DEF MailRows
      <3>3. QED
        BY <3>1, <3>2
    <2>3. QED
      BY <2>2 DEF Pending
  <1>5. ASSUME NEW m \in Msgs, NEW n \in Nat, NEW r \in Later(m, n), r \notin settled'[m]
        PROVE  r \in Later(m, n)'
    <2>1. PICK i \in MailRows(m) : i > n /\ r \in jobs[i].to
      BY DEF Later
    <2>2. \E j \in MailRows(m)' : j > n /\ r \in jobs'[j].to
      <3>1. CASE i = id
        <4>1. PICK j \in MailRows(m)' : j > id /\ r \in jobs'[j].to
          BY <1>3, <1>5, <2>1, <3>1
        <4>2. j \in Nat /\ i \in Nat
          BY <1>q, <1>1, <2>1, <4>1 DEF MailRows, QueueTypeOK
        <4>3. QED
          BY <2>1, <3>1, <4>1, <4>2
      <3>2. CASE i # id
        BY <1>2, <2>1, <3>2 DEF MailRows
      <3>3. QED
        BY <3>1, <3>2
    <2>3. r \in Rcpts
      BY DEF Later
    <2>4. QED
      BY <2>2, <2>3 DEF Later
  <1>6. QED
    BY <1>4, <1>5 DEF Carried, Grows

\* The rows that stay, and one new row at most, are inherited.
LEMMA KeptInherits ==
  ASSUME TypeOK, NEW kept \in SUBSET DOMAIN jobs, SameMail(kept),
         DOMAIN jobs' \subseteq kept \cup {nextId}, nextId' \in {nextId, nextId + 1}
  PROVE  Inherited
  BY DEF SameMail, Inherited, TypeOK, QueueTypeOK

\* A statement that fails or is not issued leaves the table alone.
LEMMA SameQueue ==
  ASSUME TypeOK, UNCHANGED <<jobs, nextId>>
  PROVE  SameMail(DOMAIN jobs) /\ Inherited
  BY DEF SameMail, Inherited, TypeOK, QueueTypeOK

LEMMA FaithfulKept ==
  ASSUME TypeOK, Inherited, NEW w \in Workers, CopyFaithful(w),
         pc'[w] # "idle" => pc[w] # "idle" /\ held'[w] = held[w],
         nextId' \in Nat
  PROVE  CopyFaithful(w)'
  <1> SUFFICES ASSUME pc'[w] # "idle" PROVE CopyFaithful(w)'
    BY DEF CopyFaithful
  <1>1. pc[w] # "idle" /\ held'[w] = held[w] /\ held[w].id \in Nat
    BY BusyHolds DEF Copies
  <1>2. held[w].id < nextId /\ nextId \in Nat /\ nextId <= nextId'
    BY <1>1 DEF CopyFaithful, Inherited, TypeOK, QueueTypeOK
  <1>3. QED
    BY <1>1, <1>2 DEF CopyFaithful, Inherited

LEMMA CoveredKept ==
  ASSUME TypeOK, Carried, NEW w \in Workers, DoneCovered(w), Unmoved(w)
  PROVE  DoneCovered(w)'
  <1>1. ASSUME pc[w] # "idle" PROVE held[w].msg \in Msgs /\ held[w].id \in Nat
    BY <1>1, BusyHolds DEF Copies
  <1>2. ASSUME pc'[w] = "complete", held'[w].kind # "bounce"
        PROVE  (held[w].to \subseteq settled[held[w].msg] \cup Later(held[w].msg, held[w].id))'
    <2>1. held[w].to \subseteq settled[held[w].msg] \cup Later(held[w].msg, held[w].id)
      BY <1>2 DEF DoneCovered, Unmoved
    <2>2. held'[w] = held[w] /\ held[w].msg \in Msgs /\ held[w].id \in Nat
      BY <1>1, <1>2 DEF Unmoved
    <2>3. Later(held[w].msg, held[w].id) \subseteq
            settled'[held[w].msg] \cup {r \in Rcpts : \E j \in MailRows(held[w].msg)' :
                                           j > held[w].id /\ r \in jobs'[j].to}
      BY <2>2 DEF Carried, Later, MailRows
    <2>4. QED
      BY <2>1, <2>2, <2>3 DEF Carried, Later, MailRows
  <1>3. ASSUME pc'[w] = "requeue"
        PROVE  (held[w].kind = "outbound" /\ result[w].partial \subseteq settled[held[w].msg])'
    BY <1>1, <1>3 DEF DoneCovered, Unmoved, Carried
  <1>4. QED
    BY <1>2, <1>3 DEF DoneCovered

\* A row that stays as good as it was keeps the lease of its handler.
LEMMA LeaseKept ==
  ASSUME NEW w \in Workers, LeaseHeld(w),
         pc'[w] # "idle" => pc[w] # "idle" /\ held'[w] = held[w],
         disturbed \subseteq disturbed',
         held[w].id \in DOMAIN jobs' /\ held[w].id \notin disturbed' /\ pc[w] # "idle" =>
           /\ held[w].id \in DOMAIN jobs
           /\ jobs[held[w].id].leased => jobs'[held[w].id].leased
           /\ Exhausted(jobs[held[w].id]) => Exhausted(jobs'[held[w].id])
  PROVE  LeaseHeld(w)'
  BY DEF LeaseHeld, Exhausted, MaxAttemptsFor

LEMMA HandlersKept ==
  ASSUME SoleHandler, Onward, disturbed \subseteq disturbed'
  PROVE  SoleHandler'
  BY DEF SoleHandler, Onward

LEMMA ForgottenKept ==
  ASSUME NothingForgotten, Carried, accepted' = accepted, accepted \subseteq Msgs
  PROVE  NothingForgotten'
  <1> SUFFICES ASSUME NEW m \in accepted, NEW r \in Addressed[m],
                      r \notin settled'[m]
               PROVE  r \in Pending(m)'
    BY DEF NothingForgotten
  <1>1. m \in Msgs /\ r \in settled[m] \cup Pending(m)
    BY DEF NothingForgotten
  <1>2. QED
    BY <1>1 DEF Carried

\* A step of worker w, which may come to rest, keeps the invariant if it
\* carries everyone over and what it claims of w holds.
LEMMA WorkerStep ==
  ASSUME IInv, TypeOK', NEW w \in Workers,
         \A v \in Workers \ {w} : Unmoved(v),
         pc'[w] # "idle" => pc[w] # "idle" /\ held'[w] = held[w],
         Inherited, Carried, AcceptedOnly,
         accepted' = accepted, disturbed' = disturbed,
         DoneCovered(w)',
         \A v \in Workers : LeaseHeld(v)'
  PROVE  IInv'
  <1>1. Onward
    BY DEF Onward, Unmoved
  <1>2. \A v \in Workers : CopyFaithful(v)'
    BY <1>1, FaithfulKept DEF IInv, Onward, TypeOK, QueueTypeOK
  <1>3. \A v \in Workers : DoneCovered(v)'
    BY CoveredKept DEF IInv
  <1>4. NothingForgotten'
    BY ForgottenKept DEF IInv, TypeOK
  <1>5. SoleHandler'
    BY <1>1, HandlersKept DEF IInv
  <1>6. OfAccepted'
    BY <1>1 DEF IInv, OfAccepted, AcceptedOnly, Onward
  <1>7. QED
    BY <1>2, <1>3, <1>4, <1>5, <1>6 DEF IInv

\* A step of nobody but the administrator or the clock.
LEMMA OutsideStep ==
  ASSUME IInv, TypeOK', UNCHANGED <<pc, held, result, accepted>>,
         Inherited, Carried, AcceptedOnly,
         disturbed \subseteq disturbed',
         \A v \in Workers : LeaseHeld(v)'
  PROVE  IInv'
  <1>1. Onward /\ \A v \in Workers : Unmoved(v)
    BY DEF Onward, Unmoved
  <1>2. \A v \in Workers : CopyFaithful(v)'
    BY <1>1, FaithfulKept DEF IInv, Onward, TypeOK, QueueTypeOK
  <1>3. \A v \in Workers : DoneCovered(v)'
    BY <1>1, CoveredKept DEF IInv
  <1>4. NothingForgotten'
    BY ForgottenKept DEF IInv, TypeOK
  <1>5. SoleHandler'
    BY <1>1, HandlersKept DEF IInv
  <1>6. OfAccepted'
    BY DEF IInv, OfAccepted, AcceptedOnly
  <1>7. QED
    BY <1>2, <1>3, <1>4, <1>5, <1>6 DEF IInv

-----------------------------------------------------------------------------
(* The actions, one lemma each.                                            *)

LEMMA InitInv == Init => IInv
  BY TypeInit DEF Init, IInv, QueueInit, CopyFaithful, DoneCovered, LeaseHeld,
                  NothingForgotten, SoleHandler, OfAccepted

\* Leases are kept by a step that adds rows and leaves the old ones alone.
LEMMA LeasesKept ==
  ASSUME IInv, Onward, disturbed \subseteq disturbed',
         \A i \in DOMAIN jobs' : i < nextId => i \in DOMAIN jobs /\ jobs'[i] = jobs[i]
  PROVE  \A v \in Workers : LeaseHeld(v)'
  <1> SUFFICES ASSUME NEW v \in Workers PROVE LeaseHeld(v)'
    OBVIOUS
  <1>1. pc[v] # "idle" => held[v].id < nextId
    BY DEF IInv, CopyFaithful
  <1>2. QED
    BY <1>1, LeaseKept DEF IInv, Onward

LEMMA AcceptInv == ASSUME IInv, TypeOK', NEW m \in Msgs, Accept(m) PROVE IInv'
  <1>q. TypeOK /\ QueueTypeOK
    BY DEF IInv, TypeOK
  <1>1. KindOf[m] \in Kinds /\ KindOf[m] # "bounce" /\ Addressed[m] \in SUBSET Rcpts
    BY DeliveryAssumption DEF Kinds
  <1>2. /\ nextId' = nextId + 1
        /\ DOMAIN jobs' = DOMAIN jobs \cup {nextId}
        /\ \A i \in DOMAIN jobs : jobs'[i] = jobs[i]
        /\ jobs'[nextId] = NewJob(KindOf[m], m, Addressed[m])
        /\ SameMail(DOMAIN jobs)
    BY <1>q, <1>1, EnqueueEffect DEF Accept
  <1>3. Inherited /\ Carried
    BY <1>q, <1>2, KeptInherits, KeptCarries DEF Accept, Grows
  <1>4. Onward /\ \A v \in Workers : Unmoved(v)
    BY DEF Accept, Onward, Unmoved
  <1>5. \A v \in Workers : CopyFaithful(v)'
    BY <1>q, <1>3, <1>4, FaithfulKept DEF IInv, Onward, TypeOK, QueueTypeOK
  <1>6. \A v \in Workers : DoneCovered(v)'
    BY <1>q, <1>3, <1>4, CoveredKept DEF IInv
  <1>7. \A v \in Workers : LeaseHeld(v)'
    BY <1>q, <1>2, <1>4, LeasesKept DEF Accept, QueueTypeOK
  <1>8. NothingForgotten'
    <2> SUFFICES ASSUME NEW n \in accepted', NEW r \in Addressed[n]
                 PROVE  (r \in settled[n] \cup Pending(n))'
      BY DEF NothingForgotten
    <2>1. CASE n = m
      <3>1. nextId \in MailRows(m)' /\ r \in jobs'[nextId].to /\ r \in Rcpts
        BY <1>1, <1>2, <2>1 DEF NewJob, MailRows
      <3>2. QED
        BY <2>1, <3>1 DEF Pending
    <2>2. CASE n # m
      <3>1. n \in accepted /\ n \in Msgs /\ r \in settled[n] \cup Pending(n)
        BY <1>q, <2>2 DEF Accept, IInv, NothingForgotten, TypeOK
      <3>2. QED
        BY <1>3, <3>1 DEF Carried
    <2>3. QED
      BY <2>1, <2>2
  <1>9. SoleHandler'
    BY <1>4, HandlersKept DEF IInv, Accept
  <1>10. OfAccepted'
    BY <1>2 DEF IInv, OfAccepted, Accept, NewJob
  <1>11. QED
    BY <1>5, <1>6, <1>7, <1>8, <1>9, <1>10 DEF IInv

\* A claim takes a row that nobody has in work, unless its lease was disturbed.
LEMMA ClaimInv == ASSUME IInv, TypeOK', NEW w \in Workers, ClaimJob(w) PROVE IInv'
  <1>q. TypeOK /\ QueueTypeOK
    BY DEF IInv, TypeOK
  <1>1. PICK id \in Claimable :
          /\ Claim(id)
          /\ held' = [held EXCEPT ![w] =
               [id |-> id, kind |-> jobs[id].kind, msg |-> jobs[id].msg,
                to |-> jobs[id].to, attempts |-> jobs[id].attempts + 1]]
    BY DEF ClaimJob
  <1>2. /\ nextId' = nextId
        /\ DOMAIN jobs' = DOMAIN jobs
        /\ id \in DOMAIN jobs
        /\ \A i \in DOMAIN jobs \ {id} : jobs'[i] = jobs[i]
        /\ jobs'[id] = [jobs[id] EXCEPT !.leased = TRUE, !.attempts = @ + 1]
        /\ SameMail(DOMAIN jobs)
    BY <1>q, <1>1, ClaimEffect
  <1>3. jobs[id] \in Jobs /\ id < nextId /\ id \in Nat /\ nextId \in Nat
    BY <1>q, <1>2 DEF QueueTypeOK
  <1>4. jobs'[id].leased
    BY <1>2, <1>3 DEF Jobs
  <1>5. Inherited /\ Carried
    BY <1>q, <1>2, KeptInherits, KeptCarries DEF ClaimJob, Grows
  <1>6. /\ pc'[w] = "handle"
        /\ held'[w].id = id
        /\ held'[w].kind = jobs[id].kind
        /\ held'[w].msg = jobs[id].msg
        /\ held'[w].to = jobs[id].to
        /\ \A v \in Workers \ {w} : Unmoved(v)
        /\ disturbed' = disturbed /\ accepted' = accepted /\ settled' = settled
    BY <1>q, <1>1 DEF ClaimJob, Goto, Unmoved, TypeOK
  <1>7. \A v \in Workers : CopyFaithful(v)'
    <2>1. CopyFaithful(w)'
      BY <1>2, <1>3, <1>6 DEF CopyFaithful, SameMail
    <2>2. \A v \in Workers \ {w} : CopyFaithful(v)'
      BY <1>q, <1>2, <1>3, <1>5, <1>6, FaithfulKept DEF IInv, Unmoved
    <2>3. QED
      BY <2>1, <2>2
  <1>8. \A v \in Workers : DoneCovered(v)'
    <2>1. DoneCovered(w)'
      BY <1>6 DEF DoneCovered
    <2>2. QED
      BY <1>q, <1>5, <1>6, <2>1, CoveredKept DEF IInv
  <1>9. \A v \in Workers : LeaseHeld(v)'
    <2>1. ASSUME NEW v \in Workers \ {w} PROVE LeaseHeld(v)'
      <3>1. CASE held[v].id = id
        BY <1>4, <1>6, <3>1 DEF LeaseHeld, Unmoved
      <3>2. CASE held[v].id # id
        BY <1>2, <1>6, <3>2, LeaseKept DEF IInv, Unmoved
      <3>3. QED
        BY <3>1, <3>2
    <2>2. LeaseHeld(w)'
      BY <1>4, <1>6 DEF LeaseHeld
    <2>3. QED
      BY <2>1, <2>2
  <1>10. NothingForgotten'
    BY <1>q, <1>5, <1>6, ForgottenKept DEF IInv, TypeOK
  <1>11. SoleHandler'
    <2>1. ASSUME NEW v \in Workers \ {w}, pc[v] # "idle", held[v].id = id
          PROVE  id \in disturbed
      BY <1>2, <2>1 DEF IInv, LeaseHeld, Claimable
    <2>2. QED
      BY <1>6, <2>1 DEF IInv, SoleHandler, Unmoved
  <1>12. OfAccepted'
    BY <1>2, <1>6 DEF IInv, OfAccepted, SameMail, Unmoved
  <1>13. QED
    BY <1>7, <1>8, <1>9, <1>10, <1>11, <1>12 DEF IInv

\* A step of worker w in which it keeps its copy and the table is untouched.
LEMMA HandleStep ==
  ASSUME IInv, TypeOK', NEW w \in Workers, pc[w] # "idle",
         \A v \in Workers \ {w} : Unmoved(v), held' = held,
         UNCHANGED <<jobs, nextId, accepted, disturbed>>,
         Grows, \A m \in Msgs : m \notin accepted => settled'[m] = settled[m],
         DoneCovered(w)'
  PROVE  IInv'
  <1>1. SameMail(DOMAIN jobs) /\ Inherited
    BY SameQueue DEF IInv
  <1>2. Carried
    BY <1>1, KeptCarries DEF IInv
  <1>3. Onward
    BY DEF Onward, Unmoved
  <1>4. \A v \in Workers : LeaseHeld(v)'
    BY <1>3, LeasesKept
  <1>5. AcceptedOnly
    BY DEF IInv, OfAccepted, AcceptedOnly
  <1>6. QED
    BY <1>1, <1>2, <1>4, <1>5, WorkerStep

\* Reporting a delivery good for some recipients of accepted mail.
LEMMA SettleGrows ==
  ASSUME IInv, NEW w \in Workers, pc[w] # "idle", NEW rcpts, Settle(held[w].msg, rcpts)
  PROVE  /\ Grows
         /\ \A m \in Msgs : m \notin accepted => settled'[m] = settled[m]
         /\ rcpts \subseteq settled'[held[w].msg]
  BY BusyHolds DEF IInv, OfAccepted, TypeOK, Settle, Grows, Copies

LEMMA InboundInv == ASSUME IInv, TypeOK', NEW w \in Workers, DeliverInbound(w) PROVE IInv'
  <1>1. /\ pc[w] # "idle" /\ held' = held
        /\ UNCHANGED <<jobs, nextId, accepted, disturbed>>
        /\ \A v \in Workers \ {w} : Unmoved(v)
    BY DEF DeliverInbound, Goto, Unmoved, IInv, TypeOK
  <1>2. CASE Settle(held[w].msg, held[w].to) /\ Goto(w, "complete")
    <2>1. /\ Grows
          /\ \A m \in Msgs : m \notin accepted => settled'[m] = settled[m]
          /\ held[w].to \subseteq settled'[held[w].msg]
      BY <1>1, <1>2, SettleGrows
    <2>2. DoneCovered(w)'
      BY <1>1, <1>2, <2>1 DEF DoneCovered, Goto, IInv, TypeOK
    <2>3. QED
      BY <1>1, <2>1, <2>2, HandleStep
  <1>3. CASE Goto(w, "fail") /\ UNCHANGED settled
    <2>1. DoneCovered(w)'
      BY <1>3 DEF DoneCovered, Goto, IInv, TypeOK
    <2>2. QED
      BY <1>1, <1>3, <2>1, HandleStep DEF Grows
  <1>4. QED
    BY <1>2, <1>3 DEF DeliverInbound

\* Whatever a send returns, the step it leads to knows whom it settled.
LEMMA SendInv == ASSUME IInv, TypeOK', NEW w \in Workers, SendOutbound(w) PROVE IInv'
  <1>1. PICK res \in SendReplies(held[w].to) :
          /\ Goto(w, StepAfter(held[w].to, res))
          /\ result' = [result EXCEPT ![w] =
               IF StepAfter(held[w].to, res) = "complete" THEN NoReply ELSE res]
          /\ Settle(held[w].msg, IF res.err = "none" THEN held[w].to ELSE res.partial)
    BY DEF SendOutbound
  <1>2. /\ pc[w] # "idle" /\ held' = held /\ held[w].kind = "outbound"
        /\ UNCHANGED <<jobs, nextId, accepted, disturbed>>
        /\ \A v \in Workers \ {w} : Unmoved(v)
    BY <1>1 DEF SendOutbound, Goto, Unmoved, IInv, TypeOK
  <1>3. /\ Grows
        /\ \A m \in Msgs : m \notin accepted => settled'[m] = settled[m]
        /\ (IF res.err = "none" THEN held[w].to ELSE res.partial) \subseteq settled'[held[w].msg]
    BY <1>1, <1>2, SettleGrows
  <1>4. /\ pc'[w] = StepAfter(held[w].to, res)
        /\ pc'[w] = "requeue" => result'[w] = res
    BY <1>1 DEF Goto, IInv, TypeOK, StepAfter
  <1>5. pc'[w] = "complete" => held[w].to \subseteq settled'[held[w].msg]
    BY <1>3, <1>4 DEF StepAfter
  <1>6. pc'[w] = "requeue" => result'[w].partial \subseteq settled'[held[w].msg]
    BY <1>3, <1>4 DEF StepAfter
  <1>7. DoneCovered(w)'
    BY <1>2, <1>5, <1>6 DEF DoneCovered
  <1>8. QED
    BY <1>2, <1>3, <1>7, HandleStep

LEMMA BounceInv == ASSUME IInv, TypeOK', NEW w \in Workers, DeliverBounce(w) PROVE IInv'
  <1>1. /\ pc[w] # "idle" /\ held' = held
        /\ UNCHANGED <<jobs, nextId, accepted, settled, disturbed>>
        /\ \A v \in Workers \ {w} : Unmoved(v)
    BY DEF DeliverBounce, Goto, Unmoved, IInv, TypeOK
  <1>2. DoneCovered(w)'
    BY DEF DeliverBounce, DoneCovered, Goto, IInv, TypeOK
  <1>3. QED
    BY <1>1, <1>2, HandleStep DEF Grows

\* The new row names the remainder and comes after the row it is split from.
LEMMA RequeueInv == ASSUME IInv, TypeOK', NEW w \in Workers, RequeueRemainder(w) PROVE IInv'
  <1>q. TypeOK /\ QueueTypeOK
    BY DEF IInv, TypeOK
  <1>1. /\ pc[w] # "idle" /\ held' = held /\ held[w] \in Copies
        /\ UNCHANGED <<accepted, settled, disturbed>>
        /\ \A v \in Workers \ {w} : Unmoved(v)
    BY <1>q, BusyHolds DEF RequeueRemainder, Goto, Unmoved, TypeOK
  <1>2. CASE Goto(w, "fail") /\ UNCHANGED <<jobs, nextId, result>>
    <2>1. DoneCovered(w)'
      BY <1>q, <1>2 DEF DoneCovered, Goto, TypeOK
    <2>2. QED
      BY <1>1, <1>2, <2>1, HandleStep DEF Grows
  <1>3. CASE /\ Enqueue("outbound", held[w].msg, held[w].to \ result[w].partial)
             /\ Goto(w, "complete")
    <2> DEFINE rest == held[w].to \ result[w].partial
    <2>1. "outbound" \in Kinds /\ held[w].msg \in Msgs /\ rest \in SUBSET Rcpts
      BY <1>1 DEF Kinds, Copies
    <2>2. /\ nextId' = nextId + 1
          /\ DOMAIN jobs' = DOMAIN jobs \cup {nextId}
          /\ \A i \in DOMAIN jobs : jobs'[i] = jobs[i]
          /\ jobs'[nextId] = NewJob("outbound", held[w].msg, rest)
          /\ SameMail(DOMAIN jobs)
      BY <1>q, <1>3, <2>1, EnqueueEffect
    <2>3. Inherited /\ Carried
      BY <1>q, <1>1, <2>2, KeptInherits, KeptCarries DEF Grows
    <2>4. DoneCovered(w)'
      <3>1. held[w].kind = "outbound" /\ result[w].partial \subseteq settled[held[w].msg]
        BY DEF IInv, DoneCovered, RequeueRemainder
      <3>2. nextId > held[w].id
        BY <1>q, <1>1 DEF IInv, CopyFaithful, QueueTypeOK, Copies
      <3>3. rest \subseteq Later(held[w].msg, held[w].id)'
        BY <1>1, <2>1, <2>2, <3>2 DEF Later, MailRows, NewJob
      <3>4. pc'[w] = "complete"
        BY <1>q, <1>3 DEF Goto, TypeOK
      <3>5. QED
        BY <1>1, <3>1, <3>3, <3>4 DEF DoneCovered, Later, MailRows
    <2>5. Onward
      BY <1>1 DEF Onward, Unmoved
    <2>6. \A v \in Workers : LeaseHeld(v)'
      BY <1>q, <1>1, <2>2, <2>5, LeasesKept DEF QueueTypeOK
    <2>7. AcceptedOnly
      BY <1>1, <2>2 DEF IInv, OfAccepted, AcceptedOnly, NewJob
    <2>8. QED
      BY <1>1, <2>3, <2>4, <2>6, <2>7, WorkerStep
  <1>4. QED
    BY <1>2, <1>3 DEF RequeueRemainder

\* Rest leaves the other workers alone and claims nothing.
LEMMA RestFrame ==
  ASSUME TypeOK, NEW w \in Workers, Rest(w)
  PROVE  /\ pc'[w] = "idle"
         /\ \A v \in Workers \ {w} : Unmoved(v)
         /\ DoneCovered(w)'
         /\ Onward
  <1>1. pc'[w] = "idle"
    BY DEF TypeOK, Rest, Goto
  <1>2. \A v \in Workers \ {w} : Unmoved(v)
    BY DEF TypeOK, Rest, Goto, Unmoved
  <1>3. QED
    BY <1>1, <1>2 DEF DoneCovered, Onward, Unmoved

\* The row may go: those it names are settled or named by later rows.
LEMMA CompleteInv == ASSUME IInv, TypeOK', NEW w \in Workers, CompleteJob(w) PROVE IInv'
  <1>q. TypeOK /\ QueueTypeOK
    BY DEF IInv, TypeOK
  <1>1. /\ pc'[w] = "idle"
        /\ \A v \in Workers \ {w} : Unmoved(v)
        /\ DoneCovered(w)'
        /\ Onward
    BY <1>q, RestFrame DEF CompleteJob
  <1>2. UNCHANGED <<accepted, settled, disturbed>> /\ Grows
    BY DEF CompleteJob, Grows
  <1>3. CASE Complete(held[w].id)
    <2>1. /\ nextId' = nextId
          /\ DOMAIN jobs' = DOMAIN jobs \ {held[w].id}
          /\ \A i \in DOMAIN jobs \ {held[w].id} : jobs'[i] = jobs[i]
          /\ SameMail(DOMAIN jobs \ {held[w].id})
      BY <1>q, <1>3, CompleteEffect
    <2>2. Inherited
      BY <1>q, <2>1, KeptInherits
    <2>3. held[w].id \in DOMAIN jobs /\ jobs[held[w].id].kind # "bounce" =>
            jobs[held[w].id].to \subseteq
              settled'[jobs[held[w].id].msg] \cup Later(jobs[held[w].id].msg, held[w].id)
      BY <1>2 DEF CompleteJob, IInv, CopyFaithful, DoneCovered
    <2>4. Carried
      BY <1>q, <1>2, <1>3, <2>3, RemoveCarries
    <2>5. \A v \in Workers : LeaseHeld(v)'
      BY <1>1, <1>2, <2>1, LeasesKept
    <2>6. AcceptedOnly
      BY <1>2, <2>1 DEF IInv, OfAccepted, AcceptedOnly
    <2>7. QED
      BY <1>1, <1>2, <2>2, <2>4, <2>5, <2>6, WorkerStep
  <1>4. CASE UNCHANGED <<jobs, nextId>>
    <2>1. Inherited /\ Carried
      BY <1>q, <1>2, <1>4, SameQueue, KeptCarries
    <2>2. \A v \in Workers : LeaseHeld(v)'
      BY <1>1, <1>2, <1>4, LeasesKept
    <2>3. AcceptedOnly
      BY <1>2, <1>4 DEF IInv, OfAccepted, AcceptedOnly
    <2>4. QED
      BY <1>1, <1>2, <2>1, <2>2, <2>3, WorkerStep
  <1>5. QED
    BY <1>3, <1>4 DEF CompleteJob

\* Failing the job ends its lease and so lets other workers in; but its
\* handler is at rest then, or about to bounce a row that is dead.
LEMMA FailInv == ASSUME IInv, TypeOK', NEW w \in Workers, FailJob(w) PROVE IInv'
  <1>q. TypeOK /\ QueueTypeOK
    BY DEF IInv, TypeOK
  <1>1. /\ pc[w] # "idle"
        /\ UNCHANGED <<accepted, settled, disturbed>> /\ Grows
    BY DEF FailJob, Grows
  <1>2. /\ \A v \in Workers \ {w} : Unmoved(v)
        /\ pc'[w] # "idle" => held'[w] = held[w] /\ pc'[w] = "bounce" /\ Dead(w)
        /\ DoneCovered(w)'
        /\ Onward
    <2>1. CASE Dead(w) /\ Goto(w, "bounce") /\ UNCHANGED <<held, result>>
      BY <1>q, <1>1, <2>1 DEF Goto, Unmoved, DoneCovered, Onward, TypeOK
    <2>2. CASE Rest(w)
      BY <1>q, <2>2, RestFrame
    <2>3. QED
      BY <2>1, <2>2 DEF FailJob
  <1>3. CASE UNCHANGED <<jobs, nextId>>
    <2>1. Inherited /\ Carried
      BY <1>q, <1>1, <1>3, SameQueue, KeptCarries
    <2>2. \A v \in Workers : LeaseHeld(v)'
      BY <1>1, <1>2, <1>3, LeasesKept
    <2>3. AcceptedOnly
      BY <1>1, <1>3 DEF IInv, OfAccepted, AcceptedOnly
    <2>4. QED
      BY <1>1, <1>2, <2>1, <2>2, <2>3, WorkerStep
  <1>4. CASE Fail(held[w].id, Dead(w))
    <2>1. Dead(w) \in BOOLEAN
      BY DEF Dead
    <2>2. /\ nextId' = nextId
          /\ DOMAIN jobs' = DOMAIN jobs
          /\ \A i \in DOMAIN jobs \ {held[w].id} : jobs'[i] = jobs[i]
          /\ held[w].id \in DOMAIN jobs /\ Dead(w) => Exhausted(jobs'[held[w].id])
          /\ SameMail(DOMAIN jobs)
      BY <1>q, <1>4, <2>1, FailEffect
    <2>3. Inherited /\ Carried
      BY <1>q, <1>1, <2>2, KeptInherits, KeptCarries
    <2>4. ASSUME NEW v \in Workers PROVE LeaseHeld(v)'
      <3>1. CASE v = w
        BY <1>2, <2>2, <3>1 DEF LeaseHeld, Exhausted
      <3>2. CASE v # w /\ pc[v] # "idle" /\ held[v].id = held[w].id
        <4>1. held[v].id \in disturbed
          BY <1>1, <3>2 DEF IInv, SoleHandler
        <4>2. QED
          BY <1>1, <1>2, <3>2, <4>1 DEF LeaseHeld, Unmoved
      <3>3. CASE v # w /\ ~(pc[v] # "idle" /\ held[v].id = held[w].id)
        BY <1>1, <1>2, <2>2, <3>3, LeaseKept DEF IInv, Unmoved
      <3>4. QED
        BY <3>1, <3>2, <3>3
    <2>5. AcceptedOnly
      BY <1>1, <2>2 DEF IInv, OfAccepted, AcceptedOnly, SameMail
    <2>6. QED
      BY <1>1, <1>2, <2>3, <2>4, <2>5, WorkerStep
  <1>5. QED
    BY <1>3, <1>4 DEF FailJob

LEMMA EnqueueBounceInv ==
  ASSUME IInv, TypeOK', NEW w \in Workers, EnqueueBounce(w) PROVE IInv'
  <1>q. TypeOK /\ QueueTypeOK
    BY DEF IInv, TypeOK
  <1>1. /\ pc[w] # "idle" /\ held[w] \in Copies
        /\ UNCHANGED <<accepted, settled, disturbed>> /\ Grows
    BY <1>q, BusyHolds DEF EnqueueBounce, Grows
  <1>2. /\ pc'[w] = "idle"
        /\ \A v \in Workers \ {w} : Unmoved(v)
        /\ DoneCovered(w)'
        /\ Onward
    BY <1>q, RestFrame DEF EnqueueBounce
  <1>3. /\ SameMail(DOMAIN jobs)
        /\ nextId' \in {nextId, nextId + 1}
        /\ DOMAIN jobs' \subseteq DOMAIN jobs \cup {nextId}
        /\ \A i \in DOMAIN jobs' : i < nextId => i \in DOMAIN jobs /\ jobs'[i] = jobs[i]
        /\ \A i \in DOMAIN jobs' \ DOMAIN jobs : jobs'[i].msg = held[w].msg
    <2>1. CASE Enqueue("bounce", held[w].msg, FailedTo(held[w].to))
      <3>1. "bounce" \in Kinds /\ held[w].msg \in Msgs /\ FailedTo(held[w].to) \in SUBSET Rcpts
        BY <1>1 DEF Kinds, Copies, FailedTo
      <3>2. /\ nextId' = nextId + 1
            /\ DOMAIN jobs' = DOMAIN jobs \cup {nextId}
            /\ \A i \in DOMAIN jobs : jobs'[i] = jobs[i]
            /\ jobs'[nextId] = NewJob("bounce", held[w].msg, FailedTo(held[w].to))
            /\ SameMail(DOMAIN jobs)
        BY <1>q, <2>1, <3>1, EnqueueEffect
      <3>3. QED
        BY <1>q, <3>2 DEF QueueTypeOK, NewJob
    <2>2. CASE UNCHANGED <<jobs, nextId>>
      BY <1>q, <2>2, SameQueue
    <2>3. QED
      BY <2>1, <2>2 DEF EnqueueBounce
  <1>4. Inherited /\ Carried
    BY <1>q, <1>1, <1>3, KeptInherits, KeptCarries
  <1>5. \A v \in Workers : LeaseHeld(v)'
    BY <1>1, <1>2, <1>3, LeasesKept
  <1>6. AcceptedOnly
    BY <1>1, <1>3 DEF IInv, OfAccepted, AcceptedOnly, SameMail
  <1>7. QED
    BY <1>1, <1>2, <1>4, <1>5, <1>6, WorkerStep

\* A worker that dies leaves its row to the lease.
LEMMA CrashInv == ASSUME IInv, TypeOK', NEW w \in Workers, Crash(w) PROVE IInv'
  <1>1. /\ pc'[w] = "idle"
        /\ \A v \in Workers \ {w} : Unmoved(v)
        /\ DoneCovered(w)'
        /\ Onward
    BY RestFrame DEF Crash, IInv
  <1>2. UNCHANGED <<jobs, nextId, accepted, settled, disturbed>> /\ Grows
    BY DEF Crash, Grows
  <1>3. Inherited /\ Carried
    BY <1>2, SameQueue, KeptCarries DEF IInv
  <1>4. \A v \in Workers : LeaseHeld(v)'
    BY <1>1, <1>2, LeasesKept
  <1>5. AcceptedOnly
    BY <1>2 DEF IInv, OfAccepted, AcceptedOnly
  <1>6. QED
    BY <1>1, <1>2, <1>3, <1>4, <1>5, WorkerStep

\* Only row id changes, its mail stays, and whoever is at it is disturbed.
LEMMA DisturbStep ==
  ASSUME IInv, TypeOK', UNCHANGED <<pc, held, result, accepted, settled>>,
         NEW id \in DOMAIN jobs,
         nextId' = nextId, DOMAIN jobs' = DOMAIN jobs, SameMail(DOMAIN jobs),
         \A i \in DOMAIN jobs \ {id} : jobs'[i] = jobs[i],
         disturbed' = disturbed \cup {id}
  PROVE  IInv'
  <1>1. Inherited /\ Carried
    BY KeptInherits, KeptCarries DEF IInv, Grows
  <1>2. \A v \in Workers : LeaseHeld(v)'
    BY LeaseKept DEF IInv
  <1>3. AcceptedOnly
    BY DEF IInv, OfAccepted, AcceptedOnly, SameMail
  <1>4. QED
    BY <1>1, <1>2, <1>3, OutsideStep

LEMMA RetryInv == ASSUME IInv, TypeOK', NEW id \in DOMAIN jobs, AdminRetry(id) PROVE IInv'
  BY RetryEffect, DisturbStep DEF AdminRetry, IInv, TypeOK

LEMMA LeaseInv == ASSUME IInv, TypeOK', NEW id \in DOMAIN jobs, PassLease(id) PROVE IInv'
  BY ClockEffect, DisturbStep DEF PassLease, IInv, TypeOK

LEMMA BackoffInv == ASSUME IInv, TypeOK', NEW id \in DOMAIN jobs, PassBackoff(id) PROVE IInv'
  <1>1. /\ nextId' = nextId
        /\ DOMAIN jobs' = DOMAIN jobs
        /\ \A i \in DOMAIN jobs \ {id} : jobs'[i] = jobs[i]
        /\ jobs'[id].attempts = jobs[id].attempts
        /\ jobs'[id].leased = jobs[id].leased
        /\ SameMail(DOMAIN jobs)
    BY ClockEffect DEF PassBackoff, IInv, TypeOK
  <1>2. Inherited /\ Carried
    BY <1>1, KeptInherits, KeptCarries DEF PassBackoff, IInv, Grows
  <1>3. \A v \in Workers : LeaseHeld(v)'
    BY <1>1, LeaseKept DEF PassBackoff, IInv, Exhausted, SameMail
  <1>4. AcceptedOnly
    BY <1>1 DEF PassBackoff, IInv, OfAccepted, AcceptedOnly, SameMail
  <1>5. QED
    BY <1>2, <1>3, <1>4, OutsideStep DEF PassBackoff

\* Whom the deleted row named counts as settled.
LEMMA DeleteInv == ASSUME IInv, TypeOK', NEW id \in DOMAIN jobs, AdminDelete(id) PROVE IInv'
  <1>q. TypeOK /\ QueueTypeOK
    BY DEF IInv, TypeOK
  <1>1. /\ Complete(id)
        /\ UNCHANGED <<accepted, pc, held, result, disturbed>>
    BY <1>q, DeleteJobEffect DEF AdminDelete
  <1>2. /\ nextId' = nextId
        /\ DOMAIN jobs' = DOMAIN jobs \ {id}
        /\ \A i \in DOMAIN jobs \ {id} : jobs'[i] = jobs[i]
        /\ SameMail(DOMAIN jobs \ {id})
    BY <1>q, <1>1, CompleteEffect
  <1>3. /\ Grows
        /\ \A m \in Msgs : m \notin accepted => settled'[m] = settled[m]
        /\ jobs[id].kind # "bounce" => jobs[id].to \subseteq settled'[jobs[id].msg]
    BY <1>q DEF AdminDelete, Settle, Grows, IInv, OfAccepted, TypeOK, QueueTypeOK, Jobs
  <1>4. Inherited /\ Carried
    BY <1>q, <1>1, <1>2, <1>3, KeptInherits, RemoveCarries
  <1>5. Onward
    BY <1>1 DEF Onward
  <1>6. \A v \in Workers : LeaseHeld(v)'
    BY <1>1, <1>2, <1>5, LeasesKept
  <1>7. AcceptedOnly
    BY <1>1, <1>2, <1>3 DEF IInv, OfAccepted, AcceptedOnly
  <1>8. QED
    BY <1>1, <1>4, <1>6, <1>7, OutsideStep

-----------------------------------------------------------------------------

LEMMA InvNext == IInv /\ [Next]_vars => IInv'
  <1> SUFFICES ASSUME IInv, [Next]_vars PROVE IInv'
    OBVIOUS
  <1>1. TypeOK'
    BY TypeNext DEF IInv
  <1>2. ASSUME NEW w \in Workers, Work(w) PROVE IInv'
    BY <1>1, <1>2, ClaimInv, InboundInv, SendInv, BounceInv, RequeueInv, CompleteInv,
       FailInv, EnqueueBounceInv DEF Work
  <1>3. ASSUME NEW id \in DOMAIN jobs,
               AdminRetry(id) \/ AdminDelete(id) \/ PassLease(id) \/ PassBackoff(id)
        PROVE  IInv'
    BY <1>1, <1>3, RetryInv, DeleteInv, LeaseInv, BackoffInv
  <1>4. CASE UNCHANGED vars
    BY <1>1, <1>4 DEF vars, IInv, CopyFaithful, DoneCovered, LeaseHeld, NothingForgotten,
                      SoleHandler, OfAccepted, Pending, Later, MailRows
  <1>5. QED
    BY <1>1, <1>2, <1>3, <1>4, AcceptInv, CrashInv DEF Next

THEOREM InvariantHolds == Spec => []IInv
  BY InitInv, InvNext, PTL DEF Spec

\* No recipient of accepted mail is forgotten, for any number of workers that
\* crash, of messages and of recipients, and any attempt limits: he is settled
\* or some row of queue_jobs names him.
THEOREM NobodyForgotten == Spec => []NothingForgotten
  <1>1. IInv => NothingForgotten
    BY DEF IInv
  <1>2. QED
    BY <1>1, InvariantHolds, PTL

\* Two workers are at work on one row only if its lease ran out or was
\* released by the administrator's Retry.
THEOREM OneHandler == Spec => []SoleHandler
  <1>1. IInv => SoleHandler
    BY DEF IInv
  <1>2. QED
    BY <1>1, InvariantHolds, PTL

-----------------------------------------------------------------------------
(* The refinement.                                                         *)

\* Until the message is accepted its recipients are in state "none", and then
\* they are owed something or settled, never forgotten.
LEMMA StatusValue ==
  ASSUME IInv, NEW m \in Msgs, NEW r \in Rcpts
  PROVE  Status[<<m, r>>] =
           IF m \notin accepted \/ r \notin Addressed[m] THEN "none"
           ELSE IF r \in settled[m] THEN "settled" ELSE "owed"
  BY DEF IInv, NothingForgotten, Status

LEMMA StatusValueNext ==
  ASSUME IInv', NEW m \in Msgs, NEW r \in Rcpts
  PROVE  Status'[<<m, r>>] =
           IF m \notin accepted' \/ r \notin Addressed[m] THEN "none"
           ELSE IF r \in settled'[m] THEN "settled" ELSE "owed"
  BY DEF IInv, NothingForgotten, Status

LEMMA PromiseInit == Init => Promise!Init
  BY DEF Init, Status, Promise!Init

\* A step that accepts nothing settles some who were owed, or nobody.
LEMMA PromiseSettles ==
  ASSUME IInv, IInv', accepted' = accepted, Grows
  PROVE  Promise!Settle
  <1>1. ASSUME NEW m \in Msgs, NEW r \in Rcpts
        PROVE  /\ \/ Status'[<<m, r>>] = Status[<<m, r>>]
                  \/ Status[<<m, r>>] = "owed" /\ Status'[<<m, r>>] = "settled"
               /\ Status'[<<m, r>>] \in {"none", "owed", "settled"}
    BY StatusValue, StatusValueNext DEF Grows
  <1>2. Status' = [p \in Msgs \X Rcpts |-> Status'[p]]
    BY DEF Status
  <1>3. Status' \in [Msgs \X Rcpts -> {"none", "owed", "settled"}]
    BY <1>1, <1>2
  <1>4. QED
    BY <1>1, <1>3 DEF Promise!Settle, Promise!States

LEMMA PromiseAccepts ==
  ASSUME IInv, IInv', NEW m \in Msgs, Accept(m)
  PROVE  Promise!Accept(m)
  <1>1. /\ m \notin accepted /\ accepted' = accepted \cup {m} /\ settled' = settled
        /\ settled[m] = {}
    BY DEF Accept, IInv, OfAccepted
  <1>2. Addressed[m] \in SUBSET Rcpts
    BY DeliveryAssumption
  <1>3. \A r \in Addressed[m] : Status[<<m, r>>] = "none"
    BY <1>1, <1>2, StatusValue
  <1>4. ASSUME NEW n \in Msgs, NEW r \in Rcpts
        PROVE  Status'[<<n, r>>] =
                 IF n = m /\ r \in Addressed[n] THEN "owed" ELSE Status[<<n, r>>]
    BY <1>1, StatusValue, StatusValueNext
  <1>5. Status' = [p \in Msgs \X Rcpts |-> Status'[p]]
    BY DEF Status
  <1>6. Status' = [p \in Msgs \X Rcpts |->
                     IF p[1] = m /\ p[2] \in Addressed[m] THEN "owed" ELSE Status[p]]
    BY <1>4, <1>5
  <1>7. QED
    BY <1>3, <1>6 DEF Promise!Accept

\* Only Accept accepts, and nobody who is settled becomes unsettled.
LEMMA OtherSteps ==
  ASSUME IInv, [Next]_vars, \A m \in Msgs : ~Accept(m)
  PROVE  accepted' = accepted /\ Grows
  <1>1. ASSUME NEW w \in Workers, Work(w) \/ Crash(w)
        PROVE  accepted' = accepted /\ Grows
    <2>1. CASE DeliverInbound(w)
      BY <2>1, SettleGrows DEF DeliverInbound, Grows
    <2>2. CASE SendOutbound(w)
      BY <2>2, SettleGrows DEF SendOutbound
    <2>3. CASE \/ ClaimJob(w) \/ DeliverBounce(w) \/ RequeueRemainder(w) \/ CompleteJob(w)
               \/ FailJob(w) \/ EnqueueBounce(w) \/ Crash(w)
      BY <2>3 DEF ClaimJob, DeliverBounce, RequeueRemainder, CompleteJob, FailJob,
                  EnqueueBounce, Crash, Grows
    <2>4. QED
      BY <1>1, <2>1, <2>2, <2>3 DEF Work
  <1>2. ASSUME NEW id \in DOMAIN jobs, AdminDelete(id)
        PROVE  accepted' = accepted /\ Grows
    BY <1>2 DEF AdminDelete, Settle, Grows, IInv, TypeOK, QueueTypeOK, Jobs
  <1>3. ASSUME NEW id \in DOMAIN jobs, AdminRetry(id) \/ PassLease(id) \/ PassBackoff(id)
        PROVE  accepted' = accepted /\ Grows
    BY <1>3 DEF AdminRetry, PassLease, PassBackoff, Grows
  <1>4. CASE UNCHANGED vars
    BY <1>4 DEF vars, Grows
  <1>5. QED
    BY <1>1, <1>2, <1>3, <1>4 DEF Next

LEMMA PromiseStep == IInv /\ IInv' /\ [Next]_vars => [Promise!Next]_Status
  <1> SUFFICES ASSUME IInv, IInv', [Next]_vars PROVE Promise!Next
    OBVIOUS
  <1>1. CASE \E m \in Msgs : Accept(m)
    BY <1>1, PromiseAccepts DEF Promise!Next
  <1>2. CASE \A m \in Msgs : ~Accept(m)
    BY <1>2, OtherSteps, PromiseSettles DEF Promise!Next
  <1>3. QED
    BY <1>1, <1>2

\* The delivery path implements MailPromise: every recipient of accepted mail
\* is owed an answer until he is settled, and settled for good.
THEOREM PromiseIsKept == Spec => PromiseKept
  BY PromiseInit, PromiseStep, InvNext, InitInv, PTL DEF Spec, PromiseKept, Promise!Spec

-----------------------------------------------------------------------------
(* Attempts.                                                               *)

\* How a count comes about: new rows start at zero, Retry starts an old one
\* again, and else it stays, grows by one on a claim of a row that has
\* attempts left, or is the limit because a worker gave the row up.
LEMMA CountSteps ==
  ASSUME TypeOK, [Next]_vars, NEW i \in DOMAIN jobs'
  PROVE  \/ jobs'[i].attempts = 0 /\ (i \in DOMAIN jobs => AdminRetry(i))
         \/ /\ i \in DOMAIN jobs
            /\ jobs'[i].kind = jobs[i].kind
            /\ \/ jobs'[i].attempts = jobs[i].attempts
               \/ jobs'[i].attempts = jobs[i].attempts + 1 /\ ~Exhausted(jobs[i])
               \/ jobs'[i].attempts = MaxAttemptsFor(jobs[i].kind)
  <1> DEFINE P == \/ jobs'[i].attempts = 0 /\ (i \in DOMAIN jobs => AdminRetry(i))
                  \/ /\ i \in DOMAIN jobs
                     /\ jobs'[i].kind = jobs[i].kind
                     /\ \/ jobs'[i].attempts = jobs[i].attempts
                        \/ jobs'[i].attempts = jobs[i].attempts + 1 /\ ~Exhausted(jobs[i])
                        \/ jobs'[i].attempts = MaxAttemptsFor(jobs[i].kind)
  <1>q. QueueTypeOK /\ (i \in DOMAIN jobs => jobs[i] \in Jobs)
    BY DEF TypeOK, QueueTypeOK
  <1>1. CASE jobs' = jobs
    BY <1>1
  <1>2. ASSUME NEW kind \in Kinds, NEW msg \in Msgs, NEW to \in SUBSET Rcpts,
               Enqueue(kind, msg, to)
        PROVE  P
    <2>1. /\ DOMAIN jobs' = DOMAIN jobs \cup {nextId}
          /\ \A j \in DOMAIN jobs : jobs'[j] = jobs[j]
          /\ jobs'[nextId] = NewJob(kind, msg, to)
          /\ nextId \notin DOMAIN jobs
      BY <1>q, <1>2, EnqueueEffect
    <2>2. QED
      BY <2>1 DEF NewJob
  <1>3. ASSUME NEW m \in Msgs, Accept(m) PROVE P
    BY <1>2, <1>3, DeliveryAssumption DEF Accept, Kinds
  <1>4. ASSUME NEW w \in Workers, ClaimJob(w) PROVE P
    <2>1. PICK id \in Claimable : Claim(id)
      BY <1>4 DEF ClaimJob
    <2>2. /\ DOMAIN jobs' = DOMAIN jobs
          /\ \A j \in DOMAIN jobs \ {id} : jobs'[j] = jobs[j]
          /\ jobs'[id] = [jobs[id] EXCEPT !.leased = TRUE, !.attempts = @ + 1]
      BY <1>q, <2>1, ClaimEffect
    <2>3. CASE i = id
      BY <1>q, <2>1, <2>2, <2>3 DEF Jobs, Claimable
    <2>4. QED
      BY <2>2, <2>3
  <1>5. ASSUME NEW w \in Workers, RequeueRemainder(w) PROVE P
    <2>1. held[w] \in Copies
      BY <1>5, BusyHolds DEF RequeueRemainder
    <2>2. QED
      BY <1>1, <1>2, <1>5, <2>1 DEF RequeueRemainder, Copies, Kinds
  <1>6. ASSUME NEW w \in Workers, CompleteJob(w) PROVE P
    BY <1>q, <1>1, <1>6, CompleteEffect DEF CompleteJob
  <1>7. ASSUME NEW w \in Workers, FailJob(w) PROVE P
    <2>1. CASE Fail(held[w].id, Dead(w))
      <3>1. Dead(w) \in BOOLEAN
        BY DEF Dead
      <3>2. /\ DOMAIN jobs' = DOMAIN jobs
            /\ \A j \in DOMAIN jobs \ {held[w].id} : jobs'[j] = jobs[j]
            /\ held[w].id \in DOMAIN jobs /\ Dead(w) =>
                 jobs'[held[w].id].attempts = MaxAttemptsFor(jobs[held[w].id].kind)
            /\ held[w].id \in DOMAIN jobs /\ ~Dead(w) =>
                 jobs'[held[w].id].attempts = jobs[held[w].id].attempts
            /\ SameMail(DOMAIN jobs)
        BY <1>q, <2>1, <3>1, FailEffect
      <3>3. QED
        BY <3>2 DEF SameMail
    <2>2. QED
      BY <1>1, <1>7, <2>1 DEF FailJob
  <1>8. ASSUME NEW w \in Workers, EnqueueBounce(w) PROVE P
    <2>1. held[w] \in Copies
      BY <1>8, BusyHolds DEF EnqueueBounce
    <2>2. FailedTo(held[w].to) \in SUBSET Rcpts /\ held[w].msg \in Msgs /\ "bounce" \in Kinds
      BY <2>1 DEF FailedTo, Copies, Kinds
    <2>3. QED
      BY <1>1, <1>2, <1>8, <2>2 DEF EnqueueBounce
  <1>9. ASSUME NEW w \in Workers, Work(w) \/ Crash(w) PROVE P
    BY <1>1, <1>4, <1>5, <1>6, <1>7, <1>8, <1>9
       DEF Work, Crash, DeliverInbound, SendOutbound, DeliverBounce
  <1>10. ASSUME NEW id \in DOMAIN jobs, AdminRetry(id) PROVE P
    <2>1. /\ DOMAIN jobs' = DOMAIN jobs
          /\ \A j \in DOMAIN jobs \ {id} : jobs'[j] = jobs[j]
          /\ SameMail(DOMAIN jobs)
      BY <1>q, <1>10, RetryEffect DEF AdminRetry
    <2>2. CASE i = id
      BY <1>q, <1>10, <2>1, <2>2 DEF AdminRetry, Retry, SameMail, QueueTypeOK, Jobs
    <2>3. QED
      BY <2>1, <2>2
  <1>11. ASSUME NEW id \in DOMAIN jobs, AdminDelete(id) PROVE P
    BY <1>q, <1>11, DeleteJobEffect, CompleteEffect DEF AdminDelete
  <1>12. ASSUME NEW id \in DOMAIN jobs, PassLease(id) \/ PassBackoff(id) PROVE P
    <2>1. /\ DOMAIN jobs' = DOMAIN jobs
          /\ \A j \in DOMAIN jobs \ {id} : jobs'[j] = jobs[j]
          /\ jobs'[id].attempts = jobs[id].attempts
          /\ SameMail(DOMAIN jobs)
      BY <1>q, <1>12, ClockEffect DEF PassLease, PassBackoff
    <2>2. QED
      BY <2>1 DEF SameMail
  <1>13. CASE UNCHANGED vars
    BY <1>1, <1>13 DEF vars
  <1>14. QED
    BY <1>3, <1>9, <1>10, <1>11, <1>12, <1>13 DEF Next

LEMMA BoundedInit == Init => AttemptsBounded
  BY DEF Init, QueueInit, AttemptsBounded

LEMMA BoundedNext == TypeOK /\ TypeOK' /\ AttemptsBounded /\ [Next]_vars => AttemptsBounded'
  <1> SUFFICES ASSUME TypeOK, TypeOK', AttemptsBounded, [Next]_vars, NEW i \in DOMAIN jobs'
               PROVE  jobs'[i].attempts <= MaxAttemptsFor(jobs'[i].kind)
    BY DEF AttemptsBounded, MaxAttemptsFor
  <1>1. jobs'[i] \in Jobs /\ MaxAttemptsFor(jobs'[i].kind) \in Nat
    BY MaxAttemptsNat DEF TypeOK, QueueTypeOK, Jobs
  <1>2. CASE jobs'[i].attempts = 0
    BY <1>1, <1>2
  <1>3. CASE /\ i \in DOMAIN jobs
             /\ jobs'[i].kind = jobs[i].kind
             /\ \/ jobs'[i].attempts = jobs[i].attempts
                \/ jobs'[i].attempts = jobs[i].attempts + 1 /\ ~Exhausted(jobs[i])
                \/ jobs'[i].attempts = MaxAttemptsFor(jobs[i].kind)
    <2>1. jobs[i].attempts \in Nat /\ jobs[i].attempts <= MaxAttemptsFor(jobs'[i].kind)
      BY <1>3 DEF AttemptsBounded, TypeOK, QueueTypeOK, Jobs
    <2>2. QED
      BY <1>1, <1>3, <2>1 DEF Exhausted
  <1>4. QED
    BY <1>2, <1>3, CountSteps

\* No step but Retry makes a count smaller.
LEMMA RewindStep ==
  TypeOK /\ AttemptsBounded /\ [Next]_vars =>
    [\A i \in DOMAIN jobs \cap DOMAIN jobs' :
       jobs'[i].attempts < jobs[i].attempts => AdminRetry(i)]_vars
  <1> SUFFICES ASSUME TypeOK, AttemptsBounded, [Next]_vars,
                      NEW i \in DOMAIN jobs, i \in DOMAIN jobs',
                      jobs'[i].attempts < jobs[i].attempts
               PROVE  AdminRetry(i)
    OBVIOUS
  <1>1. jobs[i] \in Jobs /\ jobs[i].attempts \in Nat /\ MaxAttemptsFor(jobs[i].kind) \in Nat
    BY MaxAttemptsNat DEF TypeOK, QueueTypeOK, Jobs
  <1>2. jobs[i].attempts <= MaxAttemptsFor(jobs[i].kind)
    BY DEF AttemptsBounded
  <1>3. QED
    BY <1>1, <1>2, CountSteps

\* A worker never rewinds the attempts of a job, however out of date the copy
\* is from which it settles it, and for any attempt limits.
THEOREM RewindsOnlyByRetry == Spec => OnlyRetryRewinds
  BY TypeInit, TypeNext, BoundedInit, BoundedNext, RewindStep, PTL DEF Spec, OnlyRetryRewinds

-----------------------------------------------------------------------------
(* Repetitions.                                                            *)

\* A row of m that can be claimed, or could if it had attempts left.
WaitsFor(i, m) ==
  i \in DOMAIN jobs /\ jobs[i].kind # "bounce" /\ jobs[i].msg = m /\ ~jobs[i].leased

\* Worker w has a row of m out, and has not done with it.
WorksOn(w, m) ==
  /\ pc[w] \in {"handle", "requeue", "fail", "complete"}
  /\ held[w].kind # "bounce" /\ held[w].msg = m

Carries(w, m) == WorksOn(w, m) /\ pc[w] # "complete"

\* Whom the job of w, or the remainder of it, will be for.
Owed(w) == IF pc[w] = "requeue" THEN held[w].to \ result[w].partial ELSE held[w].to

\* One row or one worker at most stands for what is still to be done for m, it
\* names nobody who is settled, and a row that is out is leased and out once.
Once(m) ==
  /\ \A i \in DOMAIN jobs : WaitsFor(i, m) => jobs[i].to \cap settled[m] = {}
  /\ \A w \in Workers : Carries(w, m) => Owed(w) \cap settled[m] = {}
  /\ \A i, j \in DOMAIN jobs : WaitsFor(i, m) /\ WaitsFor(j, m) => i = j
  /\ \A i \in DOMAIN jobs, w \in Workers : ~ (WaitsFor(i, m) /\ Carries(w, m))
  /\ \A v, w \in Workers : Carries(v, m) /\ Carries(w, m) => v = w
  /\ \A w \in Workers :
       WorksOn(w, m) /\ held[w].id \in DOMAIN jobs => jobs[held[w].id].leased
  /\ \A v, w \in Workers :
       WorksOn(v, m) /\ WorksOn(w, m) /\ held[v].id = held[w].id => v = w

\* A step that takes up nothing of m, and settles recipients of m only if it
\* leaves nothing to be done.
LEMMA OnceFrame ==
  ASSUME NEW m, Once(m),
         \/ settled'[m] = settled[m]
         \/ /\ \A i \in DOMAIN jobs' : ~ WaitsFor(i, m)'
            /\ \A w \in Workers : ~ Carries(w, m)',
         \A i \in DOMAIN jobs' : WaitsFor(i, m)' =>
           i \in DOMAIN jobs /\ WaitsFor(i, m) /\ jobs'[i].to = jobs[i].to,
         \A w \in Workers : WorksOn(w, m)' =>
           /\ WorksOn(w, m) /\ held'[w].id = held[w].id
           /\ Carries(w, m)' => Carries(w, m) /\ Owed(w)' = Owed(w)
           /\ held[w].id \in DOMAIN jobs' =>
                held[w].id \in DOMAIN jobs /\ (jobs[held[w].id].leased => jobs'[held[w].id].leased)
  PROVE  Once(m)'
  <1>1. \A w \in Workers : Carries(w, m)' => WorksOn(w, m)'
    BY DEF Carries
  <1>2. \A i \in DOMAIN jobs' : WaitsFor(i, m)' => (jobs[i].to \cap settled[m] = {})'
    BY DEF Once
  <1>3. \A w \in Workers : Carries(w, m)' => (Owed(w) \cap settled[m] = {})'
    BY <1>1 DEF Once
  <1>4. \A i, j \in DOMAIN jobs' : WaitsFor(i, m)' /\ WaitsFor(j, m)' => i = j
    BY DEF Once
  <1>5. \A i \in DOMAIN jobs', w \in Workers : ~ (WaitsFor(i, m)' /\ Carries(w, m)')
    BY <1>1 DEF Once
  <1>6. \A v, w \in Workers : Carries(v, m)' /\ Carries(w, m)' => v = w
    BY <1>1 DEF Once
  <1>7. \A w \in Workers :
          WorksOn(w, m)' /\ held'[w].id \in DOMAIN jobs' => jobs'[held'[w].id].leased
    BY DEF Once
  <1>8. \A v, w \in Workers :
          WorksOn(v, m)' /\ WorksOn(w, m)' /\ held'[v].id = held'[w].id => v = w
    BY DEF Once
  <1> QED
    BY <1>2, <1>3, <1>4, <1>5, <1>6, <1>7, <1>8 DEF Once

\* A worker that has not moved is at what it was at.
LEMMA UnmovedWorks ==
  ASSUME NEW m, NEW v, Unmoved(v)
  PROVE  /\ WorksOn(v, m)' <=> WorksOn(v, m)
         /\ Carries(v, m)' <=> Carries(v, m)
         /\ Owed(v)' = Owed(v)
         /\ held'[v].id = held[v].id
  BY DEF Unmoved, WorksOn, Carries, Owed

\* Rows that stay as they are wait as they did.
LEMMA SameWaits ==
  ASSUME NEW m, NEW i \in DOMAIN jobs, i \in DOMAIN jobs' => jobs'[i] = jobs[i]
  PROVE  i \in DOMAIN jobs' => (WaitsFor(i, m)' <=> WaitsFor(i, m))
  BY DEF WaitsFor

\* Nothing of m is touched: no row but those in Other, no worker but w.
LEMMA OnceElsewhere ==
  ASSUME NEW m, Once(m), settled'[m] = settled[m], NEW w,
         \A v \in Workers \ {w} : Unmoved(v), ~ WorksOn(w, m)',
         \A i \in DOMAIN jobs' : (i \in DOMAIN jobs /\ jobs'[i] = jobs[i]) \/ ~ WaitsFor(i, m)',
         \A v \in Workers \ {w} : WorksOn(v, m) /\ held[v].id \in DOMAIN jobs' =>
           held[v].id \in DOMAIN jobs /\ jobs'[held[v].id] = jobs[held[v].id]
  PROVE  Once(m)'
  <1>1. ASSUME NEW i \in DOMAIN jobs', WaitsFor(i, m)'
        PROVE  i \in DOMAIN jobs /\ WaitsFor(i, m) /\ jobs'[i].to = jobs[i].to
    BY <1>1 DEF WaitsFor
  <1>2. ASSUME NEW v \in Workers, WorksOn(v, m)'
        PROVE  /\ WorksOn(v, m) /\ held'[v].id = held[v].id
               /\ Carries(v, m)' => Carries(v, m) /\ Owed(v)' = Owed(v)
               /\ held[v].id \in DOMAIN jobs' =>
                    /\ held[v].id \in DOMAIN jobs
                    /\ jobs[held[v].id].leased => jobs'[held[v].id].leased
    BY <1>2, UnmovedWorks
  <1> QED
    BY <1>1, <1>2, OnceFrame

\* A worker at mail whose row is there: the row is of that mail.
LEMMA RowAtWork ==
  ASSUME IInv, NEW m, NEW v \in Workers, WorksOn(v, m)
  PROVE  /\ held[v].id < nextId /\ held[v].id \in Nat \ {0}
         /\ held[v].id \in DOMAIN jobs =>
              /\ jobs[held[v].id].kind # "bounce" /\ jobs[held[v].id].msg = m
              /\ jobs[held[v].id].to = held[v].to
  <1>1. pc[v] # "idle"
    BY DEF WorksOn
  <1>2. held[v] \in Copies
    BY <1>1, BusyHolds DEF IInv
  <1> QED
    BY <1>1, <1>2 DEF IInv, CopyFaithful, WorksOn, Copies

LEMMA OnceAccept ==
  ASSUME IInv, NEW m \in Msgs, Once(m), NEW n \in Msgs, Accept(n)
  PROVE  Once(m)'
  <1>1. KindOf[n] \in Kinds /\ KindOf[n] # "bounce" /\ Addressed[n] \in SUBSET Rcpts
    BY DeliveryAssumption DEF Kinds
  <1>2. /\ DOMAIN jobs' = DOMAIN jobs \cup {nextId} /\ nextId \notin DOMAIN jobs
        /\ \A i \in DOMAIN jobs : jobs'[i] = jobs[i]
        /\ jobs'[nextId] = NewJob(KindOf[n], n, Addressed[n])
    BY <1>1, EnqueueEffect DEF Accept, IInv, TypeOK
  <1>3. settled' = settled /\ \A v \in Workers : Unmoved(v)
    BY DEF Accept, Unmoved
  <1>4. ASSUME NEW v \in Workers, WorksOn(v, m)
        PROVE  held[v].id < nextId /\ (held[v].id \in DOMAIN jobs' => held[v].id \in DOMAIN jobs)
    BY <1>2, <1>4, RowAtWork DEF IInv, TypeOK, QueueTypeOK
  <1>5. CASE n # m
    <2>1. \A i \in DOMAIN jobs' : WaitsFor(i, m)' => i # nextId
      BY <1>2, <1>5 DEF WaitsFor, NewJob
    <2>4. ASSUME NEW i \in DOMAIN jobs', WaitsFor(i, m)'
          PROVE  i \in DOMAIN jobs /\ WaitsFor(i, m) /\ jobs'[i].to = jobs[i].to
      BY <1>2, <2>1, <2>4 DEF WaitsFor
    <2> QED
      BY <1>2, <1>3, <1>4, <2>4, UnmovedWorks, OnceFrame
  <1>6. CASE n = m
    <2>1. m \notin accepted /\ settled[m] = {}
      BY <1>6 DEF Accept, IInv, OfAccepted
    <2>2. \A i \in DOMAIN jobs : jobs[i].msg # m
      BY <2>1 DEF IInv, OfAccepted
    <2>3. \A v \in Workers : ~ WorksOn(v, m)'
      BY <1>3, <2>1, UnmovedWorks DEF IInv, OfAccepted, WorksOn
    <2>4. \A v \in Workers : ~ Carries(v, m)'
      BY <2>3 DEF Carries
    <2>5. \A i \in DOMAIN jobs' : WaitsFor(i, m)' => i = nextId
      BY <1>2, <2>2 DEF WaitsFor
    <2> QED
      BY <1>3, <2>1, <2>3, <2>4, <2>5 DEF Once
  <1> QED
    BY <1>5, <1>6

LEMMA OnceClaim ==
  ASSUME IInv, NEW m \in Msgs, Once(m), NEW w \in Workers, ClaimJob(w)
  PROVE  Once(m)'
  <1>1. PICK id \in Claimable :
          /\ Claim(id)
          /\ held' = [held EXCEPT ![w] =
               [id |-> id, kind |-> jobs[id].kind, msg |-> jobs[id].msg,
                to |-> jobs[id].to, attempts |-> jobs[id].attempts + 1]]
    BY DEF ClaimJob
  <1>q. QueueTypeOK
    BY DEF IInv, TypeOK
  <1>p. /\ nextId' = nextId
        /\ DOMAIN jobs' = DOMAIN jobs
        /\ id \in DOMAIN jobs
        /\ \A i \in DOMAIN jobs \ {id} : jobs'[i] = jobs[i]
        /\ jobs'[id] = [jobs[id] EXCEPT !.leased = TRUE, !.attempts = @ + 1]
        /\ SameMail(DOMAIN jobs)
    BY <1>q, <1>1, ClaimEffect
  <1>2. /\ DOMAIN jobs' = DOMAIN jobs /\ id \in DOMAIN jobs
        /\ \A i \in DOMAIN jobs \ {id} : jobs'[i] = jobs[i]
        /\ jobs'[id] = [jobs[id] EXCEPT !.leased = TRUE, !.attempts = @ + 1]
        /\ jobs[id] \in Jobs
    BY <1>q, <1>p DEF QueueTypeOK
  <1>3. jobs'[id].leased /\ ~ jobs[id].leased
    BY <1>1, <1>2 DEF Jobs, Claimable
  <1>4. /\ pc'[w] = "handle" /\ settled' = settled
        /\ held'[w].id = id /\ held'[w].kind = jobs[id].kind
        /\ held'[w].msg = jobs[id].msg /\ held'[w].to = jobs[id].to
        /\ \A v \in Workers \ {w} : Unmoved(v)
    BY <1>1 DEF ClaimJob, Goto, Unmoved, IInv, TypeOK
  <1>5. \A v \in Workers : WorksOn(v, m) => held[v].id # id
    BY <1>2, <1>3 DEF Once
  <1>6. \A i \in DOMAIN jobs' : WaitsFor(i, m)' => i # id /\ WaitsFor(i, m)
    BY <1>2, <1>3 DEF WaitsFor
  <1>7. CASE jobs[id].kind = "bounce" \/ jobs[id].msg # m
    <2>1. ~ WorksOn(w, m)'
      BY <1>4, <1>7 DEF WorksOn
    <2> QED
      BY <1>2, <1>4, <1>5, <1>6, <2>1, OnceElsewhere
  <1>8. CASE jobs[id].kind # "bounce" /\ jobs[id].msg = m
    <2>1. WaitsFor(id, m) /\ Owed(w)' = jobs[id].to
      BY <1>2, <1>3, <1>4, <1>8 DEF WaitsFor, Owed
    <2>2. \A i \in DOMAIN jobs' : ~ WaitsFor(i, m)'
      BY <1>2, <1>6, <2>1 DEF Once
    <2>3. \A v \in Workers : Carries(v, m)' => v = w
      BY <1>2, <1>4, <2>1, UnmovedWorks DEF Once
    <2>4. Owed(w)' \cap settled'[m] = {}
      BY <1>2, <1>4, <2>1 DEF Once
    <2>5. \A v \in Workers \ {w} : WorksOn(v, m)' =>
            WorksOn(v, m) /\ held'[v].id = held[v].id /\ held[v].id # id
      BY <1>4, <1>5, UnmovedWorks
    <2>6. \A v \in Workers :
            WorksOn(v, m)' /\ held'[v].id \in DOMAIN jobs' => jobs'[held'[v].id].leased
      <3>1. ASSUME NEW v \in Workers \ {w}, WorksOn(v, m)', held'[v].id \in DOMAIN jobs'
            PROVE  jobs'[held'[v].id].leased
        <4>1. held[v].id \in DOMAIN jobs /\ held[v].id # id /\ held'[v].id = held[v].id
              /\ jobs[held[v].id].leased
          BY <1>2, <2>5, <3>1 DEF Once
        <4> QED
          BY <1>2, <4>1
      <3>2. jobs'[held'[w].id].leased
        BY <1>3, <1>4
      <3> QED
        BY <3>1, <3>2
    <2>7. \A u, v \in Workers :
            WorksOn(u, m)' /\ WorksOn(v, m)' /\ held'[u].id = held'[v].id => u = v
      BY <1>4, <2>5 DEF Once
    <2> QED
      BY <2>2, <2>3, <2>4, <2>6, <2>7 DEF Once
  <1> QED
    BY <1>7, <1>8

\* A worker goes on with its row, and settles some of m's recipients only if
\* it has done with the row.
LEMMA OnceGoesOn ==
  ASSUME IInv, NEW m \in Msgs, Once(m), NEW w \in Workers, pc[w] = "handle",
         UNCHANGED <<jobs, held>>, \A v \in Workers \ {w} : Unmoved(v),
         held[w].kind # "bounce",
         \/ pc'[w] = "complete"
         \/ pc'[w] = "fail" /\ settled'[m] = settled[m],
         held[w].msg # m => settled'[m] = settled[m]
  PROVE  Once(m)'
  <1>1. WorksOn(w, m)' <=> held[w].msg = m
    BY DEF WorksOn
  <1>2. held[w].msg = m => WorksOn(w, m) /\ Carries(w, m)
    BY DEF WorksOn, Carries
  <1>3. pc'[w] = "fail" => Owed(w)' = Owed(w)
    BY DEF Owed
  <1>4. pc'[w] = "complete" => ~ Carries(w, m)'
    BY DEF Carries
  <1>5. \A i \in DOMAIN jobs : WaitsFor(i, m)' <=> WaitsFor(i, m)
    BY DEF WaitsFor
  <1>6. ASSUME NEW v \in Workers, WorksOn(v, m)'
        PROVE  /\ WorksOn(v, m) /\ held'[v].id = held[v].id
               /\ Carries(v, m)' => Carries(v, m) /\ Owed(v)' = Owed(v)
    BY <1>1, <1>2, <1>3, <1>4, <1>6, UnmovedWorks
  <1>7. \/ settled'[m] = settled[m]
        \/ /\ \A i \in DOMAIN jobs' : ~ WaitsFor(i, m)'
           /\ \A v \in Workers : ~ Carries(v, m)'
    <2>1. CASE held[w].msg = m /\ pc'[w] = "complete"
      BY <1>2, <1>4, <1>5, <2>1, UnmovedWorks DEF Once
    <2> QED
      BY <2>1
  <1> QED
    BY <1>5, <1>6, <1>7, OnceFrame

LEMMA OnceInbound ==
  ASSUME IInv, NEW m \in Msgs, Once(m), NEW w \in Workers, DeliverInbound(w)
  PROVE  Once(m)'
  <1>1. /\ pc[w] = "handle" /\ held[w].kind # "bounce" /\ UNCHANGED <<jobs, held>>
        /\ \A v \in Workers \ {w} : Unmoved(v)
    BY DEF DeliverInbound, Goto, Unmoved, IInv, TypeOK
  <1>2. \/ pc'[w] = "complete"
        \/ pc'[w] = "fail" /\ settled' = settled
    BY DEF DeliverInbound, Goto, IInv, TypeOK
  <1>3. held[w].msg # m => settled'[m] = settled[m]
    BY DEF DeliverInbound, Settle, IInv, TypeOK
  <1> QED
    BY <1>1, <1>2, <1>3, OnceGoesOn

LEMMA OnceSend ==
  ASSUME IInv, NEW m \in Msgs, Once(m), NEW w \in Workers, SendOutbound(w)
  PROVE  Once(m)'
  <1>1. PICK res \in SendReplies(held[w].to) :
          /\ Goto(w, StepAfter(held[w].to, res))
          /\ result' = [result EXCEPT ![w] =
               IF StepAfter(held[w].to, res) = "complete" THEN NoReply ELSE res]
          /\ Settle(held[w].msg, IF res.err = "none" THEN held[w].to ELSE res.partial)
    BY DEF SendOutbound
  <1>2. /\ pc[w] = "handle" /\ held[w].kind # "bounce" /\ UNCHANGED <<jobs, held>>
        /\ \A v \in Workers \ {w} : Unmoved(v)
    BY <1>1 DEF SendOutbound, Goto, Unmoved, IInv, TypeOK
  <1>3. pc'[w] = StepAfter(held[w].to, res) /\ (pc'[w] = "requeue" => result'[w] = res)
    BY <1>1 DEF Goto, IInv, TypeOK, StepAfter
  <1>4. held[w] \in Copies
    BY <1>2, BusyHolds DEF IInv
  <1>5. settled'[m] =
          IF held[w].msg = m
          THEN settled[m] \cup (IF res.err = "none" THEN held[w].to ELSE res.partial)
          ELSE settled[m]
    BY <1>1 DEF Settle, IInv, TypeOK
  <1>6. CASE pc'[w] = "complete"
    BY <1>2, <1>5, <1>6, OnceGoesOn
  <1>7. CASE pc'[w] = "fail"
    <2>1. res.err # "none" /\ res.partial = {}
      BY <1>3, <1>7 DEF StepAfter
    <2>2. settled'[m] = settled[m]
      BY <1>5, <2>1
    <2> QED
      BY <1>2, <1>7, <2>2, OnceGoesOn
  <1>8. CASE pc'[w] = "requeue"
    <2>1. res.err # "none" /\ result'[w] = res
      BY <1>3, <1>8 DEF StepAfter
    <2>2. WorksOn(w, m)' <=> held[w].msg = m
      BY <1>2, <1>8 DEF WorksOn
    <2>3. \A i \in DOMAIN jobs : WaitsFor(i, m)' <=> WaitsFor(i, m)
      BY <1>2 DEF WaitsFor
    <2>4. CASE held[w].msg # m
      BY <1>2, <1>5, <2>2, <2>4, OnceElsewhere
    <2>5. CASE held[w].msg = m
      <3>1. WorksOn(w, m) /\ Carries(w, m) /\ Owed(w) = held[w].to
        BY <1>2, <2>5 DEF WorksOn, Carries, Owed
      <3>2. Owed(w)' = held[w].to \ res.partial
        BY <1>2, <1>8, <2>1 DEF Owed
      <3>3. Owed(w)' \cap settled'[m] = {}
        BY <1>5, <2>1, <2>5, <3>1, <3>2 DEF Once
      <3>4. \A i \in DOMAIN jobs' : ~ WaitsFor(i, m)'
        BY <1>2, <2>3, <3>1 DEF Once
      <3>5. \A v \in Workers : Carries(v, m)' => v = w
        BY <1>2, <3>1, UnmovedWorks DEF Once
      <3>6. \A v \in Workers : WorksOn(v, m)' => WorksOn(v, m) /\ held'[v].id = held[v].id
        BY <1>2, <3>1, UnmovedWorks
      <3>7. \A v \in Workers :
              WorksOn(v, m)' /\ held'[v].id \in DOMAIN jobs' => jobs'[held'[v].id].leased
        BY <1>2, <3>6 DEF Once
      <3>8. \A u, v \in Workers :
              WorksOn(u, m)' /\ WorksOn(v, m)' /\ held'[u].id = held'[v].id => u = v
        BY <3>6 DEF Once
      <3> QED
        BY <3>3, <3>4, <3>5, <3>7, <3>8 DEF Once
    <2> QED
      BY <2>4, <2>5
  <1> QED
    BY <1>3, <1>6, <1>7, <1>8 DEF StepAfter

LEMMA OnceBounce ==
  ASSUME IInv, NEW m \in Msgs, Once(m), NEW w \in Workers, DeliverBounce(w)
  PROVE  Once(m)'
  <1>1. /\ UNCHANGED <<jobs, held, settled>> /\ held[w].kind = "bounce"
        /\ \A v \in Workers \ {w} : Unmoved(v)
    BY DEF DeliverBounce, Goto, Unmoved, IInv, TypeOK
  <1>2. ~ WorksOn(w, m)'
    BY <1>1 DEF WorksOn
  <1> QED
    BY <1>1, <1>2, OnceElsewhere

LEMMA OnceRequeue ==
  ASSUME IInv, NEW m \in Msgs, Once(m), NEW w \in Workers, RequeueRemainder(w),
         m \notin lapsed'
  PROVE  Once(m)'
  <1>1. /\ pc[w] = "requeue" /\ held' = held /\ settled' = settled /\ held[w] \in Copies
        /\ \A v \in Workers \ {w} : Unmoved(v)
    BY BusyHolds DEF RequeueRemainder, Goto, Unmoved, IInv, TypeOK
  <1>2. CASE Goto(w, "fail") /\ UNCHANGED <<jobs, nextId, result>>
                             /\ lapsed' = lapsed \cup {held[w].msg}
    <2>1. held[w].msg # m
      BY <1>2
    <2>2. ~ WorksOn(w, m)'
      BY <1>1, <2>1 DEF WorksOn
    <2> QED
      BY <1>1, <1>2, <2>2, OnceElsewhere
  <1>3. CASE /\ Enqueue("outbound", held[w].msg, held[w].to \ result[w].partial)
             /\ Goto(w, "complete")
    <2> DEFINE rest == held[w].to \ result[w].partial
    <2>1. "outbound" \in Kinds /\ held[w].msg \in Msgs /\ rest \in SUBSET Rcpts
      BY <1>1 DEF Kinds, Copies
    <2>2. /\ DOMAIN jobs' = DOMAIN jobs \cup {nextId} /\ nextId \notin DOMAIN jobs
          /\ \A i \in DOMAIN jobs : jobs'[i] = jobs[i]
          /\ jobs'[nextId] = NewJob("outbound", held[w].msg, rest)
      BY <1>3, <2>1, EnqueueEffect DEF IInv, TypeOK
    <2>3. pc'[w] = "complete"
      BY <1>3 DEF Goto, IInv, TypeOK
    <2>4. ASSUME NEW v \in Workers, WorksOn(v, m)
          PROVE  held[v].id \in DOMAIN jobs' => held[v].id \in DOMAIN jobs
      BY <2>2, <2>4, RowAtWork DEF IInv, TypeOK, QueueTypeOK
    <2>5. CASE held[w].msg # m
      <3>1. ~ WorksOn(w, m)' /\ \A i \in DOMAIN jobs' : WaitsFor(i, m)' => i # nextId
        BY <1>1, <2>2, <2>5 DEF WorksOn, WaitsFor, NewJob
      <3>2. \A i \in DOMAIN jobs' : (i \in DOMAIN jobs /\ jobs'[i] = jobs[i]) \/ ~ WaitsFor(i, m)'
        BY <2>2, <3>1
      <3>3. \A v \in Workers \ {w} : WorksOn(v, m) /\ held[v].id \in DOMAIN jobs' =>
              held[v].id \in DOMAIN jobs /\ jobs'[held[v].id] = jobs[held[v].id]
        BY <2>2, <2>4
      <3> QED
        BY <1>1, <3>1, <3>2, <3>3, OnceElsewhere
    <2>6. CASE held[w].msg = m
      <3>1. held[w].kind = "outbound"
        BY <1>1 DEF IInv, DoneCovered
      <3>2. WorksOn(w, m) /\ Carries(w, m) /\ Owed(w) = rest
        BY <1>1, <2>6, <3>1 DEF WorksOn, Carries, Owed
      <3>3. \A v \in Workers : ~ Carries(v, m)'
        <4>1. ~ Carries(w, m)'
          BY <2>3 DEF Carries
        <4> QED
          BY <1>1, <3>2, <4>1, UnmovedWorks DEF Once
      <3>4. \A i \in DOMAIN jobs' : WaitsFor(i, m)' => i = nextId
        <4>1. \A i \in DOMAIN jobs : WaitsFor(i, m)' <=> WaitsFor(i, m)
          BY <2>2, SameWaits
        <4> QED
          BY <2>2, <3>2, <4>1 DEF Once
      <3>5. jobs'[nextId].to \cap settled'[m] = {}
        BY <1>1, <2>2, <3>2 DEF Once, NewJob
      <3>6. \A v \in Workers : WorksOn(v, m)' => WorksOn(v, m) /\ held'[v].id = held[v].id
        BY <1>1, <3>2, UnmovedWorks
      <3>7. \A v \in Workers :
              WorksOn(v, m)' /\ held'[v].id \in DOMAIN jobs' => jobs'[held'[v].id].leased
        BY <2>2, <2>4, <3>6 DEF Once
      <3>8. \A u, v \in Workers :
              WorksOn(u, m)' /\ WorksOn(v, m)' /\ held'[u].id = held'[v].id => u = v
        BY <3>6 DEF Once
      <3>9. \A i \in DOMAIN jobs' : WaitsFor(i, m)' => (jobs[i].to \cap settled[m] = {})'
        BY <3>4, <3>5
      <3> QED
        BY <3>3, <3>4, <3>7, <3>8, <3>9 DEF Once
    <2> QED
      BY <2>5, <2>6
  <1> QED
    BY <1>2, <1>3 DEF RequeueRemainder

\* What Rest leaves to be shown of the other workers.
LEMMA RestsFrom ==
  ASSUME IInv, NEW m, NEW w \in Workers, Rest(w)
  PROVE  ~ WorksOn(w, m)' /\ \A v \in Workers \ {w} : Unmoved(v)
  BY RestFrame DEF IInv, WorksOn

LEMMA OnceComplete ==
  ASSUME IInv, NEW m \in Msgs, Once(m), NEW w \in Workers, CompleteJob(w)
  PROVE  Once(m)'
  <1>1. settled' = settled /\ ~ WorksOn(w, m)' /\ \A v \in Workers \ {w} : Unmoved(v)
    BY RestsFrom DEF CompleteJob
  <1>2. \A i \in DOMAIN jobs' : i \in DOMAIN jobs /\ jobs'[i] = jobs[i]
    BY CompleteEffect DEF CompleteJob, IInv, TypeOK
  <1> QED
    BY <1>1, <1>2, OnceElsewhere

LEMMA OnceFail ==
  ASSUME IInv, NEW m \in Msgs, Once(m), NEW w \in Workers, FailJob(w)
  PROVE  Once(m)'
  <1>1. /\ pc[w] = "fail" /\ settled' = settled /\ ~ WorksOn(w, m)'
        /\ \A v \in Workers \ {w} : Unmoved(v)
    <2>1. CASE Rest(w)
      BY <2>1, RestsFrom DEF FailJob
    <2>2. CASE Goto(w, "bounce") /\ UNCHANGED <<held, result>>
      BY <2>2 DEF FailJob, Goto, Unmoved, WorksOn, IInv, TypeOK
    <2> QED
      BY <2>1, <2>2 DEF FailJob
  <1>2. CASE UNCHANGED <<jobs, nextId>>
    BY <1>1, <1>2, OnceElsewhere
  <1>3. CASE Fail(held[w].id, Dead(w))
    <2> DEFINE id == held[w].id
    <2>1. Dead(w) \in BOOLEAN
      BY DEF Dead
    <2>2. /\ DOMAIN jobs' = DOMAIN jobs
          /\ \A i \in DOMAIN jobs \ {id} : jobs'[i] = jobs[i]
          /\ id \in DOMAIN jobs => /\ jobs'[id].kind = jobs[id].kind
                                   /\ jobs'[id].msg = jobs[id].msg
                                   /\ jobs'[id].to = jobs[id].to
      BY <1>3, <2>1, FailEffect DEF IInv, TypeOK, SameMail
    <2>3. id \in DOMAIN jobs =>
            jobs[id].kind = held[w].kind /\ jobs[id].msg = held[w].msg /\ jobs[id].to = held[w].to
      BY <1>1 DEF IInv, CopyFaithful
    <2>4. CASE held[w].kind # "bounce" /\ held[w].msg = m
      <3>1. WorksOn(w, m) /\ Carries(w, m) /\ Owed(w) = held[w].to
        BY <1>1, <2>4 DEF WorksOn, Carries, Owed
      <3>2. \A v \in Workers : WorksOn(v, m)' =>
              WorksOn(v, m) /\ held'[v].id = held[v].id /\ held[v].id # id
        BY <1>1, <3>1, UnmovedWorks DEF Once
      <3>3. \A v \in Workers : ~ Carries(v, m)'
        BY <1>1, <3>1, UnmovedWorks DEF Once, Carries
      <3>4. \A i \in DOMAIN jobs' : WaitsFor(i, m)' => i = id
        <4>1. \A i \in DOMAIN jobs \ {id} : WaitsFor(i, m)' <=> WaitsFor(i, m)
          BY <2>2, SameWaits
        <4> QED
          BY <2>2, <3>1, <4>1 DEF Once
      <3>5. \A i \in DOMAIN jobs' : WaitsFor(i, m)' => (jobs[i].to \cap settled[m] = {})'
        <4>1. held[w].to \cap settled[m] = {}
          BY <3>1 DEF Once
        <4> QED
          BY <1>1, <2>2, <2>3, <3>4, <4>1
      <3>6. \A v \in Workers :
              WorksOn(v, m)' /\ held'[v].id \in DOMAIN jobs' => jobs'[held'[v].id].leased
        BY <2>2, <3>2 DEF Once
      <3>7. \A u, v \in Workers :
              WorksOn(u, m)' /\ WorksOn(v, m)' /\ held'[u].id = held'[v].id => u = v
        BY <3>2 DEF Once
      <3> QED
        BY <3>3, <3>4, <3>5, <3>6, <3>7 DEF Once
    <2>5. CASE held[w].kind = "bounce" \/ held[w].msg # m
      <3>1. \A i \in DOMAIN jobs' : WaitsFor(i, m)' => i # held[w].id
        BY <2>2, <2>3, <2>5 DEF WaitsFor
      <3>2. \A v \in Workers : WorksOn(v, m) /\ held[v].id \in DOMAIN jobs => held[v].id # id
        BY <2>3, <2>5, RowAtWork
      <3> QED
        BY <1>1, <2>2, <3>1, <3>2, OnceElsewhere
    <2> QED
      BY <2>4, <2>5
  <1> QED
    BY <1>2, <1>3 DEF FailJob

LEMMA OnceEnqueueBounce ==
  ASSUME IInv, NEW m \in Msgs, Once(m), NEW w \in Workers, EnqueueBounce(w)
  PROVE  Once(m)'
  <1>1. settled' = settled /\ ~ WorksOn(w, m)' /\ \A v \in Workers \ {w} : Unmoved(v)
    BY RestsFrom DEF EnqueueBounce
  <1>2. CASE UNCHANGED <<jobs, nextId>>
    BY <1>1, <1>2, OnceElsewhere
  <1>3. CASE Enqueue("bounce", held[w].msg, FailedTo(held[w].to))
    <2>1. held[w] \in Copies
      BY BusyHolds DEF EnqueueBounce, IInv
    <2>2. "bounce" \in Kinds /\ held[w].msg \in Msgs /\ FailedTo(held[w].to) \in SUBSET Rcpts
      BY <2>1 DEF Kinds, Copies, FailedTo
    <2>3. /\ DOMAIN jobs' = DOMAIN jobs \cup {nextId} /\ nextId \notin DOMAIN jobs
          /\ \A i \in DOMAIN jobs : jobs'[i] = jobs[i]
          /\ jobs'[nextId] = NewJob("bounce", held[w].msg, FailedTo(held[w].to))
      BY <1>3, <2>2, EnqueueEffect DEF IInv, TypeOK
    <2>4. \A i \in DOMAIN jobs' : WaitsFor(i, m)' => i # nextId
      BY <2>3 DEF WaitsFor, NewJob
    <2>5. ASSUME NEW v \in Workers, WorksOn(v, m)
          PROVE  held[v].id \in DOMAIN jobs' => held[v].id \in DOMAIN jobs
      BY <2>3, <2>5, RowAtWork DEF IInv, TypeOK, QueueTypeOK
    <2>6. \A i \in DOMAIN jobs' : (i \in DOMAIN jobs /\ jobs'[i] = jobs[i]) \/ ~ WaitsFor(i, m)'
      BY <2>3, <2>4
    <2>7. \A v \in Workers \ {w} : WorksOn(v, m) /\ held[v].id \in DOMAIN jobs' =>
            held[v].id \in DOMAIN jobs /\ jobs'[held[v].id] = jobs[held[v].id]
      BY <2>3, <2>5
    <2> QED
      BY <1>1, <2>6, <2>7, OnceElsewhere
  <1> QED
    BY <1>2, <1>3 DEF EnqueueBounce

LEMMA OnceCrash ==
  ASSUME IInv, NEW m \in Msgs, Once(m), NEW w \in Workers, Crash(w)
  PROVE  Once(m)'
  <1>1. /\ UNCHANGED <<jobs, settled>>
        /\ ~ WorksOn(w, m)' /\ \A v \in Workers \ {w} : Unmoved(v)
    BY RestsFrom DEF Crash
  <1> QED
    BY <1>1, OnceElsewhere

\* The clock and the administrator: a lease that is out of a row of m stays.
LEMMA OnceOutside ==
  ASSUME IInv, NEW m \in Msgs, Once(m), NEW id \in DOMAIN jobs,
         AdminRetry(id) \/ AdminDelete(id) \/ PassLease(id) \/ PassBackoff(id),
         m \notin lapsed'
  PROVE  Once(m)'
  <1> DEFINE OfM == jobs[id].kind # "bounce" /\ jobs[id].msg = m
  <1>1. jobs[id] \in Jobs /\ jobs[id].leased \in BOOLEAN
    BY DEF IInv, TypeOK, QueueTypeOK, Jobs
  <1>2. /\ \A v \in Workers : Unmoved(v)
        /\ AdminDelete(id) \/ settled' = settled
    BY DEF AdminRetry, AdminDelete, PassLease, PassBackoff, Unmoved
  <1>3. /\ DOMAIN jobs' \subseteq DOMAIN jobs
        /\ \A i \in DOMAIN jobs' \ {id} : jobs'[i] = jobs[i]
        /\ AdminDelete(id) => id \notin DOMAIN jobs'
        /\ ~ AdminDelete(id) =>
             /\ id \in DOMAIN jobs'
             /\ jobs'[id].kind = jobs[id].kind /\ jobs'[id].msg = jobs[id].msg
             /\ jobs'[id].to = jobs[id].to
        /\ PassBackoff(id) => jobs'[id].leased = jobs[id].leased
    <2>1. CASE AdminRetry(id) /\ ~ AdminDelete(id) /\ ~ PassBackoff(id)
      BY <2>1, RetryEffect DEF AdminRetry, IInv, TypeOK, SameMail
    <2>2. CASE AdminDelete(id) /\ ~ PassBackoff(id)
      BY <2>2, DeleteJobEffect, CompleteEffect DEF AdminDelete, IInv, TypeOK
    <2>3. CASE PassLease(id) /\ ~ AdminDelete(id) /\ ~ PassBackoff(id)
      BY <2>3, ClockEffect DEF PassLease, IInv, TypeOK, SameMail
    <2>4. CASE PassBackoff(id)
      <3>1. /\ DOMAIN jobs' = DOMAIN jobs
            /\ \A i \in DOMAIN jobs \ {id} : jobs'[i] = jobs[i]
            /\ jobs'[id].leased = jobs[id].leased
            /\ SameMail(DOMAIN jobs)
        BY <2>4, ClockEffect DEF PassBackoff, IInv, TypeOK
      <3>2. ~ AdminDelete(id)
        BY <3>1, DeleteJobEffect, CompleteEffect DEF AdminDelete, IInv, TypeOK
      <3> QED
        BY <3>1, <3>2 DEF SameMail
    <2> QED
      BY <2>1, <2>2, <2>3, <2>4
  <1>4. OfM /\ ~ PassBackoff(id) => ~ jobs[id].leased
    BY DEF AdminRetry, AdminDelete, PassLease, Taken
  <1>5. OfM /\ jobs[id].leased /\ id \in DOMAIN jobs' => jobs'[id].leased
    BY <1>3, <1>4
  <1>6. ASSUME NEW i \in DOMAIN jobs', WaitsFor(i, m)'
        PROVE  i \in DOMAIN jobs /\ WaitsFor(i, m) /\ jobs'[i].to = jobs[i].to
    <2>1. CASE i = id
      BY <1>3, <1>5, <1>6, <2>1 DEF WaitsFor
    <2>2. CASE i # id
      BY <1>3, <1>6, <2>2 DEF WaitsFor
    <2> QED
      BY <2>1, <2>2
  <1>7. ASSUME NEW v \in Workers, WorksOn(v, m)'
        PROVE  /\ WorksOn(v, m) /\ held'[v].id = held[v].id
               /\ Carries(v, m)' => Carries(v, m) /\ Owed(v)' = Owed(v)
               /\ held[v].id \in DOMAIN jobs' =>
                    /\ held[v].id \in DOMAIN jobs
                    /\ jobs[held[v].id].leased => jobs'[held[v].id].leased
    <2>1. /\ WorksOn(v, m) /\ held'[v].id = held[v].id
          /\ Carries(v, m)' => Carries(v, m) /\ Owed(v)' = Owed(v)
      BY <1>2, <1>7, UnmovedWorks
    <2>2. CASE held[v].id = id
      BY <1>3, <1>5, <2>1, <2>2, RowAtWork
    <2>3. CASE held[v].id # id
      BY <1>3, <2>1, <2>3
    <2> QED
      BY <2>1, <2>2, <2>3
  <1>8. \/ settled'[m] = settled[m]
        \/ /\ \A i \in DOMAIN jobs' : ~ WaitsFor(i, m)'
           /\ \A w \in Workers : ~ Carries(w, m)'
    <2>1. CASE AdminDelete(id) /\ ~ PassBackoff(id) /\ OfM
      <3>1. WaitsFor(id, m) /\ id \notin DOMAIN jobs'
        BY <1>3, <1>4, <2>1 DEF WaitsFor
      <3> QED
        BY <1>2, <1>6, <3>1, UnmovedWorks DEF Once
    <2>2. CASE AdminDelete(id) /\ ~ OfM
      BY <2>2 DEF AdminDelete, Settle, IInv, TypeOK
    <2>3. CASE PassBackoff(id)
      BY <2>3 DEF PassBackoff
    <2> QED
      BY <1>2, <2>1, <2>2, <2>3
  <1> QED
    BY <1>6, <1>7, <1>8, OnceFrame

OnceInv == IInv /\ \A m \in Msgs \ lapsed : Once(m)

LEMMA OnceStart == Init => OnceInv
  <1> SUFFICES ASSUME Init, NEW m \in Msgs PROVE Once(m)
    BY InitInv DEF OnceInv
  <1>1. DOMAIN jobs = {} /\ \A w \in Workers : pc[w] = "idle"
    BY DEF Init, QueueInit
  <1> QED
    BY <1>1 DEF Once, WaitsFor, Carries, WorksOn

\* What may be sent again may be so for ever.
LEMMA LapsedGrows == Next => lapsed \subseteq lapsed'
  BY DEF Next, Accept, Work, ClaimJob, DeliverInbound, SendOutbound, DeliverBounce,
     RequeueRemainder, CompleteJob, FailJob, EnqueueBounce, Crash, AdminRetry, AdminDelete,
     PassLease, PassBackoff

LEMMA OnceStep == OnceInv /\ [Next]_vars => OnceInv'
  <1> SUFFICES ASSUME OnceInv, [Next]_vars PROVE OnceInv'
    OBVIOUS
  <1>1. IInv'
    BY InvNext DEF OnceInv
  <1>2. CASE UNCHANGED vars
    BY <1>1, <1>2 DEF OnceInv, vars, Once, WaitsFor, Carries, WorksOn, Owed
  <1>3. CASE Next
    <2> SUFFICES ASSUME NEW m \in Msgs, m \notin lapsed' PROVE Once(m)'
      BY <1>1 DEF OnceInv
    <2>1. Once(m) /\ IInv
      BY <1>3, LapsedGrows DEF OnceInv
    <2>2. ASSUME NEW w \in Workers, Work(w) \/ Crash(w) PROVE Once(m)'
      BY <2>1, <2>2, OnceClaim, OnceInbound, OnceSend, OnceBounce, OnceRequeue,
         OnceComplete, OnceFail, OnceEnqueueBounce, OnceCrash DEF Work
    <2>3. ASSUME NEW id \in DOMAIN jobs,
                 AdminRetry(id) \/ AdminDelete(id) \/ PassLease(id) \/ PassBackoff(id)
          PROVE  Once(m)'
      BY <2>1, <2>3, OnceOutside
    <2> QED
      BY <1>3, <2>1, <2>2, <2>3, OnceAccept DEF Next
  <1> QED
    BY <1>2, <1>3

\* Mail is sent again to a recipient who is done only if a lease on one of its
\* rows ran out or was taken away, or its remainder could not be inserted: for
\* any number of workers, whatever dies and fails.
THEOREM NobodySentTwice == Spec => []SentOnce
  <1>1. OnceInv => SentOnce
    <2> SUFFICES ASSUME OnceInv, NEW w \in Workers, pc[w] = "handle",
                        held[w].kind # "bounce", held[w].msg \notin lapsed
                 PROVE  held[w].to \cap settled[held[w].msg] = {}
      BY DEF SentOnce
    <2>1. held[w].msg \in Msgs
      BY BusyHolds DEF OnceInv, IInv, Copies
    <2>2. Carries(w, held[w].msg) /\ Owed(w) = held[w].to
      BY DEF Carries, WorksOn, Owed
    <2> QED
      BY <2>1, <2>2 DEF OnceInv, Once
  <1> QED
    BY <1>1, OnceStart, OnceStep, PTL DEF Spec

=============================================================================
