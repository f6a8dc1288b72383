------------------------------ MODULE Delivery ------------------------------
(***************************************************************************)
(* The delivery path: the MTA puts accepted mail into queue_jobs, worker   *)
(* processes claim jobs, store or send them and settle them, and an        *)
(* administrator retries or deletes jobs, all at the same time.  A worker  *)
(* may die between any two of its steps and is restarted.                  *)
(*                                                                         *)
(* A statement on the database may fail; then the row is as before and the *)
(* worker goes on as runner.go does when the call returns an error.        *)
(***************************************************************************)
EXTENDS JobQueue

CONSTANTS
  Workers,        \* worker processes
  DomainOf,       \* the domain part of each recipient's address
  KindOf,         \* KindOf[m]: "inbound" or "outbound"
  Addressed,      \* Addressed[m]: the recipients the envelope names
  BounceEnabled   \* the setting mail.bounce_enabled

ASSUME DeliveryAssumption ==
  /\ KindOf \in [Msgs -> {"inbound", "outbound"}]
  /\ Addressed \in [Msgs -> SUBSET Rcpts]

INSTANCE SendOutcome

VARIABLES
  accepted,   \* the messages whose job has been inserted by the MTA
  pc,         \* pc[w]: where Runner.drain is in worker w
  held,       \* held[w]: the copy of the row that Claim returned to w
  result,     \* result[w]: what handling it returned
  settled,    \* settled[m]: recipients of m for whom a delivery was reported
              \* good, or a job naming them was deleted by the administrator
  disturbed,  \* rows whose lease was ended by something else than its holder
  lapsed      \* messages that may be sent again: a row of theirs that was out
              \* was let go or taken away, or a remainder was not inserted

vars == <<jobs, nextId, accepted, pc, held, result, settled, disturbed, lapsed>>

Copies == [id : Nat \ {0}, kind : Kinds, msg : Msgs, to : SUBSET Rcpts, attempts : Nat]

NoCopy == [id |-> 0]

Steps == {"idle", "handle", "requeue", "complete", "fail", "bounce"}

Init ==
  /\ QueueInit
  /\ accepted = {}
  /\ pc = [w \in Workers |-> "idle"]
  /\ held = [w \in Workers |-> NoCopy]
  /\ result = [w \in Workers |-> NoReply]
  /\ settled = [m \in Msgs |-> {}]
  /\ disturbed = {}
  /\ lapsed = {}

-----------------------------------------------------------------------------
(* The MTA: one job for an accepted message.                               *)

Accept(m) ==
  /\ m \notin accepted
  /\ Enqueue(KindOf[m], m, Addressed[m])
  /\ accepted' = accepted \cup {m}
  /\ UNCHANGED <<pc, held, result, settled, disturbed, lapsed>>

-----------------------------------------------------------------------------
(* Runner.drain in worker w.                                               *)

Goto(w, step) == pc' = [pc EXCEPT ![w] = step]

\* Faulty variant: the copy outlives the job.
RestHolding(w) ==
  /\ Goto(w, "idle")
  /\ result' = [result EXCEPT ![w] = NoReply]
  /\ UNCHANGED held

Rest(w) ==
  /\ Goto(w, "idle")
  /\ held' = [held EXCEPT ![w] = NoCopy]
  /\ result' = [result EXCEPT ![w] = NoReply]

Settle(m, rcpts) == settled' = [settled EXCEPT ![m] = @ \cup rcpts]

ClaimJob(w) ==
  /\ pc[w] = "idle"
  /\ \E id \in Claimable :
       /\ Claim(id)
       /\ held' = [held EXCEPT ![w] =
            [id |-> id, kind |-> jobs[id].kind, msg |-> jobs[id].msg,
             to |-> jobs[id].to, attempts |-> jobs[id].attempts + 1]]
  /\ Goto(w, "handle")
  /\ UNCHANGED <<accepted, result, settled, disturbed, lapsed>>

\* Store.AppendMessage stores the message or fails.  permanentFail looks for
\* "5.1.1" in the text of the error, and the text of a failed write names the
\* file, <nanoseconds>.<pid>.<mailbox>...: so any failure may pass for a
\* permanent one.
DeliverInbound(w) ==
  /\ pc[w] = "handle"
  /\ held[w].kind = "inbound"
  /\ \/ /\ Settle(held[w].msg, held[w].to)
        /\ Goto(w, "complete")
        /\ UNCHANGED result
     \/ /\ \E err \in {"temp", "perm"} : result' = [result EXCEPT ![w].err = err]
        /\ Goto(w, "fail")
        /\ UNCHANGED settled
  /\ UNCHANGED <<jobs, nextId, accepted, held, disturbed, lapsed>>

\* Where drain goes with the result of a send: an error with a Partial counts
\* as done when Partial names everyone, and else calls for a requeue.
StepAfterPartialIsDone(to, res) ==   \* faulty variant: no remainder
  IF res.err = "none" \/ res.partial # {} THEN "complete" ELSE "fail"

StepAfterPartialRetries(to, res) ==   \* faulty variant: all are tried again
  IF res.err = "none" \/ to \ res.partial = {} THEN "complete" ELSE "fail"

StepAfter(to, res) ==
  IF res.err = "none" THEN "complete"
  ELSE IF res.partial = {} THEN "fail"
  ELSE IF to \ res.partial = {} THEN "complete"
  ELSE "requeue"

SendOutbound(w) ==
  /\ pc[w] = "handle"
  /\ held[w].kind = "outbound"
  /\ \E res \in SendReplies(held[w].to) :
       LET next == StepAfter(held[w].to, res) IN
       /\ Goto(w, next)
       /\ result' = [result EXCEPT ![w] = IF next = "complete" THEN NoReply ELSE res]
       /\ Settle(held[w].msg, IF res.err = "none" THEN held[w].to ELSE res.partial)
  /\ UNCHANGED <<jobs, nextId, accepted, held, disturbed, lapsed>>

\* The DSN is stored, or dropped because the sender is no local mailbox, or
\* AppendMessage fails.
DeliverBounce(w) ==
  /\ pc[w] = "handle"
  /\ held[w].kind = "bounce"
  /\ \/ /\ Goto(w, "complete")
        /\ UNCHANGED result
     \/ /\ \E err \in {"temp", "perm"} : result' = [result EXCEPT ![w].err = err]
        /\ Goto(w, "fail")
  /\ UNCHANGED <<jobs, nextId, accepted, held, settled, disturbed, lapsed>>

\* Part of the envelope went through: a new job for the recipients that
\* Partial does not name.  If it cannot be inserted the whole job has failed.
RequeueAccepted(w) ==   \* faulty variant: recipDiff the other way round
  /\ pc[w] = "requeue"
  /\ \/ /\ Enqueue("outbound", held[w].msg, result[w].partial)
        /\ Goto(w, "complete")
        /\ result' = [result EXCEPT ![w] = NoReply]
        /\ UNCHANGED lapsed
     \/ /\ Goto(w, "fail")
        /\ lapsed' = lapsed \cup {held[w].msg}
        /\ UNCHANGED <<jobs, nextId, result>>
  /\ UNCHANGED <<accepted, held, settled, disturbed>>

RequeueRemainder(w) ==
  /\ pc[w] = "requeue"
  /\ \/ /\ Enqueue("outbound", held[w].msg, held[w].to \ result[w].partial)
        /\ Goto(w, "complete")
        /\ result' = [result EXCEPT ![w] = NoReply]
        /\ UNCHANGED lapsed
     \/ /\ Goto(w, "fail")
        /\ lapsed' = lapsed \cup {held[w].msg}
        /\ UNCHANGED <<jobs, nextId, result>>
  /\ UNCHANGED <<accepted, held, settled, disturbed>>

CompleteJob(w) ==
  /\ pc[w] = "complete"
  /\ Complete(held[w].id) \/ UNCHANGED <<jobs, nextId>>
  /\ Rest(w)
  /\ UNCHANGED <<accepted, settled, disturbed, lapsed>>

\* The decision is taken on the attempts of the claimed copy, not of the row.
Dead(w) ==
  held[w].attempts >= MaxAttemptsFor(held[w].kind) \/ result[w].err = "perm"

FailJob(w) ==
  /\ pc[w] = "fail"
  /\ Fail(held[w].id, Dead(w)) \/ UNCHANGED <<jobs, nextId>>
  /\ IF Dead(w) /\ held[w].kind = "outbound" /\ BounceEnabled
     THEN Goto(w, "bounce") /\ UNCHANGED <<held, result>>
     ELSE Rest(w)
  /\ UNCHANGED <<accepted, settled, disturbed, lapsed>>

EnqueueBounce(w) ==
  /\ pc[w] = "bounce"
  /\ \/ Enqueue("bounce", held[w].msg, FailedTo(held[w].to))
     \/ UNCHANGED <<jobs, nextId>>
  /\ Rest(w)
  /\ UNCHANGED <<accepted, settled, disturbed, lapsed>>

\* The process dies, or handle panics and drain recovers: the row keeps its
\* lease and the counted attempt.
Crash(w) ==
  /\ pc[w] # "idle"
  /\ Rest(w)
  /\ UNCHANGED <<jobs, nextId, accepted, settled, disturbed, lapsed>>

-----------------------------------------------------------------------------
(* The administrator, at any time, and the clock.                          *)

\* The mail of a row that is out: whoever ends its lease lets it be sent again.
Taken(id) ==
  IF jobs[id].leased /\ jobs[id].kind # "bounce" THEN {jobs[id].msg} ELSE {}

AdminRetry(id) ==
  /\ Retry(id)
  /\ disturbed' = disturbed \cup {id}
  /\ lapsed' = lapsed \cup Taken(id)
  /\ UNCHANGED <<accepted, pc, held, result, settled>>

AdminDelete(id) ==
  /\ DeleteJob(id)
  /\ IF jobs[id].kind = "bounce" THEN UNCHANGED settled
     ELSE Settle(jobs[id].msg, jobs[id].to)
  /\ lapsed' = lapsed \cup Taken(id)
  /\ UNCHANGED <<accepted, pc, held, result, disturbed>>

PassLease(id) ==
  /\ LeaseEnds(id)
  /\ disturbed' = disturbed \cup {id}
  /\ lapsed' = lapsed \cup Taken(id)
  /\ UNCHANGED <<accepted, pc, held, result, settled>>

PassBackoff(id) ==
  /\ BackoffEnds(id)
  /\ UNCHANGED <<accepted, pc, held, result, settled, disturbed, lapsed>>

-----------------------------------------------------------------------------
Work(w) ==
  \/ ClaimJob(w)
  \/ DeliverInbound(w)
  \/ SendOutbound(w)
  \/ DeliverBounce(w)
  \/ RequeueRemainder(w)
  \/ CompleteJob(w)
  \/ FailJob(w)
  \/ EnqueueBounce(w)

Next ==
  \/ \E m \in Msgs : Accept(m)
  \/ \E w \in Workers : Work(w) \/ Crash(w)
  \/ \E id \in DOMAIN jobs :
       AdminRetry(id) \/ AdminDelete(id) \/ PassLease(id) \/ PassBackoff(id)

Spec == Init /\ [][Next]_vars

\* A worker that is restarted when it dies and polls every two seconds goes
\* on taking steps, and time passes.
FairSpec ==
  /\ Spec
  /\ \A w \in Workers : WF_vars(Work(w))
  /\ \A id \in 1..MaxId : WF_vars(PassLease(id)) /\ WF_vars(PassBackoff(id))

-----------------------------------------------------------------------------
(* Properties.                                                             *)

TypeOK ==
  /\ QueueTypeOK
  /\ accepted \subseteq Msgs
  /\ pc \in [Workers -> Steps]
  /\ held \in [Workers -> Copies \cup {NoCopy}]
  /\ \A w \in Workers : held[w] = NoCopy <=> pc[w] = "idle"
  /\ result \in [Workers -> Replies]
  /\ settled \in [Msgs -> SUBSET Rcpts]
  /\ disturbed \subseteq 1..(nextId - 1)
  /\ lapsed \subseteq Msgs

\* The rows that still stand for mail of message m: dead ones too, which the
\* administrator sees and can retry.
MailRows(m) == {i \in DOMAIN jobs : jobs[i].msg = m /\ jobs[i].kind # "bounce"}

Pending(m) == {r \in Rcpts : \E i \in MailRows(m) : r \in jobs[i].to}

\* No recipient of accepted mail is ever forgotten: until a delivery to him
\* was reported good or the administrator deleted a job that names him, some
\* row names him, whatever crashes, partial sends, failed statements and
\* overlapping workers do (handle inserts the remainder of a partial delivery
\* before drain deletes the job it comes from).
NothingForgotten ==
  \A m \in accepted : Addressed[m] \subseteq settled[m] \cup Pending(m)

\* Two workers are never at work on one row at the same time unless the lease
\* ran out or the administrator released the row: Claim skips leased rows,
\* and a worker that has failed a job for good may still be busy with the
\* bounce, because a dead row cannot be claimed.
SoleHandler ==
  \A v, w \in Workers :
    v # w /\ pc[v] # "idle" /\ pc[w] # "idle" /\ held[v].id = held[w].id
      => held[v].id \in disturbed

\* No recipient is sent a message again after a delivery to him was reported
\* good (runner.go, drain): a worker that dies before Complete, or whose
\* Complete fails, leaves the row leased, a remainder names none who are done,
\* and a job that failed was good for nobody.  It takes a lease that ran out or
\* was taken away, or a remainder that was lost.
SentOnce ==
  \A w \in Workers :
    pc[w] = "handle" /\ held[w].kind # "bounce" /\ held[w].msg \notin lapsed
      => held[w].to \cap settled[held[w].msg] = {}

\* The recipients named by rows of m inserted after row i.
Later(m, i) == {r \in Rcpts : \E j \in MailRows(m) : j > i /\ r \in jobs[j].to}

\* What makes the two inductive.  A copy agrees with its row as long as the
\* row is there; a job about to be deleted is settled or taken over by later
\* rows (by later ones: two workers must not rely on each other's row); and
\* an undisturbed row in work is leased, or dead and about to be bounced.
CopyFaithful(w) ==
  pc[w] # "idle" =>
    /\ held[w].id < nextId
    /\ held[w].id \in DOMAIN jobs =>
         /\ jobs[held[w].id].kind = held[w].kind
         /\ jobs[held[w].id].msg = held[w].msg
         /\ jobs[held[w].id].to = held[w].to

DoneCovered(w) ==
  /\ pc[w] = "complete" /\ held[w].kind # "bounce" =>
       held[w].to \subseteq settled[held[w].msg] \cup Later(held[w].msg, held[w].id)
  /\ pc[w] = "requeue" =>
       held[w].kind = "outbound" /\ result[w].partial \subseteq settled[held[w].msg]

LeaseHeld(w) ==
  pc[w] # "idle" /\ held[w].id \in DOMAIN jobs /\ held[w].id \notin disturbed
    => jobs[held[w].id].leased \/ Exhausted(jobs[held[w].id])

\* Rows, copies and settled recipients belong to accepted mail.
OfAccepted ==
  /\ \A i \in DOMAIN jobs : jobs[i].msg \in accepted
  /\ \A w \in Workers : pc[w] # "idle" => held[w].msg \in accepted
  /\ \A m \in Msgs : m \notin accepted => settled[m] = {}

IInv ==
  /\ TypeOK
  /\ \A w \in Workers : CopyFaithful(w) /\ DoneCovered(w) /\ LeaseHeld(w)
  /\ NothingForgotten
  /\ SoleHandler
  /\ OfAccepted

\* Attempts are only taken back by the administrator's Retry: a worker that
\* settles a job from a copy that is out of date, because the lease passed to
\* another worker meanwhile, neither rewinds the count nor revives a dead row.
OnlyRetryRewinds ==
  [][\A i \in DOMAIN jobs \cap DOMAIN jobs' :
       jobs'[i].attempts < jobs[i].attempts => AdminRetry(i)]_vars

\* Why it holds: a dead row has just its limit, and no row is beyond it.
AttemptsBounded ==
  \A i \in DOMAIN jobs : jobs[i].attempts <= MaxAttemptsFor(jobs[i].kind)

\* Unless the administrator goes on retrying for ever, every job ends: its
\* row goes, or it is dead and no worker is at it.  It does so even if the
\* worker is killed at every job, because the attempt counts from the claim.
Ended(i) ==
  i \in DOMAIN jobs => Exhausted(jobs[i]) /\ \A w \in Workers : held[w].id # i

EveryJobEnds ==
  <>[][\A i \in DOMAIN jobs : ~AdminRetry(i)]_vars
    => \A i \in 1..MaxId : (i \in DOMAIN jobs) ~> Ended(i)

\* The delivery path keeps the promise that MailPromise states.
Status ==
  [p \in Msgs \X Rcpts |->
     IF p[1] \notin accepted \/ p[2] \notin Addressed[p[1]] THEN "none"
     ELSE IF p[2] \in settled[p[1]] THEN "settled"
     ELSE IF p[2] \in Pending(p[1]) THEN "owed"
     ELSE "forgotten"]

Promise == INSTANCE MailPromise WITH status <- Status

PromiseKept == Promise!Spec

=============================================================================
