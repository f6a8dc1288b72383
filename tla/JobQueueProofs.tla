--------------------------- MODULE JobQueueProofs ---------------------------
(***************************************************************************)
(* What each operation on queue_jobs does to the rows, and that it leaves  *)
(* a well-formed table.                                                    *)
(***************************************************************************)
EXTENDS JobQueue, TLAPS

\* The rows that `kept` names are there afterwards with the mail they were
\* inserted for.
SameMail(kept) ==
  \A i \in kept :
    /\ i \in DOMAIN jobs'
    /\ jobs'[i].kind = jobs[i].kind
    /\ jobs'[i].msg = jobs[i].msg
    /\ jobs'[i].to = jobs[i].to

\* A number of attempts that exhausts a kind of job is a natural number.
LEMMA MaxAttemptsNat == \A kind \in Kinds : MaxAttemptsFor(kind) \in Nat \ {0}
  BY JobQueueAssumption DEF MaxAttemptsFor, Kinds

\* The table is well formed when it is created.
LEMMA QueueInitOK == QueueInit => QueueTypeOK
  BY DEF QueueInit, QueueTypeOK

\* Inserting a job adds one row under a fresh id and touches no other.
LEMMA EnqueueEffect ==
  ASSUME QueueTypeOK,
         NEW kind \in Kinds, NEW msg \in Msgs, NEW to \in SUBSET Rcpts,
         Enqueue(kind, msg, to)
  PROVE  /\ QueueTypeOK'
         /\ nextId' = nextId + 1
         /\ nextId \notin DOMAIN jobs
         /\ DOMAIN jobs' = DOMAIN jobs \cup {nextId}
         /\ \A i \in DOMAIN jobs : jobs'[i] = jobs[i]
         /\ jobs'[nextId] = NewJob(kind, msg, to)
         /\ SameMail(DOMAIN jobs)
  <1>1. /\ nextId' = nextId + 1
        /\ nextId \notin DOMAIN jobs
        /\ DOMAIN jobs' = DOMAIN jobs \cup {nextId}
        /\ \A i \in DOMAIN jobs : jobs'[i] = jobs[i]
        /\ jobs'[nextId] = NewJob(kind, msg, to)
    BY DEF QueueTypeOK, Enqueue
  <1>2. NewJob(kind, msg, to) \in Jobs
    BY DEF NewJob, Jobs
  <1>3. jobs' \in [DOMAIN jobs' -> Jobs]
    BY <1>1, <1>2 DEF QueueTypeOK, Enqueue
  <1>4. DOMAIN jobs' \subseteq 1..(nextId' - 1) /\ nextId' \in Nat \ {0}
    BY <1>1 DEF QueueTypeOK
  <1>5. QED
    BY <1>1, <1>3, <1>4 DEF QueueTypeOK, SameMail

\* A claim leases the row and counts the attempt, and changes nothing else.
LEMMA ClaimEffect ==
  ASSUME QueueTypeOK, NEW id \in Claimable, Claim(id)
  PROVE  /\ QueueTypeOK'
         /\ nextId' = nextId
         /\ DOMAIN jobs' = DOMAIN jobs
         /\ id \in DOMAIN jobs
         /\ \A i \in DOMAIN jobs \ {id} : jobs'[i] = jobs[i]
         /\ jobs'[id] = [jobs[id] EXCEPT !.leased = TRUE, !.attempts = @ + 1]
         /\ SameMail(DOMAIN jobs)
  <1>1. /\ id \in DOMAIN jobs
        /\ jobs[id] \in Jobs
    BY DEF Claimable, QueueTypeOK
  <1>2. /\ jobs' = [jobs EXCEPT ![id] = [jobs[id] EXCEPT !.leased = TRUE, !.attempts = @ + 1]]
        /\ nextId' = nextId
    BY <1>1 DEF Claim
  <1>3. jobs[id].attempts + 1 \in Nat
    BY <1>1 DEF Jobs
  <1>4. [jobs[id] EXCEPT !.leased = TRUE, !.attempts = jobs[id].attempts + 1] \in Jobs
    BY <1>1, <1>3, Zenon DEF Jobs
  <1>5. QED
    BY <1>1, <1>2, <1>4 DEF QueueTypeOK, SameMail, Jobs

\* Deleting a row leaves the others as they were.
LEMMA CompleteEffect ==
  ASSUME QueueTypeOK, NEW id, Complete(id)
  PROVE  /\ QueueTypeOK'
         /\ nextId' = nextId
         /\ DOMAIN jobs' = DOMAIN jobs \ {id}
         /\ \A i \in DOMAIN jobs \ {id} : jobs'[i] = jobs[i]
         /\ SameMail(DOMAIN jobs \ {id})
  BY DEF QueueTypeOK, Complete, Without, SameMail

LEMMA DeleteJobEffect ==
  ASSUME QueueTypeOK, NEW id, DeleteJob(id)
  PROVE  Complete(id)
  BY DEF DeleteJob, Complete

\* Failing a job ends its lease; it is put off, or dead when told so.
LEMMA FailEffect ==
  ASSUME QueueTypeOK, NEW id, NEW dead \in BOOLEAN, Fail(id, dead)
  PROVE  /\ QueueTypeOK'
         /\ nextId' = nextId
         /\ DOMAIN jobs' = DOMAIN jobs
         /\ \A i \in DOMAIN jobs \ {id} : jobs'[i] = jobs[i]
         /\ id \in DOMAIN jobs /\ dead =>
              /\ Exhausted(jobs'[id])
              /\ jobs'[id].attempts = MaxAttemptsFor(jobs[id].kind)
         /\ id \in DOMAIN jobs /\ ~dead => jobs'[id].attempts = jobs[id].attempts
         /\ SameMail(DOMAIN jobs)
  <1>1. CASE id \notin DOMAIN jobs
    BY <1>1 DEF Fail, QueueTypeOK, SameMail
  <1>2. CASE id \in DOMAIN jobs /\ dead
    <2>1. jobs[id] \in Jobs /\ MaxAttemptsFor(jobs[id].kind) \in Nat
      BY <1>2, MaxAttemptsNat DEF QueueTypeOK, Jobs
    <2> DEFINE row == [jobs[id] EXCEPT !.leased = FALSE,
                                       !.attempts = MaxAttemptsFor(jobs[id].kind)]
    <2>2. jobs' = [jobs EXCEPT ![id] = row] /\ nextId' = nextId
      BY <1>2 DEF Fail
    <2>3. row \in Jobs
      BY <2>1 DEF Jobs
    <2>4. row.kind = jobs[id].kind /\ row.msg = jobs[id].msg /\ row.to = jobs[id].to
      BY <2>1 DEF Jobs
    <2>5. row.attempts >= MaxAttemptsFor(row.kind) /\ row.attempts = MaxAttemptsFor(jobs[id].kind)
      BY <2>1, <2>4 DEF Jobs
    <2>6. jobs'[id] = row /\ DOMAIN jobs' = DOMAIN jobs
          /\ \A i \in DOMAIN jobs \ {id} : jobs'[i] = jobs[i]
      BY <1>2, <2>2
    <2> HIDE DEF row
    <2>7. QED
      BY <1>2, <2>2, <2>3, <2>4, <2>5, <2>6 DEF QueueTypeOK, SameMail, Exhausted
  <1>3. CASE id \in DOMAIN jobs /\ ~dead
    <2>1. jobs[id] \in Jobs
      BY <1>3 DEF QueueTypeOK
    <2>2. /\ jobs' = [jobs EXCEPT ![id] = [jobs[id] EXCEPT !.leased = FALSE, !.due = FALSE]]
          /\ nextId' = nextId
      BY <1>3 DEF Fail
    <2>3. [jobs[id] EXCEPT !.leased = FALSE, !.due = FALSE] \in Jobs
      BY <2>1 DEF Jobs
    <2>4. QED
      BY <1>3, <2>1, <2>2, <2>3 DEF QueueTypeOK, SameMail, Jobs
  <1>4. QED
    BY <1>1, <1>2, <1>3

\* Retry starts the count again and ends the lease.
LEMMA RetryEffect ==
  ASSUME QueueTypeOK, NEW id, Retry(id)
  PROVE  /\ QueueTypeOK'
         /\ nextId' = nextId
         /\ id \in DOMAIN jobs
         /\ DOMAIN jobs' = DOMAIN jobs
         /\ \A i \in DOMAIN jobs \ {id} : jobs'[i] = jobs[i]
         /\ SameMail(DOMAIN jobs)
  <1>1. /\ id \in DOMAIN jobs
        /\ jobs[id] \in Jobs
    BY DEF Retry, QueueTypeOK
  <1> DEFINE row == [jobs[id] EXCEPT !.attempts = 0, !.due = TRUE, !.leased = FALSE]
  <1>2. jobs' = [jobs EXCEPT ![id] = row] /\ nextId' = nextId
    BY <1>1 DEF Retry
  <1>3. row \in Jobs
    BY <1>1 DEF Jobs
  <1>4. QED
    BY <1>1, <1>2, <1>3 DEF QueueTypeOK, SameMail, Jobs

\* The clock changes no count: it makes rows due and ends leases.
LEMMA ClockEffect ==
  ASSUME QueueTypeOK, NEW id, BackoffEnds(id) \/ LeaseEnds(id)
  PROVE  /\ QueueTypeOK'
         /\ nextId' = nextId
         /\ id \in DOMAIN jobs
         /\ DOMAIN jobs' = DOMAIN jobs
         /\ \A i \in DOMAIN jobs \ {id} : jobs'[i] = jobs[i]
         /\ jobs'[id].attempts = jobs[id].attempts
         /\ BackoffEnds(id) => jobs'[id].leased = jobs[id].leased
         /\ SameMail(DOMAIN jobs)
  <1>1. /\ id \in DOMAIN jobs
        /\ jobs[id] \in Jobs
    BY DEF BackoffEnds, LeaseEnds, QueueTypeOK
  <1>2. CASE BackoffEnds(id)
    <2>1. /\ jobs' = [jobs EXCEPT ![id] = [jobs[id] EXCEPT !.due = TRUE]]
          /\ nextId' = nextId
      BY <1>1, <1>2 DEF BackoffEnds
    <2>2. [jobs[id] EXCEPT !.due = TRUE] \in Jobs
      BY <1>1 DEF Jobs
    <2>3. QED
      BY <1>1, <2>1, <2>2 DEF QueueTypeOK, SameMail, Jobs
  <1>3. CASE LeaseEnds(id)
    <2>1. /\ jobs' = [jobs EXCEPT ![id] = [jobs[id] EXCEPT !.leased = FALSE]]
          /\ nextId' = nextId
      BY <1>1, <1>3 DEF LeaseEnds
    <2>2. [jobs[id] EXCEPT !.leased = FALSE] \in Jobs
      BY <1>1 DEF Jobs
    <2>3. ~BackoffEnds(id)
      BY <1>1, <1>3, <2>1 DEF BackoffEnds, LeaseEnds, Jobs
    <2>4. QED
      BY <1>1, <2>1, <2>2, <2>3 DEF QueueTypeOK, SameMail, Jobs
  <1>4. QED
    BY <1>2, <1>3

=============================================================================
