------------------------------ MODULE JobQueue ------------------------------
(***************************************************************************)
(* The table queue_jobs and the QueueStore operations on it.  Every        *)
(* operation is one SQLite statement or one transaction, so each is one    *)
(* action; the processes that call them interleave between the actions.    *)
(*                                                                         *)
(* Clocks are reduced to what the statements compare: `due` is             *)
(* next_at <= now, `leased` is locked_until > now.  last_error, created_at *)
(* and updated_at are only displayed and are left out.                     *)
(***************************************************************************)
EXTENDS Naturals

CONSTANTS
  Msgs,          \* messages the server accepts
  Rcpts,         \* recipients, numbered in the order the envelope names them
  InboundMax,    \* max_attempts of an inbound_deliver job (5 in the code)
  OutboundMax,   \* max_attempts of an outbound_send job (8 in the code)
  MaxId          \* bound: rows that are ever inserted

ASSUME JobQueueAssumption ==
  /\ Rcpts \subseteq Nat
  /\ InboundMax \in Nat \ {0}
  /\ OutboundMax \in Nat \ {0}
  /\ MaxId \in Nat

VARIABLES
  jobs,    \* jobs[id]: the rows that exist
  nextId   \* the AUTOINCREMENT counter of the table

queueVars == <<jobs, nextId>>

Kinds == {"inbound", "outbound", "bounce"}

\* queue.maxAttemptsFor.
MaxAttemptsFor(kind) ==
  IF kind = "bounce" THEN 1 ELSE IF kind = "inbound" THEN InboundMax ELSE OutboundMax

Jobs == [kind : Kinds, msg : Msgs, to : SUBSET Rcpts,
         attempts : Nat, due : BOOLEAN, leased : BOOLEAN]

QueueTypeOK ==
  /\ nextId \in Nat \ {0}
  /\ DOMAIN jobs \subseteq 1..(nextId - 1)
  /\ jobs \in [DOMAIN jobs -> Jobs]

QueueInit ==
  /\ jobs = [i \in {} |-> 0]
  /\ nextId = 1

Without(id) == [i \in DOMAIN jobs \ {id} |-> jobs[i]]

\* Service.EnqueueJSON: due at once, never claimed yet.
NewJob(kind, msg, to) ==
  [kind |-> kind, msg |-> msg, to |-> to, attempts |-> 0, due |-> TRUE, leased |-> FALSE]

Enqueue(kind, msg, to) ==
  /\ nextId <= MaxId
  /\ jobs' = [i \in DOMAIN jobs \cup {nextId} |->
                IF i = nextId THEN NewJob(kind, msg, to) ELSE jobs[i]]
  /\ nextId' = nextId + 1

Exhausted(job) == job.attempts >= MaxAttemptsFor(job.kind)

\* Faulty variant: the lease is not looked at.
ClaimableLeaseIgnored == {i \in DOMAIN jobs : ~Exhausted(jobs[i]) /\ jobs[i].due}

Claimable == {i \in DOMAIN jobs : ~Exhausted(jobs[i]) /\ jobs[i].due /\ ~jobs[i].leased}

\* Faulty variant: the attempt is left to be counted when the job fails.
ClaimUncounted(id) ==
  /\ id \in Claimable
  /\ \A i \in Claimable : id <= i
  /\ jobs' = [jobs EXCEPT ![id].leased = TRUE]
  /\ UNCHANGED nextId

\* The attempt is counted when the job is claimed, before it is worked on.
Claim(id) ==
  /\ id \in Claimable
  /\ \A i \in Claimable : id <= i
  /\ jobs' = [jobs EXCEPT ![id].leased = TRUE, ![id].attempts = @ + 1]
  /\ UNCHANGED nextId

\* Complete, Fail, Retry and DeleteJob name the row by its id alone: they do
\* not look at the lease, and a row that is gone makes them a no-op.
Complete(id) ==
  /\ jobs' = Without(id)
  /\ UNCHANGED nextId

\* Faulty variant: a failure that may be temporary gives the attempt back.
FailRefunds(id, dead) ==
  /\ jobs' = IF id \notin DOMAIN jobs THEN jobs
             ELSE IF dead
             THEN [jobs EXCEPT ![id].leased = FALSE,
                               ![id].attempts = MaxAttemptsFor(jobs[id].kind)]
             ELSE [jobs EXCEPT ![id].leased = FALSE, ![id].due = FALSE,
                               ![id].attempts = IF @ > 0 THEN @ - 1 ELSE 0]
  /\ UNCHANGED nextId

Fail(id, dead) ==
  /\ jobs' = IF id \notin DOMAIN jobs THEN jobs
             ELSE IF dead
             THEN [jobs EXCEPT ![id].leased = FALSE,
                               ![id].attempts = MaxAttemptsFor(jobs[id].kind)]
             ELSE [jobs EXCEPT ![id].leased = FALSE, ![id].due = FALSE]
  /\ UNCHANGED nextId

Retry(id) ==
  /\ id \in DOMAIN jobs
  /\ jobs' = [jobs EXCEPT ![id].attempts = 0, ![id].due = TRUE, ![id].leased = FALSE]
  /\ UNCHANGED nextId

DeleteJob(id) ==
  /\ id \in DOMAIN jobs
  /\ jobs' = Without(id)
  /\ UNCHANGED nextId

\* The clock passes next_at: the end of the pause that Backoff chose.
BackoffEnds(id) ==
  /\ id \in DOMAIN jobs
  /\ ~jobs[id].due
  /\ jobs' = [jobs EXCEPT ![id].due = TRUE]
  /\ UNCHANGED nextId

\* The clock passes locked_until, two minutes after the claim.
LeaseEnds(id) ==
  /\ id \in DOMAIN jobs
  /\ jobs[id].leased
  /\ jobs' = [jobs EXCEPT ![id].leased = FALSE]
  /\ UNCHANGED nextId

=============================================================================
