------------------------------- MODULE Intake -------------------------------
(***************************************************************************)
(* How mail enters: the sessions of smtpd on the SMTP and the submission   *)
(* port (Mail, Rcpt, Data) and the inbound pipeline that Data runs, up to  *)
(* the rows it leaves in queue_jobs and in quarantine, with the greylist   *)
(* in between and an administrator who changes the directory meanwhile.    *)
(*                                                                         *)
(* On the other side is a sender who does what SMTP asks of him: he tries  *)
(* a recipient again as long as he has no final answer about him.  Each    *)
(* message has a session of its own.  The loops over recipients go in an   *)
(* arbitrary order; that of the envelope is the sender's choice.           *)
(***************************************************************************)
EXTENDS JobQueue, FiniteSets, Sequences

CONSTANTS
  Addressed,    \* Addressed[m]: the recipients of m
  Known,        \* recipients that resolve to a mailbox at first
  Greylisting,  \* mail.greylist_seconds > 0
  MaxFaults,    \* bound: failed statements, broken connections, crashes
  MaxChanges    \* bound: changes of the directory

ASSUME IntakeAssumption ==
  /\ Addressed \in [Msgs -> SUBSET Rcpts]
  /\ Known \subseteq Rcpts
  /\ Greylisting \in BOOLEAN
  /\ MaxFaults \in Nat /\ MaxChanges \in Nat

VARIABLES
  users,       \* messages whose sender has logged in to his mailbox
  submission,  \* messages handed in on the submission port (RequireAuth)
  quarantine,  \* the rows of the table quarantine, in the order of their ids
  known,       \* recipients that ResolveRecipient finds
  seen,        \* seen[m][r]: the greylist's entry for sender and recipient
  pc,          \* pc[m]: where the session of m is
  rcpts,       \* rcpts[m]: the recipients accepted in this transaction
  left,        \* left[m]: those the present loop has not come to
  remote,      \* remote[m]: those that Data sends to the internet
  verdict,     \* verdict[m]: what spam and virus checks say, or the reply
  plan,        \* plan[m]: the deliveries that Process has decided on
  told,        \* told[m][r]: what the sender has been told about r
  faults, changed   \* counts the faults; recipients whose entry ever changed

vars == <<jobs, nextId, users, submission, quarantine, known, seen, pc, rcpts, left, remote,
          verdict, plan, told, faults, changed>>

tables == <<jobs, nextId, quarantine>>
senders == <<users, submission>>
world == <<senders, known, changed>>
transaction == <<remote, verdict, plan>>

Init ==
  /\ QueueInit
  /\ users \in SUBSET Msgs
  /\ submission \in SUBSET Msgs
  /\ quarantine = <<>>
  /\ known = Known
  /\ seen = [m \in Msgs |-> [r \in Rcpts |-> "unseen"]]
  /\ pc = [m \in Msgs |-> "idle"]
  /\ rcpts = [m \in Msgs |-> {}]
  /\ left = [m \in Msgs |-> {}]
  /\ remote = [m \in Msgs |-> {}]
  /\ verdict = [m \in Msgs |-> "none"]
  /\ plan = [m \in Msgs |-> {}]
  /\ told = [m \in Msgs |-> [r \in Rcpts |-> "wait"]]
  /\ faults = 0
  /\ changed = {}

Waiting(m) == {r \in Addressed[m] : told[m][r] = "wait"}

Fault == faults < MaxFaults /\ faults' = faults + 1

\* ResolveRecipient, where an error of the store looks like an unknown
\* recipient to all its callers.
Resolves(r) == r \in known /\ UNCHANGED faults

Unresolved(r) == (r \notin known /\ UNCHANGED faults) \/ Fault

Goto(m, step) == pc' = [pc EXCEPT ![m] = step]

Loop(m, set) == left' = [left EXCEPT ![m] = set]

Past(m, r) == Loop(m, left[m] \ {r})

Tell(m, set, answer) ==
  told' = [told EXCEPT ![m] = [r \in Rcpts |-> IF r \in set THEN answer ELSE @[r]]]


\* Session.Reset, and the variables of Data go out of scope.
Reset(m) ==
  /\ rcpts' = [rcpts EXCEPT ![m] = {}]
  /\ Loop(m, {})
  /\ remote' = [remote EXCEPT ![m] = {}]
  /\ verdict' = [verdict EXCEPT ![m] = "none"]
  /\ plan' = [plan EXCEPT ![m] = {}]

-----------------------------------------------------------------------------
(* MAIL and RCPT.                                                          *)

\* On the submission port without login, or for an address that senderAllowed
\* does not find to be the user's own, the answer is final.  (A 450 of the
\* send limit leaves everything as it is.)
Mail(m) ==
  /\ pc[m] = "idle"
  /\ Waiting(m) # {}
  /\ \/ /\ m \in submission
        /\ Tell(m, Waiting(m), "refused")
        /\ UNCHANGED <<pc, rcpts, left>>
     \/ /\ m \in submission => m \in users
        /\ Goto(m, "rcpt")
        /\ rcpts' = [rcpts EXCEPT ![m] = {}]
        /\ Loop(m, Waiting(m))
        /\ UNCHANGED told
  /\ UNCHANGED <<tables, world, seen, transaction, faults>>

Accept(m, r) == rcpts' = [rcpts EXCEPT ![m] = @ \cup {r}]

RcptRestamps(m, r) ==   \* faulty variant: every attempt counts as the first
  /\ pc[m] = "rcpt"
  /\ r \in left[m]
  /\ Past(m, r)
  /\ IF Greylisting /\ m \notin users \cup submission
     THEN seen' = [seen EXCEPT ![m][r] = "young"] /\ UNCHANGED rcpts
     ELSE Accept(m, r) /\ UNCHANGED seen
  /\ UNCHANGED <<tables, world, pc, transaction, told, faults>>

\* The submission port takes any recipient.  The SMTP port looks him up, and
\* asks a stranger to come back later when the greylist has not known sender
\* and recipient for long enough.
Rcpt(m, r) ==
  /\ pc[m] = "rcpt"
  /\ r \in left[m]
  /\ Past(m, r)
  /\ \/ /\ m \in submission
        /\ Accept(m, r)
        /\ UNCHANGED <<seen, told, faults>>
     \/ /\ m \notin submission
        /\ Unresolved(r)
        /\ Tell(m, {r}, "refused")
        /\ UNCHANGED <<rcpts, seen>>
     \/ /\ m \notin submission
        /\ Resolves(r)
        /\ UNCHANGED told
        /\ IF Greylisting /\ m \notin users /\ seen[m][r] # "ripe"
           THEN seen' = [seen EXCEPT ![m][r] = "young"] /\ UNCHANGED rcpts
           ELSE Accept(m, r) /\ UNCHANGED seen
  /\ UNCHANGED <<tables, world, pc, transaction>>

-----------------------------------------------------------------------------
(* DATA.                                                                   *)

Local(m) == rcpts[m] \ remote[m]

Reply(m, code) ==
  /\ verdict' = [verdict EXCEPT ![m] = code]
  /\ Goto(m, "reply")
  /\ Loop(m, {})

\* All recipients have been named: the message follows if there are any left.
Data(m) ==
  /\ pc[m] = "rcpt"
  /\ left[m] = {}
  /\ IF rcpts[m] = {}
     THEN Goto(m, "idle") /\ Reset(m)
     ELSE Goto(m, "split") /\ Loop(m, rcpts[m]) /\ UNCHANGED <<rcpts, transaction>>
  /\ UNCHANGED <<tables, world, seen, told, faults>>

SplitForAll(m, r) ==   \* faulty variant: nobody asks whether the sender logged in
  /\ pc[m] = "split"
  /\ r \in left[m]
  /\ \/ Resolves(r) /\ UNCHANGED remote
     \/ Unresolved(r) /\ remote' = [remote EXCEPT ![m] = @ \cup {r}]
  /\ Past(m, r)
  /\ UNCHANGED <<tables, world, seen, rcpts, pc, verdict, plan, told>>

\* Recipients are looked up again.  For a user the unknown ones are remote.
Split(m, r) ==
  /\ pc[m] = "split"
  /\ r \in left[m]
  /\ \/ Resolves(r) /\ Past(m, r) /\ UNCHANGED <<pc, remote, verdict>>
     \/ /\ m \in users
        /\ Unresolved(r)
        /\ remote' = [remote EXCEPT ![m] = @ \cup {r}]
        /\ Past(m, r)
        /\ UNCHANGED <<pc, verdict>>
     \/ /\ m \notin users
        /\ Unresolved(r)
        /\ Reply(m, "refused")
        /\ UNCHANGED remote
  /\ UNCHANGED <<tables, world, seen, rcpts, plan, told>>

SplitEnds(m) ==
  /\ pc[m] = "split"
  /\ left[m] = {}
  /\ Goto(m, IF Local(m) = {} THEN "relay" ELSE "screen")
  /\ UNCHANGED <<tables, world, seen, rcpts, left, transaction, told, faults>>

\* Process: size, spam engine and virus scanner, all of one policy.
Screen(m) ==
  /\ pc[m] = "screen"
  /\ \/ Reply(m, "refused")
     \/ /\ \E v \in {"deliver", "flag", "quarantine"} : verdict' = [verdict EXCEPT ![m] = v]
        /\ Goto(m, "plan")
        /\ Loop(m, Local(m))
  /\ UNCHANGED <<tables, world, seen, rcpts, remote, plan, told, faults>>

PlanSkipsRejected(m, r) ==   \* faulty variant: a reject rule drops the recipient
  /\ pc[m] = "plan"
  /\ r \in left[m]
  /\ \/ Unresolved(r) /\ UNCHANGED plan
     \/ Resolves(r) /\ verdict[m] = "deliver" /\ UNCHANGED plan
     \/ Resolves(r) /\ plan' = [plan EXCEPT ![m] = @ \cup {r}]
  /\ Past(m, r)
  /\ UNCHANGED <<tables, world, seen, rcpts, pc, remote, verdict, told>>

\* Each recipient is looked up once more, and skipped if that fails.  A filter
\* rule of one recipient may reject the message for everybody.  (That rules
\* cannot be read, and the folder they name, make no difference here.)
Plan(m, r) ==
  /\ pc[m] = "plan"
  /\ r \in left[m]
  /\ \/ Unresolved(r) /\ Past(m, r) /\ UNCHANGED <<pc, verdict, plan>>
     \/ /\ Resolves(r)
        /\ verdict[m] = "deliver"
        /\ Reply(m, "refused")
        /\ UNCHANGED plan
     \/ /\ Resolves(r)
        /\ plan' = [plan EXCEPT ![m] = @ \cup {r}]
        /\ Past(m, r)
        /\ UNCHANGED <<pc, verdict>>
  /\ UNCHANGED <<tables, world, seen, rcpts, remote, told>>

PlanEnds(m) ==
  /\ pc[m] = "plan"
  /\ left[m] = {}
  /\ Goto(m, "store")
  /\ Loop(m, plan[m])
  /\ UNCHANGED <<tables, world, seen, rcpts, transaction, told, faults>>

StoreRejecting(m, r) ==   \* faulty variant: the rules are asked one by one here
  /\ pc[m] = "store"
  /\ r \in left[m]
  /\ \/ Reply(m, "refused") /\ UNCHANGED tables
     \/ /\ Enqueue("inbound", m, {r})
        /\ Past(m, r)
        /\ UNCHANGED <<quarantine, pc, verdict>>
  /\ UNCHANGED <<world, seen, rcpts, remote, plan, told, faults>>

\* A row for each delivery.  When one cannot be inserted Process returns, Data
\* logs the error and goes on as if all was well.
Store(m, r) ==
  /\ pc[m] = "store"
  /\ r \in left[m]
  /\ \/ /\ verdict[m] = "quarantine"
        /\ quarantine' = Append(quarantine, [msg |-> m, rcpt |-> r])
        /\ Past(m, r)
        /\ UNCHANGED <<jobs, nextId, faults>>
     \/ /\ verdict[m] # "quarantine"
        /\ Enqueue("inbound", m, {r})
        /\ Past(m, r)
        /\ UNCHANGED <<quarantine, faults>>
     \/ /\ Fault
        /\ Loop(m, {})
        /\ UNCHANGED tables
  /\ UNCHANGED <<world, seen, pc, rcpts, transaction, told>>

StoreEnds(m) ==
  /\ pc[m] = "store"
  /\ left[m] = {}
  /\ Goto(m, "relay")
  /\ UNCHANGED <<tables, world, seen, rcpts, left, transaction, told, faults>>

RelayEveryone(m) ==   \* faulty variant: the job names all recipients
  /\ pc[m] = "relay"
  /\ IF remote[m] = {} THEN UNCHANGED tables
     ELSE Enqueue("outbound", m, rcpts[m]) /\ UNCHANGED quarantine
  /\ Reply(m, "ok")
  /\ UNCHANGED <<world, seen, rcpts, remote, plan, told, faults>>

\* One job for the remote recipients, or a 451 for the whole transaction.
Relay(m) ==
  /\ pc[m] = "relay"
  /\ \/ /\ IF remote[m] = {} THEN UNCHANGED tables
           ELSE Enqueue("outbound", m, remote[m]) /\ UNCHANGED quarantine
        /\ Reply(m, "ok")
        /\ UNCHANGED faults
     \/ /\ remote[m] # {}
        /\ Fault
        /\ Reply(m, "wait")
        /\ UNCHANGED tables
  /\ UNCHANGED <<world, seen, rcpts, remote, plan, told>>

\* The sender reads the reply, or his connection is gone by now.
Answer(m) ==
  /\ pc[m] = "reply"
  /\ \/ Tell(m, rcpts[m], verdict[m]) /\ UNCHANGED faults
     \/ Fault /\ UNCHANGED told
  /\ Goto(m, "idle")
  /\ Reset(m)
  /\ UNCHANGED <<tables, world, seen>>

-----------------------------------------------------------------------------
(* Around it.                                                              *)

\* The process dies: sessions and greylist are gone.
Crash ==
  /\ Fault
  /\ \E m \in Msgs : pc[m] # "idle"
  /\ pc' = [m \in Msgs |-> "idle"]
  /\ rcpts' = [m \in Msgs |-> {}]
  /\ left' = [m \in Msgs |-> {}]
  /\ remote' = [m \in Msgs |-> {}]
  /\ verdict' = [m \in Msgs |-> "none"]
  /\ plan' = [m \in Msgs |-> {}]
  /\ seen' = [m \in Msgs |-> [r \in Rcpts |-> "unseen"]]
  /\ UNCHANGED <<tables, world, told>>

\* The administrator creates, enables, disables or deletes what r resolves to.
ChangeDirectory(r) ==
  /\ Cardinality(changed) < MaxChanges
  /\ known' = IF r \in known THEN known \ {r} ELSE known \cup {r}
  /\ changed' = changed \cup {r}
  /\ UNCHANGED <<senders, tables, seen, pc, rcpts, left, transaction, told, faults>>

\* greylist_seconds have passed since the first attempt.
Ripen(m, r) ==
  /\ seen[m][r] = "young"
  /\ seen' = [seen EXCEPT ![m][r] = "ripe"]
  /\ UNCHANGED <<tables, world, pc, rcpts, left, transaction, told, faults>>

Step(m) ==
  \/ Mail(m)
  \/ Data(m)
  \/ SplitEnds(m)
  \/ Screen(m)
  \/ PlanEnds(m)
  \/ StoreEnds(m)
  \/ Relay(m)
  \/ Answer(m)
  \/ \E r \in left[m] : Rcpt(m, r) \/ Split(m, r) \/ Plan(m, r) \/ Store(m, r)

Next ==
  \/ \E m \in Msgs : Step(m)
  \/ Crash
  \/ \E r \in Rcpts : ChangeDirectory(r)
  \/ \E m \in Msgs, r \in Rcpts : Ripen(m, r)

\* A sender does not give up, Data runs to its end within its two minutes, and
\* time passes.
Spec ==
  /\ Init /\ [][Next]_vars
  /\ \A m \in Msgs : WF_vars(Step(m))
  /\ \A m \in Msgs, r \in Rcpts : WF_vars(Ripen(m, r))

-----------------------------------------------------------------------------
(* Properties.                                                             *)

TypeOK ==
  /\ QueueTypeOK
  /\ users \subseteq Msgs /\ submission \subseteq Msgs
  /\ quarantine \in Seq([msg : Msgs, rcpt : Rcpts])
  /\ known \subseteq Rcpts
  /\ seen \in [Msgs -> [Rcpts -> {"unseen", "young", "ripe"}]]
  /\ pc \in [Msgs -> {"idle", "rcpt", "split", "screen", "plan", "store", "relay", "reply"}]
  /\ rcpts \in [Msgs -> SUBSET Rcpts]
  /\ left \in [Msgs -> SUBSET Rcpts]
  /\ remote \in [Msgs -> SUBSET Rcpts]
  /\ plan \in [Msgs -> SUBSET Rcpts]
  /\ verdict \in [Msgs -> {"none", "deliver", "flag", "quarantine",
                           "ok", "refused", "wait"}]
  /\ told \in [Msgs -> [Rcpts -> {"wait", "ok", "refused"}]]
  /\ \A m \in Msgs :
       /\ rcpts[m] \cup left[m] \subseteq Waiting(m)
       /\ remote[m] \subseteq rcpts[m]
       /\ plan[m] \subseteq Local(m)
       /\ pc[m] = "idle" => rcpts[m] = {}
  /\ faults \in 0..MaxFaults
  /\ changed \subseteq Rcpts

Copies(m, r) ==
  Cardinality({i \in DOMAIN jobs : jobs[i].msg = m /\ r \in jobs[i].to})
    + Cardinality({i \in DOMAIN quarantine : quarantine[i] = [msg |-> m, rcpt |-> r]})

Kept(m, r) ==
  \/ \E i \in DOMAIN jobs : jobs[i].msg = m /\ r \in jobs[i].to
  \/ \E i \in DOMAIN quarantine : quarantine[i] = [msg |-> m, rcpt |-> r]

\* Mail that the sender was told is accepted is kept for each recipient, as a
\* job or in quarantine.  The exceptions are those the code knows of: a failed
\* statement, which Data only logs, and a recipient who ceased to resolve
\* between Data's lookup and Process's.
AcceptedIsKept ==
  \A m \in Msgs : \A r \in Addressed[m] :
    told[m][r] = "ok" => Kept(m, r) \/ faults > 0 \/ r \in changed

\* What the sender was told is refused is not delivered all the same, although
\* recipients of one transaction are judged one by one: all rules are asked
\* before the first row is inserted.  Only an earlier transaction that broke
\* off can have left a copy.
RefusedIsNotKept ==
  \A m \in Msgs : \A r \in Addressed[m] :
    told[m][r] = "refused" => ~Kept(m, r) \/ faults > 0

\* Nobody gets a message more often than once for each try that broke off:
\* however a transaction is cut into local and remote recipients, greylisted
\* ones and known ones, each is handled in one place.
FewCopies ==
  \A m \in Msgs : \A r \in Addressed[m] : Copies(m, r) <= 1 + faults

\* Mail of strangers never goes out again, not even when a recipient vanishes
\* between RCPT and DATA and would count as a remote one.
NoRelay ==
  \A i \in DOMAIN jobs : jobs[i].kind = "outbound" => jobs[i].msg \in users

\* What makes these inductive: which variables a session uses at which of its
\* steps, where a recipient of it is to be found, and who can have a copy.
Phases(m) ==
  /\ pc[m] \in {"idle", "screen", "relay", "reply"} => left[m] = {}
  /\ pc[m] \in {"idle", "rcpt"} => remote[m] = {}
  /\ pc[m] \in {"idle", "rcpt", "split", "screen"} => plan[m] = {}
  /\ pc[m] = "rcpt" => rcpts[m] \cap left[m] = {}
  /\ pc[m] = "split" => left[m] \subseteq rcpts[m]
  /\ pc[m] = "plan" => left[m] \subseteq Local(m)
  /\ pc[m] = "store" => left[m] \subseteq plan[m]
  /\ pc[m] = "reply" => verdict[m] \in {"ok", "refused", "wait"}
  /\ remote[m] # {} => m \in users

OnItsWay(m, r) ==
  faults = 0 /\ r \in rcpts[m] \ (remote[m] \cup changed) =>
    /\ pc[m] = "split" => r \in left[m] \cup known
    /\ pc[m] = "screen" => r \in known
    /\ pc[m] = "plan" => r \in plan[m] \cup (left[m] \cap known)
    /\ pc[m] = "store" => r \in left[m] \/ Kept(m, r)
    /\ pc[m] = "relay" => Kept(m, r)

ReplyTrue(m, r) ==
  faults = 0 /\ r \in rcpts[m] \ changed /\ pc[m] = "reply" /\ verdict[m] = "ok"
    => Kept(m, r)

KeptForGood(m, r) ==
  faults = 0 /\ Kept(m, r) =>
    \/ told[m][r] = "ok"
    \/ /\ r \in rcpts[m]
       /\ \/ pc[m] \in {"store", "relay"}
          \/ pc[m] = "reply" /\ verdict[m] = "ok"

IInv ==
  /\ TypeOK
  /\ \A m \in Msgs : Phases(m)
  /\ \A m \in Msgs, r \in Rcpts : OnItsWay(m, r) /\ ReplyTrue(m, r) /\ KeptForGood(m, r)
  /\ NoRelay
  /\ AcceptedIsKept
  /\ RefusedIsNotKept

\* A sender who keeps trying gets a final answer about every recipient: the
\* greylist lets him in at last, and no recipient holds up the others.
SenderAnswered ==
  \A m \in Msgs : \A r \in Addressed[m] : <>(told[m][r] # "wait")

=============================================================================
