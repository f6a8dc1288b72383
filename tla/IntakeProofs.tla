---------------------------- MODULE IntakeProofs ----------------------------
(***************************************************************************)
(* Proofs about Intake, for any number of messages, recipients, faults and *)
(* changes of the directory: it is type correct, strangers' mail is not    *)
(* relayed, and what the sender is told is what happens to his mail.       *)
(***************************************************************************)
EXTENDS Intake, JobQueueProofs, FiniteSetTheorems

Typed == TypeOK /\ \A m \in Msgs : Phases(m)

\* The initial state is well formed.
LEMMA TypedInit == Init => Typed
  <1> SUFFICES ASSUME Init PROVE Typed
    OBVIOUS
  <1>1. QueueTypeOK
    BY QueueInitOK DEF Init
  <1>2. quarantine \in Seq([msg : Msgs, rcpt : Rcpts])
    BY DEF Init
  <1>3. QED
    BY <1>1, <1>2, IntakeAssumption DEF Init, Typed, TypeOK, Phases, Waiting, Local

-----------------------------------------------------------------------------
(* The types of the variables one by one, and what the steps of a session  *)
(* do to them.                                                             *)

\* Inserting a row for a session keeps the table well formed.
LEMMA EnqueueTyped ==
  ASSUME Typed, NEW kind \in Kinds, NEW m \in Msgs, NEW to \in SUBSET Rcpts,
         Enqueue(kind, m, to)
  PROVE  QueueTypeOK'
  BY EnqueueEffect DEF Typed, TypeOK

\* A fault keeps within its bound.
LEMMA FaultTyped ==
  ASSUME Typed, Fault \/ UNCHANGED faults
  PROVE  /\ faults' \in 0..MaxFaults
         /\ faults' >= faults
         /\ faults' = 0 => ~Fault /\ faults' = faults
  BY IntakeAssumption DEF Typed, TypeOK, Fault

\* Any lookup of a recipient is a fault or leaves the count alone.
LEMMA LookupFaults ==
  ASSUME NEW r, Resolves(r) \/ Unresolved(r)
  PROVE  Fault \/ UNCHANGED faults
  BY DEF Resolves, Unresolved

\* The variables that each session has for itself.
SessionTyped ==
  /\ pc \in [Msgs -> {"idle", "rcpt", "split", "screen", "plan", "store", "relay", "reply"}]
  /\ rcpts \in [Msgs -> SUBSET Rcpts]
  /\ left \in [Msgs -> SUBSET Rcpts]
  /\ remote \in [Msgs -> SUBSET Rcpts]
  /\ plan \in [Msgs -> SUBSET Rcpts]
  /\ verdict \in [Msgs -> {"none", "deliver", "flag", "quarantine",
                           "ok", "refused", "wait"}]
  /\ told \in [Msgs -> [Rcpts -> {"wait", "ok", "refused"}]]

SessionSane(m) ==
  /\ rcpts[m] \cup left[m] \subseteq Waiting(m)
  /\ remote[m] \subseteq rcpts[m]
  /\ plan[m] \subseteq Local(m)
  /\ pc[m] = "idle" => rcpts[m] = {}
  /\ Phases(m)

Sessions == SessionTyped /\ \A m \in Msgs : SessionSane(m)

\* Who can be in a session: recipients of the message.
LEMMA WaitingRcpts == \A m \in Msgs : Waiting(m) \in SUBSET Rcpts
  BY IntakeAssumption DEF Waiting

\* A session of one message does not touch those of the others.
OthersSame(m) ==
  \A n \in Msgs \ {m} :
    /\ pc'[n] = pc[n] /\ rcpts'[n] = rcpts[n] /\ left'[n] = left[n]
    /\ remote'[n] = remote[n] /\ plan'[n] = plan[n]
    /\ verdict'[n] = verdict[n] /\ told'[n] = told[n]

LEMMA OthersSane ==
  ASSUME Sessions, NEW m \in Msgs, OthersSame(m), users' = users, SessionTyped',
         SessionSane(m)'
  PROVE  Sessions'
  <1> SUFFICES ASSUME NEW n \in Msgs \ {m} PROVE SessionSane(n)'
    BY DEF Sessions
  <1>1. SessionSane(n)
    BY DEF Sessions
  <1>2. QED
    BY <1>1 DEF SessionSane, Phases, OthersSame, Waiting, Local

\* What the small operators leave well typed.
LEMMA GotoTyped ==
  ASSUME SessionTyped, NEW m \in Msgs,
         NEW step \in {"idle", "rcpt", "split", "screen", "plan", "store", "relay", "reply"},
         Goto(m, step)
  PROVE  pc' \in [Msgs -> {"idle", "rcpt", "split", "screen", "plan", "store", "relay", "reply"}]
  BY DEF SessionTyped, Goto

LEMMA LoopTyped ==
  ASSUME SessionTyped, NEW m \in Msgs, NEW set \in SUBSET Rcpts, Loop(m, set)
  PROVE  left' \in [Msgs -> SUBSET Rcpts]
  BY DEF SessionTyped, Loop

LEMMA PastTyped ==
  ASSUME SessionTyped, NEW m \in Msgs, NEW r, Past(m, r)
  PROVE  left' \in [Msgs -> SUBSET Rcpts]
  BY DEF SessionTyped, Past, Loop

LEMMA AcceptTyped ==
  ASSUME SessionTyped, NEW m \in Msgs, NEW r \in Rcpts, Accept(m, r)
  PROVE  rcpts' \in [Msgs -> SUBSET Rcpts]
  BY DEF SessionTyped, Accept

LEMMA TellTyped ==
  ASSUME SessionTyped, NEW m \in Msgs, NEW set,
         NEW answer \in {"wait", "ok", "refused"}, Tell(m, set, answer)
  PROVE  told' \in [Msgs -> [Rcpts -> {"wait", "ok", "refused"}]]
  BY DEF SessionTyped, Tell

LEMMA ResetTyped ==
  ASSUME SessionTyped, NEW m \in Msgs, Reset(m)
  PROVE  /\ rcpts' \in [Msgs -> SUBSET Rcpts]
         /\ left' \in [Msgs -> SUBSET Rcpts]
         /\ remote' \in [Msgs -> SUBSET Rcpts]
         /\ plan' \in [Msgs -> SUBSET Rcpts]
         /\ verdict' \in [Msgs -> {"none", "deliver", "flag", "quarantine",
                                  "ok", "refused", "wait"}]
  BY DEF SessionTyped, Reset, Loop

LEMMA ReplyTyped ==
  ASSUME SessionTyped, NEW m \in Msgs, NEW code \in {"ok", "refused", "wait"},
         Reply(m, code)
  PROVE  /\ pc' \in [Msgs -> {"idle", "rcpt", "split", "screen", "plan", "store",
                              "relay", "reply"}]
         /\ left' \in [Msgs -> SUBSET Rcpts]
         /\ verdict' \in [Msgs -> {"none", "deliver", "flag", "quarantine",
                                  "ok", "refused", "wait"}]
  BY DEF SessionTyped, Reply, Goto, Loop

\* Each step of a session keeps the variables well typed.
LEMMA StepTyped == ASSUME Sessions, NEW m \in Msgs, Step(m) PROVE SessionTyped'
  <1>t. SessionTyped /\ SessionSane(m)
    BY DEF Sessions
  <1>w. Waiting(m) \in SUBSET Rcpts /\ Local(m) \in SUBSET Rcpts
        /\ rcpts[m] \in SUBSET Rcpts /\ plan[m] \in SUBSET Rcpts /\ left[m] \in SUBSET Rcpts
    BY <1>t, WaitingRcpts DEF SessionTyped, Local
  <1>1. CASE Mail(m)
    <2>1. CASE Tell(m, Waiting(m), "refused") /\ UNCHANGED <<pc, rcpts, left>>
      BY <1>1, <1>t, <2>1, TellTyped DEF Mail, transaction, SessionTyped
    <2>2. CASE Goto(m, "rcpt") /\ rcpts' = [rcpts EXCEPT ![m] = {}] /\ Loop(m, Waiting(m))
               /\ UNCHANGED told
      BY <1>1, <1>t, <1>w, <2>2, GotoTyped, LoopTyped DEF Mail, transaction, SessionTyped
    <2>3. QED
      BY <1>1, <2>1, <2>2 DEF Mail
  <1>2. CASE Data(m)
    <2>1. CASE Goto(m, "idle") /\ Reset(m)
      BY <1>2, <1>t, <2>1, GotoTyped, ResetTyped DEF Data, SessionTyped
    <2>2. CASE Goto(m, "split") /\ Loop(m, rcpts[m]) /\ UNCHANGED <<rcpts, transaction>>
      BY <1>2, <1>t, <1>w, <2>2, GotoTyped, LoopTyped DEF Data, transaction, SessionTyped
    <2>3. QED
      BY <1>2, <2>1, <2>2 DEF Data
  <1>3. CASE SplitEnds(m)
    BY <1>3, <1>t, GotoTyped DEF SplitEnds, transaction, SessionTyped
  <1>4. CASE Screen(m)
    <2>1. CASE Reply(m, "refused")
      BY <1>4, <1>t, <2>1, ReplyTyped DEF Screen, SessionTyped
    <2>2. CASE /\ \E v \in {"deliver", "flag", "quarantine"} : verdict' = [verdict EXCEPT ![m] = v]
               /\ Goto(m, "plan")
               /\ Loop(m, Local(m))
      BY <1>4, <1>t, <1>w, <2>2, GotoTyped, LoopTyped DEF Screen, SessionTyped
    <2>3. QED
      BY <1>4, <2>1, <2>2 DEF Screen
  <1>5. CASE PlanEnds(m)
    BY <1>5, <1>t, <1>w, GotoTyped, LoopTyped DEF PlanEnds, transaction, SessionTyped
  <1>6. CASE StoreEnds(m)
    BY <1>6, <1>t, GotoTyped DEF StoreEnds, transaction, SessionTyped
  <1>7. CASE Relay(m)
    BY <1>7, <1>t, ReplyTyped DEF Relay, SessionTyped
  <1>8. CASE Answer(m)
    <2>1. verdict[m] \in {"ok", "refused", "wait"}
      BY <1>8, <1>t DEF Answer, SessionSane, Phases
    <2>2. told' \in [Msgs -> [Rcpts -> {"wait", "ok", "refused"}]]
      BY <1>8, <1>t, <2>1, TellTyped DEF Answer, SessionTyped
    <2>3. QED
      BY <1>8, <1>t, <2>2, GotoTyped, ResetTyped DEF Answer, SessionTyped
  <1>9. ASSUME NEW r \in left[m], Rcpt(m, r) PROVE SessionTyped'
    <2>1. left' \in [Msgs -> SUBSET Rcpts] /\ r \in Rcpts
      BY <1>9, <1>t, <1>w, PastTyped DEF Rcpt
    <2>2. rcpts' \in [Msgs -> SUBSET Rcpts]
      BY <1>9, <1>t, <2>1, AcceptTyped DEF Rcpt, SessionTyped
    <2>3. told' \in [Msgs -> [Rcpts -> {"wait", "ok", "refused"}]]
      BY <1>9, <1>t, TellTyped DEF Rcpt, SessionTyped
    <2>4. QED
      BY <1>9, <1>t, <2>1, <2>2, <2>3 DEF Rcpt, transaction, SessionTyped
  <1>10. ASSUME NEW r \in left[m], Split(m, r) PROVE SessionTyped'
    <2>1. CASE Past(m, r) /\ UNCHANGED <<pc, remote, verdict>>
      BY <1>10, <1>t, <2>1, PastTyped DEF Split, SessionTyped
    <2>2. CASE remote' = [remote EXCEPT ![m] = @ \cup {r}] /\ Past(m, r) /\ UNCHANGED <<pc, verdict>>
      BY <1>10, <1>t, <1>w, <2>2, PastTyped DEF Split, SessionTyped
    <2>3. CASE Reply(m, "refused") /\ UNCHANGED remote
      BY <1>10, <1>t, <2>3, ReplyTyped DEF Split, SessionTyped
    <2>4. QED
      BY <1>10, <2>1, <2>2, <2>3 DEF Split
  <1>11. ASSUME NEW r \in left[m], Plan(m, r) PROVE SessionTyped'
    <2>1. CASE Past(m, r) /\ UNCHANGED <<pc, verdict, plan>>
      BY <1>11, <1>t, <2>1, PastTyped DEF Plan, SessionTyped
    <2>2. CASE plan' = [plan EXCEPT ![m] = @ \cup {r}] /\ Past(m, r) /\ UNCHANGED <<pc, verdict>>
      BY <1>11, <1>t, <1>w, <2>2, PastTyped DEF Plan, SessionTyped
    <2>3. CASE Reply(m, "refused") /\ UNCHANGED plan
      BY <1>11, <1>t, <2>3, ReplyTyped DEF Plan, SessionTyped
    <2>4. QED
      BY <1>11, <2>1, <2>2, <2>3 DEF Plan
  <1>12. ASSUME NEW r \in left[m], Store(m, r) PROVE SessionTyped'
    <2>1. left' \in [Msgs -> SUBSET Rcpts]
      BY <1>12, <1>t, PastTyped, LoopTyped DEF Store
    <2>2. QED
      BY <1>12, <1>t, <2>1 DEF Store, transaction, SessionTyped
  <1>13. QED
    BY <1>1, <1>2, <1>3, <1>4, <1>5, <1>6, <1>7, <1>8, <1>9, <1>10, <1>11, <1>12 DEF Step

\* Each step of a session leaves the others alone.
LEMMA StepOthers == ASSUME Sessions, NEW m \in Msgs, Step(m) PROVE OthersSame(m)
  <1>t. SessionTyped
    BY DEF Sessions
  <1> USE DEF Goto, Loop, Past, Tell, Reset, Reply, transaction, Accept
  <1>1. CASE Mail(m)
    BY <1>1, <1>t DEF SessionTyped, Mail, OthersSame
  <1>2. CASE Data(m)
    BY <1>2, <1>t DEF SessionTyped, Data, OthersSame
  <1>3. CASE SplitEnds(m)
    BY <1>3, <1>t DEF SessionTyped, SplitEnds, OthersSame
  <1>4. CASE Screen(m)
    BY <1>4, <1>t DEF SessionTyped, Screen, OthersSame
  <1>5. CASE PlanEnds(m)
    BY <1>5, <1>t DEF SessionTyped, PlanEnds, OthersSame
  <1>6. CASE StoreEnds(m)
    BY <1>6, <1>t DEF SessionTyped, StoreEnds, OthersSame
  <1>7. CASE Relay(m)
    BY <1>7, <1>t DEF SessionTyped, Relay, OthersSame
  <1>8. CASE Answer(m)
    BY <1>8, <1>t DEF SessionTyped, Answer, OthersSame
  <1>9. CASE \E r \in left[m] : Rcpt(m, r)
    BY <1>9, <1>t DEF SessionTyped, Rcpt, OthersSame
  <1>10. CASE \E r \in left[m] : Split(m, r)
    BY <1>10, <1>t DEF SessionTyped, Split, OthersSame
  <1>11. CASE \E r \in left[m] : Plan(m, r)
    BY <1>11, <1>t DEF SessionTyped, Plan, OthersSame
  <1>12. CASE \E r \in left[m] : Store(m, r)
    BY <1>12, <1>t DEF SessionTyped, Store, OthersSame
  <1>13. QED
    BY <1>1, <1>2, <1>3, <1>4, <1>5, <1>6, <1>7, <1>8, <1>9, <1>10, <1>11, <1>12 DEF Step

\* Only Answer tells the sender that his mail is accepted.
LEMMA StepTells ==
  ASSUME Sessions, NEW m \in Msgs, Step(m), NEW n \in Msgs, NEW r \in Rcpts,
         told[n][r] # "ok", told'[n][r] = "ok"
  PROVE  n = m /\ Answer(m) /\ verdict[m] = "ok" /\ r \in rcpts[m]
  <1>t. SessionTyped
    BY DEF Sessions
  <1>1. CASE Mail(m) \/ \E q \in left[m] : Rcpt(m, q)
    BY <1>1, <1>t DEF SessionTyped, Mail, Rcpt, Tell
  <1>2. CASE Answer(m)
    BY <1>2, <1>t DEF SessionTyped, Answer, Tell
  <1>3. QED
    BY <1>1, <1>2 DEF Step, Data, SplitEnds, Screen, PlanEnds, StoreEnds, Relay, Split, Plan, Store

\* Each step of a session keeps all sessions sane.
LEMMA SessionStep == ASSUME Sessions, NEW m \in Msgs, Step(m) PROVE Sessions'
  <1>t. SessionTyped /\ SessionSane(m) /\ SessionTyped'
    BY StepTyped DEF Sessions
  <1>u. users' = users
    BY DEF Step, Mail, Data, SplitEnds, Screen, PlanEnds, StoreEnds, Relay, Answer, Rcpt,
           Split, Plan, Store, world, senders
  <1>s. SessionSane(m)' => Sessions'
    BY <1>t, <1>u, StepOthers, OthersSane
  <1> USE DEF Goto, Loop, Past, Tell, Reset, Reply, transaction, Accept
  <1>1. CASE Mail(m)
    <2>1. SessionSane(m)'
      BY <1>1, <1>t, <1>u DEF SessionTyped, Mail, SessionSane, Phases, Waiting, Local
    <2>2. QED
      BY <1>s, <2>1
  <1>2. CASE Data(m)
    <2>1. SessionSane(m)'
      BY <1>2, <1>t, <1>u DEF SessionTyped, Data, SessionSane, Phases, Waiting, Local
    <2>2. QED
      BY <1>s, <2>1
  <1>3. CASE SplitEnds(m)
    <2>1. SessionSane(m)'
      BY <1>3, <1>t, <1>u DEF SessionTyped, SplitEnds, SessionSane, Phases, Waiting, Local
    <2>2. QED
      BY <1>s, <2>1
  <1>4. CASE Screen(m)
    <2>1. SessionSane(m)'
      BY <1>4, <1>t, <1>u DEF SessionTyped, Screen, SessionSane, Phases, Waiting, Local
    <2>2. QED
      BY <1>s, <2>1
  <1>5. CASE PlanEnds(m)
    <2>1. SessionSane(m)'
      BY <1>5, <1>t, <1>u DEF SessionTyped, PlanEnds, SessionSane, Phases, Waiting, Local
    <2>2. QED
      BY <1>s, <2>1
  <1>6. CASE StoreEnds(m)
    <2>1. SessionSane(m)'
      BY <1>6, <1>t, <1>u DEF SessionTyped, StoreEnds, SessionSane, Phases, Waiting, Local
    <2>2. QED
      BY <1>s, <2>1
  <1>7. CASE Relay(m)
    <2>1. SessionSane(m)'
      BY <1>7, <1>t, <1>u DEF SessionTyped, Relay, SessionSane, Phases, Waiting, Local
    <2>2. QED
      BY <1>s, <2>1
  <1>8. CASE Answer(m)
    <2>1. SessionSane(m)'
      BY <1>8, <1>t, <1>u DEF SessionTyped, Answer, SessionSane, Phases, Waiting, Local
    <2>2. QED
      BY <1>s, <2>1
  <1>9. ASSUME NEW r \in left[m], Rcpt(m, r) PROVE Sessions'
    <2>1. SessionSane(m)'
      BY <1>9, <1>t, <1>u DEF SessionTyped, Rcpt, SessionSane, Phases, Waiting, Local
    <2>2. QED
      BY <1>s, <2>1
  <1>10. ASSUME NEW r \in left[m], Split(m, r) PROVE Sessions'
    <2>1. SessionSane(m)'
      BY <1>10, <1>t, <1>u DEF SessionTyped, Split, SessionSane, Phases, Waiting, Local
    <2>2. QED
      BY <1>s, <2>1
  <1>11. ASSUME NEW r \in left[m], Plan(m, r) PROVE Sessions'
    <2>1. SessionSane(m)'
      BY <1>11, <1>t, <1>u DEF SessionTyped, Plan, SessionSane, Phases, Waiting, Local
    <2>2. QED
      BY <1>s, <2>1
  <1>12. ASSUME NEW r \in left[m], Store(m, r) PROVE Sessions'
    <2>1. SessionSane(m)'
      BY <1>12, <1>t, <1>u DEF SessionTyped, Store, SessionSane, Phases, Waiting, Local
    <2>2. QED
      BY <1>s, <2>1
  <1>13. QED
    BY <1>1, <1>2, <1>3, <1>4, <1>5, <1>6, <1>7, <1>8, <1>9, <1>10, <1>11, <1>12 DEF Step

\* The rows a step of a session can insert, and the faults it can meet.
LEMMA StepTables ==
  ASSUME Typed, NEW m \in Msgs, Step(m)
  PROVE  /\ \/ UNCHANGED queueVars
            \/ \E r \in left[m] : Store(m, r) /\ Enqueue("inbound", m, {r})
            \/ Relay(m) /\ remote[m] # {} /\ Enqueue("outbound", m, remote[m])
         /\ \/ UNCHANGED quarantine
            \/ \E r \in left[m] : /\ Store(m, r)
                                  /\ quarantine' = Append(quarantine, [msg |-> m, rcpt |-> r])
         /\ Fault \/ UNCHANGED faults
         /\ UNCHANGED <<users, submission, known, changed>>
         /\ seen' \in [Msgs -> [Rcpts -> {"unseen", "young", "ripe"}]]
  <1> USE DEF queueVars, tables, world, senders
  <1>1. CASE Mail(m) \/ Data(m) \/ SplitEnds(m) \/ Screen(m) \/ PlanEnds(m) \/ StoreEnds(m)
             \/ Answer(m)
    BY <1>1 DEF Mail, Data, SplitEnds, Screen, PlanEnds, StoreEnds, Answer, Typed, TypeOK
  <1>2. CASE Relay(m)
    BY <1>2 DEF Relay, Typed, TypeOK
  <1>3. CASE \E r \in left[m] : Rcpt(m, r)
    <2>1. PICK r \in left[m] : Rcpt(m, r)
      BY <1>3
    <2>2. seen' = seen \/ seen' = [seen EXCEPT ![m][r] = "young"]
      BY <2>1 DEF Rcpt
    <2>3. seen' \in [Msgs -> [Rcpts -> {"unseen", "young", "ripe"}]]
      <3>1. seen \in [Msgs -> [Rcpts -> {"unseen", "young", "ripe"}]]
        BY DEF Typed, TypeOK
      <3>2. [seen[m] EXCEPT ![r] = "young"] \in [Rcpts -> {"unseen", "young", "ripe"}]
        BY <3>1
      <3>3. QED
        BY <2>2, <3>1, <3>2
    <2>4. QED
      BY <2>1, <2>3, LookupFaults DEF Rcpt
  <1>4. CASE \E r \in left[m] : Split(m, r) \/ Plan(m, r)
    BY <1>4, LookupFaults DEF Split, Plan, Typed, TypeOK
  <1>5. CASE \E r \in left[m] : Store(m, r)
    BY <1>5 DEF Store, Typed, TypeOK
  <1>6. QED
    BY <1>1, <1>2, <1>3, <1>4, <1>5 DEF Step

\* Every step keeps the state well formed.
LEMMA TypedNext == Typed /\ [Next]_vars => Typed'
  <1> SUFFICES ASSUME Typed, [Next]_vars PROVE Typed'
    OBVIOUS
  <1>s. Sessions
    BY DEF Typed, TypeOK, Sessions, SessionTyped, SessionSane
  <1>1. ASSUME NEW m \in Msgs, Step(m) PROVE Typed'
    <2>1. QueueTypeOK'
      <3>1. CASE UNCHANGED queueVars
        BY <3>1 DEF Typed, TypeOK, QueueTypeOK, queueVars
      <3>2. ASSUME NEW r \in left[m], Enqueue("inbound", m, {r}) PROVE QueueTypeOK'
        BY <3>2, <1>s, EnqueueTyped DEF Sessions, SessionTyped, Kinds
      <3>3. CASE Enqueue("outbound", m, remote[m])
        BY <3>3, <1>s, EnqueueTyped DEF Sessions, SessionTyped, Kinds
      <3>4. QED
        BY <1>1, <3>1, <3>2, <3>3, StepTables
    <2>2. quarantine' \in Seq([msg : Msgs, rcpt : Rcpts])
      <3>1. CASE UNCHANGED quarantine
        BY <3>1 DEF Typed, TypeOK
      <3>2. ASSUME NEW r \in left[m],
                   quarantine' = Append(quarantine, [msg |-> m, rcpt |-> r])
            PROVE  quarantine' \in Seq([msg : Msgs, rcpt : Rcpts])
        <4>1. [msg |-> m, rcpt |-> r] \in [msg : Msgs, rcpt : Rcpts]
          BY <1>s DEF Sessions, SessionTyped
        <4>2. QED
          BY <3>2, <4>1 DEF Typed, TypeOK
      <3>3. QED
        BY <1>1, <3>1, <3>2, StepTables
    <2>3. faults' \in 0..MaxFaults
      BY <1>1, StepTables, FaultTyped
    <2>4. Sessions'
      BY <1>1, <1>s, SessionStep
    <2>5. QED
      BY <1>1, <2>1, <2>2, <2>3, <2>4, StepTables
      DEF Typed, TypeOK, Sessions, SessionTyped, SessionSane
  <1>2. CASE Crash
    <2>1. faults' \in 0..MaxFaults
      BY <1>2, FaultTyped DEF Crash
    <2>2. QueueTypeOK' /\ quarantine' \in Seq([msg : Msgs, rcpt : Rcpts])
      BY <1>2 DEF Crash, tables, Typed, TypeOK, QueueTypeOK
    <2>3. Sessions'
      BY <1>2, <1>s DEF Crash, Sessions, SessionTyped, SessionSane, Phases, Waiting, Local
    <2>4. QED
      BY <1>2, <2>1, <2>2, <2>3
      DEF Crash, world, senders, Typed, TypeOK, Sessions, SessionTyped, SessionSane
  <1>3. ASSUME NEW r \in Rcpts, ChangeDirectory(r) PROVE Typed'
    BY <1>3 DEF ChangeDirectory, tables, senders, transaction, Typed, TypeOK, QueueTypeOK,
                Phases, Waiting, Local
  <1>4. ASSUME NEW m \in Msgs, NEW r \in Rcpts, Ripen(m, r) PROVE Typed'
    BY <1>4 DEF Ripen, tables, world, senders, transaction, Typed, TypeOK, QueueTypeOK,
                Phases, Waiting, Local
  <1>5. CASE UNCHANGED vars
    BY <1>5 DEF vars, Typed, TypeOK, QueueTypeOK, Phases, Waiting, Local
  <1>6. QED
    BY <1>1, <1>2, <1>3, <1>4, <1>5 DEF Next

\* Type correctness, for every value of the constants.
THEOREM IntakeTyped == Spec => []TypeOK
  <1>1. Typed => TypeOK
    BY DEF Typed
  <1>2. QED
    BY TypedInit, TypedNext, <1>1, PTL DEF Spec

-----------------------------------------------------------------------------
\* An outbound job is inserted for a user's message only.
LEMMA NoRelayNext == Typed /\ NoRelay /\ [Next]_vars => NoRelay'
  <1> SUFFICES ASSUME Typed, NoRelay, [Next]_vars PROVE NoRelay'
    OBVIOUS
  <1>1. ASSUME NEW m \in Msgs, Step(m) PROVE NoRelay'
    <2>1. users' = users
      BY <1>1, StepTables
    <2>2. CASE UNCHANGED queueVars
      BY <2>1, <2>2 DEF NoRelay, queueVars
    <2>3. ASSUME NEW r \in left[m], Enqueue("inbound", m, {r}) PROVE NoRelay'
      <3>1. {r} \in SUBSET Rcpts /\ "inbound" \in Kinds /\ QueueTypeOK
        BY DEF Typed, TypeOK, Kinds
      <3>2. /\ DOMAIN jobs' = DOMAIN jobs \cup {nextId}
            /\ \A i \in DOMAIN jobs : jobs'[i] = jobs[i]
            /\ jobs'[nextId] = NewJob("inbound", m, {r})
        BY <2>3, <3>1, EnqueueEffect
      <3>3. QED
        BY <2>1, <3>2 DEF NoRelay, NewJob
    <2>4. CASE remote[m] # {} /\ Enqueue("outbound", m, remote[m])
      <3>1. remote[m] \in SUBSET Rcpts /\ "outbound" \in Kinds /\ QueueTypeOK /\ m \in users
        BY <2>4 DEF Typed, TypeOK, Kinds, Phases
      <3>2. /\ DOMAIN jobs' = DOMAIN jobs \cup {nextId}
            /\ \A i \in DOMAIN jobs : jobs'[i] = jobs[i]
            /\ jobs'[nextId] = NewJob("outbound", m, remote[m])
        BY <2>4, <3>1, EnqueueEffect
      <3>3. QED
        BY <2>1, <3>1, <3>2 DEF NoRelay, NewJob
    <2>5. QED
      BY <1>1, <2>2, <2>3, <2>4, StepTables
  <1>2. CASE Crash
    BY <1>2 DEF Crash, tables, world, senders, NoRelay
  <1>3. ASSUME NEW r \in Rcpts, ChangeDirectory(r) PROVE NoRelay'
    BY <1>3 DEF ChangeDirectory, tables, senders, NoRelay
  <1>4. ASSUME NEW m \in Msgs, NEW r \in Rcpts, Ripen(m, r) PROVE NoRelay'
    BY <1>4 DEF Ripen, tables, world, senders, NoRelay
  <1>5. CASE UNCHANGED vars
    BY <1>5 DEF vars, NoRelay
  <1>6. QED
    BY <1>1, <1>2, <1>3, <1>4, <1>5 DEF Next

\* Strangers' mail is never relayed, whatever happens to the directory between
\* RCPT and DATA and however many faults and crashes there are.
THEOREM StrangersNotRelayed == Spec => []NoRelay
  <1>1. Init => NoRelay
    BY DEF Init, QueueInit, NoRelay
  <1>2. QED
    BY TypedInit, TypedNext, <1>1, NoRelayNext, PTL DEF Spec

-----------------------------------------------------------------------------
(* What becomes of a recipient.                                            *)

\* A new row keeps the message for those it names.
LEMMA KeptByRow ==
  ASSUME Typed, NEW kind \in Kinds, NEW m \in Msgs, NEW to \in SUBSET Rcpts,
         Enqueue(kind, m, to), UNCHANGED quarantine
  PROVE  \A n \in Msgs, r \in Rcpts : Kept(n, r)' <=> Kept(n, r) \/ (n = m /\ r \in to)
  <1>1. /\ DOMAIN jobs' = DOMAIN jobs \cup {nextId}
        /\ nextId \notin DOMAIN jobs
        /\ \A i \in DOMAIN jobs : jobs'[i] = jobs[i]
        /\ jobs'[nextId] = NewJob(kind, m, to)
    BY EnqueueEffect DEF Typed, TypeOK
  <1>2. jobs'[nextId].msg = m /\ jobs'[nextId].to = to
    BY <1>1 DEF NewJob
  <1>3. QED
    BY <1>1, <1>2 DEF Kept

\* So does an entry in quarantine.
LEMMA KeptByQuarantine ==
  ASSUME Typed, NEW m \in Msgs, NEW q \in Rcpts,
         quarantine' = Append(quarantine, [msg |-> m, rcpt |-> q]), UNCHANGED jobs
  PROVE  \A n \in Msgs, r \in Rcpts : Kept(n, r)' <=> Kept(n, r) \/ (n = m /\ r = q)
  <1> DEFINE entry == [msg |-> m, rcpt |-> q]
  <1>1. quarantine \in Seq([msg : Msgs, rcpt : Rcpts]) /\ entry \in [msg : Msgs, rcpt : Rcpts]
    BY DEF Typed, TypeOK
  <1>2. /\ DOMAIN quarantine = 1..Len(quarantine)
        /\ DOMAIN quarantine' = 1..(Len(quarantine) + 1)
        /\ \A i \in DOMAIN quarantine : quarantine'[i] = quarantine[i]
        /\ quarantine'[Len(quarantine) + 1] = entry
        /\ Len(quarantine) \in Nat
    BY <1>1
  <1>3. DOMAIN quarantine' = DOMAIN quarantine \cup {Len(quarantine) + 1}
    BY <1>2
  <1>4. \A n, r : entry = [msg |-> n, rcpt |-> r] <=> n = m /\ r = q
    <2>1. ASSUME NEW n, NEW r, entry = [msg |-> n, rcpt |-> r] PROVE n = m /\ r = q
      BY <2>1, entry.msg = m, entry.rcpt = q
    <2>2. QED
      BY <2>1
  <1> HIDE DEF entry
  <1>5. QED
    BY <1>2, <1>3, <1>4 DEF Kept

\* Nothing else keeps or loses mail.
LEMMA KeptSame ==
  ASSUME UNCHANGED <<jobs, quarantine>>
  PROVE  \A n \in Msgs, r \in Rcpts : Kept(n, r)' <=> Kept(n, r)
  BY DEF Kept

\* A step of one session keeps no mail of another.
LEMMA StepKept ==
  ASSUME Typed, NEW m \in Msgs, Step(m)
  PROVE  \A n \in Msgs, r \in Rcpts :
           /\ Kept(n, r) => Kept(n, r)'
           /\ n # m => (Kept(n, r)' <=> Kept(n, r))
  <1>r. remote[m] \in SUBSET Rcpts /\ left[m] \in SUBSET Rcpts
    BY DEF Typed, TypeOK
  <1>1. CASE UNCHANGED <<jobs, quarantine>>
    BY <1>1, KeptSame
  <1>2. ASSUME NEW r \in left[m], Store(m, r)
        PROVE  \/ UNCHANGED <<jobs, quarantine>>
               \/ Enqueue("inbound", m, {r}) /\ UNCHANGED quarantine
               \/ /\ quarantine' = Append(quarantine, [msg |-> m, rcpt |-> r])
                  /\ UNCHANGED jobs
    BY <1>2 DEF Store, tables
  <1>3. CASE \E r \in left[m] : Enqueue("inbound", m, {r}) /\ UNCHANGED quarantine
    BY <1>3, <1>r, KeptByRow DEF Kinds
  <1>4. CASE \E r \in left[m] : /\ quarantine' = Append(quarantine, [msg |-> m, rcpt |-> r])
                                /\ UNCHANGED jobs
    BY <1>4, <1>r, KeptByQuarantine
  <1>5. CASE Enqueue("outbound", m, remote[m]) /\ UNCHANGED quarantine
    BY <1>5, <1>r, KeptByRow DEF Kinds
  <1>6. CASE Relay(m)
    BY <1>1, <1>5, <1>6 DEF Relay, tables
  <1>7. CASE \E r \in left[m] : Store(m, r)
    BY <1>1, <1>2, <1>3, <1>4, <1>7
  <1>8. CASE ~Relay(m) /\ ~\E r \in left[m] : Store(m, r)
    BY <1>1, <1>8 DEF Step, Mail, Data, SplitEnds, Screen, PlanEnds, StoreEnds, Answer,
                      Rcpt, Split, Plan, tables
  <1>9. QED
    BY <1>6, <1>7, <1>8

\* Storing for a recipient keeps the message for him alone, or a fault occurs.
LEMMA StoreKeeps ==
  ASSUME Typed, NEW m \in Msgs, NEW q \in left[m], Store(m, q), ~Fault
  PROVE  /\ \A r \in Rcpts : Kept(m, r)' <=> Kept(m, r) \/ r = q
         /\ left' = [left EXCEPT ![m] = left[m] \ {q}]
  <1>r. q \in Rcpts
    BY DEF Typed, TypeOK
  <1>1. CASE Enqueue("inbound", m, {q}) /\ UNCHANGED quarantine
    BY <1>1, <1>r, KeptByRow DEF Kinds, Store, Past, Loop
  <1>2. CASE quarantine' = Append(quarantine, [msg |-> m, rcpt |-> q]) /\ UNCHANGED jobs
    BY <1>2, <1>r, KeptByQuarantine DEF Store, Past, Loop
  <1>3. QED
    BY <1>1, <1>2 DEF Store

\* Relaying keeps the message for the remote recipients, or a fault occurs.
LEMMA RelayKeeps ==
  ASSUME Typed, NEW m \in Msgs, Relay(m), ~Fault
  PROVE  \A r \in Rcpts : Kept(m, r)' <=> Kept(m, r) \/ r \in remote[m]
  <1>r. remote[m] \in SUBSET Rcpts
    BY DEF Typed, TypeOK
  <1>1. CASE Enqueue("outbound", m, remote[m]) /\ UNCHANGED quarantine
    BY <1>1, <1>r, KeptByRow DEF Kinds
  <1>2. CASE remote[m] = {} /\ UNCHANGED <<jobs, quarantine>>
    BY <1>2, KeptSame
  <1>3. QED
    BY <1>1, <1>2 DEF Relay, tables

Fate(m, r) == OnItsWay(m, r) /\ ReplyTrue(m, r) /\ KeptForGood(m, r)

\* What a step of m's session means for one of its recipients.
LEMMA FateStep ==
  ASSUME Typed, Typed', NEW m \in Msgs, NEW r \in Rcpts, Fate(m, r), Step(m),
         faults = 0, ~Fault, UNCHANGED <<faults, known, changed>>
  PROVE  Fate(m, r)'
  <1>t. Sessions
    BY DEF Typed, TypeOK, Sessions, SessionTyped, SessionSane
  <1>s. SessionTyped /\ SessionSane(m)
    BY <1>t DEF Sessions
  <1>k. Kept(m, r) => Kept(m, r)'
    BY StepKept
  <1>w. \A q \in rcpts[m] \cup left[m] : told[m][q] = "wait"
    BY <1>s DEF SessionSane, Waiting
  <1> USE DEF Goto, Loop, Past, Tell, Reset, Reply, transaction, Accept, tables, Fate
  <1>1. CASE Mail(m)
    <2>1. Kept(m, r)' <=> Kept(m, r)
      BY <1>1, KeptSame DEF Mail
    <2>2. pc[m] = "idle" /\ rcpts[m] = {} /\ rcpts'[m] = {} /\ pc'[m] \in {"idle", "rcpt"}
      BY <1>1, <1>s DEF Mail, SessionTyped, SessionSane
    <2>3. told[m][r] = "ok" => told'[m][r] = "ok"
      BY <1>1, <1>s DEF Mail, SessionTyped, Waiting
    <2>4. QED
      BY <2>1, <2>2, <2>3 DEF OnItsWay, ReplyTrue, KeptForGood
  <1>2. CASE Data(m)
    <2>1. Kept(m, r)' <=> Kept(m, r)
      BY <1>2, KeptSame DEF Data
    <2>2. QED
      BY <1>2, <2>1, <1>s, <1>w
      DEF Data, SessionTyped, SessionSane, Phases, Local, OnItsWay, ReplyTrue,
          KeptForGood
  <1>3. CASE SplitEnds(m)
    <2>1. Kept(m, r)' <=> Kept(m, r)
      BY <1>3, KeptSame DEF SplitEnds
    <2>2. QED
      BY <1>3, <2>1, <1>s, <1>w
      DEF SplitEnds, SessionTyped, SessionSane, Phases, Local, OnItsWay, ReplyTrue,
          KeptForGood
  <1>4. CASE Screen(m)
    <2>1. Kept(m, r)' <=> Kept(m, r)
      BY <1>4, KeptSame DEF Screen
    <2>2. QED
      BY <1>4, <2>1, <1>s, <1>w
      DEF Screen, SessionTyped, SessionSane, Phases, Local, OnItsWay, ReplyTrue,
          KeptForGood
  <1>5. CASE PlanEnds(m)
    <2>1. Kept(m, r)' <=> Kept(m, r)
      BY <1>5, KeptSame DEF PlanEnds
    <2>2. QED
      BY <1>5, <2>1, <1>s, <1>w
      DEF PlanEnds, SessionTyped, SessionSane, Phases, Local, OnItsWay, ReplyTrue,
          KeptForGood
  <1>6. CASE StoreEnds(m)
    <2>1. Kept(m, r)' <=> Kept(m, r)
      BY <1>6, KeptSame DEF StoreEnds
    <2>2. QED
      BY <1>6, <2>1, <1>s, <1>w
      DEF StoreEnds, SessionTyped, SessionSane, Phases, Local, OnItsWay, ReplyTrue,
          KeptForGood
  <1>7. CASE Relay(m)
    <2>1. Kept(m, r)' <=> Kept(m, r) \/ r \in remote[m]
      BY <1>7, RelayKeeps
    <2>2. QED
      BY <1>7, <2>1, <1>s, <1>w
      DEF Relay, SessionTyped, SessionSane, Phases, Local, OnItsWay, ReplyTrue,
          KeptForGood
  <1>8. CASE Answer(m)
    <2>1. Kept(m, r)' <=> Kept(m, r)
      BY <1>8, KeptSame DEF Answer
    <2>2. QED
      BY <1>8, <2>1, <1>s, <1>w
      DEF Answer, SessionTyped, SessionSane, Phases, Local, OnItsWay, ReplyTrue,
          KeptForGood
  <1>9. CASE \E q \in left[m] : Rcpt(m, q)
    <2>1. PICK q \in left[m] : Rcpt(m, q)
      BY <1>9
    <2>2. Kept(m, r)' <=> Kept(m, r)
      BY <2>1, KeptSame DEF Rcpt
    <2>3. QED
      BY <2>1, <2>2, <1>s, <1>w
      DEF Rcpt, Resolves, Unresolved, SessionTyped, SessionSane, Phases, Local, OnItsWay, ReplyTrue,
          KeptForGood
  <1>10. CASE \E q \in left[m] : Split(m, q)
    <2>1. PICK q \in left[m] : Split(m, q)
      BY <1>10
    <2>2. Kept(m, r)' <=> Kept(m, r)
      BY <2>1, KeptSame DEF Split
    <2>3. QED
      BY <2>1, <2>2, <1>s, <1>w
      DEF Split, Resolves, Unresolved, SessionTyped, SessionSane, Phases, Local, OnItsWay, ReplyTrue,
          KeptForGood
  <1>11. CASE \E q \in left[m] : Plan(m, q)
    <2>1. PICK q \in left[m] : Plan(m, q)
      BY <1>11
    <2>2. Kept(m, r)' <=> Kept(m, r)
      BY <2>1, KeptSame DEF Plan
    <2>3. QED
      BY <2>1, <2>2, <1>s, <1>w
      DEF Plan, Resolves, Unresolved, SessionTyped, SessionSane, Phases, Local, OnItsWay, ReplyTrue,
          KeptForGood
  <1>12. CASE \E q \in left[m] : Store(m, q)
    <2>1. PICK q \in left[m] : Store(m, q)
      BY <1>12
    <2>2. /\ Kept(m, r)' <=> Kept(m, r) \/ r = q
          /\ left' = [left EXCEPT ![m] = left[m] \ {q}]
      BY <2>1, StoreKeeps
    <2>3. QED
      BY <2>1, <2>2, <1>s, <1>w
      DEF Store, SessionTyped, SessionSane, Phases, Local, OnItsWay, ReplyTrue,
          KeptForGood
  <1>13. QED
    BY <1>1, <1>2, <1>3, <1>4, <1>5, <1>6, <1>7, <1>8, <1>9, <1>10, <1>11, <1>12 DEF Step

Fates == \A m \in Msgs, r \in Rcpts : Fate(m, r)

LEMMA FatesNext == Typed /\ Typed' /\ Fates /\ [Next]_vars => Fates'
  <1> SUFFICES ASSUME Typed, Typed', Fates, [Next]_vars,
                      NEW n \in Msgs, NEW r \in Rcpts
               PROVE  Fate(n, r)'
    BY DEF Fates
  <1>f. Fate(n, r)
    BY DEF Fates
  <1>z. faults' # 0 => Fate(n, r)'
    BY DEF Fate, OnItsWay, ReplyTrue,
          KeptForGood
  <1>1. ASSUME NEW m \in Msgs, Step(m) PROVE Fate(n, r)'
    <2>1. Fault \/ UNCHANGED faults
      BY <1>1, StepTables
    <2>2. CASE faults' = 0 /\ n = m
      <3>1. faults = 0 /\ ~Fault /\ UNCHANGED <<faults, known, changed>>
        BY <1>1, <2>1, <2>2, StepTables, FaultTyped DEF Typed, TypeOK
      <3>2. QED
        BY <1>1, <1>f, <2>2, <3>1, FateStep
    <2>3. CASE faults' = 0 /\ n # m
      <3>1. faults = 0 /\ UNCHANGED <<known, changed>>
        BY <1>1, <2>1, <2>3, StepTables, FaultTyped DEF Typed, TypeOK
      <3>2. Kept(n, r)' <=> Kept(n, r)
        BY <1>1, <2>3, StepKept
      <3>3. OthersSame(m)
        BY <1>1, StepOthers DEF Typed, TypeOK, Sessions, SessionTyped, SessionSane
      <3>4. QED
        BY <1>f, <2>3, <3>1, <3>2, <3>3 DEF Fate, OnItsWay, ReplyTrue, KeptForGood, OthersSame
    <2>4. QED
      BY <1>z, <2>2, <2>3
  <1>2. CASE Crash
    <2>1. faults' # 0
      BY <1>2, FaultTyped DEF Crash
    <2>2. QED
      BY <1>z, <2>1
  <1>3. ASSUME NEW q \in Rcpts, ChangeDirectory(q) PROVE Fate(n, r)'
    <2>1. Kept(n, r)' <=> Kept(n, r)
      BY <1>3, KeptSame DEF ChangeDirectory, tables
    <2>2. /\ UNCHANGED <<pc, rcpts, left, remote, verdict, plan, told, faults>>
          /\ changed' = changed \cup {q}
          /\ r # q => (r \in known' <=> r \in known)
      BY <1>3 DEF ChangeDirectory, transaction
    <2>3. QED
      BY <1>f, <2>1, <2>2 DEF Fate, OnItsWay, ReplyTrue,
          KeptForGood
  <1>4. ASSUME NEW m \in Msgs, NEW q \in Rcpts, Ripen(m, q) PROVE Fate(n, r)'
    <2>1. Kept(n, r)' <=> Kept(n, r)
      BY <1>4, KeptSame DEF Ripen, tables
    <2>2. UNCHANGED <<pc, rcpts, left, remote, verdict, plan, told, faults, changed, known>>
      BY <1>4 DEF Ripen, transaction, world
    <2>3. QED
      BY <1>f, <2>1, <2>2 DEF Fate, OnItsWay, ReplyTrue,
          KeptForGood
  <1>5. CASE UNCHANGED vars
    <2>1. Kept(n, r)' <=> Kept(n, r)
      BY <1>5, KeptSame DEF vars
    <2>2. UNCHANGED <<pc, rcpts, left, remote, verdict, plan, told, faults, changed, known>>
      BY <1>5 DEF vars
    <2>3. QED
      BY <1>f, <2>1, <2>2 DEF Fate, OnItsWay, ReplyTrue,
          KeptForGood
  <1>6. QED
    BY <1>1, <1>2, <1>3, <1>4, <1>5 DEF Next

\* Who has been told that his mail is refused has not kept it.
LEMMA FatesRefused == Typed /\ Fates => RefusedIsNotKept
  <1> SUFFICES ASSUME Typed, Fates, NEW m \in Msgs, NEW r \in Addressed[m],
                      told[m][r] = "refused", faults = 0
               PROVE  ~Kept(m, r)
    BY IntakeAssumption DEF RefusedIsNotKept, Typed, TypeOK
  <1>1. r \in Rcpts /\ Fate(m, r)
    BY IntakeAssumption DEF Fates
  <1>2. r \notin rcpts[m]
    BY DEF Typed, TypeOK, Waiting
  <1>3. QED
    BY <1>1, <1>2 DEF Fate, KeptForGood

\* An acceptance is only told when the mail is kept, and it stays so.
LEMMA AcceptedNext ==
  Typed /\ Typed' /\ Fates /\ AcceptedIsKept /\ [Next]_vars => AcceptedIsKept'
  <1> SUFFICES ASSUME Typed, Typed', Fates, AcceptedIsKept, [Next]_vars,
                      NEW n \in Msgs, NEW r \in Addressed[n],
                      told'[n][r] = "ok", faults' = 0, r \notin changed'
               PROVE  Kept(n, r)'
    BY DEF AcceptedIsKept, Typed, TypeOK
  <1>s. Sessions
    BY DEF Typed, TypeOK, Sessions, SessionTyped, SessionSane
  <1>r. r \in Rcpts
    BY IntakeAssumption
  <1>1. ASSUME NEW m \in Msgs, Step(m) PROVE Kept(n, r)'
    <2>1. faults = 0 /\ r \notin changed
      BY <1>1, StepTables, FaultTyped DEF Typed, TypeOK
    <2>2. CASE told[n][r] = "ok"
      BY <1>1, <1>r, <2>1, <2>2, StepKept DEF AcceptedIsKept
    <2>3. CASE told[n][r] # "ok"
      <3>1. n = m /\ Answer(m) /\ verdict[m] = "ok" /\ r \in rcpts[m]
        BY <1>1, <1>r, <1>s, <2>3, StepTells
      <3>2. Kept(m, r)
        BY <1>r, <2>1, <3>1 DEF Fates, Fate, ReplyTrue, Answer
      <3>3. QED
        BY <1>1, <1>r, <3>1, <3>2, StepKept
    <2>4. QED
      BY <2>2, <2>3
  <1>2. CASE Crash
    BY <1>2, FaultTyped DEF Crash
  <1>3. ASSUME NEW q \in Rcpts, ChangeDirectory(q) PROVE Kept(n, r)'
    <2>1. UNCHANGED <<told, faults, jobs, quarantine>> /\ r \notin changed
      BY <1>3 DEF ChangeDirectory, tables
    <2>2. QED
      BY <1>r, <2>1, KeptSame DEF AcceptedIsKept
  <1>4. ASSUME NEW m \in Msgs, NEW q \in Rcpts, Ripen(m, q) PROVE Kept(n, r)'
    <2>1. UNCHANGED <<told, faults, jobs, quarantine, changed>>
      BY <1>4 DEF Ripen, tables, world
    <2>2. QED
      BY <1>r, <2>1, KeptSame DEF AcceptedIsKept
  <1>5. CASE UNCHANGED vars
    <2>1. UNCHANGED <<told, faults, jobs, quarantine, changed>>
      BY <1>5 DEF vars
    <2>2. QED
      BY <1>r, <2>1, KeptSame DEF AcceptedIsKept
  <1>6. QED
    BY <1>1, <1>2, <1>3, <1>4, <1>5 DEF Next

\* All of it holds at the beginning.
LEMMA FatesInit == Init => Fates /\ AcceptedIsKept
  <1> SUFFICES ASSUME Init PROVE Fates /\ AcceptedIsKept
    OBVIOUS
  <1>1. \A m \in Msgs, r \in Rcpts : ~Kept(m, r) /\ rcpts[m] = {} /\ told[m][r] = "wait"
    BY DEF Init, QueueInit, Kept
  <1>2. QED
    BY <1>1, IntakeAssumption
    DEF Fates, Fate, OnItsWay, ReplyTrue, KeptForGood, AcceptedIsKept

\* All of it is kept by every step: the invariant IInv is inductive.
THEOREM IntakeInvariant == Spec => []IInv
  <1>1. IInv <=> Typed /\ Fates /\ NoRelay /\ AcceptedIsKept /\ RefusedIsNotKept
    BY DEF IInv, Typed, Fates, Fate
  <1>2. Init => IInv
    BY <1>1, TypedInit, FatesInit, FatesRefused DEF Init, QueueInit, NoRelay
  <1>3. IInv /\ [Next]_vars => IInv'
    <2>1. IInv' <=> Typed' /\ Fates' /\ NoRelay' /\ AcceptedIsKept' /\ RefusedIsNotKept'
      BY DEF IInv, Typed, Fates, Fate
    <2>2. Typed' /\ Fates' => RefusedIsNotKept'
      BY FatesRefused, PTL
    <2>3. QED
      BY <1>1, <2>1, <2>2, TypedNext, FatesNext, NoRelayNext, AcceptedNext
  <1>4. QED
    BY <1>2, <1>3, PTL DEF Spec

\* What the sender is told is true: without faults, mail he was told is
\* accepted is kept for each recipient whose directory entry stood still.
THEOREM AcceptancesAreTrue == Spec => []AcceptedIsKept
  <1>1. IInv => AcceptedIsKept
    BY DEF IInv
  <1>2. QED
    BY <1>1, IntakeInvariant, PTL

\* And mail he was told is refused is kept for nobody.
THEOREM RefusalsAreTrue == Spec => []RefusedIsNotKept
  <1>1. IInv => RefusedIsNotKept
    BY DEF IInv
  <1>2. QED
    BY <1>1, IntakeInvariant, PTL

-----------------------------------------------------------------------------
(* How many copies there are.                                              *)

\* The two halves of Copies.
Rows(m, r) == {i \in DOMAIN jobs : jobs[i].msg = m /\ r \in jobs[i].to}
Entries(m, r) == {i \in DOMAIN quarantine : quarantine[i] = [msg |-> m, rcpt |-> r]}

\* They are finite, so that they can be counted.
LEMMA CopiesFinite ==
  ASSUME Typed, NEW m, NEW r
  PROVE  /\ IsFiniteSet(Rows(m, r)) /\ IsFiniteSet(Entries(m, r))
         /\ Cardinality(Rows(m, r)) \in Nat /\ Cardinality(Entries(m, r)) \in Nat
         /\ Copies(m, r) = Cardinality(Rows(m, r)) + Cardinality(Entries(m, r))
         /\ Copies(m, r) \in Nat
  <1>1. nextId - 1 \in Int /\ DOMAIN jobs \subseteq 1..(nextId - 1)
    BY DEF Typed, TypeOK, QueueTypeOK
  <1>2. Len(quarantine) \in Int /\ DOMAIN quarantine = 1..Len(quarantine)
    BY DEF Typed, TypeOK
  <1>3. IsFiniteSet(1..(nextId - 1)) /\ IsFiniteSet(1..Len(quarantine))
    BY <1>1, <1>2, FS_Interval
  <1>4. Rows(m, r) \in SUBSET (1..(nextId - 1)) /\ Entries(m, r) \in SUBSET (1..Len(quarantine))
    BY <1>1, <1>2 DEF Rows, Entries
  <1>5. IsFiniteSet(Rows(m, r)) /\ IsFiniteSet(Entries(m, r))
    BY <1>3, <1>4, FS_Subset
  <1>6. Cardinality(Rows(m, r)) \in Nat /\ Cardinality(Entries(m, r)) \in Nat
    BY <1>5, FS_CardinalityType
  <1>7. Copies(m, r) = Cardinality(Rows(m, r)) + Cardinality(Entries(m, r))
    BY DEF Copies, Rows, Entries
  <1>8. QED
    BY <1>5, <1>6, <1>7

\* A new row is one more copy for each recipient it names.
LEMMA CopiesByRow ==
  ASSUME Typed, NEW kind \in Kinds, NEW m \in Msgs, NEW to \in SUBSET Rcpts,
         Enqueue(kind, m, to), UNCHANGED quarantine
  PROVE  \A n \in Msgs, r \in Rcpts :
           Copies(n, r)' = IF n = m /\ r \in to THEN Copies(n, r) + 1 ELSE Copies(n, r)
  <1> SUFFICES ASSUME NEW n \in Msgs, NEW r \in Rcpts
               PROVE  Copies(n, r)' = IF n = m /\ r \in to THEN Copies(n, r) + 1
                                      ELSE Copies(n, r)
    OBVIOUS
  <1>1. /\ DOMAIN jobs' = DOMAIN jobs \cup {nextId}
        /\ nextId \notin DOMAIN jobs
        /\ \A i \in DOMAIN jobs : jobs'[i] = jobs[i]
        /\ jobs'[nextId] = NewJob(kind, m, to)
    BY EnqueueEffect DEF Typed, TypeOK
  <1>2. jobs'[nextId].msg = m /\ jobs'[nextId].to = to
    BY <1>1 DEF NewJob
  <1>3. Rows(n, r)' = IF n = m /\ r \in to THEN Rows(n, r) \cup {nextId} ELSE Rows(n, r)
    BY <1>1, <1>2 DEF Rows
  <1>4. nextId \notin Rows(n, r)
    BY <1>1 DEF Rows
  <1>5. Cardinality(Rows(n, r) \cup {nextId}) = Cardinality(Rows(n, r)) + 1
    BY <1>4, CopiesFinite, FS_AddElement
  <1>6. Copies(n, r)' = Cardinality(Rows(n, r)') + Cardinality(Entries(n, r)')
    BY DEF Copies, Rows, Entries
  <1>7. Entries(n, r)' = Entries(n, r)
    BY DEF Entries
  <1>c. /\ Cardinality(Rows(n, r)) \in Nat /\ Cardinality(Entries(n, r)) \in Nat
        /\ Copies(n, r) = Cardinality(Rows(n, r)) + Cardinality(Entries(n, r))
    BY CopiesFinite
  <1>8. CASE n = m /\ r \in to
    <2>1. Cardinality(Rows(n, r)') = Cardinality(Rows(n, r)) + 1
      BY <1>3, <1>5, <1>8
    <2>2. QED
      BY <1>6, <1>7, <1>8, <1>c, <2>1
  <1>9. CASE ~(n = m /\ r \in to)
    BY <1>3, <1>6, <1>7, <1>9, <1>c
  <1>10. QED
    BY <1>8, <1>9

\* So is an entry in quarantine.
LEMMA CopiesByQuarantine ==
  ASSUME Typed, NEW m \in Msgs, NEW q \in Rcpts,
         quarantine' = Append(quarantine, [msg |-> m, rcpt |-> q]), UNCHANGED jobs
  PROVE  \A n \in Msgs, r \in Rcpts :
           Copies(n, r)' = IF n = m /\ r = q THEN Copies(n, r) + 1 ELSE Copies(n, r)
  <1> SUFFICES ASSUME NEW n \in Msgs, NEW r \in Rcpts
               PROVE  Copies(n, r)' = IF n = m /\ r = q THEN Copies(n, r) + 1
                                      ELSE Copies(n, r)
    OBVIOUS
  <1> DEFINE entry == [msg |-> m, rcpt |-> q]
             last == Len(quarantine) + 1
  <1>1. quarantine \in Seq([msg : Msgs, rcpt : Rcpts]) /\ entry \in [msg : Msgs, rcpt : Rcpts]
    BY DEF Typed, TypeOK
  <1>2. /\ DOMAIN quarantine = 1..Len(quarantine)
        /\ DOMAIN quarantine' = 1..last
        /\ \A i \in DOMAIN quarantine : quarantine'[i] = quarantine[i]
        /\ quarantine'[last] = entry
        /\ Len(quarantine) \in Nat
    BY <1>1
  <1>3. DOMAIN quarantine' = DOMAIN quarantine \cup {last} /\ last \notin DOMAIN quarantine
    BY <1>2
  <1>4. entry = [msg |-> n, rcpt |-> r] <=> n = m /\ r = q
    <2>1. ASSUME entry = [msg |-> n, rcpt |-> r] PROVE n = m /\ r = q
      BY <2>1, entry.msg = m, entry.rcpt = q
    <2>2. QED
      BY <2>1
  <1> HIDE DEF entry, last
  <1>5. Entries(n, r)' = IF n = m /\ r = q THEN Entries(n, r) \cup {last} ELSE Entries(n, r)
    BY <1>2, <1>3, <1>4 DEF Entries
  <1>6. last \notin Entries(n, r)
    BY <1>3 DEF Entries
  <1>7. Cardinality(Entries(n, r) \cup {last}) = Cardinality(Entries(n, r)) + 1
    BY <1>6, CopiesFinite, FS_AddElement
  <1>8. Copies(n, r)' = Cardinality(Rows(n, r)') + Cardinality(Entries(n, r)')
    BY DEF Copies, Rows, Entries
  <1>9. Rows(n, r)' = Rows(n, r)
    BY DEF Rows
  <1>c. /\ Cardinality(Rows(n, r)) \in Nat /\ Cardinality(Entries(n, r)) \in Nat
        /\ Copies(n, r) = Cardinality(Rows(n, r)) + Cardinality(Entries(n, r))
    BY CopiesFinite
  <1>10. CASE n = m /\ r = q
    <2>1. Cardinality(Entries(n, r)') = Cardinality(Entries(n, r)) + 1
      BY <1>5, <1>7, <1>10
    <2>2. QED
      BY <1>8, <1>9, <1>10, <1>c, <2>1
  <1>11. CASE ~(n = m /\ r = q)
    BY <1>5, <1>8, <1>9, <1>11, <1>c
  <1>12. QED
    BY <1>10, <1>11

\* Nothing else makes a copy.
LEMMA CopiesSame ==
  ASSUME UNCHANGED <<jobs, quarantine>>
  PROVE  \A n, r : Copies(n, r)' = Copies(n, r)
  BY DEF Copies

\* What a step of a session does to the tables, in terms of copies: nothing,
\* or one more for one recipient it is at, or for all it relays to.
LEMMA StepCopies ==
  ASSUME Typed, NEW m \in Msgs, Step(m)
  PROVE  \/ UNCHANGED <<jobs, quarantine>>
         \/ \E q \in left[m] :
              /\ Store(m, q) /\ Past(m, q) /\ UNCHANGED faults
              /\ \A n \in Msgs, r \in Rcpts :
                   Copies(n, r)' = IF n = m /\ r = q THEN Copies(n, r) + 1 ELSE Copies(n, r)
         \/ /\ Relay(m) /\ Reply(m, "ok") /\ UNCHANGED faults
            /\ \A n \in Msgs, r \in Rcpts :
                 Copies(n, r)' = IF n = m /\ r \in remote[m] THEN Copies(n, r) + 1
                                 ELSE Copies(n, r)
  <1>r. remote[m] \in SUBSET Rcpts /\ left[m] \in SUBSET Rcpts
    BY DEF Typed, TypeOK
  <1>1. ASSUME NEW q \in left[m], Store(m, q), ~UNCHANGED <<jobs, quarantine>>
        PROVE  /\ Past(m, q) /\ UNCHANGED faults
               /\ \A n \in Msgs, r \in Rcpts :
                    Copies(n, r)' = IF n = m /\ r = q THEN Copies(n, r) + 1 ELSE Copies(n, r)
    <2>q. q \in Rcpts /\ {q} \in SUBSET Rcpts
      BY <1>r
    <2>1. CASE /\ Enqueue("inbound", m, {q}) /\ UNCHANGED <<quarantine, faults>> /\ Past(m, q)
      <3>1. \A n \in Msgs, r \in Rcpts :
              Copies(n, r)' = IF n = m /\ r \in {q} THEN Copies(n, r) + 1 ELSE Copies(n, r)
        BY <2>1, <2>q, CopiesByRow DEF Kinds
      <3>2. QED
        BY <2>1, <3>1
    <2>2. CASE /\ quarantine' = Append(quarantine, [msg |-> m, rcpt |-> q])
               /\ UNCHANGED <<jobs, faults>> /\ Past(m, q)
      BY <2>2, <2>q, CopiesByQuarantine
    <2>3. QED
      BY <1>1, <2>1, <2>2 DEF Store, tables
  <1>2. ASSUME Relay(m), ~UNCHANGED <<jobs, quarantine>>
        PROVE  /\ Reply(m, "ok") /\ UNCHANGED faults
               /\ \A n \in Msgs, r \in Rcpts :
                    Copies(n, r)' = IF n = m /\ r \in remote[m] THEN Copies(n, r) + 1
                                    ELSE Copies(n, r)
    <2>1. /\ Enqueue("outbound", m, remote[m]) /\ UNCHANGED <<quarantine, faults>>
          /\ Reply(m, "ok")
      BY <1>2 DEF Relay, tables
    <2>2. QED
      BY <2>1, <1>r, CopiesByRow DEF Kinds
  <1>3. CASE ~Relay(m) /\ ~\E r \in left[m] : Store(m, r)
    BY <1>3 DEF Step, Mail, Data, SplitEnds, Screen, PlanEnds, StoreEnds, Answer,
                Rcpt, Split, Plan, tables
  <1>4. QED
    BY <1>1, <1>2, <1>3

\* The recipient has had his turn in this transaction, or his answer.
Through(m, r) ==
  \/ told[m][r] # "wait"
  \/ /\ r \in rcpts[m]
     /\ \/ pc[m] \in {"store", "relay"} /\ r \notin left[m] \cup remote[m]
        \/ pc[m] = "reply" /\ verdict[m] = "ok"

Few(m, r) == Copies(m, r) <= IF Through(m, r) THEN 1 + faults ELSE faults

\* Each copy is paid for by a fault, but one.
CopiesFew == \A m \in Msgs, r \in Rcpts : Few(m, r)

\* Who is through stays so in his session, unless a fault sets it back.
LEMMA ThroughStep ==
  ASSUME Typed, NEW m \in Msgs, NEW r \in Rcpts, Step(m), ~Fault, Through(m, r)
  PROVE  Through(m, r)'
  <1>t. SessionTyped /\ SessionSane(m)
    BY DEF Typed, TypeOK, SessionTyped, SessionSane
  <1>w. \A q \in rcpts[m] \cup left[m] : told[m][q] = "wait"
    BY <1>t DEF SessionSane, Waiting
  <1> USE DEF Goto, Loop, Past, Tell, Reset, Reply, transaction, Accept, Through
  <1>1. CASE Mail(m)
    <2>1. told[m][r] # "wait"
      BY <1>1, <1>t DEF Mail, SessionSane
    <2>2. told'[m][r] # "wait"
      BY <1>1, <1>t, <2>1 DEF Mail, SessionTyped
    <2>3. QED
      BY <2>2
  <1>2. CASE Data(m)
    BY <1>2, <1>t DEF Data, SessionTyped
  <1>3. CASE SplitEnds(m)
    BY <1>3, <1>t DEF SplitEnds, SessionTyped
  <1>4. CASE Screen(m)
    BY <1>4, <1>t DEF Screen, SessionTyped
  <1>5. CASE PlanEnds(m)
    BY <1>5, <1>t DEF PlanEnds, SessionTyped
  <1>6. CASE StoreEnds(m)
    BY <1>6, <1>t DEF StoreEnds, SessionTyped
  <1>7. CASE Relay(m)
    BY <1>7, <1>t DEF Relay, SessionTyped
  <1>8. CASE Answer(m)
    BY <1>8, <1>t, <1>w DEF Answer, SessionTyped
  <1>9. ASSUME NEW q \in left[m], Rcpt(m, q) PROVE Through(m, r)'
    <2>1. told[m][r] # "wait"
      BY <1>9, <1>t DEF Rcpt
    <2>2. told'[m][r] # "wait"
      BY <1>9, <1>t, <2>1 DEF Rcpt, SessionTyped
    <2>3. QED
      BY <2>2
  <1>10. ASSUME NEW q \in left[m], Split(m, q) PROVE Through(m, r)'
    BY <1>10, <1>t DEF Split, SessionTyped
  <1>11. ASSUME NEW q \in left[m], Plan(m, q) PROVE Through(m, r)'
    BY <1>11, <1>t DEF Plan, SessionTyped
  <1>12. ASSUME NEW q \in left[m], Store(m, q) PROVE Through(m, r)'
    BY <1>12, <1>t DEF Store, SessionTyped
  <1>13. QED
    BY <1>1, <1>2, <1>3, <1>4, <1>5, <1>6, <1>7, <1>8, <1>9, <1>10, <1>11, <1>12 DEF Step

\* Where nothing is inserted, the count holds: who was through still is, and
\* a fault pays for what it sets back.
LEMMA FewSame ==
  ASSUME Typed, NEW n \in Msgs, NEW r \in Rcpts, Few(n, r), UNCHANGED <<jobs, quarantine>>,
         \/ faults' = faults /\ (Through(n, r) => Through(n, r)')
         \/ faults' = faults + 1
  PROVE  Few(n, r)'
  <1>1. Copies(n, r)' = Copies(n, r)
    BY CopiesSame
  <1>2. Copies(n, r) \in Nat /\ faults \in Nat
    BY CopiesFinite DEF Typed, TypeOK
  <1>3. PICK c \in Nat : c = Copies(n, r)
    BY <1>2
  <1>4. c <= IF Through(n, r) THEN 1 + faults ELSE faults
    BY <1>3 DEF Few
  <1>5. c <= IF Through(n, r)' THEN 1 + faults' ELSE faults'
    BY <1>2, <1>4
  <1>6. Few(n, r)' <=> Copies(n, r)' <= IF Through(n, r)' THEN 1 + faults' ELSE faults'
    BY DEF Few
  <1>7. QED
    BY <1>1, <1>3, <1>5, <1>6

\* The copy of a recipient whose turn it is is the one that needs no fault.
LEMMA FewMore ==
  ASSUME Typed, NEW n \in Msgs, NEW r \in Rcpts, Few(n, r), Copies(n, r)' = Copies(n, r) + 1,
         faults' = faults, ~Through(n, r), Through(n, r)'
  PROVE  Few(n, r)'
  <1>1. Copies(n, r) \in Nat /\ faults \in Nat
    BY CopiesFinite DEF Typed, TypeOK
  <1>2. PICK c \in Nat : c = Copies(n, r)
    BY <1>1
  <1>3. c <= faults
    BY <1>2 DEF Few
  <1>4. c + 1 <= 1 + faults'
    BY <1>1, <1>3
  <1>5. Few(n, r)' <=> Copies(n, r)' <= IF Through(n, r)' THEN 1 + faults' ELSE faults'
    BY DEF Few
  <1>6. QED
    BY <1>2, <1>4, <1>5

\* A count that stands, of a recipient who stays through.
LEMMA FewStays ==
  ASSUME Typed, NEW n \in Msgs, NEW r \in Rcpts, Few(n, r), Copies(n, r)' = Copies(n, r),
         faults' = faults \/ faults' = faults + 1, Through(n, r) => Through(n, r)'
  PROVE  Few(n, r)'
  <1>1. Copies(n, r) \in Nat /\ faults \in Nat
    BY CopiesFinite DEF Typed, TypeOK
  <1>2. PICK c \in Nat : c = Copies(n, r)
    BY <1>1
  <1>3. c <= IF Through(n, r) THEN 1 + faults ELSE faults
    BY <1>2 DEF Few
  <1>4. c <= IF Through(n, r)' THEN 1 + faults' ELSE faults'
    BY <1>1, <1>3
  <1>5. Few(n, r)' <=> Copies(n, r)' <= IF Through(n, r)' THEN 1 + faults' ELSE faults'
    BY DEF Few
  <1>6. QED
    BY <1>2, <1>4, <1>5

\* A recipient in the loop of Store is not through before it and is after it.
LEMMA StoreThrough ==
  ASSUME Typed, NEW m \in Msgs, NEW q \in left[m], Store(m, q), Past(m, q)
  PROVE  ~Through(m, q) /\ Through(m, q)'
  <1>1. SessionTyped /\ SessionSane(m)
    BY DEF Typed, TypeOK, SessionTyped, SessionSane
  <1>2. pc[m] = "store" /\ pc' = pc /\ rcpts' = rcpts /\ remote' = remote
    BY DEF Store, transaction
  <1>3. told[m][q] = "wait" /\ q \in rcpts[m] /\ q \notin remote[m]
    BY <1>1, <1>2 DEF SessionSane, Phases, Waiting, Local
  <1>4. q \notin left'[m]
    BY <1>1 DEF Past, Loop, SessionTyped
  <1>5. QED
    BY <1>2, <1>3, <1>4 DEF Through

\* Nor are those that Relay sends to.
LEMMA RelayThrough ==
  ASSUME Typed, NEW m \in Msgs, NEW r \in remote[m], Relay(m), Reply(m, "ok")
  PROVE  ~Through(m, r) /\ Through(m, r)'
  <1>1. SessionTyped /\ SessionSane(m)
    BY DEF Typed, TypeOK, SessionTyped, SessionSane
  <1>2. pc[m] = "relay" /\ rcpts' = rcpts
    BY DEF Relay
  <1>3. told[m][r] = "wait" /\ r \in rcpts[m]
    BY <1>1 DEF SessionSane, Waiting
  <1>4. pc'[m] = "reply" /\ verdict'[m] = "ok"
    BY <1>1 DEF Reply, Goto, SessionTyped
  <1>5. QED
    BY <1>2, <1>3, <1>4 DEF Through

\* A step of a session keeps the count of its own message.
LEMMA FewStep ==
  ASSUME Typed, NEW m \in Msgs, NEW r \in Rcpts, Few(m, r), Step(m)
  PROVE  Few(m, r)'
  <1>f. faults' = faults + 1 \/ (faults' = faults /\ ~Fault)
    <2>1. Fault \/ UNCHANGED faults
      BY StepTables
    <2>2. faults \in Nat
      BY DEF Typed, TypeOK
    <2>3. QED
      BY <2>1, <2>2 DEF Fault
  <1>t. ~Fault => (Through(m, r) => Through(m, r)')
    BY ThroughStep
  <1>1. CASE UNCHANGED <<jobs, quarantine>>
    BY <1>1, <1>f, <1>t, FewSame
  <1>2. ASSUME NEW q \in left[m], Store(m, q), Past(m, q), UNCHANGED faults,
               \A n \in Msgs, p \in Rcpts :
                 Copies(n, p)' = IF n = m /\ p = q THEN Copies(n, p) + 1 ELSE Copies(n, p)
        PROVE  Few(m, r)'
    <2>f. ~Fault
      <3>1. faults \in Nat
        BY DEF Typed, TypeOK
      <3>2. QED
        BY <1>2, <3>1 DEF Fault
    <2>1. CASE r = q
      BY <1>2, <2>1, StoreThrough, FewMore
    <2>2. CASE r # q
      BY <1>2, <1>t, <2>f, <2>2, FewStays
    <2>3. QED
      BY <2>1, <2>2
  <1>3. ASSUME Relay(m), Reply(m, "ok"), UNCHANGED faults,
               \A n \in Msgs, p \in Rcpts :
                 Copies(n, p)' = IF n = m /\ p \in remote[m] THEN Copies(n, p) + 1
                                 ELSE Copies(n, p)
        PROVE  Few(m, r)'
    <2>f. ~Fault
      <3>1. faults \in Nat
        BY DEF Typed, TypeOK
      <3>2. QED
        BY <1>3, <3>1 DEF Fault
    <2>1. CASE r \in remote[m]
      BY <1>3, <2>1, RelayThrough, FewMore
    <2>2. CASE r \notin remote[m]
      BY <1>3, <1>t, <2>f, <2>2, FewStays
    <2>3. QED
      BY <2>1, <2>2
  <1>4. QED
    BY <1>1, <1>2, <1>3, StepCopies

\* A step of another session does not concern it.
LEMMA FewOther ==
  ASSUME Typed, NEW m \in Msgs, Step(m), NEW n \in Msgs \ {m}, NEW r \in Rcpts, Few(n, r)
  PROVE  Few(n, r)'
  <1>1. OthersSame(m)
    BY StepOthers DEF Typed, TypeOK, Sessions, SessionTyped, SessionSane
  <1>2. Through(n, r)' <=> Through(n, r)
    BY <1>1 DEF Through, OthersSame
  <1>3. Copies(n, r)' = Copies(n, r)
    BY StepCopies, CopiesSame
  <1>4. faults' = faults \/ faults' = faults + 1
    BY StepTables DEF Fault
  <1>5. QED
    BY <1>2, <1>3, <1>4, FewStays

LEMMA CopiesFewNext == Typed /\ CopiesFew /\ [Next]_vars => CopiesFew'
  <1> SUFFICES ASSUME Typed, CopiesFew, [Next]_vars, NEW n \in Msgs, NEW r \in Rcpts
               PROVE  Few(n, r)'
    BY DEF CopiesFew
  <1>f. Few(n, r)
    BY DEF CopiesFew
  <1>1. ASSUME NEW m \in Msgs, Step(m) PROVE Few(n, r)'
    BY <1>1, <1>f, FewStep, FewOther
  <1>2. CASE Crash
    BY <1>2, <1>f, FewSame DEF Crash, Fault, tables
  <1>3. ASSUME NEW q \in Rcpts, ChangeDirectory(q) PROVE Few(n, r)'
    <2>1. UNCHANGED <<jobs, quarantine, pc, rcpts, left, remote, verdict, told, faults>>
      BY <1>3 DEF ChangeDirectory, tables, transaction
    <2>2. QED
      BY <1>f, <2>1, FewSame DEF Through
  <1>4. ASSUME NEW m \in Msgs, NEW q \in Rcpts, Ripen(m, q) PROVE Few(n, r)'
    <2>1. UNCHANGED <<jobs, quarantine, pc, rcpts, left, remote, verdict, told, faults>>
      BY <1>4 DEF Ripen, tables, transaction
    <2>2. QED
      BY <1>f, <2>1, FewSame DEF Through
  <1>5. CASE UNCHANGED vars
    <2>1. UNCHANGED <<jobs, quarantine, pc, rcpts, left, remote, verdict, told, faults>>
      BY <1>5 DEF vars
    <2>2. QED
      BY <1>f, <2>1, FewSame DEF Through
  <1>6. QED
    BY <1>1, <1>2, <1>3, <1>4, <1>5 DEF Next

LEMMA CopiesFewInit == Init => CopiesFew
  <1> SUFFICES ASSUME Init, NEW n \in Msgs, NEW r \in Rcpts PROVE Few(n, r)
    BY DEF CopiesFew
  <1>1. Rows(n, r) = {} /\ Entries(n, r) = {}
    BY DEF Init, QueueInit, Rows, Entries
  <1>2. Cardinality(Rows(n, r)) = 0 /\ Cardinality(Entries(n, r)) = 0
    BY <1>1, FS_EmptySet
  <1>3. Copies(n, r) = 0
    BY <1>2 DEF Copies, Rows, Entries
  <1>4. QED
    BY <1>3 DEF Few, Init

\* Nobody gets a message more often than once for each try that broke off,
\* however many sessions insert rows side by side.
THEOREM NobodyGetsMore == Spec => []FewCopies
  <1>1. Typed /\ CopiesFew => FewCopies
    <2> SUFFICES ASSUME Typed, CopiesFew, NEW m \in Msgs, NEW r \in Addressed[m]
                 PROVE  Copies(m, r) <= 1 + faults
      BY DEF FewCopies
    <2>1. Few(m, r)
      BY IntakeAssumption DEF CopiesFew
    <2>2. Copies(m, r) \in Nat /\ faults \in Nat
      BY CopiesFinite DEF Typed, TypeOK
    <2>3. PICK c \in Nat : c = Copies(m, r)
      BY <2>2
    <2>4. c <= IF Through(m, r) THEN 1 + faults ELSE faults
      BY <2>1, <2>3 DEF Few
    <2>5. c <= 1 + faults
      BY <2>2, <2>4
    <2>6. QED
      BY <2>3, <2>5
  <1>2. QED
    BY TypedInit, TypedNext, CopiesFewInit, CopiesFewNext, <1>1, PTL DEF Spec

=============================================================================
