--------------------------- MODULE EntranceProofs --------------------------
(***************************************************************************)
(* Proofs about Sessions and Screening, for every number of requests,      *)
(* addresses, sessions and items: a session that was logged out stays so,  *)
(* a key of the guard has few guesses, an item of the quarantine is not    *)
(* lost, and what was learned does not decide alone.                       *)
(***************************************************************************)
EXTENDS MCEntrance, IntakeProofs

-----------------------------------------------------------------------------
(* Induction, and sums over sets.                                          *)

\* A set of numbers that has zero, and with each number the next, has them all.
LEMMA SetInduction ==
  ASSUME NEW S \in SUBSET Nat, 0 \in S, \A n \in S : n + 1 \in S
  PROVE  S = Nat
  <1> DEFINE T == Nat \ S
             R == OpToRel(<, Nat)
  <1> SUFFICES ASSUME T # {} PROVE FALSE
    OBVIOUS
  <1>1. IsWellFoundedOn(R, Nat)
    BY NatLessThanWellFounded
  <1>2. T \subseteq Nat
    OBVIOUS
  <1> HIDE DEF T, R
  <1>3. PICK x \in T : \A y \in T : ~ (<<y, x>> \in R)
    BY <1>1, <1>2, WFMin
  <1>4. x \in Nat /\ x \notin S
    BY DEF T
  <1>5. x # 0
    BY <1>4
  <1>6. x - 1 \in Nat /\ x - 1 < x /\ (x - 1) + 1 = x
    BY <1>4, <1>5
  <1>7. x - 1 \in T
    BY <1>4, <1>6 DEF T
  <1>8. <<x - 1, x>> \in R
    BY <1>4, <1>6 DEF R, OpToRel
  <1>9. QED
    BY <1>3, <1>7, <1>8

\* Sums over a set are taken away one chosen element at a time.
Any(s) == CHOOSE x \in s : TRUE
Small(S, n) == {s \in SUBSET S : Cardinality(s) <= n}

\* The sums of the small subsets of S, as SumFunctionOnSet defines them.
Sums(g, w, D) == g = [s \in D |-> IF s = {} THEN 0 ELSE w[Any(s)] + g[s \ {Any(s)}]]

\* A set loses one element at a time.
LEMMA LessByOne ==
  ASSUME NEW S, IsFiniteSet(S), NEW s \in SUBSET S, s # {}
  PROVE  /\ Any(s) \in s /\ s \ {Any(s)} \in SUBSET S
         /\ Cardinality(s) \in Nat
         /\ Cardinality(s \ {Any(s)}) = Cardinality(s) - 1
  <1>1. IsFiniteSet(s)
    BY FS_Subset
  <1>2. Any(s) \in s
    BY DEF Any
  <1>3. QED
    BY <1>1, <1>2, FS_RemoveElement, FS_CardinalityType

\* The one subset of size zero.
LEMMA SmallestEmpty ==
  ASSUME NEW S, IsFiniteSet(S)
  PROVE  \A s \in Small(S, 0) : s = {}
  <1> SUFFICES ASSUME NEW s \in Small(S, 0) PROVE s = {}
    OBVIOUS
  <1>1. IsFiniteSet(s) /\ Cardinality(s) <= 0
    BY FS_Subset DEF Small
  <1>2. Cardinality(s) = 0
    BY <1>1, FS_CardinalityType
  <1>3. QED
    BY <1>1, <1>2, FS_EmptySet

\* For a finite set, the recursion has a solution.
LEMMA SumsExist ==
  ASSUME NEW w, NEW S, IsFiniteSet(S)
  PROVE  \E g : Sums(g, w, SUBSET S)
  <1> DEFINE P == {n \in Nat : \E g : Sums(g, w, Small(S, n))}
  <1>1. 0 \in P
    <2>1. \A s \in Small(S, 0) : s = {}
      BY SmallestEmpty
    <2>2. Sums([s \in Small(S, 0) |-> 0], w, Small(S, 0))
      BY <2>1 DEF Sums
    <2>3. QED
      BY <2>2
  <1>2. ASSUME NEW n \in P PROVE n + 1 \in P
    <2>1. PICK g : Sums(g, w, Small(S, n))
      BY <1>2
    <2> DEFINE h == [s \in Small(S, n + 1) |->
                       IF s = {} THEN 0 ELSE w[Any(s)] + g[s \ {Any(s)}]]
    <2>2. \A s \in Small(S, n) : s \in Small(S, n + 1) /\ h[s] = g[s]
      <3>1. ASSUME NEW s \in Small(S, n) PROVE s \in Small(S, n + 1)
        <4>1. IsFiniteSet(s)
          BY <3>1, FS_Subset DEF Small
        <4>2. Cardinality(s) \in Nat /\ Cardinality(s) <= n /\ s \in SUBSET S
          BY <4>1, FS_CardinalityType DEF Small
        <4>3. QED
          BY <4>2 DEF Small
      <3>2. QED
        BY <2>1, <3>1 DEF Sums
    <2>3. \A s \in Small(S, n + 1) : s # {} => s \ {Any(s)} \in Small(S, n)
      BY LessByOne DEF Small
    <2>4. \A s \in Small(S, n + 1) :
             h[s] = IF s = {} THEN 0 ELSE w[Any(s)] + h[s \ {Any(s)}]
      BY <2>2, <2>3
    <2>5. h = [s \in Small(S, n + 1) |-> h[s]]
      OBVIOUS
    <2> HIDE DEF h
    <2>6. Sums(h, w, Small(S, n + 1))
      BY <2>4, <2>5 DEF Sums
    <2>7. QED
      BY <2>6
  <1>3. P = Nat
    <2> HIDE DEF P
    <2>1. P \in SUBSET Nat
      BY DEF P
    <2>2. QED
      BY <1>1, <1>2, <2>1, SetInduction
  <1>4. Cardinality(S) \in P
    <2>1. Cardinality(S) \in Nat
      BY FS_CardinalityType
    <2>2. QED
      BY <1>3, <2>1
  <1>5. Small(S, Cardinality(S)) = SUBSET S
    BY FS_Subset DEF Small
  <1>6. QED
    BY <1>4, <1>5

\* The sum of integers over a finite set is an integer.
LEMMA SumsTyped ==
  ASSUME NEW S, IsFiniteSet(S), NEW w, \A x \in S : w[x] \in Int,
         NEW g, Sums(g, w, SUBSET S)
  PROVE  \A s \in SUBSET S : g[s] \in Int
  <1> DEFINE P == {n \in Nat : \A s \in Small(S, n) : g[s] \in Int}
  <1>1. 0 \in P
    <2>1. \A s \in Small(S, 0) : s = {}
      BY SmallestEmpty
    <2>2. \A s \in Small(S, 0) : g[s] = 0
      BY <2>1 DEF Sums
    <2>3. QED
      BY <2>2
  <1>2. ASSUME NEW n \in P PROVE n + 1 \in P
    <2>1. ASSUME NEW s \in Small(S, n + 1) PROVE g[s] \in Int
      <3>1. s \in SUBSET S /\ g[s] = IF s = {} THEN 0 ELSE w[Any(s)] + g[s \ {Any(s)}]
        BY DEF Sums, Small
      <3>2. CASE s = {}
        BY <3>1, <3>2
      <3>3. CASE s # {}
        <4>1. Any(s) \in S /\ s \ {Any(s)} \in Small(S, n)
          BY <3>1, <3>3, LessByOne DEF Small
        <4>2. g[s \ {Any(s)}] \in Int
          BY <4>1
        <4>3. QED
          BY <3>1, <3>3, <4>1, <4>2
      <3>4. QED
        BY <3>2, <3>3
    <2>2. QED
      BY <2>1
  <1>3. P = Nat
    <2> HIDE DEF P
    <2>1. P \in SUBSET Nat
      BY DEF P
    <2>2. QED
      BY <1>1, <1>2, <2>1, SetInduction
  <1>4. SUFFICES ASSUME NEW s \in SUBSET S PROVE g[s] \in Int
    OBVIOUS
  <1>5. Cardinality(s) \in Nat
    BY FS_Subset, FS_CardinalityType
  <1>6. s \in Small(S, Cardinality(s)) /\ Cardinality(s) \in P
    BY <1>3, <1>5 DEF Small
  <1>7. QED
    BY <1>6

\* So is what SumFunctionOnSet returns.
LEMMA SumIsInt ==
  ASSUME NEW S, IsFiniteSet(S), NEW w, \A x \in S : w[x] \in Int
  PROVE  SumFunctionOnSet(w, S) \in Int
  <1> DEFINE g == CHOOSE g : Sums(g, w, SUBSET S)
  <1>1. Sums(g, w, SUBSET S)
    BY SumsExist
  <1>2. g[S] \in Int
    <2> HIDE DEF g
    <2>1. QED
      BY <1>1, SumsTyped
  <1>3. SumFunctionOnSet(w, S) = g[S]
    BY DEF Sums, Any, SumFunctionOnSet, FoldFunctionOnSet, MapThenFoldSet
  <1>4. QED
    BY <1>2, <1>3

-----------------------------------------------------------------------------
(* Sessions.                                                               *)

\* What LoggedOutStaysOut needs: sessions are numbered one after the other,
\* so that a new one was never logged out, and a session that was logged out
\* is in the file only if the file could not be written, so that a restart
\* brings back no other.
Numbered ==
  /\ sessions \in Nat
  /\ DOMAIN byID \cup DOMAIN file \cup loggedOut \subseteq 1..sessions
OutOfFile == loggedOut \cap DOMAIN file \subseteq unsaved
SessionInv == Numbered /\ LoggedOutStaysOut /\ OutOfFile

LEMMA UnexpiredFewer ==
  ASSUME NEW f
  PROVE  DOMAIN Unexpired(f) \subseteq DOMAIN f
BY DEF Unexpired

\* clientIP gives one of the keys.
LEMMA KeysAre == \A a \in Hosts, x \in Headers : ClientIP(a, x) \in ClientIPs
  BY DEF ClientIPs

\* The store is written without session id, or the file keeps what it had.
LEMMA DeleteKeeps ==
  ASSUME SessionInv, NEW id, Delete(id)
  PROVE  /\ DOMAIN byID' \subseteq DOMAIN byID \ {id}
         /\ (loggedOut \cup {id}) \cap DOMAIN byID' \subseteq unsaved'
         /\ loggedOut \cap DOMAIN file' \subseteq unsaved'
         /\ id \in DOMAIN file' => id \in unsaved'
         /\ DOMAIN file' \subseteq DOMAIN byID \cup DOMAIN file
<1> DEFINE f == Drop(id)
<1>1. DOMAIN f = DOMAIN byID \ {id}
  BY DEF Drop
<1>2. Persist(f)
  BY DEF Delete
<1>3. byID' = Unexpired(f)
  BY <1>2 DEF Persist
<1> HIDE DEF f
<1>4. DOMAIN byID' \subseteq DOMAIN f
  BY <1>3, UnexpiredFewer
<1>5. CASE file' = Unexpired(f) /\ unsaved' = unsaved \cap DOMAIN f
  <2>1. DOMAIN file' \subseteq DOMAIN f
    BY <1>5, UnexpiredFewer
  <2> QED
    BY <1>1, <1>4, <1>5, <2>1 DEF SessionInv, LoggedOutStaysOut, OutOfFile
<1>6. CASE file' = file /\ unsaved' = unsaved \cup (DOMAIN file \ DOMAIN f)
  BY <1>1, <1>4, <1>6 DEF SessionInv, LoggedOutStaysOut, OutOfFile
<1> QED
  BY <1>2, <1>5, <1>6 DEF Persist

LEMMA SessionsStart == SessionsInit => SessionInv
<1> SUFFICES ASSUME SessionsInit PROVE SessionInv
  OBVIOUS
<1>1. DOMAIN byID = {} /\ DOMAIN file = {} /\ loggedOut = {} /\ sessions = 0
  BY DEF SessionsInit
<1> QED
  BY <1>1 DEF SessionInv, Numbered, LoggedOutStaysOut, OutOfFile

LEMMA SessionsStep ==
  ASSUME SessionInv, [SessionsNext]_sesVars
  PROVE  SessionInv'
<1> USE DEF SessionInv, Numbered, LoggedOutStaysOut, OutOfFile
<1>1. CASE UNCHANGED <<byID, file, unsaved, sessions, loggedOut>>
  BY <1>1
<1>2. ASSUME NEW q \in Logins, CreateSession(q)
      PROVE  SessionInv'
  <2>1. UNCHANGED loggedOut
    BY <1>2 DEF CreateSession
  <2>2. CASE /\ sessions < MaxSessions
             /\ sessions' = sessions + 1
             /\ byID' = Unexpired([s \in DOMAIN byID \cup {sessions'} |->
                                     IF s = sessions' THEN clock + SessionTTL ELSE byID[s]])
             /\ file' = byID'
             /\ unsaved' = unsaved \cap DOMAIN byID
    <3>1. DOMAIN byID' \subseteq DOMAIN byID \cup {sessions + 1}
      BY <2>2, UnexpiredFewer
    <3>2. sessions + 1 \notin loggedOut
      OBVIOUS
    <3> QED
      BY <2>1, <2>2, <3>1, <3>2
  <2>3. CASE byID' = Unexpired(byID) /\ UNCHANGED <<file, unsaved, sessions>>
    <3>1. DOMAIN byID' \subseteq DOMAIN byID
      BY <2>3, UnexpiredFewer
    <3> QED
      BY <2>1, <2>3, <3>1
  <2> QED
    BY <1>2, <2>2, <2>3 DEF CreateSession
<1>3. ASSUME NEW id, Expire(id)
      PROVE  SessionInv'
  <2>1. Delete(id) /\ UNCHANGED <<loggedOut, sessions>>
    BY <1>3 DEF Expire
  <2> QED
    BY <2>1, DeleteKeeps
<1>4. ASSUME NEW id, Logout(id)
      PROVE  SessionInv'
  <2>1. Delete(id) /\ loggedOut' = loggedOut \cup {id} /\ UNCHANGED sessions
    BY <1>4 DEF Logout
  <2>2. id \in DOMAIN byID
    BY <1>4 DEF Logout
  <2>3. Numbered'
    BY <2>1, <2>2, DeleteKeeps
  <2>4. LoggedOutStaysOut'
    BY <2>1, DeleteKeeps
  <2>5. OutOfFile'
    BY <2>1, DeleteKeeps
  <2> QED
    BY <2>3, <2>4, <2>5
<1>5. CASE Restart
  <2>1. byID' = Unexpired(file) /\ UNCHANGED <<file, unsaved, sessions, loggedOut>>
    BY <1>5 DEF Restart
  <2>2. DOMAIN byID' \subseteq DOMAIN file
    BY <2>1, UnexpiredFewer
  <2> QED
    BY <2>1, <2>2
<1>6. ASSUME NEW q \in Logins, NEW h \in ClientIPs, Allow(q, h)
      PROVE  UNCHANGED <<byID, file, unsaved, sessions, loggedOut>>
  BY <1>6 DEF Allow, sesStore
<1>7. ASSUME NEW q \in Logins,
             VerifyLogin(q) \/ LoginFails(q) \/ LoginSucceeds(q) \/ Impersonate(q)
      PROVE  UNCHANGED <<byID, file, unsaved, sessions, loggedOut>>
  BY <1>7 DEF VerifyLogin, LoginFails, LoginSucceeds, Impersonate, sesStore
<1>8. CASE IssueToken \/ Pass
  BY <1>1, <1>8 DEF IssueToken, Pass, sesStore
<1>9. CASE UNCHANGED sesVars
  BY <1>1, <1>9 DEF sesVars
<1> QED
  BY <1>1, <1>2, <1>3, <1>4, <1>5, <1>6, <1>7, <1>8, <1>9, KeysAre DEF SessionsNext

\* A session that somebody logged out of is not in memory again, whatever
\* restarts and other sessions come between, unless the file could not be
\* written when it was deleted (Delete and NewFileStore of the store).
THEOREM LoggedOutForGood == SessionsSpec => []LoggedOutStaysOut
<1>1. SessionInv => LoggedOutStaysOut
  BY DEF SessionInv
<1> QED
  BY <1>1, SessionsStart, SessionsStep, PTL DEF SessionsSpec

-----------------------------------------------------------------------------
(* The quarantine.                                                         *)

\* What HeldIsNotLost needs: a request that is past its first statement, and an
\* item that is closed, have done or chosen what excuses the item's absence.
Excused(id, op) ==
  \/ op = "release" /\ copies[id] > 0
  \/ op = "delete" /\ id \in doomed
Items == [mail : Mails, resolution : {"", "release", "delete"}]
Tasks == [op : {"none", "release", "delete"}, at : {"idle", "append", "learn", "resolve"},
          id : Nat, mail : Mails \cup {"none"}]
HeldTyped ==
  /\ issued \in Nat /\ issued <= MaxHeld
  /\ copies \in [1..MaxHeld -> Nat]
  /\ DOMAIN held \subseteq 1..issued
  /\ held \in [DOMAIN held -> Items]
  /\ judged = Nothing \/ judged.mail \in Mails
  /\ clerk \in [Clerks -> Tasks]
ClosedForReason ==
  \A id \in DOMAIN held : held[id].resolution = "" \/ Excused(id, held[id].resolution)
Careful(q) ==
  /\ clerk[q].at # "idle" => clerk[q].id \in 1..issued
  /\ clerk[q].at = "append" => clerk[q].op = "release"
  /\ clerk[q].at \in {"learn", "resolve"} => Excused(clerk[q].id, clerk[q].op)
ClerksCareful == \A q \in Clerks : Careful(q)
QuarantineInv ==
  /\ HeldTyped
  /\ ClosedForReason
  /\ ClerksCareful
  /\ HeldIsNotLost

LEMMA QuarantineStart == ScreeningInit => QuarantineInv
<1> SUFFICES ASSUME ScreeningInit PROVE QuarantineInv
  OBVIOUS
<1>1. DOMAIN held = {} /\ issued = 0
  BY DEF ScreeningInit
<1>2. HeldTyped
  <2>1. held \in [DOMAIN held -> Items]
    BY DEF ScreeningInit
  <2>2. copies \in [1..MaxHeld -> Nat] /\ judged = Nothing
    BY DEF ScreeningInit
  <2>3. clerk \in [Clerks -> Tasks]
    BY DEF ScreeningInit, NoRequest, Tasks
  <2> QED
    BY <1>1, <2>1, <2>2, <2>3, ScreeningAssumption DEF HeldTyped
<1>3. ClosedForReason /\ HeldIsNotLost
  BY <1>1 DEF ClosedForReason, HeldIsNotLost
<1>4. ClerksCareful
  BY DEF ScreeningInit, NoRequest, ClerksCareful, Careful
<1> QED
  BY <1>2, <1>3, <1>4 DEF QuarantineInv

\* A step that changes neither items nor requests is one like Judge.
LEMMA QuarantineRests ==
  ASSUME QuarantineInv, UNCHANGED <<held, clerk, issued, copies, doomed>>,
         judged' = Nothing \/ judged'.mail \in Mails
  PROVE  QuarantineInv'
BY DEF QuarantineInv, HeldTyped, ClosedForReason, ClerksCareful, Careful, HeldIsNotLost, Excused

\* A request that does not move stays careful: copies and doomed only grow.
LEMMA CarefulStays ==
  ASSUME NEW q, Careful(q), clerk'[q] = clerk[q], 1..issued \subseteq 1..issued',
         \A id : copies[id] > 0 => copies'[id] > 0, doomed \subseteq doomed'
  PROVE  Careful(q)'
BY DEF Careful, Excused

LEMMA FileKeeps == ASSUME QuarantineInv, File PROVE QuarantineInv'
<1>1. judged' = Nothing /\ UNCHANGED <<clerk, copies, doomed>> /\ judged.mail \in Mails
  BY DEF File, QuarantineInv, HeldTyped
<1>2. CASE UNCHANGED <<held, issued>>
  BY <1>1, <1>2, QuarantineRests
<1>3. CASE /\ issued < MaxHeld
           /\ issued' = issued + 1
           /\ held' = [i \in DOMAIN held \cup {issued'} |->
                         IF i = issued' THEN [mail |-> judged.mail, resolution |-> ""] ELSE held[i]]
  <2> DEFINE new == [mail |-> judged.mail, resolution |-> ""]
             row(i) == IF i = issued' THEN new ELSE held[i]
  <2>1. /\ issued \in Nat /\ DOMAIN held \subseteq 1..issued /\ issued < MaxHeld
        /\ issued' = issued + 1
        /\ held' = [i \in DOMAIN held \cup {issued'} |-> row(i)]
    <3> HIDE DEF row
    <3>1. issued \in Nat /\ DOMAIN held \subseteq 1..issued
      BY DEF QuarantineInv, HeldTyped
    <3>2. issued < MaxHeld /\ issued' = issued + 1
      BY <1>3
    <3> USE DEF row
    <3>3. held' = [i \in DOMAIN held \cup {issued'} |-> row(i)]
      BY <1>3
    <3> QED
      BY <3>1, <3>2, <3>3
  <2>2. new \in Items /\ new.resolution = ""
    BY <1>1 DEF Items
  <2>3. \A i \in DOMAIN held : held[i] \in Items
    BY DEF QuarantineInv, HeldTyped
  <2> HIDE DEF new
  <2>4. 1..issued' = 1..issued \cup {issued'} /\ issued' \notin DOMAIN held
    BY <2>1
  <2>5. \A i \in DOMAIN held \cup {issued'} : row(i) \in Items
    BY <2>2, <2>3
  <2>6. row(issued') = new /\ \A i \in DOMAIN held : row(i) = held[i]
    BY <2>4
  <2> HIDE DEF row
  <2>7. /\ DOMAIN held' = DOMAIN held \cup {issued'}
        /\ held'[issued'] = new
        /\ \A i \in DOMAIN held : held'[i] = held[i]
        /\ held' \in [DOMAIN held' -> Items]
    BY <2>1, <2>5, <2>6
  <2>8. HeldTyped'
    <3>1. held' \in [DOMAIN held' -> Items]
      BY <2>7
    <3>2. issued' \in Nat /\ issued' <= MaxHeld /\ DOMAIN held' \subseteq 1..issued'
      BY <2>1, <2>4, <2>7, ScreeningAssumption
    <3>3. copies' \in [1..MaxHeld -> Nat] /\ judged' = Nothing
      BY <1>1 DEF QuarantineInv, HeldTyped
    <3>4. clerk' \in [Clerks -> Tasks]
      BY <1>1 DEF QuarantineInv, HeldTyped
    <3> QED
      BY <3>1, <3>2, <3>3, <3>4 DEF HeldTyped
  <2>9. ClosedForReason'
    <3>1. ClosedForReason
      BY DEF QuarantineInv
    <3> QED
      BY <1>1, <2>2, <2>7, <3>1 DEF ClosedForReason, Excused
  <2>10. ClerksCareful'
    <3>1. 1..issued \subseteq 1..issued'
      BY <2>4
    <3> QED
      BY <1>1, <3>1, CarefulStays DEF QuarantineInv, ClerksCareful
  <2>11. HeldIsNotLost'
    <3>1. HeldIsNotLost
      BY DEF QuarantineInv
    <3> QED
      BY <1>1, <2>2, <2>4, <2>7, <3>1 DEF HeldIsNotLost
  <2> QED
    BY <2>8, <2>9, <2>10, <2>11 DEF QuarantineInv
<1> QED
  BY <1>2, <1>3 DEF File

LEMMA OpenKeeps ==
  ASSUME QuarantineInv, NEW q \in Clerks, NEW op \in {"release", "delete"}, NEW id,
         Open(q, op, id)
  PROVE  QuarantineInv'
<1> DEFINE new == [op |-> op, at |-> IF op = "release" THEN "append" ELSE "learn",
                   id |-> id, mail |-> held[id].mail]
<1>1. /\ UNCHANGED <<judged, held, issued, copies>>
      /\ clerk' = [clerk EXCEPT ![q] = new]
      /\ doomed' = IF op = "delete" THEN doomed \cup {id} ELSE doomed
      /\ id \in DOMAIN held
  BY DEF Open
<1>2. id \in 1..issued /\ issued \in Nat
  BY <1>1, ScreeningAssumption DEF QuarantineInv, HeldTyped
<1>3. HeldTyped'
  <2>1. held[id].mail \in Mails
    BY <1>1 DEF QuarantineInv, HeldTyped, Items
  <2>2. new \in Tasks
    BY <1>2, <2>1 DEF Tasks
  <2> HIDE DEF new
  <2>3. clerk' \in [Clerks -> Tasks]
    BY <1>1, <2>2 DEF QuarantineInv, HeldTyped
  <2> QED
    BY <1>1, <2>3 DEF QuarantineInv, HeldTyped
<1>4. ClosedForReason' /\ HeldIsNotLost'
  BY <1>1 DEF QuarantineInv, ClosedForReason, Excused, HeldIsNotLost
<1>5. ClerksCareful'
  <2>1. clerk'[q] = new /\ \A p \in Clerks \ {q} : clerk'[p] = clerk[p]
    BY <1>1 DEF QuarantineInv, HeldTyped
  <2>2. /\ new.at \in {"append", "learn"} /\ new.id = id /\ new.op = op
        /\ new.at = "append" => op = "release"
    OBVIOUS
  <2>3. new.at = "learn" => Excused(id, op)'
    BY <1>1 DEF Excused
  <2> HIDE DEF new
  <2> SUFFICES ASSUME NEW p \in Clerks
               PROVE  Careful(p)'
    BY DEF ClerksCareful
  <2>5. CASE p = q
    BY <1>1, <1>2, <2>1, <2>2, <2>3, <2>5 DEF Careful
  <2>6. CASE p # q
    <3>1. Careful(p) /\ clerk'[p] = clerk[p]
      BY <2>1, <2>6 DEF QuarantineInv, ClerksCareful
    <3> QED
      BY <1>1, <3>1, CarefulStays
  <2> QED
    BY <2>5, <2>6
<1> QED
  BY <1>3, <1>4, <1>5 DEF QuarantineInv

\* A request moves on, or is dismissed; the items stay as they are.
LEMMA RequestMoves ==
  ASSUME QuarantineInv, NEW q \in Clerks, NEW task \in Tasks,
         clerk' = [clerk EXCEPT ![q] = task],
         task.at # "append",
         task.at # "idle" => task.id = clerk[q].id /\ clerk[q].at # "idle",
         task.at \in {"learn", "resolve"} => Excused(task.id, task.op)',
         \A id : copies[id] > 0 => copies'[id] > 0, copies' \in [1..MaxHeld -> Nat],
         UNCHANGED <<judged, issued, doomed>>
  PROVE  /\ clerk' \in [Clerks -> Tasks]
         /\ ClerksCareful'
<1>1. clerk' \in [Clerks -> Tasks] /\ clerk'[q] = task
  BY DEF QuarantineInv, HeldTyped
<1>2. \A p \in Clerks \ {q} : clerk'[p] = clerk[p]
  BY DEF QuarantineInv, HeldTyped
<1>3. Careful(q)'
  <2>1. clerk[q].at # "idle" => clerk[q].id \in 1..issued
    BY DEF QuarantineInv, ClerksCareful, Careful
  <2> QED
    BY <1>1, <2>1 DEF Careful, Excused
<1>4. \A p \in Clerks \ {q} : Careful(p)'
  <2>1. \A p \in Clerks : Careful(p)
    BY DEF QuarantineInv, ClerksCareful
  <2> QED
    BY <1>2, <2>1 DEF Careful, Excused
<1> QED
  BY <1>1, <1>3, <1>4 DEF ClerksCareful

LEMMA ItemsRest ==
  ASSUME QuarantineInv, UNCHANGED <<judged, held, issued, doomed>>,
         copies' \in [1..MaxHeld -> Nat],
         \A id : copies[id] > 0 => copies'[id] > 0,
         clerk' \in [Clerks -> Tasks], ClerksCareful'
  PROVE  QuarantineInv'
<1>1. HeldTyped'
  BY DEF QuarantineInv, HeldTyped
<1>2. ClosedForReason'
  BY DEF QuarantineInv, ClosedForReason, Excused
<1>3. HeldIsNotLost'
  BY DEF QuarantineInv, HeldIsNotLost
<1> QED
  BY <1>1, <1>2, <1>3 DEF QuarantineInv

LEMMA GiveUpKeeps == ASSUME QuarantineInv, NEW q \in Clerks, GiveUp(q) PROVE QuarantineInv'
<1>1. /\ clerk' = [clerk EXCEPT ![q] = NoRequest]
      /\ UNCHANGED <<judged, held, issued, copies, doomed>>
  BY DEF GiveUp, Dismiss
<1>2. NoRequest \in Tasks /\ NoRequest.at = "idle"
  BY DEF NoRequest, Tasks
<1>3. copies' \in [1..MaxHeld -> Nat]
  BY <1>1 DEF QuarantineInv, HeldTyped
<1>4. clerk' \in [Clerks -> Tasks] /\ ClerksCareful'
  BY <1>1, <1>2, <1>3, RequestMoves
<1> QED
  BY <1>1, <1>3, <1>4, ItemsRest

LEMMA AppendKeeps == ASSUME QuarantineInv, NEW q \in Clerks, AppendReleased(q) PROVE QuarantineInv'
<1>1. /\ clerk[q].at = "append"
      /\ copies' = [copies EXCEPT ![clerk[q].id] = @ + 1]
      /\ clerk' = [clerk EXCEPT ![q] = [clerk[q] EXCEPT !.at = "learn"]]
      /\ UNCHANGED <<judged, held, issued, doomed>>
  BY DEF AppendReleased, Follow
<1>2. clerk[q] \in Tasks /\ clerk[q].id \in 1..MaxHeld
  BY <1>1, ScreeningAssumption DEF QuarantineInv, HeldTyped, ClerksCareful, Careful
<1>3. /\ copies' \in [1..MaxHeld -> Nat]
      /\ \A id : copies[id] > 0 => copies'[id] > 0
      /\ copies'[clerk[q].id] > 0
  BY <1>1, <1>2 DEF QuarantineInv, HeldTyped
<1>4. PICK task \in Tasks : task = [clerk[q] EXCEPT !.at = "learn"]
  BY <1>2 DEF Tasks
<1>5. task.at = "learn" /\ task.id = clerk[q].id /\ task.op = "release"
  BY <1>1, <1>2, <1>4 DEF QuarantineInv, ClerksCareful, Careful, Tasks
<1>6. Excused(task.id, task.op)'
  BY <1>3, <1>5 DEF Excused
<1>7. clerk' \in [Clerks -> Tasks] /\ ClerksCareful'
  BY <1>1, <1>3, <1>4, <1>5, <1>6, RequestMoves
<1> QED
  BY <1>1, <1>3, <1>7, ItemsRest

LEMMA LearnKeeps == ASSUME QuarantineInv, NEW q \in Clerks, LearnSignals(q) PROVE QuarantineInv'
<1>1. /\ clerk[q].at = "learn"
      /\ clerk' = [clerk EXCEPT ![q] = [clerk[q] EXCEPT !.at = "resolve"]]
      /\ UNCHANGED <<judged, held, issued, copies, doomed>>
  BY DEF LearnSignals, Follow
<1>2. clerk[q] \in Tasks /\ copies' \in [1..MaxHeld -> Nat]
  BY <1>1 DEF QuarantineInv, HeldTyped
<1>3. PICK task \in Tasks : task = [clerk[q] EXCEPT !.at = "resolve"]
  BY <1>2 DEF Tasks
<1>4. task.at = "resolve" /\ task.id = clerk[q].id /\ task.op = clerk[q].op
  BY <1>2, <1>3 DEF Tasks
<1>5. Excused(clerk[q].id, clerk[q].op)
  BY <1>1 DEF QuarantineInv, ClerksCareful, Careful
<1>6. Excused(task.id, task.op)'
  BY <1>1, <1>4, <1>5 DEF Excused
<1>7. clerk' \in [Clerks -> Tasks] /\ ClerksCareful'
  BY <1>1, <1>2, <1>3, <1>4, <1>6, RequestMoves
<1> QED
  BY <1>1, <1>2, <1>7, ItemsRest

LEMMA ResolveKeeps ==
  ASSUME QuarantineInv, NEW q \in Clerks, ResolveQuarantine(q) PROVE QuarantineInv'
<1> DEFINE closed(i) == [held[i] EXCEPT !.resolution = clerk[q].op]
           row(i) == IF i = clerk[q].id THEN closed(i) ELSE held[i]
<1>1. /\ clerk[q].at = "resolve"
      /\ held' = [i \in DOMAIN held |-> row(i)]
      /\ clerk' = [clerk EXCEPT ![q] = NoRequest]
      /\ UNCHANGED <<judged, issued, copies, doomed>>
  BY DEF ResolveQuarantine, Dismiss
<1>2. /\ Excused(clerk[q].id, clerk[q].op)
      /\ clerk[q].op \in {"release", "delete"}
  BY <1>1 DEF QuarantineInv, ClerksCareful, Careful, Excused
<1>3. \A i \in DOMAIN held : held[i] \in Items
  BY DEF QuarantineInv, HeldTyped
<1>4. \A i \in DOMAIN held : closed(i) \in Items /\ closed(i).resolution = clerk[q].op
  BY <1>2, <1>3 DEF Items
<1> HIDE DEF closed
<1>5. /\ DOMAIN held' = DOMAIN held
      /\ \A i \in DOMAIN held : held'[i] = row(i)
      /\ held' \in [DOMAIN held' -> Items]
  BY <1>1, <1>3, <1>4
<1>6. HeldTyped' /\ ClerksCareful'
  <2>1. NoRequest \in Tasks /\ NoRequest.at = "idle"
    BY DEF NoRequest, Tasks
  <2>2. copies' \in [1..MaxHeld -> Nat]
    BY <1>1 DEF QuarantineInv, HeldTyped
  <2>3. clerk' \in [Clerks -> Tasks] /\ ClerksCareful'
    BY <1>1, <2>1, <2>2, RequestMoves
  <2> QED
    BY <1>1, <1>5, <2>2, <2>3 DEF QuarantineInv, HeldTyped
<1>7. ClosedForReason'
  BY <1>1, <1>2, <1>4, <1>5 DEF QuarantineInv, ClosedForReason, Excused
<1>8. HeldIsNotLost'
  BY <1>1, <1>2, <1>4, <1>5 DEF QuarantineInv, HeldIsNotLost, Excused
<1> QED
  BY <1>6, <1>7, <1>8 DEF QuarantineInv

LEMMA PurgeKeeps == ASSUME QuarantineInv, NEW id, Purge(id) PROVE QuarantineInv'
<1>1. /\ held' = [i \in DOMAIN held \ {id} |-> held[i]]
      /\ doomed' = doomed \cup {id}
      /\ UNCHANGED <<judged, clerk, issued, copies>>
  BY DEF Purge
<1>2. DOMAIN held' = DOMAIN held \ {id} /\ \A i \in DOMAIN held' : held'[i] = held[i]
  BY <1>1
<1>3. HeldTyped'
  <2>1. held' \in [DOMAIN held' -> Items]
    BY <1>1, <1>2 DEF QuarantineInv, HeldTyped
  <2> QED
    BY <1>1, <1>2, <2>1 DEF QuarantineInv, HeldTyped
<1>4. ClosedForReason'
  BY <1>1, <1>2 DEF QuarantineInv, ClosedForReason, Excused
<1>5. ClerksCareful'
  BY <1>1, CarefulStays DEF QuarantineInv, ClerksCareful
<1>6. HeldIsNotLost'
  BY <1>1, <1>2 DEF QuarantineInv, HeldIsNotLost
<1> QED
  BY <1>3, <1>4, <1>5, <1>6 DEF QuarantineInv

LEMMA QuarantineStep ==
  ASSUME QuarantineInv, [ScreeningNext]_screenVars
  PROVE  QuarantineInv'
<1>1. ASSUME NEW m \in Mails, Judge(m)
      PROVE  QuarantineInv'
  <2>1. UNCHANGED <<held, clerk, issued, copies, doomed>> /\ judged'.mail \in Mails
    BY <1>1 DEF Judge
  <2> QED
    BY <2>1, QuarantineRests
<1>2. CASE SetConfig \/ PutFilters \/ UNCHANGED screenVars
  <2>1. UNCHANGED <<judged, held, clerk, issued, copies, doomed>>
    BY <1>2 DEF SetConfig, PutFilters, screenVars
  <2> QED
    BY <2>1, QuarantineRests DEF QuarantineInv, HeldTyped
<1> QED
  BY <1>1, <1>2, FileKeeps, OpenKeeps, GiveUpKeeps, AppendKeeps, LearnKeeps, ResolveKeeps,
     PurgeKeeps DEF ScreeningNext

\* However requests for one item overlap with each other and with the purge,
\* and whichever statement of one fails, a message that was put in quarantine
\* is still held, or was delivered, or somebody chose to delete it, or it grew
\* too old (releaseQuarantine, deleteQuarantine, PurgeQuarantineOlderThan).
THEOREM NoItemLost == ScreeningSpec => []HeldIsNotLost
<1>1. QuarantineInv => HeldIsNotLost
  BY DEF QuarantineInv
<1> QED
  BY <1>1, QuarantineStart, QuarantineStep, PTL DEF ScreeningSpec

-----------------------------------------------------------------------------
(* The verdict.                                                            *)

Actions == {"deliver", "flag", "quarantine", "reject"}
Limits == [reject : Nat, quarantine : Nat, flag : Nat]

\* The verdict that Process is at follows from the message's own score, the
\* thresholds of that time, and what was learned, which counts for 4 points.
Justified ==
  /\ judged.mail \in Mails
  /\ judged.learned \in -8..8
  /\ judged.limits \in Limits
  /\ LET spam == Action(OwnScore(judged.mail) + judged.learned, judged.limits)
     IN \/ judged.action = spam
        \/ /\ spam # "reject"
           /\ Attachments(judged.mail) \in {"quarantine", "reject"}
           /\ judged.action = Attachments(judged.mail)

VerdictInv ==
  /\ weights \in [Keys -> Int]
  /\ thresholds \in Limits
  /\ rules \in RuleLists
  /\ mishaps \in Nat /\ mishaps <= MaxMishaps
  /\ tunings \in Nat /\ tunings <= MaxTunings
  /\ judged = Nothing \/ Justified

\* Scores are numbers, whatever signs a message has and whatever was learned.
LEMMA OwnScoreInt == ASSUME NEW m \in Mails PROVE OwnScore(m) \in Int
<1>1. /\ m.signs \subseteq DOMAIN SignScore /\ IsFiniteSet(m.signs)
      /\ m.spf \in {"none", "pass", "softfail", "fail"} /\ m.dkim \in {"none", "pass", "fail"}
  BY ScreeningAssumption
<1>2. \A x \in m.signs : SignScore[x] \in Int
  <2>1. \A x \in DOMAIN SignScore : SignScore[x] \in Int
    BY DEF SignScore
  <2> QED
    BY <1>1, <2>1
<1>3. SumFunctionOnSet(SignScore, m.signs) \in Int
  BY <1>1, <1>2, SumIsInt
<1>4. SpfScore[m.spf] \in Int /\ DkimScore[m.dkim] \in Int
  BY <1>1 DEF SpfScore, DkimScore
<1> QED
  BY <1>3, <1>4 DEF OwnScore

LEMMA LearnedBounded ==
  ASSUME weights \in [Keys -> Int], NEW m \in Mails
  PROVE  Learned(m) \in -8..8
<1>1. m.looked \subseteq Keys /\ IsFiniteSet(m.looked)
  BY ScreeningAssumption DEF Keys
<1>2. PICK w : w = weights
  OBVIOUS
<1>3. \A x \in m.looked : w[x] \in Int
  BY <1>1, <1>2
<1>4. SumFunctionOnSet(w, m.looked) \in Int
  BY <1>1, <1>3, SumIsInt
<1>5. PICK n \in Int : n = SumFunctionOnSet(w, m.looked)
  BY <1>4
<1>6. Between(-8, n, 8) \in -8..8
  BY DEF Between
<1> QED
  BY <1>2, <1>5, <1>6 DEF Learned

LEMMA VerdictStart == ScreeningInit => VerdictInv
<1> SUFFICES ASSUME ScreeningInit PROVE VerdictInv
  OBVIOUS
<1>1. thresholds = [reject |-> 20, quarantine |-> 10, flag |-> 6]
  BY DEF ScreeningInit, Effective
<1> QED
  BY <1>1, ScreeningAssumption DEF ScreeningInit, VerdictInv, Limits

LEMMA JudgeJustified ==
  ASSUME VerdictInv, NEW m \in Mails, Judge(m)
  PROVE  Justified'
<1>1. PICK learned \in {Learned(m), 0}, scan \in {Attachments(m), "clean"} :
        LET spam == Action(OwnScore(m) + learned, thresholds)
        IN judged' = [mail |-> m, learned |-> learned, limits |-> thresholds,
                      action |-> IF spam = "reject" \/ scan = "clean" THEN spam ELSE scan]
  BY DEF Judge
<1>2. learned \in -8..8
  BY LearnedBounded DEF VerdictInv
<1>3. PICK spam : spam = Action(OwnScore(m) + learned, thresholds)
  OBVIOUS
<1>4. /\ judged'.mail = m /\ judged'.learned = learned /\ judged'.limits = thresholds
      /\ judged'.action = IF spam = "reject" \/ scan = "clean" THEN spam ELSE scan
  BY <1>1, <1>3
<1>5. Attachments(m) \in {"clean", "quarantine", "reject"}
  BY DEF Attachments
<1>6. thresholds \in Limits
  BY DEF VerdictInv
<1>7. Action(OwnScore(judged'.mail) + judged'.learned, judged'.limits) = spam
  BY <1>3, <1>4
<1>8. \/ judged'.action = spam
      \/ /\ spam # "reject" /\ Attachments(judged'.mail) \in {"quarantine", "reject"}
         /\ judged'.action = Attachments(judged'.mail)
  BY <1>4, <1>5
<1> QED
  BY <1>2, <1>4, <1>6, <1>7, <1>8 DEF Justified

LEMMA EffectiveLimits == ASSUME NEW s \in Settings PROVE Effective(s) \in Limits
<1>1. s.reject \in Int /\ s.quarantine \in Int /\ s.flag \in Int
  BY ScreeningAssumption
<1> QED
  BY <1>1 DEF Effective, Limits

LEMMA VerdictStep ==
  ASSUME VerdictInv, [ScreeningNext]_screenVars
  PROVE  VerdictInv'
<1>r. ASSUME UNCHANGED <<thresholds, rules, tunings, judged>>, mishaps' = mishaps \/ Mishap,
             weights' \in [Keys -> Int]
      PROVE  VerdictInv'
  BY <1>r, ScreeningAssumption DEF VerdictInv, Justified, Mishap
<1>1. ASSUME NEW m \in Mails, Judge(m)
      PROVE  VerdictInv'
  <2>1. Justified'
    BY <1>1, JudgeJustified
  <2>2. UNCHANGED <<thresholds, rules, tunings, weights>> /\ (mishaps' = mishaps \/ Mishap)
    BY <1>1 DEF Judge, policy
  <2> QED
    BY <2>1, <2>2, ScreeningAssumption DEF VerdictInv, Mishap
<1>2. CASE File
  BY <1>2 DEF File, policy, VerdictInv
<1>3. CASE SetConfig
  <2>1. PICK s \in Settings : thresholds' = Effective(s)
    BY <1>3 DEF SetConfig
  <2>2. thresholds' \in Limits
    BY <2>1, EffectiveLimits
  <2>3. UNCHANGED <<rules, weights, judged, mishaps>> /\ Tuning
    BY <1>3 DEF SetConfig
  <2> QED
    BY <2>2, <2>3, ScreeningAssumption DEF VerdictInv, Tuning, Justified
<1>4. CASE PutFilters
  <2>1. rules' \in RuleLists /\ UNCHANGED <<thresholds, weights, judged, mishaps>> /\ Tuning
    BY <1>4 DEF PutFilters
  <2> QED
    BY <2>1, ScreeningAssumption DEF VerdictInv, Tuning, Justified
<1>5. ASSUME NEW q \in Clerks, LearnSignals(q)
      PROVE  VerdictInv'
  <2>1. PICK delta \in {-1, 1} : Learn(clerk[q].mail, delta)
    BY <1>5 DEF LearnSignals
  <2>2. weights' \in [Keys -> Int]
    BY <2>1 DEF Learn, VerdictInv
  <2> QED
    BY <1>5, <1>r, <2>2 DEF LearnSignals, policy
<1>6. ASSUME NEW q \in Clerks, NEW id, NEW op, Open(q, op, id)
      PROVE  VerdictInv'
  BY <1>6, <1>r DEF Open, policy, VerdictInv
<1>7. ASSUME NEW q \in Clerks, GiveUp(q) \/ AppendReleased(q) \/ ResolveQuarantine(q)
      PROVE  VerdictInv'
  BY <1>7, <1>r DEF GiveUp, AppendReleased, ResolveQuarantine, policy, VerdictInv
<1>8. ASSUME NEW id, Purge(id)
      PROVE  VerdictInv'
  BY <1>8, <1>r DEF Purge, policy, VerdictInv
<1>9. CASE UNCHANGED screenVars
  BY <1>9, <1>r DEF screenVars, VerdictInv
<1> QED
  BY <1>1, <1>2, <1>3, <1>4, <1>5, <1>6, <1>7, <1>8, <1>9 DEF ScreeningNext

\* However much is deleted from or released of the quarantine, and however the
\* thresholds are changed meanwhile: what the engine learned from that does
\* not decide alone (SpamSignalScore, which clamps it, and Check).
THEOREM LearningDoesNotDecide == ScreeningSpec => []FeedbackAloneDoesNotDecide
<1>1. VerdictInv => FeedbackAloneDoesNotDecide
  <2> SUFFICES ASSUME judged # Nothing, Justified
               PROVE  FeedbackAloneDoesNotDecide
    BY DEF VerdictInv, FeedbackAloneDoesNotDecide
  <2>1. PICK own \in Int : own = OwnScore(judged.mail)
    BY OwnScoreInt DEF Justified
  <2>2. PICK limits \in Limits : limits = judged.limits
    BY DEF Justified
  <2>3. PICK learned \in -8..8 : learned = judged.learned
    BY DEF Justified
  <2>4. PICK spam : spam = Action(own + learned, limits)
    OBVIOUS
  <2>5. \/ judged.action = spam
        \/ /\ spam # "reject" /\ Attachments(judged.mail) # "clean"
           /\ judged.action = Attachments(judged.mail)
    BY <2>1, <2>2, <2>3, <2>4 DEF Justified
  <2>6. ASSUME own <= 0, limits.quarantine > 8, limits.reject > 8
        PROVE  spam \in {"deliver", "flag"}
    BY <2>4, <2>6 DEF Action, Limits
  <2>7. ASSUME own >= limits.reject + 8
        PROVE  spam = "reject"
    BY <2>4, <2>7 DEF Action, Limits
  <2> QED
    BY <2>1, <2>2, <2>5, <2>6, <2>7 DEF FeedbackAloneDoesNotDecide
<1> QED
  BY <1>1, VerdictStart, VerdictStep, PTL DEF ScreeningSpec

-----------------------------------------------------------------------------
(* The types of Screening.                                                 *)

DoomedKnown == doomed \subseteq 1..issued

LEMMA DoomedStep ==
  ASSUME QuarantineInv, DoomedKnown, [ScreeningNext]_screenVars
  PROVE  DoomedKnown'
<1>1. DOMAIN held \subseteq 1..issued /\ issued \in Nat
  BY DEF QuarantineInv, HeldTyped
<1>2. CASE UNCHANGED <<doomed, issued>>
  BY <1>2 DEF DoomedKnown
<1>3. CASE File
  <2>1. doomed' = doomed /\ (issued' = issued \/ issued' = issued + 1)
    BY <1>3 DEF File
  <2> QED
    BY <1>1, <2>1 DEF DoomedKnown
<1>4. ASSUME NEW q, NEW id, NEW op, Open(q, op, id)
      PROVE  DoomedKnown'
  <2>1. id \in DOMAIN held /\ (doomed' = doomed \/ doomed' = doomed \cup {id}) /\ issued' = issued
    BY <1>4 DEF Open
  <2> QED
    BY <1>1, <2>1 DEF DoomedKnown
<1>5. ASSUME NEW id, Purge(id)
      PROVE  DoomedKnown'
  <2>1. id \in DOMAIN held /\ doomed' = doomed \cup {id} /\ issued' = issued
    BY <1>5 DEF Purge
  <2> QED
    BY <1>1, <2>1 DEF DoomedKnown
<1>6. ASSUME NEW m, Judge(m)
      PROVE  DoomedKnown'
  BY <1>6, <1>2 DEF Judge
<1>7. ASSUME NEW q, GiveUp(q) \/ AppendReleased(q) \/ LearnSignals(q) \/ ResolveQuarantine(q)
      PROVE  DoomedKnown'
  BY <1>7, <1>2 DEF GiveUp, AppendReleased, LearnSignals, ResolveQuarantine
<1>8. CASE SetConfig \/ PutFilters \/ UNCHANGED screenVars
  BY <1>8, <1>2 DEF SetConfig, PutFilters, screenVars
<1> QED
  BY <1>3, <1>4, <1>5, <1>6, <1>7, <1>8 DEF ScreeningNext

\* Verdict, thresholds, rules, items and requests keep their types.
THEOREM ScreeningTypeCorrect == ScreeningSpec => []ScreeningTypeOK
<1>1. ScreeningInit => QuarantineInv /\ VerdictInv /\ DoomedKnown
  BY QuarantineStart, VerdictStart DEF ScreeningInit, DoomedKnown
<1>2. QuarantineInv /\ VerdictInv /\ DoomedKnown /\ [ScreeningNext]_screenVars
        => QuarantineInv' /\ VerdictInv' /\ DoomedKnown'
  BY QuarantineStep, VerdictStep, DoomedStep
<1>3. QuarantineInv /\ VerdictInv /\ DoomedKnown => ScreeningTypeOK
  <2> SUFFICES ASSUME QuarantineInv, VerdictInv, DoomedKnown PROVE ScreeningTypeOK
    OBVIOUS
  <2>1. \A id \in DOMAIN held : /\ id \in 1..issued
                                /\ held[id].mail \in Mails
                                /\ held[id].resolution \in {"", "release", "delete"}
    BY DEF QuarantineInv, HeldTyped, Items
  <2>2. judged.action \in {"none", "deliver", "flag", "quarantine", "reject"}
    <3>1. CASE judged = Nothing
      BY <3>1 DEF Nothing
    <3>2. CASE Justified
      BY <3>2 DEF Justified, Action
    <3> QED
      BY <3>1, <3>2 DEF VerdictInv
  <2>3. \A q \in Clerks : clerk[q].at \in {"idle", "append", "learn", "resolve"}
    BY DEF QuarantineInv, HeldTyped, Tasks
  <2>4. issued <= MaxHeld
    BY DEF QuarantineInv, HeldTyped
  <2> QED
    BY <2>1, <2>2, <2>3, <2>4 DEF VerdictInv, DoomedKnown, ScreeningTypeOK, Limits
<1> QED
  BY <1>1, <1>2, <1>3, PTL DEF ScreeningSpec

-----------------------------------------------------------------------------
(* Lists of times.                                                         *)

\* The times of a list that are later than u, and how many there are.
Later(s, u) == {i \in DOMAIN s : s[i] > u}
Count(s, u) == Cardinality(Later(s, u))
Upto(s, n, u) == Cardinality({i \in 1..n : s[i] > u})

\* A list of which all elements are in T is a list over T.
LEMMA SeqOver ==
  ASSUME NEW S, NEW T, NEW s \in Seq(S), \A i \in DOMAIN s : s[i] \in T
  PROVE  s \in Seq(T)
<1>1. Len(s) \in Nat /\ DOMAIN s = 1..Len(s) /\ s = [i \in 1..Len(s) |-> s[i]]
  OBVIOUS
<1>2. s \in [1..Len(s) -> T]
  BY <1>1
<1> QED
  BY <1>1, <1>2

LEMMA CountTyped ==
  ASSUME NEW s \in Seq(Int), NEW u
  PROVE  IsFiniteSet(Later(s, u)) /\ Count(s, u) \in Nat /\ Count(s, u) <= Len(s)
<1>1. DOMAIN s = 1..Len(s) /\ Len(s) \in Nat
  OBVIOUS
<1>2. IsFiniteSet(1..Len(s)) /\ Cardinality(1..Len(s)) = Len(s)
  BY <1>1, FS_Interval
<1>3. Later(s, u) \in SUBSET (1..Len(s))
  BY <1>1 DEF Later
<1>4. IsFiniteSet(Later(s, u)) /\ Cardinality(Later(s, u)) <= Len(s)
  BY <1>2, <1>3, FS_Subset
<1> QED
  BY <1>4, FS_CardinalityType DEF Count

LEMMA CountAppend ==
  ASSUME NEW s \in Seq(Int), NEW x \in Int, NEW u \in Int
  PROVE  Count(Append(s, x), u) = IF x > u THEN Count(s, u) + 1 ELSE Count(s, u)
<1> DEFINE last == Len(s) + 1
           r == Append(s, x)
<1>1. /\ DOMAIN s = 1..Len(s) /\ Len(s) \in Nat
      /\ DOMAIN r = 1..last /\ r[last] = x
      /\ \A i \in 1..Len(s) : r[i] = s[i]
  OBVIOUS
<1>2. 1..last = 1..Len(s) \cup {last} /\ last \notin 1..Len(s)
  BY <1>1
<1> HIDE DEF r, last
<1>3. Later(r, u) = IF x > u THEN Later(s, u) \cup {last} ELSE Later(s, u)
  BY <1>1, <1>2 DEF Later
<1>4. last \notin Later(s, u)
  BY <1>1, <1>2 DEF Later
<1>5. Cardinality(Later(s, u) \cup {last}) = Count(s, u) + 1
  BY <1>4, CountTyped, FS_AddElement DEF Count
<1>6. Count(r, u) = IF x > u THEN Count(s, u) + 1 ELSE Count(s, u)
  BY <1>3, <1>5 DEF Count
<1> QED
  BY <1>6 DEF r

LEMMA CountNone ==
  ASSUME NEW s \in Seq(Int), NEW u \in Int, \A i \in DOMAIN s : s[i] <= u
  PROVE  Count(s, u) = 0
<1>1. Later(s, u) = {}
  <2>1. \A i \in DOMAIN s : s[i] \in Int
    OBVIOUS
  <2> QED
    BY <2>1 DEF Later
<1> QED
  BY <1>1, FS_EmptySet DEF Count

LEMMA CountFewer ==
  ASSUME NEW s \in Seq(Int), NEW u \in Int, NEW v \in Int, u <= v
  PROVE  Count(s, v) <= Count(s, u)
<1>1. Later(s, v) \in SUBSET Later(s, u)
  <2>1. \A i \in DOMAIN s : s[i] \in Int
    OBVIOUS
  <2> QED
    BY <2>1 DEF Later
<1> QED
  BY <1>1, CountTyped, FS_Subset DEF Count

LEMMA CountAll ==
  ASSUME NEW s \in Seq(Int), NEW u \in Int, \A i \in DOMAIN s : s[i] > u
  PROVE  Count(s, u) = Len(s)
<1>1. DOMAIN s = 1..Len(s) /\ Len(s) \in Nat
  OBVIOUS
<1>2. Later(s, u) = 1..Len(s)
  BY <1>1 DEF Later
<1>3. Cardinality(1..Len(s)) = Len(s)
  BY <1>1, FS_Interval
<1> QED
  BY <1>2, <1>3 DEF Count

LEMMA UptoTyped ==
  ASSUME NEW s, NEW n \in Nat, NEW u
  PROVE  /\ Upto(s, n, u) \in Nat
         /\ Upto(s, n + 1, u) = IF s[n + 1] > u THEN Upto(s, n, u) + 1 ELSE Upto(s, n, u)
         /\ Upto(s, 0, u) = 0
<1> DEFINE L(k) == {i \in 1..k : s[i] > u}
<1>1. IsFiniteSet(1..n) /\ L(n) \in SUBSET (1..n)
  BY FS_Interval
<1>2. IsFiniteSet(L(n)) /\ Cardinality(L(n)) \in Nat
  BY <1>1, FS_Subset, FS_CardinalityType
<1>3. 1..(n + 1) = 1..n \cup {n + 1} /\ n + 1 \notin 1..n
  OBVIOUS
<1>4. L(n + 1) = IF s[n + 1] > u THEN L(n) \cup {n + 1} ELSE L(n)
  BY <1>3
<1>5. n + 1 \notin L(n)
  BY <1>3
<1>6. L(0) = {}
  OBVIOUS
<1>7. Upto(s, n, u) = Cardinality(L(n)) /\ Upto(s, n + 1, u) = Cardinality(L(n + 1))
      /\ Upto(s, 0, u) = Cardinality(L(0))
  BY DEF Upto
<1> HIDE DEF L
<1>8. Cardinality(L(n) \cup {n + 1}) = Cardinality(L(n)) + 1
  BY <1>2, <1>5, FS_AddElement
<1> QED
  BY <1>2, <1>4, <1>6, <1>7, <1>8, FS_EmptySet

\* The recursion of Recent, as an equation.
Keeps(f, s, c, n) ==
  f = [k \in 0..n |-> IF k = 0 THEN <<>>
                      ELSE IF s[k] > c THEN Append(f[k - 1], s[k]) ELSE f[k - 1]]

\* It has a solution.
LEMMA KeepsExists ==
  ASSUME NEW s, NEW c
  PROVE  \A n \in Nat : \E f : Keeps(f, s, c, n)
<1> DEFINE P == {n \in Nat : \E f : Keeps(f, s, c, n)}
<1>1. 0 \in P
  <2> DEFINE f == [k \in 0..0 |-> <<>>]
  <2>1. Keeps(f, s, c, 0)
    <3>1. \A k \in 0..0 : k = 0
      OBVIOUS
    <3> QED
      BY <3>1 DEF Keeps
  <2> QED
    BY <2>1
<1>2. ASSUME NEW n \in P PROVE n + 1 \in P
  <2>1. PICK f : Keeps(f, s, c, n)
    BY <1>2
  <2> DEFINE g == [k \in 0..(n + 1) |->
                     IF k = 0 THEN <<>>
                     ELSE IF s[k] > c THEN Append(f[k - 1], s[k]) ELSE f[k - 1]]
  <2>2. \A k \in 0..n : k \in 0..(n + 1) /\ g[k] = f[k]
    <3> SUFFICES ASSUME NEW k \in 0..n PROVE k \in 0..(n + 1) /\ g[k] = f[k]
      OBVIOUS
    <3>1. n \in Nat /\ k \in 0..(n + 1)
      OBVIOUS
    <3>2. f[k] = IF k = 0 THEN <<>>
                 ELSE IF s[k] > c THEN Append(f[k - 1], s[k]) ELSE f[k - 1]
      BY <2>1 DEF Keeps
    <3>3. g[k] = IF k = 0 THEN <<>>
                 ELSE IF s[k] > c THEN Append(f[k - 1], s[k]) ELSE f[k - 1]
      BY <3>1
    <3> QED
      BY <3>1, <3>2, <3>3
  <2>3. \A k \in 0..(n + 1) : k # 0 => k - 1 \in 0..n
    OBVIOUS
  <2>4. \A k \in 0..(n + 1) :
           g[k] = IF k = 0 THEN <<>>
                  ELSE IF s[k] > c THEN Append(g[k - 1], s[k]) ELSE g[k - 1]
    BY <2>2, <2>3
  <2>5. g = [k \in 0..(n + 1) |-> g[k]]
    OBVIOUS
  <2> HIDE DEF g
  <2>6. Keeps(g, s, c, n + 1)
    BY <2>4, <2>5 DEF Keeps
  <2> QED
    BY <2>6
<1>3. P = Nat
  <2> HIDE DEF P
  <2>1. P \in SUBSET Nat
    BY DEF P
  <2> QED
    BY <1>1, <1>2, <2>1, SetInduction
<1> QED
  BY <1>3

\* What it computes: the times after c, as many as there are.
Right(r, s, c, n) ==
  /\ r \in Seq(Int)
  /\ \A i \in DOMAIN r : r[i] > c /\ \E j \in DOMAIN s : r[i] = s[j]
  /\ \A u \in Int : u >= c => Count(r, u) = Upto(s, n, u)

LEMMA KeepsLater ==
  ASSUME NEW s \in Seq(Int), NEW c \in Int, NEW f, Keeps(f, s, c, Len(s))
  PROVE  Right(f[Len(s)], s, c, Len(s))
<1> DEFINE P == {n \in Nat : n <= Len(s) => Right(f[n], s, c, n)}
<1>n. Len(s) \in Nat /\ DOMAIN s = 1..Len(s) /\ \A i \in 1..Len(s) : s[i] \in Int
  OBVIOUS
<1>1. Right(f[0], s, c, 0)
  <2>1. f[0] = <<>>
    <3>1. 0 \in 0..Len(s)
      BY <1>n
    <3> QED
      BY <3>1 DEF Keeps
  <2>2. <<>> \in Seq(Int) /\ DOMAIN <<>> = {}
    OBVIOUS
  <2>3. \A u \in Int : Count(<<>>, u) = 0
    BY <2>2, CountNone
  <2>4. \A u : Upto(s, 0, u) = 0
    BY UptoTyped
  <2> QED
    BY <2>1, <2>2, <2>3, <2>4 DEF Right
<1>2. ASSUME NEW n \in Nat, n + 1 <= Len(s), Right(f[n], s, c, n) PROVE Right(f[n + 1], s, c, n + 1)
  <2>1. n + 1 \in 0..Len(s) /\ n + 1 \in 1..Len(s) /\ (n + 1) - 1 = n /\ n + 1 # 0
    BY <1>2, <1>n
  <2>2. f[n + 1] = IF s[n + 1] > c THEN Append(f[n], s[n + 1]) ELSE f[n]
    BY <2>1 DEF Keeps
  <2>3. PICK x \in Int : x = s[n + 1]
    BY <1>n, <2>1
  <2>4. PICK r \in Seq(Int) : r = f[n]
    BY <1>2 DEF Right
  <2>6. \A u \in Int : Upto(s, n + 1, u) = IF x > u THEN Upto(s, n, u) + 1 ELSE Upto(s, n, u)
    BY <2>3, UptoTyped
  <2>7. /\ \A i \in DOMAIN r : r[i] > c /\ \E j \in DOMAIN s : r[i] = s[j]
        /\ \A u \in Int : u >= c => Count(r, u) = Upto(s, n, u)
    BY <1>2, <2>4 DEF Right
  <2>8. CASE x > c
    <3>1. f[n + 1] = Append(r, x)
      BY <2>2, <2>3, <2>4, <2>8
    <3>2. \A i \in DOMAIN Append(r, x) :
             Append(r, x)[i] > c /\ \E j \in DOMAIN s : Append(r, x)[i] = s[j]
      <4>1. /\ DOMAIN Append(r, x) = 1..(Len(r) + 1) /\ DOMAIN r = 1..Len(r) /\ Len(r) \in Nat
            /\ Append(r, x)[Len(r) + 1] = x
            /\ \A i \in 1..Len(r) : Append(r, x)[i] = r[i]
        OBVIOUS
      <4>2. 1..(Len(r) + 1) = 1..Len(r) \cup {Len(r) + 1}
        BY <4>1
      <4>3. x > c /\ \E j \in DOMAIN s : x = s[j]
        BY <1>n, <2>1, <2>3, <2>8
      <4> HIDE DEF P
      <4> QED
        BY <2>7, <4>1, <4>2, <4>3
    <3>4. Append(r, x) \in Seq(Int)
      OBVIOUS
    <3>3. \A u \in Int : u >= c => Count(Append(r, x), u) = Upto(s, n + 1, u)
      BY <2>6, <2>7, CountAppend
    <3> QED
      BY <3>1, <3>2, <3>3, <3>4 DEF Right
  <2>9. CASE ~(x > c)
    <3>1. f[n + 1] = r
      BY <2>2, <2>3, <2>4, <2>9
    <3>2. \A u \in Int : u >= c => Upto(s, n + 1, u) = Upto(s, n, u)
      BY <2>6, <2>9
    <3> QED
      BY <2>4, <2>7, <3>1, <3>2 DEF Right
  <2> QED
    BY <2>8, <2>9
<1>3. P = Nat
  <2>1. P \in SUBSET Nat /\ 0 \in P
    BY <1>1
  <2>2. \A n \in P : n + 1 \in P
    BY <1>2, <1>n
  <2> HIDE DEF P
  <2> QED
    BY <2>1, <2>2, SetInduction
<1>4. Len(s) \in P
  <2> HIDE DEF P
  <2> QED
    BY <1>3, <1>n
<1> QED
  BY <1>4, <1>n

\* Recent keeps the times within the window and drops the others.
LEMMA RecentIs ==
  ASSUME NEW s \in Seq(Int), NEW t \in Int
  PROVE  /\ Recent(s, t) \in Seq(Int)
         /\ \A i \in DOMAIN Recent(s, t) : \E j \in DOMAIN s : Recent(s, t)[i] = s[j]
         /\ \A u \in Int : u >= t - Window => Count(Recent(s, t), u) = Count(s, u)
         /\ Len(Recent(s, t)) = Count(s, t - Window)
<1> DEFINE f == CHOOSE f : Keeps(f, s, t - Window, Len(s))
<1>1. PICK c \in Int : c = t - Window
  BY SessionsAssumption
<1>2. Keeps(f, s, c, Len(s))
  <2>1. \E g : Keeps(g, s, c, Len(s))
    <3>1. Len(s) \in Nat
      OBVIOUS
    <3> QED
      BY <3>1, KeepsExists
  <2> QED
    BY <1>1, <2>1
<1>3. Recent(s, t) = f[Len(s)]
  BY DEF Recent, Keeps
<1> HIDE DEF f
<1>4. Right(f[Len(s)], s, c, Len(s))
  BY <1>2, KeepsLater
<1>5. \A u : Upto(s, Len(s), u) = Count(s, u)
  <2>1. DOMAIN s = 1..Len(s)
    OBVIOUS
  <2> QED
    BY <2>1 DEF Upto, Count, Later
<1>6. PICK r \in Seq(Int) : r = f[Len(s)]
  BY <1>4 DEF Right
<1>7. /\ \A i \in DOMAIN r : r[i] > c /\ \E j \in DOMAIN s : r[i] = s[j]
      /\ \A u \in Int : u >= c => Count(r, u) = Count(s, u)
  BY <1>4, <1>5, <1>6 DEF Right
<1>8. Count(r, c) = Len(r)
  BY <1>7, CountAll
<1> QED
  BY <1>1, <1>3, <1>6, <1>7, <1>8

-----------------------------------------------------------------------------
(* The guard against guessing, at one address.                             *)

Times(s, t) == s \in Seq(Int) /\ \A i \in DOMAIN s : s[i] \in 1..t

\* Since the last ban began, and within the window, the guard has counted
\* every guess; b is when the last ban ends.
Covers(g, a, b, t) ==
  \A u \in Int : u >= t - Window /\ u >= b - BanFor => Count(g, u) <= Count(a, u)

\* During a ban, no more guesses than were let through before it: n are under way.
Holds(g, b, t, n) ==
  b > t => Count(g, t - Window) + n <= Max + Cardinality(Logins) - 1

Fine(g, a, b, t, n) ==
  /\ Times(g, t) /\ Times(a, t) /\ b \in Int /\ t \in Nat \ {0} /\ n \in Nat
  /\ Len(a) < Max
  /\ Covers(g, a, b, t) /\ Holds(g, b, t, n)

LEMMA TimesRecent ==
  ASSUME NEW s, NEW t \in Nat, Times(s, t)
  PROVE  Times(Recent(s, t), t)
<1>1. \A j \in DOMAIN s : s[j] \in 1..t
  BY DEF Times
<1>2. s \in Seq(Int)
  BY DEF Times
<1>3. \A i \in DOMAIN Recent(s, t) : Recent(s, t)[i] \in 1..t
  BY <1>1, <1>2, RecentIs
<1> QED
  BY <1>2, <1>3, RecentIs DEF Times

LEMMA TimesAppend ==
  ASSUME NEW s, NEW t \in Nat \ {0}, Times(s, t)
  PROVE  Times(Append(s, t), t) /\ Len(Append(s, t)) = Len(s) + 1
<1>1. s \in Seq(Int) /\ t \in Int /\ t \in 1..t
  BY DEF Times
<1>2. /\ DOMAIN Append(s, t) = 1..(Len(s) + 1) /\ DOMAIN s = 1..Len(s) /\ Len(s) \in Nat
      /\ Append(s, t) \in Seq(Int) /\ Append(s, t)[Len(s) + 1] = t
      /\ Len(Append(s, t)) = Len(s) + 1
      /\ \A i \in 1..Len(s) : Append(s, t)[i] = s[i]
  BY <1>1
<1>3. \A i \in DOMAIN s : s[i] \in 1..t
  BY DEF Times
<1>4. 1..(Len(s) + 1) = 1..Len(s) \cup {Len(s) + 1}
  BY <1>2
<1>5. \A i \in DOMAIN Append(s, t) : Append(s, t)[i] \in 1..t
  BY <1>1, <1>2, <1>3, <1>4
<1> QED
  BY <1>2, <1>5 DEF Times

LEMMA NoTimes == Times(<<>>, 0) /\ \A t \in Nat : Times(<<>>, t) /\ \A u \in Int : Count(<<>>, u) = 0
<1>1. <<>> \in Seq(Int) /\ DOMAIN <<>> = {}
  OBVIOUS
<1>2. \A u \in Int : Count(<<>>, u) = 0
  BY <1>1, CountNone
<1> QED
  BY <1>1, <1>2 DEF Times

LEMMA NothingAfterNow ==
  ASSUME NEW s, NEW t \in Nat, Times(s, t), NEW u \in Int, u >= t
  PROVE  Count(s, u) = 0
<1>1. \A i \in DOMAIN s : s[i] <= u
  BY DEF Times
<1> QED
  BY <1>1, CountNone DEF Times

\* A login that succeeds, and a restart.
LEMMA FineAnew ==
  ASSUME NEW b \in Int, NEW t \in Nat \ {0}, NEW n \in Nat, b <= t \/ n <= Cardinality(Logins)
  PROVE  Fine(<<>>, <<>>, b, t, n)
<1>1. t - Window \in Int /\ t \in Nat /\ Max \in Nat \ {0} /\ Cardinality(Logins) \in Nat
  BY SessionsAssumption, FS_CardinalityType
<1>2. Times(<<>>, t) /\ \A u \in Int : Count(<<>>, u) = 0
  BY NoTimes
<1>3. Len(<<>>) = 0
  OBVIOUS
<1>4. Covers(<<>>, <<>>, b, t)
  BY <1>2 DEF Covers
<1>5. Holds(<<>>, b, t, n)
  BY <1>1, <1>2 DEF Holds
<1> QED
  BY <1>1, <1>2, <1>3, <1>4, <1>5 DEF Fine

\* Time passes.
LEMMA FineLater ==
  ASSUME NEW g, NEW a, NEW b, NEW t, NEW n, Fine(g, a, b, t, n)
  PROVE  Fine(g, a, b, t + 1, n)
<1>1. /\ Times(g, t) /\ Times(a, t) /\ b \in Int /\ t \in Nat \ {0} /\ n \in Nat
      /\ Len(a) < Max /\ Covers(g, a, b, t) /\ Holds(g, b, t, n)
  BY DEF Fine
<1>2. Window \in Nat /\ BanFor \in Nat /\ Max \in Nat /\ Cardinality(Logins) \in Nat
  BY SessionsAssumption, FS_CardinalityType
<1>3. Times(g, t + 1) /\ Times(a, t + 1)
  BY <1>1 DEF Times
<1>4. Covers(g, a, b, t + 1)
  BY <1>1, <1>2 DEF Covers
<1>5. Holds(g, b, t + 1, n)
  <2>1. g \in Seq(Int) /\ t - Window \in Int /\ (t + 1) - Window \in Int
        /\ t - Window <= (t + 1) - Window
    BY <1>1, <1>2 DEF Times
  <2>2. Count(g, (t + 1) - Window) <= Count(g, t - Window)
    BY <2>1, CountFewer
  <2>3. Count(g, (t + 1) - Window) \in Nat /\ Count(g, t - Window) \in Nat
    BY <2>1, CountTyped
  <2> QED
    BY <1>1, <1>2, <2>2, <2>3 DEF Holds
<1> QED
  BY <1>1, <1>3, <1>4, <1>5 DEF Fine

\* Fewer are under way.
LEMMA FineFewer ==
  ASSUME NEW g, NEW a, NEW b, NEW t, NEW n, NEW m \in Nat, Fine(g, a, b, t, n), m <= n
  PROVE  Fine(g, a, b, t, m)
<1>1. /\ Times(g, t) /\ Times(a, t) /\ b \in Int /\ t \in Nat \ {0} /\ n \in Nat
      /\ Len(a) < Max /\ Covers(g, a, b, t) /\ Holds(g, b, t, n)
  BY DEF Fine
<1>2. g \in Seq(Int) /\ t - Window \in Int /\ Max \in Nat /\ Cardinality(Logins) \in Nat
  BY <1>1, SessionsAssumption, FS_CardinalityType DEF Times
<1>3. Count(g, t - Window) \in Nat
  BY <1>2, CountTyped
<1>4. Holds(g, b, t, m)
  BY <1>1, <1>2, <1>3 DEF Holds
<1> QED
  BY <1>1, <1>4 DEF Fine

\* allow
LEMMA FineAllowed ==
  ASSUME NEW g, NEW a, NEW b, NEW t, NEW n, NEW m \in Nat,
         Fine(g, a, b, t, n), b <= t, Len(Recent(a, t)) < Max
  PROVE  Fine(g, Recent(a, t), 0, t, m)
<1>1. /\ Times(g, t) /\ Times(a, t) /\ b \in Int /\ t \in Nat \ {0}
      /\ Covers(g, a, b, t)
  BY DEF Fine
<1>2. Window \in Nat /\ BanFor \in Nat /\ BanFor >= Window
  BY SessionsAssumption
<1>3. Times(Recent(a, t), t)
  BY <1>1, TimesRecent
<1>4. Covers(g, Recent(a, t), 0, t)
  <2> SUFFICES ASSUME NEW u \in Int, u >= t - Window
               PROVE  Count(g, u) <= Count(Recent(a, t), u)
    BY DEF Covers
  <2>1. u >= b - BanFor
    BY <1>1, <1>2
  <2>2. Count(g, u) <= Count(a, u)
    BY <1>1, <2>1 DEF Covers
  <2>3. Count(Recent(a, t), u) = Count(a, u)
    BY <1>1, RecentIs DEF Times
  <2> QED
    BY <2>2, <2>3
<1>5. Holds(g, 0, t, m)
  BY <1>1 DEF Holds
<1> QED
  BY <1>1, <1>3, <1>4, <1>5 DEF Fine

\* fail
LEMMA FineFails ==
  ASSUME NEW g, NEW a, NEW b, NEW t, NEW n, Fine(g, a, b, t, n),
         n >= 1, n <= Cardinality(Logins)
  PROVE  LET times == Append(a, t)
             ban == Len(times) >= Max
         IN Fine(Append(Recent(g, t), t), IF ban THEN <<>> ELSE times,
                 IF ban THEN t + BanFor ELSE b, t, n - 1)
<1> DEFINE times == Append(a, t)
           h == Append(Recent(g, t), t)
           k == t - Window
<1>1. /\ Times(g, t) /\ Times(a, t) /\ b \in Int /\ t \in Nat \ {0} /\ n \in Nat /\ n - 1 \in Nat
      /\ Len(a) < Max /\ Covers(g, a, b, t) /\ Holds(g, b, t, n)
  BY DEF Fine
<1>2. Window \in Nat /\ BanFor \in Nat /\ BanFor >= Window
      /\ Max \in Nat /\ Cardinality(Logins) \in Nat
  BY SessionsAssumption, FS_CardinalityType
<1>3. t \in Nat /\ t \in Int /\ k \in Int
  BY <1>1, <1>2
<1>4. g \in Seq(Int) /\ a \in Seq(Int) /\ Recent(g, t) \in Seq(Int) /\ times \in Seq(Int) /\ h \in Seq(Int)
  BY <1>1, <1>3, RecentIs DEF Times
<1>5. Times(h, t) /\ Times(times, t) /\ Len(times) = Len(a) + 1
  BY <1>1, <1>3, TimesRecent, TimesAppend
<1>6. \A u \in Int : u >= k => Count(h, u) = IF t > u THEN Count(g, u) + 1 ELSE Count(g, u)
  <2> SUFFICES ASSUME NEW u \in Int, u >= k
               PROVE  Count(h, u) = IF t > u THEN Count(g, u) + 1 ELSE Count(g, u)
    OBVIOUS
  <2>1. PICK r \in Seq(Int) : r = Recent(g, t)
    BY <1>4
  <2>2. Count(r, u) = Count(g, u)
    BY <1>3, <1>4, <2>1, RecentIs
  <2>3. Count(Append(r, t), u) = IF t > u THEN Count(r, u) + 1 ELSE Count(r, u)
    BY <1>3, CountAppend
  <2> QED
    BY <2>1, <2>2, <2>3
<1>7. \A u \in Int : Count(times, u) = IF t > u THEN Count(a, u) + 1 ELSE Count(a, u)
  BY <1>3, <1>4, CountAppend
<1>8. Len(a) \in Nat
  BY <1>4
<1>9. \A u \in Int : Count(g, u) \in Nat /\ Count(a, u) \in Nat /\ Count(a, u) <= Len(a)
  BY <1>4, CountTyped
<1>10. Count(h, k) <= Count(g, k) + 1 /\ Count(h, k) \in Nat
  <2>1. Count(h, k) = IF t > k THEN Count(g, k) + 1 ELSE Count(g, k)
    <3>1. k >= k
      BY <1>3
    <3> HIDE DEF h, k
    <3> QED
      BY <1>3, <1>6, <3>1
  <2>2. PICK x \in Nat : x = Count(g, k)
    BY <1>3, <1>9
  <2> HIDE DEF h, k
  <2> QED
    BY <2>1, <2>2
<1>11. Count(h, k) + (n - 1) <= Max + Cardinality(Logins) - 1
  <2>1. CASE b > t
    <3>1. Count(g, k) + n <= Max + Cardinality(Logins) - 1
      BY <1>1, <2>1 DEF Holds
    <3>2. PICK x \in Nat : x = Count(g, k)
      BY <1>3, <1>9
    <3>3. PICK y \in Nat : y = Count(h, k)
      BY <1>10
    <3> HIDE DEF k, h
    <3> QED
      BY <1>1, <1>2, <1>10, <3>1, <3>2, <3>3
  <2>2. CASE b <= t
    <3>1. k >= b - BanFor
      BY <1>1, <1>2, <2>2
    <3>2. Count(g, k) <= Count(a, k)
      BY <1>1, <1>3, <3>1 DEF Covers
    <3>3. PICK x \in Nat : x = Count(g, k)
      BY <1>3, <1>9
    <3>4. PICK y \in Nat : y = Count(h, k)
      BY <1>10
    <3>5. PICK z \in Nat : z = Count(a, k) /\ z <= Len(a)
      BY <1>3, <1>9
    <3> HIDE DEF k, h
    <3> QED
      BY <1>1, <1>2, <1>8, <1>10, <3>2, <3>3, <3>4, <3>5
  <2> QED
    BY <1>1, <2>1, <2>2
<1>12. CASE Len(times) >= Max
  <2>1. Times(<<>>, t) /\ Len(<<>>) = 0
    BY <1>3, NoTimes
  <2>2. Covers(h, <<>>, t + BanFor, t)
    <3> SUFFICES ASSUME NEW u \in Int, u >= (t + BanFor) - BanFor
                 PROVE  Count(h, u) <= Count(<<>>, u)
      BY DEF Covers
    <3>1. u >= t
      BY <1>2, <1>3
    <3> HIDE DEF h
    <3>2. Count(h, u) = 0 /\ Count(<<>>, u) = 0
      BY <1>3, <1>5, <3>1, NothingAfterNow, NoTimes
    <3> QED
      BY <3>2
  <2>3. Holds(h, t + BanFor, t, n - 1)
    BY <1>11 DEF Holds
  <2>4. Max > 0 /\ t + BanFor \in Int
    BY <1>2, <1>3, SessionsAssumption
  <2> HIDE DEF h, times
  <2>5. Fine(h, <<>>, t + BanFor, t, n - 1)
    BY <1>1, <1>5, <2>1, <2>2, <2>3, <2>4 DEF Fine
  <2> QED
    BY <1>12, <2>5 DEF h, times
<1>13. CASE ~(Len(times) >= Max)
  <2>1. Covers(h, times, b, t)
    <3> SUFFICES ASSUME NEW u \in Int, u >= k, u >= b - BanFor
                 PROVE  Count(h, u) <= Count(times, u)
      BY DEF Covers
    <3>1. Count(g, u) <= Count(a, u)
      BY <1>1 DEF Covers
    <3>2. PICK x \in Nat : x = Count(g, u)
      BY <1>9
    <3>3. PICK z \in Nat : z = Count(a, u)
      BY <1>9
    <3>4. /\ Count(h, u) = IF t > u THEN x + 1 ELSE x
          /\ Count(times, u) = IF t > u THEN z + 1 ELSE z
      <4> HIDE DEF h, times, k
      <4> QED
        BY <1>6, <1>7, <3>2, <3>3
    <3> HIDE DEF h, times, k
    <3> QED
      BY <3>1, <3>2, <3>3, <3>4
  <2>2. Holds(h, b, t, n - 1)
    BY <1>11 DEF Holds
  <2> HIDE DEF h, times
  <2>3. Len(times) < Max
    BY <1>2, <1>5, <1>8, <1>13
  <2>4. Fine(h, times, b, t, n - 1)
    BY <1>1, <1>5, <2>1, <2>2, <2>3 DEF Fine
  <2> QED
    BY <1>13, <2>4 DEF h, times
<1> QED
  BY <1>12, <1>13

\* What it comes to.
LEMMA FineIsFew ==
  ASSUME NEW g, NEW a, NEW b, NEW t, NEW n, Fine(g, a, b, t, n)
  PROVE  Len(Recent(g, t)) <= Max + Cardinality(Logins) - 1
<1> DEFINE k == t - Window
<1>1. /\ Times(g, t) /\ Times(a, t) /\ b \in Int /\ t \in Nat \ {0} /\ n \in Nat
      /\ Len(a) < Max /\ Covers(g, a, b, t) /\ Holds(g, b, t, n)
  BY DEF Fine
<1>2. Window \in Nat /\ BanFor \in Nat /\ BanFor >= Window
      /\ Max \in Nat /\ Cardinality(Logins) \in Nat
  BY SessionsAssumption, FS_CardinalityType
<1>3. g \in Seq(Int) /\ a \in Seq(Int) /\ t \in Int /\ k \in Int
  BY <1>1, <1>2 DEF Times
<1>4. Count(g, k) \in Nat /\ Count(a, k) \in Nat /\ Count(a, k) <= Len(a) /\ Len(a) \in Nat
  BY <1>3, CountTyped
<1>5. Len(Recent(g, t)) = Count(g, k)
  BY <1>3, RecentIs
<1>6. CASE b > t
  <2>1. Count(g, k) + n <= Max + Cardinality(Logins) - 1
    BY <1>1, <1>6 DEF Holds
  <2> HIDE DEF k
  <2> QED
    BY <1>1, <1>2, <1>4, <1>5, <2>1
<1>7. CASE b <= t
  <2>1. k >= b - BanFor
    BY <1>1, <1>2, <1>7
  <2>2. Count(g, k) <= Count(a, k)
    BY <1>1, <1>3, <2>1 DEF Covers
  <2> HIDE DEF k
  <2> QED
    BY <1>1, <1>2, <1>4, <1>5, <2>2
<1> QED
  BY <1>1, <1>6, <1>7

-----------------------------------------------------------------------------
(* The guard, at all addresses.                                            *)

Stages == {"idle", "verify", "succeed", "fail", "create"}
Requests == [at : Stages, host : ClientIPs \cup {"none"}]

\* The logins from h that may still turn out wrong.
UnderWay(h) == {q \in Logins : login[q].at \in {"verify", "fail"} /\ login[q].host = h}

GuardTyped ==
  /\ clock \in 1..MaxClock
  /\ attempts \in [ClientIPs -> Seq(Int)]
  /\ guesses \in [ClientIPs -> Seq(Int)]
  /\ bannedUntil \in [ClientIPs -> Int]
  /\ login \in [Logins -> Requests]
  /\ \A q \in Logins : login[q].at \in {"verify", "succeed", "fail"} => login[q].host \in ClientIPs

AllFine ==
  \A h \in ClientIPs :
    Fine(guesses[h], attempts[h], bannedUntil[h], clock, Cardinality(UnderWay(h)))

GuardInv == GuardTyped /\ AllFine

LEMMA SomeLogins ==
  ASSUME NEW S \in SUBSET Logins
  PROVE  IsFiniteSet(S) /\ Cardinality(S) \in Nat /\ Cardinality(S) <= Cardinality(Logins)
<1>1. IsFiniteSet(Logins)
  BY SessionsAssumption
<1>2. IsFiniteSet(S) /\ Cardinality(S) <= Cardinality(Logins)
  BY <1>1, FS_Subset
<1> QED
  BY <1>2, FS_CardinalityType

LEMMA FewerLogins ==
  ASSUME NEW S \in SUBSET Logins, NEW T \in SUBSET S
  PROVE  Cardinality(T) \in Nat /\ Cardinality(T) <= Cardinality(S)
BY SomeLogins, FS_Subset, FS_CardinalityType

LEMMA GuardStart == SessionsInit => GuardInv
<1> SUFFICES ASSUME SessionsInit PROVE GuardInv
  OBVIOUS
<1> USE DEF SessionsInit
<1>1. clock = 1 /\ clock \in 1..MaxClock
  BY SessionsAssumption
<1>2. <<>> \in Seq(Int) /\ Away \in Requests /\ Away.at = "idle"
  BY DEF Away, Requests, Stages
<1>3. GuardTyped
  BY <1>1, <1>2 DEF GuardTyped
<1>4. ASSUME NEW h \in ClientIPs
      PROVE  Fine(guesses[h], attempts[h], bannedUntil[h], clock, Cardinality(UnderWay(h)))
  <2>1. Cardinality(UnderWay(h)) \in Nat
    BY SomeLogins DEF UnderWay
  <2>2. Fine(<<>>, <<>>, 0, 1, Cardinality(UnderWay(h)))
    BY <2>1, FineAnew
  <2> QED
    BY <1>1, <2>2
<1> QED
  BY <1>3, <1>4 DEF GuardInv, AllFine

\* A step that leaves the guard alone, and lets nobody through.
LEMMA GuardRests ==
  ASSUME GuardInv, UNCHANGED <<clock, guard>>, login' \in [Logins -> Requests],
         \A q \in Logins : \/ login'[q] = login[q]
                           \/ login'[q].at \in {"idle", "create"}
                           \/ /\ login[q].at = "verify"
                              /\ login'[q].host = login[q].host
  PROVE  GuardInv'
<1>1. clock' = clock /\ attempts' = attempts /\ bannedUntil' = bannedUntil /\ guesses' = guesses
  BY DEF guard
<1>2. \A q \in Logins : login'[q].at \in {"verify", "succeed", "fail"} => login'[q].host \in ClientIPs
  BY DEF GuardInv, GuardTyped
<1>3. GuardTyped'
  BY <1>1, <1>2 DEF GuardInv, GuardTyped
<1>4. ASSUME NEW h \in ClientIPs
      PROVE  Fine(guesses'[h], attempts'[h], bannedUntil'[h], clock', Cardinality(UnderWay(h)'))
  <2>1. UnderWay(h) \in SUBSET Logins /\ UnderWay(h)' \in SUBSET UnderWay(h)
    BY DEF UnderWay
  <2>2. Cardinality(UnderWay(h)') \in Nat /\ Cardinality(UnderWay(h)') <= Cardinality(UnderWay(h))
    BY <2>1, FewerLogins
  <2>3. Fine(guesses[h], attempts[h], bannedUntil[h], clock, Cardinality(UnderWay(h)))
    BY DEF GuardInv, AllFine
  <2> QED
    BY <1>1, <2>2, <2>3, FineFewer
<1>5. AllFine'
  BY <1>4 DEF AllFine
<1> QED
  BY <1>3, <1>5 DEF GuardInv

LEMMA AllowFine ==
  ASSUME GuardInv, NEW q \in Logins, NEW h \in ClientIPs, Allow(q, h)
  PROVE  GuardInv'
<1> USE DEF GuardInv, GuardTyped, Allow
<1>1. /\ clock' = clock /\ guesses' = guesses
      /\ bannedUntil' = [bannedUntil EXCEPT ![h] = 0]
      /\ attempts' = [attempts EXCEPT ![h] = Recent(attempts[h], clock)]
      /\ bannedUntil[h] <= clock /\ clock \in Nat /\ clock \in Int
  OBVIOUS
<1>2. Recent(attempts[h], clock) \in Seq(Int)
  BY <1>1, RecentIs
<1>3. Len(Recent(attempts[h], clock)) < Max
  BY <1>1
<1>4. [at |-> "verify", host |-> h] \in Requests
  BY DEF Requests, Stages
<1>5. GuardTyped'
  <2>1. login' = [login EXCEPT ![q] = [at |-> "verify", host |-> h]]
    OBVIOUS
  <2> QED
    BY <1>1, <1>2, <1>4, <2>1
<1>6. ASSUME NEW k \in ClientIPs
      PROVE  Fine(guesses'[k], attempts'[k], bannedUntil'[k], clock', Cardinality(UnderWay(k)'))
  <2>1. Fine(guesses[k], attempts[k], bannedUntil[k], clock, Cardinality(UnderWay(k)))
    BY DEF AllFine
  <2>2. Cardinality(UnderWay(k)') \in Nat
    BY SomeLogins DEF UnderWay
  <2>3. CASE k = h
    <3>1. attempts'[k] = Recent(attempts[k], clock) /\ bannedUntil'[k] = 0
      BY <1>1, <2>3
    <3>2. Fine(guesses[k], Recent(attempts[k], clock), 0, clock, Cardinality(UnderWay(k)'))
      BY <1>1, <1>3, <2>1, <2>2, <2>3, FineAllowed
    <3> QED
      BY <1>1, <3>1, <3>2
  <2>4. CASE k # h
    <3>1. attempts'[k] = attempts[k] /\ bannedUntil'[k] = bannedUntil[k]
      BY <1>1, <2>4
    <3>2. UnderWay(k)' \in SUBSET UnderWay(k) /\ UnderWay(k) \in SUBSET Logins
      BY <2>4 DEF UnderWay
    <3>3. Cardinality(UnderWay(k)') <= Cardinality(UnderWay(k))
      BY <3>2, FewerLogins
    <3> QED
      BY <1>1, <2>1, <2>2, <3>1, <3>3, FineFewer
  <2> QED
    BY <2>3, <2>4
<1>7. AllFine'
  BY <1>6 DEF AllFine
<1> QED
  BY <1>5, <1>7 DEF GuardInv

LEMMA FailFine ==
  ASSUME GuardInv, NEW q \in Logins, LoginFails(q)
  PROVE  GuardInv'
<1> USE DEF GuardInv, GuardTyped, Leave
<1>1. PICK h \in ClientIPs : h = login[q].host
  BY DEF LoginFails
<1> DEFINE times == Append(attempts[h], clock)
           ban == Len(times) >= Max
           tried == Append(Recent(guesses[h], clock), clock)
<1>2. /\ clock' = clock
      /\ attempts' = [attempts EXCEPT ![h] = IF ban THEN <<>> ELSE times]
      /\ bannedUntil' = [bannedUntil EXCEPT ![h] = IF ban THEN clock + BanFor ELSE bannedUntil[h]]
      /\ guesses' = [guesses EXCEPT ![h] = tried]
      /\ login' = [login EXCEPT ![q] = Away]
      /\ login[q].at = "fail"
  BY <1>1 DEF LoginFails
<1>3. clock \in Nat /\ clock \in Int /\ clock + BanFor \in Int
  BY SessionsAssumption
<1>4. <<>> \in Seq(Int) /\ times \in Seq(Int) /\ Recent(guesses[h], clock) \in Seq(Int)
  BY <1>3, RecentIs
<1>5. tried \in Seq(Int)
  BY <1>3, <1>4
<1>6. Away \in Requests /\ Away.at = "idle"
  BY DEF Away, Requests, Stages
<1>7. GuardTyped'
  <2>1. attempts' \in [ClientIPs -> Seq(Int)] /\ guesses' \in [ClientIPs -> Seq(Int)]
    <3> HIDE DEF times, ban, tried
    <3> QED
      BY <1>2, <1>4, <1>5
  <2>2. bannedUntil' \in [ClientIPs -> Int]
    <3> HIDE DEF times, ban, tried
    <3> QED
      BY <1>2, <1>3
  <2> HIDE DEF times, ban, tried
  <2> QED
    BY <1>2, <1>6, <2>1, <2>2
<1>8. ASSUME NEW k \in ClientIPs
      PROVE  Fine(guesses'[k], attempts'[k], bannedUntil'[k], clock', Cardinality(UnderWay(k)'))
  <2>1. Fine(guesses[k], attempts[k], bannedUntil[k], clock, Cardinality(UnderWay(k)))
    BY DEF AllFine
  <2>2. UnderWay(k) \in SUBSET Logins
    BY DEF UnderWay
  <2>3. CASE k = h
    <3>1. q \in UnderWay(k) /\ UnderWay(k)' = UnderWay(k) \ {q}
      BY <1>1, <1>2, <1>6, <2>3 DEF UnderWay
    <3>2. /\ IsFiniteSet(UnderWay(k)) /\ Cardinality(UnderWay(k)) \in Nat
          /\ Cardinality(UnderWay(k)) <= Cardinality(Logins)
      BY <2>2, SomeLogins
    <3>3. Cardinality(UnderWay(k)') = Cardinality(UnderWay(k)) - 1
      BY <3>1, <3>2, FS_RemoveElement
    <3>4. Cardinality(UnderWay(k)) >= 1
      <4>1. Cardinality(UnderWay(k)') \in Nat
        BY SomeLogins DEF UnderWay
      <4> QED
        BY <3>2, <3>3, <4>1
    <3>5. Fine(tried, IF ban THEN <<>> ELSE times,
               IF ban THEN clock + BanFor ELSE bannedUntil[k], clock,
               Cardinality(UnderWay(k)) - 1)
      BY <2>1, <2>3, <3>2, <3>4, FineFails
    <3>6. /\ guesses'[k] = tried
          /\ attempts'[k] = IF ban THEN <<>> ELSE times
          /\ bannedUntil'[k] = IF ban THEN clock + BanFor ELSE bannedUntil[k]
      <4> HIDE DEF times, ban, tried
      <4> QED
        BY <1>2, <2>3
    <3> HIDE DEF times, ban, tried
    <3> QED
      BY <1>2, <3>3, <3>5, <3>6
  <2>4. CASE k # h
    <3>1. /\ guesses'[k] = guesses[k] /\ attempts'[k] = attempts[k]
          /\ bannedUntil'[k] = bannedUntil[k]
      <4> HIDE DEF times, ban, tried
      <4> QED
        BY <1>2, <2>4
    <3>2. UnderWay(k)' = UnderWay(k)
      BY <1>1, <1>2, <1>6, <2>4 DEF UnderWay
    <3> QED
      BY <1>2, <2>1, <3>1, <3>2
  <2> QED
    BY <2>3, <2>4
<1>9. AllFine'
  BY <1>8 DEF AllFine
<1> QED
  BY <1>7, <1>9 DEF GuardInv

LEMMA SucceedFine ==
  ASSUME GuardInv, NEW q \in Logins, LoginSucceeds(q)
  PROVE  GuardInv'
<1> USE DEF GuardInv, GuardTyped
<1>1. PICK h \in ClientIPs : h = login[q].host
  BY DEF LoginSucceeds
<1>2. /\ clock' = clock /\ bannedUntil' = bannedUntil
      /\ attempts' = [attempts EXCEPT ![h] = <<>>]
      /\ guesses' = [guesses EXCEPT ![h] = <<>>]
      /\ login' = [login EXCEPT ![q].at = "create"]
      /\ login[q].at = "succeed"
  BY <1>1 DEF LoginSucceeds, guard, Proceed
<1>3. <<>> \in Seq(Int)
  OBVIOUS
<1>4. login' \in [Logins -> Requests] /\ login'[q].at = "create"
      /\ \A p \in Logins : p # q => login'[p] = login[p]
  BY <1>2 DEF Requests, Stages
<1>5. GuardTyped'
  BY <1>2, <1>3, <1>4
<1>6. ASSUME NEW k \in ClientIPs
      PROVE  Fine(guesses'[k], attempts'[k], bannedUntil'[k], clock', Cardinality(UnderWay(k)'))
  <2>1. Fine(guesses[k], attempts[k], bannedUntil[k], clock, Cardinality(UnderWay(k)))
    BY DEF AllFine
  <2>2. UnderWay(k)' \in SUBSET UnderWay(k) /\ UnderWay(k) \in SUBSET Logins
    BY <1>2, <1>4 DEF UnderWay
  <2>3. /\ Cardinality(UnderWay(k)') \in Nat
        /\ Cardinality(UnderWay(k)') <= Cardinality(UnderWay(k))
        /\ Cardinality(UnderWay(k)') <= Cardinality(Logins)
    BY <2>2, FewerLogins, SomeLogins
  <2>4. CASE k = h
    <3>1. guesses'[k] = <<>> /\ attempts'[k] = <<>>
      BY <1>2, <2>4
    <3>2. bannedUntil[k] \in Int /\ clock \in Nat \ {0}
      OBVIOUS
    <3> QED
      BY <1>2, <2>3, <3>1, <3>2, FineAnew
  <2>5. CASE k # h
    <3>1. guesses'[k] = guesses[k] /\ attempts'[k] = attempts[k]
      BY <1>2, <2>5
    <3> QED
      BY <1>2, <2>1, <2>3, <3>1, FineFewer
  <2> QED
    BY <2>4, <2>5
<1>7. AllFine'
  BY <1>6 DEF AllFine
<1> QED
  BY <1>5, <1>7 DEF GuardInv

LEMMA RestartFine ==
  ASSUME GuardInv, Restart
  PROVE  GuardInv'
<1> USE DEF GuardInv, GuardTyped, Restart
<1>1. <<>> \in Seq(Int) /\ Away \in Requests /\ Away.at = "idle"
  BY DEF Away, Requests, Stages
<1>2. GuardTyped'
  BY <1>1
<1>3. ASSUME NEW k \in ClientIPs
      PROVE  Fine(guesses'[k], attempts'[k], bannedUntil'[k], clock', Cardinality(UnderWay(k)'))
  <2>1. Cardinality(UnderWay(k)') \in Nat
    BY SomeLogins DEF UnderWay
  <2>2. clock \in Nat \ {0} /\ 0 <= clock
    OBVIOUS
  <2>3. Fine(<<>>, <<>>, 0, clock, Cardinality(UnderWay(k)'))
    BY <2>1, <2>2, FineAnew
  <2> QED
    BY <2>3
<1>4. AllFine'
  BY <1>3 DEF AllFine
<1> QED
  BY <1>2, <1>4 DEF GuardInv

LEMMA PassFine ==
  ASSUME GuardInv, Pass
  PROVE  GuardInv'
<1> USE DEF GuardInv, GuardTyped
<1>1. clock' = clock + 1 /\ clock < MaxClock /\ UNCHANGED <<attempts, bannedUntil, guesses, login>>
  BY DEF Pass, guard
<1>2. GuardTyped'
  BY <1>1, SessionsAssumption
<1>3. ASSUME NEW k \in ClientIPs
      PROVE  Fine(guesses'[k], attempts'[k], bannedUntil'[k], clock', Cardinality(UnderWay(k)'))
  <2>1. Fine(guesses[k], attempts[k], bannedUntil[k], clock, Cardinality(UnderWay(k)))
    BY DEF AllFine
  <2>2. UnderWay(k)' = UnderWay(k)
    BY <1>1 DEF UnderWay
  <2> QED
    BY <1>1, <2>1, <2>2, FineLater
<1>4. AllFine'
  BY <1>3 DEF AllFine
<1> QED
  BY <1>2, <1>4 DEF GuardInv

LEMMA GuardStep ==
  ASSUME GuardInv, [SessionsNext]_sesVars
  PROVE  GuardInv'
<1>0. /\ login \in [Logins -> Requests]
      /\ \A q \in Logins : /\ [login EXCEPT ![q] = Away] \in [Logins -> Requests]
                           /\ Away.at = "idle"
  BY DEF GuardInv, GuardTyped, Away, Requests, Stages
<1>1. ASSUME NEW q \in Logins, VerifyLogin(q)
      PROVE  GuardInv'
  <2>1. PICK step \in {"succeed", "fail"} : login' = [login EXCEPT ![q].at = step]
    BY <1>1 DEF VerifyLogin, Proceed
  <2>2. /\ login' \in [Logins -> Requests]
        /\ login'[q].host = login[q].host
        /\ \A p \in Logins : p # q => login'[p] = login[p]
    BY <1>0, <2>1 DEF Requests, Stages
  <2> QED
    BY <1>1, <2>2, GuardRests DEF VerifyLogin
<1>2. ASSUME NEW q \in Logins, CreateSession(q)
      PROVE  GuardInv'
  <2>1. login' = [login EXCEPT ![q] = Away] /\ UNCHANGED <<clock, guard>>
    BY <1>2 DEF CreateSession, Leave
  <2> QED
    BY <1>0, <2>1, GuardRests
<1>3. ASSUME NEW q \in Logins, Impersonate(q)
      PROVE  GuardInv'
  <2>1. login' = [login EXCEPT ![q] = [at |-> "create", host |-> "none"]] /\ UNCHANGED <<clock, guard>>
    BY <1>3 DEF Impersonate
  <2>2. [at |-> "create", host |-> "none"] \in Requests
    BY DEF Requests, Stages
  <2> QED
    BY <1>0, <2>1, <2>2, GuardRests
<1>4. ASSUME NEW id, Expire(id) \/ Logout(id)
      PROVE  GuardInv'
  <2>1. UNCHANGED <<clock, guard, login>>
    BY <1>4 DEF Expire, Logout
  <2> QED
    BY <1>0, <2>1, GuardRests
<1>5. CASE IssueToken \/ UNCHANGED sesVars
  <2>1. UNCHANGED <<clock, guard, login>>
    BY <1>5 DEF IssueToken, sesVars, guard
  <2> QED
    BY <1>0, <2>1, GuardRests
<1> QED
  BY <1>1, <1>2, <1>3, <1>4, <1>5, AllowFine, FailFine, SucceedFine, RestartFine, PassFine,
     KeysAre DEF SessionsNext

\* Under one key of the guard, and since the last login under it that succeeded,
\* there are no more wrong passwords in a window than the guard allows, and one for
\* each other login that runs beside: although guard, verification and count are
\* three steps (allow, Login and fail of the log-in handler), and a ban clears the
\* count.  It bounds a key, not a client, who chooses his keys.
THEOREM GuessesAreFew == SessionsSpec => []FewGuesses
<1>1. GuardInv => FewGuesses
  <2> SUFFICES ASSUME GuardInv, NEW h \in ClientIPs
               PROVE  Len(Recent(guesses[h], clock)) <= Max + Cardinality(Logins) - 1
    BY DEF FewGuesses
  <2> QED
    BY FineIsFew DEF GuardInv, AllFine
<1> QED
  BY <1>1, GuardStart, GuardStep, PTL DEF SessionsSpec

-----------------------------------------------------------------------------
(* The types of Sessions, and of the doors together.                       *)

Bounded ==
  /\ unsaved \subseteq 1..sessions
  /\ token \in 0..(MaxClock + 2)
  /\ sessions <= MaxSessions
  /\ hitches \in Nat /\ hitches <= MaxHitches

LEMMA BoundedStep ==
  ASSUME SessionInv, GuardTyped, Bounded, [SessionsNext]_sesVars
  PROVE  Bounded'
<1> USE DEF Bounded
<1>1. /\ sessions \in Nat /\ DOMAIN file \subseteq 1..sessions
      /\ clock \in 1..MaxClock /\ MaxClock \in Nat /\ MaxSessions \in Nat /\ MaxHitches \in Nat
  BY SessionsAssumption DEF SessionInv, Numbered, GuardTyped
<1>2. CASE UNCHANGED <<unsaved, token, sessions, hitches>>
  BY <1>2
<1>3. ASSUME NEW id, Delete(id), UNCHANGED <<token, sessions>>
      PROVE  Bounded'
  <2>1. \/ unsaved' = unsaved \cap DOMAIN Drop(id) /\ hitches' = hitches
        \/ /\ unsaved' = unsaved \cup (DOMAIN file \ DOMAIN Drop(id))
           /\ hitches < MaxHitches /\ hitches' = hitches + 1
    BY <1>3 DEF Delete, Persist, Hitch
  <2>2. unsaved' \subseteq 1..sessions
    BY <1>1, <2>1
  <2>3. hitches' \in Nat /\ hitches' <= MaxHitches
    BY <1>1, <2>1
  <2>4. sessions' = sessions /\ token' = token
    BY <1>3
  <2> HIDE DEF Bounded
  <2>5. token \in 0..(MaxClock + 2) /\ sessions <= MaxSessions
    BY DEF Bounded
  <2> QED
    BY <2>2, <2>3, <2>4, <2>5 DEF Bounded
<1>4. ASSUME NEW q \in Logins, CreateSession(q)
      PROVE  Bounded'
  <2>1. \/ /\ sessions < MaxSessions /\ sessions' = sessions + 1
           /\ unsaved' = unsaved \cap DOMAIN byID /\ hitches' = hitches
        \/ /\ unsaved' = unsaved /\ sessions' = sessions
           /\ hitches < MaxHitches /\ hitches' = hitches + 1
    BY <1>4 DEF CreateSession, Hitch
  <2>2. token' = token
    BY <1>4 DEF CreateSession
  <2>3. unsaved' \subseteq unsaved
    BY <2>1
  <2>4. 1..sessions \subseteq 1..sessions'
    BY <1>1, <2>1
  <2>5. unsaved' \subseteq 1..sessions'
    BY <2>3, <2>4
  <2>6. sessions' <= MaxSessions
    BY <1>1, <2>1
  <2>7. hitches' \in Nat /\ hitches' <= MaxHitches
    BY <1>1, <2>1
  <2> QED
    BY <2>2, <2>5, <2>6, <2>7
<1>5. ASSUME NEW id, Expire(id) \/ Logout(id)
      PROVE  Bounded'
  BY <1>3, <1>5 DEF Expire, Logout
<1>6. CASE IssueToken
  <2>1. token' = clock + 2 /\ UNCHANGED <<unsaved, sessions, hitches>>
    BY <1>6 DEF IssueToken, TokenEnds, sesStore
  <2> QED
    BY <1>1, <2>1
<1>7. CASE Restart
  <2>1. hitches < MaxHitches /\ hitches' = hitches + 1 /\ UNCHANGED <<unsaved, token, sessions>>
    BY <1>7 DEF Restart, Hitch
  <2> QED
    BY <1>1, <2>1
<1>8. ASSUME NEW q \in Logins, NEW h \in ClientIPs, Allow(q, h)
      PROVE  Bounded'
  BY <1>2, <1>8 DEF Allow, sesStore
<1>9. ASSUME NEW q \in Logins,
             VerifyLogin(q) \/ LoginFails(q) \/ LoginSucceeds(q) \/ Impersonate(q)
      PROVE  Bounded'
  BY <1>2, <1>9 DEF VerifyLogin, LoginFails, LoginSucceeds, Impersonate, sesStore
<1>10. CASE Pass \/ UNCHANGED sesVars
  BY <1>2, <1>10 DEF Pass, sesVars, sesStore
<1> QED
  BY <1>4, <1>5, <1>6, <1>7, <1>8, <1>9, <1>10, KeysAre DEF SessionsNext

SessionsInv == SessionInv /\ GuardInv /\ Bounded

LEMMA SessionsTyped == SessionsInv => SessionsTypeOK
<1> SUFFICES ASSUME SessionsInv PROVE SessionsTypeOK
  OBVIOUS
<1> USE DEF SessionsInv, GuardInv, GuardTyped
<1>1. ASSUME NEW h \in ClientIPs
      PROVE  attempts[h] \in Seq(1..MaxClock) /\ Len(attempts[h]) < Max
  <2>1. Times(attempts[h], clock) /\ Len(attempts[h]) < Max
    BY DEF AllFine, Fine
  <2>2. attempts[h] \in Seq(Int) /\ \A i \in DOMAIN attempts[h] : attempts[h][i] \in 1..MaxClock
    BY <2>1, SessionsAssumption DEF Times
  <2>3. attempts[h] \in Seq(1..MaxClock)
    BY <2>2, SeqOver
  <2> QED
    BY <2>1, <2>3
<1>2. attempts \in [ClientIPs -> Seq(1..MaxClock)]
  BY <1>1
<1>3. \A q \in Logins : login[q].at \in {"idle", "verify", "succeed", "fail", "create"}
  BY DEF Requests, Stages
<1>4. DOMAIN byID \cup DOMAIN file \cup loggedOut \cup unsaved \subseteq 1..sessions
  BY DEF SessionInv, Numbered, Bounded
<1> QED
  BY <1>1, <1>2, <1>3, <1>4 DEF SessionsTypeOK, Bounded

LEMMA SessionsBegin == SessionsInit => SessionsInv
<1>1. SessionsInit => Bounded
  BY SessionsAssumption DEF SessionsInit, Bounded
<1> QED
  BY <1>1, SessionsStart, GuardStart DEF SessionsInv

LEMMA SessionsGo == SessionsInv /\ [SessionsNext]_sesVars => SessionsInv'
BY SessionsStep, GuardStep, BoundedStep DEF SessionsInv, GuardInv

\* Guard, requests, sessions and token keep their types.
THEOREM SessionsTypeCorrect == SessionsSpec => []SessionsTypeOK
BY SessionsBegin, SessionsGo, SessionsTyped, PTL DEF SessionsSpec

\* The instance of the runs shows each door as its module has it.
THEOREM DoorsAreTheirParts ==
  EntranceSpec => (Init /\ [][Next]_vars) /\ ScreeningSpec /\ SessionsSpec
<1>1. EntranceInit => Init /\ ScreeningInit /\ SessionsInit
  BY DEF EntranceInit
<1>2. [EntranceNext]_entranceVars =>
        [Next]_vars /\ [ScreeningNext]_screenVars /\ [SessionsNext]_sesVars
  BY DEF EntranceNext, entranceVars
<1> QED
  BY <1>1, <1>2, PTL DEF EntranceSpec, ScreeningSpec, SessionsSpec

\* The type invariant of the runs.
THEOREM EntranceTypeCorrect == EntranceSpec => []EntranceTypeOK
<1>1. Typed /\ ScreeningTypeOK /\ SessionsTypeOK => EntranceTypeOK
  BY DEF EntranceTypeOK, Typed
<1> QED
  BY <1>1, DoorsAreTheirParts, TypedInit, TypedNext, ScreeningTypeCorrect, SessionsTypeCorrect, PTL

=============================================================================
