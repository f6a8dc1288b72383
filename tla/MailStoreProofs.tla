--------------------------- MODULE MailStoreProofs --------------------------
(***************************************************************************)
(* Proofs about MailStore, for every number of clients, messages and files *)
(* and every number of faults.                                             *)
(***************************************************************************)
EXTENDS MailStore, FiniteSetTheorems, TLAPS

-----------------------------------------------------------------------------
(* Types.                                                                  *)

\* Which operations come to which step.
Fits(stage, w) ==
  /\ IF stage = "idle" THEN w = NoWork ELSE w \in Works
  /\ stage = "read" => w.op \in {"copy", "move", "expunge"}
  /\ stage = "lock" => w.op \in {"append", "copy"}
  /\ stage = "uid" => w.op \in {"append", "copy", "move"}
  /\ stage = "insert" => w.op \in {"append", "copy"}
  /\ stage = "update" => w.op = "move"
  /\ stage = "set" => w.op = "flags"
  /\ stage \in {"insert", "update"} => w.newUid \in Nat \ {0} /\ w.newFile \in Nat \ {0}
  /\ stage = "delete" => w.op \in {"expunge", "purge"}
  /\ stage = "next" => w.op \in {"expunge", "purge"}
  /\ stage = "unlink" => w.op \in {"move", "expunge", "purge"}

ClientsTyped ==
  /\ at \in [Clients -> Stages]
  /\ work \in [Clients -> Works \cup {NoWork}]
  /\ \A c \in Clients : Fits(at[c], work[c])

RowsTyped ==
  /\ nextRow \in Nat \ {0} /\ nextFile \in Nat \ {0}
  /\ DOMAIN rows \subseteq 1..(nextRow - 1)
  /\ rows \in [DOMAIN rows -> Messages]
  /\ files \subseteq 1..(nextFile - 1)
  /\ nextUid \in [Folders -> Nat \ {0}]
  /\ named \subseteq Folders \X (Nat \ {0}) \X (Nat \ {0})
  /\ asked \cup purged \subseteq 1..(nextRow - 1)
  /\ silent \in BOOLEAN /\ faults \in 0..MaxFaults

\* Only one client of a process is under the mutex.
Mutex ==
  /\ locked = {ProcessOf[c] : c \in {d \in Clients : HoldsLock(d)}}
  /\ \A c, d \in Clients :
       HoldsLock(c) /\ HoldsLock(d) /\ ProcessOf[c] = ProcessOf[d] => c = d

Typed == ClientsTyped /\ RowsTyped

\* The steps of Next that are client c's.
Calls(c) ==
  \/ \E f \in Folders : AppendMessage(c, f) \/ ExpungeDeleted(c, f)
  \/ \E id \in DOMAIN rows :
       \/ \E f \in Folders : CopyMessage(c, id, f) \/ MoveMessage(c, id, f)
       \/ UpdateFlags(c, id)
  \/ DeleteMessagesOlderThan(c)
Acts(c) == Calls(c) \/ Step(c) \/ FailStep(c)

\* All clients but c stay where they are.
OthersRest(c) == \A d \in Clients \ {c} : at'[d] = at[d] /\ work'[d] = work[d]

\* Client c goes to a stage with a work, and all others stay where they are.
Moves(c, stage, w) ==
  /\ at' = [at EXCEPT ![c] = stage]
  /\ work' = [work EXCEPT ![c] = w]

LEMMA BeginTyped ==
  ASSUME NEW op \in Ops, NEW f \in Folders
  PROVE  Begin(op, f) \in Works /\ Begin(op, f).op = op
BY DEF Begin, Works

LEMMA MovedClient ==
  ASSUME ClientsTyped, NEW c \in Clients, NEW stage \in Stages, NEW w, Fits(stage, w),
         Moves(c, stage, w)
  PROVE  /\ at'[c] = stage /\ work'[c] = w
         /\ \A d \in Clients \ {c} : at'[d] = at[d] /\ work'[d] = work[d]
         /\ ClientsTyped'
<1>1. w \in Works \cup {NoWork}
  BY DEF Fits
<1>2. /\ at'[c] = stage /\ work'[c] = w
      /\ \A d \in Clients \ {c} : at'[d] = at[d] /\ work'[d] = work[d]
      /\ at' \in [Clients -> Stages]
      /\ work' \in [Clients -> Works \cup {NoWork}]
  BY <1>1 DEF ClientsTyped, Moves
<1>3. \A d \in Clients \ {c} : Fits(at'[d], work'[d])
  BY <1>2 DEF ClientsTyped
<1>4. Fits(at'[c], work'[c])
  BY <1>2
<1> QED
  BY <1>2, <1>3, <1>4 DEF ClientsTyped, Fits

LEMMA FoundTyped ==
  ASSUME RowsTyped, NEW op \in Ops, NEW f \in Folders, NEW id \in DOMAIN rows
  PROVE  Found(op, id, f) \in Works /\ Found(op, id, f).op = op
<1>1. rows[id] \in Messages /\ id \in Nat
  BY DEF RowsTyped
<1>2. Begin(op, f) \in Works
  BY BeginTyped
<1> QED
  BY <1>1, <1>2 DEF Found, Begin, Works, Messages

LEMMA CallsTyped ==
  ASSUME Typed, NEW c \in Clients,
         Calls(c)
  PROVE  ClientsTyped'
<1>1. ASSUME NEW stage \in Stages, NEW w \in Works, Moves(c, stage, w), stage # "idle",
             stage = "read" => w.op \in {"copy", "move", "expunge"},
             stage = "lock" => w.op \in {"append", "copy"},
             stage \notin {"uid", "insert", "update", "delete", "unlink"},
             stage = "set" => w.op = "flags",
             stage = "next" => w.op \in {"expunge", "purge"}
      PROVE  ClientsTyped'
  <2>1. Fits(stage, w)
    BY <1>1 DEF Fits
  <2> QED
    BY <1>1, <2>1, MovedClient DEF Typed
<1>2. ASSUME NEW f \in Folders, AppendMessage(c, f) PROVE ClientsTyped'
  <2>1. Moves(c, "lock", Begin("append", f))
    BY <1>2 DEF AppendMessage, Go, Use, Moves
  <2>2. Begin("append", f) \in Works /\ Begin("append", f).op = "append"
    BY BeginTyped DEF Ops
  <2> QED
    BY <1>1, <2>1, <2>2 DEF Stages
<1>3. ASSUME NEW f \in Folders, ExpungeDeleted(c, f) PROVE ClientsTyped'
  <2> DEFINE flagged == {id \in DOMAIN rows : rows[id].folder = f /\ rows[id].deleted}
             list == {[uid |-> rows[id].uid, file |-> 0] : id \in flagged}
             w == [Begin("expunge", f) EXCEPT !.todo = list]
  <2>1. Moves(c, "next", w)
    BY <1>3 DEF ExpungeDeleted, Go, Use, Moves
  <2>2. list \in SUBSET [uid : Nat \ {0}, file : Nat]
    BY DEF Typed, RowsTyped, Messages
  <2> HIDE DEF list
  <2>3. w \in Works /\ w.op = "expunge"
    BY <2>2, BeginTyped DEF Begin, Works, Ops
  <2> QED
    BY <1>1, <2>1, <2>3 DEF Stages
<1>4. ASSUME NEW id \in DOMAIN rows, NEW f \in Folders, CopyMessage(c, id, f) PROVE ClientsTyped'
  <2>1. Moves(c, "read", Found("copy", id, f))
    BY <1>4 DEF CopyMessage, Go, Use, Moves
  <2>2. Found("copy", id, f) \in Works /\ Found("copy", id, f).op = "copy"
    BY FoundTyped DEF Ops, Typed
  <2> QED
    BY <1>1, <2>1, <2>2 DEF Stages
<1>5. ASSUME NEW id \in DOMAIN rows, NEW f \in Folders, MoveMessage(c, id, f) PROVE ClientsTyped'
  <2>1. Moves(c, "read", Found("move", id, f))
    BY <1>5 DEF MoveMessage, Go, Use, Moves
  <2>2. Found("move", id, f) \in Works /\ Found("move", id, f).op = "move"
    BY FoundTyped DEF Ops, Typed
  <2> QED
    BY <1>1, <2>1, <2>2 DEF Stages
<1>6. ASSUME NEW id \in DOMAIN rows, UpdateFlags(c, id) PROVE ClientsTyped'
  <2> DEFINE w == [Begin("flags", rows[id].folder) EXCEPT !.uid = rows[id].uid]
  <2>1. Moves(c, "set", w)
    BY <1>6 DEF UpdateFlags, Go, Use, Moves
  <2>2. rows[id].folder \in Folders /\ rows[id].uid \in Nat
    BY DEF Typed, RowsTyped, Messages
  <2>3. w \in Works /\ w.op = "flags"
    BY <2>2, BeginTyped DEF Begin, Works, Ops
  <2> QED
    BY <1>1, <2>1, <2>3 DEF Stages
<1>7. ASSUME DeleteMessagesOlderThan(c) PROVE ClientsTyped'
  <2> DEFINE old == {id \in DOMAIN rows : rows[id].old}
             list == {[uid |-> rows[id].uid, file |-> rows[id].file] : id \in old}
             w(f) == [Begin("purge", f) EXCEPT !.todo = list]
  <2>1. PICK f \in Folders : Moves(c, "next", w(f))
    BY <1>7 DEF DeleteMessagesOlderThan, Go, Use, Moves
  <2>2. list \in SUBSET [uid : Nat \ {0}, file : Nat]
    BY DEF Typed, RowsTyped, Messages
  <2> HIDE DEF list
  <2>3. w(f) \in Works /\ w(f).op = "purge"
    BY <2>2, BeginTyped DEF Begin, Works, Ops
  <2> QED
    BY <1>1, <2>1, <2>3 DEF Stages
<1> QED
  BY <1>2, <1>3, <1>4, <1>5, <1>6, <1>7 DEF Calls

LEMMA Returns ==
  ASSUME NEW c \in Clients, End(c)
  PROVE  Moves(c, "idle", NoWork)
BY DEF End, Go, Use, Moves

\* A client that stands still in its work goes to another stage.
LEMMA GoesOn ==
  ASSUME ClientsTyped, NEW c \in Clients, NEW stage, Go(c, stage), UNCHANGED work
  PROVE  Moves(c, stage, work[c])
BY DEF ClientsTyped, Go, Moves

LEMMA AtWork ==
  ASSUME ClientsTyped, NEW c \in Clients, at[c] # "idle"
  PROVE  Fits(at[c], work[c]) /\ work[c] \in Works /\ work[c].op \in Ops
         /\ work[c].folder \in Folders /\ work[c].to \in Folders
BY DEF ClientsTyped, Fits, Works

LEMMA ChangedTyped ==
  ASSUME ClientsTyped, NEW c \in Clients, at[c] # "idle"
  PROVE  /\ [Begin(work[c].op, work[c].to) EXCEPT !.todo = work[c].todo] \in Works
         /\ [Begin(work[c].op, work[c].to) EXCEPT !.todo = work[c].todo].op = work[c].op
BY AtWork DEF Begin, Works

LEMMA StepsTyped ==
  ASSUME Typed, NEW c \in Clients, Step(c) \/ FailStep(c)
  PROVE  ClientsTyped'
<1> USE DEF Typed
<1>0. Fits("idle", NoWork)
  BY DEF Fits
<1>1. ASSUME End(c) PROVE ClientsTyped'
  BY <1>0, <1>1, Returns, MovedClient DEF Stages
<1>2. CASE ReadFile(c)
  <2>1. CASE work[c].file \notin files
    BY <1>1, <1>2, <2>1 DEF ReadFile
  <2>2. CASE work[c].file \in files
    <3> DEFINE stage == CASE work[c].op = "copy" -> "lock"
                          [] work[c].op = "move" -> "uid"
                          [] OTHER -> "delete"
    <3>1. at[c] = "read" /\ Go(c, stage) /\ UNCHANGED work
      BY <1>2, <2>2 DEF ReadFile
    <3>2. stage \in Stages /\ Fits(stage, work[c])
      BY <3>1, AtWork DEF Fits, Stages
    <3> HIDE DEF stage
    <3> QED
      BY <3>1, <3>2, GoesOn, MovedClient
  <2> QED
    BY <2>1, <2>2
<1>3. CASE Lock(c)
  <2>1. CASE Go(c, "idle") /\ Use(c, NoWork)
    BY <1>0, <2>1, MovedClient DEF Go, Use, Moves, Stages
  <2>2. CASE Go(c, "uid") /\ UNCHANGED work
    <3>1. Fits("uid", work[c])
      BY <1>3, AtWork DEF Lock, Fits
    <3> QED
      BY <2>2, <3>1, GoesOn, MovedClient DEF Stages
  <2> QED
    BY <1>3, <2>1, <2>2 DEF Lock
<1>4. CASE NextUID(c)
  <2> DEFINE w == [work[c] EXCEPT !.newUid = nextUid[work[c].to], !.newFile = nextFile]
             stage == IF work[c].op = "move" THEN "update" ELSE "insert"
  <2>1. at[c] = "uid" /\ Moves(c, stage, w)
    BY <1>4 DEF NextUID, Go, Moves, ClientsTyped
  <2>2. /\ w \in Works /\ w.op = work[c].op
        /\ w.newUid \in Nat \ {0} /\ w.newFile \in Nat \ {0}
    BY <2>1, AtWork DEF Works, RowsTyped
  <2>3. stage \in Stages /\ Fits(stage, w)
    BY <2>1, <2>2, AtWork DEF Fits, Stages
  <2> HIDE DEF w, stage
  <2> QED
    BY <2>1, <2>3, MovedClient
<1>5. ASSUME NEW stage \in Stages, at[c] # "idle", Go(c, stage), Changed(c),
             stage = "bump" \/ (stage = "next" /\ work[c].op = "purge")
      PROVE  ClientsTyped'
  <2> DEFINE w == [Begin(work[c].op, work[c].to) EXCEPT !.todo = work[c].todo]
  <2>1. Moves(c, stage, w)
    BY <1>5 DEF Changed, Go, Use, Moves
  <2>2. Fits(stage, w)
    BY <1>5, ChangedTyped DEF Fits
  <2> HIDE DEF w
  <2> QED
    BY <2>1, <2>2, MovedClient
<1>6. CASE InsertRow(c) \/ SetFlags(c) \/ Unlink(c)
  <2>1. CASE InsertRow(c) \/ SetFlags(c)
    <3>1. at[c] # "idle" /\ Go(c, "bump") /\ Changed(c)
      BY <2>1 DEF InsertRow, SetFlags
    <3>2. "bump" \in Stages
      BY DEF Stages
    <3> QED
      BY <1>5, <3>1, <3>2
  <2>2. CASE Unlink(c)
    <3> DEFINE stage == IF work[c].op = "purge" THEN "next" ELSE "bump"
    <3>1. at[c] # "idle" /\ Go(c, stage) /\ Changed(c)
      BY <2>2 DEF Unlink
    <3>2. stage = "bump" \/ (stage = "next" /\ work[c].op = "purge")
      OBVIOUS
    <3> HIDE DEF stage
    <3>3. stage \in Stages
      BY <3>2 DEF Stages
    <3> QED
      BY <1>5, <3>1, <3>2, <3>3
  <2> QED
    BY <1>6, <2>1, <2>2
<1>7. CASE UpdateRow(c) \/ DeleteRow(c)
  <2>1. Go(c, "unlink") /\ UNCHANGED work /\ Fits("unlink", work[c])
    BY <1>7, AtWork DEF UpdateRow, DeleteRow, Fits
  <2> QED
    BY <2>1, GoesOn, MovedClient DEF Stages
<1>8. CASE NextEntry(c)
  <2>1. CASE End(c)
    BY <1>1, <2>1
  <2>2. ASSUME NEW entry \in work[c].todo, work[c].op = "purge",
               work' = [work EXCEPT ![c].uid = entry.uid, ![c].file = entry.file,
                                    ![c].todo = work[c].todo \ {entry}],
               Go(c, "delete")
        PROVE  ClientsTyped'
    <3> DEFINE w == [work[c] EXCEPT !.uid = entry.uid, !.file = entry.file,
                                    !.todo = work[c].todo \ {entry}]
    <3>1. Moves(c, "delete", w)
      BY <2>2 DEF Go, Moves, ClientsTyped
    <3>2. w \in Works /\ w.op = "purge"
      BY <1>8, <2>2, AtWork DEF NextEntry, Works
    <3>3. Fits("delete", w)
      BY <3>2 DEF Fits
    <3> HIDE DEF w
    <3> QED
      BY <3>1, <3>3, MovedClient DEF Stages
  <2>3. ASSUME NEW entry \in work[c].todo, work[c].op # "purge",
               work' = [work EXCEPT ![c].todo = work[c].todo \ {entry}], UNCHANGED at
        PROVE  ClientsTyped'
    <3> DEFINE w == [work[c] EXCEPT !.todo = work[c].todo \ {entry}]
    <3>1. Moves(c, "next", w)
      BY <1>8, <2>3 DEF NextEntry, Moves, ClientsTyped
    <3>2. w \in Works /\ w.op = work[c].op
      BY <1>8, <2>3, AtWork DEF NextEntry, Works
    <3>3. Fits("next", w)
      BY <1>8, <3>2, AtWork DEF NextEntry, Fits
    <3> HIDE DEF w
    <3> QED
      BY <3>1, <3>3, MovedClient DEF Stages
  <2>4. ASSUME NEW entry \in work[c].todo, NEW id \in RowsAt(work[c].folder, entry.uid),
               work[c].op # "purge",
               work' = [work EXCEPT ![c].uid = entry.uid, ![c].file = rows[id].file,
                                    ![c].todo = work[c].todo \ {entry}],
               Go(c, "read")
        PROVE  ClientsTyped'
    <3> DEFINE w == [work[c] EXCEPT !.uid = entry.uid, !.file = rows[id].file,
                                    !.todo = work[c].todo \ {entry}]
    <3>1. Moves(c, "read", w)
      BY <2>4 DEF Go, Moves, ClientsTyped
    <3>2. rows[id].file \in Nat
      BY DEF RowsAt, RowsTyped, Messages
    <3>3. w \in Works /\ w.op = work[c].op
      BY <1>8, <2>4, <3>2, AtWork DEF NextEntry, Works
    <3>4. Fits("read", w)
      BY <1>8, <2>4, <3>3, AtWork DEF NextEntry, Fits
    <3> HIDE DEF w
    <3> QED
      BY <3>1, <3>4, MovedClient DEF Stages
  <2> QED
    BY <1>8, <2>1, <2>2, <2>3, <2>4 DEF NextEntry
<1>9. CASE Bump(c)
  <2>1. CASE End(c)
    BY <1>1, <2>1
  <2>2. CASE work[c].op = "expunge" /\ Go(c, "next") /\ UNCHANGED work
    <3>1. Fits("next", work[c])
      BY <1>9, <2>2, AtWork DEF Bump, Fits
    <3> QED
      BY <2>2, <3>1, GoesOn, MovedClient DEF Stages
  <2> QED
    BY <1>9, <2>1, <2>2 DEF Bump
<1>10. CASE FailStep(c)
  BY <1>1, <1>10 DEF FailStep
<1> QED
  BY <1>2, <1>3, <1>4, <1>6, <1>7, <1>8, <1>9, <1>10 DEF Step

LEMMA CrashTyped ==
  ASSUME Typed, NEW p, Crash(p)
  PROVE  /\ ClientsTyped'
         /\ \A c \in Clients : \/ at'[c] = "idle" /\ work'[c] = NoWork
                               \/ at'[c] = at[c] /\ work'[c] = work[c]
<1>1. \A c \in Clients : \/ at'[c] = "idle" /\ work'[c] = NoWork
                         \/ at'[c] = at[c] /\ work'[c] = work[c]
  BY DEF Crash, Typed, ClientsTyped
<1>2. at' \in [Clients -> Stages] /\ work' \in [Clients -> Works \cup {NoWork}]
  BY DEF Crash, Typed, ClientsTyped, Stages
<1>3. \A c \in Clients : Fits(at'[c], work'[c])
  BY <1>1 DEF Typed, ClientsTyped, Fits
<1> QED
  BY <1>1, <1>2, <1>3 DEF ClientsTyped, Fits

LEMMA RowsStayTyped ==
  ASSUME RowsTyped, UNCHANGED <<db, ghosts>>
  PROVE  RowsTyped'
BY DEF RowsTyped, db, ghosts

LEMMA StepRows ==
  ASSUME Typed, NEW c \in Clients,
         Acts(c)
  PROVE  RowsTyped'
<1> USE DEF Typed
<1>1. CASE \/ \E f \in Folders : AppendMessage(c, f)
           \/ \E id \in DOMAIN rows :
                \/ \E f \in Folders : CopyMessage(c, id, f) \/ MoveMessage(c, id, f)
                \/ UpdateFlags(c, id)
           \/ DeleteMessagesOlderThan(c)
           \/ ReadFile(c) \/ Lock(c) \/ NextEntry(c)
  <2>1. UNCHANGED <<db, ghosts>>
    BY <1>1 DEF AppendMessage, CopyMessage, MoveMessage, UpdateFlags,
                DeleteMessagesOlderThan, ReadFile, Lock, NextEntry
  <2> QED
    BY <2>1, RowsStayTyped
<1>2. ASSUME NEW f \in Folders, ExpungeDeleted(c, f) PROVE RowsTyped'
  <2>1. /\ asked' = asked \cup {id \in DOMAIN rows : rows[id].folder = f /\ rows[id].deleted}
        /\ UNCHANGED <<rows, files, nextRow, nextFile, nextUid, named, purged, silent, faults>>
    BY <1>2 DEF ExpungeDeleted, db
  <2> QED
    BY <2>1 DEF RowsTyped
<1>3. CASE NextUID(c)
  <2>1. /\ nextUid' = [nextUid EXCEPT ![work[c].to] = @ + 1]
        /\ files' = files \cup {nextFile} /\ nextFile' = nextFile + 1
        /\ UNCHANGED <<rows, nextRow, named, asked, purged, silent, faults>>
    BY <1>3 DEF NextUID, ghosts
  <2>2. work[c].to \in Folders
    BY <1>3, AtWork DEF NextUID
  <2>3. nextUid' \in [Folders -> Nat \ {0}]
    BY <2>1, <2>2 DEF RowsTyped
  <2>4. nextFile' \in Nat \ {0} /\ files' \subseteq 1..(nextFile' - 1)
    BY <2>1 DEF RowsTyped
  <2> QED
    BY <2>1, <2>3, <2>4 DEF RowsTyped
<1>4. CASE InsertRow(c)
  <2>1. /\ at[c] = "insert" /\ work[c] \in Works
        /\ work[c].newUid \in Nat \ {0} /\ work[c].newFile \in Nat \ {0}
    BY <1>4, AtWork DEF InsertRow, Fits
  <2>2. /\ work[c].deleted \in BOOLEAN /\ work[c].to \in Folders
    BY <2>1 DEF Works
  <2>3. PICK new \in Messages :
          rows' = [id \in DOMAIN rows \cup {nextRow} |-> IF id # nextRow THEN rows[id] ELSE new]
    BY <1>4, <2>1, <2>2 DEF InsertRow, Messages
  <2>4. /\ nextRow' = nextRow + 1 /\ silent' = TRUE
        /\ named' = named \cup {<<work[c].to, work[c].newUid, nextRow>>}
        /\ UNCHANGED <<files, nextFile, nextUid, asked, purged, faults>>
    BY <1>4 DEF InsertRow
  <2>5. rows' \in [DOMAIN rows' -> Messages] /\ DOMAIN rows' = DOMAIN rows \cup {nextRow}
    BY <2>3 DEF RowsTyped
  <2> QED
    BY <2>1, <2>2, <2>4, <2>5 DEF RowsTyped
<1>5. CASE UpdateRow(c)
  <2>1. /\ at[c] = "update" /\ work[c] \in Works
        /\ work[c].newUid \in Nat \ {0} /\ work[c].newFile \in Nat \ {0}
        /\ UNCHANGED <<files, nextRow, nextFile, nextUid, asked, purged, faults>>
    BY <1>5, AtWork DEF UpdateRow, Fits
  <2>2. CASE UNCHANGED <<rows, named, silent>>
    BY <2>1, <2>2 DEF RowsTyped
  <2>3. CASE /\ work[c].id \in DOMAIN rows
             /\ rows' = [rows EXCEPT ![work[c].id].folder = work[c].to,
                                     ![work[c].id].uid = work[c].newUid,
                                     ![work[c].id].file = work[c].newFile]
             /\ named' = named \cup {<<work[c].to, work[c].newUid, work[c].id>>}
             /\ silent' = TRUE
    <3> DEFINE new == [rows[work[c].id] EXCEPT !.folder = work[c].to, !.uid = work[c].newUid,
                                               !.file = work[c].newFile]
    <3>1. rows' = [rows EXCEPT ![work[c].id] = new]
      BY <2>3 DEF RowsTyped
    <3>2. new \in Messages /\ work[c].to \in Folders
      BY <2>1, <2>3 DEF RowsTyped, Messages, Works
    <3> HIDE DEF new
    <3>3. rows' \in [DOMAIN rows' -> Messages] /\ DOMAIN rows' = DOMAIN rows
      BY <3>1, <3>2 DEF RowsTyped
    <3> QED
      BY <2>1, <2>3, <3>2, <3>3 DEF RowsTyped
  <2> QED
    BY <1>5, <2>2, <2>3 DEF UpdateRow
<1>6. CASE SetFlags(c)
  <2>1. PICK deleted \in BOOLEAN :
          rows' = [id \in DOMAIN rows |->
                     IF id \in RowsAt(work[c].folder, work[c].uid)
                     THEN [rows[id] EXCEPT !.deleted = deleted] ELSE rows[id]]
    BY <1>6 DEF SetFlags
  <2>2. \A id \in DOMAIN rows : [rows[id] EXCEPT !.deleted = deleted] \in Messages
    BY DEF RowsTyped, Messages
  <2>3. rows' \in [DOMAIN rows' -> Messages] /\ DOMAIN rows' = DOMAIN rows
    BY <2>1, <2>2 DEF RowsTyped
  <2>4. silent' \in BOOLEAN
    BY <1>6 DEF SetFlags
  <2>5. UNCHANGED <<files, nextRow, nextFile, nextUid, named, asked, purged, faults>>
    BY <1>6 DEF SetFlags
  <2> QED
    BY <2>3, <2>4, <2>5 DEF RowsTyped
<1>7. CASE DeleteRow(c)
  <2>1. rows' \in [DOMAIN rows' -> Messages] /\ DOMAIN rows' \subseteq DOMAIN rows
    BY <1>7 DEF DeleteRow, Keep, RowsTyped
  <2>2. Doomed(c) \subseteq DOMAIN rows
    BY DEF Doomed, RowsAt
  <2>3. asked' \cup purged' \subseteq asked \cup purged \cup DOMAIN rows
    BY <1>7, <2>2 DEF DeleteRow
  <2>4. silent' \in BOOLEAN /\ UNCHANGED <<files, nextRow, nextFile, nextUid, named, faults>>
    BY <1>7 DEF DeleteRow
  <2> QED
    BY <2>1, <2>3, <2>4 DEF RowsTyped
<1>8. CASE Unlink(c) \/ FailStep(c) \/ Bump(c)
  <2>1. /\ files' \subseteq files
        /\ UNCHANGED <<rows, nextRow, nextFile, nextUid, named, asked, purged>>
    BY <1>8 DEF Unlink, FailStep, Bump, db
  <2>2. silent' \in BOOLEAN
    BY <1>8 DEF Unlink, FailStep, Bump, RowsTyped
  <2>3. faults' \in 0..MaxFaults
    BY <1>8, MailStoreAssumption DEF Unlink, FailStep, Bump, Fault, RowsTyped
  <2> QED
    BY <2>1, <2>2, <2>3 DEF RowsTyped
<1> QED
  BY <1>1, <1>2, <1>3, <1>4, <1>5, <1>6, <1>7, <1>8 DEF Acts, Calls, Step

LEMMA CrashRows == ASSUME Typed, NEW p, Crash(p) PROVE RowsTyped'
<1>1. UNCHANGED <<rows, files, nextRow, nextFile, nextUid, named, asked, purged, silent>>
  BY DEF Crash, db
<1>2. faults' \in 0..MaxFaults
  BY MailStoreAssumption DEF Crash, Fault, Typed, RowsTyped
<1> QED
  BY <1>1, <1>2 DEF Typed, RowsTyped

LEMMA AgeTyped == ASSUME Typed, NEW id \in DOMAIN rows, Age(id) PROVE Typed'
<1>1. /\ rows' = [rows EXCEPT ![id] = [rows[id] EXCEPT !.old = TRUE]]
      /\ UNCHANGED <<files, nextRow, nextFile, nextUid, named, asked, purged, silent, faults, at, work>>
  BY DEF Age, ghosts, Typed, RowsTyped
<1>2. [rows[id] EXCEPT !.old = TRUE] \in Messages
  BY DEF Typed, RowsTyped, Messages
<1>3. rows' \in [DOMAIN rows' -> Messages] /\ DOMAIN rows' = DOMAIN rows
  BY <1>1, <1>2 DEF Typed, RowsTyped
<1>4. RowsTyped'
  BY <1>1, <1>3 DEF Typed, RowsTyped
<1>5. ClientsTyped'
  BY <1>1 DEF Typed, ClientsTyped, Fits
<1> QED
  BY <1>4, <1>5 DEF Typed

-----------------------------------------------------------------------------
(* The mutex.                                                              *)

LEMMA OneMoves == ASSUME Typed, NEW c \in Clients, Acts(c) PROVE OthersRest(c)
<1>1. \A d \in Clients \ {c} : at'[d] = at[d]
  BY DEF Typed, ClientsTyped, Acts, Calls, AppendMessage, ExpungeDeleted, CopyMessage,
         MoveMessage, UpdateFlags, DeleteMessagesOlderThan, Step, FailStep, ReadFile, Lock,
         NextUID, InsertRow, UpdateRow, SetFlags, NextEntry, DeleteRow, Unlink, Bump, End, Go
<1>2. \A d \in Clients \ {c} : work'[d] = work[d]
  BY DEF Typed, ClientsTyped, Acts, Calls, AppendMessage, ExpungeDeleted, CopyMessage,
         MoveMessage, UpdateFlags, DeleteMessagesOlderThan, Step, FailStep, ReadFile, Lock,
         NextUID, InsertRow, UpdateRow, SetFlags, NextEntry, DeleteRow, Unlink, Bump, End,
         Use, Changed
<1> QED
  BY <1>1, <1>2 DEF OthersRest

\* Client c keeps the mutex or goes on without it, takes it, or leaves it.
LEMMA MutexKept ==
  ASSUME Mutex, NEW c \in Clients, OthersRest(c),
         \/ (HoldsLock(c)' <=> HoldsLock(c)) /\ UNCHANGED locked
         \/ /\ HoldsLock(c)' /\ ~HoldsLock(c)
            /\ ProcessOf[c] \notin locked
            /\ locked' = locked \cup {ProcessOf[c]}
         \/ ~HoldsLock(c)' /\ Unlock(c)
  PROVE  Mutex'
<1>1. \A d \in Clients \ {c} : HoldsLock(d)' <=> HoldsLock(d)
  BY DEF OthersRest, HoldsLock
<1> DEFINE Holders == {d \in Clients : HoldsLock(d)}
<1>2. CASE (HoldsLock(c)' <=> HoldsLock(c)) /\ UNCHANGED locked
  <2>1. \A d \in Clients : HoldsLock(d)' <=> HoldsLock(d)
    BY <1>1, <1>2
  <2> QED
    BY <1>2, <2>1 DEF Mutex
<1>3. CASE /\ HoldsLock(c)' /\ ~HoldsLock(c)
           /\ ProcessOf[c] \notin locked
           /\ locked' = locked \cup {ProcessOf[c]}
  <2>1. \A d \in Clients : HoldsLock(d)' <=> (d = c \/ HoldsLock(d))
    BY <1>1, <1>3
  <2>2. \A d \in Clients : HoldsLock(d) => ProcessOf[d] # ProcessOf[c]
    BY <1>3 DEF Mutex
  <2> QED
    BY <1>3, <2>1, <2>2 DEF Mutex
<1>4. CASE ~HoldsLock(c)' /\ Unlock(c)
  <2>1. \A d \in Clients : HoldsLock(d)' <=> (d # c /\ HoldsLock(d))
    BY <1>1, <1>4
  <2>2. CASE HoldsLock(c)
    <3>1. \A d \in Clients \ {c} : HoldsLock(d) => ProcessOf[d] # ProcessOf[c]
      BY <2>2 DEF Mutex
    <3>2. locked' = locked \ {ProcessOf[c]}
      BY <1>4, <2>2 DEF Unlock
    <3> QED
      BY <2>1, <3>1, <3>2 DEF Mutex
  <2>3. CASE ~HoldsLock(c)
    <3>1. UNCHANGED locked
      BY <1>4, <2>3 DEF Unlock
    <3> QED
      BY <2>1, <2>3, <3>1 DEF Mutex
  <2> QED
    BY <2>2, <2>3
<1> QED
  BY <1>2, <1>3, <1>4

LEMMA MutexStep ==
  ASSUME Typed, Mutex, NEW c \in Clients,
         Acts(c)
  PROVE  Mutex'
<1>1. OthersRest(c)
  BY OneMoves
<1>2. ASSUME End(c) PROVE Mutex'
  <2>1. at'[c] = "idle" /\ Unlock(c)
    BY <1>2 DEF End, Go, Typed, ClientsTyped
  <2> QED
    BY <1>1, <2>1, MutexKept DEF HoldsLock
<1>3. ASSUME at'[c] \notin {"uid", "insert", "bump"}, at[c] \notin {"uid", "insert", "bump"},
             UNCHANGED locked
      PROVE  Mutex'
  BY <1>1, <1>3, MutexKept DEF HoldsLock
<1>4. CASE Calls(c)
  <2>1. at[c] = "idle" /\ at'[c] \in {"lock", "next", "read", "set"} /\ UNCHANGED locked
    BY <1>4 DEF Calls, AppendMessage, ExpungeDeleted, CopyMessage, MoveMessage, UpdateFlags,
                DeleteMessagesOlderThan, Go, Typed, ClientsTyped
  <2> QED
    BY <1>3, <2>1
<1>5. CASE ReadFile(c)
  <2>1. CASE work[c].file \in files
    <3>1. /\ at[c] = "read" /\ UNCHANGED <<work, locked>>
          /\ at'[c] = "uid" => work[c].op = "move"
          /\ at'[c] \in {"lock", "uid", "delete"}
      BY <1>5, <2>1 DEF ReadFile, Go, Typed, ClientsTyped
    <3>2. ~HoldsLock(c) /\ ~HoldsLock(c)'
      BY <3>1 DEF HoldsLock
    <3> QED
      BY <1>1, <3>1, <3>2, MutexKept
  <2> QED
    BY <1>2, <1>5, <2>1 DEF ReadFile
<1>6. CASE Lock(c)
  <2>1. CASE Go(c, "idle") /\ UNCHANGED locked
    BY <1>3, <1>6, <2>1 DEF Lock, Go, Typed, ClientsTyped
  <2>2. CASE Go(c, "uid") /\ locked' = locked \cup {ProcessOf[c]} /\ UNCHANGED work
    <3>1. at[c] = "lock" /\ at'[c] = "uid" /\ ProcessOf[c] \notin locked
      BY <1>6, <2>2 DEF Lock, Go, Typed, ClientsTyped
    <3>2. work[c].op \in {"append", "copy"}
      BY <3>1, AtWork DEF Typed, Fits
    <3>3. HoldsLock(c)' /\ ~HoldsLock(c)
      BY <2>2, <3>1, <3>2 DEF HoldsLock
    <3> QED
      BY <1>1, <2>2, <3>1, <3>3, MutexKept
  <2> QED
    BY <1>6, <2>1, <2>2 DEF Lock
<1>7. CASE NextUID(c)
  <2>1. /\ at[c] = "uid" /\ UNCHANGED locked
        /\ at'[c] = IF work[c].op = "move" THEN "update" ELSE "insert"
        /\ work'[c].op = work[c].op
        /\ work[c].op \in {"append", "copy", "move"}
    BY <1>7, AtWork DEF NextUID, Go, Typed, ClientsTyped, Fits, Works
  <2>2. HoldsLock(c)' <=> HoldsLock(c)
    BY <2>1 DEF HoldsLock
  <2> QED
    BY <1>1, <2>1, <2>2, MutexKept
<1>8. CASE InsertRow(c) \/ SetFlags(c)
  <2>1. /\ at[c] \in {"insert", "set"} /\ at'[c] = "bump" /\ UNCHANGED locked
        /\ work'[c].op = work[c].op
        /\ IF at[c] = "insert" THEN work[c].op \in {"append", "copy"} ELSE work[c].op = "flags"
    BY <1>8, AtWork DEF InsertRow, SetFlags, Changed, Begin, Use, Go, Typed, ClientsTyped, Fits
  <2>2. HoldsLock(c)' <=> HoldsLock(c)
    BY <2>1 DEF HoldsLock
  <2> QED
    BY <1>1, <2>1, <2>2, MutexKept
<1>9. CASE UpdateRow(c) \/ DeleteRow(c)
  <2>1. at[c] \in {"update", "delete"} /\ at'[c] = "unlink" /\ UNCHANGED locked
    BY <1>9 DEF UpdateRow, DeleteRow, Go, Typed, ClientsTyped
  <2> QED
    BY <1>3, <2>1
<1>10. CASE NextEntry(c)
  <2>1. CASE End(c)
    BY <1>2, <2>1
  <2>2. CASE UNCHANGED locked /\ at'[c] \in {"next", "delete", "read"}
    BY <1>3, <1>10, <2>2 DEF NextEntry
  <2> QED
    BY <1>10, <2>1, <2>2 DEF NextEntry, Go, Typed, ClientsTyped
<1>11. CASE Unlink(c)
  <2>1. /\ at[c] = "unlink" /\ UNCHANGED locked
        /\ work'[c].op = work[c].op /\ work[c].op \in {"move", "expunge", "purge"}
    BY <1>11, AtWork DEF Unlink, Changed, Begin, Use, Typed, ClientsTyped, Fits
  <2>2. ~HoldsLock(c)' /\ ~HoldsLock(c)
    BY <2>1 DEF HoldsLock
  <2> QED
    BY <1>1, <2>1, <2>2, MutexKept
<1>12. CASE Bump(c)
  <2>1. CASE work[c].op = "expunge" /\ Go(c, "next") /\ UNCHANGED <<work, locked>>
    <3>1. ~HoldsLock(c)' /\ ~HoldsLock(c)
      BY <2>1 DEF HoldsLock
    <3> QED
      BY <1>1, <2>1, <3>1, MutexKept
  <2> QED
    BY <1>2, <1>12, <2>1 DEF Bump
<1>13. CASE FailStep(c)
  BY <1>2, <1>13 DEF FailStep
<1> QED
  BY <1>4, <1>5, <1>6, <1>7, <1>8, <1>9, <1>10, <1>11, <1>12, <1>13 DEF Acts, Step

LEMMA MutexCrash == ASSUME Typed, Mutex, NEW p, Crash(p) PROVE Mutex'
<1>1. \A c \in Clients : HoldsLock(c)' <=> (ProcessOf[c] # p /\ HoldsLock(c))
  BY DEF Crash, HoldsLock, NoWork, Typed, ClientsTyped
<1>2. locked' = locked \ {p}
  BY DEF Crash
<1> QED
  BY <1>1, <1>2 DEF Mutex

LEMMA MutexRests == ASSUME Mutex, UNCHANGED <<at, work, locked>> PROVE Mutex'
BY DEF Mutex, HoldsLock

TypeInv == Typed /\ Mutex

LEMMA TypeInvGivesTypeOK == TypeInv => TypeOK
BY DEF TypeInv, Typed, ClientsTyped, RowsTyped, Mutex, TypeOK

LEMMA TypeInvStarts == Init => TypeInv
<1> SUFFICES ASSUME Init PROVE TypeInv
  OBVIOUS
<1>1. DOMAIN rows = {} /\ rows \in [DOMAIN rows -> Messages]
  BY DEF Init
<1>2. RowsTyped
  <2>1. /\ files = {} /\ named = {} /\ asked = {} /\ purged = {}
        /\ nextRow = 1 /\ nextFile = 1
    BY DEF Init
  <2>3. faults \in 0..MaxFaults
    BY MailStoreAssumption DEF Init
  <2>4. silent \in BOOLEAN
    BY DEF Init
  <2>2. nextUid \in [Folders -> Nat \ {0}]
    BY DEF Init
  <2> QED
    BY <1>1, <2>1, <2>2, <2>3, <2>4 DEF RowsTyped
<1>3. \A c \in Clients : at[c] = "idle" /\ work[c] = NoWork
  BY DEF Init
<1>4. ClientsTyped
  <2>1. at \in [Clients -> Stages] /\ work \in [Clients -> Works \cup {NoWork}]
    BY DEF Init, Stages
  <2> QED
    BY <1>3, <2>1 DEF ClientsTyped, Fits
<1>5. Mutex
  BY <1>3 DEF Init, Mutex, HoldsLock
<1> QED
  BY <1>2, <1>4, <1>5 DEF TypeInv, Typed

LEMMA TypeInvStays ==
  ASSUME TypeInv, [Next]_vars
  PROVE  TypeInv'
<1> USE DEF TypeInv
<1>1. ASSUME NEW c \in Clients,
             Acts(c)
      PROVE  TypeInv'
  <2>1. ClientsTyped'
    BY <1>1, CallsTyped, StepsTyped DEF Acts
  <2>2. RowsTyped'
    BY <1>1, StepRows
  <2>3. Mutex'
    BY <1>1, MutexStep
  <2> QED
    BY <2>1, <2>2, <2>3 DEF Typed
<1>2. ASSUME NEW p, Crash(p) PROVE TypeInv'
  BY <1>2, CrashTyped, CrashRows, MutexCrash DEF Typed
<1>3. ASSUME NEW id \in DOMAIN rows, Age(id) PROVE TypeInv'
  <2>1. UNCHANGED <<at, work, locked>>
    BY <1>3 DEF Age
  <2> QED
    BY <1>3, <2>1, AgeTyped, MutexRests
<1>4. CASE UNCHANGED vars
  <2>1. UNCHANGED <<at, work, locked>> /\ UNCHANGED <<db, ghosts>>
    BY <1>4 DEF vars, db, ghosts
  <2>2. ClientsTyped'
    BY <2>1 DEF Typed, ClientsTyped, Fits
  <2> QED
    BY <2>1, <2>2, RowsStayTyped, MutexRests DEF Typed
<1> QED
  BY <1>1, <1>2, <1>3, <1>4 DEF Next, Acts, Calls

\* The rows, the files and what the clients are at keep their types, and the
\* mutex of a process is held by the one client of it that appends or copies.
THEOREM StoreTyped == Spec => []TypeOK
<1> QED
  BY TypeInvStarts, TypeInvStays, TypeInvGivesTypeOK, PTL DEF Spec

-----------------------------------------------------------------------------
(* UIDs.                                                                   *)

\* Between NextUID and the statement that installs the new row.
InHand(c) == at[c] \in {"insert", "update"}

\* A UID that is in hand was counted, and nothing was named by it yet.
UidFresh(c) ==
  InHand(c) => /\ work[c].newUid < nextUid[work[c].to]
               /\ \A a \in named : a[1] = work[c].to => a[2] # work[c].newUid
UidsApart ==
  \A c, d \in Clients :
    InHand(c) /\ InHand(d) /\ c # d /\ work[c].to = work[d].to
      => work[c].newUid # work[d].newUid
Counted == \A a \in named : a[2] < nextUid[a[1]]
RowsNamed == \A id \in DOMAIN rows : <<rows[id].folder, rows[id].uid, id>> \in named

UidInv ==
  /\ \A c \in Clients : UidFresh(c)
  /\ UidsApart /\ Counted /\ RowsNamed /\ UidNamesOne

\* No row comes, or changes its folder, its UID or its file.
RowsFewer ==
  \A id \in DOMAIN rows' :
    /\ id \in DOMAIN rows
    /\ rows'[id].folder = rows[id].folder
    /\ rows'[id].uid = rows[id].uid
    /\ rows'[id].file = rows[id].file

\* Nobody takes a UID or a file in hand, and who has one keeps it or drops it.
HandsFewer == \A c \in Clients : InHand(c)' => InHand(c) /\ work'[c] = work[c]

LEMMA UidsQuiet ==
  ASSUME UidInv, RowsFewer, HandsFewer, UNCHANGED <<named, nextUid>>
  PROVE  UidInv'
<1>1. \A c \in Clients : UidFresh(c)'
  BY DEF UidInv, HandsFewer, UidFresh
<1>2. UidsApart'
  BY DEF UidInv, HandsFewer, UidsApart
<1>3. Counted' /\ UidNamesOne'
  BY DEF UidInv, Counted, UidNamesOne
<1>4. RowsNamed'
  BY DEF UidInv, RowsFewer, RowsNamed
<1> QED
  BY <1>1, <1>2, <1>3, <1>4 DEF UidInv

LEMMA UidsTaken ==
  ASSUME TypeInv, UidInv, NEW c \in Clients, OthersRest(c), NextUID(c)
  PROVE  UidInv'
<1> DEFINE f == work[c].to  u == nextUid[f]
<1>1. /\ work'[c].newUid = u /\ work'[c].to = f /\ f \in Folders /\ u \in Nat
      /\ nextUid' = [nextUid EXCEPT ![f] = u + 1]
      /\ UNCHANGED <<rows, named>>
  BY AtWork DEF NextUID, ghosts, TypeInv, Typed, ClientsTyped, RowsTyped, Works
<1>2. ~InHand(c)
  BY DEF NextUID, InHand
<1>3. \A d \in Clients \ {c} : InHand(d)' <=> InHand(d)
  BY DEF OthersRest, InHand
<1>4. \A g \in Folders : nextUid[g] \in Nat /\ nextUid'[g] \in Nat /\ nextUid[g] <= nextUid'[g]
  BY <1>1 DEF TypeInv, Typed, RowsTyped
<1>5. nextUid'[f] = u + 1
  BY <1>1 DEF TypeInv, Typed, RowsTyped
<1>6. \A a \in named : a[1] \in Folders /\ a[2] \in Nat
  BY DEF TypeInv, Typed, RowsTyped
<1>7. \A d \in Clients \ {c} : InHand(d) => work[d].to \in Folders /\ work[d].newUid \in Nat
  BY AtWork DEF InHand, TypeInv, Typed, Fits
<1> HIDE DEF f, u
<1>8. Counted'
  <2> SUFFICES ASSUME NEW a \in named PROVE a[2] < nextUid'[a[1]]
    BY <1>1 DEF Counted
  <2>1. a[2] < nextUid[a[1]]
    BY DEF UidInv, Counted
  <2> QED
    BY <2>1, <1>4, <1>6
<1>9. \A d \in Clients : UidFresh(d)'
  <2> SUFFICES ASSUME NEW d \in Clients, InHand(d)' PROVE UidFresh(d)'
    BY DEF UidFresh
  <2>1. CASE d = c
    <3>1. \A a \in named : a[1] = f => a[2] # u
      BY <1>6, <1>1 DEF UidInv, Counted, f, u
    <3> QED
      BY <1>1, <1>5, <2>1, <3>1 DEF UidFresh
  <2>2. CASE d # c
    <3>1. work'[d] = work[d] /\ InHand(d)
      BY <1>3, <2>2 DEF OthersRest
    <3>2. work[d].newUid < nextUid'[work[d].to]
      BY <1>4, <1>7, <2>2, <3>1 DEF UidInv, UidFresh
    <3> QED
      BY <1>1, <3>1, <3>2 DEF UidInv, UidFresh
  <2> QED
    BY <2>1, <2>2
<1>10. UidsApart'
  <2>1. \A d \in Clients \ {c} : InHand(d) /\ work[d].to = f => work[d].newUid # u
    BY <1>1, <1>7 DEF UidInv, UidFresh, f, u
  <2>2. \A d \in Clients \ {c} : work'[d] = work[d]
    BY DEF OthersRest
  <2> SUFFICES ASSUME NEW d \in Clients, NEW e \in Clients, InHand(d)', InHand(e)', d # e,
                      work'[d].to = work'[e].to
               PROVE  work'[d].newUid # work'[e].newUid
    BY DEF UidsApart
  <2>3. CASE d = c
    BY <1>1, <1>3, <2>1, <2>2, <2>3
  <2>4. CASE e = c
    BY <1>1, <1>3, <2>1, <2>2, <2>4
  <2>5. CASE d # c /\ e # c
    BY <1>3, <2>2, <2>5 DEF UidInv, UidsApart
  <2> QED
    BY <2>3, <2>4, <2>5
<1> QED
  BY <1>1, <1>8, <1>9, <1>10 DEF UidInv, RowsNamed, UidNamesOne

\* Row k is installed with the UID that client c has in hand.
LEMMA UidsInstalled ==
  ASSUME UidInv, NEW c \in Clients, NEW k, OthersRest(c), InHand(c), ~InHand(c)',
         named' = named \cup {<<work[c].to, work[c].newUid, k>>}, UNCHANGED nextUid,
         DOMAIN rows' = DOMAIN rows \cup {k},
         rows'[k].folder = work[c].to /\ rows'[k].uid = work[c].newUid,
         \A id \in DOMAIN rows \ {k} : rows'[id] = rows[id]
  PROVE  UidInv'
<1>1. \A d \in Clients : InHand(d)' => d # c /\ InHand(d) /\ work'[d] = work[d]
  BY DEF OthersRest, InHand
<1> DEFINE new == <<work[c].to, work[c].newUid, k>>
<1>2. /\ work[c].newUid < nextUid[work[c].to]
      /\ \A a \in named : a[1] = work[c].to => a[2] # work[c].newUid
  BY DEF UidInv, UidFresh
<1>3. \A d \in Clients : UidFresh(d)'
  <2> SUFFICES ASSUME NEW d \in Clients, InHand(d)' PROVE UidFresh(d)'
    BY DEF UidFresh
  <2>1. d # c /\ InHand(d) /\ work'[d] = work[d] /\ UidFresh(d)
    BY <1>1 DEF UidInv
  <2>2. work[d].to = work[c].to => work[d].newUid # work[c].newUid
    BY <2>1 DEF UidInv, UidsApart
  <2> QED
    BY <2>1, <2>2 DEF UidFresh
<1>4. UidsApart'
  BY <1>1 DEF UidInv, UidsApart
<1>5. Counted'
  BY <1>2 DEF UidInv, Counted
<1>6. RowsNamed'
  BY DEF UidInv, RowsNamed
<1>7. UidNamesOne'
  BY <1>2 DEF UidInv, UidNamesOne
<1> QED
  BY <1>3, <1>4, <1>5, <1>6, <1>7 DEF UidInv

\* Steps that install nothing and take no UID leave hands and rows alone.
LEMMA QuietSteps ==
  ASSUME TypeInv, NEW c \in Clients, Acts(c), ~NextUID(c), ~InsertRow(c), ~UpdateRow(c)
  PROVE  HandsFewer /\ RowsFewer /\ UNCHANGED <<named, nextUid, nextFile, nextRow>>
<1>1. OthersRest(c)
  BY OneMoves DEF TypeInv
<1>2. ~InHand(c)'
  BY DEF TypeInv, Typed, ClientsTyped, Acts, Calls, AppendMessage, ExpungeDeleted,
         CopyMessage, MoveMessage, UpdateFlags, DeleteMessagesOlderThan, Step, FailStep,
         ReadFile, Lock, SetFlags, NextEntry, DeleteRow, Unlink, Bump, End, Go, InHand
<1>3. HandsFewer
  BY <1>1, <1>2 DEF OthersRest, HandsFewer, InHand
<1>4. CASE SetFlags(c)
  BY <1>3, <1>4 DEF SetFlags, RowsFewer
<1>5. CASE DeleteRow(c)
  BY <1>3, <1>5 DEF DeleteRow, Keep, RowsFewer
<1>6. CASE ~SetFlags(c) /\ ~DeleteRow(c)
  <2>1. UNCHANGED <<rows, named, nextUid, nextFile, nextRow>>
    BY <1>6 DEF Acts, Calls, AppendMessage, ExpungeDeleted, CopyMessage, MoveMessage,
                UpdateFlags, DeleteMessagesOlderThan, Step, FailStep, ReadFile, Lock,
                NextEntry, Unlink, Bump, db, ghosts
  <2> QED
    BY <1>3, <2>1 DEF RowsFewer
<1> QED
  BY <1>4, <1>5, <1>6

\* What InsertRow and UpdateRow do to the rows, if they change them.
LEMMA RowInstalled ==
  ASSUME TypeInv, NEW c \in Clients,
         InsertRow(c) \/ (UpdateRow(c) /\ work[c].id \in DOMAIN rows)
  PROVE  LET k == IF at[c] = "insert" THEN nextRow ELSE work[c].id IN
         /\ InHand(c) /\ ~InHand(c)'
         /\ named' = named \cup {<<work[c].to, work[c].newUid, k>>}
         /\ UNCHANGED <<files, nextUid, nextFile, asked, purged>>
         /\ nextRow' = (IF at[c] = "insert" THEN nextRow + 1 ELSE nextRow)
         /\ DOMAIN rows' = DOMAIN rows \cup {k}
         /\ rows'[k].folder = work[c].to
         /\ rows'[k].uid = work[c].newUid
         /\ rows'[k].file = work[c].newFile
         /\ \A id \in DOMAIN rows \ {k} : rows'[id] = rows[id]
<1> USE DEF TypeInv, Typed
<1>1. CASE InsertRow(c)
  <2>1. at[c] = "insert" /\ at'[c] = "bump" /\ nextRow \notin DOMAIN rows
    BY <1>1 DEF InsertRow, Go, ClientsTyped, RowsTyped
  <2>2. PICK deleted :
          rows' = [id \in DOMAIN rows \cup {nextRow} |->
                     IF id # nextRow THEN rows[id]
                     ELSE [folder |-> work[c].to, uid |-> work[c].newUid,
                           file |-> work[c].newFile, deleted |-> deleted, old |-> FALSE]]
    BY <1>1 DEF InsertRow
  <2>3. /\ DOMAIN rows' = DOMAIN rows \cup {nextRow}
        /\ rows'[nextRow].folder = work[c].to
        /\ rows'[nextRow].uid = work[c].newUid
        /\ rows'[nextRow].file = work[c].newFile
        /\ \A id \in DOMAIN rows \ {nextRow} : rows'[id] = rows[id]
    BY <2>2
  <2> QED
    BY <1>1, <2>1, <2>3 DEF InsertRow, InHand
<1>2. CASE UpdateRow(c) /\ work[c].id \in DOMAIN rows
  <2> DEFINE k == work[c].id
  <2>1. at[c] = "update" /\ at'[c] = "unlink"
    BY <1>2 DEF UpdateRow, Go, ClientsTyped
  <2>2. rows' = [rows EXCEPT ![k] = [rows[k] EXCEPT !.folder = work[c].to,
                                       !.uid = work[c].newUid, !.file = work[c].newFile]]
    BY <1>2 DEF UpdateRow, RowsTyped
  <2>3. rows[k] \in Messages
    BY <1>2 DEF RowsTyped
  <2>4. rows'[k] = [rows[k] EXCEPT !.folder = work[c].to, !.uid = work[c].newUid,
                                   !.file = work[c].newFile]
    BY <1>2, <2>2
  <2>5. /\ DOMAIN rows' = DOMAIN rows \cup {k}
        /\ \A id \in DOMAIN rows \ {k} : rows'[id] = rows[id]
    BY <1>2, <2>2
  <2>6. /\ rows'[k].folder = work[c].to
        /\ rows'[k].uid = work[c].newUid
        /\ rows'[k].file = work[c].newFile
    BY <2>3, <2>4 DEF Messages
  <2> QED
    BY <1>2, <2>1, <2>5, <2>6 DEF UpdateRow, InHand
<1> QED
  BY <1>1, <1>2

\* An update of a row that is gone changes no row.
LEMMA UpdateOfNothing ==
  ASSUME TypeInv, NEW c \in Clients, UpdateRow(c), work[c].id \notin DOMAIN rows
  PROVE  HandsFewer /\ RowsFewer /\ UNCHANGED <<rows, files, named, nextUid, nextFile, nextRow>>
<1>1. UNCHANGED <<rows, files, named, nextUid, nextFile, nextRow>> /\ at'[c] = "unlink"
  BY DEF UpdateRow, Go, TypeInv, Typed, ClientsTyped
<1>2. OthersRest(c)
  BY OneMoves DEF TypeInv, Acts, Step
<1> QED
  BY <1>1, <1>2 DEF HandsFewer, RowsFewer, OthersRest, InHand

LEMMA OthersQuiet ==
  ASSUME TypeInv,
         \/ \E p : Crash(p)
         \/ \E id \in DOMAIN rows : Age(id)
         \/ UNCHANGED vars
  PROVE  HandsFewer /\ RowsFewer
         /\ UNCHANGED <<files, named, asked, purged, nextUid, nextFile, nextRow>>
<1> USE DEF TypeInv, Typed
<1>1. ASSUME NEW p, Crash(p)
      PROVE  HandsFewer /\ RowsFewer
             /\ UNCHANGED <<files, named, asked, purged, nextUid, nextFile, nextRow>>
  BY <1>1, CrashTyped DEF Crash, db, HandsFewer, RowsFewer, InHand
<1>2. ASSUME NEW id \in DOMAIN rows, Age(id)
      PROVE  HandsFewer /\ RowsFewer
             /\ UNCHANGED <<files, named, asked, purged, nextUid, nextFile, nextRow>>
  <2>1. rows[id] \in Messages
    BY DEF RowsTyped
  <2>2. rows' = [rows EXCEPT ![id] = [rows[id] EXCEPT !.old = TRUE]]
    BY <1>2 DEF Age, RowsTyped
  <2>3. DOMAIN rows' = DOMAIN rows /\ \A i \in DOMAIN rows \ {id} : rows'[i] = rows[i]
    BY <2>2
  <2>4. /\ rows'[id].folder = rows[id].folder
        /\ rows'[id].uid = rows[id].uid
        /\ rows'[id].file = rows[id].file
    BY <2>1, <2>2 DEF Messages
  <2> QED
    BY <1>2, <2>3, <2>4 DEF Age, ghosts, HandsFewer, RowsFewer, InHand
<1>3. CASE UNCHANGED vars
  BY <1>3 DEF vars, HandsFewer, RowsFewer, InHand
<1> QED
  BY <1>1, <1>2, <1>3

LEMMA UidInvStays ==
  ASSUME TypeInv, UidInv, [Next]_vars
  PROVE  UidInv'
<1>1. ASSUME NEW c \in Clients, Acts(c) PROVE UidInv'
  <2>1. OthersRest(c)
    BY <1>1, OneMoves DEF TypeInv
  <2>2. CASE NextUID(c)
    BY <2>1, <2>2, UidsTaken
  <2>3. CASE InsertRow(c) \/ (UpdateRow(c) /\ work[c].id \in DOMAIN rows)
    <3> DEFINE k == IF at[c] = "insert" THEN nextRow ELSE work[c].id
    <3>1. /\ InHand(c) /\ ~InHand(c)'
          /\ named' = named \cup {<<work[c].to, work[c].newUid, k>>} /\ UNCHANGED nextUid
          /\ DOMAIN rows' = DOMAIN rows \cup {k}
          /\ rows'[k].folder = work[c].to /\ rows'[k].uid = work[c].newUid
          /\ \A id \in DOMAIN rows \ {k} : rows'[id] = rows[id]
      BY <2>3, RowInstalled
    <3> HIDE DEF k
    <3>2. PICK key : key = k
      OBVIOUS
    <3> QED
      BY <2>1, <3>1, <3>2, UidsInstalled
  <2>4. CASE UpdateRow(c) /\ work[c].id \notin DOMAIN rows
    BY <2>4, UpdateOfNothing, UidsQuiet
  <2>5. CASE ~NextUID(c) /\ ~InsertRow(c) /\ ~UpdateRow(c)
    BY <1>1, <2>5, QuietSteps, UidsQuiet
  <2> QED
    BY <2>2, <2>3, <2>4, <2>5
<1>2. CASE (\E c \in Clients : Crash(ProcessOf[c])) \/ (\E id \in DOMAIN rows : Age(id))
           \/ UNCHANGED vars
  BY <1>2, OthersQuiet, UidsQuiet
<1> QED
  BY <1>1, <1>2 DEF Next, Acts, Calls

LEMMA UidInvStarts == Init => UidInv
BY DEF Init, UidInv, UidFresh, InHand, UidsApart, Counted, RowsNamed, UidNamesOne

\* In a folder a UID never stands for two messages, however the calls of any
\* number of processes overlap, fail and break off: NextUID hands it out once,
\* and only the client that has it installs a row with it.
THEOREM UidsUnique == Spec => []UidNamesOne
<1>1. UidInv => UidNamesOne
  BY DEF UidInv
<1> QED
  BY <1>1, TypeInvStarts, TypeInvStays, UidInvStarts, UidInvStays, PTL DEF Spec

-----------------------------------------------------------------------------
(* Nothing is lost.                                                        *)

\* Somebody set out to delete the message that UID u of folder f stands for.
AskedFor(f, u) == \E id \in asked : <<f, u, id>> \in named

\* An expunge has only such messages on its list and in hand.
ListAsked(c) ==
  work[c].op = "expunge" =>
    /\ work[c].folder = work[c].to
    /\ \A entry \in work[c].todo : AskedFor(work[c].folder, entry.uid)
    /\ at[c] \in {"read", "delete"} => AskedFor(work[c].folder, work[c].uid)

AskInv == NothingLost /\ \A c \in Clients : ListAsked(c)

\* What was asked for, named or purged stays so.
HistoryGrows == asked \subseteq asked' /\ named \subseteq named' /\ purged \subseteq purged'

LEMMA HistoryOfActs ==
  ASSUME NEW c \in Clients, Acts(c)
  PROVE  HistoryGrows
BY DEF Acts, Calls, AppendMessage, ExpungeDeleted, CopyMessage, MoveMessage, UpdateFlags,
       DeleteMessagesOlderThan, Step, FailStep, ReadFile, Lock, NextUID, InsertRow,
       UpdateRow, SetFlags, NextEntry, DeleteRow, Unlink, Bump, ghosts, HistoryGrows

\* A client that rests, or that has no expunge in hand, has nothing to answer for.
LEMMA AskedStays ==
  ASSUME HistoryGrows, NEW c \in Clients, ListAsked(c), at'[c] = at[c], work'[c] = work[c]
  PROVE  ListAsked(c)'
BY DEF HistoryGrows, ListAsked, AskedFor

LEMMA AskedExpunge ==
  ASSUME TypeInv, UidInv, NEW c \in Clients, NEW f \in Folders, ExpungeDeleted(c, f)
  PROVE  ListAsked(c)'
<1> DEFINE flagged == {id \in DOMAIN rows : rows[id].folder = f /\ rows[id].deleted}
           w == [Begin("expunge", f) EXCEPT
                   !.todo = {[uid |-> rows[id].uid, file |-> 0] : id \in flagged}]
<1>1. /\ at'[c] = "next" /\ work'[c] = w
      /\ asked' = asked \cup flagged /\ UNCHANGED <<rows, named>>
  BY DEF ExpungeDeleted, Use, Go, db, TypeInv, Typed, ClientsTyped
<1>2. w.folder = f /\ w.to = f /\ w.todo = {[uid |-> rows[id].uid, file |-> 0] : id \in flagged}
  BY DEF Begin
<1>3. ASSUME NEW id \in flagged PROVE id \in asked' /\ <<f, rows[id].uid, id>> \in named'
  BY <1>1, <1>3 DEF UidInv, RowsNamed
<1>4. \A entry \in w.todo : \E id \in asked' : <<f, entry.uid, id>> \in named'
  BY <1>2, <1>3
<1> QED
  BY <1>1, <1>2, <1>4 DEF ListAsked, AskedFor

LEMMA AskedByStep ==
  ASSUME TypeInv, UidInv, NEW c \in Clients, Acts(c), ListAsked(c)
  PROVE  ListAsked(c)'
<1> USE DEF TypeInv, Typed
<1>1. HistoryGrows
  BY HistoryOfActs
<1>2. CASE Calls(c)
  <2>1. CASE \E f \in Folders : ExpungeDeleted(c, f)
    BY <2>1, AskedExpunge
  <2>2. CASE ~\E f \in Folders : ExpungeDeleted(c, f)
    <3> USE DEF Use, Begin, ClientsTyped
    <3>1. CASE \E f \in Folders : AppendMessage(c, f)
      BY <3>1 DEF AppendMessage, ListAsked
    <3>2. CASE \E id \in DOMAIN rows, f \in Folders : CopyMessage(c, id, f) \/ MoveMessage(c, id, f)
      <4>1. PICK id \in DOMAIN rows, f \in Folders : CopyMessage(c, id, f) \/ MoveMessage(c, id, f)
        BY <3>2
      <4>2. CASE CopyMessage(c, id, f)
        <5>1. work' = [work EXCEPT ![c] = Found("copy", id, f)]
          BY <4>2 DEF CopyMessage
        <5>2. Found("copy", id, f).op = "copy"
          BY DEF Found
        <5> QED
          BY <5>1, <5>2 DEF ListAsked
      <4>3. CASE MoveMessage(c, id, f)
        <5>1. work' = [work EXCEPT ![c] = Found("move", id, f)]
          BY <4>3 DEF MoveMessage
        <5>2. Found("move", id, f).op = "move"
          BY DEF Found
        <5> QED
          BY <5>1, <5>2 DEF ListAsked
      <4> QED
        BY <4>1, <4>2, <4>3
    <3>3. CASE \E id \in DOMAIN rows : UpdateFlags(c, id)
      BY <3>3 DEF UpdateFlags, ListAsked
    <3>4. CASE DeleteMessagesOlderThan(c)
      <4>1. PICK list :
              \E f \in Folders : work' = [work EXCEPT ![c] = [Begin("purge", f) EXCEPT !.todo = list]]
        BY <3>4 DEF DeleteMessagesOlderThan
      <4> QED
        BY <4>1 DEF ListAsked
    <3> QED
      BY <1>2, <2>2, <3>1, <3>2, <3>3, <3>4 DEF Calls
  <2> QED
    BY <2>1, <2>2
<1>3. CASE FailStep(c) \/ work'[c] = NoWork
  BY <1>3 DEF FailStep, End, Use, ClientsTyped, NoWork, ListAsked
<1>4. CASE Step(c) /\ work'[c] # NoWork
  <2>1. SUFFICES ASSUME work'[c].op = "expunge" PROVE ListAsked(c)'
    BY DEF ListAsked
  <2>2. \A f, u : AskedFor(f, u) => \E id \in asked' : <<f, u, id>> \in named'
    BY <1>1 DEF HistoryGrows, AskedFor
  <2>3. CASE ReadFile(c) \/ DeleteRow(c)
    <3>1. work'[c] = work[c] /\ at[c] \in {"read", "delete"}
      BY <1>4, <2>3 DEF ReadFile, DeleteRow, End, Use, ClientsTyped
    <3> QED
      BY <2>1, <2>2, <3>1 DEF ListAsked, AskedFor
  <2>4. CASE NextEntry(c)
    <3> DEFINE w == work[c]
    <3>1. w \in Works /\ w.todo # {}
      BY <1>4, <2>4, AtWork DEF NextEntry, End, Use, ClientsTyped
    <3>2. w.op = "expunge"
      <4>1. PICK entry, file : work'[c] = [w EXCEPT !.uid = entry.uid, !.file = file,
                                                    !.todo = w.todo \ {entry}]
                               \/ work'[c] = [w EXCEPT !.todo = w.todo \ {entry}]
        <5>1. PICK entry \in w.todo :
                \/ work' = [work EXCEPT ![c].uid = entry.uid, ![c].file = entry.file,
                                       ![c].todo = w.todo \ {entry}]
                \/ work' = [work EXCEPT ![c].todo = w.todo \ {entry}]
                \/ \E id \in DOMAIN rows :
                     work' = [work EXCEPT ![c].uid = entry.uid, ![c].file = rows[id].file,
                                          ![c].todo = w.todo \ {entry}]
          BY <2>4, <3>1 DEF NextEntry, RowsAt
        <5> QED
          BY <5>1 DEF ClientsTyped
      <4> QED
        BY <2>1, <3>1, <4>1 DEF Works
    <3>3. PICK entry \in work[c].todo :
            /\ work'[c].todo = work[c].todo \ {entry}
            /\ work'[c].folder = work[c].folder /\ work'[c].to = work[c].to
            /\ at'[c] \in {"read", "next"}
            /\ at'[c] = "read" => work'[c].uid = entry.uid
      <4>1. PICK entry \in w.todo :
              \/ /\ work' = [work EXCEPT ![c].todo = w.todo \ {entry}]
                 /\ UNCHANGED at
              \/ /\ Go(c, "read")
                 /\ \E file : work' = [work EXCEPT ![c].uid = entry.uid, ![c].file = file,
                                                   ![c].todo = w.todo \ {entry}]
        BY <2>4, <3>1, <3>2 DEF NextEntry
      <4>2. CASE work' = [work EXCEPT ![c].todo = w.todo \ {entry}] /\ UNCHANGED at
        BY <2>4, <3>1, <4>2 DEF NextEntry, Works, ClientsTyped
      <4>3. CASE /\ Go(c, "read")
                 /\ \E file : work' = [work EXCEPT ![c].uid = entry.uid, ![c].file = file,
                                                   ![c].todo = w.todo \ {entry}]
        BY <3>1, <4>3 DEF Go, Works, ClientsTyped
      <4> QED
        BY <4>1, <4>2, <4>3
    <3> QED
      BY <2>1, <2>2, <3>1, <3>2, <3>3 DEF ListAsked, AskedFor
  <2>5. CASE Unlink(c)
    <3>1. /\ work'[c] = [Begin(work[c].op, work[c].to) EXCEPT !.todo = work[c].todo]
          /\ at'[c] \in {"next", "bump"}
      BY <2>5 DEF Unlink, Changed, Use, Go, ClientsTyped
    <3>2. /\ work'[c].op = work[c].op /\ work'[c].to = work[c].to
          /\ work'[c].folder = work[c].to /\ work'[c].todo = work[c].todo
      BY <3>1 DEF Begin
    <3> QED
      BY <2>1, <2>2, <3>1, <3>2 DEF ListAsked, AskedFor
  <2>6. CASE Bump(c)
    <3>1. work'[c] = work[c] /\ at'[c] = "next"
      BY <1>4, <2>6 DEF Bump, Go, End, Use, ClientsTyped
    <3> QED
      BY <2>1, <2>2, <3>1 DEF ListAsked, AskedFor
  <2>7. CASE Lock(c) \/ NextUID(c) \/ InsertRow(c) \/ UpdateRow(c) \/ SetFlags(c)
    <3>1. at[c] \in {"lock", "uid", "insert", "update", "set"} /\ work[c].op # "expunge"
          /\ work[c] \in Works
      BY <2>7 DEF Lock, NextUID, InsertRow, UpdateRow, SetFlags, ClientsTyped, Fits
    <3>2. work'[c].op = work[c].op \/ work'[c] = NoWork
      BY <2>7, <3>1 DEF Lock, NextUID, InsertRow, UpdateRow, SetFlags, Changed, Use, Begin,
                        ClientsTyped, Works
    <3> QED
      BY <1>4, <2>1, <3>1, <3>2
  <2> QED
    BY <1>4, <2>3, <2>4, <2>5, <2>6, <2>7 DEF Step
<1> QED
  BY <1>2, <1>3, <1>4 DEF Acts

\* The row that an expunge deletes is one that somebody set out to delete: the
\* UID on its list has never stood for another.
LEMMA DoomedWereAsked ==
  ASSUME UidInv, NEW c \in Clients, ListAsked(c), work[c].op = "expunge", at[c] = "delete",
         NEW id \in RowsAt(work[c].folder, work[c].uid)
  PROVE  id \in asked
<1>1. PICK old \in asked : <<work[c].folder, work[c].uid, old>> \in named
  BY DEF ListAsked, AskedFor
<1>2. <<work[c].folder, work[c].uid, id>> \in named
  BY DEF RowsAt, UidInv, RowsNamed
<1>3. id = old
  BY <1>1, <1>2 DEF UidInv, UidNamesOne
<1> QED
  BY <1>3

LEMMA NothingLostByStep ==
  ASSUME TypeInv, UidInv, AskInv, NEW c \in Clients, Acts(c)
  PROVE  NothingLost'
<1> USE DEF TypeInv, Typed, RowsTyped
<1>1. HistoryGrows
  BY HistoryOfActs
<1>2. CASE DeleteRow(c)
  <2>1. DOMAIN rows' = DOMAIN rows \ Doomed(c) /\ nextRow' = nextRow
    BY <1>2 DEF DeleteRow, Keep
  <2>2. Doomed(c) \subseteq asked' \cup purged'
    <3>1. CASE work[c].op = "purge"
      BY <1>2, <3>1 DEF DeleteRow
    <3>2. CASE work[c].op # "purge"
      <4>1. work[c].op = "expunge" /\ at[c] = "delete"
        BY <1>2, <3>2 DEF DeleteRow, ClientsTyped, Fits
      <4>2. Doomed(c) \subseteq asked
        BY <3>2, <4>1, DoomedWereAsked DEF Doomed, AskInv
      <4> QED
        BY <1>1, <4>2 DEF HistoryGrows
    <3> QED
      BY <3>1, <3>2
  <2> QED
    BY <1>1, <2>1, <2>2 DEF AskInv, NothingLost, HistoryGrows
<1>3. CASE InsertRow(c)
  <2>1. DOMAIN rows' = DOMAIN rows \cup {nextRow} /\ nextRow' = nextRow + 1
    BY <1>3 DEF InsertRow
  <2>2. \A id \in 1..(nextRow' - 1) : id \in 1..(nextRow - 1) \/ id = nextRow
    BY <2>1
  <2> QED
    BY <1>1, <2>1, <2>2 DEF AskInv, NothingLost, HistoryGrows
<1>4. CASE ~DeleteRow(c) /\ ~InsertRow(c)
  <2>1. DOMAIN rows' = DOMAIN rows /\ nextRow' = nextRow
    BY <1>4 DEF Acts, Calls, AppendMessage, ExpungeDeleted, CopyMessage, MoveMessage,
                UpdateFlags, DeleteMessagesOlderThan, Step, FailStep, ReadFile, Lock, NextUID,
                UpdateRow, SetFlags, NextEntry, Unlink, Bump, db
  <2> QED
    BY <1>1, <2>1 DEF AskInv, NothingLost, HistoryGrows
<1> QED
  BY <1>2, <1>3, <1>4

LEMMA AskInvStays ==
  ASSUME TypeInv, UidInv, AskInv, [Next]_vars
  PROVE  AskInv'
<1>1. ASSUME NEW c \in Clients, Acts(c) PROVE AskInv'
  <2>1. \A d \in Clients \ {c} : ListAsked(d)'
    BY <1>1, OneMoves, HistoryOfActs, AskedStays DEF TypeInv, OthersRest, AskInv
  <2>2. ListAsked(c)'
    BY <1>1, AskedByStep DEF AskInv
  <2> QED
    BY <1>1, <2>1, <2>2, NothingLostByStep DEF AskInv
<1>2. ASSUME NEW p, Crash(p) PROVE AskInv'
  <2>1. UNCHANGED <<rows, nextRow, named, asked, purged>>
        /\ \A d \in Clients : work'[d] = NoWork \/ (work'[d] = work[d] /\ at'[d] = at[d])
    BY <1>2 DEF Crash, db, TypeInv, Typed, ClientsTyped
  <2>2. \A d \in Clients : ListAsked(d)'
    <3> SUFFICES ASSUME NEW d \in Clients PROVE ListAsked(d)'
      OBVIOUS
    <3>1. CASE work'[d] = NoWork
      BY <3>1 DEF ListAsked, NoWork
    <3>2. CASE work'[d] = work[d] /\ at'[d] = at[d]
      BY <2>1, <3>2, AskedStays DEF HistoryGrows, AskInv
    <3> QED
      BY <2>1, <3>1, <3>2
  <2> QED
    BY <2>1, <2>2 DEF AskInv, NothingLost
<1>3. ASSUME NEW id \in DOMAIN rows, Age(id) PROVE AskInv'
  <2>1. UNCHANGED <<at, work, nextRow, named, asked, purged>> /\ DOMAIN rows' = DOMAIN rows
    BY <1>3 DEF Age, db, ghosts
  <2> QED
    BY <2>1 DEF AskInv, NothingLost, ListAsked, AskedFor
<1>4. CASE UNCHANGED vars
  BY <1>4 DEF vars, AskInv, NothingLost, ListAsked, AskedFor
<1> QED
  BY <1>1, <1>2, <1>3, <1>4 DEF Next, Acts, Calls

LEMMA AskInvStarts == Init => AskInv
BY DEF Init, AskInv, NothingLost, ListAsked, NoWork

\* A message is gone only if an expunge found it flagged or the retention took
\* it: no overlap of sessions, no failed statement and no crash loses one.
THEOREM NothingIsLost == Spec => []NothingLost
<1>1. AskInv => NothingLost
  BY DEF AskInv
<1> QED
  BY <1>1, TypeInvStarts, TypeInvStays, UidInvStarts, UidInvStays, AskInvStarts, AskInvStays,
     PTL DEF Spec

-----------------------------------------------------------------------------
(* Files.                                                                  *)

\* The files that an operation may still name.
Knows(stage, w) ==
  IF stage = "idle" THEN {} ELSE {w.file} \cup {entry.file : entry \in w.todo}

\* What an operation that is going to remove a file knows of row id: that it
\* does not name the file, or that it is the row that will change or go first.
HeldBy(stage, w, id) ==
  /\ stage = "unlink" => rows[id].file # w.file
  /\ stage \in {"read", "uid", "update"} /\ w.op = "move" /\ rows[id].file = w.file
       => id = w.id
  /\ stage \in {"read", "delete"} /\ w.op = "expunge" /\ rows[id].file = w.file
       => rows[id].folder = w.folder /\ rows[id].uid = w.uid
  /\ stage = "delete" /\ w.op = "purge" /\ rows[id].file = w.file
       => rows[id].uid = w.uid
  /\ w.op = "purge" =>
       \A entry \in w.todo : rows[id].file = entry.file => rows[id].uid = entry.uid

Held(c) == \A id \in DOMAIN rows : HeldBy(at[c], work[c], id)

\* The file in hand is there, and nobody else knows of it.
HandFile(c) ==
  InHand(c) => /\ work[c].newFile \in files
               /\ \A id \in DOMAIN rows : rows[id].file # work[c].newFile
HandUnknown(c, d) ==
  InHand(c) => /\ InHand(d) /\ c # d => work[c].newFile # work[d].newFile
               /\ work[c].newFile \notin Knows(at[d], work[d])

KnownOld(c) == \A f \in Knows(at[c], work[c]) : f < nextFile
FilesApart == \A i, j \in DOMAIN rows : rows[i].file = rows[j].file => i = j

FileInv ==
  /\ FilesApart /\ RowHasFile
  /\ \A c \in Clients : HandFile(c) /\ KnownOld(c) /\ Held(c)
  /\ \A c, d \in Clients : HandUnknown(c, d)

\* Client c learns of no file but those of rows.
LearnsOfRows(c) ==
  \A f \in Knows(at[c], work[c])' :
    f \in Knows(at[c], work[c]) \cup {0} \cup {rows[id].file : id \in DOMAIN rows}

\* No row and no hand needs a file that is removed.
DropsUnneeded ==
  \A f \in files \ files' :
    /\ \A id \in DOMAIN rows' : rows'[id].file # f
    /\ \A d \in Clients : InHand(d)' => work[d].newFile # f

LEMMA RowFiles ==
  ASSUME TypeInv, NEW id \in DOMAIN rows
  PROVE  rows[id] \in Messages /\ rows[id].file \in Nat \ {0}
BY DEF TypeInv, Typed, RowsTyped, Messages

LEMMA FilesOld ==
  ASSUME TypeInv, FileInv
  PROVE  /\ nextFile \in Nat \ {0}
         /\ \A f \in files : f \in Nat \ {0} /\ f < nextFile
         /\ \A id \in DOMAIN rows : rows[id].file < nextFile
         /\ \A c \in Clients : InHand(c) => work[c].newFile \in Nat \ {0}
BY DEF TypeInv, Typed, RowsTyped, ClientsTyped, Fits, InHand, FileInv, RowHasFile

LEMMA HeldStays ==
  ASSUME NEW d \in Clients, Held(d), TypeInv, at'[d] = at[d], work'[d] = work[d],
         \A id \in DOMAIN rows' :
           \/ /\ id \in DOMAIN rows
              /\ rows'[id].folder = rows[id].folder
              /\ rows'[id].uid = rows[id].uid
              /\ rows'[id].file = rows[id].file
           \/ rows'[id].file \notin Knows(at[d], work[d])
  PROVE  Held(d)'
<1> SUFFICES ASSUME NEW id \in DOMAIN rows' PROVE HeldBy(at[d], work[d], id)'
  BY DEF Held
<1>1. CASE rows'[id].file \notin Knows(at[d], work[d])
  <2>1. CASE at[d] = "idle"
    BY <2>1 DEF TypeInv, Typed, ClientsTyped, Fits, NoWork, HeldBy
  <2>2. CASE at[d] # "idle"
    BY <1>1, <2>2 DEF Knows, HeldBy
  <2> QED
    BY <2>1, <2>2
<1>2. CASE /\ id \in DOMAIN rows
           /\ rows'[id].folder = rows[id].folder
           /\ rows'[id].uid = rows[id].uid
           /\ rows'[id].file = rows[id].file
  <2>1. HeldBy(at[d], work[d], id)
    BY <1>2 DEF Held
  <2> QED
    BY <1>2, <2>1 DEF HeldBy
<1> QED
  BY <1>1, <1>2

LEMMA FilesQuiet ==
  ASSUME TypeInv, FileInv, NEW c \in Clients, OthersRest(c), RowsFewer, HandsFewer,
         ~InHand(c)', UNCHANGED nextFile, DropsUnneeded, LearnsOfRows(c), Held(c)'
  PROVE  FileInv'
<1>1. FilesApart' /\ RowHasFile'
  BY DEF FileInv, FilesApart, RowHasFile, RowsFewer, DropsUnneeded
<1>2. \A d \in Clients : HandFile(d)'
  BY DEF FileInv, HandFile, HandsFewer, RowsFewer, DropsUnneeded
<1>3. \A d \in Clients : Held(d)'
  BY HeldStays DEF FileInv, OthersRest, RowsFewer
<1>4. \A d \in Clients \ {c} : Knows(at[d], work[d])' = Knows(at[d], work[d])
  BY DEF OthersRest, Knows
<1>5. \A d \in Clients : KnownOld(d)'
  <2>1. \A d \in Clients \ {c} : KnownOld(d)'
    BY <1>4 DEF FileInv, KnownOld
  <2>2. KnownOld(c)'
    BY FilesOld DEF FileInv, KnownOld, LearnsOfRows
  <2> QED
    BY <2>1, <2>2
<1>6. \A d, e \in Clients : HandUnknown(d, e)'
  <2> SUFFICES ASSUME NEW d \in Clients, NEW e \in Clients, InHand(d)' PROVE HandUnknown(d, e)'
    BY DEF HandUnknown
  <2>1. d # c /\ InHand(d) /\ work'[d] = work[d] /\ (InHand(e)' => InHand(e) /\ work'[e] = work[e])
    BY DEF HandsFewer
  <2>2. work[d].newFile \notin Knows(at[e], work[e])'
    <3>1. CASE e = c
      BY <2>1, <3>1, FilesOld DEF FileInv, HandUnknown, HandFile, LearnsOfRows
    <3>2. CASE e # c
      BY <1>4, <2>1, <3>2 DEF FileInv, HandUnknown
    <3> QED
      BY <3>1, <3>2
  <2> QED
    BY <2>1, <2>2 DEF FileInv, HandUnknown
<1> QED
  BY <1>1, <1>2, <1>3, <1>5, <1>6 DEF FileInv

LEMMA FilesTaken ==
  ASSUME TypeInv, FileInv, NEW c \in Clients, OthersRest(c), NextUID(c)
  PROVE  FileInv'
<1> USE DEF TypeInv, Typed
<1>1. /\ work'[c] = [work[c] EXCEPT !.newUid = nextUid[work[c].to], !.newFile = nextFile]
      /\ work[c] \in Works /\ at[c] = "uid" /\ at'[c] \in {"insert", "update"}
      /\ at'[c] = "update" => work[c].op = "move"
      /\ files' = files \cup {nextFile} /\ nextFile' = nextFile + 1 /\ UNCHANGED rows
  BY AtWork DEF NextUID, Go, ClientsTyped
<1>2. /\ work'[c].newFile = nextFile /\ work'[c].file = work[c].file
      /\ work'[c].todo = work[c].todo /\ work'[c].op = work[c].op /\ work'[c].id = work[c].id
      /\ work[c].op # "purge" /\ work[c].op # "expunge"
  BY <1>1 DEF Works, ClientsTyped, Fits
<1>3. \A d \in Clients : Knows(at[d], work[d])' = Knows(at[d], work[d])
  BY <1>1, <1>2 DEF OthersRest, Knows
<1>4. \A d \in Clients : KnownOld(d)'
  <2> SUFFICES ASSUME NEW d \in Clients, NEW f \in Knows(at[d], work[d]) PROVE f < nextFile + 1
    BY <1>1, <1>3 DEF KnownOld
  <2>1. f < nextFile
    BY DEF FileInv, KnownOld
  <2>2. f \in Nat
    BY AtWork DEF Knows, Works
  <2> QED
    BY <2>1, <2>2, FilesOld
<1>5. \A d \in Clients : Held(d)'
  <2>1. \A d \in Clients \ {c} : Held(d)'
    BY <1>1, HeldStays DEF FileInv, OthersRest
  <2>2. Held(c)'
    BY <1>1, <1>2 DEF FileInv, Held, HeldBy
  <2> QED
    BY <2>1, <2>2
<1>6. \A d \in Clients : HandFile(d)'
  <2>1. HandFile(c)'
    BY <1>1, <1>2, FilesOld DEF HandFile
  <2>2. \A d \in Clients \ {c} : HandFile(d)'
    BY <1>1 DEF FileInv, OthersRest, HandFile, InHand
  <2> QED
    BY <2>1, <2>2
<1>7. \A d, e \in Clients : HandUnknown(d, e)'
  <2> SUFFICES ASSUME NEW d \in Clients, NEW e \in Clients, InHand(d)' PROVE HandUnknown(d, e)'
    BY DEF HandUnknown
  <2>1. \A f \in Knows(at[e], work[e])' : f < nextFile
    BY <1>3 DEF FileInv, KnownOld
  <2>2. \A g \in Clients \ {c} : InHand(g)' => /\ InHand(g) /\ work'[g] = work[g]
                                             /\ work[g].newFile < nextFile
                                             /\ work[g].newFile \in Nat
    BY FilesOld DEF OthersRest, InHand, FileInv, HandFile
  <2>3. CASE d = c
    BY <1>2, <2>1, <2>2, <2>3, FilesOld DEF HandUnknown
  <2>4. CASE d # c
    BY <1>2, <1>3, <2>2, <2>4, FilesOld DEF FileInv, HandUnknown
  <2> QED
    BY <2>3, <2>4
<1> QED
  BY <1>1, <1>4, <1>5, <1>6, <1>7 DEF FileInv, FilesApart, RowHasFile

\* Row k is installed with the file that client c has in hand.
LEMMA FilesInstalled ==
  ASSUME TypeInv, FileInv, NEW c \in Clients, NEW k, OthersRest(c), InHand(c), ~InHand(c)',
         UNCHANGED <<files, nextFile>>, LearnsOfRows(c), Held(c)',
         DOMAIN rows' = DOMAIN rows \cup {k}, rows'[k].file = work[c].newFile,
         \A id \in DOMAIN rows \ {k} : rows'[id] = rows[id]
  PROVE  FileInv'
<1>1. \A d \in Clients : InHand(d)' => d # c /\ InHand(d) /\ work'[d] = work[d]
  BY DEF OthersRest, InHand
<1>2. FilesApart' /\ RowHasFile'
  BY DEF FileInv, HandFile, FilesApart, RowHasFile
<1>3. \A d \in Clients : HandFile(d)'
  BY <1>1 DEF FileInv, HandFile, HandUnknown
<1>4. \A d \in Clients \ {c} : Knows(at[d], work[d])' = Knows(at[d], work[d])
  BY DEF OthersRest, Knows
<1>5. \A d \in Clients : Held(d)'
  <2>1. \A d \in Clients : work[c].newFile \notin Knows(at[d], work[d])
    BY DEF FileInv, HandUnknown
  <2> QED
    BY <2>1, HeldStays DEF FileInv, OthersRest
<1>6. \A d \in Clients : KnownOld(d)'
  <2>1. \A d \in Clients \ {c} : KnownOld(d)'
    BY <1>4 DEF FileInv, KnownOld
  <2>2. KnownOld(c)'
    BY FilesOld DEF FileInv, KnownOld, LearnsOfRows
  <2> QED
    BY <2>1, <2>2
<1>7. \A d, e \in Clients : HandUnknown(d, e)'
  <2> SUFFICES ASSUME NEW d \in Clients, NEW e \in Clients, InHand(d)' PROVE HandUnknown(d, e)'
    BY DEF HandUnknown
  <2>1. work[d].newFile \notin Knows(at[e], work[e])'
    <3>1. CASE e = c
      BY <1>1, <3>1, FilesOld DEF FileInv, HandUnknown, HandFile, LearnsOfRows
    <3>2. CASE e # c
      BY <1>1, <1>4, <3>2 DEF FileInv, HandUnknown
    <3> QED
      BY <3>1, <3>2
  <2> QED
    BY <1>1, <2>1 DEF FileInv, HandUnknown
<1> QED
  BY <1>2, <1>3, <1>5, <1>6, <1>7 DEF FileInv

\* Client c has gone to a stage with a work that is good for every row there was.
LEMMA HeldAfter ==
  ASSUME RowsFewer, NEW c \in Clients, NEW stage, NEW w, at'[c] = stage, work'[c] = w,
         \A id \in DOMAIN rows : HeldBy(stage, w, id)
  PROVE  Held(c)'
<1> SUFFICES ASSUME NEW id \in DOMAIN rows' PROVE HeldBy(at[c], work[c], id)'
  BY DEF Held
<1>1. HeldBy(stage, w, id)
  BY DEF RowsFewer
<1> QED
  BY <1>1 DEF RowsFewer, HeldBy

\* A work that removes nothing, at a stage that removes nothing.
LEMMA HeldNothing ==
  ASSUME NEW stage, NEW w, NEW id, stage # "unlink", w.op # "purge",
         stage \notin {"read", "uid", "update", "delete"}
           \/ w.op \notin {"move", "expunge"}
  PROVE  HeldBy(stage, w, id)
BY DEF HeldBy

Learned(stage, w, c) ==
  \A f \in Knows(stage, w) :
    f \in Knows(at[c], work[c]) \cup {0} \cup {rows[id].file : id \in DOMAIN rows}

LEMMA HeldByCalls ==
  ASSUME TypeInv, FileInv, NEW c \in Clients, Calls(c)
  PROVE  \E stage, w : /\ at'[c] = stage /\ work'[c] = w
                       /\ \A id \in DOMAIN rows : HeldBy(stage, w, id)
                       /\ Learned(stage, w, c)
<1> USE DEF TypeInv, Typed, ClientsTyped, Go, Use
<1>1. CASE \E f \in Folders : AppendMessage(c, f)
  <2>1. PICK f \in Folders : AppendMessage(c, f)
    BY <1>1
  <2>2. at'[c] = "lock" /\ work'[c] = Begin("append", f)
    BY <2>1 DEF AppendMessage
  <2>3. /\ Begin("append", f).op = "append" /\ Begin("append", f).file = 0
        /\ Begin("append", f).todo = {}
    BY DEF Begin
  <2> QED
    BY <2>2, <2>3, HeldNothing DEF Learned, Knows
<1>2. CASE \E f \in Folders : ExpungeDeleted(c, f)
  <2>1. PICK f \in Folders : ExpungeDeleted(c, f)
    BY <1>2
  <2> DEFINE flagged == {id \in DOMAIN rows : rows[id].folder = f /\ rows[id].deleted}
             w == [Begin("expunge", f) EXCEPT
                     !.todo = {[uid |-> rows[id].uid, file |-> 0] : id \in flagged}]
  <2>2. at'[c] = "next" /\ work'[c] = w
    BY <2>1 DEF ExpungeDeleted
  <2>3. /\ w.op = "expunge" /\ w.file = 0
        /\ w.todo = {[uid |-> rows[id].uid, file |-> 0] : id \in flagged}
    BY DEF Begin
  <2>4. \A entry \in w.todo : entry.file = 0
    BY <2>3
  <2> HIDE DEF w
  <2> QED
    BY <2>2, <2>3, <2>4, HeldNothing DEF Learned, Knows
<1>3. CASE \E id \in DOMAIN rows, f \in Folders : CopyMessage(c, id, f)
  <2>1. PICK id \in DOMAIN rows, f \in Folders : CopyMessage(c, id, f)
    BY <1>3
  <2>2. at'[c] = "read" /\ work'[c] = Found("copy", id, f)
    BY <2>1 DEF CopyMessage
  <2>3. /\ Found("copy", id, f).op = "copy" /\ Found("copy", id, f).file = rows[id].file
        /\ Found("copy", id, f).todo = {}
    BY DEF Found, Begin
  <2> QED
    BY <2>2, <2>3, HeldNothing DEF Learned, Knows
<1>4. CASE \E id \in DOMAIN rows, f \in Folders : MoveMessage(c, id, f)
  <2>1. PICK id \in DOMAIN rows, f \in Folders : MoveMessage(c, id, f)
    BY <1>4
  <2> DEFINE w == Found("move", id, f)
  <2>2. at'[c] = "read" /\ work'[c] = w
    BY <2>1 DEF MoveMessage
  <2>3. w.op = "move" /\ w.file = rows[id].file /\ w.id = id /\ w.todo = {}
    BY DEF Found, Begin
  <2> HIDE DEF w
  <2>4. \A i \in DOMAIN rows : HeldBy("read", w, i)
    BY <2>3 DEF HeldBy, FileInv, FilesApart
  <2> QED
    BY <2>2, <2>3, <2>4 DEF Learned, Knows
<1>5. CASE \E id \in DOMAIN rows : UpdateFlags(c, id)
  <2>1. PICK id \in DOMAIN rows : UpdateFlags(c, id)
    BY <1>5
  <2> DEFINE w == [Begin("flags", rows[id].folder) EXCEPT !.uid = rows[id].uid]
  <2>2. at'[c] = "set" /\ work'[c] = w
    BY <2>1 DEF UpdateFlags
  <2>3. w.op = "flags" /\ w.file = 0 /\ w.todo = {}
    BY DEF Begin
  <2> HIDE DEF w
  <2> QED
    BY <2>2, <2>3, HeldNothing DEF Learned, Knows
<1>6. CASE DeleteMessagesOlderThan(c)
  <2> DEFINE old == {id \in DOMAIN rows : rows[id].old}
             list == {[uid |-> rows[id].uid, file |-> rows[id].file] : id \in old}
  <2>1. PICK f \in Folders : work' = [work EXCEPT ![c] = [Begin("purge", f) EXCEPT !.todo = list]]
    BY <1>6 DEF DeleteMessagesOlderThan
  <2> DEFINE w == [Begin("purge", f) EXCEPT !.todo = list]
  <2>2. at'[c] = "next" /\ work'[c] = w
    BY <1>6, <2>1 DEF DeleteMessagesOlderThan
  <2>3. w.op = "purge" /\ w.file = 0 /\ w.todo = list
    BY DEF Begin
  <2> HIDE DEF w
  <2>4. \A entry \in w.todo : \E id \in DOMAIN rows :
          entry.file = rows[id].file /\ entry.uid = rows[id].uid
    BY <2>3
  <2>5. \A i \in DOMAIN rows : HeldBy("next", w, i)
    BY <2>4 DEF HeldBy, FileInv, FilesApart
  <2> QED
    BY <2>2, <2>3, <2>4, <2>5 DEF Learned, Knows
<1> QED
  BY <1>1, <1>2, <1>3, <1>4, <1>5, <1>6 DEF Calls

\* The steps that change no row but its flags, and do not hand out a file.
LEMMA HeldBySteps ==
  ASSUME TypeInv, FileInv, NEW c \in Clients,
         ReadFile(c) \/ Lock(c) \/ SetFlags(c) \/ NextEntry(c) \/ Unlink(c) \/ Bump(c)
           \/ FailStep(c)
  PROVE  \E stage, w : /\ at'[c] = stage /\ work'[c] = w
                       /\ \A id \in DOMAIN rows : HeldBy(stage, w, id)
                       /\ Learned(stage, w, c)
<1> USE DEF TypeInv, Typed, ClientsTyped
<1> DEFINE w == work[c]
           changed == [Begin(w.op, w.to) EXCEPT !.todo = w.todo]
<1>1. at[c] # "idle"
  BY DEF ReadFile, Lock, SetFlags, NextEntry, Unlink, Bump, FailStep
<1>2. w \in Works /\ Fits(at[c], w) /\ \A id \in DOMAIN rows : HeldBy(at[c], w, id)
  BY <1>1, AtWork DEF FileInv, Held
<1>3. /\ changed.op = w.op /\ changed.file = 0 /\ changed.todo = w.todo
  BY DEF Begin
<1>4. ASSUME at'[c] = "idle", work'[c] = NoWork
      PROVE  \E stage, v : /\ at'[c] = stage /\ work'[c] = v
                           /\ \A id \in DOMAIN rows : HeldBy(stage, v, id)
                           /\ Learned(stage, v, c)
  <2>1. \A id \in DOMAIN rows : HeldBy("idle", NoWork, id)
    BY HeldNothing DEF NoWork
  <2> QED
    BY <1>4, <2>1 DEF Learned, Knows
<1>5. ASSUME NEW stage, at'[c] = stage, work'[c] = w,
             \A id \in DOMAIN rows : HeldBy(stage, w, id)
      PROVE  \E s, v : /\ at'[c] = s /\ work'[c] = v
                       /\ \A id \in DOMAIN rows : HeldBy(s, v, id)
                       /\ Learned(s, v, c)
  BY <1>1, <1>5 DEF Learned, Knows
<1>6. ASSUME NEW stage \in {"next", "bump"}, at'[c] = stage, work'[c] = changed
      PROVE  \E s, v : /\ at'[c] = s /\ work'[c] = v
                       /\ \A id \in DOMAIN rows : HeldBy(s, v, id)
                       /\ Learned(s, v, c)
  <2> HIDE DEF changed
  <2>1. \A id \in DOMAIN rows : HeldBy(stage, changed, id)
    BY <1>2, <1>3 DEF HeldBy
  <2>2. Learned(stage, changed, c)
    BY <1>1, <1>3 DEF Learned, Knows
  <2> QED
    BY <1>6, <2>1, <2>2
<1>7. CASE FailStep(c)
  BY <1>4, <1>7 DEF FailStep, End, Go, Use
<1>8. CASE ReadFile(c)
  <2>1. CASE End(c)
    BY <1>4, <2>1 DEF End, Go, Use
  <2>2. CASE ~End(c)
    <3>1. /\ work'[c] = w /\ at[c] = "read"
          /\ \/ w.op = "copy" /\ at'[c] = "lock"
             \/ w.op = "move" /\ at'[c] = "uid"
             \/ w.op = "expunge" /\ at'[c] = "delete"
      BY <1>2, <1>8, <2>2 DEF ReadFile, Go, Fits
    <3>2. \A id \in DOMAIN rows : HeldBy(at'[c], w, id)
      BY <1>2, <3>1 DEF HeldBy
    <3> QED
      BY <1>5, <3>1, <3>2
  <2> QED
    BY <2>1, <2>2
<1>9. CASE Lock(c)
  <2>1. CASE work' = work
    <3>1. at'[c] = "uid" /\ w.op \notin {"move", "expunge", "purge"}
      BY <1>2, <1>9, <2>1 DEF Lock, Go, Use, Fits, NoWork
    <3>2. \A id \in DOMAIN rows : HeldBy("uid", w, id)
      BY <3>1, HeldNothing
    <3> QED
      BY <1>5, <2>1, <3>1, <3>2
  <2>2. CASE work' # work
    BY <1>4, <1>9, <2>2 DEF Lock, Go, Use
  <2> QED
    BY <2>1, <2>2
<1>10. CASE SetFlags(c)
  <2>1. at'[c] = "bump" /\ work'[c] = changed
    BY <1>10 DEF SetFlags, Go, Changed, Use
  <2> QED
    BY <1>6, <2>1
<1>11. CASE Unlink(c)
  <2>1. at'[c] \in {"next", "bump"} /\ work'[c] = changed
    BY <1>11 DEF Unlink, Go, Changed, Use
  <2> QED
    BY <1>6, <2>1
<1>12. CASE Bump(c)
  <2>1. CASE End(c)
    BY <1>4, <2>1 DEF End, Go, Use
  <2>2. CASE ~End(c)
    <3>1. work'[c] = w /\ at'[c] = "next" /\ w.op = "expunge"
      BY <1>12, <2>2 DEF Bump, Go
    <3>2. \A id \in DOMAIN rows : HeldBy("next", w, id)
      BY <3>1, HeldNothing
    <3> QED
      BY <1>5, <3>1, <3>2
  <2> QED
    BY <2>1, <2>2
<1>13. CASE NextEntry(c)
  <2>1. CASE End(c)
    BY <1>4, <2>1 DEF End, Go, Use
  <2>2. CASE ~End(c)
    <3>1. PICK entry \in w.todo :
            \/ /\ w.op = "purge"
               /\ work' = [work EXCEPT ![c].uid = entry.uid, ![c].file = entry.file,
                                       ![c].todo = w.todo \ {entry}]
               /\ Go(c, "delete")
            \/ /\ w.op # "purge"
               /\ work' = [work EXCEPT ![c].todo = w.todo \ {entry}] /\ UNCHANGED at
            \/ /\ w.op # "purge"
               /\ \E id \in RowsAt(w.folder, entry.uid) :
                    work' = [work EXCEPT ![c].uid = entry.uid, ![c].file = rows[id].file,
                                         ![c].todo = w.todo \ {entry}]
               /\ Go(c, "read")
      BY <1>13, <2>2 DEF NextEntry
    <3>2. w.op \in {"expunge", "purge"} /\ at[c] = "next"
      BY <1>2, <1>13 DEF NextEntry, Fits
    <3>3. CASE /\ w.op = "purge"
               /\ work' = [work EXCEPT ![c].uid = entry.uid, ![c].file = entry.file,
                                       ![c].todo = w.todo \ {entry}]
               /\ Go(c, "delete")
      <4>1. /\ at'[c] = "delete" /\ work'[c].op = "purge" /\ work'[c].uid = entry.uid
            /\ work'[c].file = entry.file /\ work'[c].todo = w.todo \ {entry}
        BY <1>2, <3>3 DEF Go, Works
      <4>2. \A id \in DOMAIN rows : HeldBy("delete", work'[c], id)
        BY <1>2, <3>3, <4>1 DEF HeldBy
      <4>3. Learned("delete", work'[c], c)
        BY <1>1, <4>1 DEF Learned, Knows
      <4> QED
        BY <4>1, <4>2, <4>3
    <3>4. CASE /\ w.op # "purge"
               /\ work' = [work EXCEPT ![c].todo = w.todo \ {entry}] /\ UNCHANGED at
      <4>1. /\ at'[c] = "next" /\ work'[c].op = "expunge" /\ work'[c].file = w.file
            /\ work'[c].todo = w.todo \ {entry}
        BY <1>2, <3>2, <3>4 DEF Works
      <4>2. \A id \in DOMAIN rows : HeldBy("next", work'[c], id)
        BY <4>1, HeldNothing
      <4>3. Learned("next", work'[c], c)
        BY <1>1, <4>1 DEF Learned, Knows
      <4> QED
        BY <4>1, <4>2, <4>3
    <3>5. CASE /\ w.op # "purge"
               /\ \E id \in RowsAt(w.folder, entry.uid) :
                    work' = [work EXCEPT ![c].uid = entry.uid, ![c].file = rows[id].file,
                                         ![c].todo = w.todo \ {entry}]
               /\ Go(c, "read")
      <4>1. PICK id \in RowsAt(w.folder, entry.uid) :
              work' = [work EXCEPT ![c].uid = entry.uid, ![c].file = rows[id].file,
                                   ![c].todo = w.todo \ {entry}]
        BY <3>5
      <4>2. /\ at'[c] = "read" /\ work'[c].op = "expunge" /\ work'[c].uid = entry.uid
            /\ work'[c].file = rows[id].file /\ work'[c].todo = w.todo \ {entry}
            /\ work'[c].folder = w.folder
        BY <1>2, <3>2, <3>5, <4>1 DEF Go, Works
      <4>3. \A i \in DOMAIN rows : HeldBy("read", work'[c], i)
        BY <4>1, <4>2 DEF HeldBy, FileInv, FilesApart, RowsAt
      <4>4. Learned("read", work'[c], c)
        BY <1>1, <4>1, <4>2 DEF Learned, Knows, RowsAt
      <4> QED
        BY <4>2, <4>3, <4>4
    <3> QED
      BY <3>1, <3>3, <3>4, <3>5
  <2> QED
    BY <2>1, <2>2
<1> QED
  BY <1>7, <1>8, <1>9, <1>10, <1>11, <1>12, <1>13

LEMMA LearnsWhatItMay ==
  ASSUME NEW c \in Clients, NEW stage, NEW w, at'[c] = stage, work'[c] = w,
         Learned(stage, w, c)
  PROVE  LearnsOfRows(c)
BY DEF LearnsOfRows, Learned, Knows

LEMMA RemovedFiles ==
  ASSUME TypeInv, FileInv, NEW c \in Clients, Acts(c), RowsFewer, HandsFewer, ~InHand(c)'
  PROVE  DropsUnneeded
<1> USE DEF TypeInv, Typed, ClientsTyped
<1>1. CASE Unlink(c)
  <2>1. at[c] = "unlink" /\ files \ files' \subseteq {work[c].file}
    BY <1>1 DEF Unlink
  <2>2. work[c].file \in Knows(at[c], work[c])
    BY <2>1 DEF Knows
  <2>3. \A id \in DOMAIN rows : rows[id].file # work[c].file
    BY <2>1 DEF FileInv, Held, HeldBy
  <2>4. \A d \in Clients : InHand(d) => work[d].newFile # work[c].file
    BY <2>2 DEF FileInv, HandUnknown
  <2> QED
    BY <2>1, <2>3, <2>4 DEF DropsUnneeded, RowsFewer, HandsFewer
<1>2. CASE FailStep(c)
  <2>1. files' = files \/ (at[c] = "insert" /\ files' = files \ {work[c].newFile})
    BY <1>2 DEF FailStep
  <2>2. CASE at[c] = "insert" /\ files' = files \ {work[c].newFile}
    <3>1. InHand(c)
      BY <2>2 DEF InHand
    <3>2. \A d \in Clients : InHand(d) /\ d # c => work[d].newFile # work[c].newFile
      BY <3>1 DEF FileInv, HandUnknown
    <3> QED
      BY <2>2, <3>1, <3>2 DEF DropsUnneeded, RowsFewer, HandsFewer, FileInv, HandFile
  <2> QED
    BY <2>1, <2>2 DEF DropsUnneeded
<1>3. CASE ~Unlink(c) /\ ~FailStep(c)
  <2>1. files \subseteq files'
    BY <1>3 DEF Acts, Calls, AppendMessage, ExpungeDeleted, CopyMessage, MoveMessage,
                UpdateFlags, DeleteMessagesOlderThan, Step, ReadFile, Lock, NextUID, InsertRow,
                UpdateRow, SetFlags, NextEntry, DeleteRow, Bump, db
  <2> QED
    BY <2>1 DEF DropsUnneeded
<1> QED
  BY <1>1, <1>2, <1>3

\* When a row is gone, none is left that names its file.
LEMMA HeldAfterDelete ==
  ASSUME TypeInv, FileInv, NEW c \in Clients, DeleteRow(c)
  PROVE  Held(c)' /\ LearnsOfRows(c)
<1> USE DEF TypeInv, Typed, ClientsTyped
<1>1. /\ at[c] = "delete" /\ at'[c] = "unlink" /\ work'[c] = work[c]
      /\ DOMAIN rows' = DOMAIN rows \ Doomed(c)
      /\ \A id \in DOMAIN rows' : rows'[id] = rows[id]
  BY DEF DeleteRow, Go, Keep
<1>2. work[c].op \in {"expunge", "purge"}
  BY <1>1 DEF Fits
<1>3. \A id \in DOMAIN rows : HeldBy("delete", work[c], id)
  BY <1>1 DEF FileInv, Held
<1>4. ASSUME NEW id \in DOMAIN rows, id \notin Doomed(c) PROVE HeldBy("unlink", work[c], id)
  <2>1. rows[id].file # work[c].file
    BY <1>2, <1>3, <1>4 DEF HeldBy, Doomed, RowsAt
  <2> QED
    BY <1>3, <2>1 DEF HeldBy
<1>5. ASSUME NEW id \in DOMAIN rows' PROVE HeldBy(at[c], work[c], id)'
  BY <1>1, <1>4 DEF HeldBy
<1> QED
  BY <1>1, <1>5 DEF Held, LearnsOfRows, Knows

\* What a client knows once its new row is installed.
LEMMA HeldAfterInstall ==
  ASSUME TypeInv, FileInv, NEW c \in Clients, InsertRow(c) \/ UpdateRow(c)
  PROVE  Held(c)' /\ LearnsOfRows(c)
<1> USE DEF TypeInv, Typed, ClientsTyped
<1>1. CASE InsertRow(c)
  <2> DEFINE w == [Begin(work[c].op, work[c].to) EXCEPT !.todo = work[c].todo]
  <2>1. at[c] = "insert" /\ at'[c] = "bump" /\ work'[c] = w
    BY <1>1 DEF InsertRow, Go, Changed, Use
  <2>2. w.op = work[c].op /\ w.file = 0 /\ w.todo = work[c].todo
    BY DEF Begin
  <2>3. work[c].op \in {"append", "copy"}
    BY <2>1 DEF Fits
  <2> HIDE DEF w
  <2>4. Held(c)'
    BY <2>1, <2>2, <2>3 DEF Held, HeldBy
  <2> QED
    BY <2>1, <2>2, <2>4 DEF LearnsOfRows, Knows
<1>2. CASE UpdateRow(c)
  <2>1. /\ at[c] = "update" /\ at'[c] = "unlink" /\ work'[c] = work[c]
        /\ work[c].op = "move" /\ InHand(c)
    BY <1>2 DEF UpdateRow, Go, Fits, InHand
  <2>2. work[c].file \in Knows(at[c], work[c])
    BY <2>1 DEF Knows
  <2>3. work[c].newFile # work[c].file
    BY <2>1, <2>2 DEF FileInv, HandUnknown
  <2>4. \A id \in DOMAIN rows : rows[id].file = work[c].file => id = work[c].id
    BY <2>1 DEF FileInv, Held, HeldBy
  <2>5. \A id \in DOMAIN rows' : rows'[id].file # work[c].file
    <3>1. CASE work[c].id \in DOMAIN rows
      <4> DEFINE k == work[c].id
      <4>1. /\ DOMAIN rows' = DOMAIN rows \cup {k}
            /\ rows'[k].file = work[c].newFile
            /\ \A id \in DOMAIN rows \ {k} : rows'[id] = rows[id]
        <5>1. at[c] # "insert"
          BY <2>1
        <5> QED
          BY <1>2, <3>1, <5>1, RowInstalled
      <4> QED
        BY <2>3, <2>4, <4>1
    <3>2. CASE work[c].id \notin DOMAIN rows
      BY <1>2, <2>4, <3>2 DEF UpdateRow
    <3> QED
      BY <3>1, <3>2
  <2>6. Held(c)'
    BY <2>1, <2>5 DEF Held, HeldBy
  <2> QED
    BY <2>1, <2>6 DEF LearnsOfRows, Knows
<1> QED
  BY <1>1, <1>2

LEMMA FileInvByAct ==
  ASSUME TypeInv, FileInv, NEW c \in Clients, Acts(c)
  PROVE  FileInv'
<1>1. OthersRest(c)
  BY OneMoves DEF TypeInv
<1>2. CASE NextUID(c)
  BY <1>1, <1>2, FilesTaken
<1>3. CASE InsertRow(c) \/ (UpdateRow(c) /\ work[c].id \in DOMAIN rows)
  <2> DEFINE k == IF at[c] = "insert" THEN nextRow ELSE work[c].id
  <2>1. /\ InHand(c) /\ ~InHand(c)' /\ UNCHANGED <<files, nextFile>>
        /\ DOMAIN rows' = DOMAIN rows \cup {k}
        /\ rows'[k].file = work[c].newFile
        /\ \A id \in DOMAIN rows \ {k} : rows'[id] = rows[id]
    BY <1>3, RowInstalled
  <2> HIDE DEF k
  <2>2. PICK key : key = k
    OBVIOUS
  <2>3. Held(c)' /\ LearnsOfRows(c)
    BY <1>3, HeldAfterInstall
  <2> QED
    BY <1>1, <2>1, <2>2, <2>3, FilesInstalled
<1>4. CASE UpdateRow(c) /\ work[c].id \notin DOMAIN rows
  <2>1. HandsFewer /\ RowsFewer /\ UNCHANGED <<files, nextFile>>
    BY <1>4, UpdateOfNothing
  <2>2. ~InHand(c)'
    BY <1>4 DEF UpdateRow, Go, InHand, TypeInv, Typed, ClientsTyped
  <2>3. DropsUnneeded
    BY <2>1 DEF DropsUnneeded
  <2>4. Held(c)' /\ LearnsOfRows(c)
    BY <1>4, HeldAfterInstall
  <2> QED
    BY <1>1, <2>1, <2>2, <2>3, <2>4, FilesQuiet
<1>5. CASE ~NextUID(c) /\ ~InsertRow(c) /\ ~UpdateRow(c)
  <2>1. HandsFewer /\ RowsFewer /\ UNCHANGED nextFile
    BY <1>5, QuietSteps
  <2>2. ~InHand(c)'
    BY <1>5 DEF TypeInv, Typed, ClientsTyped, Acts, Calls, AppendMessage, ExpungeDeleted,
         CopyMessage, MoveMessage, UpdateFlags, DeleteMessagesOlderThan, Step, FailStep,
         ReadFile, Lock, SetFlags, NextEntry, DeleteRow, Unlink, Bump, End, Go, InHand
  <2>3. DropsUnneeded
    BY <2>1, <2>2, RemovedFiles
  <2>4. Held(c)' /\ LearnsOfRows(c)
    <3>1. CASE DeleteRow(c)
      BY <3>1, HeldAfterDelete
    <3>2. CASE ~DeleteRow(c)
      <4>1. PICK stage, w : /\ at'[c] = stage /\ work'[c] = w
                            /\ \A id \in DOMAIN rows : HeldBy(stage, w, id)
                            /\ Learned(stage, w, c)
        BY <1>5, <3>2, HeldByCalls, HeldBySteps DEF Acts, Step
      <4> QED
        BY <2>1, <4>1, HeldAfter, LearnsWhatItMay
    <3> QED
      BY <3>1, <3>2
  <2> QED
    BY <1>1, <2>1, <2>2, <2>3, <2>4, FilesQuiet
<1> QED
  BY <1>2, <1>3, <1>4, <1>5

\* Without a step of a client the files stay, and clients only fall idle.
LEMMA FilesRest ==
  ASSUME TypeInv, FileInv, RowsFewer, UNCHANGED <<files, nextFile>>,
         \A c \in Clients : \/ at'[c] = "idle" /\ work'[c] = NoWork
                            \/ at'[c] = at[c] /\ work'[c] = work[c]
  PROVE  FileInv'
<1>1. FilesApart' /\ RowHasFile'
  BY DEF FileInv, FilesApart, RowHasFile, RowsFewer
<1>2. HandsFewer
  BY DEF HandsFewer, InHand
<1>3. \A c \in Clients : HandFile(c)'
  BY <1>2 DEF FileInv, HandFile, HandsFewer, RowsFewer
<1>4. \A c \in Clients : Knows(at[c], work[c])' \subseteq Knows(at[c], work[c])
  BY DEF Knows
<1>5. \A c \in Clients : KnownOld(c)'
  BY <1>4 DEF FileInv, KnownOld
<1>6. \A c \in Clients : Held(c)'
  <2> SUFFICES ASSUME NEW c \in Clients PROVE Held(c)'
    OBVIOUS
  <2>1. CASE at'[c] = "idle" /\ work'[c] = NoWork
    <3>1. \A id \in DOMAIN rows : HeldBy("idle", NoWork, id)
      BY HeldNothing DEF NoWork
    <3> QED
      BY <2>1, <3>1, HeldAfter
  <2>2. CASE at'[c] = at[c] /\ work'[c] = work[c]
    BY <2>2, HeldStays DEF FileInv, RowsFewer
  <2> QED
    BY <2>1, <2>2
<1>7. \A c, d \in Clients : HandUnknown(c, d)'
  BY <1>2, <1>4 DEF FileInv, HandUnknown, HandsFewer
<1> QED
  BY <1>1, <1>3, <1>5, <1>6, <1>7 DEF FileInv

LEMMA FileInvStays ==
  ASSUME TypeInv, FileInv, [Next]_vars
  PROVE  FileInv'
<1>1. ASSUME NEW c \in Clients, Acts(c) PROVE FileInv'
  BY <1>1, FileInvByAct
<1>2. CASE (\E c \in Clients : Crash(ProcessOf[c])) \/ (\E id \in DOMAIN rows : Age(id))
           \/ UNCHANGED vars
  <2>1. RowsFewer /\ UNCHANGED <<files, nextFile>>
    BY <1>2, OthersQuiet
  <2>2. \A c \in Clients : \/ at'[c] = "idle" /\ work'[c] = NoWork
                           \/ at'[c] = at[c] /\ work'[c] = work[c]
    BY <1>2 DEF Crash, Age, vars, TypeInv, Typed, ClientsTyped
  <2> QED
    BY <2>1, <2>2, FilesRest
<1> QED
  BY <1>1, <1>2 DEF Next, Acts, Calls

LEMMA FileInvStarts == Init => FileInv
BY DEF Init, FileInv, FilesApart, RowHasFile, HandFile, KnownOld, Held, HandUnknown, InHand,
       Knows

\* Every listed message can be read: whatever moves, copies, deletions and
\* purges of one message overlap, fail or break off, no file is removed that a
\* row names or that a client is about to name in one.
THEOREM RowsHaveFiles == Spec => []RowHasFile
<1>1. FileInv => RowHasFile
  BY DEF FileInv
<1> QED
  BY <1>1, TypeInvStarts, TypeInvStays, FileInvStarts, FileInvStays, PTL DEF Spec

-----------------------------------------------------------------------------
(* Announcements and the quota.                                            *)

\* Who runs which operation.
Owned ==
  \A c \in Clients : /\ work[c].op = "purge" => c \in Purgers
                     /\ work[c].op \in {"append", "copy"} => c \in Appenders

LEMMA OpKept ==
  ASSUME Typed, NEW c \in Clients, Step(c) \/ FailStep(c)
  PROVE  work'[c].op = work[c].op \/ work'[c] = NoWork
<1> USE DEF Typed, ClientsTyped
<1>1. CASE UNCHANGED work
  BY <1>1
<1>2. CASE End(c)
  BY <1>2 DEF End, Use
<1>3. CASE Changed(c)
  <2>1. [Begin(work[c].op, work[c].to) EXCEPT !.todo = work[c].todo].op = work[c].op
    BY DEF Begin
  <2> QED
    BY <1>3, <2>1 DEF Changed, Use
<1>4. CASE Use(c, NoWork)
  BY <1>4 DEF Use
<1>5. CASE NextUID(c)
  BY <1>5, AtWork DEF NextUID, Works
<1>6. CASE NextEntry(c) /\ ~End(c)
  <2>1. work[c] \in Works
    BY <1>6, AtWork DEF NextEntry
  <2>2. PICK entry \in work[c].todo :
          \/ work' = [work EXCEPT ![c].uid = entry.uid, ![c].file = entry.file,
                                  ![c].todo = work[c].todo \ {entry}]
          \/ work' = [work EXCEPT ![c].todo = work[c].todo \ {entry}]
          \/ \E id \in DOMAIN rows :
               work' = [work EXCEPT ![c].uid = entry.uid, ![c].file = rows[id].file,
                                    ![c].todo = work[c].todo \ {entry}]
    BY <1>6 DEF NextEntry, RowsAt
  <2>3. ASSUME NEW u, NEW file,
               work' = [work EXCEPT ![c].uid = u, ![c].file = file,
                                    ![c].todo = work[c].todo \ {entry}]
        PROVE  work'[c].op = work[c].op
    BY <2>1, <2>3 DEF Works
  <2>4. ASSUME work' = [work EXCEPT ![c].todo = work[c].todo \ {entry}]
        PROVE  work'[c].op = work[c].op
    BY <2>1, <2>4 DEF Works
  <2> QED
    BY <2>2, <2>3, <2>4
<1> QED
  BY <1>1, <1>2, <1>3, <1>4, <1>5, <1>6 DEF Step, FailStep, ReadFile, Lock, InsertRow,
     UpdateRow, SetFlags, DeleteRow, Unlink, Bump

LEMMA OwnedByCalls ==
  ASSUME Typed, NEW c \in Clients, Calls(c)
  PROVE  /\ work'[c].op = "purge" => c \in Purgers
         /\ work'[c].op \in {"append", "copy"} => c \in Appenders
<1> USE DEF Typed, ClientsTyped, Use
<1>1. CASE \E f \in Folders : AppendMessage(c, f)
  BY <1>1 DEF AppendMessage, Begin
<1>2. CASE \E f \in Folders : ExpungeDeleted(c, f)
  <2>1. PICK list :
          \E f \in Folders : work' = [work EXCEPT ![c] = [Begin("expunge", f) EXCEPT !.todo = list]]
    BY <1>2 DEF ExpungeDeleted
  <2> QED
    BY <2>1 DEF Begin
<1>3. CASE \E id \in DOMAIN rows, f \in Folders : CopyMessage(c, id, f)
  BY <1>3 DEF CopyMessage, Found, Begin
<1>4. CASE \E id \in DOMAIN rows, f \in Folders : MoveMessage(c, id, f)
  <2>1. PICK id \in DOMAIN rows, f \in Folders : work' = [work EXCEPT ![c] = Found("move", id, f)]
    BY <1>4 DEF MoveMessage
  <2>2. Found("move", id, f).op = "move"
    BY DEF Found, Begin
  <2> QED
    BY <2>1, <2>2
<1>5. CASE \E id \in DOMAIN rows : UpdateFlags(c, id)
  BY <1>5 DEF UpdateFlags, Begin
<1>6. CASE DeleteMessagesOlderThan(c)
  <2>1. PICK list :
          \E f \in Folders : work' = [work EXCEPT ![c] = [Begin("purge", f) EXCEPT !.todo = list]]
    BY <1>6 DEF DeleteMessagesOlderThan
  <2> QED
    BY <1>6, <2>1 DEF DeleteMessagesOlderThan, Begin
<1> QED
  BY <1>1, <1>2, <1>3, <1>4, <1>5, <1>6 DEF Calls

LEMMA OwnedStays ==
  ASSUME Typed, Owned, [Next]_vars
  PROVE  Owned'
<1>1. ASSUME NEW c \in Clients, Acts(c) PROVE Owned'
  <2>1. \A d \in Clients \ {c} : work'[d] = work[d]
    BY <1>1, OneMoves DEF OthersRest
  <2>2. /\ work'[c].op = "purge" => c \in Purgers
        /\ work'[c].op \in {"append", "copy"} => c \in Appenders
    BY <1>1, OpKept, OwnedByCalls DEF Acts, Owned, NoWork
  <2> QED
    BY <2>1, <2>2 DEF Owned
<1>2. CASE (\E p : Crash(p)) \/ (\E id \in DOMAIN rows : Age(id)) \/ UNCHANGED vars
  <2>1. \A d \in Clients : work'[d] = NoWork \/ work'[d] = work[d]
    BY <1>2 DEF Crash, Age, vars, Typed, ClientsTyped
  <2> QED
    BY <2>1 DEF Owned, NoWork
<1> QED
  BY <1>1, <1>2 DEF Next, Acts, Calls

LEMMA ChangesShowStays ==
  ASSUME Typed, Owned, ChangesShow, [Next]_vars
  PROVE  ChangesShow'
<1> USE DEF Typed, ClientsTyped
<1>1. faults \in Nat
  BY MailStoreAssumption DEF RowsTyped
<1>2. ASSUME NEW c \in Clients, Acts(c) PROVE ChangesShow'
  <2>1. OthersRest(c)
    BY <1>2, OneMoves
  <2>2. CASE InsertRow(c) \/ UpdateRow(c) \/ SetFlags(c) \/ DeleteRow(c)
    <3>1. at'[c] \in {"unlink", "bump"}
      BY <2>2 DEF InsertRow, UpdateRow, SetFlags, DeleteRow, Go
    <3> QED
      BY <3>1 DEF ChangesShow, Announcing
  <2>3. CASE FailStep(c) \/ Bump(c)
    <3>1. silent' = FALSE \/ faults' = faults + 1
      BY <2>3 DEF FailStep, Bump, Fault
    <3>2. faults' = faults + 1 => faults' > 0
      BY <1>1
    <3> QED
      BY <3>1, <3>2 DEF ChangesShow
  <2>4. CASE Unlink(c)
    <3>1. CASE work[c].op = "purge"
      BY <3>1 DEF Owned, ChangesShow
    <3>2. CASE work[c].op # "purge"
      <4>1. at'[c] = "bump"
        BY <2>4, <3>2 DEF Unlink, Go
      <4> QED
        BY <4>1 DEF ChangesShow, Announcing
    <3> QED
      BY <3>1, <3>2
  <2>5. CASE Calls(c) \/ ReadFile(c) \/ Lock(c) \/ NextUID(c) \/ NextEntry(c)
    <3>1. at[c] \notin {"unlink", "bump"} /\ UNCHANGED <<silent, faults>>
      BY <2>5 DEF Calls, AppendMessage, ExpungeDeleted, CopyMessage, MoveMessage, UpdateFlags,
                  DeleteMessagesOlderThan, ReadFile, Lock, NextUID, NextEntry, ghosts
    <3> QED
      BY <2>1, <3>1 DEF ChangesShow, Announcing, OthersRest
  <2> QED
    BY <1>2, <2>2, <2>3, <2>4, <2>5 DEF Acts, Step
<1>3. ASSUME NEW p, Crash(p) PROVE ChangesShow'
  BY <1>1, <1>3 DEF Crash, Fault, ChangesShow
<1>4. CASE (\E id \in DOMAIN rows : Age(id)) \/ UNCHANGED vars
  <2>1. UNCHANGED <<at, silent, faults>>
    BY <1>4 DEF Age, vars, ghosts
  <2> QED
    BY <2>1 DEF ChangesShow, Announcing
<1> QED
  BY <1>2, <1>3, <1>4 DEF Next, Acts, Calls

LEMMA OwnedStarts == Init => Owned /\ ChangesShow
BY DEF Init, Owned, ChangesShow, NoWork

\* Without a fault, every change that an IMAP session makes is followed by the
\* bump that the other sessions poll for.
THEOREM ChangesAreShown == Spec => []ChangesShow
<1>1. TypeInv => Typed
  BY DEF TypeInv
<1> QED
  BY <1>1, TypeInvStarts, TypeInvStays, OwnedStarts, OwnedStays, ChangesShowStays, PTL DEF Spec

\* The client under the mutex has left room for the row it is about to insert.
RoomLeft ==
  Quota > 0 =>
    /\ Cardinality(DOMAIN rows) <= Quota
    /\ \A c \in Clients : HoldsLock(c) /\ at[c] \in {"uid", "insert"}
         => Cardinality(DOMAIN rows) + 1 <= Quota

\* All clients that append run in one process.
OneProcess == \A c, d \in Appenders : ProcessOf[c] = ProcessOf[d]

LEMMA RowsFinite ==
  ASSUME Typed
  PROVE  IsFiniteSet(DOMAIN rows) /\ Cardinality(DOMAIN rows) \in Nat
<1>1. IsFiniteSet(1..(nextRow - 1))
  <2>1. 1 \in Int /\ nextRow - 1 \in Int
    BY DEF Typed, RowsTyped
  <2> QED
    BY <2>1, FS_Interval
<1> QED
  BY <1>1, FS_Subset, FS_CardinalityType DEF Typed, RowsTyped

LEMMA RoomLeftStays ==
  ASSUME OneProcess, TypeInv, Owned, RoomLeft, [Next]_vars
  PROVE  RoomLeft'
<1> USE DEF TypeInv, Typed, ClientsTyped
<1> SUFFICES ASSUME Quota > 0 PROVE RoomLeft'
  BY DEF RoomLeft
<1> DEFINE size == Cardinality(DOMAIN rows)
<1>1. IsFiniteSet(DOMAIN rows) /\ size \in Nat /\ Quota \in Nat
  BY RowsFinite, MailStoreAssumption
<1>2. ASSUME NEW c \in Clients, InsertRow(c) PROVE RoomLeft'
  <2>1. OthersRest(c)
    BY <1>2, OneMoves DEF Acts, Step
  <2>2. /\ DOMAIN rows' = DOMAIN rows \cup {nextRow} /\ nextRow \notin DOMAIN rows
        /\ at[c] = "insert" /\ at'[c] = "bump"
    BY <1>2 DEF InsertRow, Go, RowsTyped
  <2>3. work[c].op \in {"append", "copy"} /\ HoldsLock(c)
    BY <2>2 DEF Fits, HoldsLock
  <2>4. size + 1 <= Quota
    BY <2>2, <2>3 DEF RoomLeft
  <2>5. Cardinality(DOMAIN rows') = size + 1
    BY <1>1, <2>2, FS_AddElement
  <2>6. ASSUME NEW d \in Clients, HoldsLock(d)', at'[d] \in {"uid", "insert"} PROVE FALSE
    <3>1. d # c /\ HoldsLock(d)
      BY <2>1, <2>2, <2>6 DEF OthersRest, HoldsLock
    <3>2. ProcessOf[c] = ProcessOf[d]
      BY <2>3, <3>1 DEF Owned, OneProcess, HoldsLock
    <3> QED
      BY <2>3, <3>1, <3>2 DEF Mutex
  <2> QED
    BY <2>4, <2>5, <2>6 DEF RoomLeft
<1>3. ASSUME DOMAIN rows' \subseteq DOMAIN rows,
             \A c \in Clients : HoldsLock(c)' /\ at'[c] \in {"uid", "insert"}
               => size + 1 <= Quota
      PROVE  RoomLeft'
  <2>1. Cardinality(DOMAIN rows') <= size /\ Cardinality(DOMAIN rows') \in Nat
    BY <1>1, <1>3, FS_Subset, FS_CardinalityType
  <2> QED
    BY <1>1, <1>3, <2>1 DEF RoomLeft
<1>4. ASSUME NEW c \in Clients, Acts(c), ~InsertRow(c) PROVE RoomLeft'
  <2>1. OthersRest(c)
    BY <1>4, OneMoves
  <2>2. DOMAIN rows' \subseteq DOMAIN rows
    BY <1>4 DEF Acts, Calls, AppendMessage, ExpungeDeleted, CopyMessage, MoveMessage,
                UpdateFlags, DeleteMessagesOlderThan, Step, FailStep, ReadFile, Lock, NextUID,
                UpdateRow, SetFlags, NextEntry, DeleteRow, Unlink, Bump, db, Keep
  <2>3. HoldsLock(c)' /\ at'[c] \in {"uid", "insert"} => size + 1 <= Quota
    <3>1. CASE Lock(c)
      BY <1>1, <3>1 DEF Lock, Go
    <3>2. CASE NextUID(c)
      <4>1. at[c] = "uid" /\ (work'[c].op = work[c].op \/ work'[c] = NoWork)
        BY <3>2, OpKept DEF NextUID, Step
      <4> QED
        BY <4>1 DEF RoomLeft, HoldsLock, NoWork
    <3>3. CASE ~Lock(c) /\ ~NextUID(c)
      <4>1. CASE ReadFile(c)
        <5>1. at'[c] = "uid" => work[c].op = "move" /\ work'[c] = work[c]
          BY <4>1 DEF ReadFile, Go, End
        <5>2. at'[c] # "insert"
          BY <4>1 DEF ReadFile, Go, End
        <5> QED
          BY <5>1, <5>2 DEF HoldsLock
      <4>2. CASE ~ReadFile(c)
        <5>1. at'[c] \notin {"uid", "insert"}
          BY <1>4, <3>3, <4>2 DEF Acts, Calls, AppendMessage, ExpungeDeleted, CopyMessage,
             MoveMessage, UpdateFlags, DeleteMessagesOlderThan, Step, FailStep, UpdateRow,
             SetFlags, NextEntry, DeleteRow, Unlink, Bump, End, Go
        <5> QED
          BY <5>1
      <4> QED
        BY <4>1, <4>2
    <3> QED
      BY <3>1, <3>2, <3>3
  <2>4. \A d \in Clients \ {c} : HoldsLock(d)' /\ at'[d] \in {"uid", "insert"} => size + 1 <= Quota
    BY <2>1 DEF OthersRest, HoldsLock, RoomLeft
  <2> QED
    BY <1>3, <2>2, <2>3, <2>4
<1>5. CASE (\E p : Crash(p)) \/ (\E id \in DOMAIN rows : Age(id)) \/ UNCHANGED vars
  <2>1. /\ DOMAIN rows' \subseteq DOMAIN rows
        /\ \A d \in Clients : at'[d] = "idle" \/ (at'[d] = at[d] /\ work'[d] = work[d])
    BY <1>5 DEF Crash, Age, vars, db
  <2>2. \A d \in Clients : HoldsLock(d)' /\ at'[d] \in {"uid", "insert"} => size + 1 <= Quota
    BY <2>1 DEF HoldsLock, RoomLeft
  <2> QED
    BY <1>3, <2>1, <2>2
<1> QED
  BY <1>2, <1>4, <1>5 DEF Next, Acts, Calls

LEMMA RoomLeftStarts == Init => RoomLeft
<1> SUFFICES ASSUME Init, Quota > 0 PROVE RoomLeft
  BY DEF RoomLeft
<1>1. Cardinality(DOMAIN rows) = 0
  BY FS_EmptySet DEF Init
<1> QED
  BY <1>1, MailStoreAssumption DEF Init, RoomLeft, HoldsLock

\* When one process appends for all, the mutex keeps the mailbox within its
\* quota, however many clients append and copy at once.
THEOREM QuotaIsKept ==
  ASSUME OneProcess
  PROVE  Spec => []WithinQuota
<1>1. RoomLeft => WithinQuota
  BY DEF RoomLeft, WithinQuota
<1>2. Init => TypeInv /\ Owned /\ RoomLeft
  BY TypeInvStarts, OwnedStarts, RoomLeftStarts
<1>3. TypeInv /\ Owned /\ RoomLeft /\ [Next]_vars => (TypeInv /\ Owned /\ RoomLeft)'
  BY TypeInvStays, OwnedStays, RoomLeftStays DEF TypeInv
<1> QED
  BY <1>1, <1>2, <1>3, PTL DEF Spec

=============================================================================
