------------------------------ MODULE MailStore ------------------------------
(***************************************************************************)
(* One mailbox: its rows in the table messages, the UID counters of its    *)
(* folders and its Maildir files, under the operations that imapd, worker  *)
(* and the admin server run on it at the same time.  An operation is a     *)
(* sequence of SQL statements and file operations, and every one of them   *)
(* is a step here; nothing but appendMu, a mutex of one process, keeps the *)
(* operations apart.                                                       *)
(*                                                                         *)
(* A message is known by the id of its row.  All messages have size 1, and *)
(* of the flags only \Deleted matters.                                     *)
(***************************************************************************)
EXTENDS Naturals, FiniteSets

CONSTANTS
  Clients,     \* goroutines that run an operation on the mailbox
  ProcessOf,   \* the process of each
  Appenders,   \* clients that store new messages: deliveries, APPEND, releases
  Sessions,    \* clients that serve an IMAP session
  Purgers,     \* clients that run the retention of old mail
  Folders,
  Quota,       \* quota_bytes, or 0 for no quota
  MaxRow,      \* bound: messages that are ever stored
  MaxUid,      \* bound: UIDs handed out in a folder
  MaxFile,     \* bound: files that are ever written
  MaxFaults    \* bound: statements that fail and processes that die

ASSUME MailStoreAssumption ==
  /\ Quota \in Nat /\ MaxRow \in Nat /\ MaxUid \in Nat /\ MaxFile \in Nat
  /\ MaxFaults \in Nat
  /\ Appenders \cup Sessions \cup Purgers \subseteq Clients

VARIABLES
  rows,      \* rows[id]: the row of a stored message
  files,     \* the Maildir files that exist
  nextRow, nextFile,   \* the first ids never used
  nextUid,   \* folder_uid.next_uid of each folder
  at,        \* at[c]: the step of its operation at which client c is
  work,      \* work[c]: what c knows while it is at it
  locked,    \* processes whose appendMu is held
  \* No part of the program:
  named,     \* which message a UID of a folder has ever stood for
  asked,     \* messages somebody set out to delete: expunge found them flagged
  purged,    \* messages the retention deleted although they were not old
  silent,    \* a change that content_rev does not show yet
  faults     \* how many statements failed and processes died

db == <<rows, files, nextRow, nextFile, nextUid>>
ghosts == <<named, asked, purged, silent, faults>>
vars == <<rows, files, nextRow, nextFile, nextUid, at, work, locked,
          named, asked, purged, silent, faults>>

Messages == [folder : Folders, uid : Nat \ {0}, file : Nat \ {0},
             deleted : BOOLEAN, old : BOOLEAN]

Ops == {"append", "copy", "move", "flags", "expunge", "purge"}

\* What an operation holds between two statements: the row as it was read, the
\* target folder, the UID and the file it has got, and the rest of its list.
Works ==
  [op : Ops, id : Nat, folder : Folders, uid : Nat, file : Nat,
   deleted : BOOLEAN, to : Folders, newUid : Nat, newFile : Nat,
   todo : SUBSET [uid : Nat \ {0}, file : Nat]]

NoWork == [op |-> "none"]

Stages == {"idle", "read", "lock", "uid", "insert", "update", "set", "next",
           "delete", "unlink", "bump"}

Begin(op, f) ==
  [op |-> op, id |-> 0, folder |-> f, uid |-> 0, file |-> 0, deleted |-> FALSE,
   to |-> f, newUid |-> 0, newFile |-> 0, todo |-> {}]

Init ==
  /\ rows = [id \in {} |-> 0]
  /\ files = {}
  /\ nextRow = 1 /\ nextFile = 1
  /\ nextUid = [f \in Folders |-> 1]
  /\ at = [c \in Clients |-> "idle"]
  /\ work = [c \in Clients |-> NoWork]
  /\ locked = {}
  /\ named = {} /\ asked = {} /\ purged = {}
  /\ silent = FALSE /\ faults = 0

-----------------------------------------------------------------------------
Go(c, stage) == at' = [at EXCEPT ![c] = stage]

\* GetMessage has looked row id up.
Found(op, id, f) ==
  [Begin(op, f) EXCEPT !.id = id, !.folder = rows[id].folder, !.uid = rows[id].uid,
                       !.file = rows[id].file, !.deleted = rows[id].deleted]

Use(c, operation) == work' = [work EXCEPT ![c] = operation]

HoldsLock(c) ==
  work[c].op \in {"append", "copy"} /\ at[c] \in {"uid", "insert", "bump"}

Fault == faults < MaxFaults /\ faults' = faults + 1

UnlockForgotten(c) == UNCHANGED locked   \* faulty variant

Unlock(c) == locked' = IF HoldsLock(c) THEN locked \ {ProcessOf[c]} ELSE locked

\* The change is made; what is left is the bump and the rest of the list.
Changed(c) ==
  Use(c, [Begin(work[c].op, work[c].to) EXCEPT !.todo = work[c].todo])

\* Back to the caller.
End(c) ==
  /\ Go(c, "idle")
  /\ Use(c, NoWork)
  /\ Unlock(c)

\* The rows that `WHERE folder=? AND uid=?` selects: the table's UNIQUE makes
\* it one at most.
RowsAt(folder, uid) == {id \in DOMAIN rows : rows[id].folder = folder /\ rows[id].uid = uid}

Keep(ids) == [id \in DOMAIN rows \cap ids |-> rows[id]]

-----------------------------------------------------------------------------
(* The calls.  GetMessage looks the row up, and then reads its file.        *)

AppendMessage(c, f) ==
  /\ at[c] = "idle" /\ c \in Appenders
  /\ Go(c, "lock")
  /\ Use(c, Begin("append", f))
  /\ UNCHANGED <<db, locked, ghosts>>

CopyMessage(c, id, f) ==
  /\ at[c] = "idle" /\ c \in Sessions \cap Appenders
  /\ Use(c, Found("copy", id, f))
  /\ Go(c, "read")
  /\ UNCHANGED <<db, locked, ghosts>>

MoveMessage(c, id, f) ==
  /\ at[c] = "idle" /\ c \in Sessions
  /\ Use(c, Found("move", id, f))
  /\ Go(c, "read")
  /\ UNCHANGED <<db, locked, ghosts>>

UpdateFlags(c, id) ==
  /\ at[c] = "idle" /\ c \in Sessions
  /\ Use(c, [Begin("flags", rows[id].folder) EXCEPT !.uid = rows[id].uid])
  /\ Go(c, "set")
  /\ UNCHANGED <<db, locked, ghosts>>

\* Both lists are snapshots; their entries are deleted one by one.
ExpungeDeleted(c, f) ==
  LET flagged == {id \in DOMAIN rows : rows[id].folder = f /\ rows[id].deleted} IN
  /\ at[c] = "idle" /\ c \in Sessions
  /\ flagged # {}
  /\ Use(c, [Begin("expunge", f) EXCEPT 
       !.todo = {[uid |-> rows[id].uid, file |-> 0] : id \in flagged}])
  /\ Go(c, "next")
  /\ asked' = asked \cup flagged
  /\ UNCHANGED <<db, locked, named, purged, silent, faults>>

DeleteMessagesOlderThan(c) ==
  LET old == {id \in DOMAIN rows : rows[id].old} IN
  /\ at[c] = "idle" /\ c \in Purgers
  /\ old # {}
  /\ \E f \in Folders : Use(c, [Begin("purge", f) EXCEPT 
       !.todo = {[uid |-> rows[id].uid, file |-> rows[id].file] : id \in old}])
  /\ Go(c, "next")
  /\ UNCHANGED <<db, locked, ghosts>>

-----------------------------------------------------------------------------
(* The statements.                                                         *)

\* A message whose file is gone can be neither moved, copied nor deleted.
ReadFile(c) ==
  /\ at[c] = "read"
  /\ IF work[c].file \notin files
     THEN End(c)
     ELSE /\ Go(c, CASE work[c].op = "copy" -> "lock"
                     [] work[c].op = "move" -> "uid"
                     [] OTHER -> "delete")
          /\ UNCHANGED <<work, locked>>
  /\ UNCHANGED <<db, ghosts>>

\* Faulty variant: the usage is compared before the mutex is there.
LockLate(c) ==
  /\ at[c] = "lock"
  /\ IF Quota > 0 /\ Cardinality(DOMAIN rows) + 1 > Quota
     THEN Go(c, "idle") /\ Use(c, NoWork) /\ UNCHANGED locked
     ELSE Go(c, "uid") /\ locked' = locked \cup {ProcessOf[c]} /\ UNCHANGED work
  /\ UNCHANGED <<db, ghosts>>

\* appendMu is taken and, under it, the usage is compared with the quota.
Lock(c) ==
  /\ at[c] = "lock"
  /\ ProcessOf[c] \notin locked
  /\ IF Quota > 0 /\ Cardinality(DOMAIN rows) + 1 > Quota
     THEN Go(c, "idle") /\ Use(c, NoWork) /\ UNCHANGED locked
     ELSE Go(c, "uid") /\ locked' = locked \cup {ProcessOf[c]} /\ UNCHANGED work
  /\ UNCHANGED <<db, ghosts>>

\* Faulty variant: the UID is counted up from the rows that are there.
NextUIDFromRows(c) ==
  LET next == Cardinality({id \in DOMAIN rows : rows[id].folder = work[c].to}) + 1 IN
  /\ at[c] = "uid"
  /\ next <= MaxUid
  /\ nextFile <= MaxFile
  /\ work' = [work EXCEPT ![c].newUid = next, ![c].newFile = nextFile]
  /\ files' = files \cup {nextFile}
  /\ nextFile' = nextFile + 1
  /\ Go(c, IF work[c].op = "move" THEN "update" ELSE "insert")
  /\ UNCHANGED <<rows, nextRow, nextUid, locked, ghosts>>

\* NextUID, and then WriteNew, which nobody can see before a row names its file.
NextUID(c) ==
  /\ at[c] = "uid"
  /\ nextUid[work[c].to] <= MaxUid
  /\ nextFile <= MaxFile
  /\ work' = [work EXCEPT ![c].newUid = nextUid[work[c].to], ![c].newFile = nextFile]
  /\ nextUid' = [nextUid EXCEPT ![work[c].to] = @ + 1]
  /\ files' = files \cup {nextFile}
  /\ nextFile' = nextFile + 1
  /\ Go(c, IF work[c].op = "move" THEN "update" ELSE "insert")
  /\ UNCHANGED <<rows, nextRow, locked, ghosts>>

\* A copy takes the flags of the original over; APPEND may set any.
InsertRow(c) ==
  /\ at[c] = "insert"
  /\ nextRow <= MaxRow
  /\ RowsAt(work[c].to, work[c].newUid) = {}
  /\ \E deleted \in IF work[c].op = "copy" THEN {work[c].deleted} ELSE BOOLEAN :
       rows' = [id \in DOMAIN rows \cup {nextRow} |->
                  IF id # nextRow THEN rows[id]
                  ELSE [folder |-> work[c].to, uid |-> work[c].newUid,
                        file |-> work[c].newFile, deleted |-> deleted, old |-> FALSE]]
  /\ nextRow' = nextRow + 1
  /\ named' = named \cup {<<work[c].to, work[c].newUid, nextRow>>}
  /\ silent' = TRUE
  /\ Go(c, "bump") /\ Changed(c)
  /\ UNCHANGED <<files, nextFile, nextUid, locked, asked, purged, faults>>

\* Faulty variant: maildir_rel is left out of the UPDATE.
UpdateRowOldFile(c) ==
  /\ at[c] = "update"
  /\ work[c].id \in DOMAIN rows => RowsAt(work[c].to, work[c].newUid) = {}
  /\ IF work[c].id \in DOMAIN rows
     THEN /\ rows' = [rows EXCEPT ![work[c].id].folder = work[c].to,
                                  ![work[c].id].uid = work[c].newUid]
          /\ named' = named \cup {<<work[c].to, work[c].newUid, work[c].id>>}
          /\ silent' = TRUE
     ELSE UNCHANGED <<rows, named, silent>>
  /\ Go(c, "unlink")
  /\ UNCHANGED <<files, nextRow, nextFile, nextUid, work, locked, asked, purged, faults>>

\* The row may be gone by now; then UPDATE changes nothing and reports no error.
UpdateRow(c) ==
  /\ at[c] = "update"
  /\ work[c].id \in DOMAIN rows => RowsAt(work[c].to, work[c].newUid) = {}
  /\ IF work[c].id \in DOMAIN rows
     THEN /\ rows' = [rows EXCEPT ![work[c].id].folder = work[c].to,
                                  ![work[c].id].uid = work[c].newUid,
                                  ![work[c].id].file = work[c].newFile]
          /\ named' = named \cup {<<work[c].to, work[c].newUid, work[c].id>>}
          /\ silent' = TRUE
     ELSE UNCHANGED <<rows, named, silent>>
  /\ Go(c, "unlink")
  /\ UNCHANGED <<files, nextRow, nextFile, nextUid, work, locked, asked, purged, faults>>

\* Adding or removing \Deleted, or some other flag and \Deleted as it was read.
SetFlags(c) ==
  /\ at[c] = "set"
  /\ \E deleted \in BOOLEAN :
       rows' = [id \in DOMAIN rows |->
                  IF id \in RowsAt(work[c].folder, work[c].uid)
                  THEN [rows[id] EXCEPT !.deleted = deleted] ELSE rows[id]]
  /\ silent' = (silent \/ RowsAt(work[c].folder, work[c].uid) # {})
  /\ Go(c, "bump") /\ Changed(c)
  /\ UNCHANGED <<files, nextRow, nextFile, nextUid, locked, named, asked, purged, faults>>

\* The next entry of the list.  Expunge looks its row up again.
NextEntry(c) ==
  /\ at[c] = "next"
  /\ IF work[c].todo = {}
     THEN End(c)
     ELSE /\ \E entry \in work[c].todo :
               LET present == RowsAt(work[c].folder, entry.uid)
                   rest == work[c].todo \ {entry} IN
               IF work[c].op = "purge"
               THEN /\ work' = [work EXCEPT ![c].uid = entry.uid, ![c].file = entry.file,
                                            ![c].todo = rest]
                    /\ Go(c, "delete")
               ELSE IF present = {}
               THEN work' = [work EXCEPT ![c].todo = rest] /\ UNCHANGED at
               ELSE /\ \E id \in present :
                         work' = [work EXCEPT ![c].uid = entry.uid,
                                              ![c].file = rows[id].file, ![c].todo = rest]
                    /\ Go(c, "read")
          /\ UNCHANGED locked
  /\ UNCHANGED <<db, ghosts>>

DoomedByUid(c) ==   \* faulty variant: every deletion does so
  {id \in DOMAIN rows : rows[id].uid = work[c].uid}

\* Retention names the row by its UID alone, without the folder.
Doomed(c) ==
  IF work[c].op = "purge"
  THEN {id \in DOMAIN rows : rows[id].uid = work[c].uid}
  ELSE RowsAt(work[c].folder, work[c].uid)

DeleteRow(c) ==
  /\ at[c] = "delete"
  /\ rows' = Keep(DOMAIN rows \ Doomed(c))
  /\ IF work[c].op = "purge"
     THEN /\ purged' = purged \cup {id \in Doomed(c) : ~rows[id].old}
          /\ asked' = asked \cup {id \in Doomed(c) : rows[id].old}
     ELSE UNCHANGED <<purged, asked>>
  /\ silent' = (silent \/ Doomed(c) # {})
  /\ Go(c, "unlink")
  /\ UNCHANGED <<files, nextRow, nextFile, nextUid, work, locked, named, faults>>

\* Faulty variant: no bump after a move or a deletion.
UnlinkSilently(c) ==
  /\ at[c] = "unlink"
  /\ files' = files \ {work[c].file}
  /\ IF work[c].op = "move" THEN Go(c, "idle") /\ Use(c, NoWork)
     ELSE Go(c, "next") /\ Changed(c)
  /\ UNCHANGED <<rows, nextRow, nextFile, nextUid, locked, ghosts>>

\* The error of the removal is ignored.  Retention goes on without a bump.
Unlink(c) ==
  /\ at[c] = "unlink"
  /\ \/ files' = files \ {work[c].file} /\ UNCHANGED faults
     \/ Fault /\ UNCHANGED files
  /\ Go(c, IF work[c].op = "purge" THEN "next" ELSE "bump")
  /\ Changed(c)
  /\ UNCHANGED <<rows, nextRow, nextFile, nextUid, locked, named, asked, purged, silent>>

\* bumpContentRev, whose error is ignored.
Bump(c) ==
  /\ at[c] = "bump"
  /\ \/ silent' = FALSE /\ UNCHANGED faults
     \/ Fault /\ UNCHANGED silent
  /\ IF work[c].op = "expunge"
     THEN Go(c, "next") /\ UNCHANGED <<work, locked>>
     ELSE End(c)
  /\ UNCHANGED <<db, named, asked, purged>>

\* A statement or a write fails: the call returns the error, and AppendMessage
\* removes the file that it could not insert.
FailStep(c) ==
  /\ at[c] \in {"read", "lock", "uid", "insert", "update", "set", "delete"}
  /\ files' = IF at[c] = "insert" THEN files \ {work[c].newFile} ELSE files
  /\ End(c)
  /\ Fault
  /\ UNCHANGED <<rows, nextRow, nextFile, nextUid, named, asked, purged, silent>>

\* A process dies with all its clients and its mutex.
Crash(p) ==
  LET dead == {c \in Clients : ProcessOf[c] = p} IN
  /\ \E c \in dead : at[c] # "idle"
  /\ at' = [c \in Clients |-> IF c \in dead THEN "idle" ELSE at[c]]
  /\ work' = [c \in Clients |-> IF c \in dead THEN NoWork ELSE work[c]]
  /\ locked' = locked \ {p}
  /\ Fault
  /\ UNCHANGED <<db, named, asked, purged, silent>>

\* created_at falls behind the retention's cutoff.
Age(id) ==
  /\ Purgers # {}
  /\ ~rows[id].old
  /\ rows' = [rows EXCEPT ![id].old = TRUE]
  /\ UNCHANGED <<files, nextRow, nextFile, nextUid, at, work, locked, ghosts>>

Step(c) ==
  \/ ReadFile(c)
  \/ Lock(c)
  \/ NextUID(c)
  \/ InsertRow(c)
  \/ UpdateRow(c)
  \/ SetFlags(c)
  \/ NextEntry(c)
  \/ DeleteRow(c)
  \/ Unlink(c)
  \/ Bump(c)

Next ==
  \/ \E c \in Clients :
       \/ \E f \in Folders : AppendMessage(c, f) \/ ExpungeDeleted(c, f)
       \/ \E id \in DOMAIN rows :
            \/ \E f \in Folders : CopyMessage(c, id, f) \/ MoveMessage(c, id, f)
            \/ UpdateFlags(c, id)
       \/ DeleteMessagesOlderThan(c)
       \/ Step(c)
       \/ FailStep(c)
  \/ \E c \in Clients : Crash(ProcessOf[c])
  \/ \E id \in DOMAIN rows : Age(id)

Spec == Init /\ [][Next]_vars

-----------------------------------------------------------------------------
(* Properties.                                                             *)

TypeOK ==
  /\ nextRow \in Nat \ {0} /\ nextFile \in Nat \ {0}
  /\ DOMAIN rows \subseteq 1..(nextRow - 1)
  /\ rows \in [DOMAIN rows -> Messages]
  /\ files \subseteq 1..(nextFile - 1)
  /\ nextUid \in [Folders -> Nat \ {0}]
  /\ at \in [Clients -> Stages]
  /\ work \in [Clients -> Works \cup {NoWork}]
  /\ locked = {ProcessOf[c] : c \in {d \in Clients : HoldsLock(d)}}
  /\ named \subseteq Folders \X (Nat \ {0}) \X (Nat \ {0})
  /\ asked \cup purged \subseteq 1..(nextRow - 1)
  /\ silent \in BOOLEAN /\ faults \in 0..MaxFaults

\* A listed message can be read: whatever moves, deletions and purges of the
\* same message overlap, fail or break off, a file is only removed when no row
\* names it any more.  (Such a row could never be deleted through
\* DeleteMessage, which reads the file first.)
RowHasFile == \A id \in DOMAIN rows : rows[id].file \in files

\* In a folder a UID stands for one message for ever, also after the message
\* was moved away and back or deleted: what a client holds under a UID is
\* never another message, and a deletion by UID meets the message it was
\* meant for.
UidNamesOne ==
  \A a, b \in named : a[1] = b[1] /\ a[2] = b[2] => a[3] = b[3]

\* Only what somebody set out to delete is gone: no overlap of the calls of
\* two sessions, no failure and no crash makes a message disappear.  (What the
\* retention deletes beyond its due is counted in purged.)
NothingLost == \A id \in 1..(nextRow - 1) : id \in DOMAIN rows \cup asked \cup purged

\* As long as the appending clients share a process, and so the mutex, the
\* mailbox never outgrows its quota.
WithinQuota == Quota > 0 => Cardinality(DOMAIN rows) <= Quota

\* A poller of content_rev misses nothing for good: when no call is between
\* its change and its bump, every change of the sessions shows, unless a fault
\* came in between.
Announcing == \E c \in Clients : at[c] \in {"unlink", "bump"}

ChangesShow == silent => Announcing \/ faults > 0 \/ Purgers # {}

\* "deleted %d messages older than %d days" (runner.go): no others.
PurgeSparesYoung == purged = {}

=============================================================================
