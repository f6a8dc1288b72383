------------------------------ MODULE ImapPoll ------------------------------
(***************************************************************************)
(* How a client that idles in a folder learns of changes: imapd polls      *)
(* content_rev, compares the numbers of the folders (messages, unseen,     *)
(* UIDNEXT) with what it saw last, and hands the differences to one        *)
(* channel that all its sessions share; the library takes them to whoever  *)
(* has that folder selected.  The writers are other processes, which       *)
(* change a folder and bump content_rev in two steps (MailStore).          *)
(***************************************************************************)
EXTENDS Naturals, Sequences, FiniteSets

CONSTANTS
  Boxes,       \* folders of the mailbox
  Counts,      \* numbers of messages and of unseen ones, as one value
  ChanSize,    \* capacity of the channel of updates (128)
  MaxWrites,   \* bound: changes of the folders, and failures
  MaxFailures  \* bound: statements that fail

ASSUME ImapPollAssumption ==
  /\ ChanSize \in Nat \ {0} /\ MaxWrites \in Nat /\ MaxFailures \in Nat
  /\ "none" \notin Boxes
  /\ 0 \in Counts

VARIABLES
  content,   \* content[f]: the numbers of folder f
  unbumped,  \* changes that content_rev does not count yet
  rev,       \* content_rev
  selected,  \* the folder that the client has selected
  opening,   \* what a SELECT is at
  snap,      \* snap[f]: u.folders, what the session saw last of folder f
  lastRev,   \* the content_rev that the last poll saw
  ticked,    \* a poll noted the revision and has not listed the folders
  polling,   \* folders that the present poll has not come to
  half,      \* the folder FolderStats is at, and what its first statement read
  updates,   \* the channel
  told,      \* what the client was told of its folder last
  \* No part of the program:
  hidden,    \* a failure hides a change until the next bump
  dropped,   \* folders whose last update was not sent
  astray,    \* SELECT answered other numbers than the session compares with
  failures

pollVars == <<content, unbumped, rev, selected, opening, snap, lastRev, ticked, polling,
              half, updates, told, hidden, dropped, astray, failures>>
writers == <<content, unbumped, rev>>
client == <<selected, opening, told, astray>>
poller == <<lastRev, ticked, polling, half>>

\* FolderStats counts in its first statements and reads UIDNEXT in its last: an
\* answer is what each of the two saw.
Stats == [count : Counts, next : Nat \ {0}]

Absent == [count |-> 0, next |-> 0]      \* not in u.folders, or nothing told
Unread == [count |-> 1, next |-> 0]      \* initialized is false
NoHalf == [folder |-> "none", count |-> 0]
Closed == [at |-> "no", folder |-> "none", count |-> 0, next |-> 0]

ImapPollInit ==
  /\ content = [f \in Boxes |-> [count |-> 0, next |-> 1]]
  /\ unbumped = 0
  /\ rev = 0
  /\ selected = "none"
  /\ opening = Closed
  /\ snap = [f \in Boxes |-> Absent]
  /\ lastRev = 0
  /\ ticked = FALSE
  /\ polling = {}
  /\ half = NoHalf
  /\ updates = <<>>
  /\ told = Absent
  /\ hidden = FALSE
  /\ dropped = {}
  /\ astray = FALSE
  /\ failures = 0

Failure == failures < MaxFailures /\ failures' = failures + 1

-----------------------------------------------------------------------------
(* The other processes.                                                    *)

\* A message comes or goes, or flags change; the numbers may come back to what
\* they were, and a change of other flags than Seen leaves them alone.
Write(f) ==
  /\ rev + unbumped + failures < MaxWrites
  /\ \E c \in Counts, n \in {content[f].next, content[f].next + 1} :
       content' = [content EXCEPT ![f] = [count |-> c, next |-> n]]
  /\ unbumped' = unbumped + 1
  /\ UNCHANGED <<rev, client, snap, poller, updates, hidden, dropped, failures>>

\* bumpContentRev, whose error nobody sees.
Bump ==
  /\ unbumped > 0
  /\ unbumped' = unbumped - 1
  /\ \/ rev' = rev + 1 /\ hidden' = FALSE /\ UNCHANGED failures
     \/ Failure /\ hidden' = TRUE /\ UNCHANGED rev
  /\ UNCHANGED <<content, client, snap, poller, updates, dropped>>

-----------------------------------------------------------------------------
(* SELECT: the library leaves the folder, calls GetMailbox and Status, and *)
(* only then counts the folder as selected.                                *)

\* A folder that the session does not keep yet has GetMailbox take a first
\* snapshot, under the lock of u.folders.
Select(f) ==
  /\ opening = Closed
  /\ selected' = "none" /\ told' = Absent /\ astray' = FALSE
  /\ opening' = [Closed EXCEPT !.at = IF snap[f] = Absent THEN "mailbox" ELSE "status",
                               !.folder = f]
  /\ UNCHANGED <<writers, snap, poller, updates, hidden, dropped, failures>>

Locked == opening.at = "keep"

\* The first statements of FolderStats, for GetMailbox or for Status.
ReadFirst ==
  /\ opening.at \in {"mailbox", "status"}
  /\ opening' = [opening EXCEPT !.at = IF @ = "mailbox" THEN "keep" ELSE "next",
                                !.count = content[opening.folder].count]
  /\ UNCHANGED <<writers, selected, told, astray, snap, poller, updates, hidden, dropped, failures>>

\* GetMailbox ends, with a snapshot that is not initialized after an error.
Keep ==
  /\ opening.at \in {"mailbox", "keep"}
  /\ opening' = [opening EXCEPT !.at = "status", !.count = 0]
  /\ \/ /\ opening.at = "keep"
        /\ snap' = [snap EXCEPT ![opening.folder] =
                      [count |-> opening.count, next |-> content[opening.folder].next]]
        /\ UNCHANGED failures
     \/ /\ Failure
        /\ snap' = [snap EXCEPT ![opening.folder] = Unread]
  /\ UNCHANGED <<writers, selected, told, astray, poller, updates, hidden, dropped>>

ReadStatus ==
  /\ opening.at = "next"
  /\ opening' = [opening EXCEPT !.at = "answer", !.next = content[opening.folder].next]
  /\ UNCHANGED <<writers, selected, told, astray, snap, poller, updates, hidden, dropped, failures>>

\* An error of Status is the answer, and no folder is selected.
StatusFails ==
  /\ opening.at \in {"status", "next"}
  /\ Failure
  /\ opening' = Closed
  /\ UNCHANGED <<writers, selected, told, astray, snap, poller, updates, hidden, dropped>>

InChannel(f) == \E i \in DOMAIN updates : updates[i].folder = f

\* The folder is selected and its numbers are answered.  What was dispatched
\* since they were read reached nobody.
AnswerSelect ==
  /\ opening.at = "answer"
  /\ LET f == opening.folder
         stats == [count |-> opening.count, next |-> opening.next] IN
     /\ selected' = f
     /\ told' = stats
     /\ astray' = (snap[f] # stats /\ ~ InChannel(f))
  /\ opening' = Closed
  /\ UNCHANGED <<writers, snap, poller, updates, hidden, dropped, failures>>

Open == ReadFirst \/ Keep \/ ReadStatus \/ StatusFails \/ AnswerSelect

-----------------------------------------------------------------------------
(* The poller.                                                             *)

Opened == {f \in Boxes : snap[f] # Absent}

\* A tick of pollUpdates.  An error of MailboxContentRev is no change.
Tick ==
  /\ ~ ticked /\ polling = {} /\ half = NoHalf
  /\ rev # lastRev
  /\ lastRev' = rev
  /\ ticked' = TRUE
  /\ UNCHANGED <<writers, client, snap, polling, half, updates, hidden, dropped, failures>>

\* pollFolders lists the folders under the lock.
ListFolders ==
  /\ ticked /\ ~ Locked
  /\ ticked' = FALSE
  /\ polling' = Opened
  /\ UNCHANGED <<writers, client, snap, lastRev, half, updates, hidden, dropped, failures>>

\* FolderStats of the next folder begins; on an error the folder is passed over.
ReadCount(f) ==
  /\ half = NoHalf
  /\ polling' = polling \ {f}
  /\ \/ /\ half' = [folder |-> f, count |-> content[f].count]
        /\ UNCHANGED <<hidden, failures>>
     \/ /\ Failure
        /\ hidden' = TRUE
        /\ UNCHANGED half
  /\ UNCHANGED <<writers, client, snap, lastRev, ticked, updates, dropped>>

\* What differs from the last time is sent, unless the channel is full or there
\* was no last time.
Announce(f, old, next) ==
  IF old = next
  THEN UNCHANGED <<updates, dropped, astray>>
  ELSE IF old # Unread /\ Len(updates) < ChanSize
  THEN /\ updates' = Append(updates, [folder |-> f, stats |-> next])
       /\ dropped' = dropped \ {f}
       /\ astray' = (astray /\ selected # f)
  ELSE dropped' = dropped \cup {f} /\ UNCHANGED <<updates, astray>>

CompareStamps(f) ==   \* faulty variant: the revision is noted after the folders are read
  /\ half.folder = f /\ ~ Locked
  /\ half' = NoHalf
  /\ LET next == [count |-> half.count, next |-> content[f].next] IN
     /\ snap' = [snap EXCEPT ![f] = next]
     /\ Announce(f, snap[f], next)
  /\ lastRev' = rev
  /\ UNCHANGED <<writers, selected, opening, told, ticked, polling, hidden, failures>>

\* It ends, and the session keeps the numbers under the lock.
Compare(f) ==
  /\ half.folder = f /\ ~ Locked
  /\ half' = NoHalf
  /\ LET next == [count |-> half.count, next |-> content[f].next] IN
     /\ snap' = [snap EXCEPT ![f] = next]
     /\ Announce(f, snap[f], next)
  /\ UNCHANGED <<writers, selected, opening, told, lastRev, ticked, polling, hidden, failures>>

\* The server takes an update from the channel, for those in that folder.
Deliver ==
  /\ updates # <<>>
  /\ updates' = Tail(updates)
  /\ told' = IF Head(updates).folder = selected THEN Head(updates).stats ELSE told
  /\ UNCHANGED <<writers, selected, opening, astray, snap, poller, hidden, dropped, failures>>

Poll == ListFolders \/ \E f \in polling : ReadCount(f)

Finish == \E f \in Boxes : Compare(f)

ImapPollNext ==
  \/ \E f \in Boxes : Write(f) \/ Select(f)
  \/ Bump \/ Open \/ Tick \/ Poll \/ Finish \/ Deliver

\* Statements end, the ticker ticks and the server reads its channel.
ImapPollSpec ==
  /\ ImapPollInit /\ [][ImapPollNext]_pollVars
  /\ WF_pollVars(Bump) /\ WF_pollVars(Open) /\ WF_pollVars(Tick)
  /\ WF_pollVars(Poll) /\ WF_pollVars(Finish) /\ WF_pollVars(Deliver)

-----------------------------------------------------------------------------

ImapPollTypeOK ==
  /\ content \in [Boxes -> Stats]
  /\ rev \in Nat /\ lastRev \in 0..rev /\ unbumped \in Nat
  /\ selected \in Boxes \cup {"none"}
  /\ opening.at # "no" => opening.folder \in Boxes /\ selected = "none"
  /\ snap \in [Boxes -> Stats \cup {Absent, Unread}]
  /\ ticked \in BOOLEAN /\ polling \subseteq Boxes
  /\ half.folder \in Boxes \cup {"none"}
  /\ Len(updates) <= ChanSize
  /\ told \in Stats \cup {Absent}
  /\ hidden \in BOOLEAN /\ astray \in BOOLEAN /\ dropped \subseteq Boxes
  /\ failures <= MaxFailures

\* Something that will yet reach the client is under way for folder f: a bump,
\* a poll to come, the present poll, or an update in the channel.
UnderWay(f) ==
  \/ unbumped > 0 \/ rev # lastRev \/ ticked
  \/ f \in polling \/ half.folder = f
  \/ InChannel(f)

\* What excuses the poller: a failed statement until the next bump; a full
\* channel, or a folder whose first snapshot failed, until the next update of it
\* is sent; and, until then too, a SELECT that answered other numbers than the
\* session compares with.  This last is no fault of a statement: either an update
\* was dispatched between the reads of Status and the selection, to nobody, or
\* Status saw a change that was taken back before the poll came to look.
Excused == hidden \/ selected \in dropped \/ astray

\* pollUpdates (imapd/backend.go) loses no change of the numbers that it compares
\* (messages, unseen, UIDNEXT; of other flags a client is never told): whenever
\* what the client of a selected folder was told last is not what the folder has,
\* something is under way that corrects it, or one of the excuses holds, however
\* writes, bumps, polls, deliveries and the steps of SELECT interleave, though an
\* update that was overtaken may tell the client old news.
NewsUnderWay ==
  selected \in Boxes /\ told # content[selected] => Excused \/ UnderWay(selected)

\* "content_rev is the cross-process signal; FolderStats runs only when the
\* revision changes" (imapd/backend.go): whatever changes while a poll is at
\* its statements and the client turns to other folders, the client in the end
\* was told the numbers that its folder has, with the same excuses.
ClientLearns ==
  <>[](selected = "none" \/ Excused \/ told = content[selected])

=============================================================================
