------------------------------ MODULE Webmail ------------------------------
(***************************************************************************)
(* One mailbox as the web client works on it: requests of its tabs (trash, *)
(* move, delete, flags, save draft, load more), each a sequence of IMAP    *)
(* commands on a connection of its own, and imapd's answers.  MailStore    *)
(* splits a command into statements; here a command is one step and the    *)
(* requests interleave between commands.  A tab makes one request after    *)
(* another; only its timed refresh overtakes its "load more".              *)
(***************************************************************************)
EXTENDS Naturals, FiniteSets

CONSTANTS
  Requests,   \* tabs, each with at most one request under way
  Names,      \* names of folders, as LIST shows them
  ListLimit,  \* imapd looks at this many newest messages of a folder (5000)
  PageSize,   \* messages the web client asks for at once
  MaxRows,    \* bound: rows ever inserted
  MaxRequests,   \* bound: requests ever made
  MaxBreaks   \* bound: connections that break or cannot be made

ASSUME WebmailAssumption ==
  /\ {"INBOX", "Drafts", "Trash"} \subseteq Names
  /\ ListLimit \in Nat \ {0} /\ PageSize \in Nat \ {0}
  /\ MaxRows \in Nat \ {0} /\ MaxRequests \in Nat /\ MaxBreaks \in Nat

VARIABLES
  mail,      \* rows of the mailbox: folder, uid, message and the flag \Deleted
  nextUid,   \* nextUid[f]: the UIDNEXT of folder f
  task,      \* task[q]: the request of tab q and the command it sends next
  draft,     \* draft[q]: the draft that tab q is at, and the id it knows it by
  undo,      \* undo[q]: the message q trashed, and the id it would take it back by
  loaded,    \* loaded[q]: the folder q lists, its messages and offset, and "has more"
  \* No part of the program:
  stored,    \* messages that were ever delivered or saved as a draft
  had,       \* had[q]: UIDs in that folder when q opened it and ever since
  doomed,    \* messages that somebody deletes for good
  skipped,   \* messages that COPY did not see and STORE did
  guessed,   \* messages under a UID that another tab expects for its draft
  unsure,    \* tabs whose offer to undo may be about another message
  shifted,   \* tabs whose list lost messages it had counted
  breaks, rowsEver, requests   \* what the bounds count

wmVars == <<mail, nextUid, task, draft, undo, loaded, stored, had, doomed, skipped,
            guessed, unsure, shifted, breaks, rowsEver, requests>>
box == <<mail, nextUid, rowsEver, stored, guessed>>
list == <<loaded, had, shifted>>
offer == <<undo, unsure>>

\* canonicalizeFolder: SELECT, STATUS and APPEND map a name to the store's.
Canonical(name) == IF name = "Junk" THEN "Spam" ELSE name

Folders == Names \cup {Canonical(n) : n \in Names}

Steps == {"idle", "copy", "flag", "mark", "unmark", "expunge", "locate",
          "status", "append", "page", "fetch"}

In(f) == {x \in mail : x.folder = f}

Newest(f, n) == {x \in In(f) : Cardinality({y \in In(f) : y.uid > x.uid}) < n}

Listed(f) == Newest(f, ListLimit)

\* `uid` and `msg` are those of the message that the request is about, or the
\* count and the offset of a list; `copied`, no part of the program, tells that
\* COPY found the message.
Idle == [op |-> "none", at |-> "idle", from |-> "INBOX", dest |-> "INBOX",
         uid |-> 0, msg |-> 0, copied |-> FALSE]

NoUndo == [id |-> 0, msg |-> 0]

NoList == [folder |-> "none", uids |-> {}, offset |-> 0, more |-> FALSE]

WebmailInit ==
  /\ mail = {[folder |-> "INBOX", uid |-> 1, msg |-> 1, deleted |-> FALSE]}
  /\ nextUid = [f \in Folders |-> IF f = "INBOX" THEN 2 ELSE 1]
  /\ task = [q \in Requests |-> Idle]
  /\ draft = [q \in Requests |-> [id |-> 0, msg |-> 0]]
  /\ undo = [q \in Requests |-> NoUndo]
  /\ loaded = [q \in Requests |-> NoList]
  /\ had = [q \in Requests |-> {}]
  /\ doomed = {}
  /\ skipped = {}
  /\ guessed = {}
  /\ unsure = {}
  /\ shifted = {}
  /\ breaks = 0
  /\ rowsEver = 1
  /\ requests = 0
  /\ stored = {1}

Goto(q, step) == task' = [task EXCEPT ![q].at = step]

Over(q) == task' = [task EXCEPT ![q] = Idle]

\* AppendMessage of the store: a new row under the next UID.
Insert(f, msg, deleted) ==
  /\ rowsEver < MaxRows
  /\ rowsEver' = rowsEver + 1
  /\ mail' = mail \cup {[folder |-> f, uid |-> nextUid[f], msg |-> msg, deleted |-> deleted]}
  /\ nextUid' = [nextUid EXCEPT ![f] = @ + 1]

\* Request q has its copy in the Trash and has not looked for it yet.
Looking(q) ==
  /\ task[q].op = "trash" /\ task[q].from # task[q].dest
  /\ task[q].at \in {"flag", "expunge", "locate"}

\* The UID that request q expects for its draft.
Expects(q, uid) == task[q].at = "append" /\ task[q].uid = uid

Break == breaks < MaxBreaks /\ breaks' = breaks + 1

-----------------------------------------------------------------------------
(* The requests begin, about a message that their tab shows.               *)

Begin(q, op, at, from, dest, x) ==
  /\ task[q].at = "idle"
  /\ requests < MaxRequests
  /\ requests' = requests + 1
  /\ task' = [task EXCEPT ![q] = [op |-> op, at |-> at, from |-> from, dest |-> dest,
                                   uid |-> x.uid, msg |-> x.msg, copied |-> FALSE]]

\* The page takes the message out of its list before the server has answered.
Hide(q, from, uid) ==
  /\ loaded' = [loaded EXCEPT ![q].uids = IF loaded[q].folder = from THEN @ \ {uid} ELSE @]
  /\ had' = [had EXCEPT ![q] = IF loaded[q].folder = from THEN @ \ {uid} ELSE @]
  /\ UNCHANGED shifted

\* TrashMessage: COPY to the Trash, \Deleted and EXPUNGE.  In the Trash, or if
\* FindTrashFolder gets no connection, there is no COPY: the message goes.
TrashMessage(q) ==
  \E n \in Names : \E x \in In(Canonical(n)) :
    /\ \/ /\ n # "Trash"
          /\ Begin(q, "trash", "copy", Canonical(n), "Trash", x)
          /\ UNCHANGED <<doomed, breaks>>
       \/ /\ IF n = "Trash" THEN UNCHANGED breaks ELSE Break
          /\ Begin(q, "trash", "flag", Canonical(n), Canonical(n), x)
          /\ doomed' = doomed \cup {x.msg}
    /\ Hide(q, Canonical(n), x.uid)
    /\ undo' = [undo EXCEPT ![q] = NoUndo]
    /\ unsure' = unsure \ {q}
    /\ UNCHANGED <<box, draft, skipped>>

\* MoveMessage: COPY to any other folder, \Deleted and EXPUNGE.
MoveMessage(q) ==
  \E n, d \in Names : \E x \in In(Canonical(n)) :
    /\ n # d
    /\ Begin(q, "move", "copy", Canonical(n), d, x)
    /\ Hide(q, Canonical(n), x.uid)
    /\ UNCHANGED <<box, draft, offer, doomed, skipped, breaks>>

\* UpdateFlags; of the flags only \Deleted matters here.
UpdateFlags(q) ==
  \E n \in Names : \E x \in In(Canonical(n)), step \in {"mark", "unmark"} :
    /\ Begin(q, "flags", step, Canonical(n), Canonical(n), x)
    /\ doomed' = IF step = "mark" THEN doomed \cup {x.msg} ELSE doomed
    /\ UNCHANGED <<box, draft, offer, list, skipped, breaks>>

\* SaveDraft: the new text of the draft in this tab.
SaveDraft(q) ==
  /\ Begin(q, "draft", "status", "Drafts", "Drafts", [uid |-> 0, msg |-> 0])
  /\ UNCHANGED <<box, draft, offer, list, doomed, skipped, breaks>>

\* loadMessages: the tab opens a folder, or lists it anew.
OpenFolder(q) ==
  \E n \in Names :
    /\ Begin(q, "open", "page", Canonical(n), Canonical(n), [uid |-> 0, msg |-> 0])
    /\ loaded' = [loaded EXCEPT ![q] = [NoList EXCEPT !.folder = Canonical(n)]]
    /\ had' = [had EXCEPT ![q] = {}]
    /\ UNCHANGED <<box, draft, offer, shifted, doomed, skipped, breaks>>

\* loadMoreMessages, from the offset at which the list is now.
LoadMore(q) ==
  /\ task[q].at = "idle"
  /\ loaded[q].more
  /\ LET l == loaded[q] IN
     task' = [task EXCEPT ![q] = [op |-> "more", at |-> "page", from |-> l.folder, dest |-> l.folder,
                                   uid |-> 0, msg |-> l.offset, copied |-> FALSE]]
  /\ UNCHANGED <<box, draft, offer, list, doomed, skipped, breaks, requests>>

-----------------------------------------------------------------------------
(* The commands.                                                           *)

Named(q) == {x \in In(task[q].from) : x.uid = task[q].uid}

CopyAnyway(q) ==   \* faulty variant: a COPY that finds nothing counts as done
  /\ task[q].at = "copy"
  /\ task' = [task EXCEPT ![q].at = "flag", ![q].copied = TRUE]
  /\ UNCHANGED <<box, draft, offer, list, doomed, skipped, breaks, requests>>

\* CopyMessages: to the folder of that very name.  Nothing found is no error.
Copy(q) ==
  /\ task[q].at = "copy"
  /\ LET hit == Named(q) \cap Listed(task[q].from)
         dest == task[q].dest IN
     IF hit = {}
     THEN /\ Goto(q, "flag")
          /\ unsure' = unsure \cup {q}
          /\ UNCHANGED box
     ELSE \E x \in hit :
          /\ Insert(dest, x.msg, x.deleted)
          /\ task' = [task EXCEPT ![q].at = "flag", ![q].copied = TRUE]
          /\ unsure' = IF dest = "Trash" THEN unsure \cup {p \in Requests \ {q} : Looking(p)} ELSE unsure
          /\ guessed' = IF dest = "Drafts" /\ \E p \in Requests \ {q} : Expects(p, nextUid["Drafts"])
                        THEN guessed \cup {x.msg} ELSE guessed
          /\ UNCHANGED stored
  /\ UNCHANGED <<draft, undo, list, doomed, skipped, breaks, requests>>

\* Request t moves a message and has not copied it.
Uncopied(t) ==
  t.at = "flag" /\ ~t.copied /\ (t.op = "move" \/ (t.op = "trash" /\ t.from # t.dest))

\* UpdateMessagesFlags of one UID: STORE, silently nothing if it is not listed.
Store(q) ==
  /\ task[q].at \in {"flag", "mark", "unmark"}
  /\ LET hit == Named(q) \cap Listed(task[q].from)
     IN /\ mail' = (mail \ hit) \cup {[x EXCEPT !.deleted = task[q].at # "unmark"] : x \in hit}
        /\ skipped' = IF Uncopied(task[q]) THEN skipped \cup {x.msg : x \in hit} ELSE skipped
  /\ IF task[q].at = "flag" THEN Goto(q, "expunge") ELSE Over(q)
  /\ UNCHANGED <<nextUid, rowsEver, stored, guessed, draft, offer, list, doomed, breaks, requests>>

\* The list of q counts on messages of f that are gone: some were among those
\* before its offset, or the count of SELECT is no longer right.
Shifts(q, f, gone) ==
  /\ loaded[q].folder = f
  /\ \/ gone \cap Newest(f, loaded[q].offset) # {}
     \/ task[q].at = "fetch" /\ gone # {}

\* EXPUNGE takes every flagged message among the newest of the folder, twice
\* as many as the other commands look at.  After it SaveDraft is done.
Expunge(q) ==
  /\ task[q].at = "expunge"
  /\ LET f == task[q].from
         gone == {x \in Newest(f, 2 * ListLimit) : x.deleted}
     IN /\ mail' = mail \ gone
        /\ had' = [p \in Requests |->
                     IF loaded[p].folder = f THEN had[p] \ {x.uid : x \in gone} ELSE had[p]]
        /\ shifted' = shifted \cup {p \in Requests : Shifts(p, f, gone)}
        /\ unsure' = IF \E x \in gone : f = "Trash" /\ x.uid = nextUid[f] - 1
                     THEN unsure \cup {p \in Requests : Looking(p)} ELSE unsure
  /\ IF task[q].op = "trash" /\ task[q].from # task[q].dest
     THEN Goto(q, "locate")
     ELSE Over(q)
  /\ UNCHANGED <<nextUid, rowsEver, stored, guessed, draft, undo, loaded, doomed, skipped, breaks, requests>>

Smallest(s) == CHOOSE u \in s : \A v \in s : u <= v

Largest(s) == CHOOSE u \in s : \A v \in s : u >= v

Found(q) == {x.uid : x \in Listed(task[q].dest)}

LocateOldest(q) ==   \* faulty variant: the first hit of the search, not the last
  /\ task[q].at = "locate" /\ Found(q) # {}
  /\ undo' = [undo EXCEPT ![q] = [id |-> Smallest(Found(q)), msg |-> task[q].msg]]
  /\ Over(q)
  /\ UNCHANGED <<box, draft, unsure, list, doomed, skipped, breaks, requests>>

\* findUIDByMessageID, else newestUID.  imapd knows no search for Message-ID and
\* finds every message, so both come to the newest one.
Locate(q) ==
  /\ task[q].at = "locate" /\ Found(q) # {}
  /\ undo' = [undo EXCEPT ![q] = [id |-> Largest(Found(q)), msg |-> task[q].msg]]
  /\ Over(q)
  /\ UNCHANGED <<box, draft, unsure, list, doomed, skipped, breaks, requests>>

\* Neither finds one: the Trash is empty, or the message has no Message-ID and
\* imapd does not list as many as there are, or the connection breaks.  The
\* answer is a success all the same, with the UID of the folder it came from.
LocateFails(q) ==
  /\ task[q].at = "locate"
  /\ \/ (Found(q) = {} \/ Cardinality(In(task[q].dest)) > ListLimit) /\ UNCHANGED breaks
     \/ Break
  /\ undo' = [undo EXCEPT ![q] = [id |-> task[q].uid, msg |-> task[q].msg]]
  /\ unsure' = unsure \cup {q}
  /\ Over(q)
  /\ UNCHANGED <<box, draft, list, doomed, skipped, requests>>

\* AppendDraft asks for UIDNEXT, and takes it for the UID its APPEND will get.
Status(q) ==
  /\ task[q].at = "status"
  /\ task' = [task EXCEPT ![q].at = "append", ![q].uid = nextUid["Drafts"]]
  /\ UNCHANGED <<box, draft, offer, list, doomed, skipped, breaks, requests>>

\* The draft is stored; then the one the tab knew before is deleted, flagged
\* and expunged like any message.
SaveText(q) ==
  /\ task[q].at = "append"
  /\ LET version == rowsEver + 1
         old == draft[q]
     IN /\ Insert("Drafts", version, FALSE)
        /\ stored' = stored \cup {version}
        /\ guessed' = IF \E p \in Requests \ {q} : Expects(p, nextUid["Drafts"])
                      THEN guessed \cup {version} ELSE guessed
        /\ draft' = [draft EXCEPT ![q] = [id |-> task[q].uid, msg |-> version]]
        /\ IF old.id \in {0, task[q].uid}
           THEN Over(q) /\ UNCHANGED doomed
           ELSE /\ task' = [task EXCEPT ![q].at = "flag", ![q].uid = old.id, ![q].msg = old.msg]
                /\ doomed' = doomed \cup {old.msg}
  /\ UNCHANGED <<offer, list, skipped, breaks, requests>>

\* ListMessages: SELECT tells how many messages there are.
Count(q) ==
  /\ task[q].at = "page"
  /\ LET f == task[q].from
         count == Cardinality(In(f))
     IN /\ IF task[q].msg < count
           THEN task' = [task EXCEPT ![q].at = "fetch", ![q].uid = count] /\ UNCHANGED loaded
           ELSE Over(q) /\ loaded' = [loaded EXCEPT ![q].more = FALSE]
        /\ IF task[q].op = "open"
           THEN /\ had' = [had EXCEPT ![q] = {x.uid : x \in In(f)}]
                /\ shifted' = shifted \ {q}
           ELSE UNCHANGED <<had, shifted>>
  /\ UNCHANGED <<box, draft, offer, doomed, skipped, breaks, requests>>

Smaller(a, b) == IF a < b THEN a ELSE b

\* imapd numbers the messages it lists, the oldest of them with 1.
Number(x) == Cardinality({y \in Listed(x.folder) : y.uid <= x.uid})

Wanted(q) ==
  LET to == task[q].uid - task[q].msg IN (to - Smaller(PageSize, to) + 1)..to

PageFromZero(q) ==   \* faulty variant: numbers messages from 0
  {x \in Listed(task[q].from) : Number(x) + 1 \in Wanted(q)}

\* The page that ends at the offset before the newest message, by the count of
\* SELECT.
PageOf(q) == {x \in Listed(task[q].from) : Number(x) \in Wanted(q)}

\* FETCH by number.  A page that is not full is the last.
Fetch(q) ==
  /\ task[q].at = "fetch"
  /\ loaded' = [loaded EXCEPT ![q] =
                  [folder |-> @.folder,
                   uids |-> @.uids \cup {x.uid : x \in PageOf(q)},
                   offset |-> task[q].msg + Cardinality(PageOf(q)),
                   more |-> Cardinality(PageOf(q)) >= PageSize]]
  /\ shifted' = IF Cardinality(In(task[q].from)) > ListLimit THEN shifted \cup {q} ELSE shifted
  /\ Over(q)
  /\ UNCHANGED <<box, draft, offer, had, doomed, skipped, breaks, requests>>

\* The timed refresh, while the tab waits for its "load more": the list is the
\* first page again, and the page under way is put behind it.
Refresh(q) ==
  /\ task[q].op = "more"
  /\ LET page == {x \in Listed(task[q].from) : x \in Newest(task[q].from, PageSize)}
     IN loaded' = [loaded EXCEPT ![q] =
                     [folder |-> @.folder, uids |-> {x.uid : x \in page},
                      offset |-> Cardinality(page), more |-> Cardinality(page) >= PageSize]]
  /\ shifted' = shifted \cup {q}
  /\ UNCHANGED <<box, task, draft, offer, had, doomed, skipped, breaks, requests>>

-----------------------------------------------------------------------------
(* Around them.                                                            *)

\* The connection breaks before a command or before its answer is there; the
\* tab shows an error, and the message that it had hidden or an empty list.
BreakOff(q) ==
  /\ task[q].at # "idle"
  /\ Break
  /\ Over(q)
  /\ IF task[q].op = "open"
     THEN loaded' = [loaded EXCEPT ![q] = NoList] /\ had' = [had EXCEPT ![q] = {}]
     ELSE IF task[q].op \in {"trash", "move"} /\ loaded[q].folder = task[q].from
     THEN loaded' = [loaded EXCEPT ![q].uids = @ \cup {task[q].uid}] /\ UNCHANGED had
     ELSE UNCHANGED <<loaded, had>>
  /\ UNCHANGED <<box, draft, offer, shifted, doomed, skipped, requests>>

\* The worker stores a new message.
Arrive ==
  /\ Insert("INBOX", rowsEver + 1, FALSE)
  /\ stored' = stored \cup {rowsEver + 1}
  /\ UNCHANGED <<task, draft, offer, list, doomed, skipped, guessed, breaks, requests>>

Command(q) ==
  \/ Copy(q) \/ Store(q) \/ Expunge(q) \/ Locate(q) \/ LocateFails(q)
  \/ Status(q) \/ SaveText(q) \/ Count(q) \/ Fetch(q)

WebmailNext ==
  \/ \E q \in Requests :
       \/ TrashMessage(q) \/ MoveMessage(q) \/ UpdateFlags(q)
       \/ SaveDraft(q) \/ OpenFolder(q) \/ LoadMore(q) \/ Refresh(q)
       \/ Command(q)
       \/ BreakOff(q)
  \/ Arrive

WebmailSpec == WebmailInit /\ [][WebmailNext]_wmVars

-----------------------------------------------------------------------------
(* Properties.                                                             *)

WebmailTypeOK ==
  /\ \A x \in mail : /\ x.folder \in Folders
                     /\ x.uid \in 1..(nextUid[x.folder] - 1)
                     /\ x.msg \in 1..rowsEver
                     /\ x.deleted \in BOOLEAN
  /\ \A x, y \in mail : x.folder = y.folder /\ x.uid = y.uid => x = y
  /\ \A q \in Requests : task[q].at \in Steps /\ task[q].dest \in Folders
  /\ \A q \in Requests : loaded[q].folder \in Folders \cup {"none"} /\ loaded[q].more \in BOOLEAN
  /\ doomed \cup skipped \cup guessed \subseteq 1..rowsEver
  /\ unsure \cup shifted \subseteq Requests
  /\ rowsEver <= MaxRows /\ breaks <= MaxBreaks /\ requests <= MaxRequests

\* Moving, trashing and saving drafts never loses a message, however requests
\* of several tabs interleave and wherever they break off: EXPUNGE takes other
\* requests' messages along, but each of them was copied before it was flagged.
\* Two kinds of message are excepted, for the code loses them: one that was
\* beyond imapd's window at COPY, which is no error, and had come into it at
\* STORE; and one that got the UID another tab guessed for its draft and
\* deletes as its old version.
NothingVanishes ==
  \A m \in stored : m \in doomed \cup skipped \cup guessed \/ \E x \in mail : x.msg = m

\* "TrashResult describes where a trashed message landed (for undo)" (imap.go):
\* what Undo would take back is the message that was trashed, for as long as it
\* is offered.  Undo is about another one, and the tab excepted, when COPY
\* found nothing, when other tabs put something into the Trash or took the copy
\* out between COPY and the search, and when the search failed.
UndoTakesBack ==
  \A q \in Requests \ unsure : \A x \in mail :
    x.folder = "Trash" /\ x.uid = undo[q].id => x.msg = undo[q].msg

\* A list that was loaded to its end has every message that was in the folder
\* all the time, also when new ones moved the pages in between or older ones
\* went.  Excepted are lists of which messages before the offset went, by this
\* tab or another, for the page does not turn its offset back; folders beyond
\* imapd's window; and a "load more" that the timed refresh overtook.
PagesComplete ==
  \A q \in Requests \ shifted :
    task[q].at = "idle" /\ ~loaded[q].more /\ loaded[q].folder # "none" => had[q] \subseteq loaded[q].uids

\* "Mailcow name; store key remains Spam" (imapd/backend.go): a message that
\* was moved into a folder shown by LIST is found when that folder is opened.
MovedIsShown == \A x \in mail : \E n \in Names : Canonical(n) = x.folder

=============================================================================
