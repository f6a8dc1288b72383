----------------------------- MODULE Directory -----------------------------
(***************************************************************************)
(* One domain, its mailboxes and aliases, under administrators who work at *)
(* the same time, a restore of a backup among them, and mail that is       *)
(* delivered meanwhile.  A request of the admin server reads rows, changes *)
(* them and writes them back whole; DeleteMailbox and AppendMessage are    *)
(* sequences of statements.  A statement may fail: some errors end the     *)
(* request, others are ignored and it goes on.                             *)
(***************************************************************************)
EXTENDS Integers, FiniteSets

CONSTANTS
  Admins,       \* requests of administrators that run at the same time
  Locals,       \* local parts of addresses
  Numbers,      \* bound: ids that the table mailboxes hands out, in this order
  Backup,       \* the backup: a mailbox, an alias of it, the catch-all (Locals)
  MaxTasks,     \* bound: requests of administrators
  MaxJobs,      \* bound: mails queued
  MaxFaults     \* bound: statements that fail

ASSUME DirectoryAssumption ==
  /\ Numbers \subseteq Nat \ {0} /\ 1 \in Numbers
  /\ Backup \in [box : Locals, alias : Locals, catchAll : Locals]
  /\ MaxTasks \in Nat /\ MaxJobs \in Nat /\ MaxFaults \in Nat

VARIABLES
  dom,       \* the row of the domain; id 0 if there is none
  boxes,     \* the rows of its mailboxes, by id
  aliases,   \* the rows of its aliases
  jobs,      \* inbound jobs: the number of each and its mailbox
  counters,  \* mailboxes with rows in folder_uid
  work,      \* work[q]: the step request q is at, and the rows as it read them;
             \* no part of the program: `there`, the mailboxes that were there
             \* when it began, and `blind`, whether its list of them has failed
  letter,    \* the mail under way: not yet queued, or being appended
  \* No part of the program:
  said,      \* what the last answers said of the key, passwords and enabling
  stale,     \* somebody wrote a row back that had changed since it was read
  strayJobs, \* mailboxes whose deletion has had no hold of their jobs ...
  strayUids, \* ... or of their rows in folder_uid
  tasks,     \* what the bounds count
  faults

dirVars == <<dom, boxes, aliases, jobs, counters, work, letter, said, stale,
             strayJobs, strayUids, tasks, faults>>
mails == <<jobs, counters, letter, strayJobs, strayUids>>

Free == [at |-> "idle", op |-> "none", n |-> 0, dom |-> 0, id |-> 0, local |-> "none",
         row |-> "none", have |-> {}, there |-> {}, blind |-> FALSE]
NoLetter == [at |-> "none", box |-> 0, job |-> 0]
NoDomain == [id |-> 0, enabled |-> FALSE, catchAll |-> "none", key |-> 0]
Mailbox(l, on, pass) == [local |-> l, enabled |-> on, pass |-> pass]

DirectoryInit ==
  \E l \in Locals :
    /\ dom = [id |-> 1, enabled |-> TRUE, catchAll |-> l, key |-> 0]
    /\ boxes = [i \in {1} |-> Mailbox(l, TRUE, 0)]
    /\ aliases = {}
    /\ jobs = {}
    /\ counters = {}
    /\ work = [q \in Admins |-> Free]
    /\ letter = NoLetter
    /\ said = [key |-> 0, box |-> boxes]
    /\ stale = FALSE
    /\ strayJobs = {}
    /\ strayUids = {}
    /\ tasks = 0
    /\ faults = 0

Ids == DOMAIN boxes

Bearing(l) == {i \in Ids : boxes[i].local = l}

\* AUTOINCREMENT: an id is never handed out again.
Unissued == Numbers \ DOMAIN said.box

With(f, i, x) == [n \in DOMAIN f \cup {i} |-> IF n = i THEN x ELSE f[n]]

Without(f, s) == [n \in DOMAIN f \ s |-> f[n]]

Assign(q, r) == work' = [work EXCEPT ![q] = r]

Turn(q, step) == work' = [work EXCEPT ![q].at = step]

Close(q) == Assign(q, Free)

\* Request q begins: n is its number, and dom.id the domain it is for.
Start(q, op, id, local, row, have) ==
  /\ work[q].at = "idle"
  /\ tasks < MaxTasks
  /\ tasks' = tasks + 1
  /\ Assign(q, [at |-> op, op |-> op, n |-> tasks', dom |-> dom.id, id |-> id,
                local |-> local, row |-> row, have |-> have, there |-> Ids, blind |-> FALSE])
  /\ UNCHANGED faults

\* A request that is one statement.
AtOnce(q) ==
  /\ work[q].at = "idle"
  /\ tasks < MaxTasks
  /\ tasks' = tasks + 1
  /\ UNCHANGED <<work, faults>>

\* A statement fails.
Fault == faults < MaxFaults /\ faults' = faults + 1

\* DeleteMailbox has passed the statement that deletes what mailbox i has, and
\* is at one of the `steps` after it, or done.
Passed(i, steps) == i \notin Ids \/ \E q \in Admins : work[q].at \in steps /\ work[q].id = i

-----------------------------------------------------------------------------
(* Mail: ResolveRecipient, the job, AppendMessage.                         *)

\* An alias comes first, then an enabled mailbox, then the catch-all mailbox,
\* enabled or not.
Resolves(l) ==
  LET byAlias == {a.box : a \in {b \in aliases : b.local = l}}
      byName == {i \in Bearing(l) : boxes[i].enabled}
  IN IF ~dom.enabled THEN {}
     ELSE IF byAlias # {} THEN byAlias
     ELSE IF byName # {} THEN byName
     ELSE Bearing(dom.catchAll)

\* Process has resolved the recipient.
Resolve(l) ==
  /\ letter = NoLetter
  /\ Cardinality(jobs) < MaxJobs
  /\ \E i \in Resolves(l) : letter' = [at |-> "resolved", box |-> i, job |-> 0]
  /\ UNCHANGED <<dom, boxes, aliases, jobs, counters, work, said, stale, strayJobs, strayUids,
                 tasks, faults>>

\* It inserts the job.  queue_jobs has no reference to mailboxes.
Enqueue ==
  /\ letter.at = "resolved"
  /\ \E n \in 1..MaxJobs \ {j.job : j \in jobs} :
       jobs' = jobs \cup {[job |-> n, box |-> letter.box]}
  /\ strayJobs' = IF Passed(letter.box, {"catch", "row"}) THEN strayJobs \cup {letter.box}
                  ELSE strayJobs
  /\ letter' = NoLetter
  /\ UNCHANGED <<dom, boxes, aliases, counters, work, said, stale, strayUids, tasks, faults>>

\* The worker takes the job; without the mailbox it fails and ends as dead.
StartAppend(j) ==
  /\ letter = NoLetter
  /\ j.box \in Ids
  /\ letter' = [at |-> "append", box |-> j.box, job |-> j.job]
  /\ UNCHANGED <<dom, boxes, aliases, jobs, counters, work, said, stale, strayJobs, strayUids,
                 tasks, faults>>

\* NextUID, which does not need the mailbox, and WriteNew.
CountAppend ==
  /\ letter.at = "append"
  /\ counters' = counters \cup {letter.box}
  /\ strayUids' = IF Passed(letter.box, {"jobs", "catch", "row"})
                  THEN strayUids \cup {letter.box} ELSE strayUids
  /\ letter' = [letter EXCEPT !.at = "insert"]
  /\ UNCHANGED <<dom, boxes, aliases, jobs, work, said, stale, strayJobs, tasks, faults>>

\* The row of the message refers to the mailbox: the INSERT fails without it.
\* Else the job is complete.
InsertMessage ==
  /\ letter.at = "insert"
  /\ letter' = NoLetter
  /\ jobs' = IF letter.box \in Ids
             THEN jobs \ {[job |-> letter.job, box |-> letter.box]}
             ELSE jobs
  /\ UNCHANGED <<dom, boxes, aliases, counters, work, said, stale, strayJobs, strayUids,
                 tasks, faults>>

-----------------------------------------------------------------------------
(* The domain and one mailbox: read the row, change it, write it whole.    *)

\* The requests that begin with findDomain.
ReadDomain(q, op) ==
  /\ dom.id # 0
  /\ Start(q, op, 0, "none", dom, {})
  /\ UNCHANGED <<dom, boxes, aliases, mails, said, stale>>

\* UpsertDomain of a row that has an id; no row if that is gone.
WriteDomain(q, row) ==
  /\ stale' = (stale \/ (dom.id = row.id /\ work[q].row # dom))
  /\ dom' = IF dom.id = row.id THEN row ELSE dom

GenDKIM(q) ==
  /\ work[q].at = "dkim"
  /\ WriteDomain(q, [work[q].row EXCEPT !.key = work[q].n])
  /\ said' = IF dom.id = work[q].dom THEN [said EXCEPT !.key = work[q].n] ELSE said
  /\ Close(q)
  /\ UNCHANGED <<boxes, aliases, mails, tasks, faults>>

UpdateDomain(q) ==
  /\ work[q].at = "domain"
  /\ \E on \in BOOLEAN, l \in Locals \cup {"none"} :
       WriteDomain(q, [work[q].row EXCEPT !.catchAll = l, !.enabled = on])
  /\ Close(q)
  /\ UNCHANGED <<boxes, aliases, mails, said, tasks, faults>>

\* The name of a domain is unique.
CreateDomain(q) ==
  /\ dom.id = 0
  /\ AtOnce(q)
  /\ dom' = [id |-> tasks + 2, enabled |-> TRUE, catchAll |-> "none", key |-> 0]
  /\ said' = [said EXCEPT !.key = 0]
  /\ UNCHANGED <<boxes, aliases, mails, stale>>

ReadMailbox(q) ==
  /\ \E i \in Ids : Start(q, "box", i, "none", boxes[i], {})
  /\ UNCHANGED <<dom, boxes, aliases, mails, said, stale>>

\* UpsertMailbox of a row that has an id; no row if that is gone.
WriteMailbox(q, i, row) ==
  /\ stale' = (stale \/ (i \in Ids /\ work[q].row # boxes[i]))
  /\ boxes' = IF i \in Ids THEN [boxes EXCEPT ![i] = row] ELSE boxes

\* A new password, or enabled or not; what the request leaves out is as read.
UpdateMailbox(q) ==
  /\ work[q].at = "box"
  /\ LET i == work[q].id
     IN \/ /\ WriteMailbox(q, i, [work[q].row EXCEPT !.pass = work[q].n])
           /\ said' = [said EXCEPT !.box[i].pass = work[q].n]
        \/ \E on \in BOOLEAN :
             /\ WriteMailbox(q, i, [work[q].row EXCEPT !.enabled = on])
             /\ said' = [said EXCEPT !.box[i].enabled = on]
  /\ Close(q)
  /\ UNCHANGED <<dom, aliases, mails, tasks, faults>>

-----------------------------------------------------------------------------
(* Mailboxes and aliases come and go.                                      *)

\* INSERT of a mailbox: its name is unique among the mailboxes of the domain.
AddMailbox(l, on, pass) ==
  \E i \in Unissued :
    /\ \A k \in Unissued : i <= k
    /\ boxes' = With(boxes, i, Mailbox(l, on, pass))
    /\ said' = [said EXCEPT !.box = With(@, i, Mailbox(l, on, pass))]

\* createMailbox: aliases are not looked at.
CreateMailbox(q) ==
  /\ dom.id # 0
  /\ \E l \in Locals : Bearing(l) = {} /\ AddMailbox(l, TRUE, 0)
  /\ AtOnce(q)
  /\ UNCHANGED <<dom, aliases, mails, stale>>

Roll == {[id |-> i, local |-> boxes[i].local] : i \in Ids}

\* createAlias: the mailbox it is for belongs to the domain.
CheckAlias(q) ==
  /\ \E l \in Locals, i \in Ids : Start(q, "check", i, l, "none", {})
  /\ UNCHANGED <<dom, boxes, aliases, mails, said, stale>>

CheckNothing(q) ==   \* faulty variant: the mailboxes of the domain are not listed
  /\ work[q].at = "check"
  /\ Turn(q, "alias")
  /\ UNCHANGED <<dom, boxes, aliases, mails, said, stale, tasks, faults>>

\* ListMailboxes: none has that name.
ListNames(q) ==
  /\ work[q].at = "check"
  /\ IF dom.id = work[q].dom /\ Bearing(work[q].local) # {} THEN Close(q) ELSE Turn(q, "alias")
  /\ UNCHANGED <<dom, boxes, aliases, mails, said, stale, tasks, faults>>

\* UpsertAlias: the name is unique among aliases, the mailbox has to exist.
Refused(l, i, id) == dom.id # id \/ i \notin Ids \/ \E a \in aliases : a.local = l

AddAlias(q, l, i) ==
  aliases' = IF Refused(l, i, work[q].dom) THEN aliases
             ELSE aliases \cup {[local |-> l, box |-> i]}

CreateAlias(q) ==
  /\ work[q].at = "alias"
  /\ AddAlias(q, work[q].local, work[q].id)
  /\ Close(q)
  /\ UNCHANGED <<dom, boxes, mails, said, stale, tasks, faults>>

DeleteAlias(q) ==
  /\ \E a \in aliases : aliases' = aliases \ {a}
  /\ AtOnce(q)
  /\ UNCHANGED <<dom, boxes, mails, said, stale>>

StartDelete(q) ==
  /\ \E i \in Ids : Start(q, "delbox", i, "none", "none", {})
  /\ UNCHANGED <<dom, boxes, aliases, mails, said, stale>>

\* n is written with the digits of i first.
Begins(n, i) == \E k \in 0..6 : n \div 10^k = i

\* Whom DeleteMailbox is called for: the request's, or those DeleteDomain lists.
Target(q) == IF work[q].op = "delbox" THEN {work[q].id} ELSE {x.id : x \in work[q].have}

\* No such mailbox: DeleteDomain goes on with the next one.
NextBox(q, i) ==
  IF work[q].op = "delbox" THEN Close(q)
  ELSE work' = [work EXCEPT ![q].at = "deldom", ![q].have = {x \in @ : x.id # i}]

\* DeleteMailbox: the rows of folder_uid.  An error of this statement, and of
\* the next two, is ignored.
ForgetUids(q, i) ==
  /\ work[q].at \in {"delbox", "deldom"}
  /\ i \in Target(q)
  /\ \/ /\ i \in Ids
        /\ work' = [work EXCEPT ![q].at = "jobs", ![q].id = i]
        /\ \/ /\ counters' = counters \ {i}
              /\ strayUids' = strayUids \ {i}
              /\ UNCHANGED faults
           \/ Fault /\ strayUids' = strayUids \cup {i} /\ UNCHANGED counters
     \/ i \notin Ids /\ NextBox(q, i) /\ UNCHANGED <<counters, strayUids, faults>>
  /\ UNCHANGED <<dom, boxes, aliases, jobs, letter, strayJobs, said, stale, tasks>>

ForgetNothing(q) ==   \* faulty variant: what has no foreign key is left
  /\ work[q].at = "jobs"
  /\ Turn(q, "catch")
  /\ UNCHANGED <<dom, boxes, aliases, mails, said, stale, tasks, faults>>

\* The jobs whose text has the number of the mailbox in it.
ForgetJobs(q) ==
  /\ work[q].at = "jobs"
  /\ Turn(q, "catch")
  /\ LET i == work[q].id
     IN \/ /\ jobs' = {j \in jobs : ~Begins(j.box, i)}
           /\ strayJobs' = strayJobs \ {i}
           /\ UNCHANGED faults
        \/ Fault /\ strayJobs' = strayJobs \cup {i} /\ UNCHANGED jobs
  /\ UNCHANGED <<dom, boxes, aliases, counters, letter, strayUids, said, stale, tasks>>

\* The catch-all, if it names the mailbox.
ClearCatchAll(q) ==
  /\ work[q].at = "catch"
  /\ Turn(q, "row")
  /\ \/ /\ dom' = IF work[q].id \in Bearing(dom.catchAll) THEN [dom EXCEPT !.catchAll = "none"]
                  ELSE dom
        /\ UNCHANGED faults
     \/ Fault /\ UNCHANGED dom
  /\ UNCHANGED <<boxes, aliases, mails, said, stale, tasks>>

\* The row of the mailbox; aliases and messages go with it.
DropMailbox(q) ==
  /\ work[q].at = "row"
  /\ boxes' = Without(boxes, {work[q].id})
  /\ aliases' = {a \in aliases : a.box # work[q].id}
  /\ NextBox(q, work[q].id)
  /\ UNCHANGED <<dom, mails, said, stale, tasks, faults>>

\* DeleteDomain: a list of the mailboxes, DeleteMailbox of each ...
StartDeleteDomain(q) ==
  /\ dom.id # 0
  /\ Start(q, "deldom", 0, "none", "none", Roll)
  /\ UNCHANGED <<dom, boxes, aliases, mails, said, stale>>

\* ... and the row, with which go mailboxes that have come meanwhile: nothing
\* is deleted of those that has no foreign key.
DropDomain(q) ==
  /\ work[q].at = "deldom"
  /\ work[q].have = {}
  /\ Close(q)
  /\ IF dom.id = work[q].dom
     THEN /\ dom' = NoDomain /\ boxes' = <<>> /\ aliases' = {}
          /\ strayJobs' = strayJobs \cup (Ids \ work[q].there)
          /\ strayUids' = strayUids \cup (Ids \ work[q].there)
     ELSE UNCHANGED <<dom, boxes, aliases, strayJobs, strayUids>>
  /\ UNCHANGED <<jobs, counters, letter, said, stale, tasks, faults>>

-----------------------------------------------------------------------------
(* restoreBackup: the domain, then its mailbox, then its alias.            *)

ReadBackup(q) ==
  /\ Start(q, "restore", 0, "none", dom, {})
  /\ UNCHANGED <<dom, boxes, aliases, mails, said, stale>>

RestoreNoKey(q) ==   \* faulty variant: the row of the backup, which has no key
  /\ work[q].at = "restore"
  /\ \E on \in BOOLEAN :
       WriteDomain(q, [id |-> work[q].row.id, enabled |-> on, catchAll |-> Backup.catchAll, key |-> 0])
  /\ Turn(q, "list")
  /\ UNCHANGED <<boxes, aliases, mails, said, tasks, faults>>

\* The row of an existing domain keeps its key as read; a new one has none,
\* and is refused if somebody else has made it.
RestoreDomain(q) ==
  /\ work[q].at = "restore"
  /\ \E on \in BOOLEAN :
       LET row == [id |-> work[q].row.id, enabled |-> on, catchAll |-> Backup.catchAll,
                   key |-> work[q].row.key]
       IN IF row.id # 0
          THEN WriteDomain(q, row) /\ Turn(q, "list") /\ UNCHANGED said
          ELSE IF dom.id # 0 THEN Close(q) /\ UNCHANGED <<dom, said, stale>>
          ELSE /\ dom' = [row EXCEPT !.id = work[q].n + 1]
               /\ work' = [work EXCEPT ![q].at = "list", ![q].dom = dom'.id]
               /\ said' = [said EXCEPT !.key = 0]
               /\ UNCHANGED stale
  /\ UNCHANGED <<boxes, aliases, mails, tasks, faults>>

\* ListMailboxes; then GetMailboxByID if the mailbox is among them.
ListBoxes(q) ==
  /\ work[q].at = "list"
  /\ work' = [work EXCEPT ![q].at = "read", ![q].have = IF dom.id = work[q].dom THEN Roll ELSE {}]
  /\ UNCHANGED <<dom, boxes, aliases, mails, said, stale, tasks, faults>>

Known(q, l) == {x.id : x \in {y \in work[q].have : y.local = l}}

\* The mailbox of the backup is new: disabled, with a password nobody knows.
RestoreNew(q) ==
  /\ work[q].at = "read"
  /\ Known(q, Backup.box) = {}
  /\ IF dom.id # work[q].dom
     THEN Close(q) /\ UNCHANGED <<boxes, said>>
     ELSE IF Bearing(Backup.box) # {}
     THEN Turn(q, "aliases") /\ UNCHANGED <<boxes, said>>
     ELSE /\ AddMailbox(Backup.box, FALSE, work[q].n)
          /\ work' = [work EXCEPT ![q].at = "aliases", ![q].have = @ \cup
                        {[id |-> i, local |-> Backup.box] : i \in DOMAIN boxes' \ Ids}]
  /\ UNCHANGED <<dom, aliases, mails, stale, tasks, faults>>

\* It exists: its row is read ...
RestoreRead(q) ==
  /\ work[q].at = "read"
  /\ \E i \in Known(q, Backup.box) :
       IF i \in Ids
       THEN work' = [work EXCEPT ![q].at = "write", ![q].id = i, ![q].row = boxes[i]]
       ELSE Turn(q, "aliases")
  /\ UNCHANGED <<dom, boxes, aliases, mails, said, stale, tasks, faults>>

\* ... changed in its name and quota, and written back.
RestoreOld(q) ==
  /\ work[q].at = "write"
  /\ WriteMailbox(q, work[q].id, work[q].row)
  /\ Turn(q, "aliases")
  /\ UNCHANGED <<dom, aliases, mails, said, tasks, faults>>

\* The alias: not without its mailbox, and not under the name of a mailbox.
RestoreAlias(q) ==
  /\ work[q].at = "aliases"
  /\ IF Known(q, Backup.alias) # {} \/ Known(q, Backup.box) = {}
     THEN UNCHANGED aliases
     ELSE \E i \in Known(q, Backup.box) : AddAlias(q, Backup.alias, i)
  /\ Close(q)
  /\ UNCHANGED <<dom, boxes, mails, said, stale, tasks, faults>>

\* The errors that restoreBackup ignores: the domain counts as not there, so do
\* all mailboxes, or the row of the mailbox is left as it is.
RestoreGoesOn(q) ==
  /\ Fault
  /\ \/ work[q].at = "restore" /\ work' = [work EXCEPT ![q].row = NoDomain, ![q].dom = 0]
     \/ work[q].at = "list" /\ work' = [work EXCEPT ![q].at = "read", ![q].blind = TRUE]
     \/ work[q].at = "read" /\ Known(q, Backup.box) # {} /\ Turn(q, "aliases")
     \/ work[q].at = "write" /\ Turn(q, "aliases")
  /\ UNCHANGED <<dom, boxes, aliases, mails, said, stale, tasks>>

Restoring(q) ==
  \/ RestoreDomain(q) \/ ListBoxes(q) \/ RestoreNew(q)
  \/ RestoreRead(q) \/ RestoreOld(q) \/ RestoreAlias(q) \/ RestoreGoesOn(q)

-----------------------------------------------------------------------------

\* A statement fails whose error ends the request; what it did before stays.
BreakDown(q) ==
  /\ Fault
  /\ work[q].at \in {"dkim", "domain", "box", "check", "alias", "delbox", "deldom", "row",
                     "restore", "read", "aliases"}
  /\ work[q].at = "read" => Known(q, Backup.box) = {}
  /\ Close(q)
  /\ UNCHANGED <<dom, boxes, aliases, mails, said, stale, tasks>>

DirectoryNext ==
  \/ \E l \in Locals : Resolve(l)
  \/ Enqueue
  \/ \E j \in jobs : StartAppend(j)
  \/ CountAppend \/ InsertMessage
  \/ \E q \in Admins :
       \/ \E op \in {"dkim", "domain"} : ReadDomain(q, op)
       \/ GenDKIM(q) \/ UpdateDomain(q) \/ CreateDomain(q)
       \/ ReadMailbox(q) \/ UpdateMailbox(q) \/ CreateMailbox(q)
       \/ CheckAlias(q) \/ ListNames(q) \/ CreateAlias(q) \/ DeleteAlias(q)
       \/ StartDelete(q) \/ DropMailbox(q)
       \/ \E i \in Numbers : ForgetUids(q, i)
       \/ ForgetJobs(q) \/ ClearCatchAll(q)
       \/ StartDeleteDomain(q) \/ DropDomain(q)
       \/ ReadBackup(q) \/ Restoring(q)
       \/ BreakDown(q)

DirectorySpec == DirectoryInit /\ [][DirectoryNext]_dirVars

-----------------------------------------------------------------------------
(* Properties.                                                             *)

DirectoryTypeOK ==
  /\ dom.id \in 0..(MaxTasks + 1) /\ dom.key \in 0..MaxTasks
  /\ Ids \subseteq DOMAIN said.box /\ DOMAIN said.box \subseteq Numbers
  /\ \A i, k \in Ids : boxes[i].local = boxes[k].local => i = k
  /\ dom.id = 0 => Ids = {}
  /\ \A a \in aliases : a.box \in Ids
  /\ \A a, b \in aliases : a.local = b.local => a = b
  /\ counters \cup {j.box : j \in jobs} \subseteq DOMAIN said.box
  /\ letter.at \in {"none", "resolved", "append", "insert"}
  /\ tasks <= MaxTasks

\* What an administrator was told to be done stays done: no other request, and
\* no restore of a backup, takes back a new DKIM key, a new password or the
\* disabling of a mailbox, but for a request that had read the row before.
AnsweredChangesStand ==
  \/ stale
  \/ /\ dom.id # 0 => dom.key = said.key
     /\ \A i \in Ids : /\ boxes[i].pass = said.box[i].pass
                       /\ boxes[i].enabled = said.box[i].enabled

\* "alias conflicts with mailbox local part" (adminapi/handler.go): an alias is
\* resolved first, so none may come to bear the name of a mailbox that was there
\* when the request for it began, and still is, be the request createAlias or a
\* restore.  Two things the code leaves open: a mailbox that comes while the
\* request is under way, or later, may bear the name (nothing makes the list of
\* names and the INSERT one, and createMailbox looks at no alias), and a restore
\* whose list of mailboxes has failed takes it for empty.
AliasNeverTakesOver ==
  [][\A q \in Admins, a \in aliases' \ aliases :
       work'[q] # work[q] /\ ~work[q].blind => Bearing(a.local) \cap work[q].there = {}]_dirVars

\* DeleteMailbox and DeleteDomain leave no job and no row of folder_uid of a
\* mailbox that is gone.  Three things the code leaves open: a statement that
\* failed deleted nothing, mail may be queued or counted after the statement
\* that should have deleted that, and a mailbox that came while the domain was
\* being deleted is not on the list.
DeletionLeavesNothing ==
  \A i \in DOMAIN said.box \ Ids :
    /\ i \in counters => i \in strayUids
    /\ i \in {j.box : j \in jobs} => i \in strayJobs

=============================================================================
