-------------------------- MODULE DirectoryProofs --------------------------
(***************************************************************************)
(* Proofs about the directory, for any number of administrators and        *)
(* requests: the tables stay consistent, an alias never takes over the     *)
(* name of a mailbox, what was answered stands unless a stale row was      *)
(* written back, and a deletion leaves nothing behind.                     *)
(***************************************************************************)
EXTENDS Directory, TLAPS

-----------------------------------------------------------------------------
(* The inductive invariant.                                                *)

DomainRows == [id : 0..(MaxTasks + 1), enabled : BOOLEAN,
               catchAll : Locals \cup {"none"}, key : 0..MaxTasks]
MailboxRows == [local : Locals, enabled : BOOLEAN, pass : 0..MaxTasks]
Entries == [id : Numbers, local : Locals]
DomainSteps == {"dkim", "domain", "restore"}
AdminSteps == DomainSteps \cup {"idle", "box", "check", "alias", "delbox", "jobs", "catch",
                           "row", "deldom", "list", "read", "write", "aliases"}
Ops == DomainSteps \cup {"none", "box", "check", "delbox", "deldom"}
WorkRow(r) ==
  /\ r = [at |-> r.at, op |-> r.op, n |-> r.n, dom |-> r.dom, id |-> r.id,
          local |-> r.local, row |-> r.row, have |-> r.have, there |-> r.there, blind |-> r.blind]
  /\ r.at \in AdminSteps /\ r.op \in Ops /\ r.n \in 0..MaxTasks
  /\ r.dom \in 0..(MaxTasks + 1) /\ r.id \in Numbers \cup {0}
  /\ r.local \in Locals \cup {"none"} /\ r.have \in SUBSET Entries
  /\ r.there \in SUBSET Numbers /\ r.blind \in BOOLEAN

\* The tables, and the name under which each id was handed out.
Issued == DOMAIN said.box
TablesOK ==
  /\ dom \in DomainRows
  /\ boxes \in [Ids -> MailboxRows]
  /\ said = [key |-> said.key, box |-> said.box]
  /\ said.key \in 0..MaxTasks
  /\ said.box \in [Issued -> MailboxRows]
  /\ Ids \subseteq Issued /\ Issued \subseteq Numbers
  /\ \A i \in Ids : boxes[i].local = said.box[i].local
  /\ \A i, k \in Ids : boxes[i].local = boxes[k].local => i = k
  /\ dom.id = 0 => Ids = {} /\ dom.key = 0
  /\ tasks \in 0..MaxTasks

\* The steps of DeleteMailbox after its first statement.
Sweeps == {"jobs", "catch", "row"}

\* What a request has read and still relies on.
Holds(r, names) ==
  /\ WorkRow(r)
  /\ r.at \in DomainSteps => /\ r.row \in DomainRows /\ r.dom = r.row.id
                             /\ r.dom = 0 => r.row.key = 0 /\ r.at = "restore"
  /\ r.at \in {"list", "read", "write", "aliases"} => r.dom # 0
  /\ r.at \in {"box", "write"} => /\ r.row \in MailboxRows /\ r.id \in DOMAIN names
                                  /\ r.row.local = names[r.id].local
  /\ \A x \in r.have : x.id \in DOMAIN names /\ x.local = names[x.id].local
  /\ r.there \subseteq DOMAIN names
  /\ r.at \in Sweeps => r.op \in {"delbox", "deldom"} /\ r.id # 0
  /\ r.at \in {"delbox", "deldom"} => r.op = r.at
  /\ r.op = "delbox" => r.at \in Sweeps \cup {"delbox"} /\ r.id # 0
  /\ r.op = "deldom" => r.at \in Sweeps \cup {"deldom"}

RequestsOK ==
  /\ work = [q \in Admins |-> work[q]]
  /\ \A q \in Admins : Holds(work[q], said.box)

\* Each alias has a mailbox, and a name of its own among the aliases.
AliasesOK ==
  /\ \A a \in aliases : a.box \in Ids
  /\ \A a, b \in aliases : a.local = b.local => a = b

\* What is left of mailbox i in folder_uid, or in queue_jobs, is excused.
UidsGone(i) == i \in counters => i \in strayUids
JobsGone(i) == \A j \in jobs : j.box = i => i \in strayJobs

\* Which statements of DeleteMailbox request r has behind it, and which
\* mailboxes a deletion of the domain still has to delete.
Swept(r) ==
  /\ r.at \in Sweeps => UidsGone(r.id)
  /\ r.at \in {"catch", "row"} => JobsGone(r.id)

Remembers(r) == r.op = "deldom" => \A i \in Ids \cap r.there : \E x \in r.have : x.id = i

MailOK ==
  /\ letter \in [at : {"none", "resolved", "append", "insert"}, box : Numbers \cup {0},
                 job : Nat]
  /\ letter.at # "none" => letter.box \in Issued
  /\ jobs \subseteq [job : 1..MaxJobs, box : Issued]
  /\ counters \subseteq Issued
  /\ \A q \in Admins : Swept(work[q]) /\ Remembers(work[q])
  /\ \A i \in Issued \ Ids : UidsGone(i) /\ JobsGone(i)

DirInv == TablesOK /\ RequestsOK /\ AliasesOK /\ AnsweredChangesStand /\ MailOK

-----------------------------------------------------------------------------
(* What steps have in common.                                              *)

\* Ids and names are only added to those handed out.
Grows ==
  /\ Issued \subseteq Issued'
  /\ \A i \in Issued : said'.box[i].local = said.box[i].local

Quiet(r) == r.op \notin {"delbox", "deldom"} /\ r.at \notin Sweeps

LEMMA BoundsAreNumbers ==
  /\ MaxTasks \in Nat /\ MaxJobs \in Nat /\ MaxFaults \in Nat
  /\ \A i \in Numbers : i \in Nat /\ i # 0
  BY DirectoryAssumption

\* Assign changes the entry of one request.
LEMMA AssignOne ==
  ASSUME NEW q \in Admins, NEW r, work = [p \in Admins |-> work[p]],
         work' = [work EXCEPT ![q] = r]
  PROVE  /\ work' = [p \in Admins |-> work'[p]]
         /\ work'[q] = r
         /\ \A p \in Admins : p # q => work'[p] = work[p]
  OBVIOUS

LEMMA HoldsGrows ==
  ASSUME NEW r, NEW b, NEW c, Holds(r, b), DOMAIN b \subseteq DOMAIN c,
         \A i \in DOMAIN b : c[i].local = b[i].local
  PROVE  Holds(r, c)
  <1> USE DEF Holds
  <1>1. r.at \in {"box", "write"} => r.row.local = c[r.id].local
    OBVIOUS
  <1>2. \A x \in r.have : x.id \in DOMAIN c /\ x.local = c[x.id].local
    OBVIOUS
  <1> QED
    BY <1>1, <1>2

LEMMA FreeHolds ==
  ASSUME NEW b
  PROVE  Holds(Free, b) /\ Quiet(Free)
  BY BoundsAreNumbers DEF Holds, Free, WorkRow, AdminSteps, DomainSteps, Ops, Quiet, Sweeps

\* A step of request q leaves what the others have read as it is.
LEMMA RequestsKept ==
  ASSUME RequestsOK, Grows, NEW q \in Admins,
         work' = [p \in Admins |-> work'[p]],
         Holds(work'[q], said'.box),
         \A p \in Admins : p # q => work'[p] = work[p]
  PROVE  RequestsOK'
  <1>1. ASSUME NEW p \in Admins
        PROVE  Holds(work'[p], said'.box)
    <2>1. CASE p = q
      BY <2>1
    <2>2. CASE p # q
      <3>1. Holds(work[p], said.box)
        BY DEF RequestsOK
      <3>2. DOMAIN said.box \subseteq DOMAIN said'.box
            /\ \A i \in DOMAIN said.box : said'.box[i].local = said.box[i].local
        BY DEF Grows, Issued
      <3> QED
        BY <2>2, <3>1, <3>2, HoldsGrows
    <2> QED
      BY <2>1, <2>2
  <1> QED
    BY <1>1 DEF RequestsOK

LEMMA RequestsUntouched ==
  ASSUME RequestsOK, Grows, work' = work
  PROVE  RequestsOK'
  <1>1. DOMAIN said.box \subseteq DOMAIN said'.box
        /\ \A i \in DOMAIN said.box : said'.box[i].local = said.box[i].local
    BY DEF Grows, Issued
  <1>2. ASSUME NEW p \in Admins
        PROVE  Holds(work'[p], said'.box)
    BY <1>1, HoldsGrows DEF RequestsOK
  <1> QED
    BY <1>2 DEF RequestsOK

\* Aliases go, and none loses its mailbox.
LEMMA AliasesKept ==
  ASSUME AliasesOK, Grows, aliases' \subseteq aliases,
         \A a \in aliases' : a.box \in Ids'
  PROVE  AliasesOK'
  BY DEF AliasesOK, Grows, Issued

\* Request p has gone on with a deletion, of which it has done what it should.
GoesOn(p) ==
  /\ Swept(work'[p])
  /\ work'[p].op = "deldom" =>
       \A i \in Ids' \cap work'[p].there : \E x \in work'[p].have : x.id = i

\* No mail moves; mailboxes come, and those that go have been swept; a request
\* goes on with a deletion only as the invariant says.
LEMMA MailKept ==
  ASSUME RequestsOK, MailOK, UNCHANGED mails, Grows,
         Issued' \ Issued \subseteq Ids', Ids' \cap Issued \subseteq Ids,
         \A i \in Ids \ Ids' : UidsGone(i) /\ JobsGone(i),
         \A p \in Admins : \/ work'[p] = work[p] \/ Quiet(work'[p])
                          \/ GoesOn(p)
  PROVE  MailOK'
  <1> USE DEF mails, Grows
  <1>1. UNCHANGED <<jobs, counters, letter, strayJobs, strayUids>>
    OBVIOUS
  <1>2. \A i : /\ UidsGone(i)' <=> UidsGone(i)
              /\ JobsGone(i)' <=> JobsGone(i)
    BY <1>1 DEF UidsGone, JobsGone
  <1>3. /\ letter' \in [at : {"none", "resolved", "append", "insert"}, box : Numbers \cup {0},
                         job : Nat]
        /\ letter'.at # "none" => letter'.box \in Issued'
        /\ jobs' \subseteq [job : 1..MaxJobs, box : Issued']
        /\ counters' \subseteq Issued'
    BY <1>1 DEF MailOK
  <1>4. ASSUME NEW p \in Admins
        PROVE  GoesOn(p)
    <2>1. work[p].there \subseteq Issued /\ Swept(work[p]) /\ Remembers(work[p])
      BY DEF RequestsOK, Holds, Issued, MailOK
    <2>2. CASE work'[p] = work[p]
      BY <2>1, <2>2 DEF GoesOn, Swept, Remembers
    <2>3. CASE Quiet(work'[p])
      BY <2>3 DEF GoesOn, Swept, Quiet, Sweeps
    <2> QED
      BY <2>2, <2>3
  <1>5. ASSUME NEW i \in Issued' \ Ids'
        PROVE  UidsGone(i) /\ JobsGone(i)
    BY DEF MailOK
  <1>6. ASSUME NEW p \in Admins
        PROVE  Swept(work[p])' /\ Remembers(work[p])'
    <2>1. GoesOn(p)
      BY <1>4
    <2>2. UidsGone(work'[p].id) => UidsGone(work[p].id)'
      BY <1>1 DEF UidsGone
    <2>3. JobsGone(work'[p].id) => JobsGone(work[p].id)'
      BY <1>1 DEF JobsGone
    <2> QED
      BY <2>1, <2>2, <2>3 DEF GoesOn, Swept, Remembers
  <1> QED
    BY <1>2, <1>3, <1>5, <1>6 DEF MailOK

\* An administrator begins a request with rows as they are.
LEMMA Started ==
  ASSUME DirInv, NEW q \in Admins, NEW op \in Ops \ {"none"}, NEW id \in Numbers \cup {0},
         NEW local \in Locals \cup {"none"}, NEW row, NEW have \in SUBSET Entries,
         Start(q, op, id, local, row, have),
         UNCHANGED <<dom, boxes, aliases, said, stale>>,
         \A x \in have : x.id \in Issued /\ x.local = said.box[x.id].local,
         op \in DomainSteps => row = dom /\ (dom.id = 0 => op = "restore"),
         op = "box" => id \in Ids /\ row = boxes[id],
         op = "delbox" => id # 0
  PROVE  /\ TablesOK' /\ RequestsOK' /\ AliasesOK' /\ AnsweredChangesStand'
         /\ Grows
         /\ work'[q].op = op /\ work'[q].at = op /\ work'[q].id = id /\ work'[q].have = have
         /\ work'[q].there = Ids /\ ~work'[q].blind
         /\ \A p \in Admins : p # q => work'[p] = work[p]
  <1> USE DEF DirInv
  <1> DEFINE r == [at |-> op, op |-> op, n |-> tasks', dom |-> dom.id, id |-> id,
                   local |-> local, row |-> row, have |-> have, there |-> Ids, blind |-> FALSE]
  <1>1. tasks' = tasks + 1 /\ tasks < MaxTasks /\ work' = [work EXCEPT ![q] = r]
    BY DEF Start, Assign
  <1>2. tasks \in 0..MaxTasks /\ dom \in DomainRows
    BY DEF TablesOK
  <1>3. tasks' \in 0..MaxTasks
    BY <1>1, <1>2, BoundsAreNumbers
  <1>4. TablesOK'
    BY <1>3 DEF TablesOK, Issued, Ids
  <1>5. Grows
    BY DEF Grows, Issued
  <1>6. WorkRow(r) /\ Ids \subseteq Issued
    BY <1>2, <1>3 DEF WorkRow, AdminSteps, DomainSteps, Ops, DomainRows, TablesOK
  <1>7. op = "box" => row \in MailboxRows /\ id \in Issued /\ row.local = said.box[id].local
    BY DEF TablesOK, Issued
  <1>8. op \in DomainSteps =>
          row \in DomainRows /\ dom.id = row.id /\ (dom.id = 0 => row.key = 0 /\ op = "restore")
    BY DEF TablesOK
  <1>9. Holds(r, said'.box)
    BY <1>6, <1>7, <1>8 DEF Holds, Issued, Ops, DomainSteps, Sweeps
  <1> HIDE DEF r
  <1>10. /\ work' = [p \in Admins |-> work'[p]] /\ work'[q] = r
         /\ \A p \in Admins : p # q => work'[p] = work[p]
    BY <1>1, AssignOne DEF RequestsOK
  <1>11. RequestsOK'
    BY <1>5, <1>9, <1>10, RequestsKept
  <1>12. AliasesOK'
    BY <1>5, AliasesKept DEF AliasesOK, Ids
  <1>13. AnsweredChangesStand'
    BY DEF AnsweredChangesStand, Ids
  <1> QED
    BY <1>4, <1>5, <1>10, <1>11, <1>12, <1>13 DEF r

LEMMA ReadDomainKeeps ==
  ASSUME DirInv, NEW q \in Admins, NEW op \in {"dkim", "domain"}, ReadDomain(q, op)
  PROVE  DirInv'
  <1>1. /\ dom.id # 0 /\ Start(q, op, 0, "none", dom, {})
        /\ UNCHANGED <<dom, boxes, aliases, said, stale>> /\ UNCHANGED mails
    BY DEF ReadDomain
  <1>2. /\ TablesOK' /\ RequestsOK' /\ AliasesOK' /\ AnsweredChangesStand' /\ Grows
        /\ Quiet(work'[q]) /\ \A p \in Admins : p # q => work'[p] = work[p]
    BY <1>1, Started DEF Ops, DomainSteps, Quiet, Sweeps
  <1>3. MailOK'
    BY <1>1, <1>2, MailKept DEF DirInv, Ids, Issued
  <1> QED
    BY <1>2, <1>3 DEF DirInv

LEMMA ReadBackupKeeps ==
  ASSUME DirInv, NEW q \in Admins, ReadBackup(q)
  PROVE  DirInv'
  <1>1. /\ Start(q, "restore", 0, "none", dom, {})
        /\ UNCHANGED <<dom, boxes, aliases, said, stale>> /\ UNCHANGED mails
    BY DEF ReadBackup
  <1>2. /\ TablesOK' /\ RequestsOK' /\ AliasesOK' /\ AnsweredChangesStand' /\ Grows
        /\ Quiet(work'[q]) /\ \A p \in Admins : p # q => work'[p] = work[p]
    BY <1>1, Started DEF Ops, DomainSteps, Quiet, Sweeps
  <1>3. MailOK'
    BY <1>1, <1>2, MailKept DEF DirInv, Ids, Issued
  <1> QED
    BY <1>2, <1>3 DEF DirInv

LEMMA ReadMailboxKeeps ==
  ASSUME DirInv, NEW q \in Admins, ReadMailbox(q)
  PROVE  DirInv'
  <1>1. PICK i \in Ids : Start(q, "box", i, "none", boxes[i], {})
    BY DEF ReadMailbox
  <1>2. UNCHANGED <<dom, boxes, aliases, said, stale>> /\ UNCHANGED mails
    BY DEF ReadMailbox
  <1>3. /\ i \in Numbers \cup {0}
        /\ "box" \in Ops \ {"none"} /\ "box" \notin DomainSteps
        /\ "none" \in Locals \cup {"none"} /\ {} \in SUBSET Entries
    BY DEF DirInv, TablesOK, Ops, DomainSteps
  <1>4. /\ TablesOK' /\ RequestsOK' /\ AliasesOK' /\ AnsweredChangesStand' /\ Grows
        /\ Quiet(work'[q]) /\ \A p \in Admins : p # q => work'[p] = work[p]
    <2>1. PICK row : row = boxes[i]
      OBVIOUS
    <2>2. Start(q, "box", i, "none", row, {})
      BY <1>1, <2>1
    <2> QED
      BY <1>2, <1>3, <2>1, <2>2, Started DEF Quiet, Sweeps
  <1>5. MailOK'
    BY <1>2, <1>4, MailKept DEF DirInv, Ids, Issued
  <1> QED
    BY <1>4, <1>5 DEF DirInv

\* The list of mailboxes.
LEMMA RollIsTrue ==
  ASSUME TablesOK
  PROVE  /\ Roll \in SUBSET Entries
         /\ \A x \in Roll : x.id \in Ids /\ x.id \in Issued /\ x.local = said.box[x.id].local
         /\ \A i \in Ids : \E x \in Roll : x.id = i
         /\ \A l : Bearing(l) = {} => \A x \in Roll : x.local # l
  <1>1. \A i \in Ids : i \in Numbers /\ i \in Issued /\ boxes[i].local \in Locals
                       /\ boxes[i].local = said.box[i].local
    BY DEF TablesOK, MailboxRows
  <1>2. \A x \in Roll : x \in Entries /\ x.id \in Ids /\ x.local = boxes[x.id].local
    BY <1>1 DEF Roll, Entries
  <1>3. ASSUME NEW i \in Ids
        PROVE  \E x \in Roll : x.id = i
    <2>1. [id |-> i, local |-> boxes[i].local] \in Roll
      BY DEF Roll
    <2> QED
      BY <2>1
  <1>4. ASSUME NEW l, Bearing(l) = {}, NEW x \in Roll
        PROVE  x.local # l
    BY <1>2, <1>4 DEF Bearing
  <1> QED
    BY <1>1, <1>2, <1>3, <1>4

LEMMA CheckAliasKeeps ==
  ASSUME DirInv, NEW q \in Admins, CheckAlias(q)
  PROVE  DirInv'
  <1>1. PICK l \in Locals, i \in Ids : Start(q, "check", i, l, "none", {})
    BY DEF CheckAlias
  <1>2. UNCHANGED <<dom, boxes, aliases, said, stale>> /\ UNCHANGED mails
    BY DEF CheckAlias
  <1>3. i \in Numbers \cup {0} /\ l \in Locals \cup {"none"}
    BY DEF DirInv, TablesOK
  <1>4. /\ TablesOK' /\ RequestsOK' /\ AliasesOK' /\ AnsweredChangesStand' /\ Grows
        /\ Quiet(work'[q]) /\ \A p \in Admins : p # q => work'[p] = work[p]
    BY <1>1, <1>2, <1>3, Started DEF Ops, DomainSteps, Quiet, Sweeps
  <1>5. MailOK'
    BY <1>2, <1>4, MailKept DEF DirInv, Ids, Issued
  <1> QED
    BY <1>4, <1>5 DEF DirInv

-----------------------------------------------------------------------------
(* Rows that are written back.                                             *)

LEMMA DomainWritten ==
  ASSUME DirInv, NEW q \in Admins, NEW row \in DomainRows, row.id # 0, WriteDomain(q, row)
  PROVE  /\ dom' \in DomainRows /\ dom'.id = dom.id
         /\ dom'.id = 0 => dom'.key = 0
         /\ dom' # dom => dom.id = row.id /\ dom' = row
         /\ dom.id = row.id => dom' = row
         /\ stale' = (stale \/ (dom.id = row.id /\ work[q].row # dom))
  BY DEF WriteDomain, DirInv, TablesOK

LEMMA MailboxWritten ==
  ASSUME DirInv, NEW q \in Admins, NEW row \in MailboxRows,
         work[q].id \in Issued, row.local = said.box[work[q].id].local,
         WriteMailbox(q, work[q].id, row)
  PROVE  /\ boxes' \in [Ids -> MailboxRows] /\ Ids' = Ids
         /\ \A i \in Ids : boxes'[i] = IF i = work[q].id THEN row ELSE boxes[i]
         /\ \A i \in Ids : boxes'[i].local = boxes[i].local
         /\ stale' = (stale \/ (work[q].id \in Ids /\ work[q].row # boxes[work[q].id]))
  <1>1. boxes \in [Ids -> MailboxRows] /\ \A i \in Ids : boxes[i].local = said.box[i].local
    BY DEF DirInv, TablesOK
  <1>2. stale' = (stale \/ (work[q].id \in Ids /\ work[q].row # boxes[work[q].id]))
    BY Zenon DEF WriteMailbox
  <1>3. boxes' = IF work[q].id \in Ids THEN [boxes EXCEPT ![work[q].id] = row] ELSE boxes
    BY DEF WriteMailbox
  <1>4. boxes' \in [Ids -> MailboxRows]
    BY <1>1, <1>3
  <1>5. Ids' = Ids
    BY <1>4 DEF Ids
  <1>6. \A i \in Ids : boxes'[i] = IF i = work[q].id THEN row ELSE boxes[i]
    BY <1>1, <1>3
  <1>7. \A i \in Ids : boxes'[i].local = boxes[i].local
    BY <1>1, <1>6
  <1> QED
    BY <1>2, <1>4, <1>5, <1>6, <1>7

\* A request that ends.
LEMMA Closed ==
  ASSUME DirInv, Grows, NEW q \in Admins, Close(q)
  PROVE  /\ RequestsOK'
         /\ Quiet(work'[q])
         /\ \A p \in Admins : p # q => work'[p] = work[p]
  <1>1. work' = [work EXCEPT ![q] = Free]
    BY DEF Close, Assign
  <1>2. /\ work' = [p \in Admins |-> work'[p]] /\ work'[q] = Free
        /\ \A p \in Admins : p # q => work'[p] = work[p]
    BY <1>1, AssignOne DEF DirInv, RequestsOK
  <1> QED
    BY <1>2, FreeHolds, RequestsKept DEF DirInv

\* The tables after a step that touches the row of the domain alone.
LEMMA DomainChanged ==
  ASSUME DirInv, UNCHANGED <<boxes, tasks>>, dom' \in DomainRows,
         dom'.id = 0 => dom.id = 0 /\ dom'.key = 0,
         said' = said \/ \E k \in 0..MaxTasks : said' = [said EXCEPT !.key = k]
  PROVE  TablesOK' /\ Grows
  <1>1. said = [key |-> said.key, box |-> said.box] /\ said.key \in 0..MaxTasks
    BY DEF DirInv, TablesOK
  <1>2. said'.box = said.box /\ said'.key \in 0..MaxTasks
        /\ said' = [key |-> said'.key, box |-> said'.box]
    BY <1>1
  <1> QED
    BY <1>2 DEF DirInv, TablesOK, Grows, Ids, Issued

LEMMA GenDKIMKeeps ==
  ASSUME DirInv, NEW q \in Admins, GenDKIM(q)
  PROVE  DirInv'
  <1> DEFINE row == [work[q].row EXCEPT !.key = work[q].n]
  <1>1. /\ work[q].at = "dkim" /\ WriteDomain(q, row) /\ Close(q)
        /\ said' = IF dom.id = work[q].dom THEN [said EXCEPT !.key = work[q].n] ELSE said
        /\ UNCHANGED <<boxes, aliases, tasks>> /\ UNCHANGED mails
    BY DEF GenDKIM
  <1>2. /\ work[q].row \in DomainRows /\ work[q].dom = work[q].row.id /\ work[q].dom # 0
        /\ work[q].n \in 0..MaxTasks
    BY <1>1 DEF DirInv, RequestsOK, Holds, WorkRow, DomainSteps
  <1>3. row \in DomainRows /\ row.id = work[q].dom /\ row.id # 0 /\ row.key = work[q].n
    BY <1>2 DEF DomainRows
  <1> HIDE DEF row
  <1>4. /\ dom' \in DomainRows /\ dom'.id = dom.id
        /\ dom'.id = 0 => dom'.key = 0
        /\ dom' # dom => dom.id = row.id /\ dom' = row
        /\ dom.id = row.id => dom' = row
        /\ stale' = (stale \/ (dom.id = row.id /\ work[q].row # dom))
    BY <1>1, <1>3, DomainWritten
  <1>5. TablesOK' /\ Grows
    BY <1>1, <1>2, <1>4, DomainChanged
  <1>6. RequestsOK' /\ Quiet(work'[q]) /\ \A p \in Admins : p # q => work'[p] = work[p]
    BY <1>1, <1>5, Closed
  <1>7. AliasesOK'
    BY <1>1, <1>5, AliasesKept DEF DirInv, AliasesOK, Ids
  <1>8. AnsweredChangesStand'
    <2>1. said = [key |-> said.key, box |-> said.box]
      BY DEF DirInv, TablesOK
    <2>2. said'.box = said.box /\ said'.key = IF dom.id = row.id THEN row.key ELSE said.key
      BY <1>1, <1>3, <2>1
    <2> QED
      BY <1>1, <1>4, <2>2 DEF DirInv, AnsweredChangesStand, Ids
  <1>9. MailOK'
    BY <1>1, <1>5, <1>6, MailKept DEF DirInv, Ids, Issued
  <1> QED
    BY <1>5, <1>6, <1>7, <1>8, <1>9 DEF DirInv

LEMMA UpdateDomainKeeps ==
  ASSUME DirInv, NEW q \in Admins, UpdateDomain(q)
  PROVE  DirInv'
  <1>1. PICK on \in BOOLEAN, l \in Locals \cup {"none"} :
          WriteDomain(q, [work[q].row EXCEPT !.catchAll = l, !.enabled = on])
    BY DEF UpdateDomain
  <1>2. /\ work[q].at = "domain" /\ Close(q)
        /\ UNCHANGED <<boxes, aliases, said, tasks>> /\ UNCHANGED mails
    BY DEF UpdateDomain
  <1> DEFINE row == [work[q].row EXCEPT !.catchAll = l, !.enabled = on]
  <1>3. work[q].row \in DomainRows /\ work[q].dom = work[q].row.id /\ work[q].dom # 0
    BY <1>2 DEF DirInv, RequestsOK, Holds, WorkRow, DomainSteps
  <1>4. row \in DomainRows /\ row.id = work[q].row.id /\ row.id # 0 /\ row.key = work[q].row.key
    BY <1>3 DEF DomainRows
  <1>5. WriteDomain(q, row)
    BY <1>1
  <1> HIDE DEF row
  <1>6. /\ dom' \in DomainRows /\ dom'.id = dom.id
        /\ dom'.id = 0 => dom'.key = 0
        /\ dom' # dom => dom.id = row.id /\ dom' = row
        /\ dom.id = row.id => dom' = row
        /\ stale' = (stale \/ (dom.id = row.id /\ work[q].row # dom))
    BY <1>4, <1>5, DomainWritten
  <1>7. TablesOK' /\ Grows
    BY <1>2, <1>6, DomainChanged
  <1>8. RequestsOK' /\ Quiet(work'[q]) /\ \A p \in Admins : p # q => work'[p] = work[p]
    BY <1>2, <1>7, Closed
  <1>9. AliasesOK'
    BY <1>2, <1>7, AliasesKept DEF DirInv, AliasesOK, Ids
  <1>10. AnsweredChangesStand'
    BY <1>2, <1>4, <1>6 DEF DirInv, AnsweredChangesStand, Ids
  <1>11. MailOK'
    BY <1>2, <1>7, <1>8, MailKept DEF DirInv, Ids, Issued
  <1> QED
    BY <1>7, <1>8, <1>9, <1>10, <1>11 DEF DirInv

LEMMA CreateDomainKeeps ==
  ASSUME DirInv, NEW q \in Admins, CreateDomain(q)
  PROVE  DirInv'
  <1>1. /\ dom.id = 0 /\ tasks < MaxTasks /\ tasks' = tasks + 1 /\ UNCHANGED work
        /\ dom' = [id |-> tasks + 2, enabled |-> TRUE, catchAll |-> "none", key |-> 0]
        /\ said' = [said EXCEPT !.key = 0]
        /\ UNCHANGED <<boxes, aliases, stale>> /\ UNCHANGED mails
    BY DEF CreateDomain, AtOnce
  <1>2. tasks \in 0..MaxTasks
    BY DEF DirInv, TablesOK
  <1>3. tasks' \in 0..MaxTasks /\ tasks + 2 \in 0..(MaxTasks + 1) /\ tasks + 2 # 0 /\ 0 \in 0..MaxTasks
    BY <1>1, <1>2, BoundsAreNumbers
  <1>4. dom' \in DomainRows /\ dom'.id # 0 /\ dom'.key = 0
    BY <1>1, <1>3 DEF DomainRows
  <1>5. said = [key |-> said.key, box |-> said.box]
    BY DEF DirInv, TablesOK
  <1>6. said' = [key |-> 0, box |-> said.box]
    BY <1>1, <1>5
  <1>7. TablesOK' /\ Grows
    BY <1>1, <1>3, <1>4, <1>6 DEF DirInv, TablesOK, Grows, Ids, Issued
  <1>8. RequestsOK'
    BY <1>1, <1>7, RequestsUntouched DEF DirInv
  <1>9. AliasesOK'
    BY <1>1, <1>7, AliasesKept DEF DirInv, AliasesOK, Ids
  <1>10. AnsweredChangesStand'
    BY <1>1, <1>4, <1>6 DEF DirInv, AnsweredChangesStand, Ids
  <1>11. MailOK'
    BY <1>1, <1>6, <1>7, MailKept DEF DirInv, Ids, Issued
  <1> QED
    BY <1>7, <1>8, <1>9, <1>10, <1>11 DEF DirInv

\* UpdateMailbox: `row` is written, and `told` is what is answered of it.
LEMMA MailboxAnswered ==
  ASSUME DirInv, NEW q \in Admins, NEW row \in MailboxRows, NEW told \in MailboxRows,
         work[q].at = "box", Close(q), WriteMailbox(q, work[q].id, row),
         said' = [key |-> said.key, box |-> [said.box EXCEPT ![work[q].id] = told]],
         UNCHANGED <<dom, aliases, tasks>>, UNCHANGED mails,
         row.local = work[q].row.local, told.local = said.box[work[q].id].local,
         (/\ work[q].row.pass = said.box[work[q].id].pass
          /\ work[q].row.enabled = said.box[work[q].id].enabled)
           => row.pass = told.pass /\ row.enabled = told.enabled
  PROVE  DirInv'
  <1>1. PICK i : i = work[q].id
    OBVIOUS
  <1>2. i \in Issued /\ row.local = said.box[i].local
    BY <1>1 DEF DirInv, RequestsOK, Holds, Issued
  <1>3. /\ boxes' \in [Ids -> MailboxRows] /\ Ids' = Ids
        /\ \A k \in Ids : boxes'[k] = IF k = i THEN row ELSE boxes[k]
        /\ \A k \in Ids : boxes'[k].local = boxes[k].local
        /\ stale' = (stale \/ (i \in Ids /\ work[q].row # boxes[i]))
    BY <1>1, <1>2, MailboxWritten
  <1>4. said.box \in [Issued -> MailboxRows]
    BY DEF DirInv, TablesOK
  <1>5. /\ said' = [key |-> said.key, box |-> said'.box]
        /\ said'.key = said.key
        /\ said'.box = [said.box EXCEPT ![i] = told]
    BY <1>1
  <1>6. /\ said'.box \in [Issued -> MailboxRows]
        /\ \A k \in Issued : said'.box[k] = IF k = i THEN told ELSE said.box[k]
        /\ \A k \in Issued : said'.box[k].local = said.box[k].local
    BY <1>1, <1>2, <1>4, <1>5
  <1>7. Issued' = Issued /\ Grows
    BY <1>4, <1>6 DEF Issued, Grows
  <1>8. TablesOK'
    <2>1. /\ dom' \in DomainRows /\ boxes' \in [Ids' -> MailboxRows]
          /\ said' = [key |-> said'.key, box |-> said'.box]
          /\ said'.key \in 0..MaxTasks
          /\ said'.box \in [Issued' -> MailboxRows]
      BY <1>3, <1>5, <1>6, <1>7 DEF DirInv, TablesOK
    <2>2. /\ Ids' \subseteq Issued' /\ Issued' \subseteq Numbers
          /\ \A k \in Ids' : boxes'[k].local = said'.box[k].local
          /\ \A k, m \in Ids' : boxes'[k].local = boxes'[m].local => k = m
          /\ dom'.id = 0 => Ids' = {} /\ dom'.key = 0
          /\ tasks' \in 0..MaxTasks
      BY <1>3, <1>6, <1>7 DEF DirInv, TablesOK
    <2> QED
      BY <2>1, <2>2 DEF TablesOK
  <1>9. RequestsOK' /\ Quiet(work'[q]) /\ \A p \in Admins : p # q => work'[p] = work[p]
    BY <1>7, Closed
  <1>10. AliasesOK'
    BY <1>3, <1>7, AliasesKept DEF DirInv, AliasesOK
  <1>11. AnsweredChangesStand'
    <2> SUFFICES ASSUME ~stale'
                 PROVE  /\ dom'.id # 0 => dom'.key = said'.key
                        /\ \A k \in Ids : /\ boxes'[k].pass = said'.box[k].pass
                                          /\ boxes'[k].enabled = said'.box[k].enabled
      BY <1>3 DEF AnsweredChangesStand
    <2>1. /\ ~stale /\ (i \in Ids => work[q].row = boxes[i])
      BY <1>3
    <2>2. /\ dom.id # 0 => dom.key = said.key
          /\ \A k \in Ids : boxes[k].pass = said.box[k].pass /\ boxes[k].enabled = said.box[k].enabled
      BY <2>1 DEF DirInv, AnsweredChangesStand
    <2>3. \A k \in Ids : k \in Issued
      BY DEF DirInv, TablesOK
    <2>4. i \in Ids => row.pass = told.pass /\ row.enabled = told.enabled
      BY <1>1, <2>1, <2>2
    <2> QED
      BY <1>3, <1>5, <1>6, <2>2, <2>3, <2>4
  <1>12. MailOK'
    BY <1>3, <1>7, <1>9, MailKept DEF DirInv
  <1> QED
    BY <1>8, <1>9, <1>10, <1>11, <1>12 DEF DirInv

LEMMA UpdateMailboxKeeps ==
  ASSUME DirInv, NEW q \in Admins, UpdateMailbox(q)
  PROVE  DirInv'
  <1>1. /\ work[q].at = "box" /\ Close(q)
        /\ UNCHANGED <<dom, aliases, tasks>> /\ UNCHANGED mails
    BY DEF UpdateMailbox
  <1>2. /\ work[q].row \in MailboxRows /\ work[q].n \in 0..MaxTasks
        /\ work[q].id \in Issued /\ said.box[work[q].id] \in MailboxRows
        /\ said = [key |-> said.key, box |-> said.box]
        /\ said.box \in [Issued -> MailboxRows]
    BY <1>1 DEF DirInv, RequestsOK, Holds, WorkRow, Issued, TablesOK
  <1>3. CASE /\ WriteMailbox(q, work[q].id, [work[q].row EXCEPT !.pass = work[q].n])
             /\ said' = [said EXCEPT !.box[work[q].id].pass = work[q].n]
    <2> DEFINE row == [work[q].row EXCEPT !.pass = work[q].n]
               told == [said.box[work[q].id] EXCEPT !.pass = work[q].n]
    <2>1. /\ row \in MailboxRows /\ told \in MailboxRows
          /\ row.local = work[q].row.local /\ told.local = said.box[work[q].id].local
          /\ row.pass = told.pass
          /\ row.enabled = work[q].row.enabled /\ told.enabled = said.box[work[q].id].enabled
      BY <1>2 DEF MailboxRows
    <2>2. said' = [key |-> said.key, box |-> [said.box EXCEPT ![work[q].id] = told]]
      BY <1>2, <1>3
    <2>3. WriteMailbox(q, work[q].id, row)
      BY <1>3
    <2> HIDE DEF row, told
    <2>4. PICK r, t : r = row /\ t = told
      OBVIOUS
    <2>5. /\ r \in MailboxRows /\ t \in MailboxRows
          /\ WriteMailbox(q, work[q].id, r)
          /\ said' = [key |-> said.key, box |-> [said.box EXCEPT ![work[q].id] = t]]
      BY <2>1, <2>2, <2>3, <2>4
    <2> QED
      BY <1>1, <2>1, <2>4, <2>5, MailboxAnswered
  <1>4. CASE \E on \in BOOLEAN :
               /\ WriteMailbox(q, work[q].id, [work[q].row EXCEPT !.enabled = on])
               /\ said' = [said EXCEPT !.box[work[q].id].enabled = on]
    <2>0. PICK on \in BOOLEAN :
               /\ WriteMailbox(q, work[q].id, [work[q].row EXCEPT !.enabled = on])
               /\ said' = [said EXCEPT !.box[work[q].id].enabled = on]
      BY <1>4
    <2> DEFINE row == [work[q].row EXCEPT !.enabled = on]
               told == [said.box[work[q].id] EXCEPT !.enabled = on]
    <2>1. /\ row \in MailboxRows /\ told \in MailboxRows
          /\ row.local = work[q].row.local /\ told.local = said.box[work[q].id].local
          /\ row.pass = work[q].row.pass /\ told.pass = said.box[work[q].id].pass
          /\ row.enabled = told.enabled
      BY <1>2 DEF MailboxRows
    <2>2. said' = [key |-> said.key, box |-> [said.box EXCEPT ![work[q].id] = told]]
      BY <1>2, <2>0
    <2>3. WriteMailbox(q, work[q].id, row)
      BY <2>0
    <2> HIDE DEF row, told
    <2>4. PICK r, t : r = row /\ t = told
      OBVIOUS
    <2>5. /\ r \in MailboxRows /\ t \in MailboxRows
          /\ WriteMailbox(q, work[q].id, r)
          /\ said' = [key |-> said.key, box |-> [said.box EXCEPT ![work[q].id] = t]]
      BY <2>1, <2>2, <2>3, <2>4
    <2> QED
      BY <1>1, <2>1, <2>4, <2>5, MailboxAnswered
  <1> QED
    BY <1>3, <1>4 DEF UpdateMailbox

-----------------------------------------------------------------------------
(* Mailboxes and aliases come.                                             *)

LEMMA MailboxAdded ==
  ASSUME DirInv, NEW l \in Locals, NEW on \in BOOLEAN, NEW pass \in 0..MaxTasks,
         AddMailbox(l, on, pass), Bearing(l) = {}, UNCHANGED <<dom, stale>>, dom.id # 0,
         tasks' \in 0..MaxTasks
  PROVE  /\ TablesOK' /\ Grows /\ AnsweredChangesStand'
         /\ Ids \subseteq Ids' /\ Ids' \ Ids = Issued' \ Issued
         /\ \A i \in Ids' \ Ids : i \in Numbers /\ said'.box[i].local = l
  <1>1. PICK i \in Unissued :
          /\ boxes' = With(boxes, i, Mailbox(l, on, pass))
          /\ said' = [said EXCEPT !.box = With(@, i, Mailbox(l, on, pass))]
    BY DEF AddMailbox
  <1> DEFINE row == Mailbox(l, on, pass)
  <1>2. i \in Numbers /\ i \notin Issued /\ i \notin Ids
    BY DEF Unissued, Issued, DirInv, TablesOK
  <1>3. row \in MailboxRows /\ row.local = l
    BY DEF Mailbox, MailboxRows
  <1> HIDE DEF row
  <1>4. /\ boxes \in [Ids -> MailboxRows] /\ said.box \in [Issued -> MailboxRows]
        /\ said = [key |-> said.key, box |-> said.box] /\ Ids \subseteq Issued
    BY DEF DirInv, TablesOK
  <1>5. /\ boxes' = [n \in Ids \cup {i} |-> IF n = i THEN row ELSE boxes[n]]
        /\ said' = [key |-> said.key, box |-> said'.box]
        /\ said'.box = [n \in Issued \cup {i} |-> IF n = i THEN row ELSE said.box[n]]
    BY <1>1, <1>4 DEF With, Ids, Issued, row
  <1>6. /\ boxes' \in [Ids \cup {i} -> MailboxRows]
        /\ said'.box \in [Issued \cup {i} -> MailboxRows]
    BY <1>3, <1>4, <1>5
  <1>7. Ids' = Ids \cup {i} /\ Issued' = Issued \cup {i} /\ said'.key = said.key
    BY <1>5, <1>6 DEF Ids, Issued
  <1>8. \A n \in Ids' : n \in Issued' /\ boxes'[n].local = said'.box[n].local
    BY <1>3, <1>4, <1>5, <1>7 DEF DirInv, TablesOK
  <1>9. \A n, m \in Ids' : boxes'[n].local = boxes'[m].local => n = m
    BY <1>2, <1>3, <1>4, <1>5, <1>7 DEF DirInv, TablesOK, Bearing
  <1>10. TablesOK'
    BY <1>2, <1>5, <1>6, <1>7, <1>8, <1>9 DEF DirInv, TablesOK
  <1>11. Grows
    BY <1>2, <1>5, <1>7 DEF Grows
  <1>12. AnsweredChangesStand'
    BY <1>2, <1>4, <1>5, <1>7 DEF DirInv, AnsweredChangesStand
  <1> QED
    BY <1>2, <1>3, <1>5, <1>7, <1>10, <1>11, <1>12

LEMMA CreateMailboxKeeps ==
  ASSUME DirInv, NEW q \in Admins, CreateMailbox(q)
  PROVE  DirInv'
  <1>1. PICK l \in Locals : Bearing(l) = {} /\ AddMailbox(l, TRUE, 0)
    BY DEF CreateMailbox
  <1>2. /\ dom.id # 0 /\ tasks < MaxTasks /\ tasks' = tasks + 1 /\ UNCHANGED work
        /\ UNCHANGED <<dom, aliases, stale>> /\ UNCHANGED mails
    BY DEF CreateMailbox, AtOnce
  <1>3. tasks' \in 0..MaxTasks /\ 0 \in 0..MaxTasks
    BY <1>2, BoundsAreNumbers DEF DirInv, TablesOK
  <1>4. /\ TablesOK' /\ Grows /\ AnsweredChangesStand'
        /\ Ids \subseteq Ids' /\ Ids' \ Ids = Issued' \ Issued
    BY <1>1, <1>2, <1>3, MailboxAdded
  <1>5. RequestsOK'
    BY <1>2, <1>4, RequestsUntouched DEF DirInv
  <1>6. AliasesOK'
    BY <1>2, <1>4, AliasesKept DEF DirInv, AliasesOK
  <1>7. MailOK'
    BY <1>2, <1>4, MailKept DEF DirInv
  <1> QED
    BY <1>4, <1>5, <1>6, <1>7 DEF DirInv

\* UpsertAlias.
LEMMA AliasAdded ==
  ASSUME DirInv, NEW q \in Admins, NEW l, NEW i, AddAlias(q, l, i), UNCHANGED boxes
  PROVE  AliasesOK'
  <1>1. CASE aliases' = aliases
    BY <1>1 DEF DirInv, AliasesOK, Ids
  <1>2. CASE aliases' = aliases \cup {[local |-> l, box |-> i]} /\ ~Refused(l, i, work[q].dom)
    <2>1. i \in Ids /\ \A a \in aliases : a.local # l
      BY <1>2 DEF Refused
    <2> QED
      BY <1>2, <2>1 DEF DirInv, AliasesOK, Ids
  <1> QED
    BY <1>1, <1>2 DEF AddAlias

LEMMA CreateAliasKeeps ==
  ASSUME DirInv, NEW q \in Admins, CreateAlias(q)
  PROVE  DirInv'
  <1>1. /\ work[q].at = "alias" /\ AddAlias(q, work[q].local, work[q].id) /\ Close(q)
        /\ UNCHANGED <<dom, boxes, said, stale, tasks>> /\ UNCHANGED mails
    BY DEF CreateAlias
  <1>2. TablesOK' /\ Grows /\ AnsweredChangesStand'
    BY <1>1 DEF DirInv, TablesOK, Grows, AnsweredChangesStand, Ids, Issued
  <1>3. RequestsOK' /\ Quiet(work'[q]) /\ \A p \in Admins : p # q => work'[p] = work[p]
    BY <1>1, <1>2, Closed
  <1>4. AliasesOK'
    <2>1. PICK l, i : l = work[q].local /\ i = work[q].id
      OBVIOUS
    <2> QED
      BY <1>1, <2>1, AliasAdded
  <1>5. MailOK'
    BY <1>1, <1>2, <1>3, MailKept DEF DirInv, Ids, Issued
  <1> QED
    BY <1>2, <1>3, <1>4, <1>5 DEF DirInv

LEMMA DeleteAliasKeeps ==
  ASSUME DirInv, NEW q \in Admins, DeleteAlias(q)
  PROVE  DirInv'
  <1>1. /\ aliases' \subseteq aliases /\ tasks < MaxTasks /\ tasks' = tasks + 1 /\ UNCHANGED work
        /\ UNCHANGED <<dom, boxes, said, stale>> /\ UNCHANGED mails
    BY DEF DeleteAlias, AtOnce
  <1>2. tasks' \in 0..MaxTasks
    BY <1>1, BoundsAreNumbers DEF DirInv, TablesOK
  <1>3. TablesOK' /\ Grows /\ AnsweredChangesStand'
    BY <1>1, <1>2 DEF DirInv, TablesOK, Grows, AnsweredChangesStand, Ids, Issued
  <1>4. RequestsOK'
    BY <1>1, <1>3, RequestsUntouched DEF DirInv
  <1>5. AliasesOK'
    BY <1>1, <1>3, AliasesKept DEF DirInv, AliasesOK, Ids
  <1>6. MailOK'
    BY <1>1, <1>3, MailKept DEF DirInv, Ids, Issued
  <1> QED
    BY <1>3, <1>4, <1>5, <1>6 DEF DirInv

-----------------------------------------------------------------------------
(* A restore.                                                              *)

\* A request that goes on to its next step.
LEMMA Moved ==
  ASSUME DirInv, Grows, NEW q \in Admins, NEW r, work' = [work EXCEPT ![q] = r],
         Holds(r, said'.box), Quiet(r)
  PROVE  /\ RequestsOK'
         /\ Quiet(work'[q])
         /\ \A p \in Admins : p # q => work'[p] = work[p]
  <1>1. /\ work' = [p \in Admins |-> work'[p]] /\ work'[q] = r
        /\ \A p \in Admins : p # q => work'[p] = work[p]
    BY AssignOne DEF DirInv, RequestsOK
  <1> QED
    BY <1>1, RequestsKept DEF DirInv

\* The steps between which a request keeps nothing but its lists.
LEMMA TurnHolds ==
  ASSUME NEW w, NEW b, NEW step \in {"alias", "list", "read", "aliases"}, Holds(w, b),
         w.dom # 0 \/ step = "alias",
         w.op \notin {"delbox", "deldom"}
  PROVE  Holds([w EXCEPT !.at = step], b) /\ Quiet([w EXCEPT !.at = step])
  <1> DEFINE r == [w EXCEPT !.at = step]
  <1>1. w = [at |-> w.at, op |-> w.op, n |-> w.n, dom |-> w.dom, id |-> w.id,
             local |-> w.local, row |-> w.row, have |-> w.have, there |-> w.there, blind |-> w.blind]
    BY DEF Holds, WorkRow
  <1>2. /\ r = [at |-> step, op |-> w.op, n |-> w.n, dom |-> w.dom, id |-> w.id,
                local |-> w.local, row |-> w.row, have |-> w.have, there |-> w.there, blind |-> w.blind]
    BY <1>1
  <1>3. WorkRow(r)
    BY <1>2 DEF Holds, WorkRow, AdminSteps
  <1> HIDE DEF r
  <1>4. r.at = step /\ r.op = w.op /\ r.dom = w.dom /\ r.have = w.have /\ r.there = w.there
    BY <1>2
  <1>5. /\ \A x \in r.have : x.id \in DOMAIN b /\ x.local = b[x.id].local
        /\ r.there \subseteq DOMAIN b
    BY <1>4 DEF Holds
  <1>6. Holds(r, b) /\ Quiet(r)
    BY <1>3, <1>4, <1>5 DEF Holds, DomainSteps, Quiet, Sweeps
  <1> QED
    BY <1>6 DEF r

LEMMA RestoreHolds ==
  ASSUME DirInv, NEW q \in Admins, work[q].at \in {"restore", "list", "read", "write", "aliases"}
  PROVE  /\ work[q].op \notin {"delbox", "deldom"}
         /\ work[q].at # "restore" => work[q].dom # 0
         /\ Holds(work[q], said.box)
         /\ WorkRow(work[q])
  BY DEF DirInv, RequestsOK, Holds, Sweeps

LEMMA RestoreDomainKeeps ==
  ASSUME DirInv, NEW q \in Admins, RestoreDomain(q)
  PROVE  DirInv'
  <1>0. PICK on \in BOOLEAN :
       LET row == [id |-> work[q].row.id, enabled |-> on, catchAll |-> Backup.catchAll,
                   key |-> work[q].row.key]
       IN IF row.id # 0
          THEN WriteDomain(q, row) /\ Turn(q, "list") /\ UNCHANGED said
          ELSE IF dom.id # 0 THEN Close(q) /\ UNCHANGED <<dom, said, stale>>
          ELSE /\ dom' = [row EXCEPT !.id = work[q].n + 1]
               /\ work' = [work EXCEPT ![q].at = "list", ![q].dom = dom'.id]
               /\ said' = [said EXCEPT !.key = 0]
               /\ UNCHANGED stale
    BY DEF RestoreDomain
  <1>1. /\ work[q].at = "restore"
        /\ UNCHANGED <<boxes, aliases, tasks>> /\ UNCHANGED mails
    BY DEF RestoreDomain
  <1>2. /\ work[q].op \notin {"delbox", "deldom"} /\ Holds(work[q], said.box)
        /\ WorkRow(work[q])
    BY <1>1, RestoreHolds
  <1>3. /\ work[q].row \in DomainRows /\ work[q].dom = work[q].row.id
        /\ work[q].dom = 0 => work[q].row.key = 0
        /\ work[q].n \in 0..MaxTasks
    BY <1>1, <1>2 DEF Holds, WorkRow, DomainSteps
  <1>4. PICK row : row = [id |-> work[q].row.id, enabled |-> on, catchAll |-> Backup.catchAll,
                          key |-> work[q].row.key]
    OBVIOUS
  <1>5. row \in DomainRows /\ row.id = work[q].dom /\ row.key = work[q].row.key
    BY <1>3, <1>4, DirectoryAssumption DEF DomainRows
  <1>6. CASE row.id # 0
    <2>1. WriteDomain(q, row) /\ Turn(q, "list") /\ said' = said
      BY <1>0, <1>4, <1>6
    <2>2. /\ dom' \in DomainRows /\ dom'.id = dom.id
          /\ dom'.id = 0 => dom'.key = 0
          /\ dom' # dom => dom.id = row.id /\ dom' = row
          /\ dom.id = row.id => dom' = row
          /\ stale' = (stale \/ (dom.id = row.id /\ work[q].row # dom))
      BY <1>5, <1>6, <2>1, DomainWritten
    <2>3. TablesOK' /\ Grows
      BY <1>1, <2>1, <2>2, DomainChanged
    <2>4. PICK r : r = [work[q] EXCEPT !.at = "list"]
      OBVIOUS
    <2>5. Holds(r, said'.box) /\ Quiet(r)
      BY <1>2, <1>5, <1>6, <2>1, <2>4, TurnHolds
    <2>6. RequestsOK' /\ Quiet(work'[q]) /\ \A p \in Admins : p # q => work'[p] = work[p]
      BY <2>1, <2>3, <2>4, <2>5, Moved DEF Turn
    <2>7. AliasesOK'
      BY <1>1, <2>3, AliasesKept DEF DirInv, AliasesOK, Ids
    <2>8. AnsweredChangesStand'
      BY <1>1, <1>5, <2>1, <2>2 DEF DirInv, AnsweredChangesStand, Ids
    <2>9. MailOK'
      BY <1>1, <2>1, <2>3, <2>6, MailKept DEF DirInv, Ids, Issued
    <2> QED
      BY <2>3, <2>6, <2>7, <2>8, <2>9 DEF DirInv
  <1>7. CASE row.id = 0 /\ dom.id # 0
    <2>1. Close(q) /\ UNCHANGED <<dom, said, stale>>
      BY <1>0, <1>4, <1>7
    <2>2. TablesOK' /\ Grows /\ AnsweredChangesStand'
      BY <1>1, <2>1 DEF DirInv, TablesOK, Grows, AnsweredChangesStand, Ids, Issued
    <2>3. RequestsOK' /\ Quiet(work'[q]) /\ \A p \in Admins : p # q => work'[p] = work[p]
      BY <2>1, <2>2, Closed
    <2>4. AliasesOK'
      BY <1>1, <2>2, AliasesKept DEF DirInv, AliasesOK, Ids
    <2>5. MailOK'
      BY <1>1, <2>1, <2>2, <2>3, MailKept DEF DirInv, Ids, Issued
    <2> QED
      BY <2>2, <2>3, <2>4, <2>5 DEF DirInv
  <1>8. CASE row.id = 0 /\ dom.id = 0
    <2>1. /\ dom' = [row EXCEPT !.id = work[q].n + 1]
          /\ work' = [work EXCEPT ![q].at = "list", ![q].dom = dom'.id]
          /\ said' = [said EXCEPT !.key = 0] /\ stale' = stale
      BY <1>0, <1>4, <1>8
    <2>2. /\ work[q].n + 1 \in 0..(MaxTasks + 1) /\ work[q].n + 1 # 0 /\ 0 \in 0..MaxTasks
      BY <1>3, BoundsAreNumbers
    <2>3. dom' \in DomainRows /\ dom'.id = work[q].n + 1 /\ dom'.id # 0 /\ dom'.key = 0
      BY <1>3, <1>5, <1>8, <2>1, <2>2 DEF DomainRows
    <2>4. TablesOK' /\ Grows
      BY <1>1, <2>1, <2>2, <2>3, DomainChanged
    <2>5. PICK r : r = [[work[q] EXCEPT !.dom = work[q].n + 1] EXCEPT !.at = "list"]
      OBVIOUS
    <2>6. Holds(r, said'.box) /\ Quiet(r)
      <3>1. PICK w : w = work[q]
        OBVIOUS
      <3>2. w = [at |-> w.at, op |-> w.op, n |-> w.n, dom |-> w.dom, id |-> w.id,
                 local |-> w.local, row |-> w.row, have |-> w.have, there |-> w.there, blind |-> w.blind]
        BY <1>2, <3>1 DEF WorkRow
      <3>3. r = [at |-> "list", op |-> w.op, n |-> w.n, dom |-> w.n + 1, id |-> w.id,
                 local |-> w.local, row |-> w.row, have |-> w.have, there |-> w.there, blind |-> w.blind]
        BY <2>5, <3>1, <3>2
      <3>4. /\ r.at = "list" /\ r.op = w.op /\ r.n = w.n /\ r.dom = w.n + 1 /\ r.id = w.id
            /\ r.local = w.local /\ r.row = w.row /\ r.have = w.have /\ r.there = w.there /\ r.blind = w.blind
        BY <3>3
      <3>5. WorkRow(r)
        BY <1>2, <2>2, <3>1, <3>3, <3>4 DEF WorkRow, AdminSteps
      <3>6. \A x \in r.have : x.id \in DOMAIN said.box /\ x.local = said.box[x.id].local
        BY <1>2, <3>1, <3>4 DEF Holds
      <3>7. said'.box = said.box
        BY <2>1 DEF DirInv, TablesOK
      <3> QED
        BY <1>2, <2>2, <3>1, <3>4, <3>5, <3>6, <3>7 DEF Holds, DomainSteps, Quiet, Sweeps
    <2>7. work' = [work EXCEPT ![q] = r]
      <3>1. work = [p \in Admins |-> work[p]]
        BY DEF DirInv, RequestsOK
      <3> QED
        BY <2>1, <2>3, <2>5, <3>1
    <2>8. RequestsOK' /\ Quiet(work'[q]) /\ \A p \in Admins : p # q => work'[p] = work[p]
      BY <2>4, <2>6, <2>7, Moved
    <2>9. AliasesOK'
      BY <1>1, <2>4, AliasesKept DEF DirInv, AliasesOK, Ids
    <2>10. said'.box = said.box /\ said'.key = 0
      BY <2>1 DEF DirInv, TablesOK
    <2>11. AnsweredChangesStand'
      BY <1>1, <2>1, <2>3, <2>10 DEF DirInv, AnsweredChangesStand, Ids
    <2>12. MailOK'
      BY <1>1, <2>4, <2>8, <2>10, MailKept DEF DirInv, Ids, Issued
    <2> QED
      BY <2>4, <2>8, <2>9, <2>11, <2>12 DEF DirInv
  <1> QED
    BY <1>6, <1>7, <1>8

LEMMA ListBoxesKeeps ==
  ASSUME DirInv, NEW q \in Admins, ListBoxes(q)
  PROVE  DirInv'
  <1>1. /\ work[q].at = "list"
        /\ work' = [work EXCEPT ![q].at = "read",
                                ![q].have = IF dom.id = work[q].dom THEN Roll ELSE {}]
        /\ UNCHANGED <<dom, boxes, aliases, said, stale, tasks>> /\ UNCHANGED mails
    BY DEF ListBoxes
  <1>2. /\ work[q].op \notin {"delbox", "deldom"} /\ Holds(work[q], said.box)
        /\ WorkRow(work[q]) /\ work[q].dom # 0
    BY <1>1, RestoreHolds
  <1>3. TablesOK' /\ Grows /\ AnsweredChangesStand'
    BY <1>1 DEF DirInv, TablesOK, Grows, AnsweredChangesStand, Ids, Issued
  <1>4. PICK have : have = IF dom.id = work[q].dom THEN Roll ELSE {}
    OBVIOUS
  <1>5. /\ have \in SUBSET Entries
        /\ \A x \in have : x.id \in DOMAIN said.box /\ x.local = said.box[x.id].local
    BY <1>4, RollIsTrue DEF DirInv, Issued
  <1>6. PICK w : w = work[q]
    OBVIOUS
  <1>7. PICK r : r = [[w EXCEPT !.have = have] EXCEPT !.at = "read"]
    OBVIOUS
  <1>8. work' = [work EXCEPT ![q] = r]
    BY <1>1, <1>4, <1>6, <1>7 DEF DirInv, RequestsOK
  <1>9. Holds(r, said'.box) /\ Quiet(r)
    <2>1. w = [at |-> w.at, op |-> w.op, n |-> w.n, dom |-> w.dom, id |-> w.id,
               local |-> w.local, row |-> w.row, have |-> w.have, there |-> w.there, blind |-> w.blind]
      BY <1>2, <1>6 DEF WorkRow
    <2>2. r = [at |-> "read", op |-> w.op, n |-> w.n, dom |-> w.dom, id |-> w.id,
               local |-> w.local, row |-> w.row, have |-> have, there |-> w.there, blind |-> w.blind]
      BY <1>7, <2>1
    <2>3. /\ r.at = "read" /\ r.op = w.op /\ r.n = w.n /\ r.dom = w.dom /\ r.id = w.id
          /\ r.local = w.local /\ r.row = w.row /\ r.have = have /\ r.there = w.there /\ r.blind = w.blind
      BY <2>2
    <2>4. WorkRow(r)
      BY <1>2, <1>5, <1>6, <2>2, <2>3 DEF WorkRow, AdminSteps
    <2> QED
      BY <1>1, <1>2, <1>5, <1>6, <2>3, <2>4 DEF Holds, DomainSteps, Quiet, Sweeps
  <1>10. RequestsOK' /\ Quiet(work'[q]) /\ \A p \in Admins : p # q => work'[p] = work[p]
    BY <1>3, <1>8, <1>9, Moved
  <1>11. AliasesOK'
    BY <1>1, <1>3, AliasesKept DEF DirInv, AliasesOK, Ids
  <1>12. MailOK'
    BY <1>1, <1>3, <1>10, MailKept DEF DirInv, Ids, Issued
  <1> QED
    BY <1>3, <1>10, <1>11, <1>12 DEF DirInv

\* Nothing but the request changes.
LEMMA OnlyTurned ==
  ASSUME DirInv, NEW q \in Admins, NEW r, work' = [work EXCEPT ![q] = r],
         Holds(r, said.box), Quiet(r),
         UNCHANGED <<dom, boxes, aliases, said, stale, tasks>>, UNCHANGED mails
  PROVE  DirInv'
  <1>1. TablesOK' /\ Grows /\ AnsweredChangesStand'
    BY DEF DirInv, TablesOK, Grows, AnsweredChangesStand, Ids, Issued
  <1>2. RequestsOK' /\ Quiet(work'[q]) /\ \A p \in Admins : p # q => work'[p] = work[p]
    BY <1>1, Moved
  <1>3. AliasesOK'
    BY <1>1, AliasesKept DEF DirInv, AliasesOK, Ids
  <1>4. MailOK'
    BY <1>1, <1>2, MailKept DEF DirInv, Ids, Issued
  <1> QED
    BY <1>1, <1>2, <1>3, <1>4 DEF DirInv

LEMMA TurnedToAliases ==
  ASSUME DirInv, NEW q \in Admins, work[q].at \in {"read", "write"}, Turn(q, "aliases")
  PROVE  \E r : work' = [work EXCEPT ![q] = r] /\ Holds(r, said.box) /\ Quiet(r)
  <1>1. /\ work[q].op \notin {"delbox", "deldom"} /\ Holds(work[q], said.box)
        /\ work[q].dom # 0
    BY RestoreHolds
  <1>2. PICK w : w = work[q]
    OBVIOUS
  <1>3. Holds([w EXCEPT !.at = "aliases"], said.box) /\ Quiet([w EXCEPT !.at = "aliases"])
    BY <1>1, <1>2, TurnHolds
  <1> QED
    BY <1>2, <1>3 DEF Turn

LEMMA RestoreNewKeeps ==
  ASSUME DirInv, NEW q \in Admins, RestoreNew(q)
  PROVE  DirInv'
  <1>1. /\ work[q].at = "read"
        /\ UNCHANGED <<dom, aliases, stale, tasks>> /\ UNCHANGED mails
    BY DEF RestoreNew
  <1>2. /\ work[q].op \notin {"delbox", "deldom"} /\ Holds(work[q], said.box)
        /\ WorkRow(work[q]) /\ work[q].dom # 0
    BY <1>1, RestoreHolds
  <1>3. CASE dom.id # work[q].dom
    <2>1. work' = [work EXCEPT ![q] = Free] /\ UNCHANGED <<boxes, said>>
      BY <1>3 DEF RestoreNew, Close, Assign
    <2> QED
      BY <1>1, <2>1, FreeHolds, OnlyTurned
  <1>4. CASE dom.id = work[q].dom /\ Bearing(Backup.box) # {}
    <2>1. Turn(q, "aliases") /\ UNCHANGED <<boxes, said>>
      BY <1>4 DEF RestoreNew
    <2>2. PICK r : work' = [work EXCEPT ![q] = r] /\ Holds(r, said.box) /\ Quiet(r)
      BY <1>1, <2>1, TurnedToAliases
    <2> QED
      BY <1>1, <2>1, <2>2, OnlyTurned
  <1>5. CASE dom.id = work[q].dom /\ Bearing(Backup.box) = {}
    <2> DEFINE new == {[id |-> i, local |-> Backup.box] : i \in Ids' \ Ids}
    <2>1. /\ AddMailbox(Backup.box, FALSE, work[q].n)
          /\ work' = [work EXCEPT ![q].at = "aliases", ![q].have = @ \cup new]
      BY <1>5 DEF RestoreNew, Ids
    <2>2. /\ Backup.box \in Locals /\ work[q].n \in 0..MaxTasks /\ tasks' \in 0..MaxTasks
      BY <1>1, <1>2, DirectoryAssumption DEF WorkRow, DirInv, TablesOK
    <2>3. /\ TablesOK' /\ Grows /\ AnsweredChangesStand'
          /\ Ids \subseteq Ids' /\ Ids' \ Ids = Issued' \ Issued
          /\ \A i \in Ids' \ Ids : i \in Numbers /\ said'.box[i].local = Backup.box
      <3>1. PICK n : n = work[q].n
        OBVIOUS
      <3>2. AddMailbox(Backup.box, FALSE, n) /\ n \in 0..MaxTasks
        BY <2>1, <2>2, <3>1
      <3> QED
        BY <1>1, <1>2, <1>5, <2>2, <3>2, MailboxAdded
    <2>4. PICK w, have : w = work[q] /\ have = w.have \cup new
      OBVIOUS
    <2>5. PICK r : r = [[w EXCEPT !.have = have] EXCEPT !.at = "aliases"]
      OBVIOUS
    <2>6. work' = [work EXCEPT ![q] = r]
      BY <2>1, <2>4, <2>5 DEF DirInv, RequestsOK
    <2>7. /\ new \in SUBSET Entries
          /\ \A x \in new : x.id \in DOMAIN said'.box /\ x.local = said'.box[x.id].local
      BY <2>2, <2>3 DEF Entries, Issued
    <2>8. Holds(w, said'.box)
      BY <1>2, <2>3, <2>4, HoldsGrows DEF Grows, Issued
    <2>9. /\ have \in SUBSET Entries
          /\ \A x \in have : x.id \in DOMAIN said'.box /\ x.local = said'.box[x.id].local
      BY <2>4, <2>7, <2>8 DEF Holds, WorkRow
    <2>10. Holds(r, said'.box) /\ Quiet(r)
      <3>1. w = [at |-> w.at, op |-> w.op, n |-> w.n, dom |-> w.dom, id |-> w.id,
                 local |-> w.local, row |-> w.row, have |-> w.have, there |-> w.there, blind |-> w.blind]
        BY <1>2, <2>4 DEF WorkRow
      <3>2. r = [at |-> "aliases", op |-> w.op, n |-> w.n, dom |-> w.dom, id |-> w.id,
                 local |-> w.local, row |-> w.row, have |-> have, there |-> w.there, blind |-> w.blind]
        BY <2>5, <3>1
      <3>3. /\ r.at = "aliases" /\ r.op = w.op /\ r.n = w.n /\ r.dom = w.dom /\ r.id = w.id
            /\ r.local = w.local /\ r.row = w.row /\ r.have = have /\ r.there = w.there /\ r.blind = w.blind
        BY <3>2
      <3>4. WorkRow(r)
        BY <1>2, <2>4, <2>9, <3>2, <3>3 DEF WorkRow, AdminSteps
      <3> QED
        BY <1>1, <1>2, <2>4, <2>8, <2>9, <3>3, <3>4 DEF Holds, DomainSteps, Quiet, Sweeps
    <2>11. RequestsOK' /\ Quiet(work'[q]) /\ \A p \in Admins : p # q => work'[p] = work[p]
      BY <2>3, <2>6, <2>10, Moved
    <2>12. AliasesOK'
      BY <1>1, <2>3, AliasesKept DEF DirInv, AliasesOK
    <2>13. MailOK'
      BY <1>1, <2>3, <2>11, MailKept DEF DirInv
    <2> QED
      BY <2>3, <2>11, <2>12, <2>13 DEF DirInv
  <1> QED
    BY <1>3, <1>4, <1>5

LEMMA RestoreReadKeeps ==
  ASSUME DirInv, NEW q \in Admins, RestoreRead(q)
  PROVE  DirInv'
  <1>1. /\ work[q].at = "read"
        /\ UNCHANGED <<dom, boxes, aliases, said, stale, tasks>> /\ UNCHANGED mails
    BY DEF RestoreRead
  <1>2. /\ work[q].op \notin {"delbox", "deldom"} /\ Holds(work[q], said.box)
        /\ WorkRow(work[q]) /\ work[q].dom # 0
    BY <1>1, RestoreHolds
  <1>3. CASE Turn(q, "aliases")
    <2>1. PICK r : work' = [work EXCEPT ![q] = r] /\ Holds(r, said.box) /\ Quiet(r)
      BY <1>1, <1>3, TurnedToAliases
    <2> QED
      BY <1>1, <2>1, OnlyTurned
  <1>4. CASE ~Turn(q, "aliases")
    <2>1. PICK i \in Ids : work' = [work EXCEPT ![q].at = "write", ![q].id = i, ![q].row = boxes[i]]
      BY <1>4 DEF RestoreRead
    <2>2. PICK w, row : w = work[q] /\ row = boxes[i]
      OBVIOUS
    <2>3. row \in MailboxRows /\ i \in DOMAIN said.box /\ row.local = said.box[i].local
          /\ i \in Numbers
      BY <2>2 DEF DirInv, TablesOK, Issued
    <2>4. PICK r : r = [[[w EXCEPT !.row = row] EXCEPT !.id = i] EXCEPT !.at = "write"]
      OBVIOUS
    <2>5. work' = [work EXCEPT ![q] = r]
      BY <2>1, <2>2, <2>4 DEF DirInv, RequestsOK
    <2>6. Holds(r, said.box) /\ Quiet(r)
      <3>1. w = [at |-> w.at, op |-> w.op, n |-> w.n, dom |-> w.dom, id |-> w.id,
                 local |-> w.local, row |-> w.row, have |-> w.have, there |-> w.there, blind |-> w.blind]
        BY <1>2, <2>2 DEF WorkRow
      <3>2. r = [at |-> "write", op |-> w.op, n |-> w.n, dom |-> w.dom, id |-> i,
                 local |-> w.local, row |-> row, have |-> w.have, there |-> w.there, blind |-> w.blind]
        BY <2>4, <3>1
      <3>3. /\ r.at = "write" /\ r.op = w.op /\ r.n = w.n /\ r.dom = w.dom /\ r.id = i
            /\ r.local = w.local /\ r.row = row /\ r.have = w.have /\ r.there = w.there /\ r.blind = w.blind
        BY <3>2
      <3>4. WorkRow(r)
        BY <1>2, <2>2, <2>3, <3>2, <3>3 DEF WorkRow, AdminSteps
      <3> QED
        BY <1>1, <1>2, <2>2, <2>3, <3>3, <3>4 DEF Holds, DomainSteps, Quiet, Sweeps
    <2> QED
      BY <1>1, <2>5, <2>6, OnlyTurned
  <1> QED
    BY <1>3, <1>4

LEMMA RestoreOldKeeps ==
  ASSUME DirInv, NEW q \in Admins, RestoreOld(q)
  PROVE  DirInv'
  <1>1. /\ work[q].at = "write" /\ WriteMailbox(q, work[q].id, work[q].row) /\ Turn(q, "aliases")
        /\ UNCHANGED <<dom, aliases, said, tasks>> /\ UNCHANGED mails
    BY DEF RestoreOld
  <1>2. PICK i, row : i = work[q].id /\ row = work[q].row
    OBVIOUS
  <1>3. row \in MailboxRows /\ i \in Issued /\ row.local = said.box[i].local
    BY <1>1, <1>2 DEF DirInv, RequestsOK, Holds, Issued
  <1>4. /\ boxes' \in [Ids -> MailboxRows] /\ Ids' = Ids
        /\ \A k \in Ids : boxes'[k] = IF k = i THEN row ELSE boxes[k]
        /\ \A k \in Ids : boxes'[k].local = boxes[k].local
        /\ stale' = (stale \/ (i \in Ids /\ row # boxes[i]))
    BY <1>1, <1>2, <1>3, MailboxWritten
  <1>5. TablesOK' /\ Grows
    BY <1>1, <1>4 DEF DirInv, TablesOK, Grows, Issued
  <1>6. AnsweredChangesStand'
    BY <1>1, <1>4 DEF DirInv, AnsweredChangesStand
  <1>7. PICK r : work' = [work EXCEPT ![q] = r] /\ Holds(r, said.box) /\ Quiet(r)
    BY <1>1, TurnedToAliases
  <1>8. RequestsOK' /\ Quiet(work'[q]) /\ \A p \in Admins : p # q => work'[p] = work[p]
    BY <1>1, <1>5, <1>7, Moved
  <1>9. AliasesOK'
    BY <1>1, <1>4, <1>5, AliasesKept DEF DirInv, AliasesOK
  <1>10. MailOK'
    BY <1>1, <1>4, <1>5, <1>8, MailKept DEF DirInv, Issued
  <1> QED
    BY <1>5, <1>6, <1>8, <1>9, <1>10 DEF DirInv

LEMMA RestoreAliasKeeps ==
  ASSUME DirInv, NEW q \in Admins, RestoreAlias(q)
  PROVE  DirInv'
  <1>1. /\ work[q].at = "aliases" /\ Close(q)
        /\ UNCHANGED <<dom, boxes, said, stale, tasks>> /\ UNCHANGED mails
    BY DEF RestoreAlias
  <1>2. TablesOK' /\ Grows /\ AnsweredChangesStand'
    BY <1>1 DEF DirInv, TablesOK, Grows, AnsweredChangesStand, Ids, Issued
  <1>3. RequestsOK' /\ Quiet(work'[q]) /\ \A p \in Admins : p # q => work'[p] = work[p]
    BY <1>1, <1>2, Closed
  <1>4. AliasesOK'
    <2>1. CASE aliases' = aliases
      BY <1>2, <2>1, <1>1, AliasesKept DEF DirInv, AliasesOK, Ids
    <2>2. CASE /\ Known(q, Backup.alias) = {}
               /\ \E i \in Known(q, Backup.box) : AddAlias(q, Backup.alias, i)
      BY <1>1, <2>2, AliasAdded
    <2> QED
      BY <2>1, <2>2 DEF RestoreAlias
  <1>5. MailOK'
    BY <1>1, <1>2, <1>3, MailKept DEF DirInv, Ids, Issued
  <1> QED
    BY <1>2, <1>3, <1>4, <1>5 DEF DirInv

\* createAlias has listed the names.
LEMMA ListNamesKeeps ==
  ASSUME DirInv, NEW q \in Admins, ListNames(q)
  PROVE  DirInv'
  <1>1. /\ work[q].at = "check"
        /\ UNCHANGED <<dom, boxes, aliases, said, stale, tasks>> /\ UNCHANGED mails
        /\ work' = [work EXCEPT ![q] = Free] \/ Turn(q, "alias")
    BY DEF ListNames, Close, Assign
  <1>2. Holds(work[q], said.box) /\ work[q].op \notin {"delbox", "deldom"}
    BY <1>1 DEF DirInv, RequestsOK, Holds, Sweeps
  <1>3. CASE work' = [work EXCEPT ![q] = Free]
    BY <1>1, <1>3, FreeHolds, OnlyTurned
  <1>4. CASE Turn(q, "alias")
    <2>1. PICK r : r = [work[q] EXCEPT !.at = "alias"]
      OBVIOUS
    <2>2. Holds(r, said.box) /\ Quiet(r)
      BY <1>2, <2>1, TurnHolds
    <2>3. work' = [work EXCEPT ![q] = r]
      BY <1>4, <2>1 DEF Turn
    <2> QED
      BY <1>1, <2>2, <2>3, OnlyTurned
  <1> QED
    BY <1>1, <1>3, <1>4

-----------------------------------------------------------------------------
(* Statements that fail.                                                   *)

LEMMA BreakDownKeeps ==
  ASSUME DirInv, NEW q \in Admins, BreakDown(q)
  PROVE  DirInv'
  <1>1. /\ work' = [work EXCEPT ![q] = Free]
        /\ UNCHANGED <<dom, boxes, aliases, said, stale, tasks>> /\ UNCHANGED mails
    BY DEF BreakDown, Close, Assign
  <1> QED
    BY <1>1, FreeHolds, OnlyTurned

LEMMA RestoreGoesOnKeeps ==
  ASSUME DirInv, NEW q \in Admins, RestoreGoesOn(q)
  PROVE  DirInv'
  <1>1. UNCHANGED <<dom, boxes, aliases, said, stale, tasks>> /\ UNCHANGED mails
    BY DEF RestoreGoesOn
  <1>2. PICK w : w = work[q]
    OBVIOUS
  <1>3. ASSUME w.at \in {"restore", "list"}
        PROVE  /\ w.op \notin {"delbox", "deldom"} /\ Holds(w, said.box)
               /\ w.at # "restore" => w.dom # 0
               /\ w = [at |-> w.at, op |-> w.op, n |-> w.n, dom |-> w.dom, id |-> w.id,
                       local |-> w.local, row |-> w.row, have |-> w.have, there |-> w.there,
                       blind |-> w.blind]
    BY <1>2, <1>3, RestoreHolds DEF WorkRow
  <1>4. CASE /\ w.at = "restore"
             /\ work' = [work EXCEPT ![q].row = NoDomain, ![q].dom = 0]
    <2>1. PICK r : r = [at |-> "restore", op |-> w.op, n |-> w.n, dom |-> 0, id |-> w.id,
                        local |-> w.local, row |-> NoDomain, have |-> w.have,
                        there |-> w.there, blind |-> w.blind]
      OBVIOUS
    <2>2. /\ r.at = "restore" /\ r.op = w.op /\ r.n = w.n /\ r.dom = 0 /\ r.id = w.id
          /\ r.local = w.local /\ r.row = NoDomain /\ r.have = w.have
          /\ r.there = w.there /\ r.blind = w.blind
      BY <2>1
    <2>3. WorkRow(r)
      BY <1>3, <1>4, <2>1, <2>2, BoundsAreNumbers DEF Holds, WorkRow
    <2>4. NoDomain \in DomainRows /\ NoDomain.id = 0 /\ NoDomain.key = 0
      BY BoundsAreNumbers DEF NoDomain, DomainRows
    <2>5. Holds(r, said.box) /\ Quiet(r)
      BY <1>3, <1>4, <2>2, <2>3, <2>4 DEF Holds, DomainSteps, Quiet, Sweeps
    <2>6. work' = [work EXCEPT ![q] = r]
      <3>1. PICK v : v = [[w EXCEPT !.row = NoDomain] EXCEPT !.dom = 0]
        OBVIOUS
      <3>2. r = v
        BY <1>3, <1>4, <2>1, <3>1
      <3>3. work' = [work EXCEPT ![q] = v]
        BY <1>2, <1>4, <3>1 DEF DirInv, RequestsOK
      <3> QED
        BY <3>2, <3>3
    <2> QED
      BY <1>1, <2>5, <2>6, OnlyTurned
  <1>5. CASE w.at = "list" /\ work' = [work EXCEPT ![q].at = "read", ![q].blind = TRUE]
    <2>1. PICK r : r = [at |-> "read", op |-> w.op, n |-> w.n, dom |-> w.dom, id |-> w.id,
                        local |-> w.local, row |-> w.row, have |-> w.have,
                        there |-> w.there, blind |-> TRUE]
      OBVIOUS
    <2>2. /\ r.at = "read" /\ r.op = w.op /\ r.n = w.n /\ r.dom = w.dom /\ r.id = w.id
          /\ r.local = w.local /\ r.row = w.row /\ r.have = w.have
          /\ r.there = w.there /\ r.blind = TRUE
      BY <2>1
    <2>3. WorkRow(r)
      BY <1>3, <1>5, <2>1, <2>2 DEF Holds, WorkRow, AdminSteps
    <2>4. Holds(r, said.box) /\ Quiet(r)
      BY <1>3, <1>5, <2>2, <2>3 DEF Holds, DomainSteps, Quiet, Sweeps
    <2>5. work' = [work EXCEPT ![q] = r]
      <3>1. PICK v : v = [[w EXCEPT !.blind = TRUE] EXCEPT !.at = "read"]
        OBVIOUS
      <3>2. r = v
        BY <1>3, <1>5, <2>1, <3>1
      <3>3. work' = [work EXCEPT ![q] = v]
        BY <1>2, <1>5, <3>1 DEF DirInv, RequestsOK
      <3> QED
        BY <3>2, <3>3
    <2> QED
      BY <1>1, <2>4, <2>5, OnlyTurned
  <1>6. CASE w.at \in {"read", "write"} /\ Turn(q, "aliases")
    <2>1. PICK r : work' = [work EXCEPT ![q] = r] /\ Holds(r, said.box) /\ Quiet(r)
      BY <1>2, <1>6, TurnedToAliases
    <2> QED
      BY <1>1, <2>1, OnlyTurned
  <1> QED
    BY <1>2, <1>4, <1>5, <1>6 DEF RestoreGoesOn

-----------------------------------------------------------------------------
(* Mail.                                                                   *)

Bystanders == <<dom, boxes, aliases, work, said, stale, tasks>>

\* Steps of the mail leave the tables and the requests alone.
LEMMA OnlyMail ==
  ASSUME DirInv, UNCHANGED Bystanders, MailOK'
  PROVE  DirInv'
  <1>1. UNCHANGED <<dom, boxes, aliases, work, said, stale, tasks>>
    BY DEF Bystanders
  <1>2. TablesOK' /\ Grows /\ AnsweredChangesStand'
    BY <1>1 DEF DirInv, TablesOK, Grows, AnsweredChangesStand, Ids, Issued
  <1>3. RequestsOK'
    BY <1>1, <1>2, RequestsUntouched DEF DirInv
  <1>4. AliasesOK'
    BY <1>1, <1>2, AliasesKept DEF DirInv, AliasesOK, Ids
  <1> QED
    BY <1>2, <1>3, <1>4 DEF DirInv

\* A step of the mail puts something where a deletion has been only if it is
\* marked.
LEMMA MailMoves ==
  ASSUME DirInv, UNCHANGED Bystanders,
         letter' \in [at : {"none", "resolved", "append", "insert"}, box : Numbers \cup {0},
                      job : Nat],
         letter'.at # "none" => letter'.box \in Issued,
         jobs' \subseteq [job : 1..MaxJobs, box : Issued], counters' \subseteq Issued,
         \A i : UidsGone(i) /\ Passed(i, Sweeps) => UidsGone(i)',
         \A i : JobsGone(i) /\ Passed(i, {"catch", "row"}) => JobsGone(i)'
  PROVE  DirInv'
  <1>1. UNCHANGED <<boxes, work, said>> /\ Ids' = Ids /\ Issued' = Issued
    BY DEF Bystanders, Ids, Issued
  <1>2. ASSUME NEW q \in Admins
        PROVE  Swept(work[q])' /\ Remembers(work[q])'
    <2>1. Swept(work[q]) /\ Remembers(work[q])
      BY DEF DirInv, MailOK
    <2>2. PICK w : w = work[q]
      OBVIOUS
    <2>3. w.at \in Sweeps => UidsGone(w.id)'
      <3> SUFFICES ASSUME w.at \in Sweeps PROVE UidsGone(w.id)'
        OBVIOUS
      <3>1. Passed(w.id, Sweeps)
        BY <2>2 DEF Passed
      <3> QED
        BY <2>1, <2>2, <3>1 DEF Swept
    <2>4. w.at \in {"catch", "row"} => JobsGone(w.id)'
      <3> SUFFICES ASSUME w.at \in {"catch", "row"} PROVE JobsGone(w.id)'
        OBVIOUS
      <3>1. Passed(w.id, {"catch", "row"})
        BY <2>2 DEF Passed
      <3> QED
        BY <2>1, <2>2, <3>1 DEF Swept
    <2>5. work'[q] = w
      BY <1>1, <2>2
    <2> QED
      BY <1>1, <2>1, <2>2, <2>3, <2>4, <2>5 DEF Swept, Remembers, UidsGone, JobsGone
  <1>3. ASSUME NEW i \in Issued' \ Ids'
        PROVE  UidsGone(i)' /\ JobsGone(i)'
    BY <1>1 DEF DirInv, MailOK, Passed
  <1>4. MailOK'
    BY <1>1, <1>2, <1>3 DEF MailOK
  <1> QED
    BY <1>4, OnlyMail

LEMMA ResolveKeeps ==
  ASSUME DirInv, NEW l \in Locals, Resolve(l)
  PROVE  DirInv'
  <1>1. PICK i \in Resolves(l) : letter' = [at |-> "resolved", box |-> i, job |-> 0]
    BY DEF Resolve
  <1>2. UNCHANGED Bystanders /\ UNCHANGED <<jobs, counters, strayJobs, strayUids>>
    BY DEF Resolve, Bystanders
  <1>3. i \in Issued /\ i \in Numbers
    BY DEF Resolves, Bearing, DirInv, AliasesOK, TablesOK
  <1> QED
    BY <1>1, <1>2, <1>3, MailMoves DEF DirInv, MailOK, UidsGone, JobsGone

LEMMA StartAppendKeeps ==
  ASSUME DirInv, NEW j \in jobs, StartAppend(j)
  PROVE  DirInv'
  <1>1. /\ letter' = [at |-> "append", box |-> j.box, job |-> j.job]
        /\ UNCHANGED Bystanders /\ UNCHANGED <<jobs, counters, strayJobs, strayUids>>
    BY DEF StartAppend, Bystanders
  <1>2. j.job \in Nat /\ j.box \in Issued /\ j.box \in Numbers
    BY BoundsAreNumbers DEF DirInv, MailOK, TablesOK
  <1> QED
    BY <1>1, <1>2, MailMoves DEF DirInv, MailOK, UidsGone, JobsGone

LEMMA EnqueueKeeps == DirInv /\ Enqueue => DirInv'
  <1> SUFFICES ASSUME DirInv, Enqueue PROVE DirInv'
    OBVIOUS
  <1>1. PICK n \in 1..MaxJobs : jobs' = jobs \cup {[job |-> n, box |-> letter.box]}
    BY DEF Enqueue
  <1>2. /\ letter.at # "none" /\ letter' = NoLetter
        /\ strayJobs' = IF Passed(letter.box, {"catch", "row"})
                        THEN strayJobs \cup {letter.box} ELSE strayJobs
        /\ UNCHANGED Bystanders /\ UNCHANGED <<counters, strayUids>>
    BY DEF Enqueue, Bystanders
  <1>3. jobs' \subseteq [job : 1..MaxJobs, box : Issued] /\ counters' \subseteq Issued
    BY <1>1, <1>2 DEF DirInv, MailOK
  <1>4. ASSUME NEW i, JobsGone(i), Passed(i, {"catch", "row"})
        PROVE  JobsGone(i)'
    BY <1>1, <1>2, <1>4 DEF JobsGone
  <1>5. \A i : UidsGone(i) => UidsGone(i)'
    BY <1>2 DEF UidsGone
  <1>6. letter' \in [at : {"none", "resolved", "append", "insert"}, box : Numbers \cup {0},
                     job : Nat] /\ letter'.at = "none"
    BY <1>2 DEF NoLetter
  <1> QED
    BY <1>2, <1>3, <1>4, <1>5, <1>6, MailMoves

LEMMA CountAppendKeeps == DirInv /\ CountAppend => DirInv'
  <1> SUFFICES ASSUME DirInv, CountAppend PROVE DirInv'
    OBVIOUS
  <1>1. /\ letter.at = "append" /\ letter' = [letter EXCEPT !.at = "insert"]
        /\ counters' = counters \cup {letter.box}
        /\ strayUids' = IF Passed(letter.box, Sweeps)
                        THEN strayUids \cup {letter.box} ELSE strayUids
        /\ UNCHANGED Bystanders /\ UNCHANGED <<jobs, strayJobs>>
    BY DEF CountAppend, Bystanders, Sweeps
  <1>2. /\ letter \in [at : {"none", "resolved", "append", "insert"}, box : Numbers \cup {0},
                       job : Nat]
        /\ letter.box \in Issued
    BY <1>1 DEF DirInv, MailOK
  <1>3. jobs' \subseteq [job : 1..MaxJobs, box : Issued] /\ counters' \subseteq Issued
    BY <1>1, <1>2 DEF DirInv, MailOK
  <1>4. ASSUME NEW i, UidsGone(i), Passed(i, Sweeps)
        PROVE  UidsGone(i)'
    BY <1>1, <1>4 DEF UidsGone
  <1>5. \A i : JobsGone(i) => JobsGone(i)'
    BY <1>1 DEF JobsGone
  <1>6. letter' \in [at : {"none", "resolved", "append", "insert"}, box : Numbers \cup {0},
                     job : Nat] /\ letter'.box \in Issued
    BY <1>1, <1>2
  <1> QED
    BY <1>1, <1>3, <1>4, <1>5, <1>6, MailMoves

LEMMA InsertMessageKeeps == DirInv /\ InsertMessage => DirInv'
  <1> SUFFICES ASSUME DirInv, InsertMessage PROVE DirInv'
    OBVIOUS
  <1>1. /\ letter' = NoLetter /\ jobs' \subseteq jobs
        /\ UNCHANGED Bystanders /\ UNCHANGED <<counters, strayJobs, strayUids>>
    BY DEF InsertMessage, Bystanders
  <1>2. /\ \A i : JobsGone(i) => JobsGone(i)'
        /\ \A i : UidsGone(i) => UidsGone(i)'
    BY <1>1 DEF JobsGone, UidsGone
  <1>3. letter' \in [at : {"none", "resolved", "append", "insert"}, box : Numbers \cup {0},
                     job : Nat] /\ letter'.at = "none"
    BY <1>1 DEF NoLetter
  <1>4. jobs' \subseteq [job : 1..MaxJobs, box : Issued] /\ counters' \subseteq Issued
    BY <1>1 DEF DirInv, MailOK
  <1> QED
    BY <1>1, <1>2, <1>3, <1>4, MailMoves

-----------------------------------------------------------------------------
(* Deletions.                                                              *)

LEMMA StartDeleteKeeps ==
  ASSUME DirInv, NEW q \in Admins, StartDelete(q)
  PROVE  DirInv'
  <1>1. PICK i \in Ids : Start(q, "delbox", i, "none", "none", {})
    BY DEF StartDelete
  <1>2. UNCHANGED <<dom, boxes, aliases, said, stale>> /\ UNCHANGED mails
    BY DEF StartDelete
  <1>3. i \in Numbers \cup {0} /\ i # 0 /\ "none" \in Locals \cup {"none"}
    BY BoundsAreNumbers DEF DirInv, TablesOK
  <1>4. /\ TablesOK' /\ RequestsOK' /\ AliasesOK' /\ AnsweredChangesStand' /\ Grows
        /\ work'[q].op = "delbox" /\ work'[q].at = "delbox"
        /\ \A p \in Admins : p # q => work'[p] = work[p]
    BY <1>1, <1>2, <1>3, Started DEF Ops, DomainSteps
  <1>5. GoesOn(q)
    BY <1>4 DEF GoesOn, Swept, Sweeps
  <1>6. MailOK'
    BY <1>2, <1>4, <1>5, MailKept DEF DirInv, Ids, Issued
  <1> QED
    BY <1>4, <1>6 DEF DirInv

LEMMA StartDeleteDomainKeeps ==
  ASSUME DirInv, NEW q \in Admins, StartDeleteDomain(q)
  PROVE  DirInv'
  <1>1. /\ Start(q, "deldom", 0, "none", "none", Roll)
        /\ UNCHANGED <<dom, boxes, aliases, said, stale>> /\ UNCHANGED mails
    BY DEF StartDeleteDomain
  <1>2. /\ Roll \in SUBSET Entries
        /\ \A x \in Roll : x.id \in Issued /\ x.local = said.box[x.id].local
        /\ \A i \in Ids : \E x \in Roll : x.id = i
    BY RollIsTrue DEF DirInv
  <1>3. PICK have \in SUBSET Entries : have = Roll
    BY <1>2
  <1>4. "none" \in Locals \cup {"none"} /\ 0 \in Numbers \cup {0}
    OBVIOUS
  <1>5. /\ TablesOK' /\ RequestsOK' /\ AliasesOK' /\ AnsweredChangesStand' /\ Grows
        /\ work'[q].op = "deldom" /\ work'[q].at = "deldom" /\ work'[q].have = have
        /\ \A p \in Admins : p # q => work'[p] = work[p]
    BY <1>1, <1>2, <1>3, <1>4, Started DEF Ops, DomainSteps
  <1>6. GoesOn(q)
    BY <1>1, <1>2, <1>3, <1>5 DEF GoesOn, Swept, Sweeps, Ids
  <1>7. MailOK'
    BY <1>1, <1>5, <1>6, MailKept DEF DirInv, Ids, Issued
  <1> QED
    BY <1>5, <1>7 DEF DirInv

\* A deletion that goes on: the request with another step, id or list.
LEMMA DeletionHolds ==
  ASSUME NEW w, NEW b, Holds(w, b), w.at \in Sweeps \cup {"delbox", "deldom"}, NEW r,
         r = [at |-> r.at, op |-> w.op, n |-> w.n, dom |-> w.dom, id |-> r.id,
              local |-> w.local, row |-> w.row, have |-> r.have, there |-> w.there,
              blind |-> w.blind],
         r.id \in Numbers \cup {0}, r.have \in SUBSET w.have,
         (r.at \in Sweeps /\ r.id # 0) \/ (r.at = "deldom" /\ w.op = "deldom")
  PROVE  Holds(r, b) /\ r.op = w.op
  <1>1. /\ r.op = w.op /\ r.n = w.n /\ r.dom = w.dom /\ r.local = w.local /\ r.row = w.row
        /\ r.there = w.there /\ r.blind = w.blind
    OBVIOUS
  <1>2. WorkRow(r)
    BY <1>1 DEF Holds, WorkRow, AdminSteps, Sweeps
  <1>3. w.op \in {"delbox", "deldom"}
    BY DEF Holds
  <1>4. /\ \A x \in r.have : x.id \in DOMAIN b /\ x.local = b[x.id].local
        /\ r.there \subseteq DOMAIN b
    BY <1>1 DEF Holds
  <1>5. CASE r.at \in Sweeps /\ r.id # 0
    BY <1>1, <1>2, <1>3, <1>4, <1>5 DEF Holds, DomainSteps, Sweeps
  <1>6. CASE r.at = "deldom" /\ w.op = "deldom"
    BY <1>1, <1>2, <1>4, <1>6 DEF Holds, DomainSteps, Sweeps
  <1> QED
    BY <1>1, <1>5, <1>6

LEMMA BeginsSelf ==
  ASSUME NEW n \in Nat
  PROVE  Begins(n, n)
  <1>1. 10^0 = 1
    OBVIOUS
  <1>2. n \div 10^0 = n
    BY <1>1
  <1> QED
    BY <1>2 DEF Begins

\* Request q has come to another step of a deletion, and what is left is no more
\* than before.
LEMMA Sweeping ==
  ASSUME DirInv, NEW q \in Admins, NEW r, work' = [work EXCEPT ![q] = r],
         Holds(r, said.box), UNCHANGED <<boxes, aliases, said, tasks, letter>>,
         TablesOK', AnsweredChangesStand',
         jobs' \subseteq jobs, counters' \subseteq counters,
         \A k : UidsGone(k) => UidsGone(k)', \A k : JobsGone(k) => JobsGone(k)',
         r.at \in Sweeps => UidsGone(r.id)', r.at \in {"catch", "row"} => JobsGone(r.id)',
         r.op = "deldom" => \A i \in Ids \cap r.there : \E x \in r.have : x.id = i
  PROVE  DirInv'
  <1>1. Ids' = Ids /\ Issued' = Issued /\ Grows
    BY DEF Ids, Issued, Grows
  <1>2. /\ work' = [p \in Admins |-> work'[p]] /\ work'[q] = r
        /\ \A p \in Admins : p # q => work'[p] = work[p]
    BY AssignOne DEF DirInv, RequestsOK
  <1>3. RequestsOK'
    BY <1>1, <1>2, RequestsKept DEF DirInv
  <1>4. AliasesOK'
    BY <1>1, AliasesKept DEF DirInv, AliasesOK
  <1>5. ASSUME NEW p \in Admins
        PROVE  Swept(work[p])' /\ Remembers(work[p])'
    <2>1. CASE p = q
      BY <1>1, <1>2, <2>1 DEF Swept, Remembers, UidsGone, JobsGone
    <2>2. CASE p # q
      <3>1. Swept(work[p]) /\ Remembers(work[p])
        BY DEF DirInv, MailOK
      <3>2. PICK w : w = work[p] /\ w = work'[p]
        BY <1>2, <2>2
      <3>3. w.at \in Sweeps => UidsGone(w.id)'
        BY <3>1, <3>2 DEF Swept
      <3>4. w.at \in {"catch", "row"} => JobsGone(w.id)'
        BY <3>1, <3>2 DEF Swept
      <3> QED
        BY <1>1, <3>1, <3>2, <3>3, <3>4 DEF Swept, Remembers, UidsGone, JobsGone
    <2> QED
      BY <2>1, <2>2
  <1>6. ASSUME NEW i \in Issued' \ Ids'
        PROVE  UidsGone(i)' /\ JobsGone(i)'
    BY <1>1 DEF DirInv, MailOK
  <1>7. MailOK'
    BY <1>1, <1>5, <1>6 DEF DirInv, MailOK
  <1> QED
    BY <1>3, <1>4, <1>7 DEF DirInv

\* Such a request, from its fields.
Sweeper(q, id, at) == [[work[q] EXCEPT !.id = id] EXCEPT !.at = at]
Lister(q, i) == [[work[q] EXCEPT !.have = {x \in @ : x.id # i}] EXCEPT !.at = "deldom"]

LEMMA NextSweep ==
  ASSUME DirInv, NEW q \in Admins, work[q].at \in Sweeps \cup {"delbox", "deldom"},
         NEW at \in Sweeps, NEW id \in Numbers, NEW r
  PROVE  r = Sweeper(q, id, at) =>
           /\ Holds(r, said.box) /\ r.at = at /\ r.id = id
           /\ r.op = "deldom" => \A i \in Ids \cap r.there : \E x \in r.have : x.id = i
  <1>0. SUFFICES ASSUME r = Sweeper(q, id, at)
                 PROVE  /\ Holds(r, said.box) /\ r.at = at /\ r.id = id
                        /\ r.op = "deldom" =>
                             \A i \in Ids \cap r.there : \E x \in r.have : x.id = i
    OBVIOUS
  <1>1. PICK w : w = work[q]
    OBVIOUS
  <1>2. /\ Holds(w, said.box) /\ Remembers(w) /\ id # 0
    BY <1>1, BoundsAreNumbers DEF DirInv, RequestsOK, MailOK
  <1>3. w = [at |-> w.at, op |-> w.op, n |-> w.n, dom |-> w.dom, id |-> w.id,
             local |-> w.local, row |-> w.row, have |-> w.have, there |-> w.there,
             blind |-> w.blind]
    BY <1>2 DEF Holds, WorkRow
  <1>4. r = [at |-> at, op |-> w.op, n |-> w.n, dom |-> w.dom, id |-> id,
             local |-> w.local, row |-> w.row, have |-> w.have, there |-> w.there,
             blind |-> w.blind]
    BY <1>0, <1>1, <1>3 DEF Sweeper
  <1>5. /\ r.at = at /\ r.op = w.op /\ r.id = id /\ r.have = w.have /\ r.there = w.there
    BY <1>4
  <1>6. Holds(r, said.box)
    <2>1. r = [at |-> r.at, op |-> w.op, n |-> w.n, dom |-> w.dom, id |-> r.id,
               local |-> w.local, row |-> w.row, have |-> r.have, there |-> w.there,
               blind |-> w.blind]
      BY <1>4, <1>5
    <2> QED
      BY <1>1, <1>2, <1>5, <2>1, DeletionHolds
  <1>7. r.op = "deldom" => \A i \in Ids \cap r.there : \E x \in r.have : x.id = i
    BY <1>2, <1>5 DEF Remembers
  <1> QED
    BY <1>5, <1>6, <1>7

\* DeleteDomain has done with mailbox i, which is not there.
LEMMA OneFewer ==
  ASSUME DirInv, NEW q \in Admins, NEW i, work[q].at \in {"deldom", "row"},
         work[q].op = "deldom", NEW r
  PROVE  r = Lister(q, i) =>
           /\ Holds(r, said.box) /\ r.at = "deldom"
           /\ \A k \in (Ids \ {i}) \cap r.there : \E x \in r.have : x.id = k
  <1>0. SUFFICES ASSUME r = Lister(q, i)
                 PROVE  /\ Holds(r, said.box) /\ r.at = "deldom"
                        /\ \A k \in (Ids \ {i}) \cap r.there : \E x \in r.have : x.id = k
    OBVIOUS
  <1>1. PICK w : w = work[q]
    OBVIOUS
  <1>2. /\ Holds(w, said.box) /\ Remembers(w)
    BY <1>1 DEF DirInv, RequestsOK, MailOK
  <1>3. /\ w = [at |-> w.at, op |-> w.op, n |-> w.n, dom |-> w.dom, id |-> w.id,
                local |-> w.local, row |-> w.row, have |-> w.have, there |-> w.there,
                blind |-> w.blind]
        /\ w.id \in Numbers \cup {0}
    BY <1>2 DEF Holds, WorkRow
  <1>4. r = [at |-> "deldom", op |-> w.op, n |-> w.n, dom |-> w.dom, id |-> w.id,
             local |-> w.local, row |-> w.row, have |-> {x \in w.have : x.id # i},
             there |-> w.there, blind |-> w.blind]
    BY <1>0, <1>1, <1>3 DEF Lister
  <1>5. r.at = "deldom" /\ r.op = w.op /\ r.id = w.id /\ r.there = w.there
        /\ r.have = {x \in w.have : x.id # i}
    BY <1>4
  <1>6. Holds(r, said.box)
    <2>1. r = [at |-> r.at, op |-> w.op, n |-> w.n, dom |-> w.dom, id |-> r.id,
               local |-> w.local, row |-> w.row, have |-> r.have, there |-> w.there,
               blind |-> w.blind]
      BY <1>4, <1>5
    <2>2. r.have \in SUBSET w.have /\ w.at \in Sweeps \cup {"delbox", "deldom"}
      BY <1>1, <1>5 DEF Sweeps
    <2> QED
      BY <1>1, <1>2, <1>3, <1>5, <2>1, <2>2, DeletionHolds
  <1>7. \A k \in (Ids \ {i}) \cap r.there : \E x \in r.have : x.id = k
    BY <1>1, <1>2, <1>5 DEF Remembers
  <1> QED
    BY <1>5, <1>6, <1>7

LEMMA ForgetUidsKeeps ==
  ASSUME DirInv, NEW q \in Admins, NEW i \in Numbers, ForgetUids(q, i)
  PROVE  DirInv'
  <1>1. /\ work[q].at \in {"delbox", "deldom"}
        /\ UNCHANGED <<dom, boxes, aliases, said, stale, tasks>>
        /\ UNCHANGED <<jobs, letter, strayJobs>>
    BY DEF ForgetUids
  <1>2. TablesOK' /\ AnsweredChangesStand'
    BY <1>1 DEF DirInv, TablesOK, AnsweredChangesStand, Ids, Issued
  <1>3. work[q].op = work[q].at /\ Holds(work[q], said.box)
    BY <1>1 DEF DirInv, RequestsOK, Holds
  <1>4. CASE /\ i \in Ids
             /\ work' = [work EXCEPT ![q].at = "jobs", ![q].id = i]
             /\ \/ counters' = counters \ {i} /\ strayUids' = strayUids \ {i}
                \/ counters' = counters /\ strayUids' = strayUids \cup {i}
    <2>1. "jobs" \in Sweeps /\ work[q].at \in Sweeps \cup {"delbox", "deldom"}
      BY <1>1 DEF Sweeps
    <2>8. PICK r : r = Sweeper(q, i, "jobs")
      OBVIOUS
    <2>9. work' = [work EXCEPT ![q] = r]
      BY <1>4, <2>8 DEF DirInv, RequestsOK, Sweeper
    <2>2. /\ Holds(r, said.box) /\ r.at = "jobs" /\ r.id = i
          /\ r.op = "deldom" => \A k \in Ids \cap r.there : \E x \in r.have : x.id = k
      BY <2>1, <2>8, NextSweep
    <2>3. counters' \subseteq counters /\ jobs' \subseteq jobs
      BY <1>1, <1>4
    <2>4. \A k : UidsGone(k) => UidsGone(k)'
      BY <1>4 DEF UidsGone
    <2>5. \A k : JobsGone(k) => JobsGone(k)'
      BY <1>1 DEF JobsGone
    <2>6. UidsGone(i)'
      BY <1>4 DEF UidsGone
    <2>7. UidsGone(r.id)'
      BY <2>2, <2>6 DEF UidsGone
    <2> QED
      BY <1>1, <1>2, <2>2, <2>3, <2>4, <2>5, <2>7, <2>9, Sweeping
  <1>5. CASE i \notin Ids /\ NextBox(q, i) /\ UNCHANGED <<counters, strayUids>>
    <2>1. CASE work[q].op = "delbox"
      <3>1. work' = [work EXCEPT ![q] = Free]
        BY <1>5, <2>1 DEF NextBox, Close, Assign
      <3> QED
        BY <1>1, <1>5, <3>1, FreeHolds, OnlyTurned DEF mails
    <2>2. CASE work[q].op # "delbox"
      <3>1. work' = [work EXCEPT ![q].at = "deldom", ![q].have = {x \in @ : x.id # i}]
        BY <1>5, <2>2 DEF NextBox
      <3>4. PICK r : r = Lister(q, i)
        OBVIOUS
      <3>5. work' = [work EXCEPT ![q] = r]
        BY <3>1, <3>4 DEF DirInv, RequestsOK, Lister
      <3>2. /\ Holds(r, said.box) /\ r.at = "deldom"
            /\ \A k \in (Ids \ {i}) \cap r.there : \E x \in r.have : x.id = k
        <4>1. work[q].at \in {"deldom", "row"} /\ work[q].op = "deldom"
          BY <1>1, <1>3, <2>2
        <4> QED
          BY <3>4, <4>1, OneFewer
      <3>3. \A k : (UidsGone(k) => UidsGone(k)') /\ (JobsGone(k) => JobsGone(k)')
        BY <1>1, <1>5 DEF UidsGone, JobsGone
      <3> QED
        BY <1>1, <1>2, <1>5, <3>2, <3>3, <3>5, Sweeping DEF Sweeps
    <2> QED
      BY <2>1, <2>2
  <1> QED
    BY <1>4, <1>5 DEF ForgetUids

LEMMA ForgetJobsKeeps ==
  ASSUME DirInv, NEW q \in Admins, ForgetJobs(q)
  PROVE  DirInv'
  <1>1. /\ work[q].at = "jobs" /\ Turn(q, "catch")
        /\ UNCHANGED <<dom, boxes, aliases, said, stale, tasks>>
        /\ UNCHANGED <<counters, letter, strayUids>>
    BY DEF ForgetJobs
  <1>2. TablesOK' /\ AnsweredChangesStand'
    BY <1>1 DEF DirInv, TablesOK, AnsweredChangesStand, Ids, Issued
  <1>3. PICK i : i = work[q].id
    OBVIOUS
  <1>4. \/ /\ jobs' = {j \in jobs : ~Begins(j.box, i)}
           /\ strayJobs' = strayJobs \ {i}
        \/ jobs' = jobs /\ strayJobs' = strayJobs \cup {i}
    BY <1>3 DEF ForgetJobs
  <1>5. /\ i \in Numbers /\ i \in Nat /\ UidsGone(i)
        /\ work[q].at \in Sweeps \cup {"delbox", "deldom"}
    BY <1>1, <1>3, BoundsAreNumbers
       DEF DirInv, RequestsOK, Holds, WorkRow, MailOK, Swept, Sweeps
  <1>6. PICK r : r = Sweeper(q, i, "catch")
    OBVIOUS
  <1>13. work' = [work EXCEPT ![q] = r]
    <2>1. PICK w : w = work[q]
      OBVIOUS
    <2>2. w = [at |-> w.at, op |-> w.op, n |-> w.n, dom |-> w.dom, id |-> w.id,
               local |-> w.local, row |-> w.row, have |-> w.have, there |-> w.there,
               blind |-> w.blind]
      BY <2>1 DEF DirInv, RequestsOK, Holds, WorkRow
    <2>3. [w EXCEPT !.at = "catch"] = r
      BY <1>3, <1>6, <2>1, <2>2 DEF Sweeper
    <2> QED
      BY <1>1, <2>1, <2>3 DEF Turn, DirInv, RequestsOK
  <1>7. /\ Holds(r, said.box) /\ r.at = "catch" /\ r.id = i
        /\ r.op = "deldom" => \A k \in Ids \cap r.there : \E x \in r.have : x.id = k
    BY <1>5, <1>6, NextSweep DEF Sweeps
  <1>8. Begins(i, i)
    BY <1>5, BeginsSelf
  <1>9. JobsGone(i)' /\ \A k : JobsGone(k) => JobsGone(k)'
    BY <1>4, <1>8 DEF JobsGone
  <1>10. UidsGone(i)' /\ \A k : UidsGone(k) => UidsGone(k)'
    BY <1>1, <1>5 DEF UidsGone
  <1>11. UidsGone(r.id)' /\ JobsGone(r.id)'
    BY <1>7, <1>9, <1>10 DEF UidsGone, JobsGone
  <1>12. jobs' \subseteq jobs /\ counters' \subseteq counters
    BY <1>1, <1>4
  <1> QED
    BY <1>1, <1>2, <1>7, <1>9, <1>10, <1>11, <1>12, <1>13, Sweeping

LEMMA ClearCatchAllKeeps ==
  ASSUME DirInv, NEW q \in Admins, ClearCatchAll(q)
  PROVE  DirInv'
  <1>1. /\ work[q].at = "catch" /\ Turn(q, "row")
        /\ UNCHANGED <<boxes, aliases, said, stale, tasks>> /\ UNCHANGED mails
        /\ dom' = [dom EXCEPT !.catchAll = "none"] \/ dom' = dom
    BY DEF ClearCatchAll
  <1>2. /\ dom' \in DomainRows /\ dom'.id = dom.id /\ dom'.key = dom.key
    BY <1>1 DEF DomainRows, DirInv, TablesOK
  <1>3. TablesOK' /\ AnsweredChangesStand'
    BY <1>1, <1>2 DEF DirInv, TablesOK, AnsweredChangesStand, Ids, Issued
  <1>4. PICK i : i = work[q].id
    OBVIOUS
  <1>5. /\ i \in Numbers /\ UidsGone(i) /\ JobsGone(i)
        /\ work[q].at \in Sweeps \cup {"delbox", "deldom"}
    BY <1>1, <1>4 DEF DirInv, RequestsOK, Holds, WorkRow, MailOK, Swept, Sweeps
  <1>6. PICK r : r = Sweeper(q, i, "row")
    OBVIOUS
  <1>13. work' = [work EXCEPT ![q] = r]
    <2>1. PICK w : w = work[q]
      OBVIOUS
    <2>2. w = [at |-> w.at, op |-> w.op, n |-> w.n, dom |-> w.dom, id |-> w.id,
               local |-> w.local, row |-> w.row, have |-> w.have, there |-> w.there,
               blind |-> w.blind]
      BY <2>1 DEF DirInv, RequestsOK, Holds, WorkRow
    <2>3. [w EXCEPT !.at = "row"] = r
      BY <1>4, <1>6, <2>1, <2>2 DEF Sweeper
    <2> QED
      BY <1>1, <2>1, <2>3 DEF Turn, DirInv, RequestsOK
  <1>7. /\ Holds(r, said.box) /\ r.at = "row" /\ r.id = i
        /\ r.op = "deldom" => \A k \in Ids \cap r.there : \E x \in r.have : x.id = k
    BY <1>5, <1>6, NextSweep DEF Sweeps
  <1>8. \A k : (UidsGone(k) => UidsGone(k)') /\ (JobsGone(k) => JobsGone(k)')
    BY <1>1 DEF UidsGone, JobsGone, mails
  <1>9. UidsGone(r.id)' /\ JobsGone(r.id)'
    BY <1>1, <1>5, <1>7 DEF UidsGone, JobsGone, mails
  <1>10. jobs' \subseteq jobs /\ counters' \subseteq counters /\ letter' = letter
    BY <1>1 DEF mails
  <1> QED
    BY <1>1, <1>3, <1>7, <1>8, <1>9, <1>10, <1>13, Sweeping

LEMMA DropMailboxKeeps ==
  ASSUME DirInv, NEW q \in Admins, DropMailbox(q)
  PROVE  DirInv'
  <1>1. PICK w, i : w = work[q] /\ i = w.id
    OBVIOUS
  <1>2. /\ w.at = "row" /\ boxes' = Without(boxes, {i})
        /\ aliases' = {a \in aliases : a.box # i}
        /\ UNCHANGED <<dom, said, stale, tasks>> /\ UNCHANGED mails
        /\ NextBox(q, i)
    BY <1>1 DEF DropMailbox
  <1>3. /\ Holds(w, said.box) /\ w.op \in {"delbox", "deldom"} /\ said' = said
        /\ work = [p \in Admins |-> work[p]] /\ UidsGone(i) /\ JobsGone(i)
    BY <1>1, <1>2 DEF DirInv, RequestsOK, Holds, MailOK, Swept, Sweeps
  <1>4. boxes \in [Ids -> MailboxRows] /\ Ids \subseteq Issued
    BY DEF DirInv, TablesOK
  <1>5. boxes' = [n \in Ids \ {i} |-> boxes[n]]
    BY <1>2 DEF Without, Ids
  <1>6. Ids' = Ids \ {i} /\ Issued' = Issued /\ boxes' \in [Ids \ {i} -> MailboxRows]
    BY <1>2, <1>4, <1>5 DEF Ids, Issued
  <1>7. TablesOK'
    <2>1. /\ \A k \in Ids' : boxes'[k].local = said'.box[k].local
          /\ \A k, m \in Ids' : boxes'[k].local = boxes'[m].local => k = m
      <3>1. \A k \in Ids' : k \in Ids /\ boxes'[k] = boxes[k]
        BY <1>5, <1>6
      <3> QED
        BY <1>2, <3>1 DEF DirInv, TablesOK
    <2>2. boxes' \in [Ids' -> MailboxRows] /\ Ids' \subseteq Issued' /\ Issued' \subseteq Numbers
      BY <1>4, <1>6 DEF DirInv, TablesOK
    <2>3. /\ said' = [key |-> said'.key, box |-> said'.box] /\ said'.key \in 0..MaxTasks
          /\ said'.box \in [Issued' -> MailboxRows] /\ tasks' \in 0..MaxTasks
      BY <1>2, <1>6 DEF DirInv, TablesOK
    <2>4. dom' \in DomainRows /\ (dom'.id = 0 => Ids' = {} /\ dom'.key = 0)
      BY <1>2, <1>6 DEF DirInv, TablesOK
    <2> QED
      BY <2>1, <2>2, <2>3, <2>4 DEF TablesOK
  <1>8. Grows
    BY <1>2 DEF Grows, Issued
  <1>9. AnsweredChangesStand'
    BY <1>2, <1>5, <1>6 DEF DirInv, AnsweredChangesStand
  <1>10. AliasesOK'
    <2>1. aliases' \subseteq aliases /\ \A a \in aliases' : a.box \in Ids'
      BY <1>2, <1>6 DEF DirInv, AliasesOK
    <2> QED
      BY <1>8, <2>1, AliasesKept DEF DirInv
  <1>11. /\ Issued' \ Issued \subseteq Ids' /\ Ids' \cap Issued \subseteq Ids
         /\ \A k \in Ids \ Ids' : UidsGone(k) /\ JobsGone(k)
    BY <1>3, <1>6
  <1>12. CASE w.op = "delbox"
    <2>1. Close(q)
      BY <1>1, <1>2, <1>12 DEF NextBox
    <2>2. RequestsOK' /\ Quiet(work'[q]) /\ \A p \in Admins : p # q => work'[p] = work[p]
      BY <1>8, <2>1, Closed
    <2>3. MailOK'
      BY <1>2, <1>8, <1>11, <2>2, MailKept DEF DirInv
    <2> QED
      BY <1>7, <1>9, <1>10, <2>2, <2>3 DEF DirInv
  <1>13. CASE w.op = "deldom"
    <2>1. work' = [work EXCEPT ![q].at = "deldom", ![q].have = {x \in @ : x.id # i}]
      BY <1>1, <1>2, <1>13 DEF NextBox
    <2>7. PICK r : r = Lister(q, i)
      OBVIOUS
    <2>8. work' = [work EXCEPT ![q] = r]
      BY <2>1, <2>7 DEF DirInv, RequestsOK, Lister
    <2>2. /\ Holds(r, said.box) /\ r.at = "deldom"
          /\ \A k \in (Ids \ {i}) \cap r.there : \E x \in r.have : x.id = k
      <3>1. work[q].at \in {"deldom", "row"} /\ work[q].op = "deldom"
        BY <1>1, <1>2, <1>13
      <3> QED
        BY <2>7, <3>1, OneFewer
    <2>3. /\ work' = [p \in Admins |-> work'[p]] /\ work'[q] = r
          /\ \A p \in Admins : p # q => work'[p] = work[p]
      BY <1>3, <2>8, AssignOne
    <2>4. RequestsOK'
      BY <1>3, <1>8, <2>2, <2>3, RequestsKept DEF DirInv
    <2>5. GoesOn(q)
      BY <1>6, <2>2, <2>3 DEF GoesOn, Swept, Sweeps
    <2>6. MailOK'
      BY <1>2, <1>8, <1>11, <2>3, <2>5, MailKept DEF DirInv
    <2> QED
      BY <1>7, <1>9, <1>10, <2>4, <2>6 DEF DirInv
  <1> QED
    BY <1>3, <1>12, <1>13

LEMMA DropDomainKeeps ==
  ASSUME DirInv, NEW q \in Admins, DropDomain(q)
  PROVE  DirInv'
  <1>1. /\ work[q].at = "deldom" /\ work[q].have = {} /\ Close(q)
        /\ UNCHANGED <<said, stale, tasks>> /\ UNCHANGED <<jobs, counters, letter>>
        /\ work[q].op = "deldom"
    BY DEF DropDomain, DirInv, RequestsOK, Holds
  <1>2. CASE dom.id = work[q].dom
    <2>1. /\ dom' = NoDomain /\ boxes' = <<>> /\ aliases' = {}
          /\ strayJobs' = strayJobs \cup (Ids \ work[q].there)
          /\ strayUids' = strayUids \cup (Ids \ work[q].there)
      BY <1>2 DEF DropDomain
    <2>2. Ids' = {} /\ Issued' = Issued /\ boxes' \in [{} -> MailboxRows]
      BY <1>1, <2>1 DEF Ids, Issued
    <2>3. dom' \in DomainRows /\ dom'.id = 0 /\ dom'.key = 0
      BY <2>1, BoundsAreNumbers DEF NoDomain, DomainRows
    <2>4. TablesOK' /\ Grows /\ AnsweredChangesStand'
      BY <1>1, <2>2, <2>3 DEF DirInv, TablesOK, Grows, AnsweredChangesStand, Issued
    <2>5. RequestsOK' /\ Quiet(work'[q]) /\ \A p \in Admins : p # q => work'[p] = work[p]
      BY <1>1, <2>4, Closed
    <2>6. AliasesOK'
      BY <2>1, <2>4, AliasesKept DEF DirInv
    <2>7. \A k \in Ids : k \notin work[q].there
      BY <1>1 DEF DirInv, MailOK, Remembers
    <2>8. /\ \A k : UidsGone(k) => UidsGone(k)'
          /\ \A k : JobsGone(k) => JobsGone(k)'
      BY <1>1, <2>1 DEF UidsGone, JobsGone
    <2>9. \A k \in Ids : UidsGone(k)' /\ JobsGone(k)'
      BY <2>1, <2>7 DEF UidsGone, JobsGone
    <2>10. ASSUME NEW p \in Admins
           PROVE  Swept(work[p])' /\ Remembers(work[p])'
      <3>1. CASE p = q
        BY <2>5, <3>1 DEF Swept, Remembers, Quiet, Sweeps
      <3>2. CASE p # q
        <4>1. Swept(work[p])
          BY DEF DirInv, MailOK
        <4>2. PICK w : w = work[p] /\ w = work'[p]
          BY <2>5, <3>2
        <4>3. w.at \in Sweeps => UidsGone(w.id)'
          BY <2>8, <4>1, <4>2 DEF Swept
        <4>4. w.at \in {"catch", "row"} => JobsGone(w.id)'
          BY <2>8, <4>1, <4>2 DEF Swept
        <4> QED
          BY <2>2, <4>2, <4>3, <4>4 DEF Swept, Remembers, UidsGone, JobsGone
      <3> QED
        BY <3>1, <3>2
    <2>11. ASSUME NEW k \in Issued' \ Ids'
           PROVE  UidsGone(k)' /\ JobsGone(k)'
      BY <2>2, <2>8, <2>9 DEF DirInv, MailOK
    <2>12. MailOK'
      BY <1>1, <2>2, <2>10, <2>11 DEF DirInv, MailOK
    <2> QED
      BY <2>4, <2>5, <2>6, <2>12 DEF DirInv
  <1>3. CASE dom.id # work[q].dom
    <2>1. /\ UNCHANGED <<dom, boxes, aliases, strayJobs, strayUids>>
          /\ work' = [work EXCEPT ![q] = Free]
      BY <1>1, <1>3 DEF DropDomain, Close, Assign
    <2> QED
      BY <1>1, <2>1, FreeHolds, OnlyTurned DEF mails
  <1> QED
    BY <1>2, <1>3

-----------------------------------------------------------------------------
(* The results.                                                            *)

LEMMA InitDirInv == DirectoryInit => DirInv
  <1> SUFFICES ASSUME DirectoryInit PROVE DirInv
    OBVIOUS
  <1>1. PICK l \in Locals :
          /\ dom = [id |-> 1, enabled |-> TRUE, catchAll |-> l, key |-> 0]
          /\ boxes = [i \in {1} |-> Mailbox(l, TRUE, 0)]
          /\ said = [key |-> 0, box |-> boxes]
    BY DEF DirectoryInit
  <1>2. /\ aliases = {} /\ jobs = {} /\ counters = {} /\ work = [q \in Admins |-> Free]
        /\ letter = NoLetter /\ stale = FALSE /\ strayJobs = {} /\ strayUids = {} /\ tasks = 0
    BY DEF DirectoryInit
  <1>3. /\ 1 \in 0..(MaxTasks + 1) /\ 0 \in 0..MaxTasks /\ 1 \in Numbers
    BY BoundsAreNumbers, DirectoryAssumption
  <1>4. Mailbox(l, TRUE, 0) \in MailboxRows
    BY <1>3 DEF Mailbox, MailboxRows
  <1>5. /\ Ids = {1} /\ Issued = {1} /\ said.box = boxes /\ said.key = 0
        /\ boxes \in [{1} -> MailboxRows]
    BY <1>1, <1>4 DEF Ids, Issued
  <1>6. dom \in DomainRows /\ dom.id = 1 /\ dom.key = 0
    BY <1>1, <1>3 DEF DomainRows
  <1>7. TablesOK
    <2>1. boxes \in [Ids -> MailboxRows] /\ Ids \subseteq Issued /\ Issued \subseteq Numbers
      BY <1>3, <1>5
    <2>2. /\ said = [key |-> said.key, box |-> said.box] /\ said.key \in 0..MaxTasks
          /\ said.box \in [Issued -> MailboxRows] /\ tasks \in 0..MaxTasks
      BY <1>1, <1>2, <1>3, <1>5
    <2>3. /\ \A i \in Ids : boxes[i].local = said.box[i].local
          /\ \A i, k \in Ids : boxes[i].local = boxes[k].local => i = k
      BY <1>5
    <2> QED
      BY <1>6, <2>1, <2>2, <2>3 DEF TablesOK
  <1>8. RequestsOK
    BY <1>2, FreeHolds DEF RequestsOK
  <1>9. AliasesOK /\ AnsweredChangesStand
    BY <1>2, <1>5, <1>6 DEF AliasesOK, AnsweredChangesStand
  <1>10. MailOK
    BY <1>2, <1>5, BoundsAreNumbers
       DEF MailOK, NoLetter, Free, UidsGone, JobsGone, Swept, Remembers, Sweeps
  <1> QED
    BY <1>7, <1>8, <1>9, <1>10 DEF DirInv

LEMMA StutterKeeps == DirInv /\ UNCHANGED dirVars => DirInv'
  <1> SUFFICES ASSUME DirInv, UNCHANGED dirVars PROVE DirInv'
    OBVIOUS
  <1>1. UNCHANGED Bystanders /\ UNCHANGED <<jobs, counters, letter, strayJobs, strayUids>>
    BY DEF dirVars, Bystanders
  <1> QED
    BY <1>1, MailMoves DEF DirInv, MailOK, UidsGone, JobsGone

LEMMA NextKeeps == DirInv /\ DirectoryNext => DirInv'
  <1> SUFFICES ASSUME DirInv, DirectoryNext PROVE DirInv'
    OBVIOUS
  <1>1. CASE \/ \E l \in Locals : Resolve(l)
             \/ Enqueue
             \/ \E j \in jobs : StartAppend(j)
             \/ CountAppend \/ InsertMessage
    BY <1>1, ResolveKeeps, EnqueueKeeps, StartAppendKeeps, CountAppendKeeps, InsertMessageKeeps
  <1>2. ASSUME NEW q \in Admins,
               \/ \E op \in {"dkim", "domain"} : ReadDomain(q, op)
               \/ GenDKIM(q) \/ UpdateDomain(q) \/ CreateDomain(q)
               \/ ReadMailbox(q) \/ UpdateMailbox(q) \/ CreateMailbox(q)
               \/ CheckAlias(q) \/ ListNames(q) \/ CreateAlias(q) \/ DeleteAlias(q)
        PROVE  DirInv'
    BY <1>2, ReadDomainKeeps, GenDKIMKeeps, UpdateDomainKeeps, CreateDomainKeeps,
       ReadMailboxKeeps, UpdateMailboxKeeps, CreateMailboxKeeps, CheckAliasKeeps,
       ListNamesKeeps, CreateAliasKeeps, DeleteAliasKeeps
  <1>3. ASSUME NEW q \in Admins,
               \/ StartDelete(q) \/ DropMailbox(q)
               \/ \E i \in Numbers : ForgetUids(q, i)
               \/ ForgetJobs(q) \/ ClearCatchAll(q)
               \/ StartDeleteDomain(q) \/ DropDomain(q)
        PROVE  DirInv'
    BY <1>3, StartDeleteKeeps, DropMailboxKeeps, ForgetUidsKeeps, ForgetJobsKeeps,
       ClearCatchAllKeeps, StartDeleteDomainKeeps, DropDomainKeeps
  <1>4. ASSUME NEW q \in Admins, ReadBackup(q) \/ Restoring(q) \/ BreakDown(q)
        PROVE  DirInv'
    BY <1>4, ReadBackupKeeps, RestoreDomainKeeps, ListBoxesKeeps, RestoreNewKeeps,
       RestoreReadKeeps, RestoreOldKeeps, RestoreAliasKeeps, RestoreGoesOnKeeps,
       BreakDownKeeps DEF Restoring
  <1> QED
    BY <1>1, <1>2, <1>3, <1>4 DEF DirectoryNext

LEMMA DirectoryInvariant == DirectorySpec => []DirInv
  <1>1. DirInv /\ [DirectoryNext]_dirVars => DirInv'
    BY NextKeeps, StutterKeeps
  <1> QED
    BY InitDirInv, <1>1, PTL DEF DirectorySpec

\* The tables are consistent whatever requests and mails run at the same time:
\* no two mailboxes bear one name, no alias is without its mailbox, and no
\* mailbox without the domain.
THEOREM DirectoryTypeCorrect == DirectorySpec => []DirectoryTypeOK
  <1>1. DirInv => DirectoryTypeOK
    <2> SUFFICES ASSUME DirInv PROVE DirectoryTypeOK
      OBVIOUS
    <2>1. dom.id \in 0..(MaxTasks + 1) /\ dom.key \in 0..MaxTasks /\ tasks <= MaxTasks
      BY BoundsAreNumbers DEF DirInv, TablesOK, DomainRows
    <2>2. counters \cup {j.box : j \in jobs} \subseteq DOMAIN said.box
      BY DEF DirInv, MailOK, Issued
    <2> QED
      BY <2>1, <2>2 DEF DirInv, TablesOK, AliasesOK, MailOK, DirectoryTypeOK, Issued
  <1> QED
    BY <1>1, DirectoryInvariant, PTL

\* What an administrator was told to be done stays done, unless somebody wrote
\* back a row that had changed since it was read.
THEOREM ChangesStand == DirectorySpec => []AnsweredChangesStand
  <1>1. DirInv => AnsweredChangesStand
    BY DEF DirInv
  <1> QED
    BY <1>1, DirectoryInvariant, PTL

\* DeleteMailbox and DeleteDomain leave no job and no row of folder_uid of a
\* mailbox that is gone, unless the statement failed, the mail came after it, or
\* the mailbox came while the domain was being deleted.
THEOREM NothingLeftBehind == DirectorySpec => []DeletionLeavesNothing
  <1>1. DirInv => DeletionLeavesNothing
    BY DEF DirInv, MailOK, DeletionLeavesNothing, UidsGone, JobsGone, Issued
  <1> QED
    BY <1>1, DirectoryInvariant, PTL

-----------------------------------------------------------------------------
(* Aliases under the names of mailboxes.                                   *)

\* What a request that may make an alias knows of the mailboxes that were there
\* when it began and still are: there is none in another domain, none has the
\* name of the alias, and all are on the list.
Lists(r) ==
  /\ (r.at \in {"check", "list"} \/ (r.at = "restore" /\ r.dom # 0)) /\ r.dom # dom.id =>
       r.there \cap Ids = {}
  /\ r.at = "alias" => \A i \in r.there \cap Ids : boxes[i].local # r.local
  /\ r.at \in {"read", "write", "aliases"} /\ ~r.blind =>
       \A i \in r.there \cap Ids : \E x \in r.have : x.id = i

ListsOK == \A q \in Admins : Lists(work[q])

\* The ids of mailboxes that are gone do not return, names stay, and another
\* domain comes only after the mailboxes of the one before have gone.
Steady ==
  /\ \A i \in Ids' \cap Issued : i \in Ids /\ boxes'[i].local = boxes[i].local
  /\ dom'.id = dom.id \/ Ids = {} \/ Ids' = {}

LEMMA RowsStay ==
  ASSUME UNCHANGED boxes, dom'.id = dom.id
  PROVE  Steady
  BY DEF Steady, Ids

LEMMA ListStays ==
  ASSUME DirInv, ListsOK, Steady, NEW q \in Admins, work'[q] = work[q]
  PROVE  Lists(work[q])'
  <1>1. PICK w : w = work[q]
    OBVIOUS
  <1>2. Lists(w) /\ w.there \subseteq Issued
    BY <1>1 DEF ListsOK, DirInv, RequestsOK, Holds, Issued
  <1>3. \A i \in w.there \cap Ids' : i \in w.there \cap Ids /\ boxes'[i].local = boxes[i].local
    BY <1>2 DEF Steady
  <1>4. dom'.id = dom.id \/ w.there \cap Ids' = {}
    BY <1>3 DEF Steady
  <1>5. work'[q] = w
    BY <1>1
  <1> QED
    BY <1>2, <1>3, <1>4, <1>5 DEF Lists

LEMMA ListsKept ==
  ASSUME DirInv, ListsOK, Steady, NEW q \in Admins, Lists(work[q])',
         \A p \in Admins : p # q => work'[p] = work[p]
  PROVE  ListsOK'
  <1>1. ASSUME NEW p \in Admins
        PROVE  Lists(work[p])'
    <2>1. CASE p = q
      BY <2>1
    <2>2. CASE p # q
      BY <2>2, ListStays
    <2> QED
      BY <2>1, <2>2
  <1> QED
    BY <1>1 DEF ListsOK

LEMMA ListsUntouched ==
  ASSUME DirInv, ListsOK, Steady, work' = work
  PROVE  ListsOK'
  BY ListStays DEF ListsOK

\* A request that makes no alias, or not yet.
ListSteps == {"check", "list", "restore", "alias", "read", "write", "aliases"}

LEMMA ListsOfOthers ==
  ASSUME DirInv, ListsOK, Steady, NEW q \in Admins, NEW r, work' = [work EXCEPT ![q] = r],
         r.at \notin ListSteps
  PROVE  ListsOK'
  <1>1. work'[q] = r /\ \A p \in Admins : p # q => work'[p] = work[p]
    BY AssignOne DEF DirInv, RequestsOK
  <1>2. Lists(work[q])'
    BY <1>1 DEF Lists, ListSteps
  <1> QED
    BY <1>1, <1>2, ListsKept

LEMMA ListsClosed ==
  ASSUME DirInv, ListsOK, Steady, NEW q \in Admins, Close(q)
  PROVE  ListsOK'
  BY ListsOfOthers DEF Close, Assign, Free, ListSteps

LEMMA ListsTurned ==
  ASSUME DirInv, ListsOK, Steady, NEW q \in Admins, NEW step, Turn(q, step),
         step \notin ListSteps
  PROVE  ListsOK'
  <1>1. PICK w : w = work[q] /\ w = [at |-> w.at, op |-> w.op, n |-> w.n, dom |-> w.dom,
                    id |-> w.id, local |-> w.local, row |-> w.row, have |-> w.have,
                    there |-> w.there, blind |-> w.blind]
    BY DEF DirInv, RequestsOK, Holds, WorkRow
  <1>2. PICK r : r = [w EXCEPT !.at = step]
    OBVIOUS
  <1>3. r = [at |-> step, op |-> w.op, n |-> w.n, dom |-> w.dom, id |-> w.id,
             local |-> w.local, row |-> w.row, have |-> w.have, there |-> w.there,
             blind |-> w.blind]
    BY <1>1, <1>2
  <1>4. r.at = step
    BY <1>3
  <1>5. work' = [work EXCEPT ![q] = r]
    BY <1>1, <1>2 DEF Turn, DirInv, RequestsOK
  <1> QED
    BY <1>4, <1>5, ListsOfOthers

\* A request begins.
LEMMA ListsStarted ==
  ASSUME DirInv, ListsOK, Steady, NEW q \in Admins,
         NEW op \in {"dkim", "domain", "box", "check", "delbox", "deldom", "restore"},
         NEW id, NEW local, NEW row, NEW have, Start(q, op, id, local, row, have),
         dom' = dom
  PROVE  ListsOK'
  <1>1. PICK r : r = [at |-> op, op |-> op, n |-> tasks', dom |-> dom.id, id |-> id,
                      local |-> local, row |-> row, have |-> have, there |-> Ids,
                      blind |-> FALSE]
    OBVIOUS
  <1>2. r.at = op /\ r.dom = dom.id
    BY <1>1
  <1>3. work'[q] = r /\ \A p \in Admins : p # q => work'[p] = work[p]
    BY <1>1, AssignOne DEF DirInv, RequestsOK, Start, Assign
  <1>4. Lists(work[q])'
    BY <1>2, <1>3 DEF Lists
  <1> QED
    BY <1>3, <1>4, ListsKept

LEMMA DomainStays ==
  ASSUME NEW q, NEW row, WriteDomain(q, row)
  PROVE  dom'.id = dom.id
  BY DEF WriteDomain

\* The steps of the mail, of a domain or a mailbox, and of a deletion.
LEMMA MailLists ==
  ASSUME DirInv, ListsOK, UNCHANGED <<dom, boxes, work>>
  PROVE  ListsOK'
  BY RowsStay, ListsUntouched

LEMMA DomainLists ==
  ASSUME DirInv, ListsOK, NEW q \in Admins,
         GenDKIM(q) \/ UpdateDomain(q) \/ CreateDomain(q)
  PROVE  ListsOK'
  <1>1. CASE GenDKIM(q)
    <2>1. PICK row : WriteDomain(q, row)
      BY <1>1 DEF GenDKIM
    <2>2. Close(q) /\ UNCHANGED boxes /\ dom'.id = dom.id
      BY <1>1, <2>1, DomainStays DEF GenDKIM
    <2> QED
      BY <2>2, RowsStay, ListsClosed
  <1>2. CASE UpdateDomain(q)
    <2>1. PICK row : WriteDomain(q, row)
      BY <1>2 DEF UpdateDomain
    <2>2. Close(q) /\ UNCHANGED boxes /\ dom'.id = dom.id
      BY <1>2, <2>1, DomainStays DEF UpdateDomain
    <2> QED
      BY <2>2, RowsStay, ListsClosed
  <1>3. CASE CreateDomain(q)
    <2>1. Ids = {} /\ boxes' = boxes /\ work' = work
      BY <1>3 DEF CreateDomain, AtOnce, DirInv, TablesOK
    <2> QED
      BY <2>1, ListsUntouched DEF Steady, Ids
  <1> QED
    BY <1>1, <1>2, <1>3

\* WriteMailbox leaves the names alone.
LEMMA MailboxSteady ==
  ASSUME DirInv, NEW q \in Admins, work[q].at \in {"box", "write"}, NEW row,
         WriteMailbox(q, work[q].id, row), row.local = work[q].row.local, dom' = dom
  PROVE  Steady
  <1>1. PICK i : i = work[q].id
    OBVIOUS
  <1>2. row.local = said.box[i].local
    BY <1>1 DEF DirInv, RequestsOK, Holds
  <1>3. boxes' = IF i \in Ids THEN [boxes EXCEPT ![i] = row] ELSE boxes
    BY <1>1 DEF WriteMailbox
  <1>4. boxes = [k \in Ids |-> boxes[k]] /\ \A k \in Ids : boxes[k].local = said.box[k].local
    BY DEF DirInv, TablesOK
  <1>5. Ids' = Ids /\ \A k \in Ids : boxes'[k].local = boxes[k].local
    BY <1>2, <1>3, <1>4 DEF Ids
  <1> QED
    BY <1>5 DEF Steady

LEMMA UpdateMailboxLists ==
  ASSUME DirInv, ListsOK, NEW q \in Admins, UpdateMailbox(q)
  PROVE  ListsOK'
  <1>1. /\ work[q].at = "box" /\ Close(q) /\ dom' = dom
        /\ work[q].row \in MailboxRows
    BY DEF UpdateMailbox, DirInv, RequestsOK, Holds
  <1>2. PICK row : WriteMailbox(q, work[q].id, row) /\ row.local = work[q].row.local
    <2>1. \/ WriteMailbox(q, work[q].id, [work[q].row EXCEPT !.pass = work[q].n])
          \/ \E on \in BOOLEAN :
               WriteMailbox(q, work[q].id, [work[q].row EXCEPT !.enabled = on])
      BY DEF UpdateMailbox
    <2>2. \A x : /\ [work[q].row EXCEPT !.pass = x].local = work[q].row.local
                 /\ [work[q].row EXCEPT !.enabled = x].local = work[q].row.local
      BY <1>1 DEF MailboxRows
    <2> QED
      BY <2>1, <2>2
  <1>3. Steady
    BY <1>1, <1>2, MailboxSteady
  <1> QED
    BY <1>1, <1>3, ListsClosed

LEMMA AddedSteady ==
  ASSUME DirInv, DirInv', NEW l \in Locals, NEW on \in BOOLEAN, NEW pass \in 0..MaxTasks,
         AddMailbox(l, on, pass), Bearing(l) = {}, UNCHANGED <<dom, stale>>, dom.id # 0
  PROVE  Steady /\ Ids \subseteq Ids' /\ Ids' \ Ids = Issued' \ Issued
  <1>1. tasks' \in 0..MaxTasks
    BY DEF DirInv, TablesOK
  <1>2. Grows /\ Ids \subseteq Ids' /\ Ids' \ Ids = Issued' \ Issued
    BY <1>1, MailboxAdded
  <1>3. \A i \in Ids' \cap Issued : i \in Ids
    BY <1>2
  <1>4. \A i \in Ids' : boxes'[i].local = said'.box[i].local
    BY DEF DirInv, TablesOK
  <1>5. \A i \in Ids : boxes[i].local = said.box[i].local
    BY DEF DirInv, TablesOK
  <1> QED
    BY <1>2, <1>3, <1>4, <1>5 DEF Steady, Grows

LEMMA CreateMailboxLists ==
  ASSUME DirInv, DirInv', ListsOK, NEW q \in Admins, CreateMailbox(q)
  PROVE  ListsOK'
  <1>1. PICK l \in Locals : Bearing(l) = {} /\ AddMailbox(l, TRUE, 0)
    BY DEF CreateMailbox
  <1>2. dom.id # 0 /\ work' = work /\ UNCHANGED <<dom, stale>> /\ 0 \in 0..MaxTasks
    BY BoundsAreNumbers DEF CreateMailbox, AtOnce
  <1>3. Steady
    BY <1>1, <1>2, AddedSteady
  <1> QED
    BY <1>2, <1>3, ListsUntouched

LEMMA StartLists ==
  ASSUME DirInv, ListsOK, NEW q \in Admins,
         \/ \E op \in {"dkim", "domain"} : ReadDomain(q, op)
         \/ ReadMailbox(q) \/ CheckAlias(q) \/ StartDelete(q) \/ StartDeleteDomain(q)
         \/ ReadBackup(q)
  PROVE  ListsOK'
  <1>1. UNCHANGED <<dom, boxes>> /\
        \E op \in {"dkim", "domain", "box", "check", "delbox", "deldom", "restore"} :
          \E id, local, row, have : Start(q, op, id, local, row, have)
    BY DEF ReadDomain, ReadMailbox, CheckAlias, StartDelete, StartDeleteDomain, ReadBackup
  <1> QED
    BY <1>1, RowsStay, ListsStarted

LEMMA DeletionLists ==
  ASSUME DirInv, ListsOK, NEW q \in Admins,
         \/ \E i \in Numbers : ForgetUids(q, i)
         \/ ForgetJobs(q) \/ ClearCatchAll(q) \/ DropMailbox(q) \/ DropDomain(q)
  PROVE  ListsOK'
  <1>1. ASSUME NEW i, NextBox(q, i), Steady
        PROVE  ListsOK'
    <2>1. CASE Close(q)
      BY <1>1, <2>1, ListsClosed
    <2>2. CASE work' = [work EXCEPT ![q].at = "deldom", ![q].have = {x \in @ : x.id # i}]
      <3>1. PICK w : w = work[q] /\ w = [at |-> w.at, op |-> w.op, n |-> w.n, dom |-> w.dom,
                        id |-> w.id, local |-> w.local, row |-> w.row, have |-> w.have,
                        there |-> w.there, blind |-> w.blind]
        BY DEF DirInv, RequestsOK, Holds, WorkRow
      <3>2. PICK r : r = Lister(q, i)
        OBVIOUS
      <3>3. work' = [work EXCEPT ![q] = r]
        BY <2>2, <3>2 DEF DirInv, RequestsOK, Lister
      <3>4. r = [at |-> "deldom", op |-> w.op, n |-> w.n, dom |-> w.dom, id |-> w.id,
                 local |-> w.local, row |-> w.row, have |-> {x \in w.have : x.id # i},
                 there |-> w.there, blind |-> w.blind]
        BY <3>1, <3>2 DEF Lister
      <3>5. r.at = "deldom"
        BY <3>4
      <3> QED
        BY <1>1, <3>3, <3>5, ListsOfOthers DEF ListSteps
    <2> QED
      BY <1>1, <2>1, <2>2 DEF NextBox
  <1>2. ASSUME NEW i \in Numbers, ForgetUids(q, i)
        PROVE  ListsOK'
    <2>1. Steady
      BY <1>2, RowsStay DEF ForgetUids
    <2>2. CASE work' = [work EXCEPT ![q].at = "jobs", ![q].id = i]
      <3>1. PICK w : w = work[q] /\ w = [at |-> w.at, op |-> w.op, n |-> w.n, dom |-> w.dom,
                        id |-> w.id, local |-> w.local, row |-> w.row, have |-> w.have,
                        there |-> w.there, blind |-> w.blind]
        BY DEF DirInv, RequestsOK, Holds, WorkRow
      <3>2. PICK r : r = Sweeper(q, i, "jobs")
        OBVIOUS
      <3>3. work' = [work EXCEPT ![q] = r]
        BY <2>2, <3>2 DEF DirInv, RequestsOK, Sweeper
      <3>4. r = [at |-> "jobs", op |-> w.op, n |-> w.n, dom |-> w.dom, id |-> i,
                 local |-> w.local, row |-> w.row, have |-> w.have, there |-> w.there,
                 blind |-> w.blind]
        BY <3>1, <3>2 DEF Sweeper
      <3>5. r.at = "jobs"
        BY <3>4
      <3> QED
        BY <2>1, <3>3, <3>5, ListsOfOthers DEF ListSteps
    <2> QED
      BY <1>1, <1>2, <2>1, <2>2 DEF ForgetUids
  <1>3. CASE ForgetJobs(q)
    BY <1>3, RowsStay, ListsTurned DEF ForgetJobs, ListSteps
  <1>4. CASE ClearCatchAll(q)
    <2>1. dom' = [dom EXCEPT !.catchAll = "none"] \/ dom' = dom
      BY <1>4 DEF ClearCatchAll
    <2>2. dom'.id = dom.id
      BY <2>1 DEF DomainRows, DirInv, TablesOK
    <2> QED
      BY <1>4, <2>2, RowsStay, ListsTurned DEF ClearCatchAll, ListSteps
  <1>5. CASE DropMailbox(q)
    <2>1. /\ boxes' = [n \in Ids \ {work[q].id} |-> boxes[n]] /\ dom' = dom
          /\ NextBox(q, work[q].id)
      BY <1>5 DEF DropMailbox, Without, Ids
    <2>2. Steady
      BY <2>1 DEF Steady, Ids
    <2> QED
      BY <1>1, <2>1, <2>2
  <1>6. CASE DropDomain(q)
    <2>1. Close(q) /\ (boxes' = <<>> \/ UNCHANGED <<dom, boxes>>)
      BY <1>6 DEF DropDomain
    <2>2. CASE boxes' = <<>>
      BY <2>1, <2>2, ListsClosed DEF Steady, Ids
    <2>3. CASE UNCHANGED <<dom, boxes>>
      BY <2>1, <2>3, RowsStay, ListsClosed
    <2> QED
      BY <2>1, <2>2, <2>3
  <1> QED
    BY <1>2, <1>3, <1>4, <1>5, <1>6

\* The requests that may make an alias.
LEMMA FieldsOf ==
  ASSUME DirInv, NEW q \in Admins, NEW w, w = work[q]
  PROVE  w = [at |-> w.at, op |-> w.op, n |-> w.n, dom |-> w.dom, id |-> w.id,
              local |-> w.local, row |-> w.row, have |-> w.have, there |-> w.there,
              blind |-> w.blind]
  BY DEF DirInv, RequestsOK, Holds, WorkRow

LEMMA TurnFields ==
  ASSUME DirInv, NEW q \in Admins, NEW step, Turn(q, step)
  PROVE  /\ work'[q].at = step /\ work'[q].dom = work[q].dom /\ work'[q].local = work[q].local
         /\ work'[q].have = work[q].have /\ work'[q].there = work[q].there
         /\ work'[q].blind = work[q].blind
         /\ \A p \in Admins : p # q => work'[p] = work[p]
  <1>1. PICK w : w = work[q]
    OBVIOUS
  <1>2. PICK r : r = [w EXCEPT !.at = step]
    OBVIOUS
  <1>3. r = [at |-> step, op |-> w.op, n |-> w.n, dom |-> w.dom, id |-> w.id,
             local |-> w.local, row |-> w.row, have |-> w.have, there |-> w.there,
             blind |-> w.blind]
    BY <1>1, <1>2, FieldsOf
  <1>4. /\ r.at = step /\ r.dom = w.dom /\ r.local = w.local /\ r.have = w.have
        /\ r.there = w.there /\ r.blind = w.blind
    BY <1>3
  <1>5. work'[q] = r /\ \A p \in Admins : p # q => work'[p] = work[p]
    BY <1>1, <1>2, AssignOne DEF Turn, DirInv, RequestsOK
  <1> QED
    BY <1>1, <1>4, <1>5

LEMMA ListNamesLists ==
  ASSUME DirInv, ListsOK, NEW q \in Admins, ListNames(q)
  PROVE  ListsOK'
  <1>1. work[q].at = "check" /\ UNCHANGED <<dom, boxes>> /\ Steady
    BY RowsStay DEF ListNames
  <1>2. CASE Close(q)
    BY <1>1, <1>2, ListsClosed
  <1>3. CASE Turn(q, "alias") /\ ~(dom.id = work[q].dom /\ Bearing(work[q].local) # {})
    <2>1. /\ work'[q].at = "alias" /\ work'[q].local = work[q].local
          /\ work'[q].there = work[q].there
          /\ \A p \in Admins : p # q => work'[p] = work[p]
      BY <1>3, TurnFields
    <2>2. Lists(work[q])
      BY DEF ListsOK
    <2>3. \A i \in work[q].there \cap Ids : boxes[i].local # work[q].local
      BY <1>1, <1>3, <2>2 DEF Lists, Bearing
    <2>4. Lists(work[q])'
      BY <1>1, <2>1, <2>3 DEF Lists, Ids
    <2> QED
      BY <1>1, <2>1, <2>4, ListsKept
  <1> QED
    BY <1>2, <1>3 DEF ListNames

\* A restore at "read", or later, keeps its list or adds to it.
LEMMA LongerList ==
  ASSUME DirInv, ListsOK, Steady, NEW q \in Admins, work[q].at \in {"read", "write"},
         work'[q].at \in {"write", "aliases"}, work'[q].there = work[q].there,
         work'[q].blind = work[q].blind, work[q].have \subseteq work'[q].have,
         \A p \in Admins : p # q => work'[p] = work[p]
  PROVE  ListsOK'
  <1>1. PICK w, r : w = work[q] /\ r = work'[q]
    OBVIOUS
  <1>2. Lists(w) /\ w.there \subseteq Issued
    BY <1>1 DEF ListsOK, DirInv, RequestsOK, Holds, Issued
  <1>3. \A i \in w.there \cap Ids' : i \in w.there \cap Ids
    BY <1>2 DEF Steady
  <1>4. r.at \in {"write", "aliases"} /\ r.there = w.there /\ r.blind = w.blind
        /\ w.have \subseteq r.have /\ w.at \in {"read", "write"}
    BY <1>1
  <1>5. ~r.blind => \A i \in r.there \cap Ids' : \E x \in r.have : x.id = i
    BY <1>2, <1>3, <1>4 DEF Lists
  <1>6. Lists(work[q])'
    BY <1>1, <1>4, <1>5 DEF Lists
  <1> QED
    BY <1>6, ListsKept

LEMMA AliasesTurned ==
  ASSUME DirInv, ListsOK, Steady, NEW q \in Admins, work[q].at \in {"read", "write"},
         Turn(q, "aliases")
  PROVE  ListsOK'
  BY TurnFields, LongerList

LEMMA RestoreDomainLists ==
  ASSUME DirInv, ListsOK, NEW q \in Admins, RestoreDomain(q)
  PROVE  ListsOK'
  <1>1. work[q].at = "restore" /\ boxes' = boxes /\ work[q].dom = work[q].row.id
    BY DEF RestoreDomain, DirInv, RequestsOK, Holds, DomainSteps
  <1>2. \/ /\ \E row : WriteDomain(q, row) /\ work[q].row.id # 0
           /\ Turn(q, "list")
        \/ dom' = dom /\ Close(q)
        \/ dom.id = 0 /\ work' = [work EXCEPT ![q].at = "list", ![q].dom = dom'.id]
    BY DEF RestoreDomain
  <1>3. CASE Turn(q, "list") /\ \E row : WriteDomain(q, row) /\ work[q].row.id # 0
    <2>1. dom'.id = dom.id /\ Steady
      BY <1>1, <1>3, DomainStays, RowsStay
    <2>2. /\ work'[q].at = "list" /\ work'[q].dom = work[q].dom
          /\ work'[q].there = work[q].there
          /\ \A p \in Admins : p # q => work'[p] = work[p]
      BY <1>3, TurnFields
    <2>3. Lists(work[q]) /\ work[q].dom # 0
      BY <1>1, <1>3 DEF ListsOK
    <2>4. Lists(work[q])'
      BY <1>1, <2>1, <2>2, <2>3 DEF Lists, Ids
    <2> QED
      BY <2>1, <2>2, <2>4, ListsKept
  <1>4. CASE dom' = dom /\ Close(q)
    BY <1>1, <1>4, RowsStay, ListsClosed
  <1>5. CASE dom.id = 0 /\ work' = [work EXCEPT ![q].at = "list", ![q].dom = dom'.id]
    <2>1. Ids = {} /\ Ids' = {}
      BY <1>1, <1>5 DEF DirInv, TablesOK, Ids
    <2>2. Steady
      BY <2>1 DEF Steady
    <2>8. PICK w : w = work[q] /\ w = [at |-> w.at, op |-> w.op, n |-> w.n, dom |-> w.dom,
                      id |-> w.id, local |-> w.local, row |-> w.row, have |-> w.have,
                      there |-> w.there, blind |-> w.blind]
      BY FieldsOf
    <2>9. PICK id, r : id = dom'.id /\ r = [[w EXCEPT !.dom = id] EXCEPT !.at = "list"]
      OBVIOUS
    <2>3. work' = [work EXCEPT ![q] = r]
      BY <1>5, <2>8, <2>9 DEF DirInv, RequestsOK
    <2>4. work'[q] = r /\ \A p \in Admins : p # q => work'[p] = work[p]
      BY <2>3, AssignOne DEF DirInv, RequestsOK
    <2>5. r = [at |-> "list", op |-> w.op, n |-> w.n, dom |-> id, id |-> w.id,
               local |-> w.local, row |-> w.row, have |-> w.have, there |-> w.there,
               blind |-> w.blind]
      BY <2>8, <2>9
    <2>6. r.at = "list" /\ r.dom = dom'.id
      BY <2>5, <2>9
    <2>7. Lists(work[q])'
      BY <2>4, <2>6 DEF Lists
    <2> QED
      BY <2>2, <2>4, <2>7, ListsKept
  <1> QED
    BY <1>2, <1>3, <1>4, <1>5

LEMMA ListBoxesLists ==
  ASSUME DirInv, ListsOK, NEW q \in Admins, ListBoxes(q)
  PROVE  ListsOK'
  <1>1. PICK have : have = IF dom.id = work[q].dom THEN Roll ELSE {}
    OBVIOUS
  <1>10. PICK w : w = work[q] /\ w = [at |-> w.at, op |-> w.op, n |-> w.n, dom |-> w.dom,
                      id |-> w.id, local |-> w.local, row |-> w.row, have |-> w.have,
                      there |-> w.there, blind |-> w.blind]
    BY FieldsOf
  <1>2. PICK r : r = [[w EXCEPT !.have = have] EXCEPT !.at = "read"]
    OBVIOUS
  <1>3. /\ w.at = "list" /\ UNCHANGED <<dom, boxes>> /\ Steady
        /\ work' = [work EXCEPT ![q] = r]
    BY <1>1, <1>2, <1>10, RowsStay DEF ListBoxes, DirInv, RequestsOK
  <1>4. r = [at |-> "read", op |-> w.op, n |-> w.n, dom |-> w.dom, id |-> w.id,
             local |-> w.local, row |-> w.row, have |-> have, there |-> w.there,
             blind |-> w.blind]
    BY <1>2, <1>10
  <1>5. r.at = "read" /\ r.have = have /\ r.there = w.there
    BY <1>4
  <1>6. work'[q] = r /\ \A p \in Admins : p # q => work'[p] = work[p]
    BY <1>3, AssignOne DEF DirInv, RequestsOK
  <1>7. Lists(w) /\ \A i \in Ids : \E x \in Roll : x.id = i
    BY <1>10, RollIsTrue DEF ListsOK, DirInv
  <1>8. \A i \in w.there \cap Ids : \E x \in have : x.id = i
    BY <1>1, <1>3, <1>7, <1>10 DEF Lists
  <1>9. Lists(work[q])'
    BY <1>3, <1>5, <1>6, <1>8 DEF Lists, Ids
  <1> QED
    BY <1>3, <1>6, <1>9, ListsKept

LEMMA RestoreNewLists ==
  ASSUME DirInv, DirInv', ListsOK, NEW q \in Admins, RestoreNew(q)
  PROVE  ListsOK'
  <1>1. work[q].at = "read" /\ UNCHANGED <<dom, stale>> /\ work[q].dom # 0
    BY RestoreHolds DEF RestoreNew
  <1>2. CASE Close(q) /\ boxes' = boxes
    BY <1>1, <1>2, RowsStay, ListsClosed
  <1>3. CASE Turn(q, "aliases") /\ boxes' = boxes
    BY <1>1, <1>3, RowsStay, AliasesTurned
  <1>4. CASE /\ dom.id = work[q].dom /\ Bearing(Backup.box) = {}
             /\ AddMailbox(Backup.box, FALSE, work[q].n)
             /\ work' = [work EXCEPT ![q].at = "aliases", ![q].have = @ \cup
                           {[id |-> i, local |-> Backup.box] : i \in DOMAIN boxes' \ Ids}]
    <2>1. Backup.box \in Locals /\ work[q].n \in 0..MaxTasks
      BY DirectoryAssumption DEF DirInv, RequestsOK, Holds, WorkRow
    <2>2. Steady
      BY <1>1, <1>4, <2>1, AddedSteady
    <2>3. PICK w : w = work[q] /\ w = [at |-> w.at, op |-> w.op, n |-> w.n, dom |-> w.dom,
                      id |-> w.id, local |-> w.local, row |-> w.row, have |-> w.have,
                      there |-> w.there, blind |-> w.blind]
      BY FieldsOf
    <2>8. PICK new : new = {[id |-> i, local |-> Backup.box] : i \in DOMAIN boxes' \ Ids}
      OBVIOUS
    <2>4. PICK r : r = [[w EXCEPT !.have = @ \cup new] EXCEPT !.at = "aliases"]
      OBVIOUS
    <2>5. r = [at |-> "aliases", op |-> w.op, n |-> w.n, dom |-> w.dom, id |-> w.id,
               local |-> w.local, row |-> w.row, have |-> w.have \cup new,
               there |-> w.there, blind |-> w.blind]
      BY <2>3, <2>4
    <2>6. r.at = "aliases" /\ w.have \subseteq r.have /\ r.there = w.there /\ r.blind = w.blind
      BY <2>5
    <2>9. work' = [work EXCEPT ![q] = r]
      BY <1>4, <2>3, <2>4, <2>8 DEF DirInv, RequestsOK
    <2>7. work'[q] = r /\ \A p \in Admins : p # q => work'[p] = work[p]
      BY <2>9, AssignOne DEF DirInv, RequestsOK
    <2> QED
      BY <1>1, <2>2, <2>3, <2>6, <2>7, LongerList
  <1> QED
    BY <1>1, <1>2, <1>3, <1>4 DEF RestoreNew

LEMMA RestoreReadLists ==
  ASSUME DirInv, ListsOK, NEW q \in Admins, RestoreRead(q)
  PROVE  ListsOK'
  <1>1. work[q].at = "read" /\ Steady
    BY RowsStay DEF RestoreRead
  <1>2. CASE Turn(q, "aliases")
    BY <1>1, <1>2, AliasesTurned
  <1>3. CASE \E i : work' = [work EXCEPT ![q].at = "write", ![q].id = i, ![q].row = boxes[i]]
    <2>1. PICK i, row : work' = [work EXCEPT ![q].at = "write", ![q].id = i, ![q].row = row]
      BY <1>3
    <2>6. PICK w : w = work[q] /\ w = [at |-> w.at, op |-> w.op, n |-> w.n, dom |-> w.dom,
                      id |-> w.id, local |-> w.local, row |-> w.row, have |-> w.have,
                      there |-> w.there, blind |-> w.blind]
      BY FieldsOf
    <2>2. PICK r : r = [[[w EXCEPT !.at = "write"] EXCEPT !.id = i] EXCEPT !.row = row]
      OBVIOUS
    <2>3. r = [at |-> "write", op |-> w.op, n |-> w.n, dom |-> w.dom, id |-> i,
               local |-> w.local, row |-> row, have |-> w.have, there |-> w.there,
               blind |-> w.blind]
      BY <2>2, <2>6
    <2>4. r.at = "write" /\ w.have \subseteq r.have /\ r.there = w.there /\ r.blind = w.blind
      BY <2>3
    <2>5. work'[q] = r /\ \A p \in Admins : p # q => work'[p] = work[p]
      BY <2>1, <2>2, <2>6, AssignOne DEF DirInv, RequestsOK
    <2> QED
      BY <1>1, <2>4, <2>5, <2>6, LongerList
  <1> QED
    BY <1>2, <1>3 DEF RestoreRead

LEMMA RestoreOldLists ==
  ASSUME DirInv, ListsOK, NEW q \in Admins, RestoreOld(q)
  PROVE  ListsOK'
  <1>1. /\ work[q].at = "write" /\ WriteMailbox(q, work[q].id, work[q].row)
        /\ Turn(q, "aliases") /\ dom' = dom
    BY DEF RestoreOld
  <1>2. Steady
    BY <1>1, MailboxSteady
  <1> QED
    BY <1>1, <1>2, AliasesTurned

LEMMA RestoreGoesOnLists ==
  ASSUME DirInv, ListsOK, NEW q \in Admins, RestoreGoesOn(q)
  PROVE  ListsOK'
  <1>1. Steady
    BY RowsStay DEF RestoreGoesOn
  <1>2. CASE work[q].at \in {"read", "write"} /\ Turn(q, "aliases")
    BY <1>1, <1>2, AliasesTurned
  <1>3. CASE /\ work[q].at = "restore"
             /\ work' = [work EXCEPT ![q].row = NoDomain, ![q].dom = 0]
    <2>6. PICK w : w = work[q] /\ w = [at |-> w.at, op |-> w.op, n |-> w.n, dom |-> w.dom,
                      id |-> w.id, local |-> w.local, row |-> w.row, have |-> w.have,
                      there |-> w.there, blind |-> w.blind]
      BY FieldsOf
    <2>1. PICK none, r : none = NoDomain /\ r = [[w EXCEPT !.row = none] EXCEPT !.dom = 0]
      OBVIOUS
    <2>2. r = [at |-> "restore", op |-> w.op, n |-> w.n, dom |-> 0, id |-> w.id,
               local |-> w.local, row |-> none, have |-> w.have, there |-> w.there,
               blind |-> w.blind]
      BY <1>3, <2>1, <2>6
    <2>3. r.at = "restore" /\ r.dom = 0
      BY <2>2
    <2>4. work'[q] = r /\ \A p \in Admins : p # q => work'[p] = work[p]
      BY <1>3, <2>1, <2>6, AssignOne DEF DirInv, RequestsOK
    <2>5. Lists(work[q])'
      BY <2>3, <2>4 DEF Lists
    <2> QED
      BY <1>1, <2>4, <2>5, ListsKept
  <1>4. CASE work' = [work EXCEPT ![q].at = "read", ![q].blind = TRUE]
    <2>6. PICK w : w = work[q] /\ w = [at |-> w.at, op |-> w.op, n |-> w.n, dom |-> w.dom,
                      id |-> w.id, local |-> w.local, row |-> w.row, have |-> w.have,
                      there |-> w.there, blind |-> w.blind]
      BY FieldsOf
    <2>1. PICK r : r = [[w EXCEPT !.at = "read"] EXCEPT !.blind = TRUE]
      OBVIOUS
    <2>2. r = [at |-> "read", op |-> w.op, n |-> w.n, dom |-> w.dom, id |-> w.id,
               local |-> w.local, row |-> w.row, have |-> w.have, there |-> w.there,
               blind |-> TRUE]
      BY <2>1, <2>6
    <2>3. r.at = "read" /\ r.blind
      BY <2>2
    <2>4. work'[q] = r /\ \A p \in Admins : p # q => work'[p] = work[p]
      BY <1>4, <2>1, <2>6, AssignOne DEF DirInv, RequestsOK
    <2>5. Lists(work[q])'
      BY <2>3, <2>4 DEF Lists
    <2> QED
      BY <1>1, <2>4, <2>5, ListsKept
  <1> QED
    BY <1>2, <1>3, <1>4 DEF RestoreGoesOn

LEMMA NextLists == DirInv /\ DirInv' /\ ListsOK /\ DirectoryNext => ListsOK'
  <1> SUFFICES ASSUME DirInv, DirInv', ListsOK, DirectoryNext PROVE ListsOK'
    OBVIOUS
  <1>1. CASE \/ \E l \in Locals : Resolve(l)
             \/ Enqueue
             \/ \E j \in jobs : StartAppend(j)
             \/ CountAppend \/ InsertMessage
    <2>1. UNCHANGED <<dom, boxes, work>>
      BY <1>1 DEF Resolve, Enqueue, StartAppend, CountAppend, InsertMessage
    <2> QED
      BY <2>1, MailLists
  <1>2. ASSUME NEW q \in Admins,
               \/ \E op \in {"dkim", "domain"} : ReadDomain(q, op)
               \/ GenDKIM(q) \/ UpdateDomain(q) \/ CreateDomain(q)
               \/ ReadMailbox(q) \/ UpdateMailbox(q) \/ CreateMailbox(q)
               \/ CheckAlias(q) \/ ListNames(q) \/ CreateAlias(q) \/ DeleteAlias(q)
        PROVE  ListsOK'
    <2>1. CASE CreateAlias(q)
      BY <2>1, RowsStay, ListsClosed DEF CreateAlias
    <2>2. CASE DeleteAlias(q)
      BY <2>2, MailLists DEF DeleteAlias, AtOnce
    <2> QED
      BY <1>2, <2>1, <2>2, StartLists, DomainLists, UpdateMailboxLists, CreateMailboxLists,
         ListNamesLists
  <1>3. ASSUME NEW q \in Admins,
               \/ StartDelete(q) \/ DropMailbox(q)
               \/ \E i \in Numbers : ForgetUids(q, i)
               \/ ForgetJobs(q) \/ ClearCatchAll(q)
               \/ StartDeleteDomain(q) \/ DropDomain(q)
        PROVE  ListsOK'
    BY <1>3, StartLists, DeletionLists
  <1>4. ASSUME NEW q \in Admins, ReadBackup(q) \/ Restoring(q) \/ BreakDown(q)
        PROVE  ListsOK'
    <2>1. CASE BreakDown(q)
      BY <2>1, RowsStay, ListsClosed DEF BreakDown
    <2>2. CASE RestoreAlias(q)
      BY <2>2, RowsStay, ListsClosed DEF RestoreAlias
    <2> QED
      BY <1>4, <2>1, <2>2, StartLists, RestoreDomainLists, ListBoxesLists, RestoreNewLists,
         RestoreReadLists, RestoreOldLists, RestoreGoesOnLists DEF Restoring
  <1> QED
    BY <1>1, <1>2, <1>3, <1>4 DEF DirectoryNext

\* CreateAlias and RestoreAlias, the only steps that add an alias, do not give
\* it the name of a mailbox that was there when the request began.
LEMMA NoneTakesOver ==
  ASSUME DirInv, ListsOK, NEW q \in Admins, CreateAlias(q) \/ RestoreAlias(q),
         ~work[q].blind, NEW a \in aliases' \ aliases
  PROVE  Bearing(a.local) \cap work[q].there = {}
  <1>1. PICK w : w = work[q] /\ Lists(w) /\ Holds(w, said.box)
    BY DEF ListsOK, DirInv, RequestsOK
  <1>2. CASE CreateAlias(q)
    <2>1. w.at = "alias" /\ a.local = w.local
      BY <1>1, <1>2 DEF CreateAlias, AddAlias
    <2> QED
      BY <1>1, <2>1 DEF Lists, Bearing
  <1>3. CASE RestoreAlias(q)
    <2>1. w.at = "aliases" /\ a.local = Backup.alias /\ Known(q, Backup.alias) = {}
      BY <1>1, <1>3 DEF RestoreAlias, AddAlias
    <2> SUFFICES ASSUME NEW i \in Bearing(a.local) \cap w.there PROVE FALSE
      BY <1>1
    <2>2. i \in Ids /\ boxes[i].local = Backup.alias /\ boxes[i].local = said.box[i].local
      BY <2>1 DEF Bearing, DirInv, TablesOK
    <2>3. PICK x \in w.have : x.id = i
      BY <1>1, <2>1, <2>2 DEF Lists
    <2>4. x.local = Backup.alias
      BY <1>1, <2>2, <2>3 DEF Holds
    <2> QED
      BY <1>1, <2>1, <2>4 DEF Known
  <1> QED
    BY <1>2, <1>3

\* Whoever makes an alias, none comes to bear the name of a mailbox that was
\* there when the request for it began, and still is, unless the request has
\* failed to list the mailboxes.
THEOREM AliasesNeverTakeOver == DirectorySpec => AliasNeverTakesOver
  <1> DEFINE Kept == \A q \in Admins, a \in aliases' \ aliases :
                       work'[q] # work[q] /\ ~work[q].blind =>
                         Bearing(a.local) \cap work[q].there = {}
  <1>1. DirectoryInit => ListsOK
    <2>1. Free.at = "idle"
      BY DEF Free
    <2> QED
      BY <2>1 DEF DirectoryInit, ListsOK, Lists
  <1>2. ListsOK /\ DirInv /\ DirInv' /\ [DirectoryNext]_dirVars => ListsOK'
    <2>1. DirInv /\ ListsOK /\ UNCHANGED dirVars => ListsOK'
      BY MailLists DEF dirVars
    <2> QED
      BY <2>1, NextLists
  <1>3. ListsOK /\ DirInv /\ DirInv' /\ [DirectoryNext]_dirVars => [Kept]_dirVars
    <2> SUFFICES ASSUME ListsOK, DirInv, DirectoryNext,
                        NEW q \in Admins, NEW a \in aliases' \ aliases,
                        work'[q] # work[q], ~work[q].blind
                 PROVE  Bearing(a.local) \cap work[q].there = {}
      OBVIOUS
    <2>1. PICK p \in Admins : CreateAlias(p) \/ RestoreAlias(p)
      BY DEF DirectoryNext, Resolve, Enqueue, StartAppend, CountAppend, InsertMessage,
             ReadDomain, GenDKIM, UpdateDomain, CreateDomain, ReadMailbox, UpdateMailbox,
             CreateMailbox, CheckAlias, ListNames, DeleteAlias, StartDelete, DropMailbox,
             ForgetUids, ForgetJobs, ClearCatchAll, StartDeleteDomain, DropDomain,
             ReadBackup, Restoring, RestoreDomain, ListBoxes, RestoreNew, RestoreRead,
             RestoreOld, RestoreGoesOn, BreakDown
    <2>2. \A k \in Admins : k # p => work'[k] = work[k]
      BY <2>1, AssignOne DEF CreateAlias, RestoreAlias, Close, Assign, DirInv, RequestsOK
    <2> QED
      BY <2>1, <2>2, NoneTakesOver
  <1>4. DirectorySpec => []ListsOK
    BY <1>1, <1>2, DirectoryInvariant, PTL DEF DirectorySpec
  <1> QED
    BY <1>3, <1>4, DirectoryInvariant, PTL DEF DirectorySpec, AliasNeverTakesOver

=============================================================================
