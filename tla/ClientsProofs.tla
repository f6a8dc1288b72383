--------------------------- MODULE ClientsProofs ---------------------------
(***************************************************************************)
(* Proofs about the webmail and about composing, for any number of tabs,   *)
(* requests, messages and policies: no message vanishes, Undo takes back   *)
(* what was trashed, lists are complete, what is sent is answered truly    *)
(* and dressed once.  What each of these excepts is said at the theorem.   *)
(***************************************************************************)
EXTENDS MCClients, DirectoryProofs, FiniteSetTheorems

-----------------------------------------------------------------------------
(* The inductive invariant of Webmail.                                     *)

WebmailOps == {"none", "trash", "move", "flags", "draft", "open", "more"}
MailRows == [folder : Folders, uid : Nat \ {0}, msg : 1..rowsEver, deleted : BOOLEAN]
Tasks == [op : WebmailOps, at : Steps, from : Folders, dest : Folders,
          uid : Nat, msg : Nat, copied : BOOLEAN]
TabLists == [folder : Folders \cup {"none"}, uids : SUBSET Nat, offset : Nat, more : BOOLEAN]
Marks == [id : Nat, msg : Nat]

RowsOK ==
  /\ mail \subseteq MailRows
  /\ IsFiniteSet(mail)
  /\ nextUid \in [Folders -> Nat \ {0}]
  /\ \A x \in mail : x.uid < nextUid[x.folder]
  /\ \A x, y \in mail : x.folder = y.folder /\ x.uid = y.uid => x = y
  /\ rowsEver \in 1..MaxRows

NotesOK ==
  /\ stored \cup doomed \cup skipped \cup guessed \subseteq 1..rowsEver
  /\ unsure \cup shifted \subseteq Requests
  /\ breaks \in 0..MaxBreaks /\ requests \in 0..MaxRequests

\* What request t may be at.
TaskOK(t) ==
  /\ t \in Tasks
  /\ t.at \in {"page", "fetch"} <=> t.op \in {"open", "more"}
  /\ t.at = "fetch" => t.msg < t.uid
  /\ t.at = "copy" => t.op \in {"trash", "move"} /\ ~t.copied
  /\ t.at = "locate" => t.op = "trash" /\ t.from # t.dest
  /\ t.op = "trash" => t.at \in {"copy", "flag", "expunge", "locate"}
  /\ t.at = "copy" /\ t.op = "trash" => t.from # t.dest
  /\ t.op = "trash" /\ t.from # t.dest => t.dest = "Trash"
  /\ t.at \in {"append", "status"} => t.op = "draft"
  /\ t.op = "draft" => t.from = "Drafts" /\ t.dest = "Drafts"

\* A tab with request t, draft d, offer to undo u, list l, and h of that list.
TabOK(t, d, u, l, h) ==
  /\ TaskOK(t) /\ d \in Marks /\ u \in Marks /\ l \in TabLists /\ h \subseteq Nat
  /\ l.more => l.folder \in Folders
  /\ t.op = "open" => l.folder = t.from /\ l.offset = 0 /\ t.msg = 0
  /\ t.op = "more" => l.folder = t.from

TabsOK ==
  /\ task \in [Requests -> Tasks]
  /\ draft \in [Requests -> Marks] /\ undo \in [Requests -> Marks]
  /\ loaded \in [Requests -> TabLists] /\ had \in [Requests -> SUBSET Nat]
  /\ \A q \in Requests : TabOK(task[q], draft[q], undo[q], loaded[q], had[q])

\* Under the id of a draft is the draft, or a message whose UID was guessed;
\* under the UID that a draft will be thought to have, only the latter.
DraftOK(t, d) ==
  /\ d.id < nextUid["Drafts"] /\ d.msg <= rowsEver /\ (d.id # 0 => d.msg # 0)
  /\ \A x \in mail : x.folder = "Drafts" /\ x.uid = d.id => x.msg = d.msg \/ x.msg \in guessed
  /\ t.at = "append" => t.uid <= nextUid["Drafts"] /\ t.uid # 0
  /\ t.at = "append" => \A x \in mail : x.folder = "Drafts" /\ x.uid = t.uid => x.msg \in guessed

\* No request aims at a row that is still to come.
TargetOK(t) == t.at \in {"copy", "flag", "mark"} => t.uid < nextUid[t.from]

\* Request t is about to flag row x.
Aims(t, x) ==
  t.at \in {"flag", "mark"} /\ t.from = x.folder /\ t.uid = x.uid /\ ~Uncopied(t)

\* Of each message that is not excepted there is a row that is not flagged and
\* that nobody is about to flag: moving copies before it flags.
Safe ==
  \A m \in stored \ (doomed \cup skipped \cup guessed) :
    \E x \in mail : x.msg = m /\ ~x.deleted /\ \A q \in Requests : ~Aims(task[q], x)

\* What t will copy to the Trash is the message it is about, and once it has,
\* the copy is the newest message there.
WayOK(t) ==
  t.op = "trash" /\ t.at = "copy" =>
    \A x \in mail : x.folder = t.from /\ x.uid = t.uid => x.msg = t.msg

Seeks(t) == t.op = "trash" /\ t.from # t.dest /\ t.at \in {"flag", "expunge", "locate"}

CopyThere(t) ==
  Seeks(t) => \E x \in mail : x.folder = "Trash" /\ x.uid = nextUid["Trash"] - 1 /\ x.msg = t.msg

UndoOK(u) ==
  /\ u.id < nextUid["Trash"]
  /\ \A x \in mail : x.folder = "Trash" /\ x.uid = u.id => x.msg = u.msg

\* The UIDs of a folder, and those of them up to u.
Uids(f) == {x.uid : x \in In(f)}
Below(s, u) == {v \in s : v <= u}
UpTo(f, u) == Below(Uids(f), u)

\* A list has what it should have of the newest messages, as many of them as
\* its offset says; and of those up to the count that SELECT gave.
Held(l, h) ==
  /\ h \subseteq Uids(l.folder)
  /\ \A u \in h : Cardinality(UpTo(l.folder, u)) + l.offset > Cardinality(Uids(l.folder))
                    => u \in l.uids

Counted(t, l, h) ==
  /\ t.uid <= Cardinality(Uids(l.folder))
  /\ \A u \in h : Cardinality(UpTo(l.folder, u)) + t.msg > t.uid => u \in l.uids

ListOK(t, l, h) ==
  /\ Held(l, h)
  /\ t.op = "more" => l.more /\ t.msg = l.offset
  /\ IF t.at = "fetch" THEN Counted(t, l, h) ELSE l.more \/ h \subseteq l.uids

TabInv(q) ==
  /\ DraftOK(task[q], draft[q])
  /\ TargetOK(task[q])
  /\ WayOK(task[q])
  /\ q \in unsure \/ (CopyThere(task[q]) /\ UndoOK(undo[q]))
  /\ q \in shifted \/ ListOK(task[q], loaded[q], had[q])

WebmailInv == RowsOK /\ NotesOK /\ TabsOK /\ Safe /\ \A q \in Requests : TabInv(q)
-----------------------------------------------------------------------------
(* The rows of the mailbox.                                                *)

LEMMA FoldersKnown == /\ {"INBOX", "Drafts", "Trash"} \subseteq Folders
                      /\ Names \subseteq Folders
                      /\ \A n \in Names : Canonical(n) \in Folders
                      /\ \A n \in Names : Canonical(n) = "Trash" <=> n = "Trash"
  BY WebmailAssumption DEF Folders, Canonical

LEMMA WebmailBounds ==
  /\ ListLimit \in Nat \ {0} /\ PageSize \in Nat \ {0}
  /\ MaxRows \in Nat \ {0} /\ MaxRequests \in Nat /\ MaxBreaks \in Nat
  BY WebmailAssumption

\* A row that is inserted is the newest of its folder.
LEMMA InsertRows ==
  ASSUME RowsOK, NEW f \in Folders, NEW msg \in 1..(rowsEver + 1), NEW del \in BOOLEAN,
         Insert(f, msg, del)
  PROVE  /\ RowsOK'
         /\ rowsEver' = rowsEver + 1
         /\ \A g \in Folders : nextUid'[g] = IF g = f THEN nextUid[g] + 1 ELSE nextUid[g]
         /\ mail \subseteq mail'
         /\ \E y \in mail' : /\ y.folder = f /\ y.uid = nextUid[f] /\ y.msg = msg
                             /\ y.deleted = del /\ mail' = mail \cup {y}
  <1>1. PICK y : y = [folder |-> f, uid |-> nextUid[f], msg |-> msg, deleted |-> del]
    OBVIOUS
  <1>2. /\ y.folder = f /\ y.uid = nextUid[f] /\ y.msg = msg /\ y.deleted = del
        /\ mail' = mail \cup {y} /\ rowsEver < MaxRows /\ rowsEver' = rowsEver + 1
        /\ nextUid' = [nextUid EXCEPT ![f] = @ + 1]
    BY <1>1 DEF Insert
  <1>3. rowsEver \in 1..MaxRows /\ MaxRows \in Nat /\ nextUid \in [Folders -> Nat \ {0}]
    BY WebmailBounds DEF RowsOK
  <1>4. \A g \in Folders : nextUid'[g] = IF g = f THEN nextUid[g] + 1 ELSE nextUid[g]
    BY <1>2, <1>3
  <1>5. mail' \subseteq MailRows'
    <2>1. \A x \in mail : x \in [folder : Folders, uid : Nat \ {0}, msg : 1..(rowsEver + 1),
                                 deleted : BOOLEAN]
      BY <1>3 DEF RowsOK, MailRows
    <2>2. y \in [folder : Folders, uid : Nat \ {0}, msg : 1..(rowsEver + 1), deleted : BOOLEAN]
      BY <1>1, <1>3
    <2> QED
      BY <1>2, <2>1, <2>2 DEF MailRows
  <1>6. IsFiniteSet(mail')
    BY <1>2, FS_AddElement DEF RowsOK
  <1>7. nextUid' \in [Folders -> Nat \ {0}] /\ rowsEver' \in 1..MaxRows
    BY <1>2, <1>3
  <1>8. \A x \in mail : x.folder \in Folders /\ x.uid \in Nat /\ x.uid < nextUid[x.folder]
    BY DEF RowsOK, MailRows
  <1>9. \A x \in mail' : x.uid < nextUid'[x.folder]
    BY <1>2, <1>3, <1>4, <1>8
  <1>10. \A x, z \in mail' : x.folder = z.folder /\ x.uid = z.uid => x = z
    BY <1>2, <1>3, <1>8 DEF RowsOK
  <1> QED
    BY <1>2, <1>4, <1>5, <1>6, <1>7, <1>9, <1>10 DEF RowsOK

\* What STORE does to the rows: it changes flags.
Reflagged(hit, flag) == (mail \ hit) \cup {[x EXCEPT !.deleted = flag] : x \in hit}

LEMMA ReflaggedRow ==
  ASSUME RowsOK, NEW x \in mail, NEW flag \in BOOLEAN,
         NEW y, y = [x EXCEPT !.deleted = flag]
  PROVE  /\ y \in MailRows
         /\ y.folder = x.folder /\ y.uid = x.uid /\ y.msg = x.msg /\ y.deleted = flag
  <1>1. x \in MailRows
    BY DEF RowsOK
  <1> QED
    BY <1>1 DEF MailRows

LEMMA StoreRows ==
  ASSUME RowsOK, NEW hit \in SUBSET mail, NEW flag \in BOOLEAN,
         mail' = Reflagged(hit, flag), nextUid' = nextUid, rowsEver' = rowsEver
  PROVE  /\ RowsOK'
         /\ \A x \in mail' : \E y \in mail : /\ y.folder = x.folder /\ y.uid = x.uid /\ y.msg = x.msg
                                             /\ y \in hit \/ y = x
         /\ \A y \in mail : \E x \in mail' : /\ y.folder = x.folder /\ y.uid = x.uid /\ y.msg = x.msg
                                             /\ IF y \in hit THEN x.deleted = flag ELSE y = x
  <1> DEFINE set(x) == [x EXCEPT !.deleted = flag]
  <1>1. \A x \in mail : /\ set(x) \in MailRows /\ set(x).folder = x.folder
                        /\ set(x).uid = x.uid /\ set(x).msg = x.msg /\ set(x).deleted = flag
    BY ReflaggedRow
  <1> HIDE DEF set
  <1>2. mail' = (mail \ hit) \cup {set(x) : x \in hit}
    BY DEF Reflagged, set
  <1>3. IsFiniteSet({set(x) : x \in hit})
    <2>1. IsFiniteSet(hit)
      BY FS_Subset DEF RowsOK
    <2>2. [x \in hit |-> set(x)] \in Surjection(hit, {set(x) : x \in hit})
      BY DEF Surjection
    <2> QED
      BY <2>1, <2>2, FS_Surjection
  <1>4. IsFiniteSet(mail')
    <2>1. IsFiniteSet(mail \ hit)
      BY FS_Difference DEF RowsOK
    <2> QED
      BY <1>2, <1>3, <2>1, FS_Union
  <1>5. \A x \in mail' : \E y \in mail : /\ y.folder = x.folder /\ y.uid = x.uid /\ y.msg = x.msg
                                         /\ (y \in hit /\ x = set(y)) \/ (y \notin hit /\ y = x)
    BY <1>1, <1>2
  <1>6. \A y \in mail : \E x \in mail' : /\ y.folder = x.folder /\ y.uid = x.uid /\ y.msg = x.msg
                                         /\ IF y \in hit THEN x.deleted = flag ELSE y = x
    BY <1>1, <1>2
  <1>7. mail' \subseteq MailRows'
    BY <1>1, <1>2 DEF RowsOK, MailRows
  <1>8. \A x, z \in mail' : x.folder = z.folder /\ x.uid = z.uid => x = z
    BY <1>5 DEF RowsOK
  <1>9. \A x \in mail' : x.uid < nextUid'[x.folder]
    BY <1>5 DEF RowsOK
  <1> QED
    BY <1>4, <1>5, <1>6, <1>7, <1>8, <1>9 DEF RowsOK

LEMMA ExpungeRows ==
  ASSUME RowsOK, mail' \subseteq mail, nextUid' = nextUid, rowsEver' = rowsEver
  PROVE  RowsOK'
  <1>1. IsFiniteSet(mail')
    BY FS_Subset DEF RowsOK
  <1>2. mail' \subseteq MailRows'
    BY DEF RowsOK, MailRows
  <1> QED
    BY <1>1, <1>2 DEF RowsOK

LEMMA UidsAreNumbers ==
  ASSUME RowsOK, NEW f
  PROVE  Uids(f) \subseteq Nat
  BY DEF Uids, In, RowsOK, MailRows

LEMMA UidsFinite ==
  ASSUME RowsOK, NEW f
  PROVE  IsFiniteSet(Uids(f))
  <1>1. [x \in In(f) |-> x.uid] \in Surjection(In(f), Uids(f))
    BY DEF Surjection, Uids
  <1>2. IsFiniteSet(In(f))
    BY FS_Subset DEF In, RowsOK
  <1> QED
    BY <1>1, <1>2, FS_Surjection

LEMMA SameUids ==
  ASSUME mail' = mail, NEW f
  PROVE  Uids(f)' = Uids(f)
  BY DEF Uids, In

LEMMA CountedByUids ==
  ASSUME RowsOK, NEW f, NEW c \in SUBSET In(f), NEW u, u = {x.uid : x \in c}
  PROVE  /\ Cardinality(c) = Cardinality(u) /\ Cardinality(u) \in Nat
         /\ IsFiniteSet(c) /\ IsFiniteSet(u)
  <1>1. IsFiniteSet(c)
    BY FS_Subset DEF In, RowsOK
  <1>2. [x \in c |-> x.uid] \in Surjection(c, u)
    BY DEF Surjection
  <1>3. [x \in c |-> x.uid] \in Injection(c, u)
    <2>1. \A x, y \in c : x.uid = y.uid => x = y
      BY DEF In, RowsOK
    <2> QED
      BY <2>1 DEF Injection, IsInjective
  <1> QED
    BY <1>1, <1>2, <1>3, FS_Surjection, FS_CardinalityType

\* A finite set of numbers is numbered without gaps: as many of its members as
\* the interval from a to b has numbers have a number there.
Numbering(u, num) ==
  /\ u \in SUBSET Nat /\ IsFiniteSet(u) /\ num \in [u -> Nat]
  /\ \A v \in u : num[v] = Cardinality(Below(u, v))

Between(u, num, a, b, page) ==
  /\ a \in Nat \ {0} /\ b \in Nat /\ b <= Cardinality(u)
  /\ page \in SUBSET u /\ \A v \in u : v \in page <=> num[v] \in a..b

LEMMA NumberedWithoutGaps ==
  ASSUME NEW u, NEW num, NEW a, NEW b, NEW page,
         Numbering(u, num), Between(u, num, a, b, page)
  PROVE  /\ \A v \in u : num[v] \in 1..Cardinality(u)
         /\ Cardinality(page) = IF a > b THEN 0 ELSE b - a + 1
  <1> USE DEF Numbering, Between
  <1>1. PICK n \in Nat : n = Cardinality(u)
    BY FS_CardinalityType
  <1>2. ASSUME NEW v \in u
        PROVE  num[v] \in 1..n
    <2>1. PICK low : low = Below(u, v)
      OBVIOUS
    <2>2. low \subseteq u /\ v \in low
      BY <2>1 DEF Below
    <2>3. IsFiniteSet(low) /\ Cardinality(low) <= n
      BY <1>1, <2>2, FS_Subset
    <2>4. Cardinality(low) \in Nat /\ Cardinality(low) # 0
      BY <2>2, <2>3, FS_CardinalityType, FS_EmptySet
    <2> QED
      BY <1>1, <2>1, <2>3, <2>4
  <1>3. ASSUME NEW v \in u, NEW w \in u, v < w
        PROVE  num[v] # num[w]
    <2>1. PICK low, high : low = Below(u, v) /\ high = Below(u, w)
      OBVIOUS
    <2>2. low \subseteq high /\ w \in high /\ w \notin low /\ high \subseteq u
      <3>1. v \in Nat /\ w \in Nat /\ \A z \in u : z \in Nat
        OBVIOUS
      <3>2. \A z \in u : z <= v => z <= w
        BY <1>3, <3>1
      <3>3. w <= w /\ ~(w <= v)
        BY <1>3, <3>1
      <3> QED
        BY <2>1, <3>2, <3>3 DEF Below
    <2>3. IsFiniteSet(high)
      BY <2>2, FS_Subset
    <2>4. Cardinality(low) # Cardinality(high)
      BY <2>2, <2>3, FS_Subset
    <2>5. num[v] = Cardinality(low)
      BY <2>1
    <2>6. num[w] = Cardinality(high)
      BY <2>1
    <2> QED
      BY <2>4, <2>5, <2>6
  <1>4. num \in Injection(u, 1..n)
    <2>1. \A v, w \in u : num[v] = num[w] => v = w
      BY <1>3
    <2> QED
      BY <1>2, <2>1 DEF Injection, IsInjective
  <1>5. IsFiniteSet(1..n) /\ Cardinality(1..n) = n
    BY FS_Interval
  <1>6. num \in Surjection(u, 1..n)
    BY <1>1, <1>4, <1>5, FS_Injection
  <1>8. page \subseteq u /\ IsFiniteSet(page) /\ \A v \in page : num[v] \in a..b
    BY FS_Subset
  <1>9. [v \in page |-> num[v]] \in Surjection(page, a..b)
    <2>1. \A k \in a..b : \E v \in page : num[v] = k
      <3> SUFFICES ASSUME NEW k \in a..b PROVE \E v \in page : num[v] = k
        OBVIOUS
      <3>1. k \in 1..n
        BY <1>1
      <3>2. PICK v \in u : num[v] = k
        BY <1>6, <3>1 DEF Surjection
      <3> QED
        BY <3>2
    <2> QED
      BY <1>8, <2>1 DEF Surjection
  <1>10. [v \in page |-> num[v]] \in Injection(page, a..b)
    <2>1. \A v, w \in page : num[v] = num[w] => v = w
      BY <1>4, <1>8 DEF Injection, IsInjective
    <2> QED
      BY <1>8, <2>1 DEF Injection, IsInjective
  <1>11. Cardinality(page) = Cardinality(a..b)
    BY <1>8, <1>9, <1>10, FS_Surjection
  <1>12. Cardinality(a..b) = IF a > b THEN 0 ELSE b - a + 1
    BY FS_Interval
  <1> QED
    BY <1>1, <1>2, <1>11, <1>12

\* Without more messages than imapd looks at, it lists them all, and the page
\* from a to b has just the messages whose place among the UIDs is in there.
LEMMA AllListed ==
  ASSUME RowsOK, NEW f, Cardinality(In(f)) <= ListLimit
  PROVE  Listed(f) = In(f)
  <1>1. ASSUME NEW x \in In(f)
        PROVE  x \in Listed(f)
    <2>1. PICK newer : newer = {y \in In(f) : y.uid > x.uid}
      OBVIOUS
    <2>2. x.uid \in Nat
      BY DEF In, RowsOK, MailRows
    <2>3. newer \subseteq In(f) /\ x \notin newer
      BY <2>1, <2>2
    <2>4. IsFiniteSet(In(f)) /\ Cardinality(In(f)) \in Nat
      BY FS_Subset, FS_CardinalityType DEF In, RowsOK
    <2>5. IsFiniteSet(newer) /\ Cardinality(newer) <= Cardinality(In(f))
          /\ Cardinality(newer) # Cardinality(In(f))
      BY <2>3, <2>4, FS_Subset
    <2>6. Cardinality(newer) \in Nat
      BY <2>5, FS_CardinalityType
    <2>7. Cardinality(newer) < ListLimit
      BY <2>4, <2>5, <2>6, WebmailBounds
    <2> QED
      BY <2>1, <2>7 DEF Listed, Newest
  <1>2. Listed(f) \subseteq In(f)
    BY DEF Listed, Newest
  <1> QED
    BY <1>1, <1>2

Finds(f, a, b, page) ==
  /\ a \in Nat \ {0} /\ b \in Nat /\ b <= Cardinality(In(f)) /\ Cardinality(In(f)) <= ListLimit
  /\ page \in SUBSET Listed(f) /\ \A x \in Listed(f) : x \in page <=> Number(x) \in a..b

LEMMA PageFound ==
  ASSUME RowsOK, NEW f, NEW a, NEW b, NEW page, Finds(f, a, b, page),
         NEW found, found = {x.uid : x \in page}
  PROVE  /\ Cardinality(In(f)) = Cardinality(Uids(f)) /\ Cardinality(In(f)) \in Nat
         /\ Cardinality(page) = IF a > b THEN 0 ELSE b - a + 1
         /\ \A v \in Uids(f) : /\ Cardinality(UpTo(f, v)) \in 1..Cardinality(In(f))
                               /\ Cardinality(UpTo(f, v)) \in a..b => v \in found
  <1> USE DEF Finds
  <1>1. Listed(f) = In(f)
    BY AllListed
  <1>2. PICK u : u = Uids(f)
    OBVIOUS
  <1>3. /\ u \in SUBSET Nat /\ IsFiniteSet(u) /\ Cardinality(In(f)) = Cardinality(u)
        /\ Cardinality(u) \in Nat /\ u = {x.uid : x \in In(f)}
    BY <1>2, UidsAreNumbers, CountedByUids DEF Uids
  <1>4. PICK num : num = [v \in u |-> Cardinality(UpTo(f, v))]
    OBVIOUS
  <1>5. /\ \A v \in u : num[v] = Cardinality(UpTo(f, v)) /\ num[v] = Cardinality(Below(u, v))
        /\ num \in [u -> Nat]
    <2>1. \A v \in u : Below(u, v) \in SUBSET u
      BY DEF Below
    <2>2. \A v \in u : Cardinality(Below(u, v)) \in Nat
      BY <1>3, <2>1, FS_Subset, FS_CardinalityType
    <2> QED
      BY <1>2, <1>4, <2>2 DEF UpTo
  <1>6. ASSUME NEW x \in In(f)
        PROVE  Number(x) = num[x.uid] /\ x.uid \in u
    <2>1. PICK c : c = {y \in In(f) : y.uid <= x.uid}
      OBVIOUS
    <2>2. x.folder = f /\ x.uid \in u
      BY <1>3 DEF In
    <2>3. Number(x) = Cardinality(c)
      BY <1>1, <2>1, <2>2 DEF Number
    <2>4. UpTo(f, x.uid) = {y.uid : y \in c}
      BY <1>2, <1>3, <2>1 DEF UpTo, Below
    <2>5. Cardinality(c) = Cardinality(UpTo(f, x.uid))
      BY <2>1, <2>4, CountedByUids
    <2> QED
      BY <1>5, <2>2, <2>3, <2>5
  <1>7. found \in SUBSET u /\ \A v \in u : v \in found <=> num[v] \in a..b
    BY <1>1, <1>3, <1>6
  <1>8. page \in SUBSET In(f)
    BY <1>1
  <1>9. Cardinality(page) = Cardinality(found)
    BY <1>8, CountedByUids
  <1>10. b <= Cardinality(u)
    BY <1>3
  <1>11. /\ \A v \in u : num[v] \in 1..Cardinality(u)
         /\ Cardinality(found) = IF a > b THEN 0 ELSE b - a + 1
    <2>1. u \in SUBSET Nat /\ IsFiniteSet(u) /\ num \in [u -> Nat] /\ found \in SUBSET u
      BY <1>3, <1>5, <1>7
    <2>2. \A v \in u : num[v] = Cardinality(Below(u, v))
      BY <1>5
    <2>3. \A v \in u : v \in found <=> num[v] \in a..b
      BY <1>7
    <2> QED
      <3>1. Numbering(u, num)
        BY <2>1, <2>2 DEF Numbering
      <3>2. Between(u, num, a, b, found)
        BY <1>10, <2>1, <2>3 DEF Between
      <3> QED
        BY <3>1, <3>2, NumberedWithoutGaps
  <1> QED
    BY <1>2, <1>3, <1>5, <1>7, <1>9, <1>11

\* The newest message of a folder is listed, and has the largest UID.
LEMMA NewestFound ==
  ASSUME RowsOK, NEW f \in Folders, NEW x \in mail, x.folder = f, x.uid = nextUid[f] - 1,
         NEW s, s = {y.uid : y \in Listed(f)}
  PROVE  s # {} /\ Largest(s) = nextUid[f] - 1
  <1>1. \A y \in In(f) : y.uid \in Nat /\ y.uid < nextUid[f]
    BY DEF In, RowsOK, MailRows
  <1>2. PICK k \in Nat : k = nextUid[f] - 1 /\ k = x.uid
    BY DEF RowsOK
  <1>3. \A y \in In(f) : y.uid \in Nat /\ y.uid <= k
    BY <1>1, <1>2 DEF RowsOK
  <1>4. PICK newer : newer = {y \in In(f) : y.uid > x.uid}
    OBVIOUS
  <1>5. newer = {} /\ Cardinality(newer) < ListLimit
    <2>1. \A y \in In(f) : ~(y.uid > x.uid)
      BY <1>2, <1>3
    <2>2. newer = {}
      BY <1>4, <2>1
    <2> QED
      BY <2>2, FS_EmptySet, WebmailBounds
  <1>6. x \in Listed(f)
    <2>1. x \in In(f)
      BY DEF In
    <2>2. Cardinality({y \in In(f) : y.uid > x.uid}) < ListLimit
      BY <1>4, <1>5
    <2> QED
      BY <2>1, <2>2 DEF Listed, Newest
  <1>7. \A y \in Listed(f) : y \in In(f)
    BY DEF Listed, Newest
  <1>8. k \in s /\ \A v \in s : v \in Nat /\ v <= k
    BY <1>2, <1>3, <1>6, <1>7
  <1>9. \A u \in s : (\A v \in s : u >= v) <=> u = k
    BY <1>8
  <1> QED
    BY <1>2, <1>8, <1>9 DEF Largest

-----------------------------------------------------------------------------
(* One tab moves on.                                                       *)

LEMMA TabOf ==
  ASSUME WebmailInv, NEW q \in Requests
  PROVE  /\ TabOK(task[q], draft[q], undo[q], loaded[q], had[q])
         /\ TaskOK(task[q]) /\ task[q] \in Tasks /\ TabInv(q)
         /\ task = [task EXCEPT ![q] = task[q]] /\ draft = [draft EXCEPT ![q] = draft[q]]
         /\ undo = [undo EXCEPT ![q] = undo[q]] /\ loaded = [loaded EXCEPT ![q] = loaded[q]]
         /\ had = [had EXCEPT ![q] = had[q]]
  <1>1. TabOK(task[q], draft[q], undo[q], loaded[q], had[q]) /\ TabInv(q)
    BY DEF WebmailInv, TabsOK
  <1>2. TaskOK(task[q]) /\ task[q] \in Tasks
    BY <1>1 DEF TabOK, TaskOK
  <1> QED
    BY <1>1, <1>2 DEF WebmailInv, TabsOK

\* Of all tabs only q changes, to request t, draft d and so on.
Turns(q, t, d, u, l, h) ==
  /\ task' = [task EXCEPT ![q] = t] /\ draft' = [draft EXCEPT ![q] = d]
  /\ undo' = [undo EXCEPT ![q] = u] /\ loaded' = [loaded EXCEPT ![q] = l]
  /\ had' = [had EXCEPT ![q] = h]

LEMMA TabTurns ==
  ASSUME TabsOK, NEW q \in Requests, NEW t, NEW d, NEW u, NEW l, NEW h,
         TabOK(t, d, u, l, h), Turns(q, t, d, u, l, h)
  PROVE  /\ TabsOK'
         /\ task'[q] = t /\ draft'[q] = d /\ undo'[q] = u /\ loaded'[q] = l /\ had'[q] = h
         /\ \A p \in Requests : p # q => /\ task'[p] = task[p] /\ draft'[p] = draft[p]
                                         /\ undo'[p] = undo[p] /\ loaded'[p] = loaded[p]
                                         /\ had'[p] = had[p]
  <1>1. t \in Tasks /\ d \in Marks /\ u \in Marks /\ l \in TabLists /\ h \in SUBSET Nat
    BY DEF TabOK, TaskOK
  <1>2. /\ task'[q] = t /\ draft'[q] = d /\ undo'[q] = u /\ loaded'[q] = l /\ had'[q] = h
        /\ \A p \in Requests : p # q => /\ task'[p] = task[p] /\ draft'[p] = draft[p]
                                        /\ undo'[p] = undo[p] /\ loaded'[p] = loaded[p]
                                        /\ had'[p] = had[p]
    BY DEF TabsOK, Turns
  <1>3. \A p \in Requests : TabOK(task'[p], draft'[p], undo'[p], loaded'[p], had'[p])
    BY <1>2 DEF TabsOK
  <1>4. /\ task' \in [Requests -> Tasks]
        /\ draft' \in [Requests -> Marks] /\ undo' \in [Requests -> Marks]
        /\ loaded' \in [Requests -> TabLists] /\ had' \in [Requests -> SUBSET Nat]
    BY <1>1 DEF TabsOK, Turns
  <1> QED
    BY <1>2, <1>3, <1>4 DEF TabsOK

\* What is known of a tab after a step.
LEMMA TabInvNow ==
  ASSUME NEW q \in Requests, NEW t, NEW d, NEW u, NEW l, NEW h,
         task'[q] = t, draft'[q] = d, undo'[q] = u, loaded'[q] = l, had'[q] = h,
         DraftOK(t, d)', TargetOK(t)', WayOK(t)',
         q \in unsure' \/ (CopyThere(t)' /\ UndoOK(u)'),
         q \in shifted' \/ ListOK(t, l, h)'
  PROVE  TabInv(q)'
  <1>1. DraftOK(task[q], draft[q])'
    BY DEF DraftOK
  <1>2. TargetOK(task[q])' /\ WayOK(task[q])'
    BY DEF TargetOK, WayOK
  <1>3. (q \in unsure \/ (CopyThere(task[q]) /\ UndoOK(undo[q])))'
    BY DEF CopyThere, UndoOK
  <1>4. (q \in shifted \/ ListOK(task[q], loaded[q], had[q]))'
    BY DEF ListOK, Held, Counted
  <1> QED
    BY <1>1, <1>2, <1>3, <1>4 DEF TabInv

LEMMA SameBox ==
  ASSUME mail' = mail, nextUid' = nextUid, rowsEver' = rowsEver, guessed' = guessed,
         NEW t, NEW d, NEW u, NEW l, NEW h
  PROVE  /\ DraftOK(t, d) => DraftOK(t, d)'
         /\ TargetOK(t) => TargetOK(t)'
         /\ WayOK(t) => WayOK(t)'
         /\ CopyThere(t) => CopyThere(t)'
         /\ UndoOK(u) => UndoOK(u)'
         /\ ListOK(t, l, h) => ListOK(t, l, h)'
  <1>1. DraftOK(t, d) => DraftOK(t, d)'
    BY DEF DraftOK
  <1>2. (TargetOK(t) => TargetOK(t)') /\ (WayOK(t) => WayOK(t)')
    BY DEF TargetOK, WayOK
  <1>3. (CopyThere(t) => CopyThere(t)') /\ (UndoOK(u) => UndoOK(u)')
    BY DEF CopyThere, UndoOK
  <1>4. ListOK(t, l, h) => ListOK(t, l, h)'
    BY DEF ListOK, Held, Counted, UpTo, Uids, In
  <1> QED
    BY <1>1, <1>2, <1>3, <1>4

\* Steps that leave the rows alone: what is so of the moving tab stays so.
Fits(q, t, d, u, l, h) ==
  /\ DraftOK(t, d) /\ TargetOK(t) /\ WayOK(t)
  /\ q \in unsure' \/ (CopyThere(t) /\ UndoOK(u))
  /\ q \in shifted' \/ ListOK(t, l, h)
  /\ \A x \in mail : Aims(t, x) => Aims(task[q], x) \/ x.msg \in doomed'

LEMMA QuietKeeps ==
  ASSUME WebmailInv, NEW q \in Requests, NEW t, NEW d, NEW u, NEW l, NEW h,
         TabOK(t, d, u, l, h), Turns(q, t, d, u, l, h), Fits(q, t, d, u, l, h),
         UNCHANGED box, skipped' = skipped, doomed \subseteq doomed', NotesOK',
         unsure \ {q} \subseteq unsure', shifted \ {q} \subseteq shifted'
  PROVE  WebmailInv'
  <1>1. /\ mail' = mail /\ nextUid' = nextUid /\ rowsEver' = rowsEver /\ stored' = stored
        /\ guessed' = guessed
    BY DEF box
  <1>2. RowsOK'
    BY <1>1 DEF WebmailInv, RowsOK, MailRows
  <1>3. /\ TabsOK'
        /\ task'[q] = t /\ draft'[q] = d /\ undo'[q] = u /\ loaded'[q] = l /\ had'[q] = h
        /\ \A p \in Requests : p # q => /\ task'[p] = task[p] /\ draft'[p] = draft[p]
                                        /\ undo'[p] = undo[p] /\ loaded'[p] = loaded[p]
                                        /\ had'[p] = had[p]
    BY TabTurns DEF WebmailInv
  <1>4. Safe'
    <2>1. ASSUME NEW m \in stored' \ (doomed' \cup skipped' \cup guessed')
          PROVE  \E x \in mail' : x.msg = m /\ ~x.deleted /\ \A p \in Requests : ~Aims(task'[p], x)
      <3>1. PICK x \in mail : x.msg = m /\ ~x.deleted /\ \A p \in Requests : ~Aims(task[p], x)
        BY <1>1, <2>1 DEF WebmailInv, Safe
      <3>2. ~Aims(t, x)
        BY <2>1, <3>1 DEF Fits
      <3> QED
        BY <1>1, <1>3, <3>1, <3>2
    <2> QED
      BY <2>1 DEF Safe
  <1>5. ASSUME NEW p \in Requests
        PROVE  TabInv(p)'
    <2>1. CASE p = q
      <3>1. /\ DraftOK(t, d)' /\ TargetOK(t)' /\ WayOK(t)'
            /\ p \in unsure' \/ (CopyThere(t)' /\ UndoOK(u)')
            /\ p \in shifted' \/ ListOK(t, l, h)'
        BY <1>1, <2>1, SameBox DEF Fits
      <3> QED
        BY <1>3, <2>1, <3>1, TabInvNow
    <2>2. CASE p # q
      <3>1. PICK t1, d1, u1, l1, h1 :
              t1 = task[p] /\ d1 = draft[p] /\ u1 = undo[p] /\ l1 = loaded[p] /\ h1 = had[p]
        OBVIOUS
      <3>2. /\ DraftOK(t1, d1) /\ TargetOK(t1) /\ WayOK(t1)
            /\ p \in unsure \/ (CopyThere(t1) /\ UndoOK(u1))
            /\ p \in shifted \/ ListOK(t1, l1, h1)
        BY <3>1 DEF WebmailInv, TabInv
      <3>3. /\ DraftOK(t1, d1)' /\ TargetOK(t1)' /\ WayOK(t1)'
            /\ p \in unsure' \/ (CopyThere(t1)' /\ UndoOK(u1)')
            /\ p \in shifted' \/ ListOK(t1, l1, h1)'
        BY <1>1, <2>2, <3>2, SameBox
      <3>4. /\ task'[p] = t1 /\ draft'[p] = d1 /\ undo'[p] = u1 /\ loaded'[p] = l1
            /\ had'[p] = h1
        BY <1>3, <2>2, <3>1
      <3> QED
        BY <3>3, <3>4, TabInvNow
    <2> QED
      BY <2>1, <2>2
  <1> QED
    BY <1>2, <1>3, <1>4, <1>5 DEF WebmailInv

-----------------------------------------------------------------------------
(* A request begins.                                                       *)

LEMMA NotesNow ==
  ASSUME WebmailInv
  PROVE  /\ rowsEver \in Nat /\ doomed \subseteq 1..rowsEver /\ breaks \in 0..MaxBreaks
         /\ stored \subseteq 1..rowsEver /\ skipped \subseteq 1..rowsEver
         /\ guessed \subseteq 1..rowsEver /\ unsure \subseteq Requests
         /\ shifted \subseteq Requests /\ requests \in 0..MaxRequests
         /\ (Break => breaks' \in 0..MaxBreaks)
  BY WebmailBounds DEF WebmailInv, NotesOK, RowsOK, Break

\* What has to be shown of the notes when no row is inserted.
LEMMA NotesKept ==
  ASSUME WebmailInv, UNCHANGED box, skipped' = skipped, doomed' \subseteq 1..rowsEver,
         unsure' \subseteq Requests, shifted' \subseteq Requests,
         breaks' \in 0..MaxBreaks, requests' \in 0..MaxRequests
  PROVE  NotesOK'
  BY NotesNow DEF box, NotesOK

LEMMA BeginTask ==
  ASSUME WebmailInv, NEW q \in Requests, NEW op, NEW at, NEW from, NEW dest, NEW x,
         Begin(q, op, at, from, dest, x)
  PROVE  /\ task' = [task EXCEPT ![q] = [op |-> op, at |-> at, from |-> from, dest |-> dest,
                                         uid |-> x.uid, msg |-> x.msg, copied |-> FALSE]]
         /\ task[q].at = "idle" /\ requests' \in 0..MaxRequests
  <1>1. requests' \in 0..MaxRequests
    BY NotesNow, WebmailBounds DEF Begin
  <1> QED
    BY <1>1 DEF Begin

\* A task that is about row x as it is.
LEMMA AboutRow ==
  ASSUME WebmailInv, NEW x \in mail, NEW t, t.from = x.folder, t.uid = x.uid, t.msg = x.msg
  PROVE  /\ TargetOK(t) /\ WayOK(t) /\ x.msg \in 1..rowsEver /\ x.folder \in Folders
         /\ x.uid \in Nat /\ x.msg \in Nat
         /\ \A y \in mail : Aims(t, y) => y.msg = x.msg
  BY DEF WebmailInv, RowsOK, MailRows, TargetOK, WayOK, Aims

LEMMA DraftStays ==
  ASSUME NEW o, NEW d, NEW t, DraftOK(o, d), t.at # "append"
  PROVE  DraftOK(t, d)
  BY DEF DraftOK

\* A list that is not being loaded, before and after.
LEMMA ListStaysOK ==
  ASSUME NEW o, NEW t, NEW l, NEW h, ListOK(o, l, h), o.at # "fetch", t.at # "fetch",
         t.op # "more"
  PROVE  ListOK(t, l, h)
  BY DEF ListOK

\* The page hides a message, or the folder shown is another one.
LEMMA HideList ==
  ASSUME WebmailInv, NEW q \in Requests, NEW from, NEW k, Hide(q, from, k),
         task[q].at = "idle", NEW t, t.at # "fetch", t.op \notin {"open", "more"}
  PROVE  \E l, h : /\ loaded' = [loaded EXCEPT ![q] = l] /\ had' = [had EXCEPT ![q] = h]
                   /\ l \in TabLists /\ h \subseteq Nat /\ (l.more => l.folder \in Folders)
                   /\ q \in shifted \/ ListOK(t, l, h)
                   /\ shifted' = shifted
  <1>1. PICK l1, h1 : l1 = loaded[q] /\ h1 = had[q]
    OBVIOUS
  <1>2. /\ l1 \in TabLists /\ h1 \subseteq Nat /\ (l1.more => l1.folder \in Folders)
        /\ q \in shifted \/ ListOK(task[q], l1, h1)
        /\ loaded = [loaded EXCEPT ![q] = l1] /\ had = [had EXCEPT ![q] = h1]
    BY <1>1, TabOf DEF TabOK, TabInv
  <1>3. CASE l1.folder # from
    <2>1. had' = [had EXCEPT ![q] = h1] /\ shifted' = shifted
      BY <1>1, <1>3 DEF Hide
    <2>2. loaded' = [loaded EXCEPT ![q] = [l1 EXCEPT !.uids = l1.uids]]
      BY <1>1, <1>3 DEF Hide
    <2>3. [l1 EXCEPT !.uids = l1.uids] = l1
      BY <1>2 DEF TabLists
    <2>4. q \in shifted \/ ListOK(t, l1, h1)
      BY <1>2, ListStaysOK
    <2> QED
      BY <1>2, <2>1, <2>2, <2>3, <2>4
  <1>4. CASE l1.folder = from
    <2>1. PICK l, h : /\ l = [folder |-> l1.folder, uids |-> l1.uids \ {k},
                              offset |-> l1.offset, more |-> l1.more]
                      /\ h = h1 \ {k}
      OBVIOUS
    <2>2. /\ l.folder = l1.folder /\ l.uids = l1.uids \ {k} /\ l.offset = l1.offset
          /\ l.more = l1.more
      BY <2>1
    <2>3. had' = [had EXCEPT ![q] = h] /\ shifted' = shifted
      BY <1>1, <1>4, <2>1 DEF Hide
    <2>4. loaded' = [loaded EXCEPT ![q] = [l1 EXCEPT !.uids = l1.uids \ {k}]]
      BY <1>1, <1>4 DEF Hide
    <2>5. [l1 EXCEPT !.uids = l1.uids \ {k}] = l
      <3>1. l1 = [folder |-> l1.folder, uids |-> l1.uids, offset |-> l1.offset, more |-> l1.more]
        BY <1>2 DEF TabLists
      <3> QED
        BY <2>1, <3>1
    <2>6. l \in TabLists /\ h \subseteq Nat /\ (l.more => l.folder \in Folders)
      BY <1>2, <2>1, <2>2 DEF TabLists
    <2>7. ASSUME ListOK(task[q], l1, h1)
          PROVE  ListOK(t, l, h)
      <3>1. Held(l1, h1) /\ (l1.more \/ h1 \subseteq l1.uids)
        BY <2>7 DEF ListOK
      <3>2. Held(l, h)
        BY <2>1, <2>2, <3>1 DEF Held
      <3> QED
        BY <2>1, <2>2, <3>1, <3>2 DEF ListOK
    <2> QED
      BY <1>2, <2>3, <2>4, <2>5, <2>6, <2>7
  <1> QED
    BY <1>3, <1>4

LEMMA Shown ==
  ASSUME WebmailInv, NEW n \in Names, NEW x \in In(Canonical(n))
  PROVE  x \in mail /\ x.folder = Canonical(n) /\ Canonical(n) \in Folders
  BY FoldersKnown DEF In

LEMMA TrashMessageKeeps ==
  ASSUME WebmailInv, NEW q \in Requests, TrashMessage(q)
  PROVE  WebmailInv'
  <1>1. PICK n \in Names : \E x \in In(Canonical(n)) :
          /\ \/ /\ n # "Trash"
                /\ Begin(q, "trash", "copy", Canonical(n), "Trash", x)
                /\ UNCHANGED <<doomed, breaks>>
             \/ /\ IF n = "Trash" THEN UNCHANGED breaks ELSE Break
                /\ Begin(q, "trash", "flag", Canonical(n), Canonical(n), x)
                /\ doomed' = doomed \cup {x.msg}
          /\ Hide(q, Canonical(n), x.uid)
    BY DEF TrashMessage
  <1>2. PICK x \in In(Canonical(n)) :
          /\ \/ /\ n # "Trash"
                /\ Begin(q, "trash", "copy", Canonical(n), "Trash", x)
                /\ UNCHANGED <<doomed, breaks>>
             \/ /\ IF n = "Trash" THEN UNCHANGED breaks ELSE Break
                /\ Begin(q, "trash", "flag", Canonical(n), Canonical(n), x)
                /\ doomed' = doomed \cup {x.msg}
          /\ Hide(q, Canonical(n), x.uid)
    BY <1>1
  <1>3. PICK f \in Folders : f = Canonical(n) /\ (f = "Trash" <=> n = "Trash")
    BY FoldersKnown
  <1>4. x \in mail /\ x.folder = f
    BY <1>3, Shown
  <1>5. x.msg \in 1..rowsEver /\ x.uid \in Nat /\ x.msg \in Nat
    BY <1>4 DEF WebmailInv, RowsOK, MailRows
  <1>6. /\ UNCHANGED box /\ draft' = draft /\ skipped' = skipped
        /\ undo' = [undo EXCEPT ![q] = NoUndo] /\ unsure' = unsure \ {q}
    BY DEF TrashMessage
  <1>7. PICK at, dest :
          /\ Begin(q, "trash", at, f, dest, x) /\ breaks' \in 0..MaxBreaks
          /\ \/ at = "copy" /\ dest = "Trash" /\ f # "Trash" /\ doomed' = doomed
             \/ at = "flag" /\ dest = f /\ doomed' = doomed \cup {x.msg}
    BY <1>2, <1>3, NotesNow
  <1>8. PICK t : t = [op |-> "trash", at |-> at, from |-> f, dest |-> dest,
                      uid |-> x.uid, msg |-> x.msg, copied |-> FALSE]
    OBVIOUS
  <1>9. /\ t.op = "trash" /\ t.at = at /\ t.from = f /\ t.dest = dest /\ t.uid = x.uid
        /\ t.msg = x.msg /\ t.copied = FALSE
        /\ task' = [task EXCEPT ![q] = t] /\ task[q].at = "idle"
        /\ requests' \in 0..MaxRequests
    BY <1>7, <1>8, BeginTask
  <1>10. TaskOK(t) /\ ~Seeks(t)
    <2>1. t \in Tasks
      BY <1>5, <1>7, <1>8, FoldersKnown DEF Tasks, WebmailOps, Steps
    <2> QED
      BY <1>7, <1>9, <2>1 DEF TaskOK, Seeks
  <1>11. PICK l, h : /\ loaded' = [loaded EXCEPT ![q] = l] /\ had' = [had EXCEPT ![q] = h]
                     /\ l \in TabLists /\ h \subseteq Nat /\ (l.more => l.folder \in Folders)
                     /\ q \in shifted \/ ListOK(t, l, h)
                     /\ shifted' = shifted
    <2>1. Hide(q, f, x.uid) /\ t.at # "fetch" /\ t.op \notin {"open", "more"}
      BY <1>2, <1>3, <1>7, <1>9
    <2> QED
      BY <1>9, <2>1, HideList
  <1>12. PICK d : d = draft[q]
    OBVIOUS
  <1>13. /\ d \in Marks /\ draft' = [draft EXCEPT ![q] = d] /\ DraftOK(task[q], d)
    BY <1>6, <1>12, TabOf DEF TabOK, TabInv
  <1>14. NoUndo \in Marks /\ UndoOK(NoUndo)
    <2>1. nextUid["Trash"] \in Nat \ {0} /\ \A y \in mail : y.uid # 0
      BY FoldersKnown DEF WebmailInv, RowsOK, MailRows
    <2> QED
      BY <2>1 DEF NoUndo, Marks, UndoOK
  <1>15. TabOK(t, d, NoUndo, l, h)
    <2>1. t.op = "trash" /\ d \in Marks
      BY <1>9, <1>13
    <2>2. l \in TabLists /\ h \subseteq Nat /\ (l.more => l.folder \in Folders)
      BY <1>11
    <2> QED
      BY <1>10, <1>14, <2>1, <2>2 DEF TabOK
  <1>16. Turns(q, t, d, NoUndo, l, h)
    <2>1. task' = [task EXCEPT ![q] = t]
      BY <1>9
    <2>2. draft' = [draft EXCEPT ![q] = d] /\ undo' = [undo EXCEPT ![q] = NoUndo]
      BY <1>6, <1>13
    <2> QED
      BY <1>11, <2>1, <2>2 DEF Turns
  <1>17. Fits(q, t, d, NoUndo, l, h)
    <2>1. DraftOK(t, d)
      BY <1>7, <1>9, <1>13, DraftStays
    <2>2. TargetOK(t) /\ WayOK(t) /\ \A y \in mail : Aims(t, y) => y.msg = x.msg
      BY <1>4, <1>9, AboutRow
    <2>3. \A y \in mail : Aims(t, y) => y.msg \in doomed'
      BY <1>7, <1>9, <2>2 DEF Aims
    <2>4. CopyThere(t)
      BY <1>10 DEF CopyThere
    <2> QED
      BY <1>11, <1>14, <2>1, <2>2, <2>3, <2>4 DEF Fits
  <1>18. doomed \subseteq doomed' /\ doomed' \subseteq 1..rowsEver
    BY <1>5, <1>7, NotesNow
  <1>19. NotesOK'
    BY <1>6, <1>7, <1>9, <1>11, <1>18, NotesNow, NotesKept
  <1> QED
    BY <1>6, <1>11, <1>15, <1>16, <1>17, <1>18, <1>19, QuietKeeps

LEMMA MoveMessageKeeps ==
  ASSUME WebmailInv, NEW q \in Requests, MoveMessage(q)
  PROVE  WebmailInv'
  <1>1. PICK n \in Names, dest \in Names : \E x \in In(Canonical(n)) :
          Begin(q, "move", "copy", Canonical(n), dest, x) /\ Hide(q, Canonical(n), x.uid)
    BY DEF MoveMessage
  <1>2. PICK x \in In(Canonical(n)) :
          Begin(q, "move", "copy", Canonical(n), dest, x) /\ Hide(q, Canonical(n), x.uid)
    BY <1>1
  <1>3. PICK f \in Folders : f = Canonical(n)
    BY FoldersKnown
  <1>4. x \in mail /\ x.folder = f /\ dest \in Folders
    BY <1>3, Shown, FoldersKnown
  <1>5. x.msg \in 1..rowsEver /\ x.uid \in Nat /\ x.msg \in Nat
    BY <1>4 DEF WebmailInv, RowsOK, MailRows
  <1>6. /\ UNCHANGED box /\ draft' = draft /\ skipped' = skipped /\ undo' = undo
        /\ unsure' = unsure /\ doomed' = doomed /\ breaks' = breaks
    BY DEF MoveMessage, offer
  <1>7. PICK t : t = [op |-> "move", at |-> "copy", from |-> f, dest |-> dest,
                      uid |-> x.uid, msg |-> x.msg, copied |-> FALSE]
    OBVIOUS
  <1>8. /\ t.op = "move" /\ t.at = "copy" /\ t.from = f /\ t.uid = x.uid /\ t.msg = x.msg
        /\ t.copied = FALSE
        /\ task' = [task EXCEPT ![q] = t] /\ task[q].at = "idle"
        /\ requests' \in 0..MaxRequests
    BY <1>2, <1>3, <1>7, BeginTask
  <1>9. TaskOK(t)
    <2>1. t \in Tasks
      BY <1>4, <1>5, <1>7 DEF Tasks, WebmailOps, Steps
    <2> QED
      BY <1>8, <2>1 DEF TaskOK
  <1>10. PICK l, h : /\ loaded' = [loaded EXCEPT ![q] = l] /\ had' = [had EXCEPT ![q] = h]
                     /\ l \in TabLists /\ h \subseteq Nat /\ (l.more => l.folder \in Folders)
                     /\ q \in shifted \/ ListOK(t, l, h)
                     /\ shifted' = shifted
    <2>1. Hide(q, f, x.uid) /\ t.at # "fetch" /\ t.op \notin {"open", "more"}
      BY <1>2, <1>3, <1>8
    <2> QED
      BY <1>8, <2>1, HideList
  <1>11. PICK d, u : d = draft[q] /\ u = undo[q]
    OBVIOUS
  <1>12. /\ d \in Marks /\ draft' = [draft EXCEPT ![q] = d] /\ DraftOK(task[q], d)
         /\ u \in Marks /\ undo' = [undo EXCEPT ![q] = u] /\ (q \in unsure \/ UndoOK(u))
    BY <1>6, <1>11, TabOf DEF TabOK, TabInv
  <1>13. TabOK(t, d, u, l, h)
    BY <1>8, <1>9, <1>10, <1>12 DEF TabOK
  <1>14. Turns(q, t, d, u, l, h)
    BY <1>8, <1>10, <1>12 DEF Turns
  <1>15. Fits(q, t, d, u, l, h)
    <2>1. DraftOK(t, d) /\ CopyThere(t)
      BY <1>8, <1>12, DraftStays DEF CopyThere, Seeks
    <2>2. TargetOK(t) /\ WayOK(t)
      BY <1>4, <1>8, AboutRow
    <2>3. \A y \in mail : ~Aims(t, y)
      BY <1>8 DEF Aims
    <2> QED
      BY <1>6, <1>10, <1>12, <2>1, <2>2, <2>3 DEF Fits
  <1>16. NotesOK'
    BY <1>6, <1>8, <1>10, NotesNow, NotesKept
  <1> QED
    BY <1>6, <1>10, <1>13, <1>14, <1>15, <1>16, QuietKeeps

\* What tab q has, when its request changes to one that moves no message.
LEMMA OthersOf ==
  ASSUME WebmailInv, NEW q \in Requests, NEW t, t.at # "append", ~Seeks(t)
  PROVE  \E d, u, l, h :
           /\ d = draft[q] /\ u = undo[q] /\ l = loaded[q] /\ h = had[q]
           /\ draft = [draft EXCEPT ![q] = d] /\ undo = [undo EXCEPT ![q] = u]
           /\ loaded = [loaded EXCEPT ![q] = l] /\ had = [had EXCEPT ![q] = h]
           /\ d \in Marks /\ u \in Marks /\ l \in TabLists /\ h \subseteq Nat
           /\ (l.more => l.folder \in Folders)
           /\ DraftOK(t, d) /\ CopyThere(t) /\ (q \in unsure \/ UndoOK(u))
           /\ q \in shifted \/ ListOK(task[q], l, h)
  <1>1. PICK d, u, l, h : d = draft[q] /\ u = undo[q] /\ l = loaded[q] /\ h = had[q]
    OBVIOUS
  <1>2. DraftOK(t, d) /\ CopyThere(t)
    BY <1>1, TabOf, DraftStays DEF TabInv, CopyThere
  <1> QED
    BY <1>1, <1>2, TabOf DEF TabOK, TabInv

LEMMA UpdateFlagsKeeps ==
  ASSUME WebmailInv, NEW q \in Requests, UpdateFlags(q)
  PROVE  WebmailInv'
  <1>1. PICK n \in Names : \E x \in In(Canonical(n)), step \in {"mark", "unmark"} :
          /\ Begin(q, "flags", step, Canonical(n), Canonical(n), x)
          /\ doomed' = IF step = "mark" THEN doomed \cup {x.msg} ELSE doomed
    BY DEF UpdateFlags
  <1>2. PICK x \in In(Canonical(n)), step \in {"mark", "unmark"} :
          /\ Begin(q, "flags", step, Canonical(n), Canonical(n), x)
          /\ doomed' = IF step = "mark" THEN doomed \cup {x.msg} ELSE doomed
    BY <1>1
  <1>3. PICK f \in Folders : f = Canonical(n)
    BY FoldersKnown
  <1>4. x \in mail /\ x.folder = f
    BY <1>3, Shown
  <1>5. x.msg \in 1..rowsEver /\ x.uid \in Nat /\ x.msg \in Nat
    BY <1>4 DEF WebmailInv, RowsOK, MailRows
  <1>6. /\ UNCHANGED box /\ draft' = draft /\ skipped' = skipped /\ undo' = undo
        /\ unsure' = unsure /\ breaks' = breaks /\ loaded' = loaded /\ had' = had
        /\ shifted' = shifted
    BY DEF UpdateFlags, offer, list
  <1>7. PICK t : t = [op |-> "flags", at |-> step, from |-> f, dest |-> f,
                      uid |-> x.uid, msg |-> x.msg, copied |-> FALSE]
    OBVIOUS
  <1>8. /\ t.op = "flags" /\ t.at = step /\ t.from = f /\ t.uid = x.uid /\ t.msg = x.msg
        /\ task' = [task EXCEPT ![q] = t] /\ task[q].at = "idle"
        /\ requests' \in 0..MaxRequests
    BY <1>2, <1>3, <1>7, BeginTask
  <1>9. TaskOK(t) /\ t.at # "append" /\ ~Seeks(t)
    <2>1. t \in Tasks
      BY <1>5, <1>7 DEF Tasks, WebmailOps, Steps
    <2> QED
      BY <1>8, <2>1 DEF TaskOK, Seeks
  <1>10. PICK d, u, l, h :
           /\ draft = [draft EXCEPT ![q] = d] /\ undo = [undo EXCEPT ![q] = u]
           /\ loaded = [loaded EXCEPT ![q] = l] /\ had = [had EXCEPT ![q] = h]
           /\ d \in Marks /\ u \in Marks /\ l \in TabLists /\ h \subseteq Nat
           /\ (l.more => l.folder \in Folders)
           /\ DraftOK(t, d) /\ CopyThere(t) /\ (q \in unsure \/ UndoOK(u))
           /\ q \in shifted \/ ListOK(task[q], l, h)
    BY <1>9, OthersOf
  <1>11. TabOK(t, d, u, l, h)
    BY <1>8, <1>9, <1>10 DEF TabOK
  <1>12. Turns(q, t, d, u, l, h)
    BY <1>6, <1>8, <1>10 DEF Turns
  <1>13. Fits(q, t, d, u, l, h)
    <2>1. TargetOK(t) /\ WayOK(t) /\ \A y \in mail : Aims(t, y) => y.msg = x.msg
      BY <1>4, <1>8, AboutRow
    <2>2. \A y \in mail : Aims(t, y) => y.msg \in doomed'
      BY <1>2, <1>8, <2>1 DEF Aims
    <2>3. q \in shifted \/ ListOK(t, l, h)
      BY <1>8, <1>10, ListStaysOK
    <2> QED
      BY <1>6, <1>10, <2>1, <2>2, <2>3 DEF Fits
  <1>14. doomed \subseteq doomed' /\ doomed' \subseteq 1..rowsEver
    BY <1>2, <1>5, NotesNow
  <1>15. NotesOK'
    BY <1>6, <1>8, <1>14, NotesNow, NotesKept
  <1> QED
    BY <1>6, <1>11, <1>12, <1>13, <1>14, <1>15, QuietKeeps

\* A request that aims at no message yet.
LEMMA Aimless ==
  ASSUME NEW t, t.at \notin {"copy", "flag", "mark"}
  PROVE  TargetOK(t) /\ WayOK(t) /\ \A x \in mail : ~Aims(t, x)
  BY DEF TargetOK, WayOK, Aims

LEMMA SaveDraftKeeps ==
  ASSUME WebmailInv, NEW q \in Requests, SaveDraft(q)
  PROVE  WebmailInv'
  <1>1. PICK x : x = [uid |-> 0, msg |-> 0]
    OBVIOUS
  <1>2. /\ x.uid = 0 /\ x.msg = 0 /\ Begin(q, "draft", "status", "Drafts", "Drafts", x)
    BY <1>1 DEF SaveDraft
  <1>3. /\ UNCHANGED box /\ draft' = draft /\ skipped' = skipped /\ undo' = undo
        /\ unsure' = unsure /\ breaks' = breaks /\ loaded' = loaded /\ had' = had
        /\ shifted' = shifted /\ doomed' = doomed
    BY DEF SaveDraft, offer, list
  <1>4. PICK t : t = [op |-> "draft", at |-> "status", from |-> "Drafts", dest |-> "Drafts",
                      uid |-> x.uid, msg |-> x.msg, copied |-> FALSE]
    OBVIOUS
  <1>5. /\ t.op = "draft" /\ t.at = "status" /\ t.from = "Drafts" /\ t.dest = "Drafts"
        /\ task' = [task EXCEPT ![q] = t] /\ task[q].at = "idle"
        /\ requests' \in 0..MaxRequests
    BY <1>2, <1>4, BeginTask
  <1>6. TaskOK(t) /\ t.at # "append" /\ ~Seeks(t)
    <2>1. t \in Tasks
      BY <1>2, <1>4, FoldersKnown DEF Tasks, WebmailOps, Steps
    <2> QED
      BY <1>5, <2>1 DEF TaskOK, Seeks
  <1>7. PICK d, u, l, h :
          /\ draft = [draft EXCEPT ![q] = d] /\ undo = [undo EXCEPT ![q] = u]
          /\ loaded = [loaded EXCEPT ![q] = l] /\ had = [had EXCEPT ![q] = h]
          /\ d \in Marks /\ u \in Marks /\ l \in TabLists /\ h \subseteq Nat
          /\ (l.more => l.folder \in Folders)
          /\ DraftOK(t, d) /\ CopyThere(t) /\ (q \in unsure \/ UndoOK(u))
          /\ q \in shifted \/ ListOK(task[q], l, h)
    BY <1>6, OthersOf
  <1>8. TabOK(t, d, u, l, h)
    BY <1>5, <1>6, <1>7 DEF TabOK
  <1>9. Turns(q, t, d, u, l, h)
    BY <1>3, <1>5, <1>7 DEF Turns
  <1>10. Fits(q, t, d, u, l, h)
    <2>1. TargetOK(t) /\ WayOK(t) /\ \A y \in mail : ~Aims(t, y)
      BY <1>5, Aimless
    <2>2. q \in shifted \/ ListOK(t, l, h)
      BY <1>5, <1>7, ListStaysOK
    <2> QED
      BY <1>3, <1>7, <2>1, <2>2 DEF Fits
  <1>11. NotesOK'
    BY <1>3, <1>5, NotesNow, NotesKept
  <1> QED
    BY <1>3, <1>8, <1>9, <1>10, <1>11, QuietKeeps

\* An empty list, or one that is about to be loaded, lacks nothing.
LEMMA EmptyListOK ==
  ASSUME NEW t, t.at # "fetch", t.op # "more", NEW l, l.offset = 0
  PROVE  ListOK(t, l, {})
  BY DEF ListOK, Held

LEMMA OpenFolderKeeps ==
  ASSUME WebmailInv, NEW q \in Requests, OpenFolder(q)
  PROVE  WebmailInv'
  <1>1. PICK x : x = [uid |-> 0, msg |-> 0]
    OBVIOUS
  <1>2. PICK f \in Folders :
          /\ x.uid = 0 /\ x.msg = 0 /\ Begin(q, "open", "page", f, f, x)
          /\ loaded' = [loaded EXCEPT ![q] = [NoList EXCEPT !.folder = f]]
    BY <1>1, FoldersKnown DEF OpenFolder
  <1>3. /\ UNCHANGED box /\ draft' = draft /\ skipped' = skipped /\ undo' = undo
        /\ unsure' = unsure /\ breaks' = breaks /\ shifted' = shifted /\ doomed' = doomed
        /\ had' = [had EXCEPT ![q] = {}]
    BY DEF OpenFolder, offer
  <1>4. PICK t, l : /\ t = [op |-> "open", at |-> "page", from |-> f, dest |-> f,
                            uid |-> x.uid, msg |-> x.msg, copied |-> FALSE]
                    /\ l = [folder |-> f, uids |-> {}, offset |-> 0, more |-> FALSE]
    OBVIOUS
  <1>5. /\ t.op = "open" /\ t.at = "page" /\ t.from = f /\ t.dest = f /\ t.msg = 0
        /\ task' = [task EXCEPT ![q] = t] /\ task[q].at = "idle"
        /\ requests' \in 0..MaxRequests
    BY <1>2, <1>4, BeginTask
  <1>6. TaskOK(t) /\ t.at # "append" /\ ~Seeks(t)
    <2>1. t \in Tasks
      BY <1>2, <1>4 DEF Tasks, WebmailOps, Steps
    <2> QED
      BY <1>5, <2>1 DEF TaskOK, Seeks
  <1>7. PICK d, u, l0, h0 :
          /\ draft = [draft EXCEPT ![q] = d] /\ undo = [undo EXCEPT ![q] = u]
          /\ d \in Marks /\ u \in Marks /\ l0 \in TabLists /\ h0 \subseteq Nat
          /\ DraftOK(t, d) /\ CopyThere(t) /\ (q \in unsure \/ UndoOK(u))
    BY <1>6, OthersOf
  <1>8. /\ loaded' = [loaded EXCEPT ![q] = l] /\ l \in TabLists /\ l.folder = f
        /\ l.offset = 0 /\ l.more = FALSE
    <2>1. [NoList EXCEPT !.folder = f] = l
      <3>1. PICK r : r = NoList
        OBVIOUS
      <3>2. r = [folder |-> "none", uids |-> {}, offset |-> 0, more |-> FALSE]
        BY <3>1 DEF NoList
      <3>3. r = [folder |-> r.folder, uids |-> r.uids, offset |-> r.offset, more |-> r.more]
        BY <3>2
      <3>4. l = [folder |-> f, uids |-> r.uids, offset |-> r.offset, more |-> r.more]
        BY <1>4, <3>2
      <3>5. [r EXCEPT !.folder = f] = l
        BY <3>3, <3>4
      <3> QED
        BY <3>1, <3>5
    <2>2. l.folder = f /\ l.offset = 0 /\ l.more = FALSE /\ l.uids = {} /\ l \in TabLists
      BY <1>4 DEF TabLists
    <2>3. loaded' = [loaded EXCEPT ![q] = l]
      BY <1>2, <2>1
    <2> QED
      BY <2>2, <2>3
  <1>9. TabOK(t, d, u, l, {})
    BY <1>5, <1>6, <1>7, <1>8 DEF TabOK
  <1>10. Turns(q, t, d, u, l, {})
    BY <1>3, <1>5, <1>7, <1>8 DEF Turns
  <1>11. Fits(q, t, d, u, l, {})
    <2>1. TargetOK(t) /\ WayOK(t) /\ \A y \in mail : ~Aims(t, y)
      BY <1>5, Aimless
    <2>2. ListOK(t, l, {})
      BY <1>5, <1>8, EmptyListOK
    <2> QED
      BY <1>3, <1>7, <2>1, <2>2 DEF Fits
  <1>12. NotesOK'
    BY <1>3, <1>5, NotesNow, NotesKept
  <1> QED
    BY <1>3, <1>9, <1>10, <1>11, <1>12, QuietKeeps

LEMMA LoadMoreKeeps ==
  ASSUME WebmailInv, NEW q \in Requests, LoadMore(q)
  PROVE  WebmailInv'
  <1>1. PICK l : l = loaded[q]
    OBVIOUS
  <1>2. l \in TabLists /\ l.more /\ l.folder \in Folders /\ l.offset \in Nat
    BY <1>1, TabOf DEF LoadMore, TabOK, TabLists
  <1>3. /\ UNCHANGED box /\ draft' = draft /\ skipped' = skipped /\ undo' = undo
        /\ unsure' = unsure /\ breaks' = breaks /\ shifted' = shifted /\ doomed' = doomed
        /\ had' = had /\ loaded' = loaded /\ requests' = requests /\ task[q].at = "idle"
    BY DEF LoadMore, offer, list
  <1>4. PICK t : t = [op |-> "more", at |-> "page", from |-> l.folder, dest |-> l.folder,
                      uid |-> 0, msg |-> l.offset, copied |-> FALSE]
    OBVIOUS
  <1>5. /\ t.op = "more" /\ t.at = "page" /\ t.from = l.folder /\ t.dest = l.folder
        /\ t.msg = l.offset
    BY <1>4
  <1>6. task' = [task EXCEPT ![q] = t]
    BY <1>1, <1>4 DEF LoadMore
  <1>7. TaskOK(t) /\ t.at # "append" /\ ~Seeks(t)
    <2>1. t \in Tasks
      BY <1>2, <1>4 DEF Tasks, WebmailOps, Steps
    <2> QED
      BY <1>5, <2>1 DEF TaskOK, Seeks
  <1>8. PICK d, u, h :
          /\ draft = [draft EXCEPT ![q] = d] /\ undo = [undo EXCEPT ![q] = u]
          /\ loaded = [loaded EXCEPT ![q] = l] /\ had = [had EXCEPT ![q] = h]
          /\ d \in Marks /\ u \in Marks /\ h \subseteq Nat
          /\ DraftOK(t, d) /\ CopyThere(t) /\ (q \in unsure \/ UndoOK(u))
          /\ q \in shifted \/ ListOK(task[q], l, h)
    <2>1. PICK d, u, l0, h :
            /\ l0 = loaded[q]
            /\ draft = [draft EXCEPT ![q] = d] /\ undo = [undo EXCEPT ![q] = u]
            /\ loaded = [loaded EXCEPT ![q] = l0] /\ had = [had EXCEPT ![q] = h]
            /\ d \in Marks /\ u \in Marks /\ l0 \in TabLists /\ h \subseteq Nat
            /\ DraftOK(t, d) /\ CopyThere(t) /\ (q \in unsure \/ UndoOK(u))
            /\ q \in shifted \/ ListOK(task[q], l0, h)
      BY <1>7, OthersOf
    <2>2. l0 = l
      BY <1>1, <2>1
    <2> QED
      BY <2>1, <2>2
  <1>9. TabOK(t, d, u, l, h)
    BY <1>2, <1>5, <1>7, <1>8 DEF TabOK
  <1>10. Turns(q, t, d, u, l, h)
    BY <1>3, <1>6, <1>8 DEF Turns
  <1>11. Fits(q, t, d, u, l, h)
    <2>1. TargetOK(t) /\ WayOK(t) /\ \A y \in mail : ~Aims(t, y)
      BY <1>5, Aimless
    <2>2. q \in shifted \/ ListOK(t, l, h)
      BY <1>2, <1>5, <1>8 DEF ListOK
    <2> QED
      BY <1>3, <1>8, <2>1, <2>2 DEF Fits
  <1>12. NotesOK'
    BY <1>3, NotesNow, NotesKept
  <1> QED
    BY <1>3, <1>9, <1>10, <1>11, <1>12, QuietKeeps

-----------------------------------------------------------------------------
(* Commands that leave the rows alone.                                     *)

LEMMA IdleOK ==
  /\ Idle \in Tasks /\ TaskOK(Idle) /\ Idle.at = "idle" /\ Idle.op = "none" /\ ~Seeks(Idle)
  /\ TargetOK(Idle) /\ WayOK(Idle) /\ CopyThere(Idle) /\ \A x \in mail : ~Aims(Idle, x)
  <1>1. Idle \in Tasks /\ Idle.at = "idle" /\ Idle.op = "none"
    BY FoldersKnown DEF Idle, Tasks, WebmailOps, Steps
  <1>2. TaskOK(Idle) /\ ~Seeks(Idle)
    BY <1>1 DEF TaskOK, Seeks
  <1> QED
    BY <1>1, <1>2, Aimless DEF CopyThere

\* The ways in which a command moves the request of q on.
LEMMA TaskFields ==
  ASSUME WebmailInv, NEW q \in Requests, NEW o, o = task[q]
  PROVE  /\ o \in Tasks /\ task \in [Requests -> Tasks]
         /\ o = [op |-> o.op, at |-> o.at, from |-> o.from, dest |-> o.dest,
                 uid |-> o.uid, msg |-> o.msg, copied |-> o.copied]
  <1>1. o \in Tasks /\ task \in [Requests -> Tasks]
    BY DEF WebmailInv, TabsOK
  <1> QED
    BY <1>1 DEF Tasks

ToStep(q, step) == task' = [task EXCEPT ![q].at = step]
ToCopied(q, step, c) == task' = [task EXCEPT ![q].at = step, ![q].copied = c]
ToUid(q, step, id) == task' = [task EXCEPT ![q].at = step, ![q].uid = id]
ToTarget(q, step, id, m) == task' = [task EXCEPT ![q].at = step, ![q].uid = id, ![q].msg = m]

LEMMA StepTo ==
  ASSUME WebmailInv, NEW q \in Requests, NEW step \in Steps,
         ToStep(q, step)
  PROVE  /\ task'[q] \in Tasks
         /\ task'[q].op = task[q].op /\ task'[q].at = step
         /\ task'[q].from = task[q].from /\ task'[q].dest = task[q].dest
         /\ task'[q].uid = task[q].uid
         /\ task'[q].msg = task[q].msg /\ (task'[q].copied <=> task[q].copied)
         /\ task' = [task EXCEPT ![q] = task'[q]]
  <1>1. PICK o : o = task[q]
    OBVIOUS
  <1>2. /\ o \in Tasks /\ task \in [Requests -> Tasks]
        /\ o = [op |-> o.op, at |-> o.at, from |-> o.from, dest |-> o.dest,
                uid |-> o.uid, msg |-> o.msg, copied |-> o.copied]
    BY <1>1, TaskFields
  <1>3. [o EXCEPT !.at = step] = [op |-> o.op, at |-> step, from |-> o.from, dest |-> o.dest,
                               uid |-> o.uid, msg |-> o.msg, copied |-> o.copied]
    BY <1>2
  <1>4. PICK t : t = [op |-> o.op, at |-> step, from |-> o.from, dest |-> o.dest,
                    uid |-> o.uid, msg |-> o.msg, copied |-> o.copied]
    OBVIOUS
  <1>5. task' = [task EXCEPT ![q] = [o EXCEPT !.at = step]]
    BY <1>1, <1>2 DEF ToStep
  <1>6. [o EXCEPT !.at = step] = t
    BY <1>3, <1>4
  <1>7. /\ t \in Tasks /\ t.op = o.op /\ t.at = step /\ t.from = o.from /\ t.dest = o.dest
        /\ t.uid = o.uid /\ t.msg = o.msg /\ t.copied = o.copied
    BY <1>2, <1>4 DEF Tasks
  <1>8. task'[q] = t
    BY <1>2, <1>5, <1>6
  <1> QED
    BY <1>1, <1>5, <1>6, <1>7, <1>8

LEMMA StepCopied ==
  ASSUME WebmailInv, NEW q \in Requests, NEW step \in Steps, NEW c \in BOOLEAN,
         ToCopied(q, step, c)
  PROVE  /\ task'[q] \in Tasks
         /\ task'[q].op = task[q].op /\ task'[q].at = step
         /\ task'[q].from = task[q].from /\ task'[q].dest = task[q].dest
         /\ task'[q].uid = task[q].uid
         /\ task'[q].msg = task[q].msg /\ (task'[q].copied <=> c)
         /\ task' = [task EXCEPT ![q] = task'[q]]
  <1>1. PICK o : o = task[q]
    OBVIOUS
  <1>2. /\ o \in Tasks /\ task \in [Requests -> Tasks]
        /\ o = [op |-> o.op, at |-> o.at, from |-> o.from, dest |-> o.dest,
                uid |-> o.uid, msg |-> o.msg, copied |-> o.copied]
    BY <1>1, TaskFields
  <1>3. [o EXCEPT !.at = step] = [op |-> o.op, at |-> step, from |-> o.from, dest |-> o.dest,
                               uid |-> o.uid, msg |-> o.msg, copied |-> o.copied]
    BY <1>2
  <1>4. [[op |-> o.op, at |-> step, from |-> o.from, dest |-> o.dest,
         uid |-> o.uid, msg |-> o.msg, copied |-> o.copied] EXCEPT !.copied = c]
          = [op |-> o.op, at |-> step, from |-> o.from, dest |-> o.dest,
             uid |-> o.uid, msg |-> o.msg, copied |-> c]
    OBVIOUS
  <1>5. PICK t : t = [op |-> o.op, at |-> step, from |-> o.from, dest |-> o.dest,
                    uid |-> o.uid, msg |-> o.msg, copied |-> c]
    OBVIOUS
  <1>6. task' = [task EXCEPT ![q] = [[o EXCEPT !.at = step] EXCEPT !.copied = c]]
    BY <1>1, <1>2 DEF ToCopied
  <1>7. [[o EXCEPT !.at = step] EXCEPT !.copied = c] = t
    BY <1>3, <1>4, <1>5
  <1>8. /\ t \in Tasks /\ t.op = o.op /\ t.at = step /\ t.from = o.from /\ t.dest = o.dest
        /\ t.uid = o.uid /\ t.msg = o.msg /\ t.copied = c
    BY <1>2, <1>5 DEF Tasks
  <1>9. task'[q] = t
    BY <1>2, <1>6, <1>7
  <1> QED
    BY <1>1, <1>6, <1>7, <1>8, <1>9

LEMMA StepUid ==
  ASSUME WebmailInv, NEW q \in Requests, NEW step \in Steps, NEW id \in Nat,
         ToUid(q, step, id)
  PROVE  /\ task'[q] \in Tasks
         /\ task'[q].op = task[q].op /\ task'[q].at = step
         /\ task'[q].from = task[q].from /\ task'[q].dest = task[q].dest
         /\ task'[q].uid = id /\ task'[q].msg = task[q].msg
         /\ task' = [task EXCEPT ![q] = task'[q]]
  <1>1. PICK o : o = task[q]
    OBVIOUS
  <1>2. /\ o \in Tasks /\ task \in [Requests -> Tasks]
        /\ o = [op |-> o.op, at |-> o.at, from |-> o.from, dest |-> o.dest,
                uid |-> o.uid, msg |-> o.msg, copied |-> o.copied]
    BY <1>1, TaskFields
  <1>3. [o EXCEPT !.at = step] = [op |-> o.op, at |-> step, from |-> o.from, dest |-> o.dest,
                               uid |-> o.uid, msg |-> o.msg, copied |-> o.copied]
    BY <1>2
  <1>4. [[op |-> o.op, at |-> step, from |-> o.from, dest |-> o.dest,
         uid |-> o.uid, msg |-> o.msg, copied |-> o.copied] EXCEPT !.uid = id]
          = [op |-> o.op, at |-> step, from |-> o.from, dest |-> o.dest,
             uid |-> id, msg |-> o.msg, copied |-> o.copied]
    OBVIOUS
  <1>5. PICK t : t = [op |-> o.op, at |-> step, from |-> o.from, dest |-> o.dest,
                    uid |-> id, msg |-> o.msg, copied |-> o.copied]
    OBVIOUS
  <1>6. task' = [task EXCEPT ![q] = [[o EXCEPT !.at = step] EXCEPT !.uid = id]]
    BY <1>1, <1>2 DEF ToUid
  <1>7. [[o EXCEPT !.at = step] EXCEPT !.uid = id] = t
    BY <1>3, <1>4, <1>5
  <1>8. /\ t \in Tasks /\ t.op = o.op /\ t.at = step /\ t.from = o.from /\ t.dest = o.dest
        /\ t.uid = id /\ t.msg = o.msg /\ t.copied = o.copied
    BY <1>2, <1>5 DEF Tasks
  <1>9. task'[q] = t
    BY <1>2, <1>6, <1>7
  <1> QED
    BY <1>1, <1>6, <1>7, <1>8, <1>9

LEMMA StepTarget ==
  ASSUME WebmailInv, NEW q \in Requests, NEW step \in Steps, NEW id \in Nat, NEW m \in Nat,
         ToTarget(q, step, id, m)
  PROVE  /\ task'[q] \in Tasks
         /\ task'[q].op = task[q].op /\ task'[q].at = step
         /\ task'[q].from = task[q].from /\ task'[q].dest = task[q].dest
         /\ task'[q].uid = id /\ task'[q].msg = m
         /\ task' = [task EXCEPT ![q] = task'[q]]
  <1>1. PICK o : o = task[q]
    OBVIOUS
  <1>2. /\ o \in Tasks /\ task \in [Requests -> Tasks]
        /\ o = [op |-> o.op, at |-> o.at, from |-> o.from, dest |-> o.dest,
                uid |-> o.uid, msg |-> o.msg, copied |-> o.copied]
    BY <1>1, TaskFields
  <1>3. [o EXCEPT !.at = step] = [op |-> o.op, at |-> step, from |-> o.from, dest |-> o.dest,
                               uid |-> o.uid, msg |-> o.msg, copied |-> o.copied]
    BY <1>2
  <1>4. [[op |-> o.op, at |-> step, from |-> o.from, dest |-> o.dest,
         uid |-> o.uid, msg |-> o.msg, copied |-> o.copied] EXCEPT !.uid = id]
          = [op |-> o.op, at |-> step, from |-> o.from, dest |-> o.dest,
             uid |-> id, msg |-> o.msg, copied |-> o.copied]
    OBVIOUS
  <1>5. [[op |-> o.op, at |-> step, from |-> o.from, dest |-> o.dest,
         uid |-> id, msg |-> o.msg, copied |-> o.copied] EXCEPT !.msg = m]
          = [op |-> o.op, at |-> step, from |-> o.from, dest |-> o.dest,
             uid |-> id, msg |-> m, copied |-> o.copied]
    OBVIOUS
  <1>6. PICK t : t = [op |-> o.op, at |-> step, from |-> o.from, dest |-> o.dest,
                    uid |-> id, msg |-> m, copied |-> o.copied]
    OBVIOUS
  <1>7. task' = [task EXCEPT ![q] = [[[o EXCEPT !.at = step] EXCEPT !.uid = id] EXCEPT !.msg = m]]
    BY <1>1, <1>2 DEF ToTarget
  <1>8. [[[o EXCEPT !.at = step] EXCEPT !.uid = id] EXCEPT !.msg = m] = t
    BY <1>3, <1>4, <1>5, <1>6
  <1>9. /\ t \in Tasks /\ t.op = o.op /\ t.at = step /\ t.from = o.from /\ t.dest = o.dest
        /\ t.uid = id /\ t.msg = m /\ t.copied = o.copied
    BY <1>2, <1>6 DEF Tasks
  <1>10. task'[q] = t
    BY <1>2, <1>7, <1>8
  <1> QED
    BY <1>1, <1>7, <1>8, <1>9, <1>10

LEMMA StatusKeeps ==
  ASSUME WebmailInv, NEW q \in Requests, Status(q)
  PROVE  WebmailInv'
  <1>1. PICK o, d, u, l, h :
          o = task[q] /\ d = draft[q] /\ u = undo[q] /\ l = loaded[q] /\ h = had[q]
    OBVIOUS
  <1>2. /\ TabOK(o, d, u, l, h) /\ TaskOK(o) /\ o \in Tasks /\ TabInv(q)
        /\ draft = [draft EXCEPT ![q] = d] /\ undo = [undo EXCEPT ![q] = u]
        /\ loaded = [loaded EXCEPT ![q] = l] /\ had = [had EXCEPT ![q] = h]
    BY <1>1, TabOf
  <1>3. /\ o.at = "status" /\ UNCHANGED box /\ draft' = draft /\ undo' = undo /\ unsure' = unsure
        /\ loaded' = loaded /\ had' = had /\ shifted' = shifted /\ doomed' = doomed
        /\ skipped' = skipped /\ breaks' = breaks /\ requests' = requests
        /\ task' = [task EXCEPT ![q].at = "append", ![q].uid = nextUid["Drafts"]]
    BY <1>1 DEF Status, offer, list
  <1>4. nextUid["Drafts"] \in Nat \ {0}
    BY FoldersKnown DEF WebmailInv, RowsOK
  <1>5. PICK id \in Nat : id = nextUid["Drafts"]
    BY <1>4
  <1>6. PICK t : t = task'[q]
    OBVIOUS
  <1>7. /\ t \in Tasks /\ t.op = o.op /\ t.at = "append" /\ t.from = o.from /\ t.dest = o.dest
        /\ t.uid = nextUid["Drafts"] /\ task' = [task EXCEPT ![q] = t]
    <2>1. PICK step \in Steps : step = "append"
      BY DEF Steps
    <2>2. step \in Steps /\ id \in Nat /\ ToUid(q, step, id)
      BY <1>3, <1>5, <2>1 DEF ToUid
    <2>3. /\ task'[q] \in Tasks /\ task'[q].at = step /\ task'[q].uid = id
          /\ task'[q].op = task[q].op /\ task'[q].from = task[q].from
          /\ task'[q].dest = task[q].dest /\ task' = [task EXCEPT ![q] = task'[q]]
      BY <2>2, StepUid
    <2> QED
      BY <1>1, <1>5, <1>6, <2>1, <2>3
  <1>8. TaskOK(t) /\ t.op = "draft"
    BY <1>2, <1>3, <1>7 DEF TaskOK
  <1>9. TabOK(t, d, u, l, h)
    BY <1>2, <1>8 DEF TabOK
  <1>10. Turns(q, t, d, u, l, h)
    BY <1>2, <1>3, <1>7 DEF Turns
  <1>11. Fits(q, t, d, u, l, h)
    <2>1. TargetOK(t) /\ WayOK(t) /\ \A x \in mail : ~Aims(t, x)
      BY <1>7, Aimless
    <2>2. \A x \in mail : x.folder = "Drafts" => x.uid # nextUid["Drafts"]
      BY <1>4 DEF WebmailInv, RowsOK, MailRows
    <2>3. DraftOK(t, d)
      BY <1>1, <1>2, <1>4, <1>5, <1>7, <2>2 DEF TabInv, DraftOK
    <2>4. CopyThere(t)
      BY <1>8 DEF CopyThere, Seeks
    <2>5. q \in shifted \/ ListOK(t, l, h)
      <3>1. q \in shifted \/ ListOK(o, l, h)
        BY <1>1, <1>2 DEF TabInv
      <3> QED
        BY <1>3, <1>7, <1>8, <3>1, ListStaysOK
    <2>6. q \in unsure \/ UndoOK(u)
      BY <1>1, <1>2 DEF TabInv
    <2> QED
      BY <1>3, <2>1, <2>3, <2>4, <2>5, <2>6 DEF Fits
  <1>12. NotesOK'
    BY <1>3, NotesNow, NotesKept
  <1> QED
    BY <1>3, <1>9, <1>10, <1>11, <1>12, QuietKeeps

LEMMA LargestThere ==
  ASSUME NEW s \in SUBSET Nat, IsFiniteSet(s), s # {}
  PROVE  Largest(s) \in s
  <1>1. PICK n \in Nat : n = Cardinality(s) /\ n # 0
    BY FS_CardinalityType, FS_EmptySet
  <1>2. PICK num, page : num = [v \in s |-> Cardinality(Below(s, v))]
                         /\ page = {v \in s : num[v] \in n..n}
    OBVIOUS
  <1>3. \A v \in s : Below(s, v) \subseteq s /\ IsFiniteSet(Below(s, v))
                     /\ Cardinality(Below(s, v)) \in Nat
    <2>1. \A v \in s : Below(s, v) \subseteq s
      BY DEF Below
    <2> QED
      BY <2>1, FS_Subset, FS_CardinalityType
  <1>4. Numbering(s, num)
    <2>1. num \in [s -> Nat] /\ \A v \in s : num[v] = Cardinality(Below(s, v))
      BY <1>2, <1>3
    <2> QED
      BY <2>1 DEF Numbering
  <1>5. Between(s, num, n, n, page)
    <2>1. page \in SUBSET s /\ \A v \in s : v \in page <=> num[v] \in n..n
      BY <1>2
    <2> QED
      BY <1>1, <2>1 DEF Between
  <1>6. Cardinality(page) = 1
    BY <1>1, <1>4, <1>5, NumberedWithoutGaps
  <1>7. PICK v \in s : Cardinality(Below(s, v)) = n
    <2>1. page # {}
      BY <1>6, FS_EmptySet
    <2>2. PICK v \in page : TRUE
      BY <2>1
    <2> QED
      BY <1>1, <1>2, <2>2
  <1>8. Below(s, v) = s
    BY <1>1, <1>3, <1>7, FS_Subset
  <1>9. \A w \in s : v >= w
    <2>1. \A w \in s : w <= v
      BY <1>8 DEF Below
    <2> QED
      BY <2>1
  <1> QED
    BY <1>9 DEF Largest

\* What is there to undo after a request is over.
LEMMA UndoneKeeps ==
  ASSUME WebmailInv, NEW q \in Requests, NEW u \in Marks,
         Over(q), undo' = [undo EXCEPT ![q] = u], task[q].op = "trash",
         q \in unsure' \/ UndoOK(u), unsure \subseteq unsure', unsure' \subseteq Requests,
         UNCHANGED box, UNCHANGED list, UNCHANGED <<draft, doomed, skipped, requests>>,
         breaks' \in 0..MaxBreaks
  PROVE  WebmailInv'
  <1>1. PICK o, d, l, h : o = task[q] /\ d = draft[q] /\ l = loaded[q] /\ h = had[q]
    OBVIOUS
  <1>2. /\ TabOK(o, d, undo[q], l, h) /\ TaskOK(o) /\ TabInv(q)
        /\ draft = [draft EXCEPT ![q] = d]
        /\ loaded = [loaded EXCEPT ![q] = l] /\ had = [had EXCEPT ![q] = h]
    BY <1>1, TabOf
  <1>3. loaded' = loaded /\ had' = had /\ shifted' = shifted
    BY DEF list
  <1>4. TabOK(Idle, d, u, l, h)
    BY <1>2, IdleOK DEF TabOK
  <1>5. Turns(q, Idle, d, u, l, h)
    BY <1>2, <1>3 DEF Turns, Over
  <1>6. Fits(q, Idle, d, u, l, h)
    <2>1. DraftOK(Idle, d)
      BY <1>1, <1>2, IdleOK, DraftStays DEF TabInv
    <2>2. q \in shifted \/ ListOK(Idle, l, h)
      <3>1. q \in shifted \/ ListOK(o, l, h)
        BY <1>1, <1>2 DEF TabInv
      <3>2. o.at # "fetch"
        BY <1>1, <1>2 DEF TaskOK
      <3> QED
        BY <3>1, <3>2, IdleOK, ListStaysOK
    <2> QED
      BY <1>3, <2>1, <2>2, IdleOK DEF Fits
  <1>7. NotesOK'
    BY <1>3, NotesNow, NotesKept
  <1> QED
    BY <1>3, <1>4, <1>5, <1>6, <1>7, QuietKeeps

LEMMA LocateKeeps ==
  ASSUME WebmailInv, NEW q \in Requests, Locate(q)
  PROVE  WebmailInv'
  <1>1. PICK t, s : t = task[q] /\ s = {x.uid : x \in Listed(task[q].dest)}
    OBVIOUS
  <1>2. PICK u : u = [id |-> Largest(s), msg |-> t.msg]
    OBVIOUS
  <1>3. u.id = Largest(s) /\ u.msg = t.msg
    BY <1>2
  <1>4. /\ t.at = "locate" /\ s # {} /\ Over(q) /\ undo' = [undo EXCEPT ![q] = u]
        /\ UNCHANGED box /\ UNCHANGED list /\ UNCHANGED <<draft, doomed, skipped, requests>>
        /\ unsure' = unsure /\ breaks' = breaks
    BY <1>1, <1>2 DEF Locate, Found
  <1>5. /\ TaskOK(t) /\ t \in Tasks /\ TabInv(q)
        /\ t.op = "trash" /\ t.from # t.dest /\ t.dest = "Trash" /\ Seeks(t)
    <2>1. TaskOK(t) /\ t \in Tasks /\ TabInv(q)
      BY <1>1, TabOf
    <2> QED
      BY <1>4, <2>1 DEF TaskOK, Seeks
  <1>6. s \in SUBSET Nat /\ IsFiniteSet(s)
    <2>1. Listed(t.dest) \in SUBSET In(t.dest)
      BY DEF Listed, Newest
    <2>2. \A x \in In(t.dest) : x.uid \in Nat
      BY DEF WebmailInv, RowsOK, MailRows, In
    <2> QED
      BY <1>1, <2>1, <2>2, CountedByUids DEF WebmailInv
  <1>7. u \in Marks
    BY <1>2, <1>4, <1>5, <1>6, LargestThere DEF Marks, Tasks
  <1>8. ASSUME CopyThere(t)
        PROVE  UndoOK(u)
    <2>1. PICK x \in mail : x.folder = "Trash" /\ x.uid = nextUid["Trash"] - 1 /\ x.msg = t.msg
      BY <1>5, <1>8 DEF CopyThere
    <2>2. u.id = nextUid["Trash"] - 1
      BY <1>1, <1>3, <1>5, <2>1, NewestFound, FoldersKnown DEF WebmailInv
    <2>3. nextUid["Trash"] \in Nat
      BY FoldersKnown DEF WebmailInv, RowsOK
    <2>4. \A y \in mail : y.folder = "Trash" /\ y.uid = u.id => y = x
      BY <2>1, <2>2 DEF WebmailInv, RowsOK
    <2> QED
      BY <1>3, <2>1, <2>2, <2>3, <2>4 DEF UndoOK
  <1>9. q \in unsure' \/ UndoOK(u)
    BY <1>1, <1>4, <1>5, <1>8 DEF TabInv
  <1> QED
    BY <1>1, <1>4, <1>5, <1>7, <1>9, NotesNow, UndoneKeeps

LEMMA LocateFailsKeeps ==
  ASSUME WebmailInv, NEW q \in Requests, LocateFails(q)
  PROVE  WebmailInv'
  <1>1. PICK t : t = task[q]
    OBVIOUS
  <1>2. PICK u : u = [id |-> t.uid, msg |-> t.msg]
    OBVIOUS
  <1>3. /\ t.at = "locate" /\ Over(q) /\ undo' = [undo EXCEPT ![q] = u]
        /\ UNCHANGED box /\ UNCHANGED list /\ UNCHANGED <<draft, doomed, skipped, requests>>
        /\ unsure' = unsure \cup {q}
    BY <1>1, <1>2 DEF LocateFails
  <1>4. breaks' \in 0..MaxBreaks
    BY NotesNow DEF LocateFails
  <1>5. TaskOK(t) /\ t \in Tasks
    BY <1>1, TabOf
  <1>6. u \in Marks /\ t.op = "trash"
    BY <1>2, <1>3, <1>5 DEF Marks, Tasks, TaskOK
  <1>7. q \in unsure' /\ unsure \subseteq unsure' /\ unsure' \subseteq Requests
    BY <1>3, NotesNow
  <1> QED
    BY <1>1, <1>3, <1>4, <1>6, <1>7, UndoneKeeps

\* COPY found nothing: the request goes on, and is about a message it has not copied.
LEMMA CopyMissKeeps ==
  ASSUME WebmailInv, NEW q \in Requests, Copy(q), Named(q) \cap Listed(task[q].from) = {}
  PROVE  WebmailInv'
  <1>1. PICK o, d, u, l, h :
          o = task[q] /\ d = draft[q] /\ u = undo[q] /\ l = loaded[q] /\ h = had[q]
    OBVIOUS
  <1>2. /\ TabOK(o, d, u, l, h) /\ TaskOK(o) /\ o \in Tasks /\ TabInv(q)
        /\ draft = [draft EXCEPT ![q] = d] /\ undo = [undo EXCEPT ![q] = u]
        /\ loaded = [loaded EXCEPT ![q] = l] /\ had = [had EXCEPT ![q] = h]
    BY <1>1, TabOf
  <1>3. /\ o.at = "copy" /\ UNCHANGED box /\ draft' = draft /\ undo' = undo
        /\ unsure' = unsure \cup {q} /\ loaded' = loaded /\ had' = had /\ shifted' = shifted
        /\ doomed' = doomed /\ skipped' = skipped /\ breaks' = breaks /\ requests' = requests
        /\ task' = [task EXCEPT ![q].at = "flag"]
    BY <1>1 DEF Copy, Goto, list
  <1>4. PICK t : t = task'[q]
    OBVIOUS
  <1>5. /\ t \in Tasks /\ t.op = o.op /\ t.at = "flag" /\ t.from = o.from /\ t.dest = o.dest
        /\ t.uid = o.uid /\ (t.copied <=> o.copied) /\ task' = [task EXCEPT ![q] = t]
    <2>1. PICK step \in Steps : step = "flag"
      BY DEF Steps
    <2>2. step \in Steps /\ ToStep(q, step)
      BY <1>3, <2>1 DEF ToStep
    <2>3. /\ task'[q] \in Tasks /\ task'[q].at = step /\ task'[q].op = task[q].op
          /\ task'[q].from = task[q].from /\ task'[q].dest = task[q].dest
          /\ task'[q].uid = task[q].uid /\ (task'[q].copied <=> task[q].copied)
          /\ task' = [task EXCEPT ![q] = task'[q]]
      BY <2>2, StepTo
    <2> QED
      BY <1>1, <1>4, <2>1, <2>3
  <1>6. TaskOK(t) /\ t.op \in {"trash", "move"} /\ Uncopied(t)
    BY <1>2, <1>3, <1>5 DEF TaskOK, Uncopied
  <1>7. TabOK(t, d, u, l, h)
    BY <1>2, <1>6 DEF TabOK
  <1>8. Turns(q, t, d, u, l, h)
    BY <1>2, <1>3, <1>5 DEF Turns
  <1>9. Fits(q, t, d, u, l, h)
    <2>1. DraftOK(t, d)
      BY <1>1, <1>2, <1>5, DraftStays DEF TabInv
    <2>2. TargetOK(t) /\ WayOK(t)
      BY <1>1, <1>2, <1>3, <1>5 DEF TabInv, TargetOK, WayOK
    <2>3. \A x \in mail : ~Aims(t, x)
      BY <1>6 DEF Aims
    <2>4. q \in shifted \/ ListOK(t, l, h)
      <3>1. q \in shifted \/ ListOK(o, l, h)
        BY <1>1, <1>2 DEF TabInv
      <3>2. t.op # "more"
        BY <1>6
      <3> QED
        BY <1>3, <1>5, <3>1, <3>2, ListStaysOK
    <2> QED
      BY <1>3, <2>1, <2>2, <2>3, <2>4 DEF Fits
  <1>10. NotesOK'
    BY <1>3, NotesNow, NotesKept
  <1> QED
    BY <1>3, <1>7, <1>8, <1>9, <1>10, QuietKeeps

LEMMA UpToBounds ==
  ASSUME RowsOK, NEW f
  PROVE  /\ Cardinality(Uids(f)) \in Nat /\ Cardinality(In(f)) = Cardinality(Uids(f))
         /\ \A u \in Uids(f) : Cardinality(UpTo(f, u)) \in 1..Cardinality(Uids(f))
  <1>1. Cardinality(Uids(f)) \in Nat /\ Cardinality(In(f)) = Cardinality(Uids(f))
    BY CountedByUids DEF Uids
  <1>2. ASSUME NEW u \in Uids(f)
        PROVE  Cardinality(UpTo(f, u)) \in 1..Cardinality(Uids(f))
    <2>1. PICK low : low = UpTo(f, u)
      OBVIOUS
    <2>2. low \subseteq Uids(f) /\ u \in low
      BY <2>1, UidsAreNumbers DEF UpTo, Below
    <2>3. IsFiniteSet(low) /\ Cardinality(low) <= Cardinality(Uids(f)) /\ Cardinality(low) \in Nat
      BY <2>2, UidsFinite, FS_Subset, FS_CardinalityType
    <2>4. Cardinality(low) # 0
      BY <2>2, <2>3, FS_EmptySet
    <2> QED
      BY <1>1, <2>1, <2>3, <2>4
  <1> QED
    BY <1>1, <1>2

\* Steps of a request that loads a list: only the list and the request change.
LEMMA LoadingKeeps ==
  ASSUME WebmailInv, NEW q \in Requests, NEW t, NEW l, NEW h,
         task' = [task EXCEPT ![q] = t], loaded' = [loaded EXCEPT ![q] = l],
         had' = [had EXCEPT ![q] = h], UNCHANGED box, UNCHANGED offer,
         UNCHANGED <<draft, doomed, skipped, requests>>, breaks' \in 0..MaxBreaks,
         shifted \ {q} \subseteq shifted', shifted' \subseteq Requests,
         TaskOK(t), t.at \notin {"append", "copy", "flag", "mark"}, ~Seeks(t),
         l \in TabLists, h \subseteq Nat, l.more => l.folder \in Folders,
         t.op = "open" => l.folder = t.from /\ l.offset = 0 /\ t.msg = 0,
         t.op = "more" => l.folder = t.from,
         q \in shifted' \/ ListOK(t, l, h)
  PROVE  WebmailInv'
  <1>1. PICK d, u : d = draft[q] /\ u = undo[q]
    OBVIOUS
  <1>2. /\ TabOK(task[q], d, u, loaded[q], had[q]) /\ TabInv(q)
        /\ draft = [draft EXCEPT ![q] = d] /\ undo = [undo EXCEPT ![q] = u]
    BY <1>1, TabOf
  <1>3. undo' = undo /\ unsure' = unsure
    BY DEF offer
  <1>4. TabOK(t, d, u, l, h)
    BY <1>2 DEF TabOK
  <1>5. Turns(q, t, d, u, l, h)
    BY <1>2, <1>3 DEF Turns
  <1>6. Fits(q, t, d, u, l, h)
    <2>1. DraftOK(t, d)
      BY <1>1, <1>2, DraftStays DEF TabInv
    <2>2. TargetOK(t) /\ WayOK(t) /\ \A x \in mail : ~Aims(t, x)
      BY Aimless
    <2>3. CopyThere(t) /\ (q \in unsure \/ UndoOK(u))
      BY <1>1, <1>2 DEF TabInv, CopyThere
    <2> QED
      BY <1>3, <2>1, <2>2, <2>3 DEF Fits
  <1>7. NotesOK'
    BY <1>3, NotesNow, NotesKept
  <1> QED
    BY <1>3, <1>4, <1>5, <1>6, <1>7, QuietKeeps

LEMMA CountedOn ==
  ASSUME WebmailInv, NEW q \in Requests, Count(q), task[q].msg < Cardinality(In(task[q].from)),
         NEW n \in Nat, n = Cardinality(In(task[q].from))
  PROVE  /\ task'[q] \in Tasks /\ task'[q].op = task[q].op /\ task'[q].at = "fetch"
         /\ task'[q].from = task[q].from /\ task'[q].dest = task[q].dest
         /\ task'[q].uid = n /\ task'[q].msg = task[q].msg
         /\ task' = [task EXCEPT ![q] = task'[q]]
  <1>1. task' = [task EXCEPT ![q].at = "fetch", ![q].uid = n]
    BY DEF Count
  <1>2. PICK step \in Steps : step = "fetch"
    BY DEF Steps
  <1>3. step \in Steps /\ n \in Nat /\ ToUid(q, step, n)
    BY <1>1, <1>2 DEF ToUid
  <1>4. /\ task'[q] \in Tasks /\ task'[q].at = step /\ task'[q].op = task[q].op
        /\ task'[q].from = task[q].from /\ task'[q].dest = task[q].dest
        /\ task'[q].uid = n /\ task'[q].msg = task[q].msg
        /\ task' = [task EXCEPT ![q] = task'[q]]
    BY <1>3, StepUid
  <1> QED
    BY <1>2, <1>4

LEMMA CountKeeps ==
  ASSUME WebmailInv, NEW q \in Requests, Count(q)
  PROVE  WebmailInv'
  <1>1. PICK o, l, h : o = task[q] /\ l = loaded[q] /\ h = had[q]
    OBVIOUS
  <1>2. PICK f, n : f = o.from /\ n = Cardinality(In(o.from))
    OBVIOUS
  <1>3. /\ TabOK(o, draft[q], undo[q], l, h) /\ TaskOK(o) /\ o \in Tasks /\ TabInv(q)
        /\ loaded = [loaded EXCEPT ![q] = l] /\ had = [had EXCEPT ![q] = h]
    BY <1>1, TabOf
  <1>4. /\ o.at = "page" /\ o.op \in {"open", "more"} /\ f \in Folders /\ l.folder = f
        /\ o.msg \in Nat /\ l \in TabLists /\ h \subseteq Nat
        /\ (o.op = "open" => l.offset = 0 /\ o.msg = 0)
    BY <1>1, <1>2, <1>3 DEF Count, TaskOK, TabOK, Tasks
  <1>5. n \in Nat /\ n = Cardinality(Uids(f)) /\ Uids(f) \subseteq Nat
        /\ \A u \in Uids(f) : Cardinality(UpTo(f, u)) \in 1..n
    BY <1>2, UpToBounds, UidsAreNumbers DEF WebmailInv
  <1>6. /\ UNCHANGED box /\ UNCHANGED offer /\ UNCHANGED <<draft, doomed, skipped, requests>>
        /\ breaks' \in 0..MaxBreaks
    BY NotesNow DEF Count
  <1>7. PICK g : g = IF o.op = "open" THEN Uids(f) ELSE h
    OBVIOUS
  <1>8. /\ had' = [had EXCEPT ![q] = g] /\ g \subseteq Nat
        /\ shifted' = IF o.op = "open" THEN shifted \ {q} ELSE shifted
    <2>1. CASE o.op = "open"
      BY <1>1, <1>2, <1>5, <1>7, <2>1 DEF Count, Uids
    <2>2. CASE o.op # "open"
      BY <1>1, <1>3, <1>4, <1>7, <2>2 DEF Count
    <2> QED
      BY <2>1, <2>2
  <1>9. shifted \ {q} \subseteq shifted' /\ shifted' \subseteq Requests
    BY <1>8, NotesNow
  <1>10. q \in shifted' \/ (/\ g \subseteq Uids(f) /\ (o.op = "more" => l.more /\ o.msg = l.offset)
                            /\ \A u \in g : Cardinality(UpTo(f, u)) + o.msg > n => u \in l.uids)
    <2>1. CASE o.op = "open"
      <3>1. \A u \in g : ~(Cardinality(UpTo(f, u)) + o.msg > n)
        BY <1>4, <1>5, <1>7, <2>1
      <3> QED
        BY <1>7, <2>1, <3>1
    <2>2. CASE o.op = "more" /\ ListOK(o, l, h)
      <3>1. l.more /\ o.msg = l.offset /\ Held(l, h)
        BY <2>2 DEF ListOK
      <3> QED
        BY <1>4, <1>5, <1>7, <2>2, <3>1 DEF Held
    <2>3. CASE o.op = "more" /\ q \in shifted
      BY <1>8, <2>3
    <2> QED
      BY <1>1, <1>3, <1>4, <2>1, <2>2, <2>3 DEF TabInv
  <1>11. CASE o.msg < n
    <2>1. PICK t : t = task'[q]
      OBVIOUS
    <2>2. /\ t \in Tasks /\ t.op = o.op /\ t.at = "fetch" /\ t.from = f /\ t.dest = o.dest
          /\ t.uid = n /\ t.msg = o.msg /\ task' = [task EXCEPT ![q] = t]
      <3>1. n \in Nat /\ n = Cardinality(In(task[q].from)) /\ task[q].msg < Cardinality(In(task[q].from))
        BY <1>1, <1>2, <1>5, <1>11
      <3> QED
        BY <1>1, <1>2, <2>1, <3>1, CountedOn
    <2>3. loaded' = [loaded EXCEPT ![q] = l]
      BY <1>1, <1>2, <1>3, <1>11 DEF Count
    <2>4. TaskOK(t) /\ ~Seeks(t)
      BY <1>3, <1>4, <1>11, <2>2 DEF TaskOK, Seeks
    <2>5. q \in shifted' \/ ListOK(t, l, g)
      <3>1. ASSUME q \notin shifted'
            PROVE  ListOK(t, l, g)
        <4>1. g \subseteq Uids(f) /\ (o.op = "more" => l.more /\ o.msg = l.offset)
              /\ \A u \in g : Cardinality(UpTo(f, u)) + o.msg > n => u \in l.uids
          BY <1>10, <3>1
        <4>2. Counted(t, l, g)
          BY <1>4, <1>5, <2>2, <4>1 DEF Counted
        <4>3. Held(l, g)
          <5>1. CASE o.op = "open"
            BY <1>4, <1>5, <4>1, <5>1 DEF Held
          <5>2. CASE o.op = "more"
            BY <1>4, <1>5, <4>1, <5>2 DEF Held
          <5> QED
            BY <1>4, <5>1, <5>2
        <4> QED
          BY <2>2, <4>1, <4>2, <4>3 DEF ListOK
      <3> QED
        BY <3>1
    <2>6. (l.more => l.folder \in Folders) /\ (t.op = "open" => l.folder = t.from /\ l.offset = 0 /\ t.msg = 0)
          /\ (t.op = "more" => l.folder = t.from) /\ t.at \notin {"append", "copy", "flag", "mark"}
      BY <1>4, <2>2
    <2> QED
      BY <1>4, <1>6, <1>8, <1>9, <2>2, <2>3, <2>4, <2>5, <2>6, LoadingKeeps
  <1>12. CASE ~(o.msg < n)
    <2>1. PICK k : k = [folder |-> l.folder, uids |-> l.uids, offset |-> l.offset, more |-> FALSE]
      OBVIOUS
    <2>2. /\ k \in TabLists /\ k.folder = f /\ k.uids = l.uids /\ k.offset = l.offset
          /\ k.more = FALSE
      BY <1>4, <2>1 DEF TabLists
    <2>3. loaded' = [loaded EXCEPT ![q] = k] /\ task' = [task EXCEPT ![q] = Idle]
      <3>1. loaded' = [loaded EXCEPT ![q] = [l EXCEPT !.more = FALSE]]
            /\ task' = [task EXCEPT ![q] = Idle]
        BY <1>1, <1>2, <1>12 DEF Count, Over
      <3>2. l = [folder |-> l.folder, uids |-> l.uids, offset |-> l.offset, more |-> l.more]
        BY <1>4 DEF TabLists
      <3>3. PICK b \in BOOLEAN : b = FALSE
        OBVIOUS
      <3>4. [l EXCEPT !.more = b]
              = [folder |-> l.folder, uids |-> l.uids, offset |-> l.offset, more |-> b]
        BY <3>2
      <3> QED
        BY <2>1, <3>1, <3>3, <3>4
    <2>4. q \in shifted' \/ ListOK(Idle, k, g)
      <3>1. ASSUME q \notin shifted'
            PROVE  ListOK(Idle, k, g)
        <4>1. g \subseteq Uids(f) /\ (o.op = "more" => l.more /\ o.msg = l.offset)
              /\ \A u \in g : Cardinality(UpTo(f, u)) + o.msg > n => u \in l.uids
          BY <1>10, <3>1
        <4>2. \A u \in g : u \in k.uids
          BY <1>4, <1>5, <1>12, <2>2, <4>1
        <4>3. Held(k, g) /\ g \subseteq k.uids
          BY <2>2, <4>1, <4>2 DEF Held
        <4> QED
          BY <4>3, IdleOK DEF ListOK
      <3> QED
        BY <3>1
    <2>5. (k.more => k.folder \in Folders)
      BY <2>2
    <2>6. (Idle.op = "open" => k.folder = Idle.from /\ k.offset = 0 /\ Idle.msg = 0)
          /\ (Idle.op = "more" => k.folder = Idle.from) /\ Idle.at \notin {"append", "copy", "flag", "mark"}
      BY IdleOK
    <2> QED
      BY <1>6, <1>8, <1>9, <2>2, <2>3, <2>4, <2>5, <2>6, IdleOK, LoadingKeeps
  <1> QED
    BY <1>11, <1>12

LEMMA FetchKeeps ==
  ASSUME WebmailInv, NEW q \in Requests, Fetch(q)
  PROVE  WebmailInv'
  <1>1. PICK o, l, h, page : o = task[q] /\ l = loaded[q] /\ h = had[q] /\ page = PageOf(q)
    OBVIOUS
  <1>2. PICK f, found : f = o.from /\ found = {x.uid : x \in page}
    OBVIOUS
  <1>3. /\ TabOK(o, draft[q], undo[q], l, h) /\ TaskOK(o) /\ o \in Tasks /\ TabInv(q)
        /\ had = [had EXCEPT ![q] = h]
    BY <1>1, TabOf
  <1>4. /\ o.at = "fetch" /\ o.op \in {"open", "more"} /\ f \in Folders /\ l.folder = f
        /\ o.msg \in Nat /\ o.uid \in Nat /\ o.msg < o.uid /\ l \in TabLists /\ h \subseteq Nat
    BY <1>1, <1>2, <1>3 DEF Fetch, TaskOK, TabOK, Tasks
  <1>5. /\ UNCHANGED box /\ UNCHANGED offer /\ UNCHANGED <<draft, doomed, skipped, requests>>
        /\ breaks' \in 0..MaxBreaks /\ task' = [task EXCEPT ![q] = Idle]
        /\ had' = [had EXCEPT ![q] = h]
    BY <1>3, NotesNow DEF Fetch, Over
  <1>6. shifted' = IF Cardinality(In(f)) > ListLimit THEN shifted \cup {q} ELSE shifted
    BY <1>1, <1>2 DEF Fetch
  <1>7. page \in SUBSET Listed(f) /\ page \in SUBSET In(f)
    BY <1>1, <1>2 DEF PageOf, Listed, Newest
  <1>8. Cardinality(page) \in Nat /\ found \subseteq Uids(f) /\ found \subseteq Nat
    <2>1. Cardinality(page) \in Nat
      BY <1>2, <1>7, CountedByUids DEF WebmailInv
    <2>2. found \subseteq Uids(f)
      BY <1>2, <1>7 DEF Uids
    <2> QED
      BY <2>1, <2>2, UidsAreNumbers DEF WebmailInv
  <1>9. PICK c \in Nat : c = Cardinality(page)
    BY <1>8
  <1>10. PICK k : k = [folder |-> l.folder, uids |-> l.uids \cup found, offset |-> o.msg + c,
                       more |-> c >= PageSize]
    OBVIOUS
  <1>11. loaded' = [loaded EXCEPT ![q] = k]
    BY <1>1, <1>2, <1>9, <1>10 DEF Fetch
  <1>12. k.folder = f /\ k.uids = l.uids \cup found /\ k.offset = o.msg + c
         /\ (k.more <=> c >= PageSize)
    BY <1>4, <1>10
  <1>13. k \in TabLists
    <2>1. /\ l.folder \in Folders \cup {"none"} /\ l.uids \cup found \in SUBSET Nat
          /\ o.msg + c \in Nat
      <3>1. l.uids \in SUBSET Nat /\ l.folder \in Folders \cup {"none"}
        BY <1>4 DEF TabLists
      <3>2. l.uids \cup found \in SUBSET Nat
        BY <1>8, <3>1
      <3>3. o.msg + c \in Nat
        BY <1>4
      <3> QED
        BY <3>1, <3>2, <3>3
    <2> QED
      BY <1>10, <2>1 DEF TabLists
  <1>14. ASSUME q \notin shifted'
         PROVE  ListOK(Idle, k, h)
    <2>1. Cardinality(In(f)) <= ListLimit /\ q \notin shifted
      <3>1. Cardinality(In(f)) \in Nat
        BY UpToBounds DEF WebmailInv
      <3> QED
        BY <1>6, <1>14, <3>1, WebmailBounds
    <2>2. Held(l, h) /\ Counted(o, l, h)
      BY <1>1, <1>3, <1>4, <2>1 DEF TabInv, ListOK
    <2>3. PICK n \in Nat : /\ n = Cardinality(Uids(f)) /\ n = Cardinality(In(f))
                          /\ \A u \in Uids(f) : Cardinality(UpTo(f, u)) \in 1..n
      BY UpToBounds DEF WebmailInv
    <2>4. PICK b \in Nat : b = o.uid - o.msg /\ b # 0
      BY <1>4
    <2>5. PICK a \in Nat \ {0} : /\ a = b - Smaller(PageSize, b) + 1
                                /\ a = IF PageSize < b THEN b - PageSize + 1 ELSE 1
      BY <2>4, WebmailBounds DEF Smaller
    <2>6. Finds(f, a, b, page)
      <3>1. \A x \in Listed(f) : x \in page <=> Number(x) \in a..b
        BY <1>1, <1>2, <2>4, <2>5 DEF PageOf, Wanted
      <3>2. o.uid <= n
        BY <1>4, <2>2, <2>3 DEF Counted
      <3>3. b <= n
        BY <1>4, <2>4, <3>2
      <3> QED
        BY <1>7, <2>1, <2>3, <2>4, <2>5, <3>1, <3>3 DEF Finds
    <2>7. /\ c = b - a + 1
          /\ \A v \in Uids(f) : Cardinality(UpTo(f, v)) \in a..b => v \in found
      <3>1. /\ Cardinality(page) = IF a > b THEN 0 ELSE b - a + 1
            /\ \A v \in Uids(f) : Cardinality(UpTo(f, v)) \in a..b => v \in found
        BY <1>2, <2>6, PageFound DEF WebmailInv
      <3>2. a <= b
        BY <2>4, <2>5, WebmailBounds
      <3> QED
        BY <1>9, <2>4, <2>5, <3>1, <3>2
    <2>8. h \subseteq Uids(f) /\ o.uid <= n
          /\ \A u \in h : Cardinality(UpTo(f, u)) + o.msg > o.uid => u \in l.uids
      BY <1>4, <2>2, <2>3 DEF Held, Counted
    <2>9. ASSUME NEW u \in h
          PROVE  /\ Cardinality(UpTo(f, u)) + k.offset > n => u \in k.uids
                 /\ ~k.more => u \in k.uids
      <3>1. PICK i \in 1..n : i = Cardinality(UpTo(f, u))
        BY <2>3, <2>8
      <3>2. CASE i + o.msg > o.uid
        BY <1>12, <2>8, <3>1, <3>2
      <3>3. CASE ~(i + o.msg > o.uid)
        <4>1. i <= b
          BY <1>4, <2>4, <3>3
        <4>2. i \in a..b => u \in found
          BY <2>7, <2>8, <3>1
        <4>3. i + (o.msg + c) > n => i >= a
          BY <1>4, <2>4, <2>5, <2>7, <2>8
        <4>4. ~(c >= PageSize) => a = 1
          BY <2>4, <2>5, <2>7, WebmailBounds
        <4> QED
          BY <1>12, <2>5, <3>1, <4>1, <4>2, <4>3, <4>4
      <3> QED
        BY <3>2, <3>3
    <2>10. Held(k, h)
      BY <1>12, <2>3, <2>8, <2>9 DEF Held
    <2> QED
      BY <2>9, <2>10, IdleOK DEF ListOK
  <1>15. shifted \ {q} \subseteq shifted' /\ shifted' \subseteq Requests
    BY <1>6, NotesNow
  <1>16. k.more => k.folder \in Folders
    BY <1>4, <1>12
  <1>17. /\ (Idle.op = "open" => k.folder = Idle.from /\ k.offset = 0 /\ Idle.msg = 0)
         /\ (Idle.op = "more" => k.folder = Idle.from)
         /\ Idle.at \notin {"append", "copy", "flag", "mark"}
    BY IdleOK
  <1>18. q \in shifted' \/ ListOK(Idle, k, h)
    BY <1>14
  <1> QED
    BY <1>4, <1>5, <1>11, <1>13, <1>15, <1>16, <1>17, <1>18, IdleOK, LoadingKeeps

LEMMA RefreshKeeps ==
  ASSUME WebmailInv, NEW q \in Requests, Refresh(q)
  PROVE  WebmailInv'
  <1>1. PICK o, l, h : o = task[q] /\ l = loaded[q] /\ h = had[q]
    OBVIOUS
  <1>2. PICK page : page = {x \in Listed(o.from) : x \in Newest(o.from, PageSize)}
    OBVIOUS
  <1>3. /\ TabOK(o, draft[q], undo[q], l, h) /\ TaskOK(o) /\ o \in Tasks
        /\ task = [task EXCEPT ![q] = o] /\ had = [had EXCEPT ![q] = h]
    BY <1>1, TabOf
  <1>4. /\ o.op = "more" /\ o.from \in Folders /\ l.folder = o.from /\ l \in TabLists
        /\ h \subseteq Nat
    BY <1>1, <1>3 DEF Refresh, TabOK, Tasks
  <1>5. /\ UNCHANGED box /\ UNCHANGED offer /\ UNCHANGED <<draft, doomed, skipped, requests>>
        /\ breaks' \in 0..MaxBreaks /\ task' = [task EXCEPT ![q] = o]
        /\ had' = [had EXCEPT ![q] = h] /\ shifted' = shifted \cup {q}
    BY <1>3, NotesNow DEF Refresh
  <1>6. page \in SUBSET In(o.from)
    BY <1>2 DEF Listed, Newest
  <1>7. Cardinality(page) \in Nat /\ {x.uid : x \in page} \subseteq Nat
    <2>1. PICK found : found = {x.uid : x \in page}
      OBVIOUS
    <2>2. Cardinality(page) = Cardinality(found) /\ Cardinality(found) \in Nat
      BY <1>6, <2>1, CountedByUids DEF WebmailInv
    <2>3. found \subseteq Nat
      BY <1>6, <2>1 DEF WebmailInv, RowsOK, MailRows, In
    <2> QED
      BY <2>1, <2>2, <2>3
  <1>8. PICK k : k = [folder |-> l.folder, uids |-> {x.uid : x \in page},
                      offset |-> Cardinality(page), more |-> Cardinality(page) >= PageSize]
    OBVIOUS
  <1>9. loaded' = [loaded EXCEPT ![q] = k]
    BY <1>1, <1>2, <1>8 DEF Refresh
  <1>10. k.folder = o.from
    BY <1>4, <1>8
  <1>11. k \in TabLists
    BY <1>4, <1>7, <1>8 DEF TabLists
  <1>12. o.at \in {"page", "fetch"} /\ ~Seeks(o)
    BY <1>3, <1>4 DEF TaskOK, Seeks
  <1>13. shifted \ {q} \subseteq shifted' /\ shifted' \subseteq Requests /\ q \in shifted'
    BY <1>5, NotesNow
  <1>14. /\ (k.more => k.folder \in Folders)
         /\ (o.op = "open" => k.folder = o.from /\ k.offset = 0 /\ o.msg = 0)
         /\ (o.op = "more" => k.folder = o.from) /\ o.at \notin {"append", "copy", "flag", "mark"}
    BY <1>4, <1>10, <1>12
  <1> QED
    BY <1>3, <1>4, <1>5, <1>9, <1>11, <1>12, <1>13, <1>14, LoadingKeeps

LEMMA BreakOffKeeps ==
  ASSUME WebmailInv, NEW q \in Requests, BreakOff(q)
  PROVE  WebmailInv'
  <1>1. PICK o, l, h : o = task[q] /\ l = loaded[q] /\ h = had[q]
    OBVIOUS
  <1>2. /\ TabOK(o, draft[q], undo[q], l, h) /\ TaskOK(o) /\ o \in Tasks /\ TabInv(q)
        /\ loaded = [loaded EXCEPT ![q] = l] /\ had = [had EXCEPT ![q] = h]
    BY <1>1, TabOf
  <1>3. /\ l \in TabLists /\ h \subseteq Nat /\ (l.more => l.folder \in Folders) /\ o.uid \in Nat
    BY <1>2 DEF TabOK, Tasks
  <1>4. /\ UNCHANGED box /\ UNCHANGED offer /\ UNCHANGED <<draft, doomed, skipped, requests>>
        /\ breaks' \in 0..MaxBreaks /\ task' = [task EXCEPT ![q] = Idle] /\ shifted' = shifted
    BY NotesNow DEF BreakOff, Over
  <1>5. \E k, g : /\ loaded' = [loaded EXCEPT ![q] = k] /\ had' = [had EXCEPT ![q] = g]
                  /\ k \in TabLists /\ g \subseteq Nat /\ (k.more => k.folder \in Folders)
                  /\ q \in shifted \/ ListOK(Idle, k, g)
    <2>1. CASE o.op = "open"
      <3>1. loaded' = [loaded EXCEPT ![q] = NoList] /\ had' = [had EXCEPT ![q] = {}]
        BY <1>1, <2>1 DEF BreakOff
      <3>2. NoList \in TabLists /\ NoList.offset = 0 /\ NoList.more = FALSE
        BY DEF NoList, TabLists
      <3>3. ListOK(Idle, NoList, {})
        BY <3>2, IdleOK, EmptyListOK
      <3> QED
        BY <3>1, <3>2, <3>3
    <2>2. CASE o.op \in {"trash", "move"} /\ l.folder = o.from
      <3>1. PICK k : k = [folder |-> l.folder, uids |-> l.uids \cup {o.uid},
                          offset |-> l.offset, more |-> l.more]
        OBVIOUS
      <3>2. /\ k \in TabLists /\ k.folder = l.folder /\ k.uids = l.uids \cup {o.uid}
            /\ k.offset = l.offset /\ k.more = l.more
        BY <1>3, <3>1 DEF TabLists
      <3>3. loaded' = [loaded EXCEPT ![q] = k] /\ had' = [had EXCEPT ![q] = h]
        <4>1. loaded' = [loaded EXCEPT ![q] = [l EXCEPT !.uids = l.uids \cup {o.uid}]]
              /\ had' = [had EXCEPT ![q] = h]
          <5>1. /\ o.op # "open" /\ o.op \in {"trash", "move"} /\ loaded[q].folder = task[q].from
                /\ task[q].op # "open" /\ task[q].op \in {"trash", "move"}
            BY <1>1, <2>2
          <5>2. had' = had /\ loaded' = [loaded EXCEPT ![q].uids = @ \cup {task[q].uid}]
            BY <5>1 DEF BreakOff
          <5> QED
            BY <1>1, <1>2, <5>2
        <4>2. l = [folder |-> l.folder, uids |-> l.uids, offset |-> l.offset, more |-> l.more]
          BY <1>3 DEF TabLists
        <4>3. [l EXCEPT !.uids = l.uids \cup {o.uid}] = k
          BY <3>1, <4>2
        <4> QED
          BY <4>1, <4>3
      <3>4. ASSUME ListOK(o, l, h)
            PROVE  ListOK(Idle, k, h)
        <4>1. Held(l, h) /\ (l.more \/ h \subseteq l.uids)
          BY <1>2, <2>2, <3>4 DEF ListOK, TaskOK
        <4>2. Held(k, h) /\ (k.more \/ h \subseteq k.uids)
          BY <3>2, <4>1 DEF Held
        <4> QED
          BY <4>2, IdleOK DEF ListOK
      <3>5. q \in shifted \/ ListOK(Idle, k, h)
        BY <1>1, <1>2, <3>4 DEF TabInv
      <3>6. k.more => k.folder \in Folders
        BY <1>3, <3>2
      <3> QED
        BY <1>3, <3>2, <3>3, <3>5, <3>6
    <2>3. CASE o.op # "open" /\ ~(o.op \in {"trash", "move"} /\ l.folder = o.from)
      <3>1. loaded' = [loaded EXCEPT ![q] = l] /\ had' = [had EXCEPT ![q] = h]
        BY <1>1, <1>2, <2>3 DEF BreakOff
      <3>2. ASSUME ListOK(o, l, h)
            PROVE  ListOK(Idle, l, h)
        <4>1. CASE o.op = "more"
          BY <3>2, <4>1, IdleOK DEF ListOK
        <4>2. CASE o.op # "more"
          <5>1. o.at # "fetch"
            BY <1>2, <2>3, <4>2 DEF TaskOK
          <5> QED
            BY <3>2, <5>1, IdleOK, ListStaysOK
        <4> QED
          BY <4>1, <4>2
      <3> QED
        BY <1>1, <1>2, <1>3, <3>1, <3>2 DEF TabInv
    <2> QED
      BY <2>1, <2>2, <2>3
  <1>6. PICK k, g : /\ loaded' = [loaded EXCEPT ![q] = k] /\ had' = [had EXCEPT ![q] = g]
                    /\ k \in TabLists /\ g \subseteq Nat /\ (k.more => k.folder \in Folders)
                    /\ q \in shifted \/ ListOK(Idle, k, g)
    BY <1>5
  <1>7. /\ (Idle.op = "open" => k.folder = Idle.from /\ k.offset = 0 /\ Idle.msg = 0)
        /\ (Idle.op = "more" => k.folder = Idle.from)
        /\ Idle.at \notin {"append", "copy", "flag", "mark"}
    BY IdleOK
  <1>8. shifted \ {q} \subseteq shifted' /\ shifted' \subseteq Requests
    BY <1>4, NotesNow
  <1>9. q \in shifted' \/ ListOK(Idle, k, g)
    BY <1>4, <1>6
  <1> QED
    BY <1>4, <1>6, <1>7, <1>8, <1>9, IdleOK, LoadingKeeps

-----------------------------------------------------------------------------
(* Commands that insert a row.                                             *)

\* Row y comes into folder f.
Inserted(f, y) ==
  /\ f \in Folders /\ y.folder = f /\ y.uid = nextUid[f] /\ y.msg \in 1..(rowsEver + 1)
  /\ mail' = mail \cup {y} /\ rowsEver' = rowsEver + 1 /\ RowsOK'
  /\ \A g \in Folders : nextUid'[g] = IF g = f THEN nextUid[g] + 1 ELSE nextUid[g]

LEMMA InsertedRow ==
  ASSUME WebmailInv, NEW f \in Folders, NEW msg \in 1..(rowsEver + 1), NEW del \in BOOLEAN,
         Insert(f, msg, del)
  PROVE  \E y : Inserted(f, y) /\ y.msg = msg /\ (y.deleted <=> del)
  <1>1. RowsOK
    BY DEF WebmailInv
  <1>2. /\ RowsOK' /\ rowsEver' = rowsEver + 1
        /\ \A g \in Folders : nextUid'[g] = IF g = f THEN nextUid[g] + 1 ELSE nextUid[g]
        /\ \E y \in mail' : /\ y.folder = f /\ y.uid = nextUid[f] /\ y.msg = msg
                            /\ y.deleted = del /\ mail' = mail \cup {y}
    BY <1>1, InsertRows
  <1>3. PICK y \in mail' : /\ y.folder = f /\ y.uid = nextUid[f] /\ y.msg = msg
                           /\ y.deleted = del /\ mail' = mail \cup {y}
    BY <1>2
  <1> QED
    BY <1>2, <1>3 DEF Inserted

\* What the rows were, with numbers for their UIDs.
LEMMA RowsKnown ==
  ASSUME WebmailInv
  PROVE  /\ \A g \in Folders : nextUid[g] \in Nat \ {0}
         /\ \A x \in mail : /\ x.folder \in Folders /\ x.uid \in Nat \ {0} /\ x.uid < nextUid[x.folder]
                            /\ x.msg \in 1..rowsEver
         /\ rowsEver \in Nat
  BY DEF WebmailInv, RowsOK, MailRows

LEMMA InsertDraft ==
  ASSUME WebmailInv, NEW f, NEW y, Inserted(f, y), NEW t \in Tasks, NEW d \in Marks,
         DraftOK(t, d), guessed \subseteq guessed',
         f = "Drafts" /\ t.at = "append" /\ t.uid = nextUid["Drafts"] => y.msg \in guessed'
  PROVE  DraftOK(t, d)'
  <1>1. PICK k \in Nat : k = nextUid["Drafts"]
    BY RowsKnown, FoldersKnown
  <1>2. nextUid'["Drafts"] \in Nat /\ k <= nextUid'["Drafts"]
    BY <1>1, FoldersKnown DEF Inserted
  <1>3. d.id \in Nat /\ d.msg \in Nat /\ t.uid \in Nat /\ rowsEver \in Nat /\ rowsEver' = rowsEver + 1
    BY RowsKnown DEF Marks, Tasks, Inserted
  <1>4. \A x \in mail' : x.folder = "Drafts" => x \in mail \/ (x = y /\ f = "Drafts" /\ x.uid = k)
    BY <1>1 DEF Inserted
  <1>5. d.id < nextUid'["Drafts"] /\ d.msg <= rowsEver' /\ (d.id # 0 => d.msg # 0)
    BY <1>1, <1>2, <1>3 DEF DraftOK
  <1>6. \A x \in mail' : x.folder = "Drafts" /\ x.uid = d.id => x.msg = d.msg \/ x.msg \in guessed'
    BY <1>1, <1>3, <1>4 DEF DraftOK
  <1>7. t.at = "append" => t.uid <= nextUid'["Drafts"] /\ t.uid # 0
    BY <1>1, <1>2, <1>3 DEF DraftOK
  <1>8. t.at = "append" =>
          \A x \in mail' : x.folder = "Drafts" /\ x.uid = t.uid => x.msg \in guessed'
    BY <1>1, <1>4 DEF DraftOK
  <1> QED
    BY <1>5, <1>6, <1>7, <1>8 DEF DraftOK

LEMMA InsertTarget ==
  ASSUME WebmailInv, NEW f, NEW y, Inserted(f, y), NEW t \in Tasks, TargetOK(t), WayOK(t)
  PROVE  TargetOK(t)' /\ WayOK(t)' /\ ~Aims(t, y)
  <1>1. t.from \in Folders /\ t.uid \in Nat
    BY DEF Tasks
  <1>2. nextUid[t.from] \in Nat /\ nextUid'[t.from] \in Nat /\ nextUid[t.from] <= nextUid'[t.from]
    BY <1>1, RowsKnown DEF Inserted
  <1>3. t.at \in {"copy", "flag", "mark"} => t.uid < nextUid[t.from] /\ t.uid < nextUid'[t.from]
    BY <1>1, <1>2 DEF TargetOK
  <1>4. TargetOK(t)'
    BY <1>3 DEF TargetOK
  <1>5. t.at \in {"copy", "flag", "mark"} => ~(y.folder = t.from /\ y.uid = t.uid)
    BY <1>1, <1>2, <1>3 DEF Inserted
  <1>6. WayOK(t)'
    BY <1>5 DEF WayOK, Inserted
  <1> QED
    BY <1>4, <1>5, <1>6 DEF Aims

LEMMA InsertCopy ==
  ASSUME WebmailInv, NEW f, NEW y, Inserted(f, y), NEW t, CopyThere(t), f = "Trash" => ~Seeks(t)
  PROVE  CopyThere(t)'
  <1>1. CASE f = "Trash"
    BY <1>1 DEF CopyThere
  <1>2. CASE f # "Trash"
    <2>1. nextUid'["Trash"] = nextUid["Trash"] /\ mail \subseteq mail'
      BY <1>2, FoldersKnown DEF Inserted
    <2> QED
      BY <2>1 DEF CopyThere
  <1> QED
    BY <1>1, <1>2

LEMMA InsertUndo ==
  ASSUME WebmailInv, NEW f, NEW y, Inserted(f, y), NEW u \in Marks, UndoOK(u)
  PROVE  UndoOK(u)'
  <1>1. PICK k \in Nat : k = nextUid["Trash"]
    BY RowsKnown, FoldersKnown
  <1>2. nextUid'["Trash"] \in Nat /\ k <= nextUid'["Trash"] /\ u.id \in Nat /\ u.id < k
    BY <1>1, FoldersKnown DEF Inserted, Marks, UndoOK
  <1>3. \A x \in mail' : x.folder = "Trash" /\ x.uid = u.id => x \in mail
    BY <1>1, <1>2 DEF Inserted
  <1> QED
    BY <1>2, <1>3 DEF UndoOK

LEMMA InsertList ==
  ASSUME WebmailInv, NEW f, NEW y, Inserted(f, y), NEW t \in Tasks, NEW l \in TabLists, NEW h,
         ListOK(t, l, h)
  PROVE  ListOK(t, l, h)'
  <1>1. PICK g : g = l.folder
    OBVIOUS
  <1>2. PICK s, n : s = Uids(g) /\ n = Cardinality(s)
    OBVIOUS
  <1>3. s \subseteq Nat /\ IsFiniteSet(s) /\ n \in Nat
        /\ \A u \in s : Cardinality(Below(s, u)) \in 1..n
    BY <1>2, UidsAreNumbers, UidsFinite, UpToBounds DEF WebmailInv, UpTo
  <1>4. PICK z, m : z = Uids(g)' /\ m = Cardinality(z)
    OBVIOUS
  <1>5. l.offset \in Nat /\ t.msg \in Nat /\ t.uid \in Nat
    BY DEF TabLists, Tasks
  <1>6. s \subseteq z /\ m \in Nat /\ n <= m /\ \A u \in s : Below(z, u) = Below(s, u)
    <2>1. CASE g # f
      <3>1. z = s
        BY <1>2, <1>4, <2>1 DEF Uids, In, Inserted
      <3> QED
        BY <1>2, <1>3, <1>4, <3>1
    <2>2. CASE g = f
      <3>1. PICK k : k = y.uid
        OBVIOUS
      <3>2. z = s \cup {k}
        BY <1>2, <1>4, <2>2, <3>1 DEF Uids, In, Inserted
      <3>3. k \in Nat /\ \A v \in s : v < k
        <4>1. k = nextUid[f] /\ f \in Folders
          BY <3>1 DEF Inserted
        <4>2. \A x \in In(g) : x.uid \in Nat /\ x.uid < nextUid[f]
          BY <2>2, RowsKnown DEF In
        <4> QED
          BY <1>2, <4>1, <4>2, RowsKnown DEF Uids
      <3>4. k \notin s
        BY <1>3, <3>3
      <3>5. m = n + 1
        BY <1>2, <1>3, <1>4, <3>2, <3>4, FS_AddElement
      <3>6. \A u \in s : Below(z, u) = Below(s, u)
        <4>1. \A u \in s : ~(k <= u)
          BY <1>3, <3>3
        <4> QED
          BY <3>2, <4>1 DEF Below
      <3> QED
        BY <1>3, <3>2, <3>5, <3>6
    <2> QED
      BY <2>1, <2>2
  <1>7. Held(l, h) => Held(l, h)'
    <2>1. ASSUME Held(l, h)
          PROVE  /\ h \subseteq z
                 /\ \A u \in h : Cardinality(Below(z, u)) + l.offset > m => u \in l.uids
      <3>1. /\ h \subseteq s
            /\ \A u \in h : Cardinality(Below(s, u)) + l.offset > n => u \in l.uids
        BY <1>1, <1>2, <2>1 DEF Held, UpTo
      <3> QED
        BY <1>3, <1>5, <1>6, <3>1
    <2> QED
      BY <1>1, <1>4, <2>1 DEF Held, UpTo
  <1>8. Held(l, h) /\ Counted(t, l, h) => Counted(t, l, h)'
    <2>1. ASSUME Held(l, h), Counted(t, l, h)
          PROVE  /\ t.uid <= m
                 /\ \A u \in h : Cardinality(Below(z, u)) + t.msg > t.uid => u \in l.uids
      <3>1. /\ h \subseteq s /\ t.uid <= n
            /\ \A u \in h : Cardinality(Below(s, u)) + t.msg > t.uid => u \in l.uids
        BY <1>1, <1>2, <2>1 DEF Held, Counted, UpTo
      <3> QED
        BY <1>3, <1>5, <1>6, <3>1
    <2> QED
      BY <1>1, <1>4, <2>1 DEF Counted, UpTo
  <1> QED
    BY <1>7, <1>8 DEF ListOK

\* A tab that does nothing while the row is inserted.
Stays(p) ==
  /\ task'[p] = task[p] /\ draft'[p] = draft[p] /\ undo'[p] = undo[p]
  /\ loaded'[p] = loaded[p] /\ had'[p] = had[p]

LEMMA InsertTab ==
  ASSUME WebmailInv, NEW f, NEW y, Inserted(f, y), NEW p \in Requests, Stays(p),
         guessed \subseteq guessed', unsure \subseteq unsure', shifted \subseteq shifted',
         f = "Drafts" /\ Expects(p, nextUid["Drafts"]) => y.msg \in guessed',
         f = "Trash" /\ Looking(p) => p \in unsure'
  PROVE  TabInv(p)'
  <1>1. PICK t, d, u, l, h :
          t = task[p] /\ d = draft[p] /\ u = undo[p] /\ l = loaded[p] /\ h = had[p]
    OBVIOUS
  <1>2. /\ t \in Tasks /\ d \in Marks /\ u \in Marks /\ l \in TabLists
        /\ DraftOK(t, d) /\ TargetOK(t) /\ WayOK(t)
        /\ p \in unsure \/ (CopyThere(t) /\ UndoOK(u))
        /\ p \in shifted \/ ListOK(t, l, h)
    BY <1>1, TabOf DEF TabOK, TabInv
  <1>3. DraftOK(t, d)'
    <2>1. f = "Drafts" /\ t.at = "append" /\ t.uid = nextUid["Drafts"] => y.msg \in guessed'
      BY <1>1 DEF Expects
    <2> QED
      BY <1>2, <2>1, InsertDraft
  <1>4. TargetOK(t)' /\ WayOK(t)'
    BY <1>2, InsertTarget
  <1>5. p \in unsure' \/ (CopyThere(t)' /\ UndoOK(u)')
    <2>1. ASSUME p \notin unsure'
          PROVE  CopyThere(t)' /\ UndoOK(u)'
      <3>1. CopyThere(t) /\ UndoOK(u)
        BY <1>2, <2>1
      <3>2. f = "Trash" => ~Seeks(t)
        BY <1>1, <2>1 DEF Looking, Seeks
      <3> QED
        BY <1>2, <3>1, <3>2, InsertCopy, InsertUndo
    <2> QED
      BY <2>1
  <1>6. p \in shifted' \/ ListOK(t, l, h)'
    BY <1>2, InsertList
  <1> QED
    <2>1. task'[p] = t /\ draft'[p] = d /\ undo'[p] = u /\ loaded'[p] = l /\ had'[p] = h
      BY <1>1 DEF Stays
    <2> QED
      BY <1>3, <1>4, <1>5, <1>6, <2>1, TabInvNow

LEMMA SafeInsert ==
  ASSUME WebmailInv, NEW f, NEW y, Inserted(f, y),
         doomed \subseteq doomed', skipped \subseteq skipped', guessed \subseteq guessed',
         \A m \in stored' : m \in stored \/ (m = y.msg /\ ~y.deleted),
         \A p \in Requests : ~Aims(task'[p], y),
         \A p \in Requests : \A x \in mail : Aims(task'[p], x) =>
           \/ Aims(task[p], x) \/ x.msg \in doomed' \cup guessed'
           \/ x.msg = y.msg /\ (y.deleted => x.deleted)
  PROVE  Safe'
  <1>1. ASSUME NEW m \in stored' \ (doomed' \cup skipped' \cup guessed')
        PROVE  \E x \in mail' : x.msg = m /\ ~x.deleted /\ \A p \in Requests : ~Aims(task'[p], x)
    <2>1. y \in mail' /\ mail \subseteq mail'
      BY DEF Inserted
    <2>2. CASE m \in stored
      <3>1. PICK x \in mail : x.msg = m /\ ~x.deleted /\ \A p \in Requests : ~Aims(task[p], x)
        BY <1>1, <2>2 DEF WebmailInv, Safe
      <3>2. CASE \A p \in Requests : ~Aims(task'[p], x)
        BY <2>1, <3>1, <3>2
      <3>3. CASE \E p \in Requests : Aims(task'[p], x)
        <4>1. x.msg = y.msg /\ (y.deleted => x.deleted)
          BY <1>1, <3>1, <3>3
        <4> QED
          BY <2>1, <3>1, <4>1
      <3> QED
        BY <3>2, <3>3
    <2>3. CASE m \notin stored
      BY <1>1, <2>1, <2>3
    <2> QED
      BY <2>2, <2>3
  <1> QED
    BY <1>1 DEF Safe


\* The notes when a row is inserted.
LEMMA NotesInserted ==
  ASSUME WebmailInv, NEW f, NEW y, Inserted(f, y), NEW m, m = rowsEver + 1,
         stored' \subseteq stored \cup {m}, doomed' \subseteq 1..m,
         skipped' = skipped, guessed' \subseteq guessed \cup {y.msg}, unsure' \subseteq Requests,
         shifted' = shifted, breaks' = breaks, requests' = requests
  PROVE  NotesOK'
  <1>1. rowsEver \in Nat /\ rowsEver' = m /\ y.msg \in 1..m
    BY RowsKnown DEF Inserted
  <1>2. stored' \cup doomed' \cup skipped' \cup guessed' \subseteq 1..m
    <2>1. 1..rowsEver \subseteq 1..m /\ m \in 1..m
      BY <1>1
    <2>2. stored \cup skipped \cup guessed \subseteq 1..m
      BY <2>1, NotesNow
    <2> QED
      BY <1>1, <2>1, <2>2
  <1> QED
    BY <1>1, <1>2, NotesNow DEF NotesOK

\* A tab that has its row inserted.
Adds(q, y, t, d, u, l, h) ==
  /\ DraftOK(t, d)' /\ TargetOK(t)' /\ WayOK(t)'
  /\ q \in unsure' \/ (CopyThere(t)' /\ UndoOK(u)')
  /\ q \in shifted' \/ ListOK(t, l, h)'
  /\ ~Aims(t, y)
  /\ \A x \in mail : Aims(t, x) =>
       \/ Aims(task[q], x) \/ x.msg \in doomed' \cup guessed'
       \/ x.msg = y.msg /\ (y.deleted => x.deleted)

LEMMA InsertKeeps ==
  ASSUME WebmailInv, NEW f, NEW y, Inserted(f, y), NEW q \in Requests,
         NEW t, NEW d, NEW u, NEW l, NEW h, TabOK(t, d, u, l, h), Turns(q, t, d, u, l, h),
         Adds(q, y, t, d, u, l, h), NotesOK',
         doomed \subseteq doomed', skipped' = skipped, guessed \subseteq guessed',
         unsure \subseteq unsure', shifted' = shifted,
         \A m \in stored' : m \in stored \/ (m = y.msg /\ ~y.deleted),
         \A p \in Requests \ {q} : /\ f = "Drafts" /\ Expects(p, nextUid["Drafts"]) => y.msg \in guessed'
                                   /\ f = "Trash" /\ Looking(p) => p \in unsure'
  PROVE  WebmailInv'
  <1>1. /\ TabsOK'
        /\ task'[q] = t /\ draft'[q] = d /\ undo'[q] = u /\ loaded'[q] = l /\ had'[q] = h
        /\ \A p \in Requests : p # q => Stays(p)
    BY TabTurns DEF WebmailInv, Stays
  <1>2. TabInv(q)'
    BY <1>1, TabInvNow DEF Adds
  <1>3. ASSUME NEW p \in Requests, p # q
        PROVE  TabInv(p)'
    BY <1>1, <1>3, InsertTab
  <1>4. \A p \in Requests : ~Aims(task'[p], y)
    <2>1. ASSUME NEW p \in Requests, p # q
          PROVE  ~Aims(task'[p], y)
      <3>1. task'[p] = task[p]
        BY <1>1, <2>1 DEF Stays
      <3>2. task[p] \in Tasks /\ TargetOK(task[p]) /\ WayOK(task[p])
        BY TabOf DEF TabInv
      <3> QED
        BY <3>1, <3>2, InsertTarget
    <2>2. ~Aims(task'[q], y)
      BY <1>1 DEF Adds
    <2> QED
      BY <2>1, <2>2
  <1>5. ASSUME NEW p \in Requests, NEW x \in mail, Aims(task'[p], x)
        PROVE  \/ Aims(task[p], x) \/ x.msg \in doomed' \cup guessed'
               \/ x.msg = y.msg /\ (y.deleted => x.deleted)
    <2>1. CASE p = q
      BY <1>1, <1>5, <2>1 DEF Adds
    <2>2. CASE p # q
      BY <1>1, <1>5, <2>2 DEF Stays
    <2> QED
      BY <2>1, <2>2
  <1>6. Safe'
    BY <1>4, <1>5, SafeInsert
  <1>7. RowsOK'
    BY DEF Inserted
  <1> QED
    BY <1>1, <1>2, <1>3, <1>6, <1>7 DEF WebmailInv

LEMMA ArriveKeeps ==
  ASSUME WebmailInv, Arrive
  PROVE  WebmailInv'
  <1>1. PICK m : m = rowsEver + 1
    OBVIOUS
  <1>2. /\ Insert("INBOX", m, FALSE) /\ stored' = stored \cup {m}
        /\ task' = task /\ draft' = draft /\ undo' = undo /\ loaded' = loaded /\ had' = had
        /\ unsure' = unsure /\ shifted' = shifted /\ doomed' = doomed /\ skipped' = skipped
        /\ guessed' = guessed /\ breaks' = breaks /\ requests' = requests
    BY <1>1 DEF Arrive, offer, list
  <1>3. m \in 1..(rowsEver + 1) /\ "INBOX" \in Folders
    BY <1>1, RowsKnown, FoldersKnown
  <1>4. PICK f \in Folders : f = "INBOX"
    BY <1>3
  <1>5. PICK del \in BOOLEAN : del = FALSE
    OBVIOUS
  <1>6. Insert(f, m, del)
    BY <1>2, <1>4, <1>5
  <1>7. PICK y : Inserted(f, y) /\ y.msg = m /\ ~y.deleted
    BY <1>3, <1>5, <1>6, InsertedRow
  <1>8. \A p \in Requests : Stays(p)
    BY <1>2 DEF Stays
  <1>9. TabsOK'
    BY <1>2 DEF WebmailInv, TabsOK
  <1>10. NotesOK'
    <2>1. doomed' \subseteq 1..m
      BY <1>1, <1>2, NotesNow
    <2> QED
      BY <1>1, <1>2, <1>7, <2>1, NotesNow, NotesInserted
  <1>11. ASSUME NEW p \in Requests
         PROVE  TabInv(p)' /\ ~Aims(task[p], y)
    <2>1. task[p] \in Tasks /\ TargetOK(task[p]) /\ WayOK(task[p])
      BY TabOf DEF TabInv
    <2>2. ~Aims(task[p], y)
      BY <1>7, <2>1, InsertTarget
    <2>3. f # "Drafts" /\ f # "Trash"
      BY <1>4
    <2> QED
      BY <1>2, <1>7, <1>8, <2>2, <2>3, InsertTab
  <1>12. Safe'
    BY <1>2, <1>7, <1>11, SafeInsert
  <1>13. RowsOK'
    BY <1>7 DEF Inserted
  <1> QED
    BY <1>9, <1>10, <1>11, <1>12, <1>13 DEF WebmailInv

LEMMA SaveTextKeeps ==
  ASSUME WebmailInv, NEW q \in Requests, SaveText(q)
  PROVE  WebmailInv'
  <1>1. PICK o, old, u, l, h :
          o = task[q] /\ old = draft[q] /\ u = undo[q] /\ l = loaded[q] /\ h = had[q]
    OBVIOUS
  <1>2. /\ TabOK(o, old, u, l, h) /\ TaskOK(o) /\ o \in Tasks /\ TabInv(q)
        /\ undo = [undo EXCEPT ![q] = u]
        /\ loaded = [loaded EXCEPT ![q] = l] /\ had = [had EXCEPT ![q] = h]
    BY <1>1, TabOf
  <1>3. PICK m : m = rowsEver + 1
    OBVIOUS
  <1>4. PICK d : d = [id |-> o.uid, msg |-> m]
    OBVIOUS
  <1>5. /\ o.at = "append" /\ Insert("Drafts", m, FALSE) /\ stored' = stored \cup {m}
        /\ draft' = [draft EXCEPT ![q] = d]
        /\ undo' = undo /\ loaded' = loaded /\ had' = had
        /\ unsure' = unsure /\ shifted' = shifted /\ skipped' = skipped
        /\ breaks' = breaks /\ requests' = requests
    BY <1>1, <1>3, <1>4 DEF SaveText, offer, list
  <1>6. guessed' = IF \E p \in Requests \ {q} : Expects(p, nextUid["Drafts"])
                   THEN guessed \cup {m} ELSE guessed
    BY <1>3 DEF SaveText
  <1>7. \/ Over(q) /\ doomed' = doomed
        \/ old.id # 0 /\ ToTarget(q, "flag", old.id, old.msg) /\ doomed' = doomed \cup {old.msg}
    BY <1>1 DEF SaveText, ToTarget
  <1>8. m \in 1..(rowsEver + 1) /\ rowsEver \in Nat
    BY <1>3, RowsKnown
  <1>9. PICK f \in Folders : f = "Drafts"
    BY FoldersKnown
  <1>10. PICK y : Inserted(f, y) /\ y.msg = m /\ ~y.deleted
    <2>1. PICK del \in BOOLEAN : del = FALSE
      OBVIOUS
    <2>2. Insert(f, m, del)
      BY <1>5, <1>9, <2>1
    <2> QED
      BY <1>8, <2>1, <2>2, InsertedRow
  <1>11. /\ o.op = "draft" /\ o.from = "Drafts" /\ o.dest = "Drafts"
         /\ old \in Marks /\ DraftOK(o, old)
    BY <1>1, <1>2, <1>5 DEF TaskOK, TabOK, TabInv
  <1>12. PICK t : t = task'[q]
    OBVIOUS
  <1>13. /\ t \in Tasks /\ TaskOK(t) /\ task' = [task EXCEPT ![q] = t]
         /\ t.op \in {"none", "draft"} /\ t.at \in {"idle", "flag"}
         /\ (t.at = "flag" => t.op = "draft" /\ t.from = "Drafts" /\ t.uid = old.id /\ old.msg \in doomed')
    <2>1. CASE Over(q)
      <3>1. t = Idle
        BY <1>12, <2>1 DEF Over, WebmailInv, TabsOK
      <3> QED
        BY <2>1, <3>1, IdleOK DEF Over
    <2>2. CASE ToTarget(q, "flag", old.id, old.msg) /\ doomed' = doomed \cup {old.msg}
      <3>1. PICK step \in Steps : step = "flag"
        BY DEF Steps
      <3>2. step \in Steps /\ old.id \in Nat /\ old.msg \in Nat /\ ToTarget(q, step, old.id, old.msg)
        BY <1>11, <2>2, <3>1 DEF Marks
      <3>3. /\ task'[q] \in Tasks /\ task'[q].op = task[q].op /\ task'[q].at = step
            /\ task'[q].from = task[q].from /\ task'[q].dest = task[q].dest
            /\ task'[q].uid = old.id /\ task' = [task EXCEPT ![q] = task'[q]]
        BY <3>2, StepTarget
      <3>4. /\ t \in Tasks /\ t.op = "draft" /\ t.at = "flag" /\ t.from = "Drafts"
            /\ t.dest = "Drafts" /\ t.uid = old.id /\ task' = [task EXCEPT ![q] = t]
        BY <1>1, <1>11, <1>12, <3>1, <3>3
      <3>5. TaskOK(t)
        BY <3>4 DEF TaskOK
      <3> QED
        BY <2>2, <3>4, <3>5
    <2> QED
      BY <1>7, <2>1, <2>2
  <1>14. d \in Marks /\ d.id = o.uid /\ d.msg = m /\ o.uid \in Nat
    BY <1>2, <1>4, <1>8 DEF Marks, Tasks
  <1>15. TabOK(t, d, u, l, h)
    BY <1>2, <1>13, <1>14 DEF TabOK
  <1>16. Turns(q, t, d, u, l, h)
    BY <1>2, <1>5, <1>13 DEF Turns
  <1>17. guessed \subseteq guessed' /\ guessed' \subseteq guessed \cup {m}
    BY <1>6
  <1>18. DraftOK(t, d)'
    <2>1. PICK k \in Nat : k = nextUid["Drafts"] /\ nextUid'["Drafts"] = k + 1
      BY <1>9, <1>10, RowsKnown, FoldersKnown DEF Inserted
    <2>2. o.uid <= k /\ \A x \in mail : x.folder = "Drafts" /\ x.uid = o.uid => x.msg \in guessed
      BY <1>5, <1>11, <2>1 DEF DraftOK
    <2>3. \A x \in mail' : x \in mail \/ x.msg = m
      BY <1>10 DEF Inserted
    <2>4. \A x \in mail' : x.folder = "Drafts" /\ x.uid = d.id => x.msg = d.msg \/ x.msg \in guessed'
      BY <1>14, <1>17, <2>2, <2>3
    <2>5. d.id < nextUid'["Drafts"] /\ d.msg <= rowsEver' /\ d.msg # 0
      BY <1>3, <1>8, <1>10, <1>14, <2>1, <2>2 DEF Inserted
    <2>6. t.at # "append"
      BY <1>13
    <2> QED
      BY <2>4, <2>5, <2>6 DEF DraftOK
  <1>19. TargetOK(t) /\ WayOK(t)
    <2>1. old.id < nextUid["Drafts"]
      BY <1>11 DEF DraftOK
    <2> QED
      BY <1>13, <2>1 DEF TargetOK, WayOK
  <1>20. Adds(q, y, t, d, u, l, h)
    <2>1. TargetOK(t)' /\ WayOK(t)' /\ ~Aims(t, y)
      BY <1>10, <1>13, <1>19, InsertTarget
    <2>2. CopyThere(t)' /\ (UndoOK(u) => UndoOK(u)')
      <3>1. u \in Marks
        BY <1>2 DEF TabOK
      <3>2. ~Seeks(t)
        BY <1>13 DEF Seeks
      <3> QED
        BY <1>10, <3>1, <3>2, InsertUndo DEF CopyThere
    <2>3. q \in shifted \/ ListOK(t, l, h)
      <3>1. q \in shifted \/ ListOK(o, l, h)
        BY <1>1, <1>2 DEF TabInv
      <3> QED
        BY <1>5, <1>13, <3>1, ListStaysOK
    <2>4. q \in shifted' \/ ListOK(t, l, h)'
      <3>1. l \in TabLists
        BY <1>2 DEF TabOK
      <3> QED
        BY <1>5, <1>10, <1>13, <2>3, <3>1, InsertList
    <2>5. q \in unsure' \/ UndoOK(u)
      BY <1>1, <1>2, <1>5 DEF TabInv
    <2>6. \A x \in mail : Aims(t, x) => x.msg \in doomed' \cup guessed'
      <3>1. \A x \in mail : x.folder = "Drafts" /\ x.uid = old.id => x.msg = old.msg \/ x.msg \in guessed'
        BY <1>11, <1>17 DEF DraftOK
      <3> QED
        BY <1>13, <3>1 DEF Aims
    <2> QED
      BY <1>18, <2>1, <2>2, <2>4, <2>5, <2>6 DEF Adds
  <1>21. doomed \subseteq doomed' /\ doomed' \subseteq 1..m
    <2>1. \/ doomed' = doomed
          \/ doomed' = doomed \cup {old.msg} /\ old.msg \in 1..rowsEver
      <3>1. old.msg \in Nat /\ old.msg <= rowsEver /\ (old.id # 0 => old.msg # 0)
        BY <1>11 DEF DraftOK, Marks
      <3> QED
        BY <1>7, <1>8, <3>1
    <2> QED
      BY <1>3, <1>8, <2>1, NotesNow
  <1>22. NotesOK'
    BY <1>3, <1>5, <1>10, <1>17, <1>21, NotesNow, NotesInserted
  <1>23. \A p \in Requests \ {q} : /\ f = "Drafts" /\ Expects(p, nextUid["Drafts"]) => y.msg \in guessed'
                                   /\ f = "Trash" /\ Looking(p) => p \in unsure'
    BY <1>6, <1>9, <1>10
  <1>24. unsure \subseteq unsure' /\ \A x \in stored' : x \in stored \/ (x = y.msg /\ ~y.deleted)
    BY <1>5, <1>10
  <1> QED
    BY <1>5, <1>10, <1>15, <1>16, <1>17, <1>20, <1>21, <1>22, <1>23, <1>24, InsertKeeps

LEMMA CopyHitKeeps ==
  ASSUME WebmailInv, NEW q \in Requests, Copy(q), Named(q) \cap Listed(task[q].from) # {}
  PROVE  WebmailInv'
  <1>1. PICK o, d, u, l, h :
          o = task[q] /\ d = draft[q] /\ u = undo[q] /\ l = loaded[q] /\ h = had[q]
    OBVIOUS
  <1>2. /\ TabOK(o, d, u, l, h) /\ TaskOK(o) /\ o \in Tasks /\ TabInv(q)
        /\ draft = [draft EXCEPT ![q] = d] /\ undo = [undo EXCEPT ![q] = u]
        /\ loaded = [loaded EXCEPT ![q] = l] /\ had = [had EXCEPT ![q] = h]
    BY <1>1, TabOf
  <1>3. PICK z \in Named(q) :
          /\ Insert(o.dest, z.msg, z.deleted)
          /\ task' = [task EXCEPT ![q].at = "flag", ![q].copied = TRUE]
          /\ unsure' = IF o.dest = "Trash" THEN unsure \cup {p \in Requests \ {q} : Looking(p)} ELSE unsure
          /\ guessed' = IF o.dest = "Drafts" /\ \E p \in Requests \ {q} : Expects(p, nextUid["Drafts"])
                        THEN guessed \cup {z.msg} ELSE guessed
          /\ stored' = stored
    BY <1>1 DEF Copy
  <1>4. /\ o.at = "copy" /\ draft' = draft /\ undo' = undo
        /\ loaded' = loaded /\ had' = had /\ shifted' = shifted
        /\ doomed' = doomed /\ skipped' = skipped /\ breaks' = breaks /\ requests' = requests
    BY <1>1 DEF Copy, list
  <1>5. z \in mail /\ z.folder = o.from /\ z.uid = o.uid
    BY <1>1 DEF Named, In
  <1>6. PICK m, del, f : m = z.msg /\ del = z.deleted /\ f = o.dest
    OBVIOUS
  <1>7. f \in Folders /\ del \in BOOLEAN /\ m \in 1..rowsEver /\ m \in 1..(rowsEver + 1)
    BY <1>2, <1>5, <1>6, RowsKnown DEF WebmailInv, RowsOK, MailRows, Tasks
  <1>8. PICK y : Inserted(f, y) /\ y.msg = m /\ (y.deleted <=> del)
    <2>1. Insert(f, m, del)
      BY <1>3, <1>6
    <2> QED
      BY <1>7, <2>1, InsertedRow
  <1>9. PICK t : t = task'[q]
    OBVIOUS
  <1>10. /\ t \in Tasks /\ t.op = o.op /\ t.at = "flag" /\ t.from = o.from /\ t.dest = o.dest
         /\ t.uid = o.uid /\ t.msg = o.msg /\ t.copied /\ task' = [task EXCEPT ![q] = t]
    <2>1. PICK step \in Steps : step = "flag"
      BY DEF Steps
    <2>2. PICK c \in BOOLEAN : c = TRUE
      OBVIOUS
    <2>3. step \in Steps /\ c \in BOOLEAN /\ ToCopied(q, step, c)
      BY <1>3, <2>1, <2>2 DEF ToCopied
    <2>4. /\ task'[q] \in Tasks /\ task'[q].op = task[q].op /\ task'[q].at = step
          /\ task'[q].from = task[q].from /\ task'[q].dest = task[q].dest
          /\ task'[q].uid = task[q].uid /\ task'[q].msg = task[q].msg
          /\ (task'[q].copied <=> c) /\ task' = [task EXCEPT ![q] = task'[q]]
      BY <2>3, StepCopied
    <2> QED
      BY <1>1, <1>9, <2>1, <2>2, <2>4
  <1>11. o.op \in {"trash", "move"} /\ TaskOK(t)
    BY <1>2, <1>4, <1>10 DEF TaskOK
  <1>12. TabOK(t, d, u, l, h)
    BY <1>2, <1>10, <1>11 DEF TabOK
  <1>13. Turns(q, t, d, u, l, h)
    BY <1>2, <1>4, <1>10 DEF Turns
  <1>14. unsure \subseteq unsure' /\ unsure' \subseteq Requests
    BY <1>3, NotesNow
  <1>15. guessed \subseteq guessed' /\ guessed' \subseteq guessed \cup {m}
    BY <1>3, <1>6
  <1>16. Adds(q, y, t, d, u, l, h)
    <2>1. DraftOK(t, d)'
      <3>1. DraftOK(t, d) /\ d \in Marks
        BY <1>1, <1>2, <1>10, DraftStays DEF TabInv, TabOK
      <3> QED
        BY <1>8, <1>10, <1>15, <3>1, InsertDraft
    <2>2. TargetOK(t)' /\ WayOK(t)' /\ ~Aims(t, y)
      <3>1. TargetOK(t) /\ WayOK(t)
        BY <1>1, <1>2, <1>4, <1>10 DEF TabInv, TargetOK, WayOK
      <3> QED
        BY <1>8, <1>10, <3>1, InsertTarget
    <2>3. CopyThere(t)'
      <3>1. ASSUME Seeks(t)
            PROVE  /\ y \in mail' /\ y.folder = "Trash" /\ y.uid = nextUid'["Trash"] - 1
                   /\ y.msg = t.msg
        <4>1. o.op = "trash" /\ f = "Trash"
          BY <1>2, <1>6, <1>10, <3>1 DEF Seeks, TaskOK
        <4>2. z.msg = o.msg
          BY <1>1, <1>2, <1>4, <1>5, <4>1 DEF TabInv, WayOK
        <4>3. nextUid["Trash"] \in Nat /\ nextUid'["Trash"] = nextUid["Trash"] + 1
          BY <1>8, <4>1, RowsKnown, FoldersKnown DEF Inserted
        <4>4. y \in mail' /\ y.folder = "Trash" /\ y.uid = nextUid["Trash"]
          BY <1>8, <4>1 DEF Inserted
        <4> QED
          BY <1>6, <1>8, <1>10, <4>2, <4>3, <4>4
      <3> QED
        BY <3>1 DEF CopyThere, Seeks
    <2>4. q \in unsure' \/ UndoOK(u)'
      <3>1. u \in Marks /\ (q \in unsure \/ UndoOK(u))
        BY <1>1, <1>2 DEF TabOK, TabInv
      <3> QED
        BY <1>8, <1>14, <3>1, InsertUndo
    <2>5. q \in shifted' \/ ListOK(t, l, h)'
      <3>1. q \in shifted \/ ListOK(o, l, h)
        BY <1>1, <1>2 DEF TabInv
      <3>2. t.op # "more" /\ t.at # "fetch" /\ o.at # "fetch"
        BY <1>4, <1>10, <1>11
      <3>3. q \in shifted \/ ListOK(t, l, h)
        BY <3>1, <3>2, ListStaysOK
      <3>4. l \in TabLists
        BY <1>2 DEF TabOK
      <3> QED
        BY <1>4, <1>8, <1>10, <3>3, <3>4, InsertList
    <2>6. \A x \in mail : Aims(t, x) => x.msg = y.msg /\ (y.deleted => x.deleted)
      <3>1. ASSUME NEW x \in mail, Aims(t, x)
            PROVE  x = z
        <4>1. x.folder = z.folder /\ x.uid = z.uid
          BY <1>5, <1>10, <3>1 DEF Aims
        <4> QED
          BY <1>5, <4>1 DEF WebmailInv, RowsOK
      <3> QED
        BY <1>6, <1>8, <3>1
    <2> QED
      BY <2>1, <2>2, <2>3, <2>4, <2>5, <2>6 DEF Adds
  <1>17. NotesOK'
    <2>1. PICK n : n = rowsEver + 1
      OBVIOUS
    <2>2. doomed' \subseteq 1..n
      BY <1>4, <2>1, NotesNow
    <2> QED
      BY <1>3, <1>4, <1>8, <1>14, <1>15, <2>1, <2>2, NotesInserted
  <1>18. \A p \in Requests \ {q} : /\ f = "Drafts" /\ Expects(p, nextUid["Drafts"]) => y.msg \in guessed'
                                   /\ f = "Trash" /\ Looking(p) => p \in unsure'
    BY <1>3, <1>6, <1>8
  <1>19. doomed \subseteq doomed' /\ \A x \in stored' : x \in stored
    BY <1>3, <1>4
  <1> QED
    BY <1>4, <1>8, <1>12, <1>13, <1>14, <1>15, <1>16, <1>17, <1>18, <1>19, InsertKeeps

LEMMA CopyKeeps ==
  ASSUME WebmailInv, NEW q \in Requests, Copy(q)
  PROVE  WebmailInv'
  BY CopyMissKeeps, CopyHitKeeps

-----------------------------------------------------------------------------
(* STORE changes flags, and of the rows nothing else.                      *)

SameRows ==
  /\ \A x \in mail' : \E y \in mail : y.folder = x.folder /\ y.uid = x.uid /\ y.msg = x.msg
  /\ \A y \in mail : \E x \in mail' : y.folder = x.folder /\ y.uid = x.uid /\ y.msg = x.msg

LEMMA SameRowsKeep ==
  ASSUME SameRows, nextUid' = nextUid, rowsEver' = rowsEver, guessed' = guessed,
         NEW t, NEW d, NEW u, NEW l, NEW h
  PROVE  /\ DraftOK(t, d) => DraftOK(t, d)'
         /\ TargetOK(t) => TargetOK(t)'
         /\ WayOK(t) => WayOK(t)'
         /\ CopyThere(t) => CopyThere(t)'
         /\ UndoOK(u) => UndoOK(u)'
         /\ ListOK(t, l, h) => ListOK(t, l, h)'
  <1>1. DraftOK(t, d) => DraftOK(t, d)'
    BY DEF DraftOK, SameRows
  <1>2. (TargetOK(t) => TargetOK(t)') /\ (WayOK(t) => WayOK(t)')
    BY DEF TargetOK, WayOK, SameRows
  <1>3. CopyThere(t) => CopyThere(t)'
    BY DEF CopyThere, SameRows
  <1>4. UndoOK(u) => UndoOK(u)'
    BY DEF UndoOK, SameRows
  <1>5. Uids(l.folder)' = Uids(l.folder)
    <2>1. PICK old, new : old = Uids(l.folder) /\ new = Uids(l.folder)'
      OBVIOUS
    <2>2. \A k : k \in new <=> k \in old
      BY <2>1 DEF Uids, In, SameRows
    <2>3. new = old
      BY <2>2
    <2> QED
      BY <2>1, <2>3
  <1>6. ListOK(t, l, h) => ListOK(t, l, h)'
    BY <1>5 DEF ListOK, Held, Counted, UpTo
  <1> QED
    BY <1>1, <1>2, <1>3, <1>4, <1>6

LEMMA StoreKeeps ==
  ASSUME WebmailInv, NEW q \in Requests, Store(q)
  PROVE  WebmailInv'
  <1>1. PICK o, d, u, l, h :
          o = task[q] /\ d = draft[q] /\ u = undo[q] /\ l = loaded[q] /\ h = had[q]
    OBVIOUS
  <1>2. /\ TabOK(o, d, u, l, h) /\ TaskOK(o) /\ o \in Tasks /\ TabInv(q)
        /\ draft = [draft EXCEPT ![q] = d] /\ undo = [undo EXCEPT ![q] = u]
        /\ loaded = [loaded EXCEPT ![q] = l] /\ had = [had EXCEPT ![q] = h]
    BY <1>1, TabOf
  <1>3. PICK hit : hit = Named(q) \cap Listed(o.from)
    OBVIOUS
  <1>4. PICK flag \in BOOLEAN : flag <=> o.at # "unmark"
    OBVIOUS
  <1>5. /\ o.at \in {"flag", "mark", "unmark"}
        /\ nextUid' = nextUid /\ rowsEver' = rowsEver /\ stored' = stored /\ guessed' = guessed
        /\ draft' = draft /\ undo' = undo /\ unsure' = unsure
        /\ loaded' = loaded /\ had' = had /\ shifted' = shifted
        /\ doomed' = doomed /\ breaks' = breaks /\ requests' = requests
        /\ skipped' = IF Uncopied(o) THEN skipped \cup {x.msg : x \in hit} ELSE skipped
        /\ IF o.at = "flag" THEN ToStep(q, "expunge") ELSE Over(q)
    BY <1>1, <1>3 DEF Store, Goto, ToStep, offer, list
  <1>6. hit \in SUBSET mail /\ \A x \in hit : x.folder = o.from /\ x.uid = o.uid /\ x \in Listed(o.from)
    BY <1>1, <1>3 DEF Named, In
  <1>7. mail' = Reflagged(hit, flag)
    <2>1. mail' = (mail \ hit) \cup {[x EXCEPT !.deleted = o.at # "unmark"] : x \in hit}
      BY <1>1, <1>3 DEF Store
    <2>2. flag = (o.at # "unmark")
      BY <1>4
    <2> QED
      BY <2>1, <2>2 DEF Reflagged
  <1>8. /\ RowsOK'
        /\ \A x \in mail' : \E y \in mail : /\ y.folder = x.folder /\ y.uid = x.uid /\ y.msg = x.msg
                                            /\ y \in hit \/ y = x
        /\ \A y \in mail : \E x \in mail' : /\ y.folder = x.folder /\ y.uid = x.uid /\ y.msg = x.msg
                                            /\ IF y \in hit THEN x.deleted = flag ELSE y = x
    BY <1>5, <1>6, <1>7, StoreRows DEF WebmailInv
  <1>9. SameRows
    BY <1>8 DEF SameRows
  <1>10. PICK t : t = task'[q]
    OBVIOUS
  <1>11. /\ t \in Tasks /\ TaskOK(t) /\ task' = [task EXCEPT ![q] = t]
         /\ t.at \in {"idle", "expunge"} /\ t.op # "more"
         /\ (Seeks(t) => Seeks(o) /\ t.msg = o.msg)
    <2>1. CASE o.at # "flag"
      <3>1. t = Idle
        BY <1>5, <1>10, <2>1 DEF Over, WebmailInv, TabsOK
      <3> QED
        BY <1>5, <2>1, <3>1, IdleOK DEF Over
    <2>2. CASE o.at = "flag"
      <3>1. PICK step \in Steps : step = "expunge"
        BY DEF Steps
      <3>2. step \in Steps /\ ToStep(q, step)
        BY <1>5, <2>2, <3>1
      <3>3. /\ task'[q] \in Tasks /\ task'[q].op = task[q].op /\ task'[q].at = step
            /\ task'[q].from = task[q].from /\ task'[q].dest = task[q].dest
            /\ task'[q].msg = task[q].msg /\ task' = [task EXCEPT ![q] = task'[q]]
        BY <3>2, StepTo
      <3>4. /\ t \in Tasks /\ t.op = o.op /\ t.at = "expunge" /\ t.from = o.from
            /\ t.dest = o.dest /\ t.msg = o.msg /\ task' = [task EXCEPT ![q] = t]
        BY <1>1, <1>10, <3>1, <3>3
      <3>5. TaskOK(t) /\ t.op # "more"
        BY <1>2, <2>2, <3>4 DEF TaskOK
      <3> QED
        BY <2>2, <3>4, <3>5 DEF Seeks
    <2> QED
      BY <2>1, <2>2
  <1>12. TabOK(t, d, u, l, h)
    <2>1. o.op # "open" \/ o.at \in {"page", "fetch"}
      BY <1>2 DEF TaskOK
    <2>2. t.op # "open"
      BY <1>11 DEF TaskOK
    <2> QED
      BY <1>2, <1>11, <2>2 DEF TabOK
  <1>13. Turns(q, t, d, u, l, h)
    BY <1>2, <1>5, <1>11 DEF Turns
  <1>14. /\ TabsOK'
         /\ task'[q] = t /\ draft'[q] = d /\ undo'[q] = u /\ loaded'[q] = l /\ had'[q] = h
         /\ \A p \in Requests : p # q => Stays(p)
    BY <1>12, <1>13, TabTurns DEF WebmailInv, Stays
  <1>15. TabInv(q)'
    <2>1. DraftOK(t, d)
      BY <1>1, <1>2, <1>11, DraftStays DEF TabInv
    <2>2. TargetOK(t) /\ WayOK(t)
      BY <1>11 DEF TargetOK, WayOK
    <2>3. q \in unsure \/ (CopyThere(t) /\ UndoOK(u))
      BY <1>1, <1>2, <1>11 DEF TabInv, CopyThere
    <2>4. q \in shifted \/ ListOK(t, l, h)
      <3>1. q \in shifted \/ ListOK(o, l, h)
        BY <1>1, <1>2 DEF TabInv
      <3> QED
        BY <1>5, <1>11, <3>1, ListStaysOK
    <2> QED
      BY <1>5, <1>9, <1>14, <2>1, <2>2, <2>3, <2>4, SameRowsKeep, TabInvNow
  <1>16. ASSUME NEW p \in Requests, p # q
         PROVE  TabInv(p)'
    <2>1. PICK t1, d1, u1, l1, h1 :
            t1 = task[p] /\ d1 = draft[p] /\ u1 = undo[p] /\ l1 = loaded[p] /\ h1 = had[p]
      OBVIOUS
    <2>2. /\ DraftOK(t1, d1) /\ TargetOK(t1) /\ WayOK(t1)
          /\ p \in unsure \/ (CopyThere(t1) /\ UndoOK(u1))
          /\ p \in shifted \/ ListOK(t1, l1, h1)
      BY <2>1 DEF WebmailInv, TabInv
    <2>3. /\ task'[p] = t1 /\ draft'[p] = d1 /\ undo'[p] = u1 /\ loaded'[p] = l1 /\ had'[p] = h1
      BY <1>14, <1>16, <2>1 DEF Stays
    <2>4. /\ DraftOK(t1, d1)' /\ TargetOK(t1)' /\ WayOK(t1)'
          /\ p \in unsure' \/ (CopyThere(t1)' /\ UndoOK(u1)')
          /\ p \in shifted' \/ ListOK(t1, l1, h1)'
      BY <1>5, <1>9, <2>2, SameRowsKeep
    <2> QED
      BY <2>3, <2>4, TabInvNow
  <1>17. Safe'
    <2>1. ASSUME NEW m \in stored' \ (doomed' \cup skipped' \cup guessed')
          PROVE  \E x \in mail' : x.msg = m /\ ~x.deleted /\ \A p \in Requests : ~Aims(task'[p], x)
      <3>1. m \in stored \ (doomed \cup skipped \cup guessed)
        BY <1>5, <2>1
      <3>2. PICK y \in mail : y.msg = m /\ ~y.deleted /\ \A p \in Requests : ~Aims(task[p], y)
        BY <3>1 DEF WebmailInv, Safe
      <3>3. PICK x \in mail' : /\ y.folder = x.folder /\ y.uid = x.uid /\ y.msg = x.msg
                               /\ IF y \in hit THEN x.deleted = flag ELSE y = x
        BY <1>8
      <3>4. \A p \in Requests : ~Aims(task'[p], x)
        <4>1. \A p \in Requests : p # q => task'[p] = task[p]
          BY <1>14 DEF Stays
        <4>2. ~Aims(t, x)
          BY <1>11 DEF Aims
        <4> QED
          BY <1>14, <3>2, <3>3, <4>1, <4>2 DEF Aims
      <3>5. ~x.deleted
        <4>1. CASE y \notin hit
          BY <3>2, <3>3, <4>1
        <4>2. CASE y \in hit
          <5>1. ~Uncopied(o)
            BY <1>5, <2>1, <3>2, <4>2
          <5>2. o.at = "unmark"
            BY <1>1, <1>5, <1>6, <3>2, <4>2, <5>1 DEF Aims
          <5> QED
            BY <1>4, <3>3, <4>2, <5>2
        <4> QED
          BY <4>1, <4>2
      <3> QED
        BY <3>2, <3>3, <3>4, <3>5
    <2> QED
      BY <2>1 DEF Safe
  <1>18. NotesOK'
    <2>1. skipped' \subseteq 1..rowsEver
      BY <1>5, <1>6, NotesNow, RowsKnown
    <2> QED
      BY <1>5, <2>1, NotesNow DEF NotesOK
  <1> QED
    BY <1>8, <1>14, <1>15, <1>16, <1>17, <1>18 DEF WebmailInv

-----------------------------------------------------------------------------
(* EXPUNGE takes rows away.                                                *)

\* Of a set of numbers some went, none of them among the k largest.  Then what
\* is now among the k largest was so before.
LEMMA StillNewest ==
  ASSUME NEW s \in SUBSET Nat, IsFiniteSet(s), NEW z \in SUBSET s, NEW k \in Nat,
         \A v \in s \ z : Cardinality(Below(s, v)) + k <= Cardinality(s),
         NEW u \in z, Cardinality(Below(z, u)) + k > Cardinality(z)
  PROVE  Cardinality(Below(s, u)) + k > Cardinality(s)
  <1>1. PICK n \in Nat : n = Cardinality(s)
    BY FS_CardinalityType
  <1>2. \A v \in s : /\ Below(s, v) \subseteq s /\ IsFiniteSet(Below(s, v))
                     /\ Cardinality(Below(s, v)) \in Nat
    <2>1. \A v \in s : Below(s, v) \subseteq s
      BY DEF Below
    <2> QED
      BY <2>1, FS_Subset, FS_CardinalityType
  <1>3. PICK c \in Nat : c = Cardinality(Below(s, u))
    BY <1>2
  <1>4. ASSUME c + k <= n
        PROVE  FALSE
    <2>1. PICK a \in Nat \ {0} : a = n - k + 1
      BY <1>1, <1>3, <1>4
    <2>2. PICK num : num = [v \in s |-> Cardinality(Below(s, v))]
      OBVIOUS
    <2>3. PICK page : page = {v \in s : num[v] \in a..n}
      OBVIOUS
    <2>4. Numbering(s, num)
      <3>1. num \in [s -> Nat] /\ \A v \in s : num[v] = Cardinality(Below(s, v))
        BY <1>2, <2>2
      <3> QED
        BY <3>1 DEF Numbering
    <2>5. Between(s, num, a, n, page)
      <3>1. page \in SUBSET s /\ \A v \in s : v \in page <=> num[v] \in a..n
        BY <2>3
      <3> QED
        BY <1>1, <2>1, <3>1 DEF Between
    <2>6. Cardinality(page) = k /\ \A v \in s : num[v] \in 1..n
      <3>1. /\ Cardinality(page) = IF a > n THEN 0 ELSE n - a + 1
            /\ \A v \in s : num[v] \in 1..Cardinality(s)
        BY <1>1, <2>1, <2>4, <2>5, NumberedWithoutGaps
      <3> QED
        BY <1>1, <2>1, <3>1
    <2>7. page \subseteq z
      <3>1. ASSUME NEW v \in page, v \notin z
            PROVE  FALSE
        <4>1. v \in s /\ num[v] = Cardinality(Below(s, v)) /\ num[v] \in a..n
          BY <2>2, <2>3
        <4>2. num[v] + k <= n
          BY <1>1, <3>1, <4>1
        <4> QED
          BY <1>1, <2>1, <4>1, <4>2
      <3> QED
        BY <3>1
    <2>8. PICK low : low = Below(z, u)
      OBVIOUS
    <2>9. low \subseteq z /\ low \subseteq s
      BY <2>8 DEF Below
    <2>10. page \cap low = {}
      <3>1. ASSUME NEW v \in page, v \in low
            PROVE  FALSE
        <4>1. v \in s /\ v <= u /\ v \in Nat /\ u \in Nat /\ num[v] = Cardinality(Below(s, v))
              /\ num[v] \in a..n
          BY <2>2, <2>3, <2>8, <3>1 DEF Below
        <4>2. Below(s, v) \subseteq Below(s, u)
          <5>1. \A w \in s : w \in Nat /\ (w <= v => w <= u)
            BY <4>1
          <5> QED
            BY <5>1 DEF Below
        <4>3. num[v] <= c
          BY <1>2, <1>3, <4>1, <4>2, FS_Subset
        <4> QED
          BY <1>1, <1>3, <1>4, <2>1, <4>1, <4>3
      <3> QED
        BY <3>1
    <2>11. /\ IsFiniteSet(z) /\ IsFiniteSet(low) /\ IsFiniteSet(page)
           /\ Cardinality(low) \in Nat /\ Cardinality(z) \in Nat
      BY <2>3, <2>9, FS_Subset, FS_CardinalityType
    <2>12. Cardinality(page \cup low) = k + Cardinality(low)
      <3>1. Cardinality(page \cap low) = 0
        BY <2>10, FS_EmptySet
      <3>2. Cardinality(page \cup low) = Cardinality(page) + Cardinality(low) - Cardinality(page \cap low)
        BY <2>11, FS_Union
      <3> QED
        BY <2>6, <2>11, <3>1, <3>2
    <2>13. Cardinality(page \cup low) <= Cardinality(z)
      BY <2>7, <2>9, <2>11, FS_Subset
    <2> QED
      BY <2>8, <2>11, <2>12, <2>13
  <1> QED
    BY <1>1, <1>3, <1>4

\* Who is among the newest, by the UIDs.
LEMMA NewestByUid ==
  ASSUME RowsOK, NEW f, NEW k \in Nat, NEW x \in In(f), x \notin Newest(f, k)
  PROVE  Cardinality(UpTo(f, x.uid)) + k <= Cardinality(Uids(f))
  <1>1. PICK newer, s : newer = {y \in In(f) : y.uid > x.uid} /\ s = Uids(f)
    OBVIOUS
  <1>2. PICK up, low : up = {y.uid : y \in newer} /\ low = Below(s, x.uid)
    OBVIOUS
  <1>3. Cardinality(newer) = Cardinality(up) /\ Cardinality(up) \in Nat
    BY <1>1, <1>2, CountedByUids
  <1>4. x.uid \in Nat /\ s \subseteq Nat /\ IsFiniteSet(s) /\ Cardinality(s) \in Nat
    BY <1>1, UidsAreNumbers, UidsFinite, FS_CardinalityType DEF Uids
  <1>5. up = s \ low
    BY <1>1, <1>2, <1>4 DEF Uids, Below
  <1>6. low \subseteq s /\ s \cap low = low /\ Cardinality(low) \in Nat
    BY <1>2, <1>4, FS_Subset, FS_CardinalityType DEF Below
  <1>7. Cardinality(up) = Cardinality(s) - Cardinality(low)
    BY <1>4, <1>5, <1>6, FS_Difference
  <1>8. ~(Cardinality(newer) < k)
    BY <1>1 DEF Newest
  <1> QED
    BY <1>1, <1>2, <1>3, <1>4, <1>6, <1>7, <1>8 DEF UpTo

\* Rows of one folder go.
Taken(f, gone) ==
  /\ gone \subseteq In(f) /\ mail' = mail \ gone
  /\ nextUid' = nextUid /\ rowsEver' = rowsEver /\ guessed' = guessed

LEMMA TakenKeeps ==
  ASSUME NEW f, NEW gone, Taken(f, gone), NEW t, NEW d, NEW u
  PROVE  /\ DraftOK(t, d) => DraftOK(t, d)'
         /\ TargetOK(t) => TargetOK(t)'
         /\ WayOK(t) => WayOK(t)'
         /\ UndoOK(u) => UndoOK(u)'
  <1>1. mail' \subseteq mail /\ nextUid' = nextUid /\ rowsEver' = rowsEver /\ guessed' = guessed
    BY DEF Taken
  <1>2. DraftOK(t, d) => DraftOK(t, d)'
    BY <1>1 DEF DraftOK
  <1>3. (TargetOK(t) => TargetOK(t)') /\ (WayOK(t) => WayOK(t)')
    BY <1>1 DEF TargetOK, WayOK
  <1>4. UndoOK(u) => UndoOK(u)'
    BY <1>1 DEF UndoOK
  <1> QED
    BY <1>2, <1>3, <1>4

LEMMA TakenUids ==
  ASSUME RowsOK, NEW f, NEW gone, Taken(f, gone)
  PROVE  /\ Uids(f)' = Uids(f) \ {x.uid : x \in gone}
         /\ \A g : g # f => Uids(g)' = Uids(g)
  <1>1. \A x, y \in In(f) : x.uid = y.uid => x = y
    BY DEF In, RowsOK
  <1>2. PICK old, new, out : old = In(f) /\ new = In(f)' /\ out = {x.uid : x \in gone}
    OBVIOUS
  <1>3. new = old \ gone /\ gone \subseteq old
    BY <1>2 DEF Taken, In
  <1>4. Uids(f)' = {x.uid : x \in new}
    BY <1>2 DEF Uids
  <1>5. \A k : k \in {x.uid : x \in new} <=> k \in {x.uid : x \in old} /\ k \notin out
    BY <1>1, <1>2, <1>3
  <1>6. Uids(f)' = Uids(f) \ {x.uid : x \in gone}
    BY <1>2, <1>4, <1>5 DEF Uids
  <1>7. ASSUME NEW g, g # f
        PROVE  Uids(g)' = Uids(g)
    <2>1. In(g)' = In(g)
      BY <1>7 DEF Taken, In
    <2> QED
      BY <2>1 DEF Uids
  <1> QED
    BY <1>6, <1>7

LEMMA TakenList ==
  ASSUME WebmailInv, NEW f, NEW gone, Taken(f, gone), NEW t \in Tasks, NEW l \in TabLists, NEW h,
         ListOK(t, l, h), NEW h2,
         h2 = IF l.folder = f THEN h \ {x.uid : x \in gone} ELSE h,
         l.folder = f => gone \cap Newest(f, l.offset) = {},
         l.folder = f /\ t.at = "fetch" => gone = {}
  PROVE  ListOK(t, l, h2)'
  <1>1. RowsOK
    BY DEF WebmailInv
  <1>2. CASE l.folder # f \/ gone = {}
    <2>1. h2 = h
      BY <1>2
    <2>2. Uids(l.folder)' = Uids(l.folder)
      <3>1. CASE l.folder # f
        BY <1>1, <3>1, TakenUids
      <3>2. CASE gone = {}
        <4>1. mail' = mail
          BY <3>2 DEF Taken
        <4> QED
          BY <4>1, SameUids
      <3> QED
        BY <1>2, <3>1, <3>2
    <2> QED
      BY <2>1, <2>2 DEF ListOK, Held, Counted, UpTo
  <1>3. CASE l.folder = f /\ gone # {}
    <2>1. PICK s, z, out : s = Uids(f) /\ z = Uids(f)' /\ out = {x.uid : x \in gone}
      OBVIOUS
    <2>2. z = s \ out /\ z \in SUBSET s
      BY <1>1, <2>1, TakenUids
    <2>3. s \in SUBSET Nat /\ IsFiniteSet(s) /\ h2 = h \ out
      BY <1>1, <1>3, <2>1, UidsAreNumbers, UidsFinite
    <2>4. l.offset \in Nat
      BY DEF TabLists
    <2>5. \A v \in s \ z : Cardinality(Below(s, v)) + l.offset <= Cardinality(s)
      <3>1. ASSUME NEW x \in gone
            PROVE  Cardinality(Below(s, x.uid)) + l.offset <= Cardinality(s)
        <4>1. x \in In(f) /\ x \notin Newest(f, l.offset)
          BY <1>3 DEF Taken
        <4> QED
          BY <1>1, <2>1, <2>4, <4>1, NewestByUid DEF UpTo
      <3>2. \A v \in s \ z : \E x \in gone : v = x.uid
        BY <2>1, <2>2
      <3> QED
        BY <3>1, <3>2
    <2>6. /\ h \subseteq s
          /\ \A u \in h : Cardinality(Below(s, u)) + l.offset > Cardinality(s) => u \in l.uids
      BY <1>3, <2>1 DEF ListOK, Held, UpTo
    <2>7. h2 \subseteq z /\ h2 \subseteq h
      BY <2>2, <2>3, <2>6
    <2>8. ASSUME NEW u \in h2, Cardinality(Below(z, u)) + l.offset > Cardinality(z)
          PROVE  u \in l.uids
      <3>1. Cardinality(Below(s, u)) + l.offset > Cardinality(s)
        BY <2>2, <2>3, <2>4, <2>5, <2>7, <2>8, StillNewest
      <3> QED
        BY <2>6, <2>7, <3>1
    <2>9. Held(l, h2)'
      BY <1>3, <2>1, <2>7, <2>8 DEF Held, UpTo
    <2> QED
      BY <1>3, <2>7, <2>9 DEF ListOK
  <1> QED
    BY <1>2, <1>3

LEMMA ExpungeKeeps ==
  ASSUME WebmailInv, NEW q \in Requests, Expunge(q)
  PROVE  WebmailInv'
  <1>1. PICK o, d, u, l, h :
          o = task[q] /\ d = draft[q] /\ u = undo[q] /\ l = loaded[q] /\ h = had[q]
    OBVIOUS
  <1>2. TabOK(o, d, u, l, h) /\ TaskOK(o) /\ o \in Tasks /\ TabInv(q)
    BY <1>1, TabOf
  <1>3. PICK f, gone : f = o.from /\ gone = {x \in Newest(f, 2 * ListLimit) : x.deleted}
    OBVIOUS
  <1>4. /\ o.at = "expunge" /\ mail' = mail \ gone
        /\ had' = [p \in Requests |->
                     IF loaded[p].folder = f THEN had[p] \ {x.uid : x \in gone} ELSE had[p]]
        /\ shifted' = shifted \cup {p \in Requests : Shifts(p, f, gone)}
        /\ unsure' = IF \E x \in gone : f = "Trash" /\ x.uid = nextUid[f] - 1
                     THEN unsure \cup {p \in Requests : Looking(p)} ELSE unsure
        /\ IF o.op = "trash" /\ o.from # o.dest THEN ToStep(q, "locate") ELSE Over(q)
        /\ nextUid' = nextUid /\ rowsEver' = rowsEver /\ stored' = stored /\ guessed' = guessed
        /\ draft' = draft /\ undo' = undo /\ loaded' = loaded
        /\ doomed' = doomed /\ skipped' = skipped /\ breaks' = breaks /\ requests' = requests
    BY <1>1, <1>3 DEF Expunge, Goto, ToStep
  <1>5. gone \subseteq In(f) /\ \A x \in gone : x.deleted
    BY <1>3 DEF Newest
  <1>6. Taken(f, gone)
    BY <1>4, <1>5 DEF Taken
  <1>7. mail' \subseteq mail /\ RowsOK'
    BY <1>4, ExpungeRows DEF WebmailInv
  <1>8. PICK t : t = task'[q]
    OBVIOUS
  <1>9. /\ t \in Tasks /\ TaskOK(t) /\ task' = [task EXCEPT ![q] = t]
        /\ t.at \in {"idle", "locate"} /\ t.op \notin {"open", "more"}
        /\ (Seeks(t) => Seeks(o) /\ t.msg = o.msg)
    <2>1. CASE ~(o.op = "trash" /\ o.from # o.dest)
      <3>1. t = Idle
        BY <1>4, <1>8, <2>1 DEF Over, WebmailInv, TabsOK
      <3> QED
        BY <1>4, <2>1, <3>1, IdleOK DEF Over
    <2>2. CASE o.op = "trash" /\ o.from # o.dest
      <3>1. PICK step \in Steps : step = "locate"
        BY DEF Steps
      <3>2. step \in Steps /\ ToStep(q, step)
        BY <1>4, <2>2, <3>1
      <3>3. /\ task'[q] \in Tasks /\ task'[q].op = task[q].op /\ task'[q].at = step
            /\ task'[q].from = task[q].from /\ task'[q].dest = task[q].dest
            /\ task'[q].msg = task[q].msg /\ task' = [task EXCEPT ![q] = task'[q]]
        BY <3>2, StepTo
      <3>4. /\ t \in Tasks /\ t.op = o.op /\ t.at = "locate" /\ t.from = o.from
            /\ t.dest = o.dest /\ t.msg = o.msg /\ task' = [task EXCEPT ![q] = t]
        BY <1>1, <1>8, <3>1, <3>3
      <3>5. TaskOK(t)
        BY <1>2, <2>2, <3>4 DEF TaskOK
      <3> QED
        BY <1>4, <2>2, <3>4, <3>5 DEF Seeks
    <2> QED
      BY <2>1, <2>2
  <1>10. \A p \in Requests : task'[p] = IF p = q THEN t ELSE task[p]
    BY <1>9 DEF WebmailInv, TabsOK
  <1>11. ASSUME NEW p \in Requests
         PROVE  had'[p] = IF loaded[p].folder = f THEN had[p] \ {x.uid : x \in gone} ELSE had[p]
    BY <1>4
  <1>12. TabsOK'
    <2>1. task' \in [Requests -> Tasks]
      BY <1>9 DEF WebmailInv, TabsOK
    <2>2. had' \in [Requests -> SUBSET Nat] /\ \A p \in Requests : had'[p] \subseteq had[p]
      BY <1>4, <1>11 DEF WebmailInv, TabsOK
    <2>3. ASSUME NEW p \in Requests
          PROVE  TabOK(task'[p], draft'[p], undo'[p], loaded'[p], had'[p])
      <3>1. TabOK(task[p], draft[p], undo[p], loaded[p], had[p])
        BY TabOf
      <3>2. CASE p # q
        BY <1>4, <1>10, <2>2, <3>1, <3>2 DEF TabOK
      <3>3. CASE p = q
        BY <1>4, <1>9, <1>10, <2>2, <3>1, <3>3 DEF TabOK
      <3> QED
        BY <3>2, <3>3
    <2>4. draft' \in [Requests -> Marks] /\ undo' \in [Requests -> Marks] /\ loaded' \in [Requests -> TabLists]
      BY <1>4 DEF WebmailInv, TabsOK
    <2> QED
      BY <2>1, <2>2, <2>3, <2>4 DEF TabsOK
  <1>13. ASSUME NEW p \in Requests
         PROVE  TabInv(p)'
    <2>1. PICK o1, d1, u1, l1, h1 :
            o1 = task[p] /\ d1 = draft[p] /\ u1 = undo[p] /\ l1 = loaded[p] /\ h1 = had[p]
      OBVIOUS
    <2>2. /\ DraftOK(o1, d1) /\ TargetOK(o1) /\ WayOK(o1) /\ l1 \in TabLists
          /\ p \in unsure \/ (CopyThere(o1) /\ UndoOK(u1))
          /\ p \in shifted \/ ListOK(o1, l1, h1)
      BY <2>1, TabOf DEF TabInv, TabOK
    <2>3. PICK t1, h2 : t1 = task'[p] /\ h2 = had'[p]
      OBVIOUS
    <2>4. /\ t1 \in Tasks /\ DraftOK(t1, d1) /\ TargetOK(t1) /\ WayOK(t1)
          /\ (Seeks(t1) => Seeks(o1) /\ t1.msg = o1.msg)
          /\ t1.at = "fetch" => o1.at = "fetch"
          /\ p \in shifted \/ ListOK(t1, l1, h1)
      <3>1. CASE p # q
        <4>1. t1 = o1 /\ o1 \in Tasks
          BY <1>10, <2>1, <2>3, <3>1, TabOf
        <4> QED
          BY <2>2, <4>1
      <3>2. CASE p = q
        <4>1. t1 = t /\ o1 = o
          BY <1>1, <1>10, <2>1, <2>3, <3>2
        <4>2. DraftOK(t1, d1) /\ TargetOK(t1) /\ WayOK(t1)
          BY <1>9, <2>2, <4>1, DraftStays DEF TargetOK, WayOK
        <4>3. p \in shifted \/ ListOK(t1, l1, h1)
          BY <1>4, <1>9, <2>2, <4>1, ListStaysOK
        <4> QED
          BY <1>9, <4>1, <4>2, <4>3
      <3> QED
        BY <3>1, <3>2
    <2>5. DraftOK(t1, d1)' /\ TargetOK(t1)' /\ WayOK(t1)' /\ (UndoOK(u1) => UndoOK(u1)')
      BY <1>6, <2>4, TakenKeeps
    <2>6. p \in unsure' \/ (CopyThere(t1)' /\ UndoOK(u1)')
      <3>1. CASE p \in unsure
        BY <1>4, <3>1
      <3>2. CASE p \notin unsure /\ p \notin unsure'
        <4>1. ASSUME Seeks(t1)
              PROVE  \E x \in mail' : x.folder = "Trash" /\ x.uid = nextUid'["Trash"] - 1 /\ x.msg = t1.msg
          <5>1. Seeks(o1) /\ t1.msg = o1.msg
            BY <2>4, <4>1
          <5>2. PICK x \in mail : x.folder = "Trash" /\ x.uid = nextUid["Trash"] - 1 /\ x.msg = o1.msg
            BY <2>2, <3>2, <5>1 DEF CopyThere
          <5>3. Looking(p)
            BY <2>1, <5>1 DEF Looking, Seeks
          <5>4. x \notin gone
            <6>1. ASSUME x \in gone
                  PROVE  p \in unsure'
              <7>1. x.folder = f
                BY <1>5, <6>1 DEF In
              <7> QED
                BY <1>4, <5>2, <5>3, <6>1, <7>1
            <6> QED
              BY <3>2, <6>1
          <5> QED
            BY <1>4, <5>1, <5>2, <5>4
        <4>2. CopyThere(t1)'
          BY <4>1 DEF CopyThere, Seeks
        <4> QED
          BY <2>2, <2>5, <3>2, <4>2
      <3> QED
        BY <3>1, <3>2
    <2>7. p \in shifted' \/ ListOK(t1, l1, h2)'
      <3>1. CASE p \in shifted'
        BY <3>1
      <3>2. CASE p \notin shifted'
        <4>1. ~Shifts(p, f, gone) /\ ListOK(t1, l1, h1)
          BY <1>4, <2>4, <3>2
        <4>2. h2 = IF l1.folder = f THEN h1 \ {x.uid : x \in gone} ELSE h1
          BY <1>11, <2>1, <2>3
        <4>3. /\ l1.folder = f => gone \cap Newest(f, l1.offset) = {}
              /\ l1.folder = f /\ t1.at = "fetch" => gone = {}
          BY <2>1, <2>4, <4>1 DEF Shifts
        <4> QED
          BY <1>6, <2>2, <2>4, <4>1, <4>2, <4>3, TakenList
      <3> QED
        BY <3>1, <3>2
    <2>8. draft'[p] = d1 /\ undo'[p] = u1 /\ loaded'[p] = l1
      BY <1>4, <2>1
    <2> QED
      BY <2>3, <2>5, <2>6, <2>7, <2>8, TabInvNow
  <1>14. Safe'
    <2>1. ASSUME NEW m \in stored' \ (doomed' \cup skipped' \cup guessed')
          PROVE  \E x \in mail' : x.msg = m /\ ~x.deleted /\ \A p \in Requests : ~Aims(task'[p], x)
      <3>1. m \in stored \ (doomed \cup skipped \cup guessed)
        BY <1>4, <2>1
      <3>2. PICK x \in mail : x.msg = m /\ ~x.deleted /\ \A p \in Requests : ~Aims(task[p], x)
        BY <3>1 DEF WebmailInv, Safe
      <3>3. x \in mail'
        BY <1>4, <1>5, <3>2
      <3>4. ~Aims(t, x)
        BY <1>9 DEF Aims
      <3> QED
        BY <1>10, <3>2, <3>3, <3>4
    <2> QED
      BY <2>1 DEF Safe
  <1>15. NotesOK'
    <2>1. unsure' \subseteq Requests /\ shifted' \subseteq Requests
      BY <1>4, NotesNow
    <2> QED
      BY <1>4, <2>1, NotesNow DEF NotesOK
  <1> QED
    BY <1>7, <1>12, <1>13, <1>14, <1>15 DEF WebmailInv

-----------------------------------------------------------------------------
(* The invariant of the webmail holds in every state, and with it what the *)
(* runs check.                                                             *)

LEMMA InitWebmailInv == WebmailInit => WebmailInv
  <1> SUFFICES ASSUME WebmailInit
               PROVE  WebmailInv
    OBVIOUS
  <1>1. PICK y : y = [folder |-> "INBOX", uid |-> 1, msg |-> 1, deleted |-> FALSE]
    OBVIOUS
  <1>2. /\ mail = {y} /\ y.folder = "INBOX" /\ y.uid = 1 /\ y.msg = 1 /\ y.deleted = FALSE
        /\ rowsEver = 1 /\ nextUid = [f \in Folders |-> IF f = "INBOX" THEN 2 ELSE 1]
    BY <1>1 DEF WebmailInit
  <1>3. RowsOK
    <2>1. mail \subseteq MailRows
      BY <1>1, <1>2, FoldersKnown DEF MailRows
    <2>2. IsFiniteSet(mail)
      BY <1>2, FS_Singleton
    <2>3. nextUid \in [Folders -> Nat \ {0}]
      BY <1>2
    <2>4. \A x \in mail : x.uid < nextUid[x.folder]
      BY <1>2, FoldersKnown
    <2>5. \A x, z \in mail : x.folder = z.folder /\ x.uid = z.uid => x = z
      BY <1>2
    <2>6. rowsEver \in 1..MaxRows
      BY <1>2, WebmailBounds
    <2> QED
      BY <2>1, <2>2, <2>3, <2>4, <2>5, <2>6 DEF RowsOK
  <1>4. NotesOK
    <2>1. /\ stored \cup doomed \cup skipped \cup guessed \subseteq 1..rowsEver
          /\ unsure \cup shifted \subseteq Requests
      BY DEF WebmailInit
    <2>2. breaks \in 0..MaxBreaks /\ requests \in 0..MaxRequests
      BY WebmailBounds DEF WebmailInit
    <2> QED
      BY <2>1, <2>2 DEF NotesOK
  <1>5. NoUndo \in Marks /\ NoUndo.id = 0 /\ NoUndo.msg = 0
    BY DEF NoUndo, Marks
  <1>6. /\ NoList \in TabLists /\ NoList.folder = "none" /\ NoList.uids = {} /\ NoList.offset = 0
        /\ ~NoList.more
    BY EmptyListOK DEF NoList, TabLists
  <1>7. /\ task = [q \in Requests |-> Idle] /\ draft = [q \in Requests |-> NoUndo]
        /\ undo = [q \in Requests |-> NoUndo] /\ loaded = [q \in Requests |-> NoList]
        /\ had = [q \in Requests |-> {}] /\ stored = {1}
    BY DEF WebmailInit, NoUndo
  <1>8. TabOK(Idle, NoUndo, NoUndo, NoList, {})
    BY <1>5, <1>6, IdleOK DEF TabOK
  <1>9. TabsOK
    <2>1. /\ task \in [Requests -> Tasks] /\ draft \in [Requests -> Marks]
          /\ undo \in [Requests -> Marks] /\ loaded \in [Requests -> TabLists]
          /\ had \in [Requests -> SUBSET Nat]
      BY <1>5, <1>6, <1>7, IdleOK
    <2>2. \A q \in Requests : TabOK(task[q], draft[q], undo[q], loaded[q], had[q])
      BY <1>7, <1>8
    <2> QED
      BY <2>1, <2>2 DEF TabsOK
  <1>10. Safe
    BY <1>2, <1>7, IdleOK DEF Safe
  <1>11. ASSUME NEW q \in Requests
         PROVE  TabInv(q)
    <2>1. /\ task[q] = Idle /\ draft[q] = NoUndo /\ undo[q] = NoUndo /\ loaded[q] = NoList
          /\ had[q] = {}
      BY <1>7
    <2>2. DraftOK(Idle, NoUndo)
      BY <1>2, <1>5, FoldersKnown, IdleOK DEF DraftOK
    <2>3. UndoOK(NoUndo)
      BY <1>2, <1>5, FoldersKnown DEF UndoOK
    <2>4. ListOK(Idle, NoList, {})
      BY <1>6, IdleOK DEF ListOK, Held
    <2> QED
      BY <2>1, <2>2, <2>3, <2>4, IdleOK DEF TabInv
  <1> QED
    BY <1>3, <1>4, <1>9, <1>10, <1>11 DEF WebmailInv

LEMMA WebmailStepKeeps ==
  ASSUME WebmailInv, WebmailNext
  PROVE  WebmailInv'
  <1>1. CASE Arrive
    BY <1>1, ArriveKeeps
  <1>2. ASSUME NEW q \in Requests,
               \/ TrashMessage(q) \/ MoveMessage(q) \/ UpdateFlags(q)
               \/ SaveDraft(q) \/ OpenFolder(q) \/ LoadMore(q)
        PROVE  WebmailInv'
    BY <1>2, TrashMessageKeeps, MoveMessageKeeps, UpdateFlagsKeeps, SaveDraftKeeps,
       OpenFolderKeeps, LoadMoreKeeps
  <1>3. ASSUME NEW q \in Requests, Command(q)
        PROVE  WebmailInv'
    <2>1. CASE Copy(q) \/ Store(q) \/ Expunge(q) \/ Locate(q) \/ LocateFails(q)
      BY <2>1, CopyKeeps, StoreKeeps, ExpungeKeeps, LocateKeeps, LocateFailsKeeps
    <2>2. CASE Status(q) \/ SaveText(q) \/ Count(q) \/ Fetch(q)
      BY <2>2, StatusKeeps, SaveTextKeeps, CountKeeps, FetchKeeps
    <2> QED
      BY <1>3, <2>1, <2>2 DEF Command
  <1>4. ASSUME NEW q \in Requests, BreakOff(q) \/ Refresh(q)
        PROVE  WebmailInv'
    BY <1>4, BreakOffKeeps, RefreshKeeps
  <1> QED
    BY <1>1, <1>2, <1>3, <1>4 DEF WebmailNext

LEMMA WebmailStutters ==
  ASSUME WebmailInv, UNCHANGED wmVars
  PROVE  WebmailInv'
  <1>1. /\ mail' = mail /\ nextUid' = nextUid /\ task' = task /\ draft' = draft
        /\ undo' = undo /\ loaded' = loaded /\ stored' = stored /\ had' = had
        /\ doomed' = doomed /\ skipped' = skipped /\ guessed' = guessed
        /\ unsure' = unsure /\ shifted' = shifted
        /\ breaks' = breaks /\ rowsEver' = rowsEver /\ requests' = requests
    BY DEF wmVars
  <1>2. RowsOK' /\ NotesOK'
    BY <1>1 DEF WebmailInv, RowsOK, MailRows, NotesOK
  <1>3. TabsOK'
    BY <1>1 DEF WebmailInv, TabsOK
  <1>4. Safe'
    BY <1>1 DEF WebmailInv, Safe
  <1>5. ASSUME NEW p \in Requests
        PROVE  TabInv(p)'
    <2>1. PICK t, d, u, l, h :
            t = task[p] /\ d = draft[p] /\ u = undo[p] /\ l = loaded[p] /\ h = had[p]
      OBVIOUS
    <2>2. /\ DraftOK(t, d) /\ TargetOK(t) /\ WayOK(t)
          /\ p \in unsure \/ (CopyThere(t) /\ UndoOK(u))
          /\ p \in shifted \/ ListOK(t, l, h)
      BY <2>1 DEF WebmailInv, TabInv
    <2>3. /\ DraftOK(t, d)' /\ TargetOK(t)' /\ WayOK(t)'
          /\ p \in unsure' \/ (CopyThere(t)' /\ UndoOK(u)')
          /\ p \in shifted' \/ ListOK(t, l, h)'
      BY <1>1, <2>2, SameBox
    <2>4. task'[p] = t /\ draft'[p] = d /\ undo'[p] = u /\ loaded'[p] = l /\ had'[p] = h
      BY <1>1, <2>1
    <2> QED
      BY <2>3, <2>4, TabInvNow
  <1> QED
    BY <1>2, <1>3, <1>4, <1>5 DEF WebmailInv

LEMMA WebmailStep ==
  ASSUME WebmailInv, [WebmailNext]_wmVars
  PROVE  WebmailInv'
  BY WebmailStepKeeps, WebmailStutters

LEMMA WebmailInvariant == WebmailSpec => []WebmailInv
  <1>1. WebmailInit => WebmailInv
    BY InitWebmailInv
  <1>2. WebmailInv /\ [WebmailNext]_wmVars => WebmailInv'
    BY WebmailStep
  <1> QED
    BY <1>1, <1>2, PTL DEF WebmailSpec

\* Type correctness of Webmail: rows lie in known folders under UIDs that were
\* given out, no two of a folder under the same, and the bounds hold.
THEOREM WebmailTypeCorrect == WebmailSpec => []WebmailTypeOK
  <1>1. WebmailInv => WebmailTypeOK
    <2> SUFFICES ASSUME WebmailInv
                 PROVE  WebmailTypeOK
      OBVIOUS
    <2>1. \A x \in mail : /\ x.folder \in Folders
                          /\ x.uid \in 1..(nextUid[x.folder] - 1)
                          /\ x.msg \in 1..rowsEver
                          /\ x.deleted \in BOOLEAN
      BY DEF WebmailInv, RowsOK, MailRows
    <2>2. \A q \in Requests : task[q].at \in Steps /\ task[q].dest \in Folders
      BY DEF WebmailInv, TabsOK, Tasks
    <2>3. \A q \in Requests : loaded[q].folder \in Folders \cup {"none"} /\ loaded[q].more \in BOOLEAN
      BY DEF WebmailInv, TabsOK, TabLists
    <2>4. \A x, y \in mail : x.folder = y.folder /\ x.uid = y.uid => x = y
      BY DEF WebmailInv, RowsOK
    <2>5. doomed \cup skipped \cup guessed \subseteq 1..rowsEver /\ unsure \cup shifted \subseteq Requests
      BY DEF WebmailInv, NotesOK
    <2>6. rowsEver <= MaxRows /\ breaks <= MaxBreaks /\ requests <= MaxRequests
      BY WebmailBounds DEF WebmailInv, RowsOK, NotesOK
    <2> QED
      BY <2>1, <2>2, <2>3, <2>4, <2>5, <2>6 DEF WebmailTypeOK
  <1> QED
    BY <1>1, WebmailInvariant, PTL

\* However many tabs trash, move, expunge and save drafts of one mailbox, in
\* whatever order, and wherever their connections break: each message that
\* nobody deletes for good is still in some folder (TrashMessage, MoveMessage,
\* SaveDraft).  At every moment there is a row of it that is not flagged and
\* that no request is about to flag, so an EXPUNGE by any of them is harmless.
\* Two kinds of message are excepted, which the code does lose: one that COPY
\* did not see and STORE did, and one under the UID that was guessed for a
\* draft.
THEOREM NoMessageVanishes == WebmailSpec => []NothingVanishes
  <1>1. WebmailInv => NothingVanishes
    <2> SUFFICES ASSUME WebmailInv, NEW m \in stored
                 PROVE  m \in doomed \cup skipped \cup guessed \/ \E x \in mail : x.msg = m
      BY DEF NothingVanishes
    <2> QED
      BY DEF WebmailInv, Safe
  <1> QED
    BY <1>1, WebmailInvariant, PTL

\* The id that a tab keeps for Undo is that of the message it trashed
\* (TrashResult), for as long as it keeps it and whatever other tabs do
\* meanwhile.  Excepted, tab by tab and until its next trashing, are an offer
\* made after COPY found nothing, one for which the search in the Trash failed
\* and the answer was the UID of the source folder, and one whose copy was not
\* the newest in the Trash any more when it was looked for.
THEOREM UndoIsRight == WebmailSpec => []UndoTakesBack
  <1>1. WebmailInv => UndoTakesBack
    BY DEF WebmailInv, TabInv, UndoOK, UndoTakesBack
  <1> QED
    BY <1>1, WebmailInvariant, PTL

\* Loading a folder page by page, by offset and number, leaves out no message
\* that was in it from the first page to the last (ListMessages, loadMore),
\* while new ones arrive, others are put in and messages behind the offset go.
\* Excepted, until the folder is opened anew, are a tab with a message gone
\* from before its offset, whoever took it, or gone between SELECT and FETCH,
\* a folder beyond imapd's window, and a tab whose refresh overtook a page.
THEOREM ListsAreComplete == WebmailSpec => []PagesComplete
  <1>1. WebmailInv => PagesComplete
    BY DEF WebmailInv, TabInv, ListOK, PagesComplete
  <1> QED
    BY <1>1, WebmailInvariant, PTL
-----------------------------------------------------------------------------
(* What becomes of a text.                                                 *)

Bare == {<<>>, <<"body">>}

\* A message is dressed at most once in each text but the twin; without the
\* mark it is not dressed at all.
TextsOK(m) ==
  /\ m = [id |-> m.id, to |-> m.to, subject |-> m.subject, reply |-> m.reply, marked |-> m.marked,
          parts |-> m.parts, twin |-> m.twin]
  /\ m.marked \in BOOLEAN /\ m.twin \in BOOLEAN
  /\ \A x \in m.parts :
       /\ x = [media |-> x.media, text |-> x.text, inner |-> x.inner]
       /\ m.marked \/ x.text \in Bare
       /\ (m.twin /\ x.media = "html") \/ OnceOnly(x.text)

\* A bare text that a policy renders has each of its extras once.
LEMMA RenderOnce ==
  ASSUME NEW extras, NEW text \in Bare
  PROVE  OnceOnly(text) /\ OnceOnly(Render(extras, text))
  <1>1. ASSUME NEW a \in {<<>>, <<"tpl">>}, NEW c \in {<<>>, <<"foot">>}
        PROVE  OnceOnly(a \o text \o c)
    BY <1>1 DEF OnceOnly, Bare
  <1>2. OnceOnly(text)
    BY DEF OnceOnly, Bare
  <1>3. \E a \in {<<>>, <<"tpl">>}, c \in {<<>>, <<"foot">>} : Render(extras, text) = a \o text \o c
    BY DEF Render
  <1> QED
    BY <1>1, <1>2, <1>3

LEMMA TransformOnce ==
  ASSUME NEW p, NEW d, NEW texts, texts = TransformBodies(p, d)
  PROVE  /\ OnceOnly(texts.plain)
         /\ d.html => OnceOnly(texts.html)
         /\ NoPolicy(p) => texts.plain \in Bare /\ texts.html \in Bare
  <1>1. PICK bare : bare = Composed(d)
    OBVIOUS
  <1>2. bare.plain \in Bare /\ bare.html \in Bare
    BY <1>1 DEF Composed, Bare
  <1>3. CASE texts = bare
    BY <1>2, <1>3, RenderOnce
  <1>4. CASE texts # bare
    <2>1. ~NoPolicy(p)
      BY <1>1, <1>4 DEF TransformBodies
    <2>2. texts.plain \in {<<>>, Render(p.plain, bare.plain)}
      BY <1>1, <1>4 DEF TransformBodies
    <2>3. d.html => texts.html = Render(p.html, bare.html)
      BY <1>1, <1>4 DEF TransformBodies
    <2>4. <<>> \in Bare
      BY DEF Bare
    <2> QED
      BY <1>2, <2>1, <2>2, <2>3, <2>4, RenderOnce
  <1> QED
    BY <1>3, <1>4

LEMMA BuildOnce ==
  ASSUME NEW n, NEW d, NEW texts, NEW applied \in BOOLEAN, NEW m,
         m = BuildMIME(n, d, texts, applied),
         OnceOnly(texts.plain), d.html => OnceOnly(texts.html),
         applied \/ (texts.plain \in Bare /\ texts.html \in Bare)
  PROVE  TextsOK(m) /\ m.id = n /\ m.to = d.to
  <1>1. PICK x, y : /\ x = [media |-> "plain", text |-> texts.plain,
                            inner |-> d.file /\ texts.html # <<>>]
                    /\ y = [media |-> "html", text |-> texts.html,
                            inner |-> d.file /\ texts.html # <<>>]
    OBVIOUS
  <1>2. PICK parts : parts = IF texts.html = <<>> THEN {x} ELSE {x, y}
    OBVIOUS
  <1>3. PICK twin \in BOOLEAN : twin = (~d.html /\ texts.html # <<>>)
    OBVIOUS
  <1>4. m = [id |-> n, to |-> d.to, subject |-> d.subject, reply |-> d.reply, marked |-> applied,
             parts |-> parts, twin |-> twin]
    BY <1>1, <1>2, <1>3 DEF BuildMIME
  <1>5. m.id = n /\ m.to = d.to /\ m.marked = applied /\ m.parts = parts /\ m.twin = twin
        /\ m = [id |-> m.id, to |-> m.to, subject |-> m.subject, reply |-> m.reply, marked |-> m.marked,
                parts |-> m.parts, twin |-> m.twin]
    BY <1>4
  <1>6. /\ x = [media |-> x.media, text |-> x.text, inner |-> x.inner] /\ x.text = texts.plain
        /\ y = [media |-> y.media, text |-> y.text, inner |-> y.inner] /\ y.text = texts.html
        /\ y.media = "html"
    BY <1>1
  <1>7. \A z \in parts : z = x \/ (z = y /\ (texts.html # <<>>))
    BY <1>2
  <1>8. ASSUME NEW z \in parts
        PROVE  /\ z = [media |-> z.media, text |-> z.text, inner |-> z.inner]
               /\ applied \/ z.text \in Bare
               /\ (twin /\ z.media = "html") \/ OnceOnly(z.text)
    <2>1. CASE z = x
      BY <1>6, <2>1
    <2>2. CASE z = y /\ texts.html # <<>>
      BY <1>3, <1>6, <2>2
    <2> QED
      BY <1>7, <2>1, <2>2
  <1> QED
    BY <1>5, <1>8 DEF TextsOK

\* A message of the API, one of another client, and one that is sent again.
LEMMA ComposedOnce ==
  ASSUME NEW n, NEW d, NEW p, NEW m,
         m = BuildMIME(n, d, TransformBodies(p, d), ~NoPolicy(p))
  PROVE  TextsOK(m) /\ m.id = n /\ m.to = d.to
  <1>1. PICK texts : texts = TransformBodies(p, d)
    OBVIOUS
  <1>2. PICK applied \in BOOLEAN : applied = ~NoPolicy(p)
    OBVIOUS
  <1>3. /\ OnceOnly(texts.plain) /\ (d.html => OnceOnly(texts.html))
        /\ applied \/ (texts.plain \in Bare /\ texts.html \in Bare)
    BY <1>1, <1>2, TransformOnce
  <1>4. m = BuildMIME(n, d, texts, applied)
    BY <1>1, <1>2
  <1> QED
    BY <1>3, <1>4, BuildOnce

LEMMA UndressedOnce ==
  ASSUME NEW n, NEW d, NEW m, m = BuildMIME(n, d, Composed(d), FALSE)
  PROVE  TextsOK(m) /\ m.id = n /\ m.to = d.to
  <1>1. PICK texts : texts = Composed(d)
    OBVIOUS
  <1>2. PICK applied \in BOOLEAN : applied = FALSE
    OBVIOUS
  <1>3. texts.plain \in Bare /\ texts.html \in Bare
    BY <1>1 DEF Composed, Bare
  <1>4. OnceOnly(texts.plain) /\ OnceOnly(texts.html)
    BY <1>3, RenderOnce
  <1>5. PICK x : x = BuildMIME(n, d, texts, applied)
    OBVIOUS
  <1>6. m = x
    BY <1>1, <1>2, <1>5
  <1>7. TextsOK(x) /\ x.id = n /\ x.to = d.to
    BY <1>3, <1>4, <1>5, BuildOnce
  <1> QED
    BY <1>6, <1>7

LEMMA RenumberedOnce ==
  ASSUME NEW m, TextsOK(m), NEW n, NEW k, k = [m EXCEPT !.id = n]
  PROVE  TextsOK(k) /\ k.id = n
  BY DEF TextsOK

\* The MTA dresses what carries no mark, and marks it.
LEMMA DressedTexts ==
  ASSUME NEW m, TextsOK(m), ~m.marked, NEW p, NEW k, k = Dressed(p, m)
  PROVE  TextsOK(k) /\ k.id = m.id
  <1> DEFINE dress(x) == IF x.inner THEN x ELSE [x EXCEPT !.text = Render(p[x.media], @)]
  <1>1. PICK parts : parts = {dress(x) : x \in m.parts}
    OBVIOUS
  <1>2. PICK done \in BOOLEAN : done = TRUE
    OBVIOUS
  <1>3. k = [id |-> m.id, to |-> m.to, subject |-> m.subject, reply |-> m.reply, marked |-> done,
             parts |-> parts, twin |-> m.twin]
    <2>1. k = [[m EXCEPT !.marked = done] EXCEPT !.parts = {dress(x) : x \in m.parts}]
      BY <1>2 DEF Dressed
    <2>2. m = [id |-> m.id, to |-> m.to, subject |-> m.subject, reply |-> m.reply, marked |-> m.marked,
               parts |-> m.parts, twin |-> m.twin]
      BY DEF TextsOK
    <2>3. [m EXCEPT !.marked = done]
            = [id |-> m.id, to |-> m.to, subject |-> m.subject, reply |-> m.reply, marked |-> done,
               parts |-> m.parts, twin |-> m.twin]
      BY <2>2
    <2> QED
      BY <1>1, <2>1, <2>3
  <1>4. ASSUME NEW x \in m.parts
        PROVE  /\ dress(x) = [media |-> dress(x).media, text |-> dress(x).text, inner |-> dress(x).inner]
               /\ dress(x).media = x.media
               /\ OnceOnly(dress(x).text)
    <2>1. /\ x = [media |-> x.media, text |-> x.text, inner |-> x.inner] /\ x.text \in Bare
      BY DEF TextsOK
    <2>2. CASE x.inner
      BY <2>1, <2>2, RenderOnce
    <2>3. CASE ~x.inner
      <3>1. PICK t : t = Render(p[x.media], x.text)
        OBVIOUS
      <3>2. dress(x) = [x EXCEPT !.text = t]
        BY <2>3, <3>1
      <3>3. dress(x) = [media |-> x.media, text |-> t, inner |-> x.inner]
        BY <2>1, <3>2
      <3>4. OnceOnly(t)
        BY <2>1, <3>1, RenderOnce
      <3> HIDE DEF dress
      <3> QED
        BY <3>3, <3>4
    <2> QED
      BY <2>2, <2>3
  <1> HIDE DEF dress
  <1>5. /\ k.id = m.id /\ k.to = m.to /\ k.marked = done /\ k.parts = parts /\ k.twin = m.twin
        /\ k = [id |-> k.id, to |-> k.to, subject |-> k.subject, reply |-> k.reply, marked |-> k.marked,
                parts |-> k.parts, twin |-> k.twin]
    BY <1>3
  <1> QED
    <2>1. k.marked \in BOOLEAN /\ k.twin \in BOOLEAN /\ k.marked
      BY <1>2, <1>5 DEF TextsOK
    <2>2. ASSUME NEW y \in k.parts
          PROVE  /\ y = [media |-> y.media, text |-> y.text, inner |-> y.inner]
                 /\ OnceOnly(y.text)
      BY <1>1, <1>4, <1>5
    <2> QED
      BY <1>5, <2>1, <2>2 DEF TextsOK

LEMMA AppliedOnce ==
  ASSUME NEW m, TextsOK(m), NEW p, NEW k, k = Apply(p, m)
  PROVE  TextsOK(k) /\ k.id = m.id
  <1>1. k = m \/ (~m.marked /\ k = Dressed(p, m))
    BY DEF Apply
  <1> QED
    BY <1>1, DressedTexts

-----------------------------------------------------------------------------
(* The inductive invariant of Compose.                                     *)

FirstPorts == {"smtps", "submission", "plain"}
Ports == FirstPorts \cup {"fallback"}

CountsOK ==
  /\ policy \in Policies
  /\ answer \in [1..Presses -> {"none", "sent", "failed"}]
  /\ copies \in [1..Presses -> [Everyone -> 0..2]]
  /\ meant \in [1..Presses -> SUBSET Everyone]
  /\ missed \in [1..Presses -> SUBSET Near]
  /\ behind \in [1..Presses -> SUBSET Everyone]
  /\ pressed \in 0..Presses /\ cuts \in 0..MaxCuts

\* Nobody has said anything of message n, and nothing is queued.
Untouched(n) == answer[n] = "none" /\ behind[n] = {} /\ \A r \in Everyone : copies[n][r] = 0

\* Message m is on its way: this try has stored jobs for `took`, and the one
\* before it, if there was one, for those it left behind.
Trying(at, step, took, m) ==
  /\ m.id \in 1..pressed /\ answer[m.id] = "none" /\ m.to = meant[m.id] /\ took \subseteq m.to
  /\ \A r \in Everyone :
       /\ r \notin behind[m.id] => copies[m.id][r] = IF r \in took THEN 1 ELSE 0
       /\ r \notin took => copies[m.id][r] <= IF at \in FirstPorts THEN 0 ELSE 1
       /\ at \in FirstPorts => copies[m.id][r] <= 1
  /\ step = "call" => took = {}
  /\ step = "near" => took = (m.to \cap Near) \ missed[m.id]
  /\ step = "far" => took = m.to \ missed[m.id]

Way(at, step, took, m) == [at |-> at, step |-> step, took |-> took, msg |-> m]

SendingOK ==
  \/ sending = NotSending
  \/ \E at \in Ports \cup {"sent"}, step \in {"call", "near", "far"} : \E took, m :
       /\ sending = Way(at, step, took, m) /\ TextsOK(m) /\ Trying(at, step, took, m)
       /\ at = "sent" => step = "far"

TextsKept == \A m \in queued \cup filed : TextsOK(m) /\ m.id \in 1..Presses

\* What was answered of message n is so.
Answered(n) ==
  \A r \in Everyone \ behind[n] :
    /\ answer[n] = "failed" => copies[n][r] = 0
    /\ answer[n] = "sent" => copies[n][r] = IF r \in meant[n] \ missed[n] THEN 1 ELSE 0

ComposeInv ==
  /\ CountsOK /\ SendingOK /\ TextsKept
  /\ \A n \in 1..Presses : Answered(n)
  /\ \A n \in 1..Presses : n > pressed => Untouched(n)

LEMMA EveryoneKnown ==
  /\ "far" \in Everyone /\ "far" \notin Near /\ Near \subseteq Everyone
  /\ \A d \in Drafts : d.to \subseteq Everyone
  /\ Presses \in Nat /\ MaxCuts \in Nat
  BY ComposeAssumption DEF Everyone

\* What is being sent, while a step of sending is possible.
LEMMA OnItsPort ==
  ASSUME ComposeInv, sending.at # "idle"
  PROVE  \E at \in Ports \cup {"sent"}, step \in {"call", "near", "far"} : \E took, m :
           /\ sending = Way(at, step, took, m) /\ TextsOK(m) /\ Trying(at, step, took, m)
           /\ at = "sent" => step = "far"
           /\ sending.at = at /\ sending.step = step /\ sending.took = took /\ sending.msg = m
           /\ m.id \in 1..pressed /\ m.id \in 1..Presses /\ took \subseteq Everyone
  <1>1. sending # NotSending
    BY DEF NotSending
  <1>2. PICK at \in Ports \cup {"sent"}, step \in {"call", "near", "far"} : \E took, m :
          /\ sending = Way(at, step, took, m) /\ TextsOK(m) /\ Trying(at, step, took, m)
          /\ at = "sent" => step = "far"
    BY <1>1 DEF ComposeInv, SendingOK
  <1>3. PICK took, m :
          /\ sending = Way(at, step, took, m) /\ TextsOK(m) /\ Trying(at, step, took, m)
          /\ at = "sent" => step = "far"
    BY <1>2
  <1>4. sending.at = at /\ sending.step = step /\ sending.took = took /\ sending.msg = m
    BY <1>3 DEF Way
  <1>5. m.id \in 1..pressed /\ m.id \in 1..Presses /\ took \subseteq Everyone
    <2>1. m.id \in 1..pressed /\ pressed \in 0..Presses
      BY <1>3 DEF Trying, ComposeInv, CountsOK
    <2>2. m.id \in 1..Presses
      BY <2>1, EveryoneKnown
    <2> QED
      BY <1>3, <2>1, <2>2 DEF Trying, ComposeInv, CountsOK
  <1> QED
    BY <1>3, <1>4, <1>5

\* Nothing changes for any message but n.
Apart(n) ==
  \A i \in 1..Presses : i # n =>
    /\ answer'[i] = answer[i] /\ copies'[i] = copies[i] /\ meant'[i] = meant[i]
    /\ missed'[i] = missed[i] /\ behind'[i] = behind[i]

LEMMA ApartKeeps ==
  ASSUME ComposeInv, NEW n \in 1..pressed', Apart(n), pressed' \in 0..Presses, pressed <= pressed',
         n \in 1..Presses => Answered(n)'
  PROVE  /\ \A i \in 1..Presses : Answered(i)'
         /\ \A i \in 1..Presses : i > pressed' => Untouched(i)'
  <1>1. pressed \in Nat /\ pressed' \in Nat /\ n \in Nat /\ n <= pressed'
    BY EveryoneKnown DEF ComposeInv, CountsOK
  <1>2. ASSUME NEW i \in 1..Presses
        PROVE  Answered(i)'
    <2>1. CASE i = n
      BY <1>2, <2>1
    <2>2. CASE i # n
      BY <1>2, <2>2 DEF Apart, ComposeInv, Answered
    <2> QED
      BY <2>1, <2>2
  <1>3. ASSUME NEW i \in 1..Presses, i > pressed'
        PROVE  Untouched(i)'
    <2>1. i # n /\ i > pressed
      BY <1>1, <1>3
    <2> QED
      BY <1>3, <2>1 DEF Apart, ComposeInv, Untouched
  <1> QED
    BY <1>2, <1>3

LEMMA CutCounts ==
  ASSUME ComposeInv, Cut
  PROVE  cuts' \in 0..MaxCuts
  BY EveryoneKnown DEF Cut, ComposeInv, CountsOK

LEMMA PressKeeps ==
  ASSUME ComposeInv, NEW d \in Drafts, NEW port \in FirstPorts, Press(d, port)
  PROVE  ComposeInv'
  <1>1. PICK m, n : m = BuildMIME(pressed + 1, d, TransformBodies(policy, d), ~NoPolicy(policy))
                    /\ n = pressed + 1
    OBVIOUS
  <1>2. TextsOK(m) /\ m.id = n /\ m.to = d.to
    BY <1>1, ComposedOnce
  <1>3. /\ pressed < Presses /\ pressed' = n /\ sending' = Way(port, "call", {}, m)
        /\ policy' = policy /\ filed' = filed /\ queued' = queued /\ copies' = copies
        /\ answer' = answer /\ missed' = missed /\ behind' = behind /\ cuts' = cuts
        /\ meant' = [meant EXCEPT ![n] = d.to]
    BY <1>1 DEF Press, delivered, Way
  <1>4. /\ Presses \in Nat /\ pressed \in Nat /\ pressed' \in 0..Presses /\ pressed <= pressed'
        /\ n \in 1..pressed' /\ n \in 1..Presses /\ n > pressed
    BY <1>1, <1>3, EveryoneKnown DEF ComposeInv, CountsOK
  <1>5. meant' \in [1..Presses -> SUBSET Everyone] /\ meant'[n] = m.to
        /\ \A i \in 1..Presses : i # n => meant'[i] = meant[i]
    BY <1>2, <1>3, <1>4, EveryoneKnown DEF ComposeInv, CountsOK
  <1>6. Untouched(n)
    BY <1>4 DEF ComposeInv
  <1>7. CountsOK'
    BY <1>3, <1>4, <1>5 DEF ComposeInv, CountsOK
  <1>8. Trying(port, "call", {}, m)'
    BY <1>2, <1>3, <1>4, <1>5, <1>6 DEF Trying, Untouched
  <1>9. SendingOK'
    BY <1>2, <1>3, <1>8 DEF SendingOK, FirstPorts, Ports
  <1>10. /\ \A i \in 1..Presses : Answered(i)'
         /\ \A i \in 1..Presses : i > pressed' => Untouched(i)'
    <2>1. Apart(n)
      BY <1>3, <1>5 DEF Apart
    <2>2. Answered(n)'
      BY <1>3, <1>6 DEF Answered, Untouched
    <2> QED
      BY <1>4, <2>1, <2>2, ApartKeeps
  <1> QED
    BY <1>3, <1>7, <1>9, <1>10 DEF ComposeInv, TextsKept

\* An error: the other port, or the answer.
LEMMA ErrorKeeps ==
  ASSUME ComposeInv, OnThePort("call") \/ OnThePort("near") \/ OnThePort("far"), Cut, AfterError,
         UNCHANGED <<policy, meant, filed, delivered, pressed>>
  PROVE  ComposeInv'
  <1>1. sending.at \in Ports /\ sending.at # "idle" /\ sending.at # "sent"
    BY DEF OnThePort, Ports, FirstPorts
  <1>2. PICK at \in Ports \cup {"sent"}, step \in {"call", "near", "far"} : \E took, m :
           /\ sending = Way(at, step, took, m) /\ TextsOK(m) /\ Trying(at, step, took, m)
           /\ at = "sent" => step = "far"
           /\ sending.at = at /\ sending.step = step /\ sending.took = took /\ sending.msg = m
           /\ m.id \in 1..pressed /\ m.id \in 1..Presses /\ took \subseteq Everyone
    BY <1>1, OnItsPort
  <1>3. PICK took, m :
           /\ sending = Way(at, step, took, m) /\ TextsOK(m) /\ Trying(at, step, took, m)
           /\ sending.at = at /\ sending.step = step /\ sending.took = took /\ sending.msg = m
           /\ m.id \in 1..pressed /\ m.id \in 1..Presses /\ took \subseteq Everyone
    BY <1>2
  <1>4. PICK n : n = m.id
    OBVIOUS
  <1>5. /\ policy' = policy /\ meant' = meant /\ filed' = filed /\ queued' = queued
        /\ copies' = copies /\ missed' = missed /\ pressed' = pressed
        /\ behind' = [behind EXCEPT ![n] = @ \cup took]
    BY <1>3, <1>4 DEF delivered, AfterError
  <1>6. /\ behind' \in [1..Presses -> SUBSET Everyone] /\ behind'[n] = behind[n] \cup took
        /\ \A i \in 1..Presses : i # n => behind'[i] = behind[i]
    BY <1>3, <1>4, <1>5 DEF ComposeInv, CountsOK
  <1>7. \A r \in Everyone : r \notin behind'[n] => copies[n][r] = 0
    BY <1>3, <1>4, <1>6 DEF Trying
  <1>8. cuts' \in 0..MaxCuts
    BY CutCounts
  <1>9. CASE at = "submission"
    <2>1. /\ sending' = [sending EXCEPT !.at = "fallback", !.step = "call", !.took = {}]
          /\ answer' = answer
      BY <1>3, <1>9 DEF AfterError
    <2>2. sending' = Way("fallback", "call", {}, m)
      <3>1. sending = [at |-> at, step |-> step, took |-> took, msg |-> m]
        BY <1>3 DEF Way
      <3>2. [sending EXCEPT !.at = "fallback"]
              = [at |-> "fallback", step |-> step, took |-> took, msg |-> m]
        BY <3>1
      <3>3. [[at |-> "fallback", step |-> step, took |-> took, msg |-> m] EXCEPT !.step = "call"]
              = [at |-> "fallback", step |-> "call", took |-> took, msg |-> m]
        OBVIOUS
      <3>4. [[at |-> "fallback", step |-> "call", took |-> took, msg |-> m] EXCEPT !.took = {}]
              = [at |-> "fallback", step |-> "call", took |-> {}, msg |-> m]
        OBVIOUS
      <3> QED
        BY <2>1, <3>2, <3>3, <3>4 DEF Way
    <2>3. Trying("fallback", "call", {}, m)'
      <3>1. \A r \in Everyone : /\ r \notin behind'[n] => copies'[n][r] = 0
                                /\ copies'[n][r] <= 1
        BY <1>3, <1>4, <1>5, <1>7, <1>9 DEF Trying, FirstPorts
      <3>2. /\ n \in 1..pressed' /\ answer'[n] = "none" /\ m.to = meant'[n]
        BY <1>3, <1>4, <1>5, <2>1 DEF Trying
      <3> QED
        BY <1>4, <3>1, <3>2 DEF Trying, FirstPorts
    <2>4. SendingOK'
      BY <1>3, <2>2, <2>3 DEF SendingOK, Ports
    <2>5. CountsOK'
      BY <1>5, <1>6, <1>8, <2>1 DEF ComposeInv, CountsOK
    <2>6. /\ \A i \in 1..Presses : Answered(i)'
          /\ \A i \in 1..Presses : i > pressed' => Untouched(i)'
      <3>1. Apart(n)
        BY <1>5, <1>6, <2>1 DEF Apart
      <3>2. Answered(n)'
        BY <1>3, <1>4, <2>1 DEF Answered, Trying
      <3>3. pressed' \in 0..Presses /\ pressed <= pressed' /\ n \in 1..pressed'
        BY <1>3, <1>4, <1>5, EveryoneKnown DEF ComposeInv, CountsOK
      <3> QED
        BY <3>1, <3>2, <3>3, ApartKeeps
    <2> QED
      BY <1>5, <2>4, <2>5, <2>6 DEF ComposeInv, TextsKept
  <1>10. CASE at # "submission"
    <2>1. sending' = NotSending /\ answer' = [answer EXCEPT ![n] = "failed"]
      BY <1>3, <1>4, <1>10 DEF AfterError
    <2>2. /\ answer' \in [1..Presses -> {"none", "sent", "failed"}] /\ answer'[n] = "failed"
          /\ \A i \in 1..Presses : i # n => answer'[i] = answer[i]
      BY <1>3, <1>4, <2>1 DEF ComposeInv, CountsOK
    <2>3. SendingOK'
      BY <2>1 DEF SendingOK
    <2>4. CountsOK'
      BY <1>5, <1>6, <1>8, <2>2 DEF ComposeInv, CountsOK
    <2>5. /\ \A i \in 1..Presses : Answered(i)'
          /\ \A i \in 1..Presses : i > pressed' => Untouched(i)'
      <3>1. Apart(n)
        BY <1>5, <1>6, <2>2 DEF Apart
      <3>2. Answered(n)'
        BY <1>5, <1>7, <2>2 DEF Answered
      <3>3. pressed' \in 0..Presses /\ pressed <= pressed' /\ n \in 1..pressed'
        BY <1>3, <1>4, <1>5, EveryoneKnown DEF ComposeInv, CountsOK
      <3> QED
        BY <3>1, <3>2, <3>3, ApartKeeps
    <2> QED
      BY <1>5, <2>3, <2>4, <2>5 DEF ComposeInv, TextsKept
  <1> QED
    BY <1>9, <1>10

LEMMA QueueNearKeeps ==
  ASSUME ComposeInv, QueueNear
  PROVE  ComposeInv'
  <1>1. sending.at \in Ports /\ sending.at # "idle" /\ sending.at # "sent" /\ sending.step = "call"
    BY DEF QueueNear, OnThePort, Ports, FirstPorts
  <1>2. PICK at \in Ports \cup {"sent"}, step \in {"call", "near", "far"} : \E took, m :
           /\ sending = Way(at, step, took, m) /\ TextsOK(m) /\ Trying(at, step, took, m)
           /\ at = "sent" => step = "far"
           /\ sending.at = at /\ sending.step = step /\ sending.took = took /\ sending.msg = m
           /\ m.id \in 1..pressed /\ m.id \in 1..Presses /\ took \subseteq Everyone
    BY <1>1, OnItsPort
  <1>3. PICK took, m :
           /\ sending = Way(at, step, took, m) /\ TextsOK(m) /\ Trying(at, step, took, m)
           /\ sending.at = at /\ sending.step = step /\ sending.took = took /\ sending.msg = m
           /\ m.id \in 1..pressed /\ m.id \in 1..Presses /\ took \subseteq Everyone
    BY <1>2
  <1>4. PICK n : n = m.id
    OBVIOUS
  <1>5. PICK got \in SUBSET (m.to \cap Near) :
          /\ IF got = m.to \cap Near THEN UNCHANGED cuts ELSE Cut
          /\ queued' = IF got = {} THEN queued ELSE queued \cup {m}
          /\ copies' = [copies EXCEPT ![n] =
                          [r \in Everyone |-> IF r \in got THEN @[r] + 1 ELSE @[r]]]
          /\ missed' = [missed EXCEPT ![n] = (m.to \cap Near) \ got]
          /\ sending' = [sending EXCEPT !.step = "near", !.took = got]
    <2>1. m = sending.msg /\ n = sending.msg.id
      BY <1>3, <1>4
    <2>2. PICK got \in SUBSET (sending.msg.to \cap Near) :
             /\ IF got = sending.msg.to \cap Near THEN UNCHANGED cuts ELSE Cut
             /\ queued' = IF got = {} THEN queued ELSE queued \cup {sending.msg}
             /\ copies' = [copies EXCEPT ![sending.msg.id] =
                             [r \in Everyone |-> IF r \in got THEN @[r] + 1 ELSE @[r]]]
             /\ missed' = [missed EXCEPT ![sending.msg.id] = (sending.msg.to \cap Near) \ got]
             /\ sending' = [sending EXCEPT !.step = "near", !.took = got]
      BY DEF QueueNear
    <2> QED
      BY <2>1, <2>2
  <1>6. /\ policy' = policy /\ meant' = meant /\ filed' = filed /\ answer' = answer
        /\ behind' = behind /\ pressed' = pressed
    BY DEF QueueNear
  <1>7. at \in Ports /\ step = "call" /\ took = {}
    BY <1>1, <1>3 DEF Trying
  <1>8. sending' = Way(at, "near", got, m)
    <2>1. sending = [at |-> at, step |-> step, took |-> took, msg |-> m]
      BY <1>3 DEF Way
    <2>2. [sending EXCEPT !.step = "near"] = [at |-> at, step |-> "near", took |-> took, msg |-> m]
      BY <2>1
    <2>3. [[at |-> at, step |-> "near", took |-> took, msg |-> m] EXCEPT !.took = got]
            = [at |-> at, step |-> "near", took |-> got, msg |-> m]
      OBVIOUS
    <2> QED
      BY <1>5, <2>2, <2>3 DEF Way
  <1>9. \A r \in Everyone : /\ copies[n][r] \in 0..1
                            /\ at \in FirstPorts => copies[n][r] = 0
                            /\ r \notin behind[n] => copies[n][r] = 0
    <2>1. \A r \in Everyone : copies[n][r] \in 0..2
      BY <1>3, <1>4 DEF ComposeInv, CountsOK
    <2> QED
      BY <1>3, <1>4, <1>7, <2>1 DEF Trying
  <1>10. /\ copies' \in [1..Presses -> [Everyone -> 0..2]]
         /\ \A i \in 1..Presses : i # n => copies'[i] = copies[i]
         /\ \A r \in Everyone : copies'[n][r] = IF r \in got THEN copies[n][r] + 1 ELSE copies[n][r]
    <2>1. PICK row : row = [r \in Everyone |-> IF r \in got THEN copies[n][r] + 1 ELSE copies[n][r]]
      OBVIOUS
    <2>2. row \in [Everyone -> 0..2]
      BY <1>9, <2>1
    <2>3. copies \in [1..Presses -> [Everyone -> 0..2]] /\ n \in 1..Presses
      BY <1>3, <1>4 DEF ComposeInv, CountsOK
    <2>4. copies' = [copies EXCEPT ![n] = row]
      BY <1>5, <2>1, <2>3
    <2> QED
      BY <2>1, <2>2, <2>3, <2>4
  <1>11. /\ missed' \in [1..Presses -> SUBSET Near] /\ missed'[n] = (m.to \cap Near) \ got
         /\ \A i \in 1..Presses : i # n => missed'[i] = missed[i]
    BY <1>3, <1>4, <1>5 DEF ComposeInv, CountsOK
  <1>12. cuts' \in 0..MaxCuts
    <2>1. cuts \in 0..MaxCuts
      BY DEF ComposeInv, CountsOK
    <2> QED
      BY <1>5, <2>1, CutCounts
  <1>13. CountsOK'
    BY <1>6, <1>10, <1>11, <1>12 DEF ComposeInv, CountsOK
  <1>14. Trying(at, "near", got, m)'
    <2>1. /\ n \in 1..pressed' /\ answer'[n] = "none" /\ m.to = meant'[n] /\ got \subseteq m.to
      BY <1>3, <1>4, <1>5, <1>6 DEF Trying
    <2>2. \A r \in Everyone :
            /\ r \notin behind'[n] => copies'[n][r] = IF r \in got THEN 1 ELSE 0
            /\ r \notin got => copies'[n][r] <= IF at \in FirstPorts THEN 0 ELSE 1
            /\ at \in FirstPorts => copies'[n][r] <= 1
      BY <1>6, <1>9, <1>10
    <2>3. got = (m.to \cap Near) \ missed'[n]
      BY <1>5, <1>11
    <2> QED
      BY <1>4, <2>1, <2>2, <2>3 DEF Trying
  <1>15. SendingOK'
    <2>1. at \in Ports /\ "near" \in {"call", "near", "far"} /\ TextsOK(m)
      BY <1>3, <1>7
    <2>2. \E a \in Ports \cup {"sent"}, s \in {"call", "near", "far"} : \E k, x :
            /\ sending' = Way(a, s, k, x) /\ TextsOK(x) /\ Trying(a, s, k, x)'
            /\ a = "sent" => s = "far"
      BY <1>8, <1>14, <2>1 DEF Ports, FirstPorts
    <2> QED
      BY <2>2 DEF SendingOK
  <1>16. TextsKept'
    BY <1>3, <1>5, <1>6 DEF ComposeInv, TextsKept
  <1>17. /\ \A i \in 1..Presses : Answered(i)'
         /\ \A i \in 1..Presses : i > pressed' => Untouched(i)'
    <2>1. Apart(n)
      BY <1>6, <1>10, <1>11 DEF Apart
    <2>2. Answered(n)'
      BY <1>3, <1>4, <1>6 DEF Answered, Trying
    <2>3. pressed' \in 0..Presses /\ pressed <= pressed' /\ n \in 1..pressed'
      BY <1>3, <1>4, <1>6, EveryoneKnown DEF ComposeInv, CountsOK
    <2> QED
      BY <2>1, <2>2, <2>3, ApartKeeps
  <1> QED
    BY <1>13, <1>15, <1>16, <1>17 DEF ComposeInv

LEMMA QueueFarKeeps ==
  ASSUME ComposeInv, QueueFar
  PROVE  ComposeInv'
  <1>1. sending.at \in Ports /\ sending.at # "idle" /\ sending.at # "sent" /\ sending.step = "near"
    BY DEF QueueFar, OnThePort, Ports, FirstPorts
  <1>2. PICK at \in Ports \cup {"sent"}, step \in {"call", "near", "far"} : \E took, m :
           /\ sending = Way(at, step, took, m) /\ TextsOK(m) /\ Trying(at, step, took, m)
           /\ at = "sent" => step = "far"
           /\ sending.at = at /\ sending.step = step /\ sending.took = took /\ sending.msg = m
           /\ m.id \in 1..pressed /\ m.id \in 1..Presses /\ took \subseteq Everyone
    BY <1>1, OnItsPort
  <1>3. PICK took, m :
           /\ sending = Way(at, step, took, m) /\ TextsOK(m) /\ Trying(at, step, took, m)
           /\ sending.at = at /\ sending.step = step /\ sending.took = took /\ sending.msg = m
           /\ m.id \in 1..pressed /\ m.id \in 1..Presses /\ took \subseteq Everyone
    BY <1>2
  <1>4. PICK n : n = m.id
    OBVIOUS
  <1>5. /\ policy' = policy /\ meant' = meant /\ filed' = filed /\ answer' = answer
        /\ missed' = missed /\ behind' = behind /\ pressed' = pressed /\ cuts' = cuts
    BY DEF QueueFar
  <1>6. at \in Ports /\ step = "near" /\ took = (m.to \cap Near) \ missed[n]
    BY <1>1, <1>3, <1>4 DEF Trying
  <1>7. /\ n \in 1..pressed /\ answer[n] = "none" /\ m.to = meant[n] /\ took \subseteq m.to
        /\ missed[n] \subseteq Near /\ m.to \subseteq Everyone
        /\ \A r \in Everyone :
             /\ copies[n][r] \in 0..2
             /\ r \notin behind[n] => copies[n][r] = IF r \in took THEN 1 ELSE 0
             /\ r \notin took => copies[n][r] <= IF at \in FirstPorts THEN 0 ELSE 1
             /\ at \in FirstPorts => copies[n][r] <= 1
    BY <1>3, <1>4 DEF Trying, ComposeInv, CountsOK
  <1>8. pressed' \in 0..Presses /\ pressed <= pressed' /\ n \in 1..pressed' /\ n \in 1..Presses
    BY <1>3, <1>4, <1>5, EveryoneKnown DEF ComposeInv, CountsOK
  <1>9. CASE "far" \in m.to
    <2>1. PICK k : k = Apply(policy, m) /\ TextsOK(k) /\ k.id = n
      BY <1>3, <1>4, AppliedOnce
    <2>2. PICK all : all = took \cup {"far"}
      OBVIOUS
    <2>3. /\ queued' = queued \cup {k}
          /\ copies' = [copies EXCEPT ![n]["far"] = @ + 1]
          /\ sending' = [sending EXCEPT !.step = "far", !.took = all]
      BY <1>3, <1>4, <1>9, <2>1, <2>2 DEF QueueFar
    <2>4. sending' = Way(at, "far", all, m)
      <3>1. sending = [at |-> at, step |-> step, took |-> took, msg |-> m]
        BY <1>3 DEF Way
      <3>2. [sending EXCEPT !.step = "far"] = [at |-> at, step |-> "far", took |-> took, msg |-> m]
        BY <3>1
      <3>3. [[at |-> at, step |-> "far", took |-> took, msg |-> m] EXCEPT !.took = all]
              = [at |-> at, step |-> "far", took |-> all, msg |-> m]
        OBVIOUS
      <3> QED
        BY <2>3, <3>2, <3>3 DEF Way
    <2>5. "far" \in Everyone /\ "far" \notin took
      BY <1>6, EveryoneKnown
    <2>6. /\ copies' \in [1..Presses -> [Everyone -> 0..2]]
          /\ \A i \in 1..Presses : i # n => copies'[i] = copies[i]
          /\ \A r \in Everyone : copies'[n][r] = IF r = "far" THEN copies[n][r] + 1 ELSE copies[n][r]
      <3>1. copies \in [1..Presses -> [Everyone -> 0..2]]
        BY DEF ComposeInv, CountsOK
      <3>2. copies[n]["far"] \in 0..1
        BY <1>7, <2>5
      <3>3. PICK row : row = [copies[n] EXCEPT !["far"] = copies[n]["far"] + 1]
        OBVIOUS
      <3>4. row \in [Everyone -> 0..2]
            /\ \A r \in Everyone : row[r] = IF r = "far" THEN copies[n][r] + 1 ELSE copies[n][r]
        BY <1>8, <2>5, <3>1, <3>2, <3>3
      <3>5. copies' = [copies EXCEPT ![n] = row]
        BY <1>8, <2>3, <3>1, <3>3
      <3> QED
        BY <1>8, <3>1, <3>4, <3>5
    <2>7. CountsOK'
      BY <1>5, <2>6 DEF ComposeInv, CountsOK
    <2>8. Trying(at, "far", all, m)'
      <3>1. \A r \in Everyone :
              /\ r \notin behind'[n] => copies'[n][r] = IF r \in all THEN 1 ELSE 0
              /\ r \notin all => copies'[n][r] <= IF at \in FirstPorts THEN 0 ELSE 1
              /\ at \in FirstPorts => copies'[n][r] <= 1
        BY <1>5, <1>7, <2>2, <2>5, <2>6
      <3>2. all = m.to \ missed'[n]
        BY <1>5, <1>6, <1>7, <1>9, <2>2, EveryoneKnown DEF Everyone
      <3>3. all \subseteq m.to
        BY <1>7, <1>9, <2>2
      <3> QED
        BY <1>4, <1>5, <1>7, <1>8, <3>1, <3>2, <3>3 DEF Trying
    <2>9. SendingOK'
      BY <1>3, <1>6, <2>4, <2>8 DEF SendingOK
    <2>10. TextsKept'
      BY <1>5, <1>8, <2>1, <2>3 DEF ComposeInv, TextsKept
    <2>11. Apart(n) /\ Answered(n)'
      BY <1>5, <1>7, <2>6 DEF Apart, Answered
    <2> QED
      BY <1>8, <2>7, <2>9, <2>10, <2>11, ApartKeeps DEF ComposeInv
  <1>10. CASE "far" \notin m.to
    <2>1. /\ queued' = queued /\ copies' = copies
          /\ sending' = [sending EXCEPT !.step = "far"]
      BY <1>3, <1>10 DEF QueueFar
    <2>2. sending' = Way(at, "far", took, m)
      <3>1. sending = [at |-> at, step |-> step, took |-> took, msg |-> m]
        BY <1>3 DEF Way
      <3> QED
        BY <2>1, <3>1 DEF Way
    <2>3. CountsOK'
      BY <1>5, <2>1 DEF ComposeInv, CountsOK
    <2>4. Trying(at, "far", took, m)'
      <3>1. took = m.to \ missed'[n]
        BY <1>5, <1>6, <1>7, <1>10 DEF Everyone
      <3> QED
        BY <1>4, <1>5, <1>7, <1>8, <2>1, <3>1 DEF Trying
    <2>5. SendingOK'
      BY <1>3, <1>6, <2>2, <2>4 DEF SendingOK
    <2>6. Apart(n) /\ Answered(n)'
      BY <1>5, <1>7, <2>1 DEF Apart, Answered
    <2> QED
      BY <1>5, <1>8, <2>1, <2>3, <2>5, <2>6, ApartKeeps DEF ComposeInv, TextsKept
  <1> QED
    BY <1>9, <1>10

LEMMA AcceptKeeps ==
  ASSUME ComposeInv, Accept
  PROVE  ComposeInv'
  <1>1. sending.at \in Ports /\ sending.at # "idle" /\ sending.at # "sent" /\ sending.step = "far"
    BY DEF Accept, OnThePort, Ports, FirstPorts
  <1>2. PICK at \in Ports \cup {"sent"}, step \in {"call", "near", "far"} : \E took, m :
           /\ sending = Way(at, step, took, m) /\ TextsOK(m) /\ Trying(at, step, took, m)
           /\ at = "sent" => step = "far"
           /\ sending.at = at /\ sending.step = step /\ sending.took = took /\ sending.msg = m
           /\ m.id \in 1..pressed /\ m.id \in 1..Presses /\ took \subseteq Everyone
    BY <1>1, OnItsPort
  <1>3. PICK took, m :
           /\ sending = Way(at, step, took, m) /\ TextsOK(m) /\ Trying(at, step, took, m)
           /\ sending.step = step
    BY <1>2
  <1>4. /\ policy' = policy /\ meant' = meant /\ filed' = filed /\ answer' = answer
        /\ queued' = queued /\ copies' = copies
        /\ missed' = missed /\ behind' = behind /\ pressed' = pressed /\ cuts' = cuts
        /\ sending' = [sending EXCEPT !.at = "sent"]
    BY DEF Accept, delivered
  <1>5. sending' = Way("sent", "far", took, m)
    <2>1. sending = [at |-> at, step |-> "far", took |-> took, msg |-> m]
      BY <1>1, <1>3 DEF Way
    <2> QED
      BY <1>4, <2>1 DEF Way
  <1>6. Trying("sent", "far", took, m)'
    <2>1. /\ m.id \in 1..pressed' /\ answer'[m.id] = "none" /\ m.to = meant'[m.id]
          /\ took \subseteq m.to /\ took = m.to \ missed'[m.id]
      BY <1>1, <1>3, <1>4 DEF Trying
    <2>2. \A r \in Everyone :
            /\ r \notin behind'[m.id] => copies'[m.id][r] = IF r \in took THEN 1 ELSE 0
            /\ r \notin took => copies'[m.id][r] <= 1
      BY <1>3, <1>4 DEF Trying
    <2>3. "sent" \notin FirstPorts
      BY DEF FirstPorts
    <2> QED
      BY <2>1, <2>2, <2>3 DEF Trying
  <1>7. SendingOK'
    BY <1>3, <1>5, <1>6 DEF SendingOK
  <1> QED
    BY <1>4, <1>7 DEF ComposeInv, CountsOK, TextsKept, Answered, Untouched

LEMMA FileKeeps ==
  ASSUME ComposeInv, File
  PROVE  ComposeInv'
  <1>1. sending.at = "sent"
    BY DEF File
  <1>2. PICK at \in Ports \cup {"sent"}, step \in {"call", "near", "far"} : \E took, m :
           /\ sending = Way(at, step, took, m) /\ TextsOK(m) /\ Trying(at, step, took, m)
           /\ at = "sent" => step = "far"
           /\ sending.at = at /\ sending.step = step /\ sending.took = took /\ sending.msg = m
           /\ m.id \in 1..pressed /\ m.id \in 1..Presses /\ took \subseteq Everyone
    BY <1>1, OnItsPort
  <1>3. PICK took, m :
           /\ TextsOK(m) /\ Trying(at, step, took, m) /\ step = "far" /\ sending.msg = m
           /\ m.id \in 1..pressed /\ m.id \in 1..Presses
    BY <1>1, <1>2
  <1>4. PICK n : n = m.id
    OBVIOUS
  <1>5. /\ filed' \in {filed, filed \cup {m}} /\ (cuts' = cuts \/ Cut)
        /\ answer' = [answer EXCEPT ![n] = "sent"] /\ sending' = NotSending
        /\ policy' = policy /\ meant' = meant /\ queued' = queued /\ copies' = copies
        /\ missed' = missed /\ behind' = behind /\ pressed' = pressed
    BY <1>3, <1>4 DEF File, delivered
  <1>6. cuts' \in 0..MaxCuts
    BY <1>5, CutCounts DEF ComposeInv, CountsOK
  <1>7. /\ answer' \in [1..Presses -> {"none", "sent", "failed"}] /\ answer'[n] = "sent"
        /\ \A i \in 1..Presses : i # n => answer'[i] = answer[i]
    BY <1>3, <1>4, <1>5 DEF ComposeInv, CountsOK
  <1>8. CountsOK'
    BY <1>5, <1>6, <1>7 DEF ComposeInv, CountsOK
  <1>9. TextsKept'
    BY <1>3, <1>5 DEF ComposeInv, TextsKept
  <1>10. Apart(n) /\ Answered(n)'
    <2>1. \A r \in Everyone \ behind[n] :
            copies[n][r] = IF r \in meant[n] \ missed[n] THEN 1 ELSE 0
      BY <1>3, <1>4 DEF Trying
    <2> QED
      BY <1>5, <1>7, <2>1 DEF Apart, Answered
  <1>11. pressed' \in 0..Presses /\ pressed <= pressed' /\ n \in 1..pressed'
    BY <1>3, <1>4, <1>5, EveryoneKnown DEF ComposeInv, CountsOK
  <1> QED
    BY <1>5, <1>8, <1>9, <1>10, <1>11, ApartKeeps DEF ComposeInv, SendingOK

LEMMA SubmitKeeps ==
  ASSUME ComposeInv, NEW m, TextsOK(m), Submit(m)
  PROVE  ComposeInv'
  <1>1. PICK n, k : n = pressed + 1 /\ k = [m EXCEPT !.id = n]
    OBVIOUS
  <1>2. TextsOK(k) /\ k.id = n
    BY <1>1, RenumberedOnce
  <1>3. PICK a : a = Apply(policy, k) /\ TextsOK(a) /\ a.id = n
    BY <1>2, AppliedOnce
  <1>4. /\ pressed < Presses /\ pressed' = n /\ queued' = queued \cup {k, a}
        /\ policy' = policy /\ meant' = meant /\ sending' = sending /\ filed' = filed
        /\ answer' = answer /\ copies' = copies /\ missed' = missed /\ behind' = behind
        /\ cuts' = cuts
    BY <1>1, <1>3 DEF Submit
  <1>5. Presses \in Nat /\ pressed \in Nat
    BY EveryoneKnown DEF ComposeInv, CountsOK
  <1>6. /\ n \in 1..Presses /\ n \in 0..Presses /\ pressed <= n /\ 1..pressed \subseteq 1..n
        /\ \A i \in 1..Presses : i > n => i > pressed
    BY <1>1, <1>4, <1>5
  <1>7. CountsOK'
    BY <1>4, <1>6 DEF ComposeInv, CountsOK
  <1>8. TextsKept'
    BY <1>2, <1>3, <1>4, <1>6 DEF ComposeInv, TextsKept
  <1>9. SendingOK'
    <2>1. CASE sending = NotSending
      BY <1>4, <2>1 DEF SendingOK
    <2>2. CASE sending # NotSending
      <3>1. PICK at \in Ports \cup {"sent"}, step \in {"call", "near", "far"} : \E took, x :
              /\ sending = Way(at, step, took, x) /\ TextsOK(x) /\ Trying(at, step, took, x)
              /\ at = "sent" => step = "far"
        BY <2>2 DEF ComposeInv, SendingOK
      <3>2. PICK took, x :
              /\ sending = Way(at, step, took, x) /\ TextsOK(x) /\ Trying(at, step, took, x)
              /\ at = "sent" => step = "far"
        BY <3>1
      <3>3. Trying(at, step, took, x)'
        BY <1>4, <1>6, <3>2 DEF Trying
      <3> QED
        BY <1>4, <3>2, <3>3 DEF SendingOK
    <2> QED
      BY <2>1, <2>2
  <1> QED
    BY <1>4, <1>6, <1>7, <1>8, <1>9 DEF ComposeInv, Answered, Untouched

LEMMA SettingKeeps ==
  ASSUME ComposeInv, policy' \in Policies,
         UNCHANGED <<sending, meant, filed, delivered, answer, behind, pressed, cuts>>
  PROVE  ComposeInv'
  <1>1. /\ sending' = sending /\ meant' = meant /\ filed' = filed /\ queued' = queued
        /\ copies' = copies /\ missed' = missed /\ answer' = answer /\ behind' = behind
        /\ pressed' = pressed /\ cuts' = cuts
    BY DEF delivered
  <1>2. CountsOK' /\ TextsKept'
    BY <1>1 DEF ComposeInv, CountsOK, TextsKept
  <1>3. SendingOK'
    BY <1>1 DEF ComposeInv, SendingOK, Trying
  <1> QED
    BY <1>1, <1>2, <1>3 DEF ComposeInv, Answered, Untouched

LEMMA ComposeStep ==
  ASSUME ComposeInv, [ComposeNext]_composeVars
  PROVE  ComposeInv'
  <1>1. ASSUME NEW d \in Drafts, NEW port \in {"smtps", "submission", "plain"}, Press(d, port)
        PROVE  ComposeInv'
    BY <1>1, PressKeeps DEF FirstPorts
  <1>2. CASE Refuse \/ FarFails \/ AcceptUnheard
    BY <1>2, ErrorKeeps DEF Refuse, FarFails, AcceptUnheard
  <1>3. CASE QueueNear \/ QueueFar \/ Accept \/ File
    BY <1>3, QueueNearKeeps, QueueFarKeeps, AcceptKeeps, FileKeeps
  <1>4. ASSUME NEW d \in Drafts, Submit(BuildMIME(0, d, Composed(d), FALSE))
        PROVE  ComposeInv'
    <2>1. PICK m : m = BuildMIME(0, d, Composed(d), FALSE)
      OBVIOUS
    <2>2. TextsOK(m) /\ Submit(m)
      BY <1>4, <2>1, UndressedOnce
    <2> QED
      BY <2>2, SubmitKeeps
  <1>5. ASSUME NEW m \in filed, Submit(m)
        PROVE  ComposeInv'
    BY <1>5, SubmitKeeps DEF ComposeInv, TextsKept
  <1>6. CASE ChangePolicy
    BY <1>6, SettingKeeps DEF ChangePolicy
  <1>7. CASE UNCHANGED composeVars
    BY <1>7, SettingKeeps DEF composeVars, delivered, ComposeInv, CountsOK
  <1> QED
    BY <1>1, <1>2, <1>3, <1>4, <1>5, <1>6, <1>7 DEF ComposeNext

LEMMA InitComposeInv == ComposeInit => ComposeInv
  <1> SUFFICES ASSUME ComposeInit
               PROVE  ComposeInv
    OBVIOUS
  <1>1. CountsOK
    BY EveryoneKnown DEF ComposeInit, CountsOK
  <1>2. SendingOK /\ TextsKept
    BY DEF ComposeInit, SendingOK, TextsKept
  <1>3. \A n \in 1..Presses : Untouched(n) /\ Answered(n)
    BY DEF ComposeInit, Untouched, Answered
  <1> QED
    BY <1>1, <1>2, <1>3 DEF ComposeInv

LEMMA ComposeInvariant == ComposeSpec => []ComposeInv
  BY InitComposeInv, ComposeStep, PTL DEF ComposeSpec

LEMMA ComposeTyped == ComposeInv => ComposeTypeOK
  <1> SUFFICES ASSUME ComposeInv
               PROVE  ComposeTypeOK
    OBVIOUS
  <1>1. sending.at \in {"idle", "smtps", "submission", "plain", "fallback", "sent"}
    BY DEF ComposeInv, SendingOK, NotSending, Way, Ports, FirstPorts
  <1> QED
    BY <1>1 DEF ComposeInv, CountsOK, TextsKept, ComposeTypeOK

\* Type correctness of Compose: what is sent, queued and filed is a message
\* that was pressed or submitted, and nobody gets more than two copies of one.
THEOREM ComposeTypeCorrect == ComposeSpec => []ComposeTypeOK
  BY ComposeTyped, ComposeInvariant, PTL

\* Whatever ports refuse, wherever the MTA stops while it stores the jobs of a
\* message, and however its answers get lost: a message that is said to be sent
\* was queued once for each of its recipients, and one that is said to have
\* failed for none.  Excepted, recipient by recipient, are those a job had been
\* stored for in a try that the API saw fail (a lost reply, or 451 after the
\* jobs of this server's recipients), and those the MTA could not queue for and
\* accepted the message without (SendMessageWithPolicy, session.Data).
THEOREM AnswersAreMeant == ComposeSpec => []SentAsAnswered
  <1>1. ComposeInv => SentAsAnswered
    BY DEF ComposeInv, Answered, SentAsAnswered
  <1> QED
    BY <1>1, ComposeInvariant, PTL

\* The mark keeps the MTA from dressing what the API has dressed: under any
\* sequence of policies each queued text but the twin has each extra at most
\* once (TransformBodies, Apply).
THEOREM NothingDressedTwice == ComposeSpec => []DressedOnce
  <1>1. ComposeInv => DressedOnce
    BY DEF ComposeInv, TextsKept, TextsOK, DressedOnce
  <1> QED
    BY <1>1, ComposeInvariant, PTL

-----------------------------------------------------------------------------
(* The instance that the runs check: one component at a time.              *)

\* Each component of the instance behaves as it does alone, so that what is
\* proved of the component holds in the instance.
THEOREM ClientsAreTheirParts == ClientsSpec => WebmailSpec /\ DirectorySpec /\ ComposeSpec
  <1>1. ClientsInit => WebmailInit /\ DirectoryInit /\ ComposeInit
    BY DEF ClientsInit
  <1>2. [ClientsNext]_clientsVars => [WebmailNext]_wmVars
    BY DEF ClientsNext, clientsVars
  <1>3. [ClientsNext]_clientsVars => [DirectoryNext]_dirVars
    BY DEF ClientsNext, clientsVars
  <1>4. [ClientsNext]_clientsVars => [ComposeNext]_composeVars
    BY DEF ClientsNext, clientsVars
  <1> QED
    BY <1>1, <1>2, <1>3, <1>4, PTL DEF ClientsSpec, WebmailSpec, DirectorySpec, ComposeSpec

\* Type correctness of the instance.
THEOREM ClientsTypeCorrect == ClientsSpec => []ClientsTypeOK
  <1>1. WebmailTypeOK /\ DirectoryTypeOK /\ ComposeTypeOK => ClientsTypeOK
    BY DEF ClientsTypeOK
  <1> QED
    BY <1>1, ClientsAreTheirParts, WebmailTypeCorrect, DirectoryTypeCorrect, ComposeTypeCorrect, PTL

=============================================================================
