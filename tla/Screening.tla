----------------------------- MODULE Screening -----------------------------
(***************************************************************************)
(* What becomes of a message by its content: the spam score, the           *)
(* attachment policy and a mailbox's rules (Process), the quarantine with  *)
(* the administrators who release and delete, what they teach the engine   *)
(* by that, and the worker's purge of old items.  Intake has the           *)
(* transaction around it.  Scores are counted in halves.                   *)
(***************************************************************************)
EXTENDS Integers, Sequences, FiniteSets, Functions

CONSTANTS
  Mails,       \* messages, by what the checks can tell apart
  Settings,    \* values of the thresholds that an administrator may set
  RuleLists,   \* lists of rules that a mailbox may have
  Clerks,      \* requests of administrators that run at the same time
  MaxHeld,     \* bound: items ever put in quarantine
  MaxMishaps,  \* bound: statements and scans that fail
  MaxTunings   \* bound: changes of thresholds and rules

\* The signs that Check looks for in sender, headers and text, each by itself.
SignScore ==
  [empty_from |-> 4, subj_bang |-> 3, subj_phish |-> 4, no_msgid |-> 2, no_date |-> 1,
   reply_to_mismatch |-> 3, helo_ip |-> 2, many_urls |-> 4, some_urls |-> 2,
   base64_bomb |-> 4, uri_ip |-> 4, uri_shortener |-> 2, uri_userinfo |-> 4,
   credential_lure |-> 4]

ASSUME ScreeningAssumption ==
  /\ \A m \in Mails : /\ m.signs \subseteq DOMAIN SignScore
                      /\ m.spf \in {"none", "pass", "softfail", "fail"}
                      /\ m.dkim \in {"none", "pass", "fail"}
                      /\ IsFiniteSet(m.signs) /\ IsFiniteSet(m.looked)
                      /\ Cardinality(m.looked) <= 7 /\ Cardinality(m.taught) <= 7
  /\ Settings \subseteq [reject : Int, quarantine : Int, flag : Int]
  /\ MaxHeld \in Nat /\ MaxMishaps \in Nat /\ MaxTunings \in Nat

VARIABLES
  thresholds,  \* the engine's configuration
  weights,     \* spam_signals: what has been learned of each key
  rules,       \* the mailbox's rules, by priority
  judged,      \* the message that Process is at, and its verdict
  held,        \* the rows of quarantine, by id
  clerk,       \* clerk[q]: the request q and its next step
  \* No part of the program:
  issued,      \* how many items there ever were
  copies,      \* how often each item was put in the INBOX
  doomed,      \* items that some administrator chose to delete, or old ones
  mishaps, tunings

screenVars == <<thresholds, weights, rules, judged, held, clerk, issued, copies, doomed, mishaps, tunings>>
policy == <<thresholds, rules, tunings>>

Keys == UNION {m.looked \cup m.taught : m \in Mails}
Nothing == [mail |-> "none", learned |-> 0, limits |-> "none", action |-> "none"]
NoRequest == [op |-> "none", at |-> "idle", id |-> 0, mail |-> "none"]

\* SetConfig: a threshold that is not positive means the default.
Effective(s) ==
  [reject |-> IF s.reject <= 0 THEN 20 ELSE s.reject,
   quarantine |-> IF s.quarantine <= 0 THEN 10 ELSE s.quarantine,
   flag |-> IF s.flag <= 0 THEN 6 ELSE s.flag]

ScreeningInit ==
  /\ thresholds = Effective([reject |-> 0, quarantine |-> 0, flag |-> 0])
  /\ weights = [k \in Keys |-> 0]
  /\ rules \in RuleLists
  /\ judged = Nothing
  /\ held = <<>>
  /\ clerk = [q \in Clerks |-> NoRequest]
  /\ issued = 0
  /\ copies = [i \in 1..MaxHeld |-> 0]
  /\ doomed = {}
  /\ mishaps = 0
  /\ tunings = 0

Mishap == mishaps < MaxMishaps /\ mishaps' = mishaps + 1

-----------------------------------------------------------------------------
(* Check, Scan and FirstMatch.                                             *)

SpfScore == [none |-> 0, pass |-> -2, softfail |-> 3, fail |-> 6]
DkimScore == [none |-> 0, pass |-> -2, fail |-> 4]

\* A list counts when an answer of one zone is a listing code; no answer, a
\* refusal (127.255.255.x) or a failed lookup is none.
OnBlocklist(m) == \E answers \in m.zones : "listing" \in answers

\* An empty sender has neither SPF nor DKIM looked at.
OwnScore(m) ==
  SumFunctionOnSet(SignScore, m.signs)
    + (IF "empty_from" \in m.signs THEN 0
       ELSE SpfScore[m.spf] + DkimScore[m.dkim]
              + (IF m.spf = "fail" /\ m.dkim # "pass" THEN 4 ELSE 0))
    + (IF OnBlocklist(m) THEN 8 ELSE 0)

Between(low, n, high) == IF n < low THEN low ELSE IF n > high THEN high ELSE n

LearnedUnclamped(m) == SumFunctionOnSet(weights, m.looked)   \* faulty variant

\* Whatever was learned counts for 4 points at most.  A failed lookup is none.
Learned(m) == Between(-8, SumFunctionOnSet(weights, m.looked), 8)

Action(score, t) ==
  IF score >= t.reject THEN "reject"
  ELSE IF score >= t.quarantine THEN "quarantine"
  ELSE IF score >= t.flag THEN "flag"
  ELSE "deliver"

\* Light.Scan: the first attachment that decides.  What cannot be parsed passes.
Attachments(m) ==
  LET deciding == {i \in DOMAIN m.files : m.files[i] \in {"binary", "blocked", "suspect", "broken"}}
      first == CHOOSE i \in deciding : \A j \in deciding : i <= j
  IN IF m.oversized THEN "reject"
     ELSE IF deciding = {} \/ m.files[first] = "broken" THEN "clean"
     ELSE IF m.files[first] = "suspect" THEN "quarantine"
     ELSE "reject"

\* Match, of the words of a field: contains one of them, or is just that one.
Applies(rule, m) ==
  /\ rule.enabled
  /\ rule.field \in {"from", "subject", "to"}
  /\ \/ rule.op = "contains" /\ rule.value \in m.text[rule.field]
     \/ rule.op = "equals" /\ m.text[rule.field] = {rule.value}

\* What the first rule that applies says: a folder, or the message is refused.
Folder(m) ==
  LET hits == {i \in DOMAIN rules : Applies(rules[i], m)}
      first == CHOOSE i \in hits : \A j \in hits : i <= j
  IN IF hits = {} THEN "INBOX"
     ELSE CASE rules[first].action = "reject" -> "refused"
            [] rules[first].action = "flag_spam" -> "Spam"
            [] rules[first].action = "fileinto" -> rules[first].arg

\* Validate of mailfilter.
ValidRule(rule) ==
  /\ rule.field \in {"from", "subject", "to"}
  /\ rule.op \in {"contains", "equals"}
  /\ rule.value # ""
  /\ \/ rule.action = "fileinto" /\ rule.arg \notin {"", ".", ".."}
     \/ rule.action \in {"reject", "flag_spam"}

-----------------------------------------------------------------------------
(* Process.                                                                *)

\* Spam first, then the attachments, unless the scanner fails.
Judge(m) ==
  /\ judged = Nothing
  /\ \E learned \in {Learned(m), 0}, scan \in {Attachments(m), "clean"} :
       /\ IF learned = Learned(m) /\ scan = Attachments(m) THEN UNCHANGED mishaps ELSE Mishap
       /\ LET spam == Action(OwnScore(m) + learned, thresholds)
          IN judged' = [mail |-> m, learned |-> learned, limits |-> thresholds,
                        action |-> IF spam = "reject" \/ scan = "clean" THEN spam ELSE scan]
  /\ UNCHANGED <<policy, weights, held, clerk, issued, copies, doomed>>

\* Where the message goes: only what is simply delivered is put to the rules.
Destination ==
  CASE judged.action = "deliver" -> Folder(judged.mail)
    [] judged.action = "flag" -> "Spam"
    [] judged.action = "reject" -> "refused"
    [] judged.action = "quarantine" -> "quarantine"

\* Refused, put in quarantine (AddQuarantine), or queued for a folder.
File ==
  /\ judged # Nothing
  /\ judged' = Nothing
  /\ IF Destination = "quarantine"
     THEN /\ issued < MaxHeld
          /\ issued' = issued + 1
          /\ held' = [i \in DOMAIN held \cup {issued'} |->
                        IF i = issued' THEN [mail |-> judged.mail, resolution |-> ""] ELSE held[i]]
     ELSE UNCHANGED <<held, issued>>
  /\ UNCHANGED <<policy, weights, clerk, copies, doomed, mishaps>>

Tuning == tunings < MaxTunings /\ tunings' = tunings + 1

SetConfig ==
  /\ Tuning
  /\ \E s \in Settings : thresholds' = Effective(s)
  /\ UNCHANGED <<rules, weights, judged, held, clerk, issued, copies, doomed, mishaps>>

\* putMailboxFilters: all rules are valid, and replace the old ones at once.
PutFilters ==
  /\ Tuning
  /\ \E list \in RuleLists :
       /\ Len(list) <= 100
       /\ \A i \in DOMAIN list : ValidRule(list[i])
       /\ rules' = list
  /\ UNCHANGED <<thresholds, weights, judged, held, clerk, issued, copies, doomed, mishaps>>

-----------------------------------------------------------------------------
(* The quarantine: GetQuarantineRaw, then statement after statement.       *)

\* What is taught is the decoded subject; what is looked up later is not.
Learn(m, delta) == weights' = [k \in Keys |-> weights[k] + (IF k \in m.taught THEN delta ELSE 0)]

Follow(q, step) == clerk' = [clerk EXCEPT ![q].at = step]

Dismiss(q) == clerk' = [clerk EXCEPT ![q] = NoRequest]

\* A request for an item that is still open begins.
Open(q, op, id) ==
  /\ clerk[q].at = "idle"
  /\ id \in DOMAIN held
  /\ held[id].resolution = ""
  /\ clerk' = [clerk EXCEPT ![q] = [op |-> op, at |-> IF op = "release" THEN "append" ELSE "learn",
                                     id |-> id, mail |-> held[id].mail]]
  /\ doomed' = IF op = "delete" THEN doomed \cup {id} ELSE doomed
  /\ UNCHANGED <<policy, weights, judged, held, issued, copies, mishaps>>

\* A statement fails: the answer is 500, and the item stays as it is.
GiveUp(q) ==
  /\ clerk[q].at # "idle"
  /\ Mishap
  /\ Dismiss(q)
  /\ UNCHANGED <<policy, weights, judged, held, issued, copies, doomed>>

AppendLater(q) ==   \* faulty variant: the item is closed before it is in the INBOX
  /\ clerk[q].at = "append"
  /\ Follow(q, "learn")
  /\ held' = [i \in DOMAIN held |->
                IF i = clerk[q].id THEN [held[i] EXCEPT !.resolution = "release"] ELSE held[i]]
  /\ UNCHANGED <<policy, weights, judged, issued, copies, doomed, mishaps>>

\* releaseQuarantine: AppendMessage to the INBOX ...
AppendReleased(q) ==
  /\ clerk[q].at = "append"
  /\ copies' = [copies EXCEPT ![clerk[q].id] = @ + 1]
  /\ Follow(q, "learn")
  /\ UNCHANGED <<policy, weights, judged, held, issued, doomed, mishaps>>

\* ... LearnSpamSignals, here and in deleteQuarantine by half a point ...
LearnSignals(q) ==
  /\ clerk[q].at = "learn"
  /\ Learn(clerk[q].mail, IF clerk[q].op = "release" THEN -1 ELSE 1)
  /\ Follow(q, "resolve")
  /\ UNCHANGED <<policy, judged, held, issued, copies, doomed, mishaps>>

\* ... and ResolveQuarantine, of no row if that is gone.
ResolveQuarantine(q) ==
  /\ clerk[q].at = "resolve"
  /\ held' = [i \in DOMAIN held |->
                IF i = clerk[q].id THEN [held[i] EXCEPT !.resolution = clerk[q].op] ELSE held[i]]
  /\ Dismiss(q)
  /\ UNCHANGED <<policy, weights, judged, issued, copies, doomed, mishaps>>

\* PurgeQuarantineOlderThan: items that are old enough, closed or not.
Purge(id) ==
  /\ id \in DOMAIN held
  /\ held' = [i \in DOMAIN held \ {id} |-> held[i]]
  /\ doomed' = doomed \cup {id}
  /\ UNCHANGED <<policy, weights, judged, clerk, issued, copies, mishaps>>

ScreeningNext ==
  \/ \E m \in Mails : Judge(m)
  \/ File \/ SetConfig \/ PutFilters
  \/ \E q \in Clerks, id \in 1..MaxHeld, op \in {"release", "delete"} : Open(q, op, id)
  \/ \E q \in Clerks : GiveUp(q) \/ AppendReleased(q) \/ LearnSignals(q) \/ ResolveQuarantine(q)
  \/ \E id \in 1..MaxHeld : Purge(id)

ScreeningSpec == ScreeningInit /\ [][ScreeningNext]_screenVars

-----------------------------------------------------------------------------
(* Properties.                                                             *)

ScreeningTypeOK ==
  /\ \A id \in DOMAIN held : /\ id \in 1..issued
                             /\ held[id].mail \in Mails
                             /\ held[id].resolution \in {"", "release", "delete"}
  /\ weights \in [Keys -> Int]
  /\ thresholds \in [reject : Nat, quarantine : Nat, flag : Nat]
  /\ rules \in RuleLists
  /\ judged.action \in {"none", "deliver", "flag", "quarantine", "reject"}
  /\ \A q \in Clerks : clerk[q].at \in {"idle", "append", "learn", "resolve"}
  /\ doomed \subseteq 1..issued
  /\ issued <= MaxHeld /\ mishaps <= MaxMishaps /\ tunings <= MaxTunings

\* An item of the quarantine is open, or in the INBOX, or some administrator
\* chose to delete it, or it was too old: however requests for one item
\* overlap, and whichever statement of one fails, releasing does not lose it.
HeldIsNotLost ==
  \A id \in 1..issued :
    \/ id \in DOMAIN held /\ held[id].resolution = ""
    \/ copies[id] > 0
    \/ id \in doomed

\* However much is deleted from the quarantine, what that teaches never keeps
\* a message from its mailbox which nothing else speaks against, nor lets one
\* pass that has 4 points more than it takes to be refused.
FeedbackAloneDoesNotDecide ==
  judged # Nothing =>
    /\ (OwnScore(judged.mail) <= 0 /\ Attachments(judged.mail) = "clean"
          /\ judged.limits.quarantine > 8 /\ judged.limits.reject > 8)
         => judged.action \in {"deliver", "flag"}
    /\ OwnScore(judged.mail) >= judged.limits.reject + 8 => judged.action = "reject"

=============================================================================
