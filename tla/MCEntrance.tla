---------------------------- MODULE MCEntrance -----------------------------
(***************************************************************************)
(* Intake, Screening and Sessions for TLC: the doors of the system.  They  *)
(* share no variable: a behaviour of this instance picks one of them and   *)
(* leaves the others in an initial state.                                  *)
(***************************************************************************)
EXTENDS MCIntake, Screening, Sessions

VARIABLE plane     \* the component that runs

entranceVars == <<plane, vars, screenVars, sesVars>>

\* Four messages: a plain one, one with many signs of spam, one that fails
\* SPF while a blocklist answers, and one with a suspect file; the key of its
\* domain stands for what they have in common.
AllKeys == {"d:a", "k1", "k2", "k3", "k4", "k5", "k6"}
Plain ==
  [signs |-> {}, spf |-> "none", dkim |-> "none", zones |-> {{}},
   looked |-> AllKeys, taught |-> AllKeys, oversized |-> FALSE, files |-> <<>>,
   text |-> [from |-> {"a"}, to |-> {"b"}, subject |-> {"news", "today"}]]
Spam == [Plain EXCEPT !.signs = {"empty_from", "no_date", "uri_ip", "subj_bang"}]
Forged ==
  [Plain EXCEPT !.spf = "fail", !.zones = {{"policy"}, {"listing", "policy"}},
     !.signs = {"credential_lure", "subj_phish", "base64_bomb"}]
Attached ==
  [Plain EXCEPT !.dkim = "pass", !.spf = "pass", !.looked = {"d:a"},
     !.files = <<"plain", "suspect", "blocked">>]
MCMails == {Plain, Spam, Forged, Attached}

MCSettings ==
  {[reject |-> 0, quarantine |-> 0, flag |-> 0], [reject |-> 12, quarantine |-> 9, flag |-> 3]}

FileNews == [enabled |-> TRUE, field |-> "subject", op |-> "contains", value |-> "news",
             action |-> "fileinto", arg |-> "News"]
RejectA == [enabled |-> TRUE, field |-> "from", op |-> "equals", value |-> "a",
            action |-> "reject", arg |-> ""]
MCRuleLists == {<<>>, <<FileNews, RejectA>>}

EntranceInit ==
  /\ plane \in {"intake", "screening", "sessions"}
  /\ Init
  /\ ScreeningInit
  /\ SessionsInit
  /\ plane # "intake" => users = {} /\ submission = {}
  /\ plane # "screening" => rules = <<>>

EntranceNext ==
  /\ UNCHANGED plane
  /\ \/ plane = "intake" /\ Next /\ UNCHANGED <<screenVars, sesVars>>
     \/ plane = "screening" /\ ScreeningNext /\ UNCHANGED <<vars, sesVars>>
     \/ plane = "sessions" /\ SessionsNext /\ UNCHANGED <<vars, screenVars>>

\* The fairness of the component that has some.
EntranceFairness ==
  /\ \A m \in Msgs : WF_vars(plane = "intake" /\ Step(m))
  /\ \A m \in Msgs, r \in Rcpts : WF_vars(plane = "intake" /\ Ripen(m, r))

EntranceSpec == EntranceInit /\ [][EntranceNext]_entranceVars /\ EntranceFairness

\* The type invariants of the three components.
EntranceTypeOK == TypeOK /\ ScreeningTypeOK /\ SessionsTypeOK

\* SenderAnswered, which speaks of a message that is sent.
EverySenderAnswered == plane = "intake" => SenderAnswered

=============================================================================
