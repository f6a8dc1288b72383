----------------------------- MODULE MCClients -----------------------------
(***************************************************************************)
(* Webmail, Compose and Directory for TLC.  They share no variable, so     *)
(* nothing that happens in one depends on when something happens in the    *)
(* others: a behaviour of this instance picks one of them and leaves the   *)
(* others in an initial state.                                             *)
(***************************************************************************)
EXTENDS Webmail, Directory, Compose, TLC

VARIABLE plane     \* the component that runs

clientsVars == <<plane, wmVars, dirVars, composeVars>>

MCBackup == [box |-> "a", alias |-> "b", catchAll |-> "b"]

MCPolicies ==
  {[plain |-> x, html |-> y, skipReplies |-> TRUE] : x \in {{}, {"foot"}}, y \in {{}, {"tpl", "foot"}}}
  \cup {[plain |-> {"foot"}, html |-> {"foot"}, skipReplies |-> FALSE]}

\* A plain message, a reply with both texts whose subject does not show it,
\* and a reply in HTML with a file.
MCDrafts ==
  {[subject |-> "new", reply |-> FALSE, plain |-> TRUE, html |-> FALSE, file |-> FALSE, to |-> {"n1", "n2", "far"}],
   [subject |-> "new", reply |-> TRUE, plain |-> TRUE, html |-> TRUE, file |-> FALSE, to |-> {"far"}],
   [subject |-> "re", reply |-> TRUE, plain |-> FALSE, html |-> TRUE, file |-> TRUE, to |-> {"n1", "far"}]}

MCSymmetry == Permutations(Requests) \cup Permutations(Admins)

\* Three requests of the webmail, or two when a list of messages is among
\* them: listing changes no message, and nothing else depends on it.
FewRequests == requests' <= 2 \/ \A q \in Requests : loaded'[q] = NoList

ClientsInit ==
  /\ plane \in {"webmail", "directory", "compose"}
  /\ WebmailInit
  /\ DirectoryInit
  /\ ComposeInit
  /\ plane # "directory" => dom.catchAll = "a"
  /\ plane # "compose" => policy = CHOOSE p \in Policies : TRUE

ClientsNext ==
  /\ UNCHANGED plane
  /\ \/ plane = "webmail" /\ WebmailNext /\ FewRequests /\ UNCHANGED <<dirVars, composeVars>>
     \/ plane = "directory" /\ DirectoryNext /\ UNCHANGED <<wmVars, composeVars>>
     \/ plane = "compose" /\ ComposeNext /\ UNCHANGED <<wmVars, dirVars>>

ClientsSpec == ClientsInit /\ [][ClientsNext]_clientsVars

\* The three type invariants, of which each is about its own component.
ClientsTypeOK == WebmailTypeOK /\ DirectoryTypeOK /\ ComposeTypeOK

=============================================================================
