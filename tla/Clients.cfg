\* Two tabs of the webmail; two administrators; two messages sent.
CONSTANTS
  Requests = {q1, q2}
  Names = {"INBOX", "Drafts", "Trash"}
  ListLimit = 3
  PageSize = 1
  MaxRows = 4
  MaxRequests = 3
  MaxBreaks = 1
  Admins = {a1, a2}
  Locals = {"a", "b"}
  Numbers = {1, 12}
  Backup <- MCBackup
  MaxTasks = 2
  MaxJobs = 1
  MaxFaults = 1
  Near = {"n1", "n2"}
  Drafts <- MCDrafts
  Policies <- MCPolicies
  Presses = 2
  MaxCuts = 2
SPECIFICATION ClientsSpec
INVARIANT ClientsTypeOK
INVARIANT NothingVanishes
INVARIANT UndoTakesBack
 
INVARIANT AnsweredChangesStand
PROPERTY AliasNeverTakesOver
INVARIANT DeletionLeavesNothing
INVARIANT SentAsAnswered
INVARIANT DressedOnce
SYMMETRY MCSymmetry
\* The bounds on requests are used up at some point.
CHECK_DEADLOCK FALSE
