\* One call of Send; a client that idles on two folders; two requests of an
\* administrator; two conditions and two channels of the watchdog.
CONSTANTS
  Rcpts = {1, 2, 3}
  DomainOf <- MCDomainOf
  MxHosts = 2
  Boxes = {"INBOX", "Junk"}
  Counts = {0, 1}
  ChanSize = 1
  MaxWrites = 2
  MaxFailures = 1
  Requests = {q1, q2}
  MaxEdits = 1
  MaxSetFailures = 1
  Watched = {"queue.dead", "stack.missing"}
  Channels = {"email", "telegram"}
  Cooldown = 2
  MaxChanges = 2
SPECIFICATION SendingSpec
INVARIANT SendingTypeOK
INVARIANT EndsAsExpected
INVARIANT TLSHonoured
 
PROPERTY EveryCallEnds
 
 
PROPERTY IssueIsTold
\* A call is over once Send has returned.
CHECK_DEADLOCK FALSE
