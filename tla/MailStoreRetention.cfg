\* One client that stores mail in two folders, and the retention.
CONSTANTS
  c1 = c1
  c2 = c2
  w = w
  imapd = imapd
  worker = worker
  Clients = {c1, w}
  ProcessOf <- MCProcessOf
  Appenders = {c1}
  Sessions = {}
  Purgers = {w}
  Folders = {inbox, trash}
  Quota = 0
  MaxRow = 2
  MaxUid = 2
  MaxFile = 3
  MaxFaults = 0
SPECIFICATION Spec
INVARIANT PurgeSparesYoung
\* Clients wait for ever once the bounds are reached.
CHECK_DEADLOCK FALSE
