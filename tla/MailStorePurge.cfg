\* Two clients that store mail in one process, and the retention of another.
CONSTANTS
  c1 = c1
  c2 = c2
  w = w
  imapd = imapd
  worker = worker
  Clients = {c1, c2, w}
  ProcessOf <- MCProcessOf
  Appenders = {c1, c2}
  Sessions = {c2}
  Purgers = {w}
  Folders = {inbox, trash}
  Quota = 1
  MaxRow = 2
  MaxUid = 2
  MaxFile = 3
  MaxFaults = 1
SPECIFICATION Spec
INVARIANT WithinQuota
\* Clients wait for ever once the bounds are reached.
CHECK_DEADLOCK FALSE
