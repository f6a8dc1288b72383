\* An APPEND in imapd and a delivery in the worker.
CONSTANTS
  c1 = c1
  c2 = c2
  w = w
  imapd = imapd
  worker = worker
  Clients = {c1, w}
  ProcessOf <- MCProcessOf
  Appenders = {c1, w}
  Sessions = {}
  Purgers = {}
  Folders = {inbox, trash}
  Quota = 1
  MaxRow = 2
  MaxUid = 2
  MaxFile = 3
  MaxFaults = 0
SPECIFICATION Spec
INVARIANT WithinQuota
\* Clients wait for ever once the bounds are reached.
CHECK_DEADLOCK FALSE
