\* Two IMAP sessions of one process on one mailbox.
CONSTANTS
  c1 = c1
  c2 = c2
  w = w
  imapd = imapd
  worker = worker
  Clients = {c1, c2}
  ProcessOf <- MCProcessOf
  Appenders = {c1, c2}
  Sessions = {c1, c2}
  Purgers = {}
  Folders = {inbox, trash}
  Quota = 0
  MaxRow = 2
  MaxUid = 2
  MaxFile = 3
  MaxFaults = 0
SPECIFICATION Spec
INVARIANT TypeOK
INVARIANT RowHasFile
INVARIANT UidNamesOne
INVARIANT NothingLost
INVARIANT ChangesShow
\* Clients wait for ever once the bounds are reached.
CHECK_DEADLOCK FALSE
