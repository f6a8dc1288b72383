\* One tab that moves messages to the folder that LIST shows as Junk.
CONSTANTS
  Requests = {q1}
  Names = {"INBOX", "Drafts", "Trash", "Junk"}
  ListLimit = 3
  PageSize = 1
  MaxRows = 3
  MaxRequests = 2
  MaxBreaks = 0
SPECIFICATION WebmailSpec
INVARIANT MovedIsShown
CHECK_DEADLOCK FALSE
