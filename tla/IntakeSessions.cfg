\* One message to two local recipients and a remote one; one item in quarantine
\* and two administrators; two log-ins under one key.
CONSTANTS
  Msgs = {m}
  Rcpts = {1, 2, 3}
  InboundMax = 1
  OutboundMax = 1
  MaxId = 6
  Addressed <- MCAddressed
  Known = {1, 2}
  Greylisting = TRUE
  MaxFaults = 1
  MaxChanges = 1
  Mails <- MCMails
  Settings <- MCSettings
  RuleLists <- MCRuleLists
  Clerks = {c1, c2}
  MaxHeld = 1
  MaxMishaps = 1
  MaxTunings = 1
  Logins = {q1, q2}
  Hosts = {"h"}
  Headers = {"x"}
  Max = 2
  Window = 1
  BanFor = 1
  SessionTTL = 2
  MaxClock = 3
  MaxSessions = 2
  MaxHitches = 2
SPECIFICATION EntranceSpec
INVARIANT AcceptedIsKept
INVARIANT RefusedIsNotKept
INVARIANT FewCopies
INVARIANT NoRelay
INVARIANT EntranceTypeOK
INVARIANT HeldIsNotLost
INVARIANT FeedbackAloneDoesNotDecide
INVARIANT LoggedOutStaysOut
INVARIANT FewGuesses
PROPERTY EverySenderAnswered
\* The sender has his answers at some point, and bounds are used up.
CHECK_DEADLOCK FALSE
