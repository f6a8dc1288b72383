CONSTANTS
  Rcpts = {1, 2, 3}
  DomainOf <- MCDomainOf
  MxHosts = 1
SPECIFICATION Spec
INVARIANT PartialWasTaken
\* A call is over once Send has returned.
CHECK_DEADLOCK FALSE
