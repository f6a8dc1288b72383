\* One message to two domains that are reached over their MX hosts.
CONSTANTS
  Rcpts = {1, 2, 3}
  DomainOf <- MCDomainOf
  MxHosts = 1
SPECIFICATION TwoDomainsSpec
INVARIANT BounceNamesTheFailed
\* A call is over once Send has returned.
CHECK_DEADLOCK FALSE
