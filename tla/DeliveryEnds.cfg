\* One worker, as deployed, that may die at every step: inbound mail, outbound
\* mail and bounces in one queue.
CONSTANTS
  in = in
  out = out
  Msgs = {in, out}
  Rcpts = {1, 3}
  DomainOf <- MCDomainOf
  KindOf <- MCKindOf
  Addressed <- MCAddressed
  Workers = {w1}
  InboundMax = 1
  OutboundMax = 2
  MaxId = 3
  BounceEnabled = TRUE
SPECIFICATION FairSpec
PROPERTY EveryJobEnds
\* The instance stops once all its mail is settled and no row is left.
CHECK_DEADLOCK FALSE
