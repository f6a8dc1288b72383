\* Two workers race for the rows of one outbound message.
CONSTANTS
  in = in
  out = out
  Msgs = {out}
  Rcpts = {1, 2}
  DomainOf <- MCDomainOf
  KindOf <- MCKindOf
  Addressed <- MCAddressed
  Workers = {w1, w2}
  InboundMax = 1
  OutboundMax = 2
  MaxId = 2
  BounceEnabled = TRUE
SPECIFICATION Spec
SYMMETRY Symmetry
INVARIANT TypeOK
INVARIANT NothingForgotten
INVARIANT SoleHandler
INVARIANT SentOnce
PROPERTY OnlyRetryRewinds
PROPERTY PromiseKept
\* The instance stops once all its mail is settled and no row is left.
CHECK_DEADLOCK FALSE
