SPECIFICATION FairThreadSpec
CONSTANTS
  u1 = u1
  u2 = u2
  h1 = h1
  h2 = h2
  Users <- MCUsers
  Handles <- MCHandles
  Invalid = Invalid
INVARIANTS
  OneServer
  ServedOrOver
  DefinedUnlessHasty
PROPERTIES
  StopsInTheEnd
  JoinReturns
CHECK_DEADLOCK FALSE
