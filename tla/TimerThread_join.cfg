SPECIFICATION FairThreadSpec
CONSTANTS
  u1 = u1
  u2 = u2
  h1 = h1
  h2 = h2
  Users <- MCOneUser
  Handles <- MCHandles
  Invalid = Invalid
PROPERTIES
  JoinHalts
CHECK_DEADLOCK FALSE
