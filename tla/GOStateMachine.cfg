SPECIFICATION FairSpec
CONSTANTS
  a = a
  b = b
  go = go
  Nobody = Nobody
  Gone = Gone
  user = user
  other = other
  Users = {user}
  Names <- MCNames
  Events <- MCEvents
  Pushes <- MCEvents
  Machines <- MCMachines
  MaxOps = 2
  MaxDepth = 6
  MaxToken = 2
INVARIANTS
  OneActive
  DefinedIfTimed
  NoDeadlock
PROPERTIES
  TimeoutOfThisVisit
  TimeoutComes
CHECK_DEADLOCK FALSE
