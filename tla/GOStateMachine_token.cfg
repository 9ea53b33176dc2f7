SPECIFICATION Spec
CONSTANTS
  a = a
  b = b
  go = go
  Nobody = Nobody
  Gone = Gone
  user = user
  other = other
  Users = {user, other}
  Names <- MCNames
  Events <- MCEvents
  Pushes = {}
  Machines <- MCTimed
  MaxOps = 2
  MaxDepth = 6
  MaxToken = 2
PROPERTIES
  TokenMatches
CHECK_DEADLOCK FALSE
