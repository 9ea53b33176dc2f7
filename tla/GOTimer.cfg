SPECIFICATION FairSpec
CONSTANTS
  a = a
  b = b
  Dests <- MCDests
  Requests <- MCRequests
  Cycle = 16
  Boots <- MCBoots
  MaxDelay = 4
  Horizon = 6
  MaxEvents = 2
INVARIANTS
  Custody
  NeverEarly
  FirstIsEarliest
  QuietAfterUnnotify
  OneMoreAtMost
PROPERTIES
  DueIsServed
