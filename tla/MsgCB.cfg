\* Two or three threads, three callbacks of two objects.
SPECIFICATION Spec
CONSTANTS
  t1 = t1
  t2 = t2
  t3 = t3
  c1 = c1
  c2 = c2
  c3 = c3
  d1 = d1
  d2 = d2
  NoThread = NoThread
  NoCallback = NoCallback
  MaxInstalls = 3
  Threads = {t1, t2, t3}
  Callbacks <- MCCallbacks
  Dest <- MCDest
  RoleChoices <- MCRoles
  MaxNest = 2
INVARIANTS InBounds RunningIsInstalled OnceInOrder SkipsOnlyByRemoval
  OwedIsDelivered BlocksCounted
