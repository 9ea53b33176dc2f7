\* Three threads find a gate not created and enter it twice over, or use two lists
\* inside each other; three objects copy each other's lists of two callbacks.
SPECIFICATION Spec
CONSTANTS
  t1 = t1
  t2 = t2
  t3 = t3
  NoThread = NoThread
  Threads <- MCThreads
  MaxDepth = 2
  Lists = {a, b}
  Plain = Plain
  MaxChanges = 2
  MaxPasses = 2
  Objects = {o1, o2, o3}
  Observers = {c1, c2}
INVARIANTS ExclusionUnlessReinitialised InsideIsCreated ListsRight CopiesRight
PROPERTIES SettledForEver SomeoneGetsIn
