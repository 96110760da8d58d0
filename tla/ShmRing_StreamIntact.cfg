\* Expected violation: two consumers, the writer overwrites the slower one.
CONSTANTS
  c1 = c1
  c2 = c2
  Procs <- MCProcs2
  Capacity = 16
  Lens = {1, 4}
  MaxWrites = 4
  Mortal = {}
  MaxStarts = 1
SPECIFICATION Spec
INVARIANT
  StreamIntact
CHECK_DEADLOCK FALSE
