\* Expected violation: a write signals only one of two blocked readers.
CONSTANTS
  c1 = c1
  c2 = c2
  Procs <- MCProcs2
  Capacity = 16
  Lens = {1, 4}
  MaxWrites = 2
  Mortal = {}
  MaxStarts = 1
SPECIFICATION Spec
PROPERTY
  EveryFrameRead
CHECK_DEADLOCK FALSE
