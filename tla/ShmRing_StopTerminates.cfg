\* StopTerminates under the bounds of ShmRing.cfg: expected to be violated
\* (a consumer waiting in the payload loop on a garbled length).
CONSTANTS
  c1 = c1
  c2 = c2
  Procs <- MCProcs2
  Capacity = 16
  Lens = {1, 4}
  MaxWrites = 4
  Mortal = {}
  MaxStarts = 2
SPECIFICATION Spec
PROPERTIES StopTerminates
\* Every process may have stopped for good.
CHECK_DEADLOCK FALSE
