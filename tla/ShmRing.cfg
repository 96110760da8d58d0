\* Two consumer processes, each publishing, stopping and restarting, with
\* enough writes for the ring to wrap and for the min-tail overwrite: what
\* a consumer hands to its handler, garbled bytes included.
CONSTANTS
  c1 = c1
  c2 = c2
  Procs <- MCProcs2
  Capacity = 16
  Lens = {1, 4}
  MaxWrites = 4
  Mortal <- MCMortal
  MaxStarts = 2
SPECIFICATION Spec
INVARIANTS TypeOK NoStaleFrame
\* Every process may have stopped for good.
CHECK_DEADLOCK FALSE
