\* Two owners calling start and stop of one watchdog concurrently.
CONSTANTS
  w1 = w1
  w2 = w2
  Owners <- MCOwners2
  Timeouts = {2}
  Handlers = {"plain"}
  DefaultTimeout = 2
SPECIFICATION Spec
INVARIANT NoTerminate
CHECK_DEADLOCK FALSE
