\* One owner; the timeout handler calls stop() on the watchdog.
CONSTANTS
  w1 = w1
  w2 = w2
  Owners <- MCOwners1
  Timeouts = {2}
  Handlers = {"stops"}
  DefaultTimeout = 2
SPECIFICATION Spec
INVARIANT NoTerminate
CHECK_DEADLOCK FALSE
