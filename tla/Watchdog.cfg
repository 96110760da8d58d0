\* One owner starting and stopping the watchdog with a 2- or 5-tick timeout
\* (sleeps of 0 and 1 tick), with or without a handler, and a monitored
\* thread that kicks when it likes.
CONSTANTS
  w1 = w1
  w2 = w2
  Owners <- MCOwners1
  Timeouts = {2, 5}
  Handlers = {"none", "plain"}
  DefaultTimeout = 5
SPECIFICATION Spec
INVARIANTS TypeOK NoThreadAfterStop
PROPERTIES StopReturns TimeoutFires
\* The owner may stop calling and the clock stops at its cap.
CHECK_DEADLOCK FALSE
