\* Expected violation of NoOversleep.
CONSTANTS
  p1 = p1
  p2 = p2
  Publishers <- MCPublishers1
  RetryCount = 1
  Interval = 1
  LongWait = 100
  MaxPublish = 2
  MaxTime = 4
SPECIFICATION Spec
INVARIANT
  NoOversleep
CHECK_DEADLOCK FALSE
