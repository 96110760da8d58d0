\* Expected violation: a publish over LocalTransport never returns.
CONSTANTS
  t1 = t1
  t2 = t2
  ta = ta
  tb = tb
  Threads <- MCThreads
  Topics <- MCTopics
  MaxSubs = 2
  MaxPublish = 2
  MaxDepth = 2
SPECIFICATION Spec
PROPERTY
  PublishReturns
CHECK_DEADLOCK FALSE
