\* Safety of the ack/retry bookkeeping with one publisher thread.
CONSTANTS
  p1 = p1
  p2 = p2
  Publishers <- MCPublishers1
  RetryCount = 1
  Interval = 1
  LongWait = 100
  MaxPublish = 2
  MaxTime = 4
SPECIFICATION Spec
INVARIANTS
  TypeOK
  AckedNeverPending
  SendBudget
PROPERTIES
  ImplementsAckRetry
\* The bus stops for good once destroyed, and idles once the publish bound
\* is used up.
CHECK_DEADLOCK FALSE
