\* One stage with an input queue of 2 and an output queue of 2, so that a
\* push is refused and a result is lost; five items.
SPECIFICATION Spec
CONSTANTS
  Capacity = 2
  OutCapacity = 2
  MaxItems = 5
INVARIANTS TypeOK PipelineOrder
PROPERTIES StopReturns ImplementsRtStage
CHECK_DEADLOCK FALSE
