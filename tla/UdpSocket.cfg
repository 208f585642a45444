CONSTANTS
  QueueSize = 2
  MaxArrivals = 3
  MaxWrites = 3
SPECIFICATION Spec
INVARIANTS RecordIsSafe CountIsTrue PromptSend
PROPERTY RingsAreQueues
CHECK_DEADLOCK FALSE
