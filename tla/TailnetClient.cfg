CONSTANTS
  Timeout = 2
  Settle = 2
  MaxNow = 5
  MaxRebinds = 2
  MaxWaits = 2
  MaxDepth = 4
SPECIFICATION Spec
INVARIANTS PromisesAreKept TimeIsCharged RebindIsDone
