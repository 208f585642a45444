CONSTANTS Ticks = 3
          MaxCount = 7
SPECIFICATION WatchdogFairSpec
INVARIANTS WatchdogTypeOK NoEarlyRestart StopHolds
PROPERTY HangRestarts
CHECK_DEADLOCK FALSE
