CONSTANTS
  MaxSessions = 3
  MaxDrops = 2
SPECIFICATION Spec
CHECK_DEADLOCK FALSE
INVARIANTS WatchFollowsSession CameraHasOneTask RetriesGoOn
