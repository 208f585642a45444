CONSTANT QueueSize = 2
SPECIFICATION FairSpec
INVARIANT ManagerIsSound
PROPERTIES AbsenceIsMarked 
CHECK_DEADLOCK FALSE
