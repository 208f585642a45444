CONSTANTS Capacity = 2
          Chunk = 1
          MaxWrite = 2
SPECIFICATION FairSpec
PROPERTY WriteSettles
CHECK_DEADLOCK FALSE
