CONSTANTS Capacity = 2
          Chunk = 2
          MaxWrite = 3
SPECIFICATION FairSpec
INVARIANTS TypeOK RecordIsSafe CreditsAreBacked NothingForgotten ErrorBeforeFree
PROPERTY TransportSettles
CHECK_DEADLOCK FALSE
