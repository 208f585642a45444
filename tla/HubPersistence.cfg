CONSTANTS Devices = {d1, d2}
          MaxFrames = 2
          MaxNews = 1
          MaxFaults = 1
          MaxCrashes = 1
          MaxUnread = 1
SPECIFICATION PersistFairSpec
INVARIANTS DiskIsTrue MarksAreTrue
PROPERTY DirtyIsSaved
