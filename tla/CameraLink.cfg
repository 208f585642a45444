CONSTANTS Room = 2
          TextSize = 1
          FrameSize = 3
          MaxFrames = 2
          MaxCommands = 2
SPECIFICATION LinkFairSpec
INVARIANTS WireIsWhole LinkIsTrue
PROPERTY LinkSettles
CHECK_DEADLOCK FALSE
