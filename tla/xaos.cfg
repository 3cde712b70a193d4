CONSTANTS
    MaxEvents = 3
    MaxFrames = 2
    MaxInputs = 3
SPECIFICATION FairSpec
INVARIANT MouseFollows
PROPERTY FramesAreShown
