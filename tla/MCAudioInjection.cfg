CONSTANTS
    Messages <- MCMessages
    Rates = {1, 2}
    Sampling = 1
    Capacity = 6
    FrameBytes = 4
    MaxMessages = 3
    MaxChanges = 2
SPECIFICATION Spec
INVARIANTS WholeSamples RightRate TeardownClean QuietSamplesAreRight
PROPERTIES NewestKept QueuedIsHeard
CHECK_DEADLOCK FALSE
