CONSTANTS
    Max7 = 2
    Max16 = 5
    SizeMod = 64
    Lens = {0, 2, 3, 5, 6, 7, 32, 60}
    MaxFrames = 2
    MaxArrived = 24
SPECIFICATION Spec
INVARIANTS FramesReadAsSent UndefinedOnlyIfIllegal
PROPERTY ArrivedIsHandled
CHECK_DEADLOCK FALSE
