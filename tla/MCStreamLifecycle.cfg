CONSTANTS
    Api = {a1, a2}
    Media = media
    Session = session
    Free = free
    Dead = dead
    MaxGen = 2
    MaxCommands = 3
    MaxErrors = 1
    MayFail = TRUE
    Commands = {"start", "stop", "text"}
SPECIFICATION Spec
INVARIANTS TornDownOnce FramesGoToLiveStreamer CanBeStopped
PROPERTY ImplementsTeardown
SYMMETRY ApiSymmetry
CHECK_DEADLOCK FALSE
