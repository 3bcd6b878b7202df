CONSTANTS
    Api = {a1, a2}
    Media = media
    Session = session
    Free = free
    Dead = dead
    MaxGen = 1
    MaxCommands = 3
    MaxErrors = 1
    MayFail = FALSE
    Commands = {"start", "stop", "pause"}
SPECIFICATION Spec
INVARIANTS OneTeardown
CHECK_DEADLOCK FALSE
