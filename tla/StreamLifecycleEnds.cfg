CONSTANTS
    Api = {a1}
    Media = media
    Session = session
    Free = free
    Dead = dead
    MaxGen = 2
    MaxCommands = 2
    MaxErrors = 1
    MayFail = FALSE
    Commands = {"start", "stop", "pause"}
SPECIFICATION Spec
PROPERTIES TeardownEnds
CHECK_DEADLOCK FALSE
