CONSTANTS
    Api = {a1}
    Media = media
    Session = session
    Free = free
    Dead = dead
    MaxGen = 1
    MaxCommands = 2
    MaxErrors = 0
    MayFail = FALSE
    Commands = {"start", "stop"}
SPECIFICATION Spec
INVARIANTS StopsDoNotRace
CHECK_DEADLOCK FALSE
