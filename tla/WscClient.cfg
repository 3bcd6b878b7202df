SPECIFICATION Spec
CONSTANTS
    s1 = s1
    Senders = {s1}
    Owner = owner
    Loop = loop
    Helper = helper
    Users = {"streamer", "example"}
    MaxQueue = 2
    MaxSends = 3
    CLOSE = CLOSE
INVARIANTS FlushedUnlessLate FreedAfterLoop OneCloseFrame SentInOrder DestroyedUnlessEof
PROPERTIES DisconnectEnds
CHECK_DEADLOCK FALSE
