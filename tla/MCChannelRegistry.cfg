SPECIFICATION Spec
CONSTANTS
    Calls = {c1, c2}
    Streams = {s1, s2, s3, s4}
    ApiThreads = 2
    MaxChannels = 2
    MaxDoubled = 1
    Modulus = 16
    Nobody = Nobody
SYMMETRY Symmetry
CHECK_DEADLOCK FALSE
INVARIANTS CounterIsSlots OvershootBounded RegisteredUnlessErased
PROPERTY RefusedAtLimit
