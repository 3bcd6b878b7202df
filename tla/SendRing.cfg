\* 16 kHz stereo, the format whose limits are tightest: one unit is 51 200 bytes,
\* so the ring of 256 000 bytes has 5, the limit before the connect (320 000
\* bytes) is 6 and never reached, the one after it (160 000 bytes) is 3.  The write of 6
\* is longer than the ring, as one second of 48 kHz stereo is, whose limits are beyond the
\* ring: with the limits of the other format it only meets more trims.
CONSTANTS
    Cap = 5
    Writes = {1, 2, 6}
    MinDrop = 1
    PreLimit = 6
    PostLimit = 3
    Frames = {1, 2}
    MaxHeard = 8
SPECIFICATION Spec
INVARIANTS RingHoldsRecent DropsAccounted AudioAfterMetadata
PROPERTIES OnlyBacklogDropped ImplementsQueue StopReturns AudioMoves
\* A joined sender and a closed connection leave nothing to do.
CHECK_DEADLOCK FALSE
