\* A stereo sample is four units and 20 ms are two of them; 20, 40 and 60 ms are asked for,
\* so the ring has 8, 16 (exactly what is asked) or 32 units.  Frames have less than a
\* sample of one channel, a sample and a half and an odd byte, and a slot of 30 ms; the
\* silence is 20 ms or 10.
CONSTANTS
    Sample = 4
    Twenty = 8
    Packets = {1, 2, 3}
    Lengths = {1, 7, 12}
    Limits = {0, 4}
    Silences = {4, 8}
    MaxReads = 3
    MaxUnits = 40
SPECIFICATION Spec
INVARIANTS NothingLost NeverStuck ChunkFillsBuffer
PROPERTY ChunksFollow
\* After finish() no frame is read, and the model stops after MaxUnits.
CHECK_DEADLOCK FALSE
