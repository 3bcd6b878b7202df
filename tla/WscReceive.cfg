\* One byte of each role that counts, and five frames until the client closes: a character
\* of four bytes cut into frames, with a control frame in between, or several messages.
SPECIFICATION ReceiveSpec
CONSTANTS
    Bytes = {"ascii", "lead2", "lead3", "lead4", "tail", "corrupt"}
    MaxFrames = 5
CONSTRAINT Talking
INVARIANTS Reassembled GoodPeerIsHeard TextIsValid
\* The peer may stop sending, and the model stops after MaxFrames.
CHECK_DEADLOCK FALSE
