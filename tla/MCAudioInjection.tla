-------------------------- MODULE MCAudioInjection --------------------------
(* Messages of one and two channels, at two rates, of odd length and longer than the buffer. *)
EXTENDS AudioInjection

Message(rate, channels, len) == [rate |-> rate, channels |-> channels, len |-> len]
MCMessages ==
    {Message(1, 1, 2), Message(1, 1, 3), Message(2, 1, 10), Message(3, 1, 6), Message(1, 2, 7)}
=============================================================================
