-------------------------------- MODULE G711 --------------------------------
(***************************************************************************)
(* The companding of injected audio (linear_to_ulaw() and linear_to_alaw() *)
(* of audio_streamer_glue.cpp), and what a telephone makes of the codes.   *)
(*                                                                         *)
(* A code is its sign, segment and mantissa; which of its bits are         *)
(* inverted on the wire is left out.                                       *)
(***************************************************************************)
EXTENDS Integers

Samples == -32768 .. 32767
Int16(x) == ((x + 32768) % 65536) - 32768

Code(positive, seg, mantissa) == [positive |-> positive, seg |-> seg, mantissa |-> mantissa]

\* The first segment whose end is not below v.
Segment(v, ends) == CHOOSE i \in DOMAIN ends :
                        v <= ends[i] /\ \A j \in DOMAIN ends : j < i => v > ends[j]

Bits(v, seg) == (v \div 2 ^ (seg + 3)) % 16

UlawEnds == [i \in 0 .. 7 |-> 2 ^ (8 + i) - 1]

ulaw_without_bias(pcm_val) ==   \* mutant: 0x84 is not added
    LET v == Int16(IF pcm_val < 0 THEN -pcm_val ELSE pcm_val)
        seg == Segment(v, UlawEnds)
    IN  Code(pcm_val >= 0, seg, Bits(v, seg))

linear_to_ulaw(pcm_val) ==
    LET v == Int16(IF pcm_val < 0 THEN 132 - pcm_val ELSE 132 + pcm_val)
        seg == Segment(v, UlawEnds)
    IN  Code(pcm_val >= 0, seg, Bits(v, seg))

AlawEnds == [i \in 0 .. 7 |-> IF i < 7 THEN 2 ^ (9 + i) - 1 ELSE 32767]

\* -pcm_val - 1 of the lowest sample is 32767 again.
linear_to_alaw(pcm_val) ==
    LET m == IF pcm_val >= 0 THEN pcm_val ELSE -pcm_val - 1
        v == IF m > 32635 THEN 32635 ELSE m
        seg == Segment(v, AlawEnds)
    IN  IF v >= 256 THEN Code(pcm_val >= 0, seg, Bits(v, seg))
        ELSE Code(pcm_val >= 0, 0, v \div 16)

-----------------------------------------------------------------------------
(* ITU-T G.711: the middle of a code's interval, and half its width.       *)

Signed(code, v) == IF code.positive THEN v ELSE -v

UlawValue(code) == Signed(code, (code.mantissa * 8 + 132) * 2 ^ code.seg - 132)
UlawError(code) == 2 ^ (code.seg + 2)

AlawValue(code) ==
    Signed(code, IF code.seg = 0 THEN code.mantissa * 16 + 8
                 ELSE (code.mantissa * 16 + 264) * 2 ^ (code.seg - 1))
AlawError(code) == IF code.seg = 0 THEN 8 ELSE 2 ^ (code.seg + 2)

Far(x, y, error) == x - y > error \/ y - x > error

\* The samples that are heard as others.
MisheardUlaw ==
    {s \in Samples : LET c == linear_to_ulaw(s) IN Far(UlawValue(c), s, UlawError(c))}
MisheardAlaw ==
    {s \in Samples : LET c == linear_to_alaw(s) IN Far(AlawValue(c), s, AlawError(c))}
=============================================================================
