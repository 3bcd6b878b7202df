------------------------------ MODULE WscFrames ------------------------------
(***************************************************************************)
(* Frames on the wire of libwsc (libs/libwsc/libwsc/WebSocketClient.cpp):  *)
(* send(), which compresses a message and puts a header before it, and the *)
(* loop of receive(), which finds the frames again in a stream that comes  *)
(* in pieces of any size.  The stream is what send() writes, as a peer     *)
(* with this code would read it, or what another peer writes.              *)
(*                                                                         *)
(* The limits 125 and 65535 of the short lengths and the width of size_t   *)
(* are parameters.  A frame is its second byte, its extended length, and   *)
(* what it carries.                                                        *)
(***************************************************************************)
EXTENDS Integers, Sequences

CONSTANTS
    Max7,        \* the longest payload without an extended length: 125
    Max16,       \* the longest payload with an extended length of 16 bits: 65535
    SizeMod,     \* values of size_t and uint64_t: 2^64
    Lens,        \* lengths of the payloads
    MaxFrames,   \* bound of the model: frames of a behaviour
    MaxArrived   \* bound of the model: bytes that arrive of a frame that never ends

ASSUME FramesAssumption ==
    /\ Max7 \in Nat /\ Max16 \in Nat /\ SizeMod \in Nat /\ MaxFrames \in Nat /\ MaxArrived \in Nat
    /\ Max7 + 2 <= Max16 /\ Max16 + 14 < SizeMod \div 2
    /\ Lens \subseteq 0 .. SizeMod - 1

VARIABLES
    deflate_initialized,
    deflate_broken,  \* deflateInit2() has failed after a message
    stream,          \* the frames written
    arrived,         \* bytes of the stream that arrived
    drained,         \* bytes of the stream that receive() has taken
    handled,         \* the payloads receive() has found
    undefined        \* receive() has read beyond what arrived

vars == <<deflate_initialized, deflate_broken, stream, arrived, drained, handled, undefined>>

Init ==
    /\ deflate_initialized \in BOOLEAN /\ deflate_broken = FALSE
    /\ stream = <<>> /\ arrived = 0 /\ drained = 0
    /\ handled = <<>> /\ undefined = FALSE

-----------------------------------------------------------------------------
(* A frame.                                                                *)

Mark16 == Max7 + 1   \* 126
Mark64 == Max7 + 2   \* 127

Extended(b2) == IF b2 = Mark16 THEN 2 ELSE IF b2 = Mark64 THEN 8 ELSE 0
HeaderLen(f) == 2 + Extended(f.b2) + (IF f.mask THEN 4 ELSE 0)
Size(f)      == HeaderLen(f) + f.len

\* The top bit of an extended length of 64 bits has to be 0.
Illegal(f) == f.len >= SizeMod \div 2

Total[n \in Nat] == IF n = 0 THEN 0 ELSE Total[n - 1] + Size(stream[n])

-----------------------------------------------------------------------------
(* send()                                                                  *)

LengthMarkLate(len) == IF len <= Max7 THEN len ELSE IF len <= Max16 + 1 THEN Mark16 ELSE Mark64   \* mutant
LengthMark(len) == IF len <= Max7 THEN len ELSE IF len <= Max16 THEN Mark16 ELSE Mark64

\* An extended length of 16 bits is cut to them.
Frame(b2, mask, len, rsv1, deflated) ==
    [b2 |-> b2, ext |-> IF b2 = Mark16 THEN len % (Max16 + 1) ELSE len,
     mask |-> mask, len |-> len, rsv1 |-> rsv1, deflated |-> deflated]

Put(frame) ==
    /\ Len(stream) < MaxFrames
    /\ \A i \in 1 .. Len(stream) : ~Illegal(stream[i])
    /\ stream' = Append(stream, frame)
    /\ UNCHANGED <<arrived, drained, handled, undefined>>

Write(len, rsv1, deflated) ==
    ~Illegal([len |-> len]) /\ Put(Frame(LengthMark(len), TRUE, len, rsv1, deflated))

\* A control frame, or a message without compression.
SendPlain(len) ==
    /\ Write(len, FALSE, FALSE)
    /\ UNCHANGED <<deflate_initialized, deflate_broken>>

\* Without context takeover the deflate stream is made anew after every message, which may
\* fail.
SendDeflated(len) ==
    /\ deflate_initialized /\ ~deflate_broken
    /\ Write(len, TRUE, TRUE)
    /\ UNCHANGED <<deflate_initialized, deflate_broken>>

\* When the compression or what follows it fails, the message is sent as it is.
SendRaw(len) ==
    /\ deflate_initialized
    /\ Write(len, FALSE, FALSE)
    /\ deflate_broken' \in BOOLEAN
    /\ UNCHANGED deflate_initialized

\* Another peer: no mask, lengths that are longer than they have to be, or illegal.
PeerWrites(b2, len) ==
    /\ b2 \in {Mark16, Mark64} \/ b2 = len
    /\ b2 = Mark16 => len <= Max16
    /\ b2 < Mark16 => len <= Max7
    /\ Put(Frame(b2, FALSE, len, FALSE, FALSE))
    /\ UNCHANGED <<deflate_initialized, deflate_broken>>

-----------------------------------------------------------------------------
(* receive()                                                               *)

\* One more byte of the stream arrives; receive() may run after it or after more.
Arrive ==
    /\ arrived < Total[Len(stream)] /\ arrived - drained < MaxArrived
    /\ arrived' = arrived + 1
    /\ UNCHANGED <<deflate_initialized, deflate_broken, stream, drained, handled, undefined>>

DataLen == arrived - drained
Current == stream[Len(handled) + 1]

PayloadLenUnswapped(f) ==   \* mutant: ntohll() is missing
    IF f.b2 = Mark64 THEN ((f.ext % 8) * 8) + f.ext \div 8 ELSE IF f.b2 = Mark16 THEN f.ext ELSE f.b2
PayloadLen(f) == IF Extended(f.b2) = 0 THEN f.b2 ELSE f.ext

WaitsForMore(f) == DataLen > HeaderLen(f) + PayloadLen(f)   \* mutant: <= for <

\* The header is there, and then the sum of the lengths, which is a size_t.
IsComplete(f) ==
    /\ DataLen >= 2 + Extended(f.b2)
    /\ DataLen >= (HeaderLen(f) + PayloadLen(f)) % SizeMod

\* One turn of the loop: a frame is handled and drained.
HandleFrame ==
    /\ ~undefined /\ Len(handled) < Len(stream) /\ DataLen >= 2
    /\ IsComplete(Current)
    /\ IF HeaderLen(Current) + PayloadLen(Current) >= SizeMod
       THEN undefined' = TRUE /\ UNCHANGED <<drained, handled>>
       ELSE /\ drained' = drained + HeaderLen(Current) + PayloadLen(Current)
            /\ handled' = Append(handled, [len |-> PayloadLen(Current), inflate |-> Current.rsv1])
            /\ UNCHANGED undefined
    /\ UNCHANGED <<deflate_initialized, deflate_broken, stream, arrived>>

Next ==
    \/ \E len \in Lens : SendPlain(len) \/ SendDeflated(len) \/ SendRaw(len)
    \/ \E len \in Lens, b2 \in 0 .. Mark64 : PeerWrites(b2, len)
    \/ Arrive \/ HandleFrame

\* The event loop runs the read callback as long as it makes progress.
Spec == Init /\ [][Next]_vars /\ WF_vars(HandleFrame)

-----------------------------------------------------------------------------
(* Properties.                                                             *)

\* Every variable has its type.
TypeOK ==
    /\ deflate_initialized \in BOOLEAN /\ deflate_broken \in BOOLEAN /\ undefined \in BOOLEAN
    /\ \A i \in 1 .. Len(stream) : stream[i].b2 \in 0 .. Mark64 /\ stream[i].ext \in 0 .. SizeMod - 1
    /\ Len(stream) <= MaxFrames /\ Len(handled) <= Len(stream)
    /\ arrived \in 0 .. Total[Len(stream)] /\ drained \in 0 .. arrived

\* However the stream was cut into pieces, receive() finds the frames that were written, each
\* after its last byte arrived, and inflates those that were deflated.
FramesReadAsSent ==
    /\ TypeOK
    /\ drained = Total[Len(handled)]
    /\ \A i \in 1 .. Len(handled) :
          handled[i] = [len |-> stream[i].len, inflate |-> stream[i].deflated]

\* It reads beyond what arrived only of a frame whose length has its top bit set: header_len
\* + payload_len wraps around.
UndefinedOnlyIfIllegal ==
    undefined => Illegal(stream[Len(handled) + 1])

\* A frame that has arrived is handled, without waiting for another one.
ArrivedIsHandled ==
    \A n \in 1 .. MaxFrames :
        (Len(stream) >= n /\ arrived >= Total[n]) ~> (Len(handled) >= n)
=============================================================================
