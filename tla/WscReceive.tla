----------------------------- MODULE WscReceive -----------------------------
(***************************************************************************)
(* How libwsc's event thread turns the frames of an upgraded connection    *)
(* into messages (receive(), handleDataFrame(), handleContinuationFrame()  *)
(* and the rest of libs/libwsc/libwsc/WebSocketClient.cpp, with            *)
(* Utf8Validator.cpp).                                                     *)
(*                                                                         *)
(* A frame carries one byte, of which only its role in UTF-8 counts: a     *)
(* character of its own, the lead of a character of two, three or four     *)
(* bytes, a tail that may come where it comes, or a byte that may not.     *)
(* The byte of a frame that belongs to a compressed message stands for     *)
(* what it inflates to; "corrupt" does not inflate.  A frame that has not  *)
(* arrived completely waits in the buffer and changes nothing.             *)
(***************************************************************************)
EXTENDS Integers, Sequences, FiniteSets

CONSTANTS
    Bytes,       \* the bytes the peer sends
    MaxFrames    \* bound of the model: frames of a behaviour

ASSUME FramesAssumption ==
    /\ Bytes \subseteq {"ascii", "lead2", "lead3", "lead4", "tail", "bad", "corrupt"}
    /\ MaxFrames \in Nat

\* Binary frames carry "ascii", and "corrupt" also marks what was inflated already.
Contents == Bytes \cup {"ascii", "corrupt"}

\* The data frames the peer sends: only what is compressed can be corrupt, and a
\* continuation has no reserved bits.
DataFrames ==
    {f \in [op : {"text", "binary", "continuation"}, byte : Contents,
            fin : BOOLEAN, rsv1 : BOOLEAN] :
        \/ f.op = "text" /\ f.byte \in Bytes /\ (f.byte = "corrupt" => f.rsv1)
        \/ f.op = "binary" /\ f.byte = "ascii"
        \/ f.op = "continuation" /\ f.byte \in Bytes /\ ~f.rsv1}

\* The control frames, with what is wrong with them.
Control(op, flaw) == [op |-> op, flaw |-> flaw]

\* "closing" is a close frame, a ping of more than 125 bytes or an opcode nobody knows.
ControlFrames ==
    {Control("ping", "none"), Control("ping", "fragmented"), Control("closing", "none")}

VARIABLES
    use_compression,       \* permessage-deflate was negotiated, and inflate initialized
    message_in_progress,
    compressed_message_in_progress,
    fragmented_message,
    fragmented_opcode,
    utf8Validator,         \* the bytes it expects: its expectedContinuation
    flagE0,                \* its flag seenE0, for the lead E0 of a character of three bytes
    sent_close,            \* close() was called: every time on the peer's account
    stuck,                 \* receive() returned without draining the frame it is at
    pongs,                 \* pongs sent
    delivered,             \* history: the messages given to the callbacks
    wire,                  \* history: the data frames received
    ended                  \* history: a control frame came that ends the connection

receiveVars ==
        <<use_compression, message_in_progress, compressed_message_in_progress,
          fragmented_message, fragmented_opcode, utf8Validator, flagE0, sent_close, stuck,
          pongs, delivered, wire, ended>>

validator == <<utf8Validator, flagE0>>
fragments == <<message_in_progress, compressed_message_in_progress, fragmented_message,
               fragmented_opcode>>

\* The names say whose they are: the validator beside this has its own.
ReceiveInit ==
    /\ use_compression \in BOOLEAN
    /\ message_in_progress = FALSE /\ compressed_message_in_progress = FALSE
    /\ fragmented_message = <<>> /\ fragmented_opcode = "none"
    /\ utf8Validator = 0 /\ flagE0 = "no"
    /\ sent_close = FALSE /\ stuck = FALSE /\ pongs = 0
    /\ delivered = <<>> /\ wire = <<>> /\ ended = FALSE

-----------------------------------------------------------------------------
(* Utf8Validator.                                                          *)

Follows(byte) ==
    CASE byte = "lead2" -> 1 [] byte = "lead3" -> 2 [] byte = "lead4" -> 3 [] OTHER -> 0

\* validateChunk() of one byte, when e are expected: whether it is accepted, and how many
\* are expected next; a refused byte leaves them as they are.
Accepts(byte, e) ==
    IF e > 0 THEN byte = "tail" ELSE byte \in {"ascii", "lead2", "lead3", "lead4"}
After(byte, e) == IF ~Accepts(byte, e) THEN e ELSE IF e > 0 THEN e - 1 ELSE Follows(byte)

\* seenE0 is "now" when the lead E0 of this text set it, which not every lead of three
\* bytes does.  A complete character clears it; reset() does not, and it is "left".
AfterReset == IF flagE0 = "now" THEN "left" ELSE flagE0
Flags(byte, e, flag) == IF byte = "lead3" /\ e = 0 THEN {"no", "now"}
                        ELSE IF byte = "tail" /\ e = 1 THEN {"no"} ELSE {flag}

\* reset(), and validateChunk() of the first byte.
ValidateAnew(byte) ==
    utf8Validator' = After(byte, 0) /\ flagE0' \in Flags(byte, 0, AfterReset)

-----------------------------------------------------------------------------
(* One turn of receive(): a complete frame.                                *)

Receives(frame) ==
    /\ ~stuck /\ Len(wire) + pongs < MaxFrames
    /\ IF frame \in DataFrames
       THEN wire' = Append(wire, frame) /\ UNCHANGED ended
       ELSE ended' = (ended \/ frame # Control("ping", "none")) /\ UNCHANGED wire

Deliver(op, content) ==
    delivered' = Append(delivered, [op |-> op, content |-> content])

\* close(), which only the first time sends a close frame.
Close == sent_close' = TRUE /\ UNCHANGED delivered

\* Reserved bits nobody negotiated and fragmented control frames: return without draining.
ProtocolError(frame) ==
    /\ Receives(frame)
    /\ \/ frame \in DataFrames /\ frame.rsv1 /\ ~use_compression
       \/ frame \in ControlFrames /\ frame.flaw = "fragmented"
    /\ Close /\ stuck' = TRUE
    /\ UNCHANGED <<use_compression, fragments, validator, pongs>>

\* handleDataFrame()
Acceptable(frame) == frame \in DataFrames /\ (frame.rsv1 => use_compression)

UnexpectedData(frame) ==
    /\ Receives(frame) /\ Acceptable(frame)
    /\ frame.op # "continuation" /\ message_in_progress
    /\ Close
    /\ UNCHANGED <<use_compression, fragments, validator, stuck, pongs>>

FirstFragmentUnchecked(frame) ==   \* mutant: the validator does not see the first fragment
    /\ Receives(frame) /\ Acceptable(frame)
    /\ frame.op # "continuation" /\ ~message_in_progress /\ ~frame.fin
    /\ message_in_progress' = TRUE
    /\ fragmented_opcode' = frame.op
    /\ fragmented_message' = <<frame.byte>>
    /\ compressed_message_in_progress' = (compressed_message_in_progress \/ frame.rsv1)
    /\ UNCHANGED <<use_compression, validator, sent_close, delivered, stuck, pongs>>

\* The first fragment of a message; uncompressed text goes through a fresh validator.
FirstFragment(frame) ==
    /\ Receives(frame) /\ Acceptable(frame)
    /\ frame.op # "continuation" /\ ~message_in_progress /\ ~frame.fin
    /\ message_in_progress' = TRUE
    /\ fragmented_opcode' = frame.op
    /\ fragmented_message' = <<frame.byte>>
    /\ compressed_message_in_progress' = (compressed_message_in_progress \/ frame.rsv1)
    /\ IF frame.op = "text" /\ ~compressed_message_in_progress'
       THEN /\ ValidateAnew(frame.byte)
            /\ IF Accepts(frame.byte, 0) THEN UNCHANGED <<sent_close, delivered>> ELSE Close
       ELSE UNCHANGED <<validator, sent_close, delivered>>
    /\ UNCHANGED <<use_compression, stuck, pongs>>

\* A message of one frame: inflated, validated when it is text, delivered.
WholeMessage(frame) ==
    /\ Receives(frame) /\ Acceptable(frame)
    /\ frame.op # "continuation" /\ ~message_in_progress /\ frame.fin
    /\ IF frame.rsv1 /\ frame.byte = "corrupt"
       THEN Close /\ UNCHANGED validator
       ELSE IF frame.op = "text"
       THEN /\ ValidateAnew(frame.byte)
            /\ IF Accepts(frame.byte, 0) /\ utf8Validator' = 0
               THEN Deliver("text", <<frame.byte>>) /\ UNCHANGED sent_close
               ELSE Close
       ELSE Deliver("binary", <<frame.byte>>) /\ UNCHANGED <<sent_close, validator>>
    /\ UNCHANGED <<use_compression, fragments, stuck, pongs>>

\* handleContinuationFrame()
UnexpectedContinuation(frame) ==
    /\ Receives(frame) /\ Acceptable(frame)
    /\ frame.op = "continuation" /\ ~message_in_progress
    /\ Close
    /\ UNCHANGED <<use_compression, fragments, validator, stuck, pongs>>

Checked == ~compressed_message_in_progress /\ fragmented_opcode = "text"

ExtendedAnew(frame) == <<frame.byte>>   \* mutant: assign() instead of insert()

\* The message so far with this frame.
Extended(frame) == Append(fragmented_message, frame.byte)

\* Whether the frame is refused: seenE0 as reset() left it also refuses the third byte of a
\* character of four, when that is below A0.
Refused(frame, belowA0) ==
    /\ Checked
    /\ \/ ~Accepts(frame.byte, utf8Validator)
       \/ flagE0 = "left" /\ utf8Validator = 2 /\ belowA0

ValidateMore(frame, belowA0) ==
    IF Checked /\ ~Refused(frame, belowA0)
    THEN /\ utf8Validator' = After(frame.byte, utf8Validator)
         /\ flagE0' \in Flags(frame.byte, utf8Validator, flagE0)
    ELSE UNCHANGED validator

\* At the final frame: a compressed message that does not inflate, or a validator
\* that still expects bytes, which is asked of compressed text too.
Inflates(frame) ==
    compressed_message_in_progress =>
        \A p \in 1 .. Len(Extended(frame)) : Extended(frame)[p] # "corrupt"

IncompleteUnasked(frame) == ~Inflates(frame)   \* mutant: validateFinal() is not called

Incomplete(frame) ==
    \/ ~Inflates(frame)
    \/ fragmented_opcode = "text" /\ utf8Validator' # 0

\* An invalid or incomplete message is kept, and stays in progress; what was inflated
\* already does not inflate again.
Continuation(frame, belowA0) ==
    /\ Receives(frame) /\ Acceptable(frame)
    /\ frame.op = "continuation" /\ message_in_progress
    /\ ValidateMore(frame, belowA0)
    /\ ~(frame.fin /\ ~Refused(frame, belowA0) /\ ~Incomplete(frame))
    /\ fragmented_message' = IF frame.fin /\ compressed_message_in_progress /\ Inflates(frame)
                             THEN <<"corrupt">> ELSE Extended(frame)
    /\ IF Refused(frame, belowA0) \/ frame.fin THEN Close ELSE UNCHANGED <<sent_close, delivered>>
    /\ UNCHANGED <<use_compression, message_in_progress, compressed_message_in_progress,
                   fragmented_opcode, stuck, pongs>>

\* The message is complete: it is delivered, and the state is reset.
FinalFragment(frame, belowA0) ==
    /\ Receives(frame) /\ Acceptable(frame)
    /\ frame.op = "continuation" /\ message_in_progress /\ frame.fin
    /\ ValidateMore(frame, belowA0)
    /\ ~Refused(frame, belowA0) /\ ~Incomplete(frame)
    /\ Deliver(fragmented_opcode, Extended(frame))
    /\ message_in_progress' = FALSE /\ compressed_message_in_progress' = FALSE
    /\ fragmented_message' = <<>> /\ fragmented_opcode' = "none"
    /\ UNCHANGED <<use_compression, sent_close, stuck, pongs>>

\* handleCloseFrame(), handlePingFrame() and the default of receive().
ControlFrame(frame) ==
    /\ Receives(frame)
    /\ frame \in ControlFrames /\ frame.flaw # "fragmented"
    /\ IF frame = Control("ping", "none")
       THEN pongs' = pongs + 1 /\ UNCHANGED <<sent_close, delivered>>
       ELSE Close /\ UNCHANGED pongs
    /\ UNCHANGED <<use_compression, fragments, validator, stuck>>

ReceiveNext ==
    \/ \E frame \in DataFrames \cup ControlFrames : ProtocolError(frame)
    \/ \E frame \in ControlFrames : ControlFrame(frame)
    \/ \E frame \in DataFrames :
          \/ UnexpectedData(frame) \/ FirstFragment(frame) \/ WholeMessage(frame)
          \/ UnexpectedContinuation(frame)
          \/ \E belowA0 \in BOOLEAN :
                Continuation(frame, belowA0) \/ FinalFragment(frame, belowA0)

ReceiveSpec == ReceiveInit /\ [][ReceiveNext]_receiveVars

-----------------------------------------------------------------------------
(* What RFC 6455 and RFC 3629 say, of the data frames as a whole.          *)

Starts == {i \in 1 .. Len(wire) : wire[i].op # "continuation"}

\* Frames i .. j belong to one message, which frame i starts; frame j may be its last.
Reaches(i, j) == i \in Starts /\ j \in i .. Len(wire) /\ \A k \in i .. j - 1 : ~wire[k].fin
Message(i, j) == Reaches(i, j) /\ wire[j].fin
Content(i, j) == [k \in 1 .. j - i + 1 |-> wire[i + k - 1].byte]

\* How many messages end with frame j or before.
Ended(j) == Cardinality({k \in 1 .. j : wire[k].fin})

\* Text of which n bytes are still to come: every lead has its tails, as far as it
\* came, and every tail, also of those to come, has its lead.
TextBut(s, n) ==
    /\ \A p \in 1 .. Len(s) : s[p] \in {"ascii", "lead2", "lead3", "lead4", "tail"}
    /\ \A p \in 1 .. Len(s) : /\ p + Follows(s[p]) <= Len(s) + n
                              /\ \A q \in p + 1 .. p + Follows(s[p]) :
                                    q <= Len(s) => s[q] = "tail"
    /\ \A q \in 1 .. Len(s) + n : (q <= Len(s) => s[q] = "tail") =>
          \E p \in 1 .. Len(s) : p < q /\ q <= p + Follows(s[p])

ValidText(s)  == TextBut(s, 0)
ValidSoFar(s) == \E n \in 0 .. 3 : TextBut(s, n)

\* Compression was negotiated; messages do not overlap; text is valid, as far as it came.
WellFormed ==
    /\ ~ended
    /\ \A i \in 1 .. Len(wire) :
          /\ wire[i].rsv1 => use_compression
          /\ i \in Starts <=> i = 1 \/ wire[i - 1].fin
          /\ wire[i].byte # "corrupt"
    /\ \A i, j \in 1 .. Len(wire) : Reaches(i, j) /\ wire[i].op = "text" =>
          IF wire[j].fin THEN ValidText(Content(i, j)) ELSE ValidSoFar(Content(i, j))

-----------------------------------------------------------------------------
(* Properties.                                                             *)

\* Bound of the run: the frames after a close are not looked at.  No property speaks of
\* what follows a close, and frames that were not well-formed do not become so.
Talking == ~sent_close

\* Every variable has its type.
ReceiveTypeOK ==
    /\ use_compression \in BOOLEAN /\ message_in_progress \in BOOLEAN
    /\ compressed_message_in_progress \in BOOLEAN
    /\ fragmented_message \in Seq(Contents)
    /\ fragmented_opcode \in {"none", "text", "binary"}
    /\ (fragmented_opcode = "none") = ~message_in_progress
    /\ (fragmented_message = <<>>) = ~message_in_progress
    /\ utf8Validator \in 0 .. 3 /\ flagE0 \in {"no", "now", "left"}
    /\ sent_close \in BOOLEAN /\ stuck \in BOOLEAN /\ pongs \in 0 .. MaxFrames
    /\ delivered \in Seq([op : {"text", "binary"}, content : Seq(Contents)])
    /\ wire \in Seq(DataFrames) /\ ended \in BOOLEAN

\* Until the client closes, the callbacks got exactly the messages that the frames
\* spell, in the order of their ends, whatever pings, compression and fragments came
\* between them.
Reassembled ==
    /\ ReceiveTypeOK
    /\ ~sent_close =>
          /\ Len(delivered) = Ended(Len(wire))
          /\ \A i, j \in 1 .. Len(wire) : Message(i, j) =>
                delivered[Ended(j)] = [op |-> wire[i].op, content |-> Content(i, j)]

\* A peer that keeps to the protocol is never closed on: no state left behind by one
\* message makes the next one fail.
GoodPeerIsHeard == sent_close => ~WellFormed

\* Until the client closes, text is valid when it is delivered, wherever fragments cut its
\* characters; except that of a compressed message in fragments, which is inflated at its
\* end and then given to the callback without validateChunk().
TextIsValid ==
    ~sent_close =>
        \A i, j \in 1 .. Len(wire) :
            Message(i, j) /\ wire[i].op = "text" /\ (wire[i].rsv1 => i = j)
                => ValidText(delivered[Ended(j)].content)
=============================================================================
