----------------------------- MODULE CapturePath -----------------------------
(***************************************************************************)
(* From the media bug to the send ring: what stream_frame() reads in one   *)
(* callback, how much of it it keeps, and how send_pcm_bytes() gathers it  *)
(* into chunks for writeBinary() when STREAM_BUFFER_SIZE asks for more     *)
(* than 20 ms (audio_streamer_glue.cpp, buffer/ringbuffer.c); with the     *)
(* API thread that pauses and the one that finishes the stream.            *)
(*                                                                         *)
(* A unit of audio is its number among those that were kept, and a sample  *)
(* of a channel is two of them, as it is two bytes.  Speex gives back as   *)
(* many samples as it was given: what matters here is that it fills the    *)
(* room it has and forgets the rest of the frame.                          *)
(***************************************************************************)
EXTENDS Integers, SequencesExt, FiniteSetsExt

CONSTANTS
    Sample,      \* units of a sample in all channels: channels * sizeof(int16_t)
    Twenty,      \* units in 20 ms
    Packets,     \* values of rtp_packets: STREAM_BUFFER_SIZE / 20
    Lengths,     \* values of a frame's datalen
    Limits,      \* what its samples, or its codec's packet, amount to; 0: unknown
    Silences,    \* lengths of the silence: 20 ms, or less in formats above 2048 bytes
    MaxReads,    \* reads of one callback (8)
    MaxUnits     \* bound of the model: units kept in a behaviour

ASSUME FormatAssumption ==
    /\ Sample \in {2, 4}        \* SMBF_STEREO or not
    /\ Twenty \in Nat \ {0} /\ Twenty % Sample = 0
    /\ Packets \subseteq Nat \ {0} /\ Lengths \subseteq Nat \ {0}
    /\ \A n \in Limits \cup Silences : n \in Nat /\ n % 2 = 0
    /\ \A n \in Silences : n \in 1 .. Twenty
    /\ MaxReads \in Nat \ {0} /\ MaxUnits \in Nat

VARIABLES
    resampling,  \* tech_pvt->resampler is set
    rtp_packets,
    silence,     \* what emit_clock_silence() sends in this format
    streamer,    \* pAudioStreamer is set
    paused,      \* audio_paused
    buffer,      \* the RingBuffer, used without a resampler: [data, head, tail]
    sbuffer,     \* the switch_buffer behind the resampler
    callback,    \* stream_frame: "idle", "locking", or "reading" with the mutex held
    reads, sent_audio, saw_placeholder,  \* its locals
    kept,        \* units given to send_pcm_bytes() so far
    keptBefore,  \* history: those when the callback began to read
    chunk        \* the last chunk given to writeBinary()

vars == <<resampling, rtp_packets, silence, streamer, paused, buffer, sbuffer, callback,
          reads, sent_audio, saw_placeholder, kept, keptBefore, chunk>>

format == <<resampling, rtp_packets, silence>>
locals == <<reads, sent_audio, saw_placeholder>>
flow   == <<buffer, sbuffer, kept, chunk>>

AtMost(a, b) == IF a < b THEN a ELSE b

\* stream_data_init(): the power of two the ring is made of.
buflen  == Twenty * rtp_packets
AdjSize == Min({n \in {2 ^ k : k \in 0 .. buflen} : n >= buflen})

Init ==
    /\ resampling \in BOOLEAN /\ rtp_packets \in Packets /\ silence \in Silences
    /\ streamer = TRUE /\ paused = FALSE
    /\ buffer = [data |-> [i \in 0 .. AdjSize - 1 |-> 0], head |-> 0, tail |-> 0]
    /\ sbuffer = <<>>
    /\ callback = "idle" /\ reads = 0 /\ sent_audio = 0 /\ saw_placeholder = FALSE
    /\ kept = 0 /\ keptBefore = 0 /\ chunk = <<>>

-----------------------------------------------------------------------------
(* ringbuffer.c                                                            *)

sizeMask == AdjSize - 1

ringBufferLen(b) == IF b.tail >= b.head THEN b.tail - b.head
                                        ELSE sizeMask - (b.head - b.tail) + 1

RoomOfAllSlots(b) == AdjSize - ringBufferLen(b)   \* mutant: no slot is left free

ringBufferFreeSpace(b) == sizeMask - ringBufferLen(b)

ringBufferAppendMultiple(b, units) ==
    [b EXCEPT !.data = [i \in 0 .. sizeMask |->
                           LET d == ((i - b.tail) % AdjSize) + 1
                           IN  IF d <= Len(units) THEN units[d] ELSE b.data[i]],
              !.tail = (b.tail + Len(units)) % AdjSize]

ringBufferPeekMultiple(b, n) == [i \in 1 .. n |-> b.data[(b.head + i - 1) % AdjSize]]

ringBufferClear(b) == [b EXCEPT !.head = 0, !.tail = 0]

-----------------------------------------------------------------------------
(* send_pcm_bytes()                                                        *)

writeBinary(units) == chunk' = units

\* STREAM_BUFFER_SIZE is 20 ms: what comes goes on.
Pass(units) ==
    /\ ~resampling /\ rtp_packets = 1
    /\ writeBinary(units)
    /\ UNCHANGED <<buffer, sbuffer>>

\* Mutant: the remainder is copied from the start of the frame.
RemainderFromStart(units, fits) == SubSeq(units, 1, Len(units) - fits)

\* What the ring had no room for.
Remainder(units, fits) == SubSeq(units, fits + 1, Len(units))

\* The ring takes what it has room for.  Once it is full it is emptied, and what it
\* had no room for goes out behind.
Gather(units) ==
    LET fits   == AtMost(ringBufferFreeSpace(buffer), Len(units))
        filled == ringBufferAppendMultiple(buffer, SubSeq(units, 1, fits))
    IN  /\ ~resampling /\ rtp_packets > 1
        /\ IF ringBufferFreeSpace(filled) = 0
           THEN /\ writeBinary(ringBufferPeekMultiple(filled, ringBufferLen(filled))
                                  \o Remainder(units, fits))
                /\ buffer' = ringBufferClear(filled)
           ELSE buffer' = filled /\ UNCHANGED chunk
        /\ UNCHANGED sbuffer

\* switch_buffer_freespace(sbuffer) == 0, tested after the write.
Flushed(all) == Len(all) = buflen

OutputInBytes(n, room) == AtMost(room, n)   \* mutant: the room is not counted in samples

\* How much of n units speex gives back into the room there is: whole samples of all channels.
Output(n, room) == Sample * AtMost(room \div Sample, n \div Sample)

\* With a resampler its output is cut to the room in sbuffer, even if it only
\* passes through.
Resample(units) ==
    LET out == SubSeq(units, 1, Output(Len(units), buflen - Len(sbuffer)))
        all == sbuffer \o out
    IN  /\ resampling
        /\ IF out # <<>> /\ (rtp_packets = 1 \/ Flushed(all))
           THEN writeBinary(all) /\ sbuffer' = <<>>
           ELSE sbuffer' = all /\ UNCHANGED chunk
        /\ UNCHANGED buffer

\* The next n units.
send_pcm_bytes(n) ==
    LET units == [i \in 1 .. n |-> kept + i] IN
    /\ kept + n <= MaxUnits
    /\ kept' = kept + n
    /\ Pass(units) \/ Gather(units) \/ Resample(units)

-----------------------------------------------------------------------------
(* stream_frame()                                                          *)

FrameType == [datalen : Lengths, limit : Limits, silent : BOOLEAN]

\* Nothing to hear: a CNG frame, padding by 0xFF, or less than a sample
\* (pcm_is_bug_padding).
Placeholder(f) == f.silent \/ f.datalen < 2

ClampKeepsOddByte(f) ==   \* mutant: half a sample is kept
    Min({f.datalen, Twenty} \cup ({f.limit} \ {0}))

\* Whole samples, and never more than the frame holds, the codec's packet, or 20 ms.
clamp_pcm_bytes(f) ==
    Min({f.datalen - (f.datalen % 2), Twenty} \cup ({f.limit} \ {0}))

\* The checks before the mutex.
FrameComes ==
    /\ callback = "idle"
    /\ streamer /\ ~paused
    /\ callback' = "locking"
    /\ UNCHANGED <<format, streamer, paused, locals, flow, keptBefore>>

\* The mutex, and whether there is still a streamer.
Locked ==
    /\ callback = "locking"
    /\ callback' = IF streamer THEN "reading" ELSE "idle"
    /\ keptBefore' = kept
    /\ reads' = 0 /\ sent_audio' = 0 /\ saw_placeholder' = FALSE
    /\ UNCHANGED <<format, streamer, paused, flow>>

ReadAudio ==
    \E f \in FrameType :
        /\ callback = "reading" /\ reads < MaxReads
        /\ ~Placeholder(f)
        /\ reads' = reads + 1 /\ sent_audio' = sent_audio + 1
        /\ send_pcm_bytes(clamp_pcm_bytes(f))
        /\ UNCHANGED <<format, streamer, paused, callback, saw_placeholder, keptBefore>>

ReadPlaceholder ==
    \E f \in FrameType :
        /\ callback = "reading" /\ reads < MaxReads
        /\ Placeholder(f)
        /\ reads' = reads + 1 /\ saw_placeholder' = TRUE
        /\ UNCHANGED <<format, streamer, paused, callback, sent_audio, flow, keptBefore>>

emit_clock_silence == send_pcm_bytes(silence)

\* The bug has no more, or eight frames were read: silence if there were only
\* placeholders, then the unlock.
FrameEnds ==
    /\ callback = "reading"
    /\ callback' = "idle"
    /\ IF sent_audio = 0 /\ saw_placeholder
       THEN emit_clock_silence
       ELSE UNCHANGED flow
    /\ UNCHANGED <<format, streamer, paused, locals, keptBefore>>

-----------------------------------------------------------------------------
(* API threads.                                                            *)

\* stream_session_pauseresume(), without the mutex.
PauseResume ==
    /\ streamer
    /\ paused' = ~paused
    /\ UNCHANGED <<format, streamer, callback, locals, flow, keptBefore>>

\* finish(), under the mutex: what was gathered stays where it is.
Finish ==
    /\ streamer /\ callback # "reading"
    /\ streamer' = FALSE
    /\ UNCHANGED <<format, paused, callback, locals, flow, keptBefore>>

Next == FrameComes \/ Locked \/ ReadAudio \/ ReadPlaceholder \/ FrameEnds
        \/ PauseResume \/ Finish

Spec == Init /\ [][Next]_vars

-----------------------------------------------------------------------------
\* Every variable has its type; the ring begins anew after every chunk, so that neither
\* of its copies is ever split (ringBufferClear).
TypeOK ==
    /\ resampling \in BOOLEAN /\ rtp_packets \in Packets /\ silence \in Silences
    /\ streamer \in BOOLEAN /\ paused \in BOOLEAN
    /\ buffer \in [data : [0 .. sizeMask -> 0 .. MaxUnits], head : {0},
                   tail : 0 .. sizeMask]
    /\ sbuffer \in Seq(1 .. MaxUnits) /\ chunk \in Seq(1 .. MaxUnits)
    /\ callback \in {"idle", "locking", "reading"}
    /\ reads \in 0 .. MaxReads /\ sent_audio \in 0 .. reads /\ saw_placeholder \in BOOLEAN
    /\ kept \in 0 .. MaxUnits /\ keptBefore \in 0 .. kept

sent == IF chunk = <<>> THEN 0 ELSE Last(chunk)

\* Without a resampler no audio is lost or doubled: the ring has exactly what came
\* after the last chunk, in order (send_pcm_bytes with its remainder).
NothingLost ==
    /\ TypeOK
    /\ ~resampling => ringBufferPeekMultiple(buffer, ringBufferLen(buffer))
                          = [i \in 1 .. kept - sent |-> sent + i]

\* There is room again after every frame, for a whole sample of all channels: a ring
\* or an sbuffer that stayed full, or never came out even, would refuse all that comes
\* ("if (!out_len) return").  And a callback that read anything moves the stream's clock,
\* if only by silence, so that a greeting does not come early (stream_frame, "SFF_CNG";
\* frames shorter than a sample are placeholders too).
NeverStuck ==
    /\ ringBufferFreeSpace(buffer) > 0 /\ buflen - Len(sbuffer) >= Sample
    /\ callback = "idle" /\ reads > 0 => kept > keptBefore

\* A chunk is what fills the buffer it was gathered in.  With a resampler that is what
\* STREAM_BUFFER_SIZE asks for.  Without, it is the ring, the power of two that is no less
\* than that, with what it had no room for behind: not what was asked for, as README.md:54-55
\* has it, but up to twice as much and a frame (140 ms for 100 ms at 8 kHz).
ChunkFillsBuffer ==
    chunk # <<>> /\ rtp_packets > 1 =>
        IF resampling THEN Len(chunk) = buflen
        ELSE Len(chunk) >= AdjSize /\ Len(chunk) <= AdjSize + Twenty - 2

\* Chunks follow one another and hold whole samples: the ring has an odd capacity,
\* so a sample may be split between it and the remainder, never between chunks.
ChunksFollow ==
    [][chunk' # chunk =>
         /\ chunk'[1] % 2 = 1 /\ Last(chunk') % 2 = 0
         /\ IF resampling
            THEN chunk'[1] > sent /\ \A i \in 2 .. Len(chunk') : chunk'[i] > chunk'[i - 1]
            ELSE chunk' = [i \in 1 .. Len(chunk') |-> sent + i]]_vars

=============================================================================
