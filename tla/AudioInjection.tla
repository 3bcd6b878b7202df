--------------------------- MODULE AudioInjection ---------------------------
(***************************************************************************)
(* Audio that the server sends back into the call: the injection functions *)
(* of audio_streamer_glue.cpp and the WRITE callback of mod_audio_stream.c.*)
(* The event thread converts a message and queues it in inject_buffer, the *)
(* media thread replaces outgoing frames with what is queued, API threads  *)
(* switch injection on and off, and a teardown destroys the resampler.     *)
(*                                                                         *)
(* Bytes are numbered in the order in which they are queued, and each      *)
(* knows whether it is the first or the second of its sample.  Rates are   *)
(* in units of 8 kHz.  switch_buffer and the resampler are FreeSWITCH's    *)
(* and speex's: a resampler turns n samples into n * out / in.             *)
(***************************************************************************)
EXTENDS Integers, Sequences, G711

CONSTANTS
    Messages,    \* streamAudio messages: [rate, channels, len]
    Rates,       \* rates of the call's write codec
    Sampling,    \* rate of the stream: desiredSampling
    Capacity,    \* of inject_buffer, in bytes
    FrameBytes,  \* of 16-bit audio in an outgoing frame
    MaxMessages, \* bound of the model: messages of a behaviour
    MaxChanges   \* bound of the model: codec changes and enable/disable commands

ASSUME InjectionAssumption ==
    /\ \A m \in Messages : m.rate \in Nat \ {0} /\ m.channels \in Nat \ {0} /\ m.len \in Nat \ {0}
    /\ Rates \subseteq Nat \ {0} /\ Sampling \in Nat \ {0}
    /\ Capacity \in Nat \ {0} /\ Capacity % 2 = 0
    /\ FrameBytes \in Nat \ {0} /\ FrameBytes % 2 = 0
    /\ MaxMessages \in Nat /\ MaxChanges \in Nat

VARIABLES
    writes,       \* the bug's flags have SMBF_WRITE_STREAM: every mode but mono
    private,      \* the bug is the channel's private MY_BUG_NAME
    torn,         \* destroy_tech_pvt() has destroyed inject_resampler
    inject_audio_enabled,
    codec,        \* write codec: its name and rate, and how many were before it
    inject_resampler,
    inject_sample_rate,
    inject_buffer,
    pc,           \* how far the event thread is with its message
    msg,          \* the message, and the rate it is converted to
    input_len,    \* bytes of it after the conversion
    frame,        \* what the last outgoing frame was replaced with
    accepted,     \* history: bytes offered to the buffer
    dropped,      \* history: bytes that never entered it or were pushed out
    wasted,       \* history: bytes taken from it and not played
    heard,        \* history: bytes played
    last,         \* history: whether the last message came out at the codec's rate
    overtaken,    \* history: the teardown began while a message was being converted
    odd,          \* history: a message of odd length was queued as it came
    messages, changes

event    == <<pc, msg, input_len>>
queue    == <<inject_buffer, frame, accepted, dropped, wasted, heard>>
resample == <<inject_resampler, inject_sample_rate, last>>
stream   == <<writes, private, torn, overtaken>>
vars == <<stream, inject_audio_enabled, codec, resample, queue, event, odd, messages, changes>>

None == [in |-> 0, out |-> 0, since |-> 0]
Name == {"PCMU", "PCMA", "L16"}

Init ==
    /\ writes \in BOOLEAN /\ private = TRUE /\ torn = FALSE /\ overtaken = FALSE
    /\ inject_audio_enabled = FALSE
    /\ codec \in [name : Name, rate : Rates, n : {0}]
    /\ inject_resampler = None
    /\ inject_sample_rate = Sampling
    /\ inject_buffer = <<>> /\ frame = <<>>
    /\ accepted = 0 /\ dropped = 0 /\ wasted = 0 /\ heard = 0
    /\ last = [right |-> TRUE, fresh |-> TRUE]
    /\ pc = "idle" /\ msg \in [rate : {0}, channels : {0}, len : {0}, to : {0}]
    /\ input_len = 0
    /\ odd = FALSE /\ messages = 0 /\ changes = 0

-----------------------------------------------------------------------------
(* The event thread: processMessage() and inject_audio_data().             *)

Published == private /\ inject_audio_enabled

FindUnpublished(m) ==   \* mutant: the bug is not looked up again for every message
    /\ pc = "idle" /\ messages < MaxMessages
    /\ inject_audio_enabled
    /\ messages' = messages + 1
    /\ pc' = "convert"
    /\ msg' = [rate |-> m.rate, channels |-> m.channels, len |-> m.len, to |-> 0]
    /\ UNCHANGED <<stream, inject_audio_enabled, codec, resample, queue, input_len, odd, changes>>

\* The message finds the bug, and injection enabled; otherwise it is only an event.
Find(m) ==
    /\ pc = "idle" /\ messages < MaxMessages
    /\ Published
    /\ messages' = messages + 1
    /\ pc' = "convert"
    /\ msg' = [rate |-> m.rate, channels |-> m.channels, len |-> m.len, to |-> 0]
    /\ UNCHANGED <<stream, inject_audio_enabled, codec, resample, queue, input_len, odd, changes>>

\* Several channels are averaged; what is left of an incomplete frame is cut off.
MonoBytes == IF msg.channels > 1 THEN 2 * (msg.len \div (2 * msg.channels)) ELSE msg.len

\* At the codec's rate already.
NoResampling ==
    /\ pc = "convert" /\ msg.rate = codec.rate
    /\ input_len' = MonoBytes
    /\ odd' = (odd \/ MonoBytes % 2 = 1)
    /\ last' = [right |-> TRUE, fresh |-> TRUE]
    /\ pc' = "queue"
    /\ UNCHANGED <<stream, inject_audio_enabled, codec, inject_resampler, inject_sample_rate,
                   queue, msg, messages, changes>>

FitsAny == inject_resampler # None   \* mutant: any resampler will do
Fits == inject_resampler # None /\ inject_sample_rate = msg.rate

KeepResampler ==
    /\ pc = "convert" /\ msg.rate # codec.rate /\ Fits
    /\ input_len' = MonoBytes
    /\ msg' = [msg EXCEPT !.to = codec.rate]
    /\ pc' = "resample"
    /\ UNCHANGED <<stream, inject_audio_enabled, codec, resample, queue, odd, messages, changes>>

\* The old one is destroyed before the new one is made, which may fail.
NewResampler ==
    /\ pc = "convert" /\ msg.rate # codec.rate /\ ~Fits
    /\ \/ /\ inject_resampler' = [in |-> msg.rate, out |-> codec.rate, since |-> codec.n]
          /\ inject_sample_rate' = msg.rate
          /\ input_len' = MonoBytes
          /\ msg' = [msg EXCEPT !.to = codec.rate]
          /\ pc' = "resample"
       \/ /\ inject_resampler' = None
          /\ pc' = "idle"
          /\ UNCHANGED <<inject_sample_rate, input_len, msg>>
    /\ UNCHANGED <<stream, inject_audio_enabled, codec, last, queue, odd, messages, changes>>

\* speex_resampler_process_int(), whose room is what the two rates call for and 16 more.
Room == (((input_len \div 2) * msg.to) \div msg.rate) + 16
Produced == ((input_len \div 2) * inject_resampler.out) \div inject_resampler.in

Resample ==
    /\ pc = "resample"
    /\ IF inject_resampler = None
       THEN pc' = "undefined" /\ UNCHANGED <<input_len, last>>
       ELSE /\ input_len' = 2 * (IF Produced < Room THEN Produced ELSE Room)
            /\ last' = [right |-> msg.rate * inject_resampler.out = msg.to * inject_resampler.in,
                        fresh |-> inject_resampler.since = codec.n]
            /\ pc' = "queue"
    /\ UNCHANGED <<stream, inject_audio_enabled, codec, inject_resampler, inject_sample_rate,
                   queue, msg, odd, messages, changes>>

\* Under inject_mutex.  Of a message that is longer than the buffer the end is kept.
Bytes == [k \in 1 .. input_len |-> [n |-> accepted + k, first |-> k % 2 = 1]]
WriteLen == IF input_len > Capacity THEN Capacity ELSE input_len
Newest == SubSeq(Bytes, input_len - WriteLen + 1, input_len)
FreeBytes == Capacity - Len(inject_buffer)

ToDropOneLess == IF WriteLen > FreeBytes + 1 THEN WriteLen - FreeBytes - 1 ELSE 0   \* mutant
ToDrop == IF WriteLen > FreeBytes THEN WriteLen - FreeBytes ELSE 0

\* The oldest bytes make room for the new ones.
Queue ==
    /\ pc = "queue"
    /\ inject_buffer' = SubSeq(inject_buffer, ToDrop + 1, Len(inject_buffer)) \o Newest
    /\ accepted' = accepted + input_len
    /\ dropped' = dropped + ToDrop + (input_len - WriteLen)
    /\ pc' = "idle"
    /\ UNCHANGED <<stream, inject_audio_enabled, codec, resample, frame, wasted, heard, msg,
                   input_len, odd, messages, changes>>

-----------------------------------------------------------------------------
(* The media thread: SWITCH_ABC_TYPE_WRITE and process_injected_audio().   *)

ToReadWhole == IF Len(inject_buffer) < FrameBytes THEN 0 ELSE FrameBytes   \* mutant: waits for a frame
ToReadShort == IF Len(inject_buffer) <= FrameBytes THEN Len(inject_buffer) ELSE FrameBytes - 1   \* mutant
ToRead == IF Len(inject_buffer) <= FrameBytes THEN Len(inject_buffer) ELSE FrameBytes

\* A G.711 frame is encoded from whole samples, and half a sample at the end is lost; any
\* other frame is filled byte by byte, and with zeros after that.
Playable == IF codec.name = "L16" THEN ToRead ELSE 2 * (ToRead \div 2)

Play ==
    /\ writes /\ Published /\ inject_buffer # <<>>
    /\ frame' = SubSeq(inject_buffer, 1, Playable)
    /\ inject_buffer' = SubSeq(inject_buffer, ToRead + 1, Len(inject_buffer))
    /\ heard' = heard + Playable
    /\ wasted' = wasted + (ToRead - Playable)
    /\ UNCHANGED <<stream, inject_audio_enabled, codec, resample, accepted, dropped, event,
                   odd, messages, changes>>

-----------------------------------------------------------------------------
(* Other threads.                                                          *)

\* enable_audio_injection(): what is queued stays queued.
Enable(on) ==
    /\ private /\ changes < MaxChanges
    /\ inject_audio_enabled' = on
    /\ changes' = changes + 1
    /\ UNCHANGED <<stream, codec, resample, queue, event, odd, messages>>

\* The call negotiates another write codec.
Renegotiate(name, rate) ==
    /\ changes < MaxChanges
    /\ codec' = [name |-> name, rate |-> rate, n |-> codec.n + 1]
    /\ changes' = changes + 1
    /\ UNCHANGED <<stream, inject_audio_enabled, resample, queue, event, odd, messages>>

\* media_bug_close() and stream_session_cleanup() ...
Unpublish ==
    /\ private
    /\ private' = FALSE
    /\ overtaken' = (pc # "idle")
    /\ UNCHANGED <<writes, torn, inject_audio_enabled, codec, resample, queue, event, odd,
                   messages, changes>>

\* ... and destroy_tech_pvt(), which asks nobody whether the resampler is in use.
Destroy ==
    /\ ~private /\ ~torn
    /\ torn' = TRUE
    /\ inject_resampler' = None
    /\ UNCHANGED <<writes, private, overtaken, inject_audio_enabled, codec, inject_sample_rate,
                   last, queue, event, odd, messages, changes>>

Next ==
    \/ \E m \in Messages : Find(m)
    \/ NoResampling \/ KeepResampler \/ NewResampler \/ Resample \/ Queue
    \/ Play
    \/ \E on \in BOOLEAN : Enable(on)
    \/ \E name \in Name, rate \in Rates : Renegotiate(name, rate)
    \/ Unpublish \/ Destroy

\* Outgoing frames keep coming.
Fairness == WF_vars(Play)

Spec == Init /\ [][Next]_vars /\ Fairness

-----------------------------------------------------------------------------
(* Properties.                                                             *)

\* Every variable has its type; the buffer never holds more than its size.
TypeOK ==
    /\ writes \in BOOLEAN /\ private \in BOOLEAN /\ torn \in BOOLEAN /\ overtaken \in BOOLEAN
    /\ inject_audio_enabled \in BOOLEAN
    /\ codec \in [name : Name, rate : Rates, n : 0 .. MaxChanges]
    /\ inject_resampler.since \in 0 .. MaxChanges
    /\ inject_sample_rate \in {Sampling} \cup {m.rate : m \in Messages}
    /\ inject_buffer \in Seq([n : 1 .. accepted, first : BOOLEAN])
    /\ Len(inject_buffer) <= Capacity
    /\ frame \in Seq([n : 1 .. accepted, first : BOOLEAN]) /\ Len(frame) <= FrameBytes
    /\ pc \in {"idle", "convert", "resample", "queue", "undefined"}
    /\ odd \in BOOLEAN /\ messages \in 0 .. MaxMessages /\ changes \in 0 .. MaxChanges

\* Room is always made: the buffer holds the newest audio without a hole, and a frame
\* plays consecutive bytes that are older than all that is queued.
InOrder ==
    /\ \A i \in 1 .. Len(inject_buffer) : inject_buffer[i].n = accepted - Len(inject_buffer) + i
    /\ \A i \in 1 .. Len(frame) : frame[i].n = frame[1].n + i - 1
    /\ frame # <<>> /\ inject_buffer # <<>> => frame[Len(frame)].n < inject_buffer[1].n

\* Every byte is queued, played, or one of those that were given up; and no more is given
\* up than the room asks for.
DropsForRoom ==
    /\ accepted' = Len(inject_buffer') + dropped' + wasted' + heard'
    /\ dropped' # dropped => Len(inject_buffer') = Capacity

\* What the server sends is kept in its order, as much of it as the buffer holds, and
\* only the oldest of it is given up, however messages, frames and switches interleave.
NewestKept == [](TypeOK /\ InOrder) /\ [][DropsForRoom]_vars

\* As long as every message has whole samples, every sample is played whole.
WholeSamples ==
    ~odd => \A i \in 1 .. Len(frame) : frame[i].first = (i % 2 = 1)

\* A message comes out at the rate the codec had when it was converted, unless the codec
\* changed under a resampler that was kept.
RightRate == last.right \/ ~last.fresh

\* A teardown that no message was under way at leaves no resampler behind and takes none
\* away from under a conversion.
TeardownClean ==
    ~overtaken => pc # "undefined" /\ (torn => inject_resampler = None)

\* Samples reach the telephone within half a step of their code, except those that G.711
\* coding here gets wrong: loud ones that wrap with the bias of PCMU, and with PCMA all
\* that are not in its lowest segments.
UlawRight == \A s \in MisheardUlaw : s < -32635 \/ s > 32635
AlawRight == \A s \in MisheardAlaw : s < -256 \/ s > 255

QuietSamplesAreRight ==
    /\ codec.name = "PCMU" => UlawRight
    /\ codec.name = "PCMA" => AlawRight

\* What is queued is played to the end, when the server falls silent, unless injection is
\* switched off or the stream ends; but only if the bug has a write stream, which one that
\* was started in mono mode has not.
QueuedIsHeard == []<>(writes /\ Published => inject_buffer = <<>>)
=============================================================================
