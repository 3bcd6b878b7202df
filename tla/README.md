# mod_audio_stream in TLA+

A model of mod_audio_stream, the FreeSWITCH module that forks a call's audio to a websocket,
and of libwsc, the websocket client it embeds: what its threads do to each other, what TLC
finds on small instances, and what TLAPS proves for all. Paths below are relative to `src/`;
`glue` is `audio_streamer_glue.cpp` and `wsc` is `libs/libwsc/libwsc/WebSocketClient.cpp`.

## The system

| part | state | operations | talks to |
|---|---|---|---|
| API (`mod_audio_stream.c`) | the channel's private `MY_BUG_NAME` | start, stop, send_text, pause, resume, injection on and off | stream lifecycle |
| stream lifecycle (`glue` 331-433, 837-1048, 1293-1428, 1697-1775) | `private_t`: mutex, `close_requested`, `pAudioStreamer` | `stream_session_init`, `stream_session_cleanup`, `media_bug_close`, `finish`, `destroy_tech_pvt` | FreeSWITCH's media bugs, `AudioStreamer` |
| channel registry (`glue` 43-76, 1050-1170) | `g_active_channels`, `g_active_sessions`, `g_channel_mutex` | check the limit, reserve, give back, register, unregister | lifecycle |
| capture path (`glue` 1430-1695, `buffer/ringbuffer.c`) | `buffer`, `sbuffer`, resampler | `stream_frame`, `send_pcm_bytes` | send ring |
| send ring (`glue` 561-801) | ring, counters, `m_connected`, `m_audio_ready`, `m_send_stop` | `writeBinary`, `senderLoop`, `flushPendingAudio`, `stopSender` | libwsc |
| injection (`glue` 78-160, 1777-2029) | `inject_buffer`, `inject_resampler`, `inject_audio_enabled` | `inject_audio_data`, `process_injected_audio`, `enable_audio_injection` | incoming messages, media thread |
| incoming messages (`glue` 391-544) | temporary files | `eventCallback`, `processMessage` | lifecycle, injection |
| libwsc connection (`wsc` 17-650, 1283-1581) | `connection_state`, event base, bufferevent, event thread, send queue | connect, disconnect, sendData, callbacks | libevent |
| libwsc frames (`wsc` 650-930) | deflate stream, input buffer | `send`, the loop of `receive` | connection |
| libwsc messages (`wsc` 930-1278, `Utf8Validator.cpp`) | fragments, validator, inflate stream | the frame handlers of `receive` | frames, user callbacks |

The threads of a call: API threads; the media thread, which runs the bug's callbacks and
enqueues audio; a sender thread per stream; libwsc's event thread per stream, which also
queues injected audio; the session thread that hangs up; a detached thread per stream in
which `finish()` disconnects and deletes; and a helper thread when libwsc is disconnected
from its own event thread.

What is hard: a stream can be torn down by a stop, a hangup, a pruned bug and a websocket
error at once, and closing a bug calls back into the teardown; audio is written, trimmed and
sent by threads that share a ring and three atomics, while the link opens and drops; a
counter and a set that are to agree are changed at different moments; disconnect may come
before, during and after every event of the connection; the state of one message must not
leak into the next. `PROJECT.json` lists these hazards at their lines.

What makes each part correct:

* send ring: audio leaves in order, once, after the metadata; only the oldest is dropped,
  and all that is dropped is counted; stop returns; audio moves.
* capture path: what is kept reaches the ring once, in order, in whole samples, in chunks
  that fill their buffer; the clock goes on through silence; nothing after a stop.
* lifecycle: each stream is torn down exactly once and completely, whoever begins; frames
  reach live streamers only; a running stream can be stopped.
* registry: every slot is given back once; the limit holds; a running stream is registered;
  a start is refused only for a reason.
* injection: the newest audio is kept and played in order, whole and at the right rate; the
  resampler is not used after it is gone, nor left behind.
* connection: resources are freed only after the loop; a disconnect ends and leaves nothing
  behind; one close frame; packets in their sender's order.
* frames: what was written is what is read, whatever the pieces it arrives in.
* messages: callbacks get exactly the messages the frames spell; text is valid; a correct
  peer is never closed on.

## Modules

| module | models |
|---|---|
| `PcmQueue` | what the send ring promises: the abstract queue |
| `SendRing` | ring, sender thread, event thread's flags, metadata, stop; implements `PcmQueue` |
| `SendRing_proofs` | the theorems about `SendRing` |
| `CapturePath` | frames of the bug to chunks for the ring |
| `CapturePath_proofs` | the theorems about `CapturePath` |
| `StreamTeardown` | what the ways to end a stream promise together: the abstract teardown |
| `StreamLifecycle`, `MCStreamLifecycle` | start and teardown of streams of one call; implements `StreamTeardown` |
| `StreamLifecycle_proofs` | the theorems about `StreamLifecycle` |
| `ChannelRegistry`, `MCChannelRegistry` | counter and set of sessions, over several calls |
| `ChannelRegistry_proofs` | the theorems about `ChannelRegistry` |
| `G711` | the two companding functions, over all samples |
| `AudioInjection`, `MCAudioInjection` | injected audio from a message to the outgoing frame |
| `AudioInjection_proofs` | the theorems about `AudioInjection` |
| `WscClient` | one connection of `WebSocketClient` |
| `WscClient_proofs` | the theorems about `WscClient` |
| `WscFrames` | frames written, cut into pieces and found again |
| `WscFrames_proofs` | the theorems about `WscFrames` |
| `WscReceive` | frames to messages on an upgraded connection |
| `Utf8Validator` | the validator, byte by byte, beside the grammar of RFC 3629 |
| `WscMessages_proofs` | the theorems about `WscReceive` and `Utf8Validator` |

`map` in `PROJECT.json` gives the lines of every definition. A mutant is defined before the
definition it changes and is marked as one, or named for what it does wrong; no
specification uses it. `TypeOK` is a conjunct of one property of its module's run rather
than an invariant of its own; it is proved of every module, as a theorem or as a part of the
inductive invariant. `WscReceive` says `ReceiveInit`, `ReceiveSpec` and `ReceiveTypeOK`,
because its proofs are beside those of `Utf8Validator`.

### SendRing and PcmQueue

A unit of audio is its number in the captured stream, and the slots of the ring hold such
numbers. `WriteBinary` is all of `writeBinary` and `enqueuePcm`: clip, overflow loop (one
pass always makes enough room, lemma `MakeRoomIsEnough`), the wrapping copy, and the trim to
the backlog limit, which depends on `m_audio_ready`. The sender's steps are those between
which its lock is released: wait (with its timeout), check, copy out, send, and what it does
when the send fails. The event thread sets `m_connected`, announces, and only then releases
the audio; an error or a close clears the flags one after the other, as does the thread of
`finish()`, which then stops the sender and joins it. `m_send_stop`, `m_connected` and
`m_audio_ready` are separate steps because they are atomics outside the lock.

The metadata is found through the channel's private, which a start stores (`SetPrivate`)
while the websocket is connecting already, and a teardown clears (`ClearPrivate`) before it
does anything else; from the hangup on (`HangUp`) the session is not found. `Announcement`
says what becomes of it. The code releases the audio all the same, so that an answer which
comes before line 183 of `mod_audio_stream.c` starts a stream of audio without metadata,
against glue 249 and README.md:80 ("sent the first before audio streaming starts").
`AudioAfterMetadata` names this case (`early`) and that of a stream that ends (`late`) as
the only ones; with empty metadata nothing is missing.

`ImplementsQueue` maps the ring to the sequence of its units, oldest first. `PcmQueue` says
that the queue is the most recent units and that batches are taken from its old end. A write
that is longer than the ring is clipped to one unit less than fits: its beginning is lost
and counted nowhere (`clipped` in `DropsAccounted`), and the one older unit that stays
before it makes a hole (`RingHoldsRecent`, `Accept`). `start_capture` accepts every multiple
of 8000 as a rate, so that 1000 ms of 48 kHz stereo can do that. The limits are constants,
so one module covers all formats; `SendRing.cfg` takes the tightest (16 kHz stereo) in units
of 51 200 bytes, and a write of six of them for the clip. A unit is no byte: that the clip
keeps an odd number of bytes, and shifts the samples by one, is not seen here.

What the sender copied and could not send is lost (`SenderSend` with the link down). The
code has no retry, and no property asks for one.

### CapturePath

What the media thread does before `writeBinary`. A callback reads up to eight frames with
the mutex held; a frame is cut to whole samples, to what its fields say, and to 20 ms, and
its units get the next numbers. A unit is a byte that has been scaled: `Sample` of them make
a sample of all channels, `Twenty` make 20 ms. `Pass`, `Gather` and `Resample` are the three
ways through `send_pcm_bytes`; `buffer` has the fields of `RingBuffer` and the operations of
`ringbuffer.c` that are used. `close_requested` is not a variable: it is set under the mutex
together with the streamer's removal, so that the test of it in the loop, with the mutex
held, never finds it set first. `pause` comes at any time and is seen by the next callback.

Speex is external: it fills the room it is given, divided down to whole samples of all
channels (`Output`, glue 1468-1492), and what does not fit is forgotten with the rest of the
frame. That is why `NothingLost` speaks of streams without a resampler. It
is also why a stop leaves what is in `buffer` or `sbuffer` unsent: the code has no flush,
and `Finish` has none. Two things are seen here that the documentation says otherwise:
STREAM_BUFFER_SIZE is "a duration of audio chunk sent to websocket" (README.md:54-55), but
without a resampler a chunk is as long as the first whole frame that fills a power of two,
140 ms when 100 are asked for at 8 kHz, and up to twice as long and a frame; and the sender
cuts chunks into frames of 20 ms anyway. `ChunkFillsBuffer` states what the code gives, not
what is promised there.

### StreamLifecycle and StreamTeardown

A generation `g` stands for a stream: its `private_t`, bug, mutex and streamer. Threads have
call stacks, because closing a bug runs `SWITCH_ABC_TYPE_CLOSE`, and with it
`stream_session_cleanup`, in the middle of the call that closed it. Each label of a stack is
a place in the code, each action a step between two points where another thread can see a
difference.

Relied on from FreeSWITCH (external): `switch_core_media_bug_remove` waits for the bugs'
lock and runs the CLOSE callback in the caller; `..._close` does so without waiting; a
callback that returns FALSE has its bug pruned after the loop; a hangup closes all bugs and
ends `switch_core_session_locate`. A locked mutex that is destroyed is `Dead`; locking a
null one crashes.

The private is set and cleared in steps of its own, by whoever read it before. `strayed`
remembers that a start replaced the private of another stream (both had found none) or that
a teardown cleared the private of a newer one; until then `CanBeStopped` says that an
attached bug is the channel's private, or that a thread is on its way to make it so or to
tear it down.

`StreamTeardown` is the same without threads, calls, bugs and locks: a stream is off, on,
claimed or gone; its streamer is none, running, finishing or deleted; it has its slot or
not, and audio is being written to it or not. It says in which order these change, and that
a stream is not claimed under a frame. `State` and `Writing` are the refinement mapping:
gone is a `Dead` mutex, claimed is `close_requested`, off is to have no streamer yet, and
writing is to be the stream whose frame the media thread has at `write`. `Open`, `Claim`,
`Unhook`, `Release`, `Delete`, `BeginWrite` and `EndWrite` are what it sees of `Create`,
`Claim`, `Finish`, `Wipe`, `Delete`, `FrameStarts` and `FrameWrites`; all other steps are
invisible. A pause undoes a claim, so that this too is about calls without one. `Release`
after `Unhook` shows what nobody wrote down: `finish()` always runs before
`destroy_tech_pvt()`, which deletes no streamer itself although it could.

`pause` reads the word with both flags and writes it back: `LoadFlags`, `StoreFlags`. Not in
it: what a pause does to frames (`CapturePath` has that), the limit check and the set of
sessions (`ChannelRegistry`), injection (`AudioInjection`), the retries for the codec in
`start_capture`. Commands and error callbacks are bounded by `MaxCommands` and `MaxErrors`,
streams by `MaxGen`.

### ChannelRegistry

The counter and the set, and of a stream only where it is: each exit of
`stream_session_init` and each end of a stream changes one of them or both, at different
moments. `Start` is the check that finds the counter below the limit or goes on to the
self-healing; `Mismatch` and `Reload` are its two halves, between which only the counter can
change, since the lock is held; `Throw` is the exception the constructor catches; `Orphan`
is the failed `switch_core_media_bug_add` (`mod_audio_stream.c` 178-181), whose cleanup
finds no private, so that the slot is never given back and the call stays registered;
`DestroyAgain` is a second teardown of the stream, which a pause makes possible (see
`lifecycle_pause`) and which gives its slot back again. Counting is modulo `Modulus`, and a
decrement of zero wraps, as it does in the code.

The self-healing repairs a counter that is too high, and makes one that is too low: a stream
that holds a slot and is not registered yet is not counted. `healed` marks that it ran.
Before, the counter is the number of streams that hold a slot, but for the two errors just
named: `CounterIsSlots` counts the leaked slots (`Leaked`) and those given back twice
(`Doubled`) and says that every other way out gives back exactly one. The limit is exceeded
by fewer streams than there are threads, and by those given back twice (`OvershootBounded`);
after, `RefusedAtLimit` still says that nobody
is refused for nothing, with one exception that the proof brought to light: a slot given
back between the two halves can wrap the new value. `finish()` and `~AudioStreamer` both
erase by uuid: the second, which comes later, may erase the registration of a stream that
was started in between, although glue 1019-1020 says that erasing at once prevents that;
`RegisteredUnlessErased` names that case and the caught exception as the only ones.

`emergency_cleanup_sessions` and `sync_channel_counters` are called by nobody.

### AudioInjection and G711

The event thread's message goes through the steps between which it holds no lock: it finds
the bug, is mixed down, keeps or replaces the resampler, is resampled, and is queued under
`inject_mutex`. `Play` is the WRITE callback; commands, a change of the write codec and a
teardown come at any time. Bytes are numbered and know which half of a sample they are.

What TLC shows to be so, and the properties name: when only the codec's rate changes, the
resampler of the old one is kept (`RightRate`); a teardown may destroy the resampler under a
conversion, and a conversion that found the stream may leave one behind (`TeardownClean`
holds when no message was under way); a message of odd length shifts every sample after it
(`WholeSamples`); what is queued when injection is switched off is played when it is
switched on again; a bug added in mono mode has no write stream, so that what the server
sends is queued and never played (`QueuedIsHeard`), which README.md:105 does not say.

`G711` is the two functions as they are written, and what a receiver makes of a code by
ITU-T G.711, in signs, segments and mantissas. `QuietSamplesAreRight` compares them for all
65 536 samples. PCMU is right up to 32 635, and above wraps in 16 bits. With PCMA the
segment table starts one segment late, and what is louder than -256 .. 255 comes out at half
its level or less.

### WscClient

There are two kinds of owner. `AudioStreamer` connects twice and disconnects only as the
owner; the user of libwsc's own example (`libs/libwsc/README.md:86-90`) connects once, and
disconnects in the error callback, on the event thread, where a helper thread joins, and at
the end as well (line 109), so that both may be under way at once. Either destroys the
client, which disconnects again. Events come in every order libevent allows, each at most
once. Between the load of a state and the use of it other threads run: `disconnect()` has
six steps, `sendData()` two, and the handshake and the error handler call back before they
store the new state. The bufferevent's lock is held in the callbacks, because it is created
without `BEV_OPT_UNLOCK_CALLBACKS`, and a closing owner has to wait for it.

`late` holds the packets whose senders saw CONNECTING and came to the queue after it was
flushed: they stay there for good, although `libs/libwsc/README.md:96-97` says that what is
sent before the connection is open is flushed. `FlushedUnlessLate` says that no others do.

`connect()` starts the event thread (`StartThread`) and stores the pointer to it afterwards
(`AssignThread`, wsc 216). A callback that disconnects in between finds no pointer, takes
itself for another thread, and frees the base under its own loop (`DeferMissed`). `early`
remembers it: `FreedAfterLoop` and `DisconnectEnds` except such a callback, and no other.
What happens if the pointer is stored while that callback works, a join of itself or the
deletion of a thread that runs, ends the process and the behaviour; so do two joins at once.

`DestroyedUnlessEof` has three exceptions, which are three ways for a destroyed client to
leave its loop or its helper behind: EOF stores DISCONNECTED, which `disconnect()` takes for
its own work; DISCONNECTING makes it return while a callback's disconnect is still under
way; and a callback that came too early leaves nothing to join.

Relied on from libevent (external): `event_base_dispatch` runs until `event_base_loopexit`,
since the name server's events persist; callbacks that are pending at the exit may still
run. Merged: the load of the state in `sendData(CLOSE)` with its lock; `m_bev`, state and
`upgraded` in one read. The two-second wait for the peer's close frame may end at any time.
A write to a bufferevent that was freed is a step without effect: what the process does is
undefined, and no property counts on it. Not in it: the ping timer, TLS, the text of the
handshake, a new connection after a disconnect.

### WscFrames

`send()` writes, compressed, plain, or plain because the compression or the new deflate
stream failed; another peer writes without a mask and with lengths that are longer than they
have to be, or illegal. Bytes arrive one by one, `receive()` may run after any of them, and
one `HandleFrame` is one turn of its loop. The limits 125 and 65 535 and the width of
`size_t` are constants, so that the interesting lengths are next to each other. A length
with its top bit set makes the sum of header and payload wrap, and a frame that has not
arrived counts as complete; `UndefinedOnlyIfIllegal` says that nothing else does.

### WscReceive

A frame carries one byte, reduced to its role in UTF-8: a character, the lead of one of two,
three or four bytes, a tail where it may come, or a byte that may not; the byte of a
compressed message stands for what it inflates to, and `corrupt` does not inflate. Each
action is one branch of `receive()`'s handlers, with the error returns that keep the
fragments and those that do not drain the buffer (`stuck`). Events after the client's own
close frame are still processed, as in the code, but the run does not look at them
(`Talking`): no property says anything of what follows a close, and what was not well-formed
does not become so. `flagE0` is the validator's flag `seenE0`, which `reset()` leaves set
and which then refuses the third byte of some characters of four. The reference reads the
data frames as a whole, without the handlers' state: `Message(i, j)` says that frames `i` to
`j` are one message, `Ended(j)` how many end with frame `j` or before, `TextBut(s, n)` that
`s` is text of which `n` bytes are still to come, and `WellFormed` what a peer may send.
`TextIsValid` leaves out the text of a compressed message in fragments: it is inflated at
the end and delivered without `validateChunk()`, although wsc 939-941 says text is checked.
Not in it: lengths and partial frames (`WscFrames`), pongs (ignored by the code), reserved
bits on continuation frames, close codes, and the ranges after E0, ED, F0 and F4
(`Utf8Validator`).

### Utf8Validator

One action per branch of `validateChunk()`'s loop, and `Reset`. The client goes on calling
it with the next fragment after one was refused, and so does the module. The same bytes go
through the table of RFC 3629, section 4, as ranges. `reset()` forgets `seenE0` and
`seenF0`: `seenF0` is harmless, since each leading byte of four sets it anew, while `seenE0`
can refuse the third byte of a valid character of four, in a later message. `RefusesOnlyBad`
says that this is the only wrong refusal.

## Runs

| run | question | bounds |
|---|---|---|
| `send_ring` | safety, refinement and liveness of the ring, and the metadata | ring of 5, writes of 1, 2 and 6 (longer than the ring), 8 units captured: the ring wraps, overflows, is trimmed and clipped, before and after the connect |
| `capture_path` | completeness, order and length of chunks | stereo, two samples in 20 ms; 20, 40 and 60 ms asked for, so that the ring has 8, 16 (exactly what is asked) and 32 slots; 40 units; frames below a sample, of an odd length and above 20 ms; 3 reads a callback |
| `lifecycle` | one teardown per stream, live streamers, streams that can be stopped, refinement of `StreamTeardown` | 2 streams, 2 API threads, 3 commands without pause, 1 error, failing allocations, hangup |
| `lifecycle_ends` | every teardown ends | 2 streams, 1 API thread, 2 commands, pause among them (liveness does not go with symmetry) |
| `lifecycle_stop` (violated) | "to avoid race in callback" (glue 1752) | 1 stream, start and stop |
| `lifecycle_pause` (violated) | "Prevent multiple cleanup calls" (glue 349) | 1 stream, start, pause and stop, 1 error |
| `channel_registry` | counter, limit, registration, refusals | 4 starts of 2 calls on 2 threads, limit 2, counter modulo 16, 1 slot given back twice |
| `audio_injection` | order, completeness, rate, teardown, playing to the end | 3 messages (1 and 2 channels, odd, longer than the buffer, at 3 rates), buffer of 6 bytes, frames of 4, 2 codec changes or commands |
| `wsc_client` | freeing, flush, order, close frames, disconnect ends | 1 sender with 3 messages, a queue of 2, both kinds of owner, each event once, 2 disconnects of the owner |
| `wsc_frames` | what is written is what is read | short lengths up to 2, middle ones up to 5, `size_t` modulo 64, 2 frames of 0, 2, 3, 5, 6, 7, 32 and 60 bytes |
| `wsc_receive` | reassembly and validation | five frames until the client closes: a character of four bytes in fragments around a control frame, or two messages of two fragments |
| `utf8_validator` | the validator against RFC 3629 | none: all bytes, any number of messages |

Why the bounds are enough: writes are of one slot, of some, and of more than the ring has,
so that every way a write meets the boundary occurs; two streams are what the channel's
private can confuse, and a stop, an error and a hangup all fit in beside a restart; a limit
of two is exceeded by two threads, healed, and wrapped by the third and fourth start; an
injection buffer of a frame and a half is filled, overrun and played out by three messages;
a queue of two packets is full after the second, has two of the same sender, and a third
that goes past it; the order of the packets is each sender's own, and the theorems hold for
any number of senders; lengths stand on both sides of each limit; five frames hold a
character of four bytes and what comes before or after it. `CHECK_DEADLOCK FALSE` is in
every configuration but that of `Utf8Validator`, because a closed connection or a call that
hung up has nothing left to do; the deadlocks that matter are the subject of
`lifecycle_stop`, and of the liveness properties.

What the violated runs show:

* A stop waits for a callback with the mutex that callback waits for. The media thread must
  have read `close_requested` before the stop set it and not reached the mutex yet; then
  neither thread goes on.
* `audio_paused` and `close_requested` are bits of one word, and a pause writes both without
  the mutex: it can undo the mark of a teardown that has begun, and a second one begins.
  `TornDownOnce` therefore holds in `lifecycle`, which has no pause, and not in the code as
  a whole.

Other disagreements are not runs of their own. The property that holds carries the exception
by name: `OnlyBacklogDropped` (the first write after the connect trims what was queued to
half, "so the greeting is not dropped", glue 303-304), `DropsAccounted` and
`RingHoldsRecent` (a write longer than the ring), `AudioAfterMetadata` (an answer before the
private is set, or after a hangup or a teardown), `ChunkFillsBuffer` (chunks are longer than
asked without a resampler), `CounterIsSlots` and `OvershootBounded` (a slot that is leaked
or given back twice), `RegisteredUnlessErased`, `FreedAfterLoop` and `DisconnectEnds` (a
callback before `event_thread` is stored), `DestroyedUnlessEof` (that, EOF, and a callback's
disconnect under way), `TextIsValid`, `FlushedUnlessLate`, `CanBeStopped`, `TeardownEnds`,
`RightRate`, `WholeSamples`, `TeardownClean`, `QueuedIsHeard`, `QuietSamplesAreRight` and
`RefusesOnlyBad`. What such a property shows is that the named case is the only one.

## Fairness

`SendRing`: weak fairness of the sender's steps, of the event thread in the middle of a
callback and of the thread in `stopSender()`: threads are scheduled; strong fairness of
`FlushPendingAudio`, which waits for `m_send_mutex`: the sender gives it up in every turn,
and locks do not starve a thread. The sender's timeout is fair, since `wait_for` has one;
nothing makes audio arrive or the peer answer. `StreamLifecycle`: a thread in a call goes on
(weak), and one that waits for a mutex gets it if it is free again and again (strong), for
every thread; nobody has to give a command or hang up. `WscClient`: weak fairness of every
thread in the middle of an operation, which is also to store `event_thread`, and of the
loop's end once it was asked for.
`AudioInjection`: weak fairness of `Play`, since FreeSWITCH keeps writing frames as long as
the call is up; nothing makes messages come. `WscFrames`: weak fairness of `HandleFrame`,
since the loop of `receive` runs until a frame is not complete; nothing makes bytes arrive.
The other modules have no liveness.

Liveness is checked as: `StopReturns`, `AudioMoves`, `TeardownEnds` (which names its two
exceptions, the stop's deadlock and the crash on a null mutex), `QueuedIsHeard`,
`DisconnectEnds` and `ArrivedIsHandled`.

## Proofs

All nine components with a state are proved about, for every value of their constants. Every
module has one inductive invariant, `IInv` (`ValidatorIInv` and `ReceiveIInv` where two
modules share their proofs), which TLC checked on the instance of the module's run before it
was proved, a lemma for each part or each action, `Step` or `NextInvariant` that joins them,
and theorems that draw a property from it. The bounds of the models (`MaxHeard`, `MaxUnits`,
`MaxGen` and so on) are constants like all others: the theorems hold for each value of them.

### SendRing

`SendRing_proofs` proves, for every size of ring, write, frame and limit that meets
`SizesAssumption`:

* `TypeCorrect`: `Spec => []TypeOK`
* `RingCorrect`: `Spec => []RingHoldsRecent`
* `AccountCorrect`: `Spec => []DropsAccounted`
* `MetadataBeforeAudio`: `Spec => []AudioAfterMetadata`
* `QueueImplemented`: `Spec => ImplementsQueue`
* `DropsBounded`: `Spec => OnlyBacklogDropped`
* `SentInOrder`: `Spec => InOrder`

The inductive invariant is `IInv`: `TypeOK`, `RingHoldsRecent`, `DropsAccounted` and
`MetadataFirst`. None of the parts is inductive alone: `RingHoldsRecent` (slot `i` from the
tail holds the unit `heard - used + i`) needs the ranges of head, tail and used, and
`AudioAfterMetadata` speaks of the sender, while what keeps it true is the order of the
flags in the event thread and how long the private is set, which `MetadataFirst` adds. The
argument: lemmas on remainders (`NoTurn` ... `Distance`) say what going around the ring
does; `WriteKeepsRing` and `CopyKeepsRing` are the two steps that touch it; all others are
settled by `RingUntouched` and `FlagsOnly`; `NextInvariant` puts them together, one step per
action. The refinement has one case per action: a write is `Accept`, a copy is `Take`,
everything else stutters.

`DropsBounded` needs of the invariant only the types: `DropIsBounded` is the arithmetic of
the overflow loop and the trim together, and `WriteDrops` finds it in `WriteBinary`.

`InOrder` says that audio goes forward, within a buffer of the sender and from one to the
next, whatever was dropped or clipped in between. It is proved of the abstract queue,
through the refinement: `BatchIsOlder`, that the last batch is older than all that is
queued, is what each of its three steps keeps (`QueueKeepsOrder`).

`SizesAssumption` says of a write only that it is not empty: it may be longer than the ring.

### ChannelRegistry

`ChannelRegistry_proofs` proves, for any number of calls, starts, threads and channels that
meets `RegistryAssumption` (the counter is wide enough for the limit, the calls, and twice
the starts, since a slot may be given back twice):

* `TypeCorrect`: `Spec => []TypeOK`
* `SlotsAreCounted`: `Spec => []CounterIsSlots`
* `LimitHolds`: `Spec => []OvershootBounded`
* `RunningIsRegistered`: `Spec => []RegisteredUnlessErased`
* `RefusalIsJust`: `Spec => RefusedAtLimit`

`IInv` has five parts. `Shape` says what is known of a stream from where it is. `Crowd` is
the count of slots (taken or leaked, less those given back twice) and strengthens the bound:
not the holders alone stay below limit and threads together, but holders and those that have
passed the check and not taken their slot, which is what a step from one to the other keeps.
`Slots` says in `Holders`, `Leaked` and `Doubled` what `Crowd` says in numbers.
`ReloadSound` is about the start between the two halves of the self-healing: the counter is
at most what is registered or about to be, or it was taken below zero by no more than were
given back. `Registered` is `RegisteredUnlessErased` for a stream about to run as well. Each
part has its lemma, one case per action. All of them count streams at certain places:
`CountMove` says how one step of one stream changes such a number, and `Moves` applies it to
the numbers used.

### Utf8Validator

`WscMessages_proofs` proves, for texts of any length in any number of messages:

* `TypeCorrect`: `Spec => []TypeOK`
* `OnlyUtf8Accepted`: `Spec => []AcceptsOnlyUtf8`
* `OnlyBadRefused`: `Spec => RefusesOnlyBad`

The strengthening is `Synced`: as long as nothing was refused, validator and grammar are at
the same place of the same character, and three of the four flags are exactly what the range
of the next byte says; of `seenE0` it says only that it is set where the range asks for it.
`FirstByte` and `LaterByte` say what the grammar does with a byte, `Masks` what the bit
masks of the code are as ranges, `LeadKeeps` and `TailKeeps` that both go on together. TLC
explores all of this module's states too; the proof shows why.

### WscReceive

`WscMessages_proofs` proves, for any number of frames and any choice of bytes
(`FramesAssumption`):

* `ReceiveTypeCorrect`: `ReceiveSpec => []ReceiveTypeOK`
* `MessagesAreReassembled`: `ReceiveSpec => []Reassembled`
* `AGoodPeerIsHeard`: `ReceiveSpec => []GoodPeerIsHeard`
* `DeliveredTextIsValid`: `ReceiveSpec => []TextIsValid`
* `BytesHaveRoles`: `Spec => [][\A b \in Byte : ~refused /\ Validate(b) => Judged(b)]_vars`:
  in every state that earlier messages can leave, a turn of `validateChunk()` in
  `Utf8Validator` does with every byte what `Accepts` and `After` say of its role here; a
  byte that is good is refused only by `seenE0` left over (`LeftBehind`), as `Refused` has
  it. `Role` is read off RFC 3629 alone, a tail being what its range allows next

None of the three properties is inductive: the deliveries say nothing of the message that is
still coming. `ReceiveIInv` adds it, as long as the client has not closed. `InOrder`: the
frames follow each other as the protocol asks, and `message_in_progress` is whether the last
of them was not final. `InHand`: the handlers' opcode, bytes and compression are those of
the one message that reaches the last frame. `Validated`: what is gathered is `TextBut` as
many bytes as the validator expects, and the validator expects none when it is not asked;
this is what makes the test after a compressed message harmless, which asks it all the same.
`Fresh`: its flag `seenE0` is not one that `reset()` left, since who ends a message inside a
character is closed on. `Delivered`: the two properties for the messages that have ended.
After the close only `~WellFormed` is left, and stays, since the rules of `WellFormed` speak
of beginnings (`BrokenForGood`).

The argument is in three layers. `AcceptedText` and `RefusedText` are about text alone: an
accepted byte leaves as much to come as `After` says, and after a refused one nothing can
make the text valid; `ToComeIsKnown`, that what is to come is determined by what is there,
makes an incomplete end an invalid one. `OldFramesStay`, `NewFrameJoins`, `NewFrameBegins`
and `EndsCount` say how `Reaches`, `Content` and `Ended` change with one more frame. Then
each action has its lemma, which shows that it either closes on a peer that broke the
protocol or keeps the five parts; `OpenStep` joins them.

### CapturePath

`CapturePath_proofs` proves, for every length of frames, 20 ms, chunks and reads that meets
`FormatAssumption` (one or two channels; 20 ms and what limits a frame are of whole samples:
the rates are multiples of 8000 and `clamp_pcm_bytes` computes in samples):

* `TypeCorrect`: `Spec => []TypeOK`
* `AudioIsKept`: `Spec => []NothingLost`
* `RoomAndClock`: `Spec => []NeverStuck`
* `ChunkLength`: `Spec => []ChunkFillsBuffer`
* `ChunksInOrder`: `Spec => ChunksFollow`

`IInv` adds to the properties what the code relies on without saying so. `Gathered`: the
ring holds what was kept and not sent, from slot 0 on, since it is emptied whole and `head`
is never anywhere else; `RoomLeft`: neither buffer is full when a frame comes, and the room
in sbuffer is of whole samples of all channels, which is why
the frame fits (a ring of a power of two, not less than what is asked, takes a frame before
it is flushed); `Resampled` and `Whole`: what is gathered begins with the first half of a
sample and ends with a second; `Clocked`: a callback that read something has moved the
clock, or has a placeholder to answer for. `SendKeeps` and `PassKeeps` are the two ways of a
frame through `send_pcm_bytes`. All of it rests on the size of the ring. The provers know no
powers, so `2^k` is counted as the subsets of `1 .. k` (`PowerIsSubsets`, `Doubles`,
`PowerGrows`), and `RingSize` says that the next power of two is even, not less than what
was asked, and less than twice as much.

### StreamLifecycle

`StreamLifecycle_proofs` proves, for any number of API threads, streams, commands and errors
that meets `ThreadsAssumption` (the threads are different ones):

* `TypeCorrect`: `Spec => []TypeOK`
* `FramesReachLiveStreamer`: `Spec => []FramesGoToLiveStreamer`
* `OneTeardownOnly`: `"pause" \notin Commands /\ Spec => []TornDownOnce`
* `StreamsCanBeStopped`: `"pause" \notin Commands /\ Spec => []CanBeStopped`
* `TeardownImplemented`: `"pause" \notin Commands /\ Spec => ImplementsTeardown`

The first two hold whatever is commanded. The others are about a call that nobody pauses or
resumes, because with a pause the first is false: that is what `lifecycle_pause` shows.

The invariant is about what all calls of a thread's stack are at, not the innermost alone,
since a teardown waits below the close callback it made. `Has(stack[t], g, K)` says that a
call of `t` is at a label of `K` with stream `g`, `Alone` that only one is. `Shape` keeps
the stacks regular: a call waits only at `finish`, `destroy` or `hang up`. `Held`: who is
between the lock and the unlock of a stream's mutex holds it, and holds it once, unless the
mutex is gone; this is what a second cleanup on the same stack (`RemoveBug` runs one, and
the mutex is not recursive in the model) must not break. `Live`: a set `pAudioStreamer` is a
running streamer, one that finished has unset it, and a frame is written with the mutex
held. `Once`: one thread tears a stream down, after `close_requested` and until the mutex is
gone; nobody about to claim a stream finds it claimed. `Locks` is the part without `Once`,
and is kept by a pause as well.

Most actions change no label that counts: `Quiet` and the lemmas after it (`QuietGoto`,
`QuietBecome`, `QuietReturn`, `QuietEnter`, `QuietClose`) settle them. At the others a call
gains or loses a label of some kind (`GotoMoves`, `ReturnMoves`), and each action has its
lemma: `ClaimStep`, which needs `Held` for there to be one claimant; `FinishStep`, which
needs it for nobody to be writing; `WipeStep`, at which the last trace of a teardown goes.
`CreateStep` needs `Shape` for no stack to name the stream that begins. `Step` has one case
per action.

The refinement needs one invariant more, `Staged`: a running streamer has its pointer set,
the streams that were started are those with a streamer, and those to come are neither
claimed nor gone. `StepPromised` has a lemma for each step that `StreamTeardown` sees:
`ClaimImplements` (whoever is at `claim` holds the mutex, so the media thread does not),
`FrameStartsImplements` (whoever gets the mutex of a stream with its pointer set finds it
unclaimed: the claimant would hold the mutex or have unset the pointer), `WipeImplements`
(the pointer is unset by then, so no streamer runs). The others are `Unseen`: they keep the
mapped variables, and the lemmas from `WritingKept` to `WritingClose` say that a call that
is replaced, made or ended does not begin or end a frame.

### AudioInjection

`AudioInjection_proofs` proves, for any messages, rates, channels and sizes of the buffer
and the frame that meet `InjectionAssumption` (both sizes even, as the code's are: the
buffer is a number of samples doubled, a frame whole samples):

* `NewestBytesKept`: `Spec => NewestKept`
* `SamplesStayWhole`: `Spec => []WholeSamples`
* `RateIsRight`: `Spec => []RightRate`
* `TeardownIsClean`: `Spec => []TeardownClean`
* `QuietIsRight`: `Spec => []QuietSamplesAreRight`

`IInv`: `Numbers` (the types that the properties do not need and a step does), `Queued` (the
buffer holds the newest bytes, numbered up to `accepted`; the frame holds older ones; what
was dropped, played or played unheard is all the rest), `Paired` (without odd messages the
first half of a sample is in an odd place of buffer and frame, before a message is queued
its length is even), `Matched` (the resampler goes from `inject_sample_rate` to the codec's
rate of its making, and so does the message that goes through it), `Teardown` (who can be
where once the private is cleared; a message overtaken by the teardown is the exception
throughout). `QueueKeeps` and `PlayKeeps` are the two steps that touch the buffer, `Cut` and
`Numbered` what cutting and numbering do to a sequence. `QuietIsRight` is about the two
coders alone: `UlawMiddle` shows, one segment after another, that the middle of the interval
that a code stands for is within half its width of the value that was coded.

### WscClient

`WscClient_proofs` proves, for any number of senders, messages and places in the queue, and
either way to disconnect (`ClientAssumption`: the threads are different ones, and no message
is a close frame):

* `TypeCorrect`: `Spec => []TypeOK`
* `NeverFreedUnderLoop`: `Spec => []FreedAfterLoop`
* `AtMostOneClose`: `Spec => []OneCloseFrame`
* `OrderKept`: `Spec => []SentInOrder`
* `OnlyLateStays`: `Spec => []FlushedUnlessLate`
* `CleanUnlessEof`: `Spec => []DestroyedUnlessEof`

`IInv` has ten parts. `Places` and `Wiring` say where the owner, the loop and the helper can
be while the loop runs, and that whoever frees has joined: who finds no pointer to the event
thread has no event thread, but between its start and `AssignThread`; `CloseOnce`, that
whoever is about to send a close frame has set `sent_close` and that none was sent;
`LockHeld`, that the event thread has the bufferevent's lock wherever it is in a handler;
`Answered` and `Unopened`, that before the flush the state is not CONNECTED, no sender
writes and only a close frame can have gone out; `Ordered`, that output, then queue, then
what a sender has in hand are in its order, and that during the flush the output is all
before the queue; `Truthful`, that DISCONNECTED means freed and joined, unless the peer
closed or a callback came too early, and that while the state is DISCONNECTING somebody is
at work. Each part has its lemmas for the few steps that touch it; `OwnerMoves` and the like
say what a step of one thread does to all `pc`.

### WscFrames

`WscFrames_proofs` proves, for every set of lengths, limits of the short lengths and width
of `size_t` that meet `FramesAssumption` (the three forms of a length lie apart, and the
longest header does not wrap; 125, 65 535 and 2^64 do):

* `FramesAreRead`: `Spec => []FramesReadAsSent`
* `UndefinedNeedsIllegal`: `Spec => []UndefinedOnlyIfIllegal`

`IInv`: `Written` (every frame in the stream is one that a writer makes, its header as long
as its length asks for), `Handled` (what `receive()` has drained is the sum of the frames it
has handled), and the two properties. `Total`, the sum, is a recursive function of the place
in the stream. The library's induction takes an operator as its parameter, which the provers
cannot instantiate, so `SetInduction` is stated with a set instead and proved from the least
element of what is left out; `SumsExist` and `SumsAre` then show that the function exists
and is what its definition says, `SumStep` and `SumOfPrefix` that it grows by a frame and
does not see what comes after. `FrameIsOne` is the arithmetic of one turn of the loop: a
whole frame at the front of the stream is complete, has the length it was written with, and
wraps around only if that was illegal.

### Only model-checked

* Liveness (`StopReturns`, `AudioMoves`, `TeardownEnds`, `QueuedIsHeard`, `DisconnectEnds`,
  `ArrivedIsHandled`): the prover has no fairness and no ENABLED.

## Plan

Done: every module above, and proofs about all of them. Next, in this order:

1. `Stream`: lifecycle and connection composed, for a websocket that fails before the
   private is set; that it answers before is in `SendRing`.
2. Sending while another thread disconnects (`libs/libwsc/README.md:23`), a second
   connection on the same object, and the ping timer.

Worth stating as well: a connection that is open or closed (`WscClient`).

## Not modelled, and why

JSON, base64, files of incoming audio: library calls with little state. Argument parsing,
module load: sequential. TLS, handshake text, headers, logging: configuration. Masking, and
what zlib makes of a message: data. base64 and SHA-1: third-party. zlib, speex, libevent and
FreeSWITCH: external, except for what is said of them above. Examples: not part of the
program.
