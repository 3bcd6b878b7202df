--------------------------- MODULE StreamLifecycle ---------------------------
(***************************************************************************)
(* How streams of one call are started and torn down (mod_audio_stream.c,  *)
(* audio_streamer_glue.cpp): API threads that start, stop and send text,   *)
(* the media thread that runs the bug's callbacks, the event thread of     *)
(* every websocket, the session thread that hangs up, and the detached     *)
(* threads of finish().                                                    *)
(*                                                                         *)
(* A stream is a generation g: its private_t, its AudioStreamer and its    *)
(* media bug.  A thread has a call stack, because closing a bug runs       *)
(* SWITCH_ABC_TYPE_CLOSE, and with it stream_session_cleanup(), inside the *)
(* call that closed it.  The media bugs, their read/write lock and their   *)
(* callbacks are FreeSWITCH's: what is said of them is what this code      *)
(* relies on.                                                              *)
(***************************************************************************)
EXTENDS Integers, Sequences, FiniteSets

CONSTANTS
    Api,         \* threads that run API commands
    Media,       \* the thread that reads and writes the call's audio
    Session,     \* the call's own thread
    Commands,    \* the API commands that are given: "start", "stop", "text", "pause"
    MaxGen,      \* bound of the model: streams started in a behaviour
    MaxCommands, \* bound of the model: API commands in a behaviour
    MaxErrors,   \* bound of the model: error callbacks in a behaviour
    Free, Dead,  \* states of a private_t's mutex besides "held by a thread"
    MayFail      \* whether allocations and bug_add may fail

Gens == 1 .. MaxGen
None == 0

ASSUME ThreadsAssumption ==
    /\ MaxGen \in Nat /\ MaxCommands \in Nat /\ MaxErrors \in Nat
    /\ Commands \subseteq {"start", "stop", "text", "pause"} /\ MayFail \in BOOLEAN
    /\ Free # Dead
    /\ Media # Session /\ {Media, Session} \cap Api = {}
    /\ {Free, Dead} \cap (Api \cup {Media, Session} \cup Gens) = {}
    /\ Gens \cap (Api \cup {Media, Session}) = {}

\* The event thread of stream g is named g.
Threads == Api \cup {Media, Session} \cup Gens

VARIABLES
    stack,       \* call stacks, innermost call first
    private,     \* the channel's private MY_BUG_NAME: a generation's bug or None
    bug,         \* the media bugs
    closing,     \* close_requested
    pointer,     \* pAudioStreamer is set
    mutex,       \* tech_pvt->mutex
    streamer,    \* the AudioStreamer objects
    slot,        \* which generations hold a slot (ChannelRegistry counts them)
    strayed,     \* history: the private of a stream was replaced or cleared for another
    started,     \* generations started so far
    commands,    \* API commands given so far
    errors,      \* error callbacks so far
    reading,     \* the media thread holds the bugs' lock for reading
    hungUp       \* the session can no longer be located

vars == <<stack, private, bug, closing, pointer, mutex, streamer, slot,
          strayed, started, commands, errors, reading, hungUp>>

\* Several variables that most steps leave alone.
counters == <<slot, started, commands, errors>>
bounds   == <<commands, errors>>
stream   == <<bug, closing, pointer, mutex, streamer>>
channel  == <<private, strayed>>
call     == <<channel, reading, hungUp>>

-----------------------------------------------------------------------------
(* Calls.                                                                  *)

Why == {"command", "stop", "hangup", "error", "frame"}
Frame(label, g, why) == [at |-> label, g |-> g, why |-> why]

At(t, label) == stack[t] # <<>> /\ Head(stack[t]).at = label
Gen(t)  == Head(stack[t]).g
By(t)   == Head(stack[t]).why

Enter(t, frame) == stack' = [stack EXCEPT ![t] = <<frame>> \o @]
Goto(t, label)  == stack' = [stack EXCEPT ![t] = <<[Head(@) EXCEPT !.at = label]>> \o Tail(@)]
Return(t)       == stack' = [stack EXCEPT ![t] = Tail(@)]
Become(t, frame) == stack' = [stack EXCEPT ![t] = <<frame>> \o Tail(@)]

\* Closing bug g runs capture_callback(SWITCH_ABC_TYPE_CLOSE) in this thread: a
\* cleanup that takes the closure for a hangup unless close_requested is set.
CloseCallback(g) == Frame("find", None, IF closing[g] THEN "stop" ELSE "hangup")

\* Close bug g if nobody did; rest is what the thread has left to do then.
CloseBug(t, g, rest) ==
    IF bug[g] = "attached"
    THEN /\ bug' = [bug EXCEPT ![g] = "closed"]
         /\ stack' = [stack EXCEPT ![t] = <<CloseCallback(g)>> \o rest]
    ELSE stack' = [stack EXCEPT ![t] = rest] /\ UNCHANGED bug

Calling(t)       == Tail(stack[t])
OnwardsAt(t, label) == <<[Head(stack[t]) EXCEPT !.at = label]>> \o Tail(stack[t])

Init ==
    /\ stack = [t \in Threads |-> <<>>]
    /\ private = None
    /\ bug = [g \in Gens |-> "none"]
    /\ closing = [g \in Gens |-> FALSE]
    /\ pointer = [g \in Gens |-> FALSE]
    /\ mutex = [g \in Gens |-> Free]
    /\ streamer = [g \in Gens |-> "none"]
    /\ strayed = FALSE
    /\ slot = [g \in Gens |-> FALSE] /\ started = 0
    /\ commands = 0 /\ errors = 0
    /\ reading = FALSE /\ hungUp = FALSE

-----------------------------------------------------------------------------
(* uuid_audio_stream: start, stop, send_text, pause and resume.            *)

Command(t) ==
    /\ stack[t] = <<>> /\ ~hungUp
    /\ commands < MaxCommands
    /\ commands' = commands + 1
    /\ \/ "start" \in Commands /\ Enter(t, Frame("start", None, "command"))
       \/ "stop"  \in Commands /\ Enter(t, Frame("find", None, "stop"))
       \/ "text"  \in Commands /\ Enter(t, Frame("text", None, "command"))
       \/ "pause" \in Commands /\ Enter(t, Frame("pause", None, "command"))
    /\ UNCHANGED <<call, stream, slot, started, errors>>

\* start_capture: "bug already attached", then the wait for a codec.
Start(t) ==
    /\ At(t, "start")
    /\ IF private # None THEN Return(t) ELSE Goto(t, "create")
    /\ UNCHANGED <<call, stream, counters>>

\* stream_data_init(): the AudioStreamer starts its threads.
NewStreamer(g) ==
    /\ started' = g
    /\ streamer' = [streamer EXCEPT ![g] = "running"]
    /\ pointer' = [pointer EXCEPT ![g] = TRUE]

\* increment_active_channels(), the limit not being reached, and stream_data_init();
\* when an allocation fails in there only the slot is given back.
Create(t) ==
    LET g == started + 1 IN
    /\ At(t, "create") /\ started < MaxGen
    /\ NewStreamer(g)
    /\ \/ slot' = [slot EXCEPT ![g] = TRUE] /\ Become(t, Frame("add bug", g, "command"))
       \/ MayFail /\ Return(t) /\ UNCHANGED slot
    /\ UNCHANGED <<call, bug, closing, mutex, bounds>>

\* switch_core_media_bug_add(); its failure runs stream_session_cleanup().
AddBug(t) ==
    /\ At(t, "add bug")
    /\ \/ /\ ~hungUp
          /\ bug' = [bug EXCEPT ![Gen(t)] = "attached"]
          /\ Goto(t, "publish")
       \/ /\ MayFail \/ hungUp
          /\ Become(t, Frame("find", None, "stop"))
          /\ UNCHANGED bug
    /\ UNCHANGED <<call, closing, pointer, mutex, streamer, counters>>

\* switch_channel_set_private(), by a thread that works for stream g.
SetPrivate(value, g) ==
    /\ private' = value
    /\ strayed' = (strayed \/ private \notin {None, g})

Publish(t) ==
    /\ At(t, "publish")
    /\ SetPrivate(Gen(t), Gen(t))
    /\ Goto(t, "read pointer")
    /\ UNCHANGED <<reading, hungUp, stream, counters>>

\* stream_session_send_text(): the bug, then as stream_session_start().
SendText(t) ==
    /\ At(t, "text")
    /\ IF private = None THEN Return(t)
       ELSE Become(t, Frame("read pointer", private, "command"))
    /\ UNCHANGED <<call, stream, counters>>

\* stream_session_start() and send_text read pAudioStreamer without the mutex ...
ReadPointer(t) ==
    /\ At(t, "read pointer")
    /\ IF pointer[Gen(t)] THEN Goto(t, "use") ELSE Return(t)
    /\ UNCHANGED <<call, stream, counters>>

\* ... and call its start() or writeText().
Use(t) ==
    /\ At(t, "use")
    /\ Return(t)
    /\ UNCHANGED <<call, stream, counters>>

\* stream_session_pauseresume()
FindToPause(t) ==
    /\ At(t, "pause")
    /\ IF private = None THEN Return(t)
       ELSE Become(t, Frame("load flags", private, "command"))
    /\ UNCHANGED <<call, stream, counters>>

\* audio_paused is a bit next to close_requested, and is set without the mutex:
\* both bits are read ...
LoadFlags(t) ==
    /\ At(t, "load flags")
    /\ Goto(t, IF closing[Gen(t)] THEN "store closing" ELSE "store open")
    /\ UNCHANGED <<call, stream, counters>>

\* ... and both are written back.
StoreFlags(t) ==
    /\ At(t, "store closing") \/ At(t, "store open")
    /\ closing' = [closing EXCEPT ![Gen(t)] = At(t, "store closing")]
    /\ Return(t)
    /\ UNCHANGED <<call, bug, pointer, mutex, streamer, counters>>

-----------------------------------------------------------------------------
(* stream_session_cleanup() and media_bug_close(): the way down.           *)

\* The channel's private names the stream to tear down.
Find(t) ==
    /\ At(t, "find")
    /\ IF private = None THEN Return(t)
       ELSE Become(t, Frame(IF By(t) = "error" THEN "lock" ELSE "clear", private, By(t)))
    /\ UNCHANGED <<call, stream, counters>>

\* "Clear private data FIRST"
Clear(t) ==
    /\ At(t, "clear")
    /\ SetPrivate(None, Gen(t))
    /\ Goto(t, "lock")
    /\ UNCHANGED <<reading, hungUp, stream, counters>>

LockSkipped(t) ==
    /\ At(t, "lock")
    /\ Goto(t, "decide")
    /\ UNCHANGED <<call, stream, counters>>

LockTried(t) ==   \* mutant: trylock, and return when the mutex is held
    LET g == Gen(t) IN
    /\ At(t, "lock")
    /\ IF mutex[g] \in {Free, Dead}
       THEN mutex' = [mutex EXCEPT ![g] = IF @ = Free THEN t ELSE @] /\ Goto(t, "decide")
       ELSE UNCHANGED mutex /\ Return(t)
    /\ UNCHANGED <<call, bug, closing, pointer, streamer, counters>>

\* if (tech_pvt->mutex) switch_mutex_lock(tech_pvt->mutex)
Lock(t) ==
    LET g == Gen(t) IN
    /\ At(t, "lock")
    /\ mutex[g] \in {Free, Dead}
    /\ mutex' = [mutex EXCEPT ![g] = IF @ = Free THEN t ELSE @]
    /\ Goto(t, "decide")
    /\ UNCHANGED <<call, bug, closing, pointer, streamer, counters>>

Unlocked(t, g) == [mutex EXCEPT ![g] = IF @ = t THEN Free ELSE @]

\* Whoever finds close_requested set only removes the bug, and only if the call
\* is not closing.
Decide(t) ==
    LET g == Gen(t) IN
    /\ At(t, "decide")
    /\ IF closing[g]
       THEN /\ mutex' = Unlocked(t, g)
            /\ IF By(t) = "stop" THEN Goto(t, "remove only") ELSE Return(t)
       ELSE Goto(t, "claim") /\ UNCHANGED mutex
    /\ UNCHANGED <<call, bug, closing, pointer, streamer, counters>>

\* close_requested = 1
Claim(t) ==
    /\ At(t, "claim")
    /\ closing' = [closing EXCEPT ![Gen(t)] = TRUE]
    /\ Goto(t, IF By(t) = "stop" THEN "remove" ELSE "finish")
    /\ UNCHANGED <<call, bug, pointer, mutex, streamer, counters>>

\* switch_core_media_bug_remove(): it waits until no callback runs.
RemoveBug(t) ==
    LET g == Gen(t) IN
    /\ ~reading
    /\ \/ At(t, "remove") /\ CloseBug(t, g, OnwardsAt(t, "finish"))
       \/ At(t, "remove only") /\ CloseBug(t, g, Calling(t))
    /\ UNCHANGED <<call, closing, pointer, mutex, streamer, counters>>

FinishKeepsPointer(t) ==
    /\ At(t, "finish")
    /\ IF By(t) = "error" THEN SetPrivate(None, Gen(t)) ELSE UNCHANGED channel
    /\ streamer' = [streamer EXCEPT ![Gen(t)] = "finishing"]
    /\ mutex' = Unlocked(t, Gen(t))
    /\ Goto(t, IF By(t) = "error" THEN "close bug" ELSE "destroy")
    /\ UNCHANGED <<reading, hungUp, bug, closing, pointer, slot, started, bounds>>

\* disconnect() in the thread that calls finish(), which may be the event thread.
FinishWithoutThread(t) ==
    LET g == Gen(t) IN
    /\ At(t, "finish") /\ stack[g] = <<>>
    /\ pointer' = [pointer EXCEPT ![g] = FALSE]
    /\ streamer' = [streamer EXCEPT ![g] = "deleted"]
    /\ mutex' = Unlocked(t, g)
    /\ Goto(t, "destroy")
    /\ UNCHANGED <<call, bug, closing, slot, started, bounds>>

\* finish() and the unlock: the streamer is unhooked and the detached thread started.
\* media_bug_close() clears the private just before.
Finish(t) ==
    LET g == Gen(t) IN
    /\ At(t, "finish")
    /\ IF By(t) = "error" THEN SetPrivate(None, Gen(t)) ELSE UNCHANGED channel
    /\ IF pointer[g]
       THEN /\ pointer' = [pointer EXCEPT ![g] = FALSE]
            /\ streamer' = [streamer EXCEPT ![g] = "finishing"]
       ELSE UNCHANGED <<pointer, streamer>>
    /\ mutex' = Unlocked(t, g)
    /\ Goto(t, IF By(t) = "error" THEN "close bug" ELSE "destroy")
    /\ UNCHANGED <<reading, hungUp, bug, closing, slot, started, bounds>>

\* switch_core_media_bug_close(), which waits for nobody.
CloseOwnBug(t) ==
    /\ At(t, "close bug")
    /\ CloseBug(t, Gen(t), OnwardsAt(t, "destroy"))
    /\ UNCHANGED <<call, closing, pointer, mutex, streamer, counters>>

\* destroy_tech_pvt(): a second attempt at the mutex 10 ms later ...
TryLock(t) ==
    /\ At(t, "destroy") /\ mutex[Gen(t)] \notin {Free, Dead}
    /\ Goto(t, "retry")
    /\ UNCHANGED <<call, stream, counters>>

\* ... and on it goes, with the mutex or without it.
Wipe(t) ==
    LET g == Gen(t) IN
    /\ At(t, "retry") \/ (At(t, "destroy") /\ mutex[g] \in {Free, Dead})
    /\ pointer' = [pointer EXCEPT ![g] = FALSE]
    /\ streamer' = [streamer EXCEPT ![g] = IF pointer[g] THEN "deleted" ELSE @]
    /\ mutex' = [mutex EXCEPT ![g] = Dead]
    /\ slot' = [slot EXCEPT ![g] = FALSE]
    /\ Return(t)
    /\ UNCHANGED <<call, bug, closing, started, bounds>>

Teardown(t) == Find(t) \/ Clear(t) \/ Lock(t) \/ Decide(t) \/ Claim(t) \/ RemoveBug(t)
               \/ Finish(t) \/ CloseOwnBug(t) \/ TryLock(t) \/ Wipe(t)

-----------------------------------------------------------------------------
(* The media thread.                                                       *)

\* capture_callback(SWITCH_ABC_TYPE_READ): refused once close_requested is set.
MediaCallback(g) ==
    /\ stack[Media] = <<>> /\ ~hungUp
    /\ bug[g] = "attached"
    /\ reading' = TRUE
    /\ Enter(Media, Frame(IF closing[g] THEN "prune" ELSE "frame lock", g, "frame"))
    /\ UNCHANGED <<channel, hungUp, stream, counters>>

\* The callback returned FALSE: FreeSWITCH closes the bug after the loop over them.
Prune ==
    /\ At(Media, "prune")
    /\ reading' = FALSE
    /\ CloseBug(Media, Gen(Media), Calling(Media))
    /\ UNCHANGED <<channel, hungUp, closing, pointer, mutex, streamer, counters>>

\* stream_frame() locks the mutex and looks for the streamer ...
FrameStarts ==
    LET g == Gen(Media) IN
    /\ At(Media, "frame lock") /\ mutex[g] = Free
    /\ IF pointer[g]
       THEN mutex' = [mutex EXCEPT ![g] = Media] /\ Goto(Media, "write") /\ UNCHANGED reading
       ELSE Return(Media) /\ reading' = FALSE /\ UNCHANGED mutex
    /\ UNCHANGED <<channel, hungUp, bug, closing, pointer, streamer, counters>>

\* ... a mutex that is gone is a null pointer, and ends the process.
FrameCrashes ==
    /\ At(Media, "frame lock") /\ mutex[Gen(Media)] = Dead
    /\ Goto(Media, "crash")
    /\ UNCHANGED <<call, stream, counters>>

\* The frames go to pAudioStreamer->writeBinary(), with the mutex held.
FrameWrites ==
    /\ At(Media, "write")
    /\ mutex' = Unlocked(Media, Gen(Media))
    /\ reading' = FALSE
    /\ Return(Media)
    /\ UNCHANGED <<channel, hungUp, bug, closing, pointer, streamer, counters>>

MediaThread == (\E g \in Gens : MediaCallback(g)) \/ Prune \/ FrameStarts
               \/ FrameCrashes \/ FrameWrites

-----------------------------------------------------------------------------
(* Hangup, websocket errors and the detached threads.                      *)

Hangup ==
    /\ ~hungUp
    /\ hungUp' = TRUE
    /\ Enter(Session, Frame("hang up", None, "hangup"))
    /\ UNCHANGED <<channel, reading, stream, counters>>

\* The bugs that are still there are closed one after the other.
HangupCloses ==
    /\ At(Session, "hang up")
    /\ ~reading
    /\ \/ \E g \in Gens : bug[g] = "attached" /\ CloseBug(Session, g, OnwardsAt(Session, "hang up"))
       \/ (\A g \in Gens : bug[g] # "attached") /\ Return(Session) /\ UNCHANGED bug
    /\ UNCHANGED <<call, closing, pointer, mutex, streamer, counters>>

\* The error callback of websocket g: CONNECT_ERROR runs media_bug_close().
WebSocketError(g) ==
    /\ streamer[g] \in {"running", "finishing"}
    /\ stack[g] = <<>> /\ ~hungUp
    /\ errors < MaxErrors
    /\ errors' = errors + 1
    /\ Enter(g, Frame("find", None, "error"))
    /\ UNCHANGED <<call, stream, slot, started, commands>>

\* The detached thread: disconnect() ends the event loop and joins it once its
\* callback is over.
Delete(g) ==
    /\ streamer[g] = "finishing"
    /\ stack[g] = <<>>
    /\ streamer' = [streamer EXCEPT ![g] = "deleted"]
    /\ UNCHANGED <<stack, call, bug, closing, pointer, mutex, slot, started, bounds>>

-----------------------------------------------------------------------------
Running(t) == Start(t) \/ Create(t) \/ AddBug(t) \/ Publish(t)
              \/ SendText(t) \/ ReadPointer(t) \/ Use(t)
              \/ FindToPause(t) \/ LoadFlags(t) \/ StoreFlags(t)

Next ==
    \/ \E t \in Api : Command(t) \/ Running(t)
    \/ \E t \in Threads : Teardown(t)
    \/ MediaThread
    \/ Hangup \/ HangupCloses
    \/ \E g \in Gens : WebSocketError(g) \/ Delete(g)

\* Every thread that is inside a call goes on, and no lock starves a thread that
\* waits for it; nothing makes a user, the peer or the audio act.
Fairness ==
    /\ \A t \in Api : WF_vars(Running(t))
    /\ \A t \in Threads : SF_vars(Teardown(t))
    /\ SF_vars(Prune \/ FrameStarts \/ FrameCrashes \/ FrameWrites)
    /\ SF_vars(HangupCloses)
    /\ \A g \in Gens : WF_vars(Delete(g))

Spec == Init /\ [][Next]_vars /\ Fairness

-----------------------------------------------------------------------------
Labels == {"start", "create", "add bug", "publish", "text", "read pointer", "use",
           "pause", "load flags", "store closing", "store open",
           "find", "clear", "lock", "decide", "claim", "remove", "remove only", "finish",
           "close bug", "destroy", "retry",
           "prune", "frame lock", "write", "crash", "hang up"}

\* Every variable has its type.
TypeOK ==
    /\ stack \in [Threads -> Seq([at : Labels, g : Gens \cup {None}, why : Why])]
    /\ private \in Gens \cup {None}
    /\ bug \in [Gens -> {"none", "attached", "closed"}]
    /\ closing \in [Gens -> BOOLEAN] /\ pointer \in [Gens -> BOOLEAN]
    /\ mutex \in [Gens -> {Free, Dead} \cup Threads]
    /\ streamer \in [Gens -> {"none", "running", "finishing", "deleted"}]
    /\ strayed \in BOOLEAN
    /\ slot \in [Gens -> BOOLEAN] /\ started \in 0 .. MaxGen
    /\ commands \in 0 .. MaxCommands /\ errors \in 0 .. MaxErrors
    /\ reading \in BOOLEAN /\ hungUp \in BOOLEAN

\* The threads that set close_requested for stream g.
TearingDown(g) ==
    {t \in Threads : \E i \in 1 .. Len(stack[t]) :
        /\ stack[t][i].g = g
        /\ stack[t][i].at \in {"remove", "finish", "close bug", "destroy", "retry"}}

\* However a stop, a hangup, a pruned bug and a websocket error meet, one of
\* them tears a stream down, once: nothing is finished, joined or freed twice
\* (media_bug_close, stream_session_cleanup: "Prevent multiple cleanup calls").
TornDownOnce ==
    /\ TypeOK
    /\ \A g \in Gens :
        Cardinality(TearingDown(g)) + (IF mutex[g] = Dead THEN 1 ELSE 0)
            = (IF closing[g] THEN 1 ELSE 0)

\* The media thread writes only to a streamer nobody has finished yet
\* (stream_frame holds the mutex under which finish() runs).
FramesGoToLiveStreamer == At(Media, "write") => streamer[Gen(Media)] = "running"

\* The thread is on its way to publish stream g, or to tear it down.
OnItsWay(g) ==
    \E t \in Threads : \E i \in 1 .. Len(stack[t]) :
        stack[t][i].g = g /\ stack[t][i].at \in {"publish", "lock", "decide", "claim"}

\* A stream whose bug is attached can be found and stopped through the channel's private, as
\* long as no start has replaced the private of another stream (two starts that both found
\* none), and no late teardown has cleared the private of a newer one.
CanBeStopped ==
    ~strayed => \A g \in Gens :
        bug[g] = "attached" /\ ~closing[g] => private = g \/ OnItsWay(g)

\* The stop holds the mutex and waits for the callback, which waits for the mutex.
StopDeadlock ==
    /\ At(Media, "frame lock") /\ reading
    /\ \E t \in Threads : /\ At(t, "remove") \/ At(t, "remove only")
                          /\ mutex[Gen(Media)] = t

\* What the threads and their calls make of a stream, seen without them.
State ==
    [g \in Gens |->
        IF mutex[g] = Dead THEN "gone"
        ELSE IF closing[g] THEN "claimed"
        ELSE IF streamer[g] = "none" THEN "off" ELSE "on"]

Writing == IF At(Media, "write") THEN {Gen(Media)} ELSE {}

Promised == INSTANCE StreamTeardown WITH Streams <- Gens, state <- State, writing <- Writing

\* Whoever ends a stream, and whatever meets on the way: it is claimed once and not under a
\* frame that is written, then unhooked, then released; what was unhooked is deleted once.
ImplementsTeardown == Promised!Spec

\* A teardown that has begun gives its slot back and ends in the deletion of
\* its streamer, unless a stop and a callback wait for each other or the media
\* thread meets a mutex that is gone.
TeardownEnds ==
    \A g \in Gens : closing[g] ~> \/ ~slot[g] /\ streamer[g] = "deleted"
                                  \/ StopDeadlock \/ At(Media, "crash")

-----------------------------------------------------------------------------
\* "Remove the bug AFTER setting close_requested to avoid race in callback"
\* (audio_streamer_glue.cpp:1752).
StopsDoNotRace == ~StopDeadlock

\* "Prevent multiple cleanup calls. This check-and-set MUST happen under
\* tech_pvt->mutex" (audio_streamer_glue.cpp:350): nobody begins to tear down
\* a stream that another thread tears down, or has torn down.
OneTeardown ==
    \A g \in Gens : Cardinality(TearingDown(g)) + (IF mutex[g] = Dead THEN 1 ELSE 0) <= 1
=============================================================================
