--------------------------- MODULE ChannelRegistry ---------------------------
(***************************************************************************)
(* How many streams the module lets run (audio_streamer_glue.cpp): the     *)
(* atomic counter g_active_channels, the set g_active_sessions of uuids    *)
(* under g_channel_mutex, and the streams of several calls that start and  *)
(* end on threads of their own.                                            *)
(*                                                                         *)
(* The counter is read, and only later incremented; when it is at the      *)
(* limit, check_channel_limit() replaces it by the size of the set, which  *)
(* other threads change at other moments.  What a teardown does to the     *)
(* stream itself is in StreamLifecycle.                                    *)
(***************************************************************************)
EXTENDS Integers, FiniteSets

CONSTANTS
    Calls,       \* uuids of the calls
    Streams,     \* bound of the model: the starts of a behaviour
    ApiThreads,  \* threads that start streams
    MaxChannels, \* MAX_CONCURRENT_CHANNELS
    MaxDoubled,  \* bound of the model: streams whose slot is given back twice
    Modulus,     \* the counter is unsigned: 2^32
    Nobody       \* holder of g_channel_mutex when it is free

ASSUME RegistryAssumption ==
    /\ IsFiniteSet(Streams) /\ IsFiniteSet(Calls)
    /\ ApiThreads \in Nat \ {0} /\ MaxChannels \in Nat \ {0} /\ MaxDoubled \in Nat
    /\ Modulus \in Nat
    /\ MaxChannels + 2 * Cardinality(Streams) < Modulus /\ Cardinality(Calls) < Modulus
    /\ Nobody \notin Streams \cup Calls

VARIABLES
    g_active_channels,
    g_active_sessions,
    lock,        \* g_channel_mutex, while more than one step needs it
    pc,          \* how far a start or a teardown is
    call,        \* the call of a stream
    current,     \* the counter as check_channel_limit() read it, when that was the limit
    streamer,    \* the AudioStreamer of a stream
    healed       \* history: the counter was replaced by the size of the set

vars == <<g_active_channels, g_active_sessions, lock, pc, call, current, streamer, healed>>
registry == <<g_active_channels, g_active_sessions, lock, healed>>

Init ==
    /\ g_active_channels = 0 /\ g_active_sessions = {}
    /\ lock = Nobody
    /\ pc = [s \in Streams |-> "new"]
    /\ call = [s \in Streams |-> Nobody]
    /\ current = [s \in Streams |-> 0]
    /\ streamer = [s \in Streams |-> "none"]
    /\ healed = FALSE

-----------------------------------------------------------------------------
(* The counter and the set.                                                *)

At(s, label)   == pc[s] = label
Goto(s, label) == pc' = [pc EXCEPT ![s] = label]

BelowOrAt(n) == n <= MaxChannels   \* mutant: <= for <
Below(n) == n < MaxChannels

Increment == g_active_channels' = (g_active_channels + 1) % Modulus

Decrement == g_active_channels' = (g_active_channels - 1) % Modulus

\* lock_guard over one insertion or removal.
Insert(c) == lock = Nobody /\ g_active_sessions' = g_active_sessions \cup {c}
Erase(c)  == lock = Nobody /\ g_active_sessions' = g_active_sessions \ {c}

Starting == {"full", "reload", "reserve", "allocate", "init"}
Holding  == {"allocate", "init", "running", "destroy"}

\* The streams whose slot was given back twice.
Doubled == {s \in Streams : At(s, "twice")}

-----------------------------------------------------------------------------
(* stream_session_init()                                                   *)

\* start_capture() finds no private of this call, and check_channel_limit() loads the
\* counter.
Start(s, c) ==
    /\ At(s, "new")
    /\ Cardinality({x \in Streams : pc[x] \in Starting}) < ApiThreads
    /\ \A x \in Streams : ~(At(x, "running") /\ call[x] = c)
    /\ call' = [call EXCEPT ![s] = c]
    /\ IF Below(g_active_channels)
       THEN Goto(s, "reserve") /\ UNCHANGED current
       ELSE Goto(s, "full") /\ current' = [current EXCEPT ![s] = g_active_channels]
    /\ UNCHANGED <<registry, streamer>>

MismatchIgnored(s) ==   \* mutant: result is not computed again
    /\ At(s, "full") /\ lock = Nobody
    /\ g_active_channels' = Cardinality(g_active_sessions)
    /\ healed' = TRUE
    /\ Goto(s, "refused")
    /\ UNCHANGED <<g_active_sessions, lock, call, current, streamer>>

MismatchClears(s) ==   \* mutant: as emergency_cleanup_sessions() does
    /\ At(s, "full") /\ lock = Nobody
    /\ g_active_channels' = 0 /\ g_active_sessions' = {}
    /\ healed' = TRUE
    /\ lock' = s /\ Goto(s, "reload")
    /\ UNCHANGED <<call, current, streamer>>

\* At the limit: the counter is replaced when it is not the size of the set ...
Mismatch(s) ==
    /\ At(s, "full") /\ lock = Nobody
    /\ Cardinality(g_active_sessions) # current[s]
    /\ g_active_channels' = Cardinality(g_active_sessions)
    /\ healed' = TRUE
    /\ lock' = s /\ Goto(s, "reload")
    /\ UNCHANGED <<g_active_sessions, call, current, streamer>>

\* ... and read again before the mutex is released.
Reload(s) ==
    /\ At(s, "reload")
    /\ lock' = Nobody
    /\ Goto(s, IF Below(g_active_channels) THEN "reserve" ELSE "refused")
    /\ UNCHANGED <<g_active_channels, g_active_sessions, healed, call, current, streamer>>

Refuse(s) ==
    /\ At(s, "full") /\ lock = Nobody
    /\ Cardinality(g_active_sessions) = current[s]
    /\ Goto(s, "refused")
    /\ UNCHANGED <<registry, call, current, streamer>>

\* increment_active_channels()
Reserve(s) ==
    /\ At(s, "reserve")
    /\ Increment
    /\ Goto(s, "allocate")
    /\ UNCHANGED <<g_active_sessions, lock, healed, call, current, streamer>>

\* No channel, or no memory for the private_t.
GiveBack(s) ==
    /\ At(s, "allocate")
    /\ Decrement
    /\ Goto(s, "failed")
    /\ UNCHANGED <<g_active_sessions, lock, healed, call, current, streamer>>

\* The constructor of AudioStreamer registers the session and opens the websocket ...
Register(s) ==
    /\ At(s, "allocate")
    /\ Insert(call[s])
    /\ streamer' = [streamer EXCEPT ![s] = "running"]
    /\ Goto(s, "init")
    /\ UNCHANGED <<g_active_channels, lock, healed, call, current>>

\* ... or catches an exception there: the object is made, and no longer registered.
Throw(s) ==
    /\ At(s, "init") /\ streamer[s] = "running"
    /\ Erase(call[s])
    /\ streamer' = [streamer EXCEPT ![s] = "stillborn"]
    /\ UNCHANGED <<g_active_channels, lock, healed, pc, call, current>>

InitFailsKeeping(s) ==   \* mutant: the slot is not given back
    /\ At(s, "init")
    /\ Goto(s, "failed")
    /\ UNCHANGED <<registry, call, current, streamer>>

\* stream_data_init() fails after the constructor: nobody deletes the AudioStreamer.
InitFails(s) ==
    /\ At(s, "init")
    /\ Decrement
    /\ Goto(s, "failed")
    /\ UNCHANGED <<g_active_sessions, lock, healed, call, current, streamer>>

\* The bug is added and becomes the channel's private.
Run(s) ==
    /\ At(s, "init")
    /\ Goto(s, "running")
    /\ UNCHANGED <<registry, call, current, streamer>>

\* switch_core_media_bug_add() fails: stream_session_cleanup() finds no private and
\* returns, so that nobody gives the slot back, unregisters the call or deletes the
\* streamer.
Orphan(s) ==
    /\ At(s, "init")
    /\ Goto(s, "orphan")
    /\ UNCHANGED <<registry, call, current, streamer>>

-----------------------------------------------------------------------------
(* The end of a stream.                                                    *)

\* finish() unregisters the session and starts a thread that disconnects.
Finish(s) ==
    /\ At(s, "running")
    /\ Erase(call[s])
    /\ streamer' = [streamer EXCEPT ![s] = "finished"]
    /\ Goto(s, "destroy")
    /\ UNCHANGED <<g_active_channels, lock, healed, call, current>>

\* destroy_tech_pvt() gives the slot back.
Destroy(s) ==
    /\ At(s, "destroy")
    /\ Decrement
    /\ Goto(s, "gone")
    /\ UNCHANGED <<g_active_sessions, lock, healed, call, current, streamer>>

\* A pause or resume that undid close_requested lets a second teardown of the stream begin
\* (StreamLifecycle); it finds no streamer, and destroy_tech_pvt() gives the slot back
\* again.  Once more per stream is another bound of the model.
DestroyAgain(s) ==
    /\ At(s, "gone") /\ Cardinality(Doubled) < MaxDoubled
    /\ Decrement
    /\ Goto(s, "twice")
    /\ UNCHANGED <<g_active_sessions, lock, healed, call, current, streamer>>

\* ~AudioStreamer(), at the end of that thread, unregisters the session again.
Delete(s) ==
    /\ streamer[s] = "finished"
    /\ Erase(call[s])
    /\ streamer' = [streamer EXCEPT ![s] = "deleted"]
    /\ UNCHANGED <<g_active_channels, lock, healed, pc, call, current>>

Next ==
    \/ \E s \in Streams, c \in Calls : Start(s, c)
    \/ \E s \in Streams :
          \/ Mismatch(s) \/ Reload(s) \/ Refuse(s)
          \/ Reserve(s) \/ GiveBack(s) \/ Register(s) \/ Throw(s)
          \/ InitFails(s) \/ Run(s) \/ Orphan(s)
          \/ Finish(s) \/ Destroy(s) \/ DestroyAgain(s) \/ Delete(s)

Spec == Init /\ [][Next]_vars

-----------------------------------------------------------------------------
(* Properties.                                                             *)

Labels == {"new", "refused", "failed", "gone", "running", "orphan", "destroy", "twice"}
             \cup Starting
Holders == {s \in Streams : pc[s] \in Holding}
Leaked  == {s \in Streams : At(s, "orphan")}

\* Every variable has its type; the counter stays an unsigned number.
TypeOK ==
    /\ g_active_channels \in 0 .. Modulus - 1
    /\ g_active_sessions \subseteq Calls
    /\ lock \in Streams \cup {Nobody}
    /\ pc \in [Streams -> Labels]
    /\ call \in [Streams -> Calls \cup {Nobody}]
    /\ current \in [Streams -> 0 .. Modulus - 1]
    /\ streamer \in [Streams -> {"none", "running", "stillborn", "finished", "deleted"}]
    /\ healed \in BOOLEAN

\* As long as the counter was never replaced, it differs from the number of streams that
\* hold a slot by two errors of the code and no other: the slots that a failed
\* switch_core_media_bug_add() leaks, and those that are given back twice after a pause.
\* More slots given back than taken show as a number just below 2^32.
CounterIsSlots ==
    ~healed =>
        g_active_channels + Cardinality(Doubled)
            \in {Cardinality(Holders) + Cardinality(Leaked),
                 Cardinality(Holders) + Cardinality(Leaked) + Modulus}

\* The limit is checked before the slot is taken, so starts that check it together can
\* exceed it, but only by the number of threads that start besides the first, and by the
\* slots that were given back twice; a leaked slot is as good as taken.
OvershootBounded ==
    ~healed => Cardinality(Holders) + Cardinality(Leaked)
                   < MaxChannels + ApiThreads + Cardinality(Doubled)

\* A start is refused only when that many calls are registered or about to be, however
\* the counter drifted or wrapped before; except that a slot given back between the
\* replacement and its reading may wrap the new value too.
Wrapped == g_active_channels >= Modulus - 2 * Cardinality(Streams)

RefusedAtLimit ==
    [][\A s \in Streams :
          pc[s] # "refused" /\ pc'[s] = "refused" =>
              \/ Cardinality(g_active_sessions)
                    + Cardinality({x \in Streams : At(x, "allocate")}) >= MaxChannels
              \/ At(s, "reload") /\ Wrapped]_vars

\* A running stream is registered, unless an older stream of the call has unregistered it
\* behind its back (finish() and ~AudioStreamer() both erase by uuid), or its own
\* constructor caught an exception.
RegisteredUnlessErased ==
    \A s \in Streams :
        At(s, "running") /\ call[s] \notin g_active_sessions =>
            \E x \in Streams : /\ call[x] = call[s]
                               /\ \/ x # s /\ streamer[x] \in {"finished", "deleted"}
                                  \/ streamer[x] = "stillborn"
=============================================================================
