--------------------------- MODULE StreamTeardown ---------------------------
(***************************************************************************)
(* What the ways to end a stream (stop, hangup, a closed bug, a websocket  *)
(* error) promise together, without their threads, calls, bugs and locks.  *)
(* A stream is claimed once, by one of them; its AudioStreamer is unhooked *)
(* and then deleted, once; after the claim no audio is written to it; and  *)
(* its slot is given back with its mutex, when the streamer is unhooked.   *)
(***************************************************************************)
CONSTANT Streams

VARIABLES
    state,      \* "off", "on", "claimed" (close_requested) or "gone" (mutex destroyed)
    streamer,   \* the AudioStreamer: "none", "running", "finishing" or "deleted"
    slot,       \* whether the stream counts as an active channel
    writing     \* the streams that audio is being written to

teardownVars == <<state, streamer, slot, writing>>

Init ==
    /\ state = [g \in Streams |-> "off"]
    /\ streamer = [g \in Streams |-> "none"]
    /\ slot = [g \in Streams |-> FALSE]
    /\ writing = {}

Moves(g, from, to) == state[g] = from /\ state' = [state EXCEPT ![g] = to]

\* stream_data_init(), which may fail when the streamer is running.
Open(g) ==
    /\ streamer[g] = "none" /\ streamer' = [streamer EXCEPT ![g] = "running"]
    /\ Moves(g, "off", "on")
    /\ \E counted \in BOOLEAN : slot' = [slot EXCEPT ![g] = counted]
    /\ UNCHANGED writing

\* stream_frame(), from its lock to its unlock.
BeginWrite(g) ==
    /\ state[g] = "on" /\ streamer[g] = "running"
    /\ writing = {} /\ writing' = {g}
    /\ UNCHANGED <<state, streamer, slot>>

EndWrite == writing # {} /\ writing' = {} /\ UNCHANGED <<state, streamer, slot>>

\* close_requested = 1, while no audio is written.
Claim(g) ==
    /\ Moves(g, "on", "claimed")
    /\ g \notin writing
    /\ UNCHANGED <<streamer, slot, writing>>

\* finish()
Unhook(g) ==
    /\ streamer[g] = "running" /\ streamer' = [streamer EXCEPT ![g] = "finishing"]
    /\ state[g] = "claimed"
    /\ UNCHANGED <<state, slot, writing>>

\* destroy_tech_pvt() has nothing left to delete.
Release(g) ==
    /\ Moves(g, "claimed", "gone")
    /\ streamer[g] # "running"
    /\ slot' = [slot EXCEPT ![g] = FALSE]
    /\ UNCHANGED <<streamer, writing>>

\* The detached thread of finish().
Delete(g) ==
    /\ streamer[g] = "finishing" /\ streamer' = [streamer EXCEPT ![g] = "deleted"]
    /\ UNCHANGED <<state, slot, writing>>

Next ==
    \/ EndWrite
    \/ \E g \in Streams : Open(g) \/ BeginWrite(g) \/ Claim(g) \/ Unhook(g) \/ Release(g)
                          \/ Delete(g)

Spec == Init /\ [][Next]_teardownVars
=============================================================================
