------------------------------ MODULE WscClient ------------------------------
(***************************************************************************)
(* One connection of libwsc's WebSocketClient                              *)
(* (libs/libwsc/libwsc/WebSocketClient.cpp): its owner, which connects,    *)
(* disconnects and destroys it; its event thread, which runs libevent's    *)
(* loop and the callbacks; the helper thread a disconnect on the event     *)
(* thread leaves its work to; and threads that send.                       *)
(*                                                                         *)
(* AudioStreamer connects twice and disconnects as the owner only; the     *)
(* example of libwsc's README connects once, and disconnects in the error  *)
(* callback and at the end as well.                                        *)
(*                                                                         *)
(* What libevent does is said here as this code relies on it: the loop     *)
(* runs until event_base_loopexit(), and without BEV_OPT_UNLOCK_CALLBACKS  *)
(* the bufferevent's callbacks run with its lock held.                     *)
(***************************************************************************)
EXTENDS Integers, Sequences

CONSTANTS
    Senders,        \* threads that call sendMessage() and sendBinary()
    Owner, Loop, Helper,
    Users,          \* who owns a client: a subset of {"streamer", "example"}
    MaxQueue,       \* MAX_QUEUE_SIZE
    MaxSends,       \* bound of the model: messages of a sender that are accepted
    CLOSE           \* the close frame

ASSUME ClientAssumption ==
    /\ MaxQueue \in Nat /\ MaxSends \in Nat
    /\ Users # {} /\ Users \subseteq {"streamer", "example"}
    /\ Owner # Loop /\ Owner # Helper /\ Loop # Helper
    /\ {Owner, Loop, Helper} \cap Senders = {}
    /\ CLOSE \notin Senders \X (1 .. MaxSends)

Threads  == Senders \cup {Owner, Loop, Helper}
Messages == Senders \X (1 .. MaxSends)

VARIABLES
    pc,          \* where each thread is
    resume,      \* where the event thread goes on after a callback that disconnects
    state,       \* connection_state
    bev,         \* base, dns_base and m_bev: "none", "live" or "freed"
    thread,      \* the event thread: "none", "looping" or "exited"
    event_thread,\* the pointer to it was stored
    locked,      \* the event thread holds the bufferevent's lock
    loopexit,    \* event_base_loopexit() was called
    upgraded,
    sent_close,
    events,      \* what the loop has seen: each happens once at most
    send_queue,
    late,        \* history: packets that came to the queue after it was flushed
    output,      \* frames handed to the bufferevent
    sends,       \* messages each sender had accepted so far
    calls,       \* disconnect() calls of the owner so far
    user,        \* whose client it is in this behaviour
    early        \* history: a callback disconnected before event_thread was stored

vars == <<pc, resume, state, bev, thread, event_thread, locked, loopexit, upgraded, sent_close,
          events, send_queue, late, output, sends, calls, user, early>>

resources == <<bev, thread, event_thread, loopexit>>
callers   == <<sends, calls, user, early>>
queue     == <<send_queue, late>>
frames    == <<upgraded, sent_close, queue, output>>
loop      == <<resume, locked, events>>

running == thread = "looping"

Goto(t, label) == pc' = [pc EXCEPT ![t] = label]

Init ==
    /\ pc = [t \in Threads |-> IF t = Owner THEN "new" ELSE IF t = Loop THEN "loop" ELSE "idle"]
    /\ resume = "loop" /\ state = "DISCONNECTED"
    /\ bev = "none" /\ thread = "none" /\ event_thread = FALSE /\ locked = FALSE /\ loopexit = FALSE
    /\ upgraded = FALSE /\ sent_close = FALSE /\ events = {}
    /\ send_queue = <<>> /\ late = {} /\ output = <<>>
    /\ sends = [s \in Senders |-> 0] /\ calls = 0
    /\ user \in Users /\ early = FALSE

-----------------------------------------------------------------------------
(* The owner: connect(), disconnect(), ~WebSocketClient().                 *)

\* AudioStreamer connects in its constructor and again once the bug is attached.
ConnectsNoMore == pc[Owner] = "connect_again" \/ user = "example"

\* connect() is refused before the state changes, or fails afterwards (an error callback
\* that disconnects then has nothing to stop or free).
ConnectFails ==
    /\ pc[Owner] \in {"new", "connect_again"}
    /\ Goto(Owner, IF ConnectsNoMore THEN "idle" ELSE "connect_again")
    /\ \/ UNCHANGED state
       \/ ~running /\ state' = IF user = "example" THEN "DISCONNECTED" ELSE "CONNECTING"
    /\ UNCHANGED <<resources, loop, frames, callers>>

\* connect() starts the event thread, which runs at once ...
StartThread ==
    /\ pc[Owner] \in {"new", "connect_again"} /\ ~running
    /\ Goto(Owner, IF ConnectsNoMore THEN "assign_last" ELSE "assign")
    /\ state' = "CONNECTING" /\ bev' = "live" /\ thread' = "looping"
    /\ UNCHANGED <<event_thread, loopexit, loop, frames, callers>>

\* ... and stores the pointer to it afterwards.
AssignThread ==
    /\ pc[Owner] \in {"assign", "assign_last"}
    /\ Goto(Owner, IF pc[Owner] = "assign" THEN "connect_again" ELSE "idle")
    /\ event_thread' = TRUE
    /\ UNCHANGED <<state, bev, thread, loopexit, loop, frames, callers>>

\* disconnect(), and then the destructor, which calls it again.
OwnerDisconnects ==
    /\ pc[Owner] \in {"connect_again", "idle"} /\ calls < 2
    /\ calls' = calls + 1
    /\ Goto(Owner, "check")
    /\ UNCHANGED <<loop, state, resources, frames, sends, user, early>>

-----------------------------------------------------------------------------
(* disconnect(), on the owner's thread or on the event thread.             *)

\* Where the caller of disconnect() goes on.
Caller(t) == IF t = Loop THEN resume ELSE IF calls = 2 THEN "destroyed" ELSE "idle"

Releases(t) == locked' = (locked /\ ~(t = Loop /\ Caller(t) = "loop"))

CheckStateFailedToo(t) ==   \* mutant: a failed connection is taken for a closed one
    /\ pc[t] = "check"
    /\ IF state \in {"DISCONNECTING", "DISCONNECTED", "FAILED"}
       THEN Goto(t, Caller(t)) /\ Releases(t)
       ELSE Goto(t, "mark") /\ UNCHANGED locked
    /\ UNCHANGED <<resume, events, state, resources, frames, callers>>

CheckState(t) ==
    /\ pc[t] = "check"
    /\ IF state \in {"DISCONNECTING", "DISCONNECTED"}
       THEN Goto(t, Caller(t)) /\ Releases(t)
       ELSE Goto(t, "mark") /\ UNCHANGED locked
    /\ UNCHANGED <<resume, events, state, resources, frames, callers>>

MarkDisconnecting(t) ==
    /\ pc[t] = "mark" /\ Goto(t, "close")
    /\ state' = "DISCONNECTING"
    /\ UNCHANGED <<loop, resources, frames, callers>>

MayCloseAgain == upgraded /\ bev = "live"   \* mutant: sent_close is not looked at

\* close() up to the exchange of sent_close.
MayClose == upgraded /\ bev = "live" /\ ~sent_close

Close(t) ==
    /\ pc[t] = "close"
    /\ IF MayClose THEN sent_close' = TRUE /\ Goto(t, "send_close")
                   ELSE Goto(t, "shutdown") /\ UNCHANGED sent_close
    /\ UNCHANGED <<loop, state, resources, upgraded, queue, output, callers>>

CanClose == bev = "live" /\ state \in {"CONNECTED", "DISCONNECTING"}

NotLockedOut(t) == t # t   \* mutant: BEV_OPT_UNLOCK_CALLBACKS among the options

\* sendData(CLOSE) locks the bufferevent, which the event thread may hold.
LockedOut(t) == locked /\ t # Loop

SendClose(t) ==
    /\ pc[t] = "send_close" /\ ~LockedOut(t)
    /\ IF CanClose THEN output' = Append(output, CLOSE) /\ Goto(t, "wait")
                   ELSE Goto(t, "shutdown") /\ UNCHANGED output
    /\ UNCHANGED <<loop, state, resources, upgraded, sent_close, queue, callers>>

\* The wait for the peer's close frame is over when it came or after two seconds: at any time.
WaitForClose(t) ==
    /\ pc[t] = "wait" /\ Goto(t, "shutdown")
    /\ UNCHANGED <<loop, state, resources, frames, callers>>

ShutdownUpgraded(t) ==   \* mutant: only an upgraded connection's loop is stopped
    /\ pc[t] = "shutdown" /\ ~LockedOut(t)
    /\ loopexit' = (loopexit \/ (bev = "live" /\ running /\ upgraded))
    /\ Goto(t, IF t = Loop THEN "defer" ELSE "join")
    /\ UNCHANGED <<loop, state, bev, thread, event_thread, frames, callers>>

Shutdown(t) ==
    /\ pc[t] = "shutdown"
    /\ \/ bev = "live" /\ running /\ ~LockedOut(t) /\ loopexit' = TRUE
       \/ ~(bev = "live" /\ running) /\ UNCHANGED loopexit
    /\ Goto(t, IF t = Loop THEN "defer" ELSE "join")
    /\ UNCHANGED <<loop, state, bev, thread, event_thread, frames, callers>>

\* The event thread cannot join itself: a detached thread waits for running to be
\* false, and does the rest.
Defer ==
    /\ pc[Loop] = "defer" /\ event_thread
    /\ pc' = [pc EXCEPT ![Loop] = resume, ![Helper] = "join"]
    /\ Releases(Loop)
    /\ UNCHANGED <<resume, events, state, resources, frames, callers>>

\* But it takes itself for another thread when the pointer was not stored yet, and does the
\* rest under its own loop.  (If connect() stores the pointer while it does, it joins itself
\* or deletes a thread that runs, and the process ends; or it forgets the pointer.)
DeferMissed ==
    /\ pc[Loop] = "defer" /\ ~event_thread
    /\ early' = TRUE
    /\ Goto(Loop, "cleanup")
    /\ UNCHANGED <<loop, state, resources, frames, sends, calls, user>>

JoinSkipped(t) ==   \* mutant: detach() instead of join()
    /\ pc[t] = "join" /\ Goto(t, "cleanup")
    /\ UNCHANGED <<loop, state, resources, frames, callers>>

\* The owner joins the thread it has a pointer to, and the helper waits for the loop before.
\* Two that join at once are undefined: the process ends, or one of them finds it joined.
Join(t) ==
    /\ pc[t] = "join"
    /\ thread # "looping" \/ (t = Owner /\ ~event_thread)
    /\ thread' = IF event_thread THEN "none" ELSE thread
    /\ event_thread' = FALSE
    /\ Goto(t, "cleanup")
    /\ UNCHANGED <<loop, state, bev, loopexit, frames, callers>>

\* cleanup(), and the final state.
Cleanup(t) ==
    /\ pc[t] = "cleanup"
    /\ bev' = IF bev = "live" THEN "freed" ELSE bev
    /\ event_thread' = (event_thread /\ t # Loop)
    /\ upgraded' = FALSE
    /\ state' = "DISCONNECTED"
    /\ Goto(t, IF t = Helper THEN "done" ELSE Caller(t))
    /\ Releases(t)
    /\ UNCHANGED <<resume, events, thread, loopexit, sent_close, queue, output, callers>>

Disconnect(t) ==
    CheckState(t) \/ MarkDisconnecting(t) \/ Close(t) \/ SendClose(t) \/ WaitForClose(t) \/ Shutdown(t)

-----------------------------------------------------------------------------
(* The event thread.                                                       *)

\* The loop picks up an event that did not happen yet.
Dispatches(event) ==
    /\ pc[Loop] = "loop" /\ running /\ bev = "live" /\ event \notin events
    /\ events' = events \cup {event}

\* After EOF or an error the socket is not read any more.
Reads == {"eof", "error"} \cap events = {}

\* sendError() runs the error callback; label is what the handler does then.
ErrorCallback(label) ==
    IF user = "example"
    THEN Goto(Loop, "check") /\ resume' = label
    ELSE Goto(Loop, label) /\ UNCHANGED resume

\* The handler holds the bufferevent's lock until it is back in the loop.
HoldsLock == locked' = (pc'[Loop] # "loop")

\* BEV_EVENT_CONNECTED: the handshake is sent, unless the certificate is refused, which
\* only runs the error callback.
Connected ==
    /\ {"connected", "refused"} \cap events = {} /\ Reads
    /\ \/ Dispatches("connected") /\ UNCHANGED <<pc, resume>>
       \/ Dispatches("refused") /\ ErrorCallback("loop")
    /\ HoldsLock
    /\ UNCHANGED <<state, resources, frames, callers>>

\* handleRead() before the upgrade: the answer is refused, or accepted and upgraded set.
Response ==
    /\ Dispatches("response") /\ "connected" \in events /\ Reads
    /\ \/ state' = "FAILED" /\ ErrorCallback("loop") /\ UNCHANGED upgraded
       \/ ErrorCallback("upgrade") /\ UNCHANGED <<state, upgraded>>
       \/ Goto(Loop, "upgrade") /\ UNCHANGED <<state, upgraded, resume>>
    /\ HoldsLock
    /\ UNCHANGED <<resources, sent_close, queue, output, callers>>

Upgrade ==
    /\ pc[Loop] = "upgrade" /\ Goto(Loop, "connect")
    /\ upgraded' = TRUE
    /\ UNCHANGED <<loop, state, resources, sent_close, queue, output, callers>>

SetConnected ==
    /\ pc[Loop] = "connect" /\ Goto(Loop, "flush")
    /\ state' = "CONNECTED"
    /\ UNCHANGED <<loop, resources, frames, callers>>

FlushOne ==   \* mutant: if (!send_queue.empty()) instead of while
    /\ pc[Loop] = "flush" /\ send_queue # <<>>
    /\ output' = IF bev = "live" /\ state = "CONNECTED" THEN Append(output, Head(send_queue)) ELSE output
    /\ send_queue' = Tail(send_queue)
    /\ Goto(Loop, "loop") /\ HoldsLock
    /\ UNCHANGED <<late, resume, events, state, resources, upgraded, sent_close, callers>>

\* flushSendQueue() gives each packet to sendData(), and drops it when that refuses.
Flush ==
    /\ pc[Loop] = "flush" /\ send_queue # <<>>
    /\ output' = IF bev = "live" /\ state = "CONNECTED" THEN Append(output, Head(send_queue)) ELSE output
    /\ send_queue' = Tail(send_queue)
    /\ UNCHANGED <<late, pc, loop, state, resources, upgraded, sent_close, callers>>

\* The queue is empty: the open callback runs, and the handler returns.
Opened ==
    /\ pc[Loop] = "flush" /\ send_queue = <<>>
    /\ Goto(Loop, "loop") /\ HoldsLock
    /\ UNCHANGED <<resume, events, state, resources, frames, callers>>

\* receive(): a frame the protocol forbids is answered by close(), and so is the
\* peer's close frame after the close callback, unless a close frame was sent.
FrameArrives ==
    /\ upgraded /\ Reads
    /\ \/ Dispatches("bad_frame") /\ Goto(Loop, "reply")
       \/ Dispatches("close_frame") /\ Goto(Loop, IF sent_close THEN "loop" ELSE "reply")
    /\ HoldsLock
    /\ UNCHANGED <<resume, state, resources, frames, callers>>

Reply ==
    /\ pc[Loop] = "reply" /\ Goto(Loop, "loop")
    /\ sent_close' = (sent_close \/ MayClose)
    /\ output' = IF MayClose /\ CanClose THEN Append(output, CLOSE) ELSE output
    /\ HoldsLock
    /\ UNCHANGED <<resume, events, state, resources, upgraded, queue, callers>>

\* BEV_EVENT_EOF: the state, and then the close callback.
Eof ==
    /\ Dispatches("eof") /\ Reads
    /\ state' = "DISCONNECTED"
    /\ UNCHANGED <<pc, resume, locked, resources, frames, callers>>

\* BEV_EVENT_ERROR: the error callback, and then the state.
Error ==
    /\ Dispatches("error") /\ ErrorCallback("failed") /\ HoldsLock
    /\ UNCHANGED <<state, resources, frames, callers>>

SetFailed ==
    /\ pc[Loop] = "failed" /\ Goto(Loop, "loop") /\ HoldsLock
    /\ state' = "FAILED"
    /\ UNCHANGED <<resume, events, resources, frames, callers>>

\* timeoutCallback(), which is no callback of the bufferevent.
Timeout ==
    /\ Dispatches("timeout")
    /\ IF state \in {"CONNECTED", "FAILED"} THEN UNCHANGED <<pc, resume>> ELSE ErrorCallback("loop")
    /\ UNCHANGED <<state, locked, resources, frames, callers>>

LoopExits ==
    /\ pc[Loop] = "loop" /\ running /\ loopexit
    /\ thread' = "exited"
    /\ UNCHANGED <<pc, loop, state, bev, event_thread, loopexit, frames, callers>>

-----------------------------------------------------------------------------
(* sendData() on the sender's own thread.                                  *)

\* m_bev, connection_state and upgraded are read here, and used in the next step; what is
\* refused here changes nothing and has no number.
SendData(s) ==
    /\ pc[s] = "idle" /\ sends[s] < MaxSends /\ pc[Owner] # "destroyed"
    /\ bev = "live"
    /\ \/ state = "CONNECTING" /\ Goto(s, "queue")
       \/ state = "CONNECTED" /\ upgraded /\ Goto(s, "send")
    /\ sends' = [sends EXCEPT ![s] = @ + 1]
    /\ UNCHANGED <<loop, state, resources, frames, calls, user, early>>

\* flushSendQueue() holds send_queue_mutex.
Enqueue(s) ==
    /\ pc[s] = "queue" /\ pc[Loop] # "flush" /\ Goto(s, "idle")
    /\ send_queue' = IF Len(send_queue) < MaxQueue THEN Append(send_queue, <<s, sends[s]>>)
                     ELSE send_queue
    /\ late' = IF state # "CONNECTED" THEN late ELSE late \cup {<<s, sends[s]>>}
    /\ UNCHANGED <<loop, state, resources, upgraded, sent_close, output, callers>>

\* The bufferevent may have been freed since it was looked at: a crash, which ends the
\* behaviour, or a write that reaches nobody.
Write(s) ==
    /\ pc[s] = "send" /\ ~LockedOut(s) /\ Goto(s, "idle")
    /\ output' = IF bev = "live" THEN Append(output, <<s, sends[s]>>) ELSE output
    /\ UNCHANGED <<loop, state, resources, upgraded, sent_close, queue, callers>>

-----------------------------------------------------------------------------

OwnerStep  == \/ ConnectFails \/ StartThread \/ AssignThread \/ OwnerDisconnects
              \/ Disconnect(Owner) \/ Join(Owner) \/ Cleanup(Owner)
HelperStep == Join(Helper) \/ Cleanup(Helper)
LoopStep   == \/ Connected \/ Response \/ Upgrade \/ SetConnected \/ Flush \/ Opened
              \/ FrameArrives \/ Reply \/ Eof \/ Error \/ SetFailed \/ Timeout \/ LoopExits
              \/ Disconnect(Loop) \/ Defer \/ DeferMissed \/ Cleanup(Loop)
SenderStep(s) == SendData(s) \/ Enqueue(s) \/ Write(s)

Next == OwnerStep \/ HelperStep \/ LoopStep \/ \E s \in Senders : SenderStep(s)

\* Every thread that has something to do runs on; nobody has to connect, to disconnect
\* or to send, and no event has to happen but the end of the loop when it was asked for.
Working == \/ Upgrade \/ SetConnected \/ Flush \/ Opened \/ Reply \/ SetFailed
           \/ Disconnect(Loop) \/ Defer \/ DeferMissed \/ Cleanup(Loop)

Fairness ==
    /\ WF_vars(AssignThread \/ Disconnect(Owner) \/ Join(Owner) \/ Cleanup(Owner))
    /\ WF_vars(HelperStep)
    /\ WF_vars(Working)
    /\ WF_vars(LoopExits)
    /\ \A s \in Senders : WF_vars(Enqueue(s) \/ Write(s))

Spec == Init /\ [][Next]_vars /\ Fairness

-----------------------------------------------------------------------------
(* Properties.                                                             *)

DisconnectLabels == {"check", "mark", "close", "send_close", "wait", "shutdown"}

\* Every variable has its type, and the queue is never longer than MAX_QUEUE_SIZE.
TypeOK ==
    /\ pc[Owner] \in DisconnectLabels \cup
          {"new", "assign", "connect_again", "assign_last", "idle", "join", "cleanup", "destroyed"}
    /\ pc[Loop] \in DisconnectLabels \cup
          {"loop", "upgrade", "connect", "flush", "reply", "failed", "defer", "cleanup"}
    /\ pc[Helper] \in {"idle", "join", "cleanup", "done"}
    /\ \A s \in Senders : pc[s] \in {"idle", "queue", "send"} /\ sends[s] \in 0 .. MaxSends
    /\ resume \in {"loop", "upgrade", "failed"}
    /\ state \in {"DISCONNECTED", "CONNECTING", "CONNECTED", "DISCONNECTING", "FAILED"}
    /\ bev \in {"none", "live", "freed"} /\ thread \in {"none", "looping", "exited"}
    /\ locked \in BOOLEAN /\ loopexit \in BOOLEAN /\ upgraded \in BOOLEAN /\ sent_close \in BOOLEAN
    /\ events \subseteq {"connected", "refused", "response", "bad_frame", "close_frame", "eof", "error", "timeout"}
    /\ late \subseteq Messages
    /\ send_queue \in Seq(Messages) /\ Len(send_queue) <= MaxQueue
    /\ output \in Seq(Messages \cup {CLOSE})
    /\ event_thread \in BOOLEAN /\ early \in BOOLEAN
    /\ calls \in 0 .. 2 /\ user \in Users

\* cleanup() frees the bufferevent and the base without a lock, because the event loop is
\* over by then, also when a callback and the owner disconnect at once; unless a callback
\* disconnected before connect() had stored event_thread.
FreedAfterLoop == running /\ ~early => bev = "live"

\* The owner's disconnect() and the event thread's answers never send two close frames.
OneCloseFrame ==
    \A i, j \in 1 .. Len(output) : output[i] = CLOSE /\ output[j] = CLOSE => i = j

\* What one thread sends goes out in its order and never twice, although the first
\* packets take the way through the queue and the next ones do not.
SentInOrder ==
    /\ TypeOK
    /\ \A i, j \in 1 .. Len(output) :
          i < j /\ output[i] # CLOSE /\ output[j] # CLOSE /\ output[i][1] = output[j][1]
              => output[i][2] < output[j][2]

\* Once the connection is open, what was queued while it was not is on its way; only a
\* packet whose sender had seen CONNECTING before and came after the flush stays behind.
FlushedUnlessLate ==
    state = "CONNECTED" /\ pc[Loop] # "flush" =>
        \A i \in 1 .. Len(send_queue) : send_queue[i] \in late

\* A callback's disconnect() has work left, on the event thread or with the helper.
CallbackDisconnects ==
    \/ pc[Loop] \in {"close", "send_close", "wait", "shutdown", "defer"}
    \/ pc[Helper] \in {"join", "cleanup"}

\* Nothing of a destroyed client lives on: whether connecting, failing or connected,
\* disconnect() ended its event thread.  It returns with the work undone when the state is
\* DISCONNECTED, which EOF stores with the loop alive, or DISCONNECTING, where a callback's
\* disconnect() may be under way; and a callback that came too early has no thread to join.
DestroyedUnlessEof ==
    pc[Owner] = "destroyed" =>
        \/ thread = "none" /\ bev # "live"
        \/ "eof" \in events \/ early \/ CallbackDisconnects

\* A disconnect that begins ends, whoever begins it and whoever joins in: the loop stops,
\* the resources are freed, and the state is DISCONNECTED for good; unless a callback came
\* before event_thread was stored.  (Whether the client itself is still there is
\* DestroyedUnlessEof.)
DisconnectEnds ==
    state = "DISCONNECTING" ~>
        (early \/ [](state = "DISCONNECTED" /\ thread = "none" /\ bev # "live"))
=============================================================================
