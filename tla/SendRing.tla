------------------------------ MODULE SendRing ------------------------------
(***************************************************************************)
(* The send ring of an AudioStreamer (audio_streamer_glue.cpp) and the     *)
(* three threads that meet at it: the media thread that enqueues captured  *)
(* PCM, the sender thread that hands it to the websocket, and libwsc's     *)
(* event thread that opens and drops the connection; plus the start, which *)
(* stores the channel's private while all of them run, and the teardown,   *)
(* which clears it and has finish()'s detached thread stop the sender.     *)
(*                                                                         *)
(* A unit of audio is represented by its number in the captured stream;    *)
(* the ring's slots hold such numbers.  m_send_mutex is held by the sender *)
(* in the states of SenderHoldsLock; every other critical section is one   *)
(* action.  m_send_stop, m_connected and m_audio_ready are atomics, read   *)
(* and written without the lock, one action each where the order matters.  *)
(***************************************************************************)
EXTENDS Integers, Sequences

CONSTANTS
    Cap,         \* SEND_RING_BYTES
    Writes,      \* lengths of the writes of the media thread
    MinDrop,     \* the least the overflow loop drops (320 bytes)
    PreLimit,    \* backlog kept before the socket is up (5000 ms)
    PostLimit,   \* backlog kept once it is up (STREAM_WS_BACKLOG_MS)
    Frames,      \* sizes of a 20 ms frame the sender may compute
    MaxHeard     \* bound of the model: units captured in a behaviour

\* A write may be longer than the ring: one second at 48 kHz stereo is.  The sender may run
\* with the default m_bytes_per_ms until setPcmFormat() has stored the real one, so it has a
\* set of frame sizes.
ASSUME SizesAssumption ==
    /\ Cap \in Nat /\ Cap > 1
    /\ Writes \subseteq Nat \ {0}
    /\ MinDrop \in Nat \ {0} /\ PreLimit \in Nat \ {0} /\ PostLimit \in Nat \ {0}
    /\ Frames \subseteq Nat \ {0}
    /\ MaxHeard \in Nat

VARIABLES
    ring,        \* m_send_ring
    head,        \* m_send_head: where the next unit is written
    tail,        \* m_send_tail: the oldest unit
    used,        \* m_send_used
    dropped,     \* m_dropped_bytes
    heard,       \* units handed to enqueuePcm() since the streamer was created
    clipped,     \* history: those cut off writes that are longer than the ring
    chunk,       \* the sender's local buffer
    taken,       \* units the sender has copied out so far
    sender,      \* where the sender thread is in senderLoop()
    stop,        \* m_send_stop
    connected,   \* m_connected
    ready,       \* m_audio_ready
    link,        \* what sendBinary() sees of the connection
    events,      \* where the event thread is in the open/close callbacks
    private,     \* the channel's private points to the bug
    announced,   \* what became of the initial metadata
    sent,        \* history: some audio went out
    stopper      \* where the teardown is, with finish()'s thread in disconnect()

ringVars  == <<ring, head, tail, used, dropped, heard, clipped>>
flagVars  == <<connected, ready>>
session   == <<private, announced, sent>>
vars == <<ring, head, tail, used, dropped, heard, clipped, chunk, taken, sender, stop,
          connected, ready, link, events, private, announced, sent, stopper>>

Slots == 0 .. Cap - 1
AtMost(a, b)  == IF a < b THEN a ELSE b
AtLeast(a, b) == IF a > b THEN a ELSE b

\* The slot of the i-th oldest unit, and the queue a reader of the ring sees.
SlotOf(i) == (tail + i - 1) % Cap
Content == [i \in 1 .. used |-> ring[SlotOf(i)]]

SenderHoldsLock == sender \in {"check", "enter", "woke"}

\* notify_one/notify_all reach the sender only when it is blocked in wait_for.
Notified == IF sender = "blocked" THEN "check" ELSE sender

-----------------------------------------------------------------------------
(* The state after the constructor ran startSender() and start().          *)
Init ==
    /\ ring = [s \in Slots |-> 0]
    /\ head = 0 /\ tail = 0 /\ used = 0
    /\ dropped = 0 /\ heard = 0 /\ clipped = 0
    /\ chunk = <<>> /\ taken = 0
    /\ sender = "top" /\ stop = FALSE
    /\ connected = FALSE /\ ready = FALSE
    /\ link = "connecting" /\ events = "connecting"
    /\ private = FALSE /\ announced = "no" /\ sent = FALSE
    /\ stopper = "idle"

-----------------------------------------------------------------------------
(* The media thread: writeBinary() and enqueuePcm().                       *)

\* How much of a write is kept, its end, when it does not fit the ring at all.
Clipped(len) == IF len >= Cap THEN Cap - 1 ELSE len

\* What the overflow loop leaves in the ring before a write of n units.
\* One pass is enough, see MakeRoomIsEnough in SendRing_proofs.
AfterOverflow(n) ==
    IF used + n > Cap /\ used > 0
    THEN used - AtMost(used, AtLeast(n, MinDrop))
    ELSE used

WrittenOneMemcpy(n, first) ==
    [s \in Slots |-> IF s \in head .. head + n - 1 THEN first + (s - head) ELSE ring[s]]

\* The two memcpy calls: n units from the one numbered first on, at their offsets from head.
Written(n, first) ==
    [s \in Slots |-> LET off == (s - head) % Cap
                     IN  IF off < n THEN first + off ELSE ring[s]]

\* What m_dropped_bytes grows by: the overflow loop's and the backlog's share.
LostOverflowOnly(room, full, left) == used - room
Lost(room, full, left) == (used - room) + (full - left)

LimitOfLive == PostLimit   \* mutant: STREAM_WS_BACKLOG_MS from the start
Limit == IF ready THEN PostLimit ELSE PreLimit

WriteBinary(len) ==
    /\ stopper \in {"idle", "hung_up"}   \* finish() clears pAudioStreamer
    /\ ~stop
    /\ ~SenderHoldsLock
    /\ heard + len <= MaxHeard
    /\ LET n     == Clipped(len)
           room  == AfterOverflow(n)
           full  == room + n
           left  == AtMost(full, Limit)
       IN  /\ ring' = Written(n, heard + (len - n) + 1)
           /\ head' = (head + n) % Cap
           /\ used' = left
           /\ tail' = (((tail + (used - room)) % Cap) + (full - left)) % Cap
           /\ dropped' = dropped + Lost(room, full, left)
           /\ heard' = heard + len
           /\ clipped' = clipped + (len - n)
    /\ sender' = Notified
    /\ UNCHANGED <<chunk, taken, stop, connected, ready, link, events, session, stopper>>

-----------------------------------------------------------------------------
(* The sender thread: senderLoop().                                        *)

SenderUnchanged == UNCHANGED <<ringVars, chunk, taken, stop, flagVars, link,
                               events, session, stopper>>

WakeCondition == stop \/ (ready /\ connected /\ used > 0)

\* while (!m_send_stop), then the lock.
SenderTop ==
    /\ sender = "top"
    /\ sender' = IF stop THEN "exit" ELSE "check"
    /\ SenderUnchanged

\* wait_for evaluates its predicate with the lock held ...
SenderCheck ==
    /\ sender = "check"
    /\ sender' = IF WakeCondition THEN "woke" ELSE "enter"
    /\ SenderUnchanged

\* ... and gives the lock up as it blocks; a notification before that is lost.
SenderBlock ==
    /\ sender = "enter"
    /\ sender' = "blocked"
    /\ SenderUnchanged

SenderWaitsForever == FALSE

\* The 20 ms are over.
SenderTimeout ==
    /\ sender = "blocked"
    /\ sender' = "woke"
    /\ SenderUnchanged

\* Awake for nothing, or to stop.
SenderIdle ==
    /\ sender = "woke"
    /\ stop \/ ~ready \/ ~connected \/ used = 0
    /\ sender' = IF stop THEN "exit" ELSE "top"
    /\ SenderUnchanged

\* The newest units instead of the oldest.
CopyFromHead ==
    /\ sender = "woke"
    /\ ~stop /\ ready /\ connected /\ used > 0
    /\ \E frame \in Frames :
          LET n == AtMost(used, frame)
          IN  /\ chunk' = [i \in 1 .. n |-> ring[SlotOf(used - n + i)]]
              /\ head' = (head + Cap - n) % Cap
              /\ used' = used - n
              /\ taken' = taken + n
    /\ sender' = "sending"
    /\ UNCHANGED <<ring, tail, dropped, heard, clipped, stop, flagVars, link, events,
                   session, stopper>>

\* Copy one frame out of the ring and give up the lock.
SenderCopy ==
    /\ sender = "woke"
    /\ ~stop /\ ready /\ connected /\ used > 0
    /\ \E frame \in Frames :
          LET n == AtMost(used, frame)
          IN  /\ chunk' = [i \in 1 .. n |-> ring[SlotOf(i)]]
              /\ tail' = (tail + n) % Cap
              /\ used' = used - n
              /\ taken' = taken + n
    /\ sender' = "sending"
    /\ UNCHANGED <<ring, head, dropped, heard, clipped, stop, flagVars, link, events,
                   session, stopper>>

\* sendBinary() without the lock: true when the connection is up.
SenderSend ==
    /\ sender = "sending"
    /\ IF link = "up"
       THEN sender' = "top" /\ sent' = TRUE /\ UNCHANGED connected
       ELSE sender' = "failed" /\ connected' = FALSE /\ UNCHANGED sent
    /\ UNCHANGED <<ringVars, chunk, taken, stop, ready, link, events, private, announced, stopper>>

SenderFailed ==
    /\ sender = "failed"
    /\ ready' = FALSE
    /\ sender' = "top"
    /\ UNCHANGED <<ringVars, chunk, taken, stop, connected, link, events, session, stopper>>

Sender == SenderTop \/ SenderCheck \/ SenderBlock \/ SenderTimeout \/ SenderIdle
          \/ SenderCopy \/ SenderSend \/ SenderFailed

-----------------------------------------------------------------------------
(* The event thread: the callbacks the constructor installs.               *)

OpenForgetsFlag ==
    /\ events \in {"connecting", "closed"} /\ link = "connecting"
    /\ link' = "up"
    /\ events' = "opened"
    /\ UNCHANGED <<ringVars, chunk, taken, sender, stop, flagVars, session, stopper>>

\* The upgrade is done and the open callback begins; it may come after the
\* timeout's error callback, which does not close the socket.
OpenConnected ==
    /\ events \in {"connecting", "closed"} /\ link = "connecting"
    /\ link' = "up"
    /\ connected' = TRUE
    /\ events' = "opened"
    /\ UNCHANGED <<ringVars, chunk, taken, sender, stop, ready, session, stopper>>

\* eventCallback() wants a session that has not hung up; send_initial_metadata() finds the
\* metadata through the channel's private, which a start may not have stored yet and a
\* teardown clears first; and writeText() wants a connection.
Announcement ==
    IF stopper # "idle" THEN "late"
    ELSE IF ~private THEN "early"
    ELSE IF connected /\ link = "up" THEN "sent" ELSE "down"

\* eventCallback(CONNECT_SUCCESS): metadata, then the connect event.
OpenAnnounce ==
    /\ events = "opened"
    /\ announced' = Announcement
    /\ events' = "announced"
    /\ UNCHANGED <<ringVars, chunk, taken, sender, stop, flagVars, link, private, sent, stopper>>

FlushBeforeAnnounce ==
    /\ events \in {"opened", "announced"}
    /\ ~SenderHoldsLock
    /\ ready' = TRUE
    /\ events' = IF events = "opened" THEN "opened" ELSE "open"
    /\ sender' = Notified
    /\ UNCHANGED <<ringVars, chunk, taken, stop, connected, link, session, stopper>>

\* flushPendingAudio(): releases what was captured during the handshake.
FlushPendingAudio ==
    /\ events = "announced"
    /\ ~SenderHoldsLock
    /\ ready' = TRUE
    /\ events' = "open"
    /\ sender' = Notified
    /\ UNCHANGED <<ringVars, chunk, taken, stop, connected, link, session, stopper>>

\* The connection stops carrying data: before, during or after the callback.
LinkDown ==
    /\ link # "down"
    /\ link' = "down"
    /\ UNCHANGED <<ringVars, chunk, taken, sender, stop, flagVars, events, session, stopper>>

\* The error and close callbacks clear the two flags one after the other.
DropConnected ==
    /\ events \in {"connecting", "open"}
    /\ connected' = FALSE
    /\ events' = "dropping"
    /\ UNCHANGED <<ringVars, chunk, taken, sender, stop, ready, link, session, stopper>>

DropReady ==
    /\ events = "dropping"
    /\ ready' = FALSE
    /\ events' = "closed"
    /\ UNCHANGED <<ringVars, chunk, taken, sender, stop, connected, link, session, stopper>>

Events == OpenConnected \/ OpenAnnounce \/ FlushPendingAudio \/ DropConnected \/ DropReady

-----------------------------------------------------------------------------
(* The start and the teardown: the private, and then the thread of         *)
(* finish(), which runs disconnect() with stopSender() inside.             *)

\* do_start() stores the private after the bug was added, the streamer long connecting.
SetPrivate ==
    /\ ~private /\ stopper \in {"idle", "hung_up"}
    /\ private' = TRUE
    /\ UNCHANGED <<ringVars, chunk, taken, sender, stop, flagVars, link, events, announced,
                   sent, stopper>>

\* From the hangup on the session is not located any more; its bugs are closed later.
HangUp ==
    /\ stopper = "idle"
    /\ stopper' = "hung_up"
    /\ UNCHANGED <<ringVars, chunk, taken, sender, stop, flagVars, link, events, session>>

\* A teardown finds the bug through the private, and clears it before all else.
ClearPrivate ==
    /\ private /\ stopper \in {"idle", "hung_up"}
    /\ private' = FALSE /\ stopper' = "private_cleared"
    /\ UNCHANGED <<ringVars, chunk, taken, sender, stop, flagVars, link, events, announced, sent>>

StopperUnchanged == UNCHANGED <<ringVars, chunk, taken, link, events, session>>

DisconnectFlags ==
    /\ \/ /\ stopper = "private_cleared"
          /\ connected' = FALSE /\ stopper' = "connected_cleared"
          /\ UNCHANGED ready
       \/ /\ stopper = "connected_cleared"
          /\ ready' = FALSE /\ stopper' = "ready_cleared"
          /\ UNCHANGED connected
    /\ UNCHANGED <<sender, stop>>
    /\ StopperUnchanged

StopSet ==
    /\ stopper = "ready_cleared"
    /\ stop' = TRUE
    /\ stopper' = "stop_set"
    /\ UNCHANGED <<sender, flagVars>>
    /\ StopperUnchanged

StopNotify ==
    /\ stopper = "stop_set"
    /\ sender' = Notified
    /\ stopper' = "joining"
    /\ UNCHANGED <<stop, flagVars>>
    /\ StopperUnchanged

StopJoined ==
    /\ stopper = "joining"
    /\ sender = "exit"
    /\ stopper' = "joined"
    /\ UNCHANGED <<sender, stop, flagVars>>
    /\ StopperUnchanged

Stopper == DisconnectFlags \/ StopSet \/ StopNotify \/ StopJoined

-----------------------------------------------------------------------------
Next ==
    \/ \E len \in Writes : WriteBinary(len)
    \/ Sender
    \/ Events \/ LinkDown
    \/ SetPrivate \/ HangUp \/ ClearPrivate \/ Stopper

\* The scheduler runs every thread; the clock ends every wait_for.  Nothing
\* makes the media thread speak, the peer answer or a user stop the stream,
\* but a callback or a disconnect that has begun goes on.
Fairness ==
    /\ WF_vars(Sender)
    /\ WF_vars(OpenAnnounce) /\ SF_vars(FlushPendingAudio) /\ WF_vars(DropReady)
    /\ WF_vars(Stopper)

Spec == Init /\ [][Next]_vars /\ Fairness

-----------------------------------------------------------------------------
\* Every variable has its type: head and tail stay inside the ring, and the count of
\* what is in it never exceeds it (m_send_head, m_send_tail, m_send_used).
TypeOK ==
    /\ ring \in [Slots -> Nat]
    /\ head \in Slots /\ tail \in Slots /\ used \in 0 .. Cap
    /\ dropped \in Nat /\ heard \in Nat /\ clipped \in Nat /\ taken \in Nat
    /\ chunk \in Seq(Nat)
    /\ sender \in {"top", "check", "enter", "blocked", "woke", "sending", "failed", "exit"}
    /\ stop \in BOOLEAN /\ connected \in BOOLEAN /\ ready \in BOOLEAN
    /\ private \in BOOLEAN /\ sent \in BOOLEAN
    /\ announced \in {"no", "sent", "early", "late", "down"}
    /\ link \in {"connecting", "up", "down"}
    /\ events \in {"connecting", "opened", "announced", "open", "dropping", "closed"}
    /\ stopper \in {"idle", "hung_up", "private_cleared", "connected_cleared", "ready_cleared",
                    "stop_set", "joining", "joined"}

\* The ring holds the most recent units, in order and without a hole: the
\* head runs into the tail only after the oldest units were given up, and no
\* trim or wrap of the indices loses the place (enqueuePcm, senderLoop).  Only
\* a write longer than the ring, whose beginning is cut, may leave a hole: it
\* fills the ring but for the oldest unit, which is from before.
RingHoldsRecent ==
    /\ head = (tail + used) % Cap
    /\ \A i \in 1 .. used :
          \/ ring[SlotOf(i)] = heard - used + i
          \/ clipped > 0 /\ used = Cap /\ i = 1 /\ ring[SlotOf(i)] <= heard - used

\* m_dropped_bytes counts every unit that was handed in and neither copied out nor waits;
\* but what is cut off a write that is longer than the ring is counted nowhere.
DropsAccounted == heard = taken + used + dropped + clipped

\* No audio goes out before the open callback has dealt with the metadata, for
\* flushPendingAudio() is its last step; nor without the metadata having gone out, unless
\* the answer came before the start had stored the private, or after a hangup or a teardown
\* had begun.  Every variable has its type.
AudioAfterMetadata == TypeOK /\ (sent => announced \in {"sent", "early", "late"})

\* The simple queue, seen in the ring, its lock and its threads.
Queue == INSTANCE PcmQueue WITH Room <- Cap, queue <- Content, batch <- chunk

\* What enqueuePcm and senderLoop do to the ring is what the queue may do.
ImplementsQueue == Queue!Spec

\* Audio is dropped only down to the backlog that is allowed, 5000 ms before the socket
\* is up and STREAM_WS_BACKLOG_MS after it, or to a ring that had no room for the write:
\* no trim takes what an overflow has just made fit.
OnlyBacklogDropped ==
    [][dropped' # dropped =>
          LET fits == Cap + 1 - AtLeast(Clipped(heard' - heard), MinDrop)
          IN  used' >= AtMost(IF ready THEN PostLimit ELSE PreLimit, fits)]_vars

\* The sender's buffers come out in capture order and no audio is sent twice.
InOrder == Queue!InOrder

\* stopSender() returns: the join ends although its notification is sent
\* without m_send_mutex and may be lost.
StopReturns == stopper = "stop_set" ~> stopper = "joined"

\* Audio that waits on an open connection is sent, or the connection ends.
AudioMoves == (events = "open" /\ link = "up" /\ used > 0 /\ stopper = "idle")
                 ~> (sender = "sending" \/ link = "down" \/ events # "open" \/ stopper # "idle")

=============================================================================
