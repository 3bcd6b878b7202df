-------------------------- MODULE WscClient_proofs --------------------------
(***************************************************************************)
(* Proofs about WscClient, for any number of senders and messages and any  *)
(* length of the queue: who may be where when the event thread runs, what  *)
(* becomes of the frames, and what a disconnect leaves behind.             *)
(***************************************************************************)
EXTENDS WscClient, SequenceTheorems, TLAPS

-----------------------------------------------------------------------------
(* The inductive invariant.                                                *)

OwnerLabels  == DisconnectLabels \cup
    {"new", "assign", "connect_again", "assign_last", "idle", "join", "cleanup", "destroyed"}
LoopLabels   == DisconnectLabels \cup
    {"loop", "upgrade", "connect", "flush", "reply", "failed", "defer", "cleanup"}
HelperLabels == {"idle", "join", "cleanup", "done"}
SenderLabels == {"idle", "queue", "send"}

\* Every thread is somewhere, and a sender that is in sendData() has counted its message.
PcFunction == pc = [t \in Threads |-> pc[t]]

Places ==
    /\ PcFunction
    /\ sends \in [Senders -> 0 .. MaxSends]
    /\ \A s \in Senders : pc[s] # "idle" => sends[s] \in 1 .. MaxSends

\* Where a thread can be while the loop runs, and what it knows of the event thread: but for
\* a callback that came too early, whoever frees has joined, and who has no pointer to the
\* event thread has no event thread.
Wiring ==
    /\ FreedAfterLoop
    /\ ~running => pc[Loop] = "loop"
    /\ pc[Owner] = "new" => thread = "none" /\ bev = "none" /\ ~event_thread
    /\ pc[Owner] \in {"assign", "connect_again"} => user = "streamer"
    /\ pc[Helper] # "idle" => user = "example" /\ pc[Owner] \notin {"new", "assign", "assign_last"}
    /\ user = "example" /\ pc[Owner] \in {"assign", "assign_last"} => ~event_thread
    /\ pc[Loop] \in DisconnectLabels \cup {"defer"} => user = "example"
    /\ pc[Loop] = "cleanup" => early
    /\ ~early /\ pc[Owner] \notin {"assign", "assign_last"} /\ ~event_thread => thread = "none"
    /\ pc[Owner] = "cleanup" \/ pc[Helper] = "cleanup" => early \/ thread = "none"

\* A close frame is sent by whoever set sent_close, which only one thread can.
NoClose == \A i \in 1 .. Len(output) : output[i] # CLOSE

CloseOnce ==
    /\ OneCloseFrame
    /\ sent_close \/ NoClose
    /\ pc[Owner] = "send_close" \/ pc[Loop] = "send_close" => sent_close /\ NoClose
    /\ pc[Owner] = "send_close" => pc[Loop] # "send_close"

\* The event thread holds the lock wherever it is in a handler of the bufferevent.
LockHeld ==
    \/ pc[Loop] \in {"upgrade", "connect", "flush"}
    \/ pc[Loop] \in DisconnectLabels \cup {"defer", "cleanup"} /\ resume # "loop"
    => locked

\* Whoever is to flush the queue has had the answer.
Answered ==
    \/ pc[Loop] \in {"upgrade", "connect", "flush"}
    \/ pc[Loop] \in DisconnectLabels \cup {"defer", "cleanup"} /\ resume = "upgrade"
    => "response" \in events

\* The queue has not been flushed yet.
BeforeFlush ==
    \/ "response" \notin events
    \/ pc[Loop] \in {"upgrade", "connect"}
    \/ pc[Loop] \in DisconnectLabels \cup {"defer", "cleanup"} /\ resume = "upgrade"

OnlyClose   == \A i \in 1 .. Len(output) : output[i] = CLOSE
NobodySends == \A s \in Senders : pc[s] # "send"

Unopened == BeforeFlush => state # "CONNECTED" /\ OnlyClose /\ NobodySends

\* What sender s hands over comes after all that it handed over before.
Before(packet) ==
    packet[2] <= sends[packet[1]] /\ (pc[packet[1]] # "idle" => packet[2] < sends[packet[1]])

OutputBefore  == \A i \in 1 .. Len(output) : output[i] # CLOSE => Before(output[i])
QueueBefore   == \A i \in 1 .. Len(send_queue) : Before(send_queue[i])

OutputInOrder ==
    \A i, j \in 1 .. Len(output) :
        i < j /\ output[i] # CLOSE /\ output[j] # CLOSE /\ output[i][1] = output[j][1]
            => output[i][2] < output[j][2]
QueueInOrder ==
    \A i, j \in 1 .. Len(send_queue) :
        i < j /\ send_queue[i][1] = send_queue[j][1] => send_queue[i][2] < send_queue[j][2]
OutputFirst ==
    \A i \in 1 .. Len(output), j \in 1 .. Len(send_queue) :
        output[i] # CLOSE /\ output[i][1] = send_queue[j][1] => output[i][2] < send_queue[j][2]

Ordered ==
    /\ OutputBefore /\ QueueBefore /\ OutputInOrder /\ QueueInOrder
    /\ pc[Loop] = "flush" => OutputFirst

\* DISCONNECTED is the truth, but for EOF and a callback that came too early, and while the
\* state is DISCONNECTING somebody is at work.
OwnerAtWork == pc[Owner] \in {"close", "send_close", "wait", "shutdown", "join", "cleanup"}

Truthful ==
    /\ state = "DISCONNECTED" => "eof" \in events \/ early \/ (thread = "none" /\ bev # "live")
    /\ state = "DISCONNECTING" => OwnerAtWork \/ CallbackDisconnects \/ early
    /\ DestroyedUnlessEof

\* The inductive invariant.
IInv ==
    /\ TypeOK /\ Places /\ Wiring /\ CloseOnce /\ LockHeld /\ Answered /\ Unopened
    /\ Ordered /\ FlushedUnlessLate /\ Truthful

-----------------------------------------------------------------------------
(* Moves of a thread.                                                      *)

LEMMA Distinct ==
    /\ Owner \in Threads /\ Loop \in Threads /\ Helper \in Threads /\ Senders \subseteq Threads
    /\ Owner # Loop /\ Owner # Helper /\ Loop # Helper
    /\ \A s \in Senders : s # Owner /\ s # Loop /\ s # Helper
  BY ClientAssumption DEF Threads

LEMMA Moves ==
    ASSUME Places, NEW t \in Threads, NEW label, Goto(t, label)
    PROVE  /\ PcFunction'
           /\ pc'[t] = label
           /\ \A u \in Threads : u # t => pc'[u] = pc[u]
  BY DEF Goto, Places, PcFunction

\* What Goto does, seen from each thread.
SendersStay == \A s \in Senders : pc'[s] = pc[s]

\* One thread goes to label, and the others stay.
OwnerAt(label) ==
    /\ pc'[Owner] = label /\ pc'[Loop] = pc[Loop] /\ pc'[Helper] = pc[Helper]
    /\ SendersStay /\ PcFunction'
LoopAt(label) ==
    /\ pc'[Owner] = pc[Owner] /\ pc'[Loop] = label /\ pc'[Helper] = pc[Helper]
    /\ SendersStay /\ PcFunction'
HelperAt(label) ==
    /\ pc'[Owner] = pc[Owner] /\ pc'[Loop] = pc[Loop] /\ pc'[Helper] = label
    /\ SendersStay /\ PcFunction'
SenderAt(s, label) ==
    /\ pc'[Owner] = pc[Owner] /\ pc'[Loop] = pc[Loop] /\ pc'[Helper] = pc[Helper]
    /\ pc'[s] = label /\ (\A r \in Senders \ {s} : pc'[r] = pc[r]) /\ PcFunction'

LEMMA OwnerMoves == ASSUME Places, NEW label, Goto(Owner, label) PROVE OwnerAt(label)
  BY Moves, Distinct DEF SendersStay, OwnerAt

LEMMA LoopMoves == ASSUME Places, NEW label, Goto(Loop, label) PROVE LoopAt(label)
  BY Moves, Distinct DEF SendersStay, LoopAt

LEMMA HelperMoves == ASSUME Places, NEW label, Goto(Helper, label) PROVE HelperAt(label)
  BY Moves, Distinct DEF SendersStay, HelperAt

LEMMA SenderMoves ==
    ASSUME Places, NEW s \in Senders, NEW label, Goto(s, label) PROVE SenderAt(s, label)
  BY Moves, Distinct DEF SenderAt

LEMMA DeferMoves ==
    ASSUME Places, Defer
    PROVE  /\ pc'[Loop] = resume /\ pc'[Helper] = "join" /\ pc'[Owner] = pc[Owner] /\ SendersStay
           /\ PcFunction'
  BY Distinct DEF Defer, Places, PcFunction, SendersStay

LEMMA NoMove == ASSUME Places, UNCHANGED pc PROVE LoopAt(pc[Loop])
  BY DEF Places, PcFunction, SendersStay, LoopAt

LEMMA ResponseMoves ==
    ASSUME Response
    PROVE  ErrorCallback("loop") \/ ErrorCallback("upgrade") \/ Goto(Loop, "upgrade")
  BY DEF Response

LEMMA CountedCall == \A n \in 0 .. 2 : n < 2 => n + 1 \in 0 .. 2
  OBVIOUS

LEMMA Appended ==
    ASSUME NEW S, NEW q \in Seq(S), NEW e \in S
    PROVE  /\ Append(q, e) \in Seq(S) /\ Len(Append(q, e)) = Len(q) + 1 /\ Len(q) \in Nat
           /\ \A i \in 1 .. Len(q) : Append(q, e)[i] = q[i]
           /\ Append(q, e)[Len(q) + 1] = e
  BY AppendProperties, LenProperties

LEMMA Tailed ==
    ASSUME NEW S, NEW q \in Seq(S), q # <<>>
    PROVE  /\ Tail(q) \in Seq(S) /\ Len(Tail(q)) = Len(q) - 1 /\ Len(q) \in Nat \ {0}
           /\ \A i \in 1 .. Len(q) - 1 : Tail(q)[i] = q[i + 1]
           /\ Head(q) = q[1] /\ q[1] \in S
  BY HeadTailProperties, LenProperties, EmptySeq

-----------------------------------------------------------------------------
(* Types.                                                                  *)

\* TypeOK and Places in four parts: where the threads are, the senders, the values, the sequences.
PlaceTypes == pc[Owner] \in OwnerLabels /\ pc[Loop] \in LoopLabels /\ pc[Helper] \in HelperLabels

SenderTypes ==
    /\ PcFunction
    /\ sends \in [Senders -> 0 .. MaxSends]
    /\ \A s \in Senders : pc[s] \in SenderLabels /\ (pc[s] # "idle" => sends[s] \in 1 .. MaxSends)

ValueTypes ==
    /\ resume \in {"loop", "upgrade", "failed"}
    /\ state \in {"DISCONNECTED", "CONNECTING", "CONNECTED", "DISCONNECTING", "FAILED"}
    /\ bev \in {"none", "live", "freed"} /\ thread \in {"none", "looping", "exited"}
    /\ locked \in BOOLEAN /\ loopexit \in BOOLEAN /\ upgraded \in BOOLEAN /\ sent_close \in BOOLEAN
    /\ events \subseteq {"connected", "refused", "response", "bad_frame", "close_frame", "eof", "error",
                       "timeout"}
    /\ event_thread \in BOOLEAN /\ early \in BOOLEAN
    /\ calls \in 0 .. 2 /\ user \in Users

SequenceTypes ==
    /\ late \subseteq Messages
    /\ send_queue \in Seq(Messages) /\ Len(send_queue) <= MaxQueue
    /\ output \in Seq(Messages \cup {CLOSE})

LEMMA TypeParts == TypeOK /\ Places <=> PlaceTypes /\ SenderTypes /\ ValueTypes /\ SequenceTypes
  BY DEF Places, TypeOK, PlaceTypes, SenderTypes, ValueTypes, SequenceTypes,
     OwnerLabels, LoopLabels, HelperLabels, SenderLabels

LEMMA TypePartsNext ==
    ASSUME PlaceTypes', SenderTypes', ValueTypes', SequenceTypes'
    PROVE  TypeOK' /\ Places'
  BY DEF Places, TypeOK, PlaceTypes, SenderTypes, ValueTypes, SequenceTypes,
     OwnerLabels, LoopLabels, HelperLabels, SenderLabels

LEMMA ValuesStep ==
    ASSUME ValueTypes, Next
    PROVE  ValueTypes'
<1> USE DEF ValueTypes, resources, callers, frames, loop, Dispatches, ErrorCallback, HoldsLock, Releases
<1>1. CASE ConnectFails \/ StartThread \/ AssignThread
  <2>1. CASE ConnectFails
    BY <2>1 DEF ConnectFails
  <2>2. CASE StartThread
    BY <2>2 DEF StartThread
  <2>3. CASE AssignThread
    BY <2>3 DEF AssignThread
  <2>4. QED
    BY <1>1, <2>1, <2>2, <2>3
<1>2. CASE OwnerDisconnects
  <2>1. calls' \in 0 .. 2
    BY <1>2, CountedCall DEF OwnerDisconnects
  <2>2. QED
    BY <1>2, <2>1 DEF OwnerDisconnects
<1>3. ASSUME NEW t \in {Owner, Loop, Helper}, CheckState(t) PROVE ValueTypes'
  <2>1. locked' \in BOOLEAN
    BY <1>3 DEF CheckState
  <2>2. QED
    BY <1>3, <2>1 DEF CheckState
<1>4. ASSUME NEW t \in {Owner, Loop, Helper}, MarkDisconnecting(t) PROVE ValueTypes'
  BY <1>4 DEF MarkDisconnecting
<1>5. ASSUME NEW t \in {Owner, Loop, Helper}, Close(t) PROVE ValueTypes'
  <2>1. sent_close' \in BOOLEAN
    BY <1>5 DEF Close
  <2>2. QED
    BY <1>5, <2>1 DEF Close
<1>6. ASSUME NEW t \in {Owner, Loop, Helper}, SendClose(t) PROVE ValueTypes'
  BY <1>6 DEF SendClose
<1>7. ASSUME NEW t \in {Owner, Loop, Helper}, WaitForClose(t) PROVE ValueTypes'
  BY <1>7 DEF WaitForClose
<1>8. ASSUME NEW t \in {Owner, Loop, Helper}, Shutdown(t) PROVE ValueTypes'
  <2>1. loopexit' \in BOOLEAN
    BY <1>8 DEF Shutdown
  <2>2. QED
    BY <1>8, <2>1 DEF Shutdown
<1>9. ASSUME NEW t \in {Owner, Loop, Helper}, Join(t) PROVE ValueTypes'
  BY <1>9 DEF Join
<1>10. ASSUME NEW t \in {Owner, Loop, Helper}, Cleanup(t) PROVE ValueTypes'
  BY <1>10 DEF Cleanup
<1>11. CASE Connected
  BY <1>11 DEF Connected
<1>12. CASE Response
  BY <1>12 DEF Response
<1>13. CASE Upgrade
  BY <1>13 DEF Upgrade
<1>14. CASE SetConnected
  BY <1>14 DEF SetConnected
<1>15. CASE Flush
  BY <1>15 DEF Flush
<1>16. CASE Opened
  BY <1>16 DEF Opened
<1>17. CASE FrameArrives
  BY <1>17 DEF FrameArrives
<1>18. CASE Reply
  BY <1>18 DEF Reply
<1>19. CASE Eof
  BY <1>19 DEF Eof
<1>20. CASE Error
  BY <1>20 DEF Error
<1>21. CASE SetFailed
  BY <1>21 DEF SetFailed
<1>22. CASE Timeout
  BY <1>22 DEF Timeout
<1>23. CASE LoopExits
  BY <1>23 DEF LoopExits
<1>24. CASE Defer
  BY <1>24 DEF Defer
<1>25. ASSUME NEW s \in Senders, SendData(s) PROVE ValueTypes'
  BY <1>25 DEF SendData
<1>26. ASSUME NEW s \in Senders, Enqueue(s) PROVE ValueTypes'
  BY <1>26 DEF Enqueue
<1>27. ASSUME NEW s \in Senders, Write(s) PROVE ValueTypes'
  BY <1>27 DEF Write
<1>28. CASE DeferMissed
  BY <1>28 DEF DeferMissed
<1>29. QED
  BY <1>1, <1>2, <1>3, <1>4, <1>5, <1>6, <1>7, <1>8, <1>9, <1>10, <1>11, <1>12, <1>13, <1>14, <1>15, <1>16, 
     <1>17, <1>18, <1>19, <1>20, <1>21, <1>22, <1>23, <1>24, <1>25, <1>26, <1>27, <1>28
  DEF Next, OwnerStep, HelperStep, LoopStep, SenderStep, Disconnect

LEMMA SequencesStep ==
    ASSUME SenderTypes, SequenceTypes, Next
    PROVE  SequenceTypes'
<1> USE ClientAssumption
<1> USE DEF SequenceTypes, Messages, SenderTypes, frames, queue
<1>1. ASSUME NEW t \in {Owner, Loop, Helper}, SendClose(t) PROVE SequenceTypes'
  <2>1. output' = output \/ output' = Append(output, CLOSE)
    BY <1>1 DEF SendClose
  <2>2. CLOSE \in Messages \cup {CLOSE}
    OBVIOUS
  <2>3. Append(output, CLOSE) \in Seq(Messages \cup {CLOSE})
    BY <2>2, Appended
  <2>4. output' \in Seq(Messages \cup {CLOSE})
    BY <2>1, <2>3
  <2>5. QED
    BY <1>1, <2>4 DEF SendClose
<1>2. CASE Flush
  BY <1>2 DEF Flush
<1>3. CASE Reply
  BY <1>3 DEF Reply
<1>4. ASSUME NEW s \in Senders, Enqueue(s) PROVE SequenceTypes'
  <2>1. <<s, sends[s]>> \in Messages
    BY <1>4 DEF Enqueue
  <2>2. late' \subseteq Messages
    BY <1>4, <2>1 DEF Enqueue
  <2>3. CASE Len(send_queue) < MaxQueue
    BY <1>4, <2>1, <2>2, <2>3, Appended DEF Enqueue
  <2>4. CASE ~(Len(send_queue) < MaxQueue)
    BY <1>4, <2>1, <2>2, <2>4 DEF Enqueue
  <2>5. QED
    BY <2>3, <2>4
<1>5. ASSUME NEW s \in Senders, Write(s) PROVE SequenceTypes'
  <2>1. <<s, sends[s]>> \in Messages \cup {CLOSE}
    BY <1>5 DEF Write
  <2>2. output' \in Seq(Messages \cup {CLOSE})
    BY <1>5, <2>1, Appended DEF Write
  <2>3. QED
    BY <1>5, <2>2 DEF Write
<1>6. CASE UNCHANGED <<queue, output>>
  BY <1>6
<1>7. QED
  BY <1>1, <1>2, <1>3, <1>4, <1>5, <1>6
  DEF Next, OwnerStep, HelperStep, LoopStep, SenderStep, Disconnect,
      ConnectFails, StartThread, AssignThread, OwnerDisconnects, CheckState, MarkDisconnecting, Close, WaitForClose, Shutdown, Join, Cleanup,
      Connected, Response, Upgrade, SetConnected, Opened, FrameArrives, Eof, Error, SetFailed, Timeout,
      LoopExits, Defer, DeferMissed, SendData

-----------------------------------------------------------------------------
(* What the threads do to one another.                                     *)

\* What the owner, the event thread and the helper keep among them.
Control == PlaceTypes /\ Wiring /\ LockHeld /\ Answered /\ Truthful

\* What the frames depend on: who comes to send a close frame, when the loop flushes, and
\* when the connection becomes open.
Turns ==
    /\ pc'[Owner] = pc[Owner] \/ pc'[Loop] = pc[Loop]
    /\ pc'[Owner] = "send_close" => pc[Owner] = "send_close" \/ (~sent_close /\ sent_close')
    /\ pc'[Loop] = "send_close" => pc[Loop] = "send_close" \/ (~sent_close /\ sent_close')
    /\ sent_close => sent_close'
    /\ pc'[Loop] = "flush" => pc[Loop] = "flush" \/ BeforeFlush
    /\ pc[Loop] = "flush" => pc'[Loop] = "flush" \/ send_queue = <<>>
    /\ state' = "CONNECTED" => state = "CONNECTED" \/ (pc'[Loop] = "flush" /\ ~BeforeFlush')
    /\ BeforeFlush' => BeforeFlush
    /\ PcFunction'

LEMMA SenderControl ==
    ASSUME Places, ValueTypes, Control, NEW s \in Senders, SenderStep(s)
    PROVE  Control' /\ Turns
<1> USE DEF Control, PlaceTypes, OwnerLabels, LoopLabels, HelperLabels, DisconnectLabels, ValueTypes, Wiring,
        LockHeld, Answered, Truthful, OwnerAtWork, CallbackDisconnects, DestroyedUnlessEof, FreedAfterLoop, Turns, BeforeFlush, running, resources, callers, loop, frames
<1>1. PICK label : SenderAt(s, label)
  BY SenderMoves DEF SenderStep, SendData, Enqueue, Write
<1>2. /\ UNCHANGED <<resume, events, locked, state, bev, thread, event_thread, loopexit>>
      /\ UNCHANGED <<upgraded, sent_close, calls, user, early>>
  BY DEF SenderStep, SendData, Enqueue, Write
<1>3. Control'
  BY <1>1, <1>2 DEF SenderAt
<1>4. Turns
  BY <1>1, <1>2 DEF SenderAt
<1>5. QED
  BY <1>3, <1>4

\* A step of the owner, the event thread or the helper.
LEMMA ControlStep ==
    ASSUME Places, ValueTypes, Control, OwnerStep \/ HelperStep \/ LoopStep
    PROVE  Control' /\ Turns /\ SendersStay /\ UNCHANGED sends
<1> USE DEF Control, PlaceTypes, OwnerLabels, LoopLabels, HelperLabels, DisconnectLabels, ValueTypes, Wiring,
        LockHeld, Answered, Truthful, OwnerAtWork, CallbackDisconnects, DestroyedUnlessEof, FreedAfterLoop, Turns, BeforeFlush, running, resources, callers, loop, frames,
        queue, Caller, Releases, MayClose, HoldsLock, Dispatches, OwnerAt, LoopAt, HelperAt
<1>1. CASE ConnectFails
  <2>1. CASE ConnectsNoMore
    <3>1. OwnerAt("idle")
      BY <1>1, <2>1, OwnerMoves DEF ConnectFails
    <3>2. QED
      BY <1>1, <2>1, <3>1, Distinct DEF ConnectFails, ConnectsNoMore
  <2>2. CASE ~ConnectsNoMore
    <3>1. OwnerAt("connect_again")
      BY <1>1, <2>2, OwnerMoves DEF ConnectFails
    <3>2. user = "streamer"
      BY <2>2, ClientAssumption DEF ConnectsNoMore
    <3>3. QED
      BY <1>1, <2>2, <3>1, <3>2, Distinct DEF ConnectFails, ConnectsNoMore
  <2>3. QED
    BY <2>1, <2>2
<1>2. CASE OwnerDisconnects
  <2>1. OwnerAt("check")
    BY <1>2, OwnerMoves DEF OwnerDisconnects
  <2>2. QED
    BY <1>2, <2>1, Distinct DEF OwnerDisconnects
<1>3. CASE CheckState(Owner)
  <2>1. CASE state \in {"DISCONNECTING", "DISCONNECTED"}
    <3>1. OwnerAt(Caller(Owner))
      BY <1>3, <2>1, OwnerMoves DEF CheckState
    <3>2. QED
      BY <1>3, <2>1, <3>1, Distinct DEF CheckState
  <2>2. CASE state \notin {"DISCONNECTING", "DISCONNECTED"}
    <3>1. OwnerAt("mark")
      BY <1>3, <2>2, OwnerMoves DEF CheckState
    <3>2. QED
      BY <1>3, <2>2, <3>1, Distinct DEF CheckState
  <2>3. QED
    BY <1>3, <2>1, <2>2 DEF CheckState
<1>4. CASE CheckState(Loop)
  <2>1. CASE state \in {"DISCONNECTING", "DISCONNECTED"}
    <3>1. LoopAt(Caller(Loop))
      BY <1>4, <2>1, LoopMoves DEF CheckState
    <3>2. QED
      BY <1>4, <2>1, <3>1, Distinct DEF CheckState
  <2>2. CASE state \notin {"DISCONNECTING", "DISCONNECTED"}
    <3>1. LoopAt("mark")
      BY <1>4, <2>2, LoopMoves DEF CheckState
    <3>2. QED
      BY <1>4, <2>2, <3>1, Distinct DEF CheckState
  <2>3. QED
    BY <1>4, <2>1, <2>2 DEF CheckState
<1>5. CASE MarkDisconnecting(Owner)
  <2>1. OwnerAt("close")
    BY <1>5, OwnerMoves DEF MarkDisconnecting
  <2>2. QED
    BY <1>5, <2>1, Distinct DEF MarkDisconnecting
<1>6. CASE MarkDisconnecting(Loop)
  <2>1. LoopAt("close")
    BY <1>6, LoopMoves DEF MarkDisconnecting
  <2>2. QED
    BY <1>6, <2>1, Distinct DEF MarkDisconnecting
<1>7. CASE Close(Owner)
  <2>1. CASE MayClose
    <3>1. OwnerAt("send_close")
      BY <1>7, <2>1, OwnerMoves DEF Close
    <3>2. QED
      BY <1>7, <2>1, <3>1, Distinct DEF Close
  <2>2. CASE ~MayClose
    <3>1. OwnerAt("shutdown")
      BY <1>7, <2>2, OwnerMoves DEF Close
    <3>2. QED
      BY <1>7, <2>2, <3>1, Distinct DEF Close
  <2>3. QED
    BY <1>7, <2>1, <2>2 DEF Close
<1>8. CASE Close(Loop)
  <2>1. CASE MayClose
    <3>1. LoopAt("send_close")
      BY <1>8, <2>1, LoopMoves DEF Close
    <3>2. QED
      BY <1>8, <2>1, <3>1, Distinct DEF Close
  <2>2. CASE ~MayClose
    <3>1. LoopAt("shutdown")
      BY <1>8, <2>2, LoopMoves DEF Close
    <3>2. QED
      BY <1>8, <2>2, <3>1, Distinct DEF Close
  <2>3. QED
    BY <1>8, <2>1, <2>2 DEF Close
<1>9. CASE SendClose(Owner)
  <2>1. CASE CanClose
    <3>1. OwnerAt("wait")
      BY <1>9, <2>1, OwnerMoves DEF SendClose
    <3>2. QED
      BY <1>9, <2>1, <3>1, Distinct DEF SendClose
  <2>2. CASE ~CanClose
    <3>1. OwnerAt("shutdown")
      BY <1>9, <2>2, OwnerMoves DEF SendClose
    <3>2. QED
      BY <1>9, <2>2, <3>1, Distinct DEF SendClose
  <2>3. QED
    BY <1>9, <2>1, <2>2 DEF SendClose
<1>10. CASE SendClose(Loop)
  <2>1. CASE CanClose
    <3>1. LoopAt("wait")
      BY <1>10, <2>1, LoopMoves DEF SendClose
    <3>2. QED
      BY <1>10, <2>1, <3>1, Distinct DEF SendClose
  <2>2. CASE ~CanClose
    <3>1. LoopAt("shutdown")
      BY <1>10, <2>2, LoopMoves DEF SendClose
    <3>2. QED
      BY <1>10, <2>2, <3>1, Distinct DEF SendClose
  <2>3. QED
    BY <1>10, <2>1, <2>2 DEF SendClose
<1>11. CASE WaitForClose(Owner)
  <2>1. OwnerAt("shutdown")
    BY <1>11, OwnerMoves DEF WaitForClose
  <2>2. QED
    BY <1>11, <2>1, Distinct DEF WaitForClose
<1>12. CASE WaitForClose(Loop)
  <2>1. LoopAt("shutdown")
    BY <1>12, LoopMoves DEF WaitForClose
  <2>2. QED
    BY <1>12, <2>1, Distinct DEF WaitForClose
<1>13. CASE Shutdown(Owner)
  <2>1. OwnerAt("join")
    BY <1>13, OwnerMoves, Distinct DEF Shutdown
  <2>2. QED
    BY <1>13, <2>1, Distinct DEF Shutdown
<1>14. CASE Shutdown(Loop)
  <2>1. LoopAt("defer")
    BY <1>14, LoopMoves, Distinct DEF Shutdown
  <2>2. QED
    BY <1>14, <2>1, Distinct DEF Shutdown
<1>15. CASE Join(Owner)
  <2>1. OwnerAt("cleanup")
    BY <1>15, OwnerMoves DEF Join
  <2>2. QED
    BY <1>15, <2>1, Distinct DEF Join
<1>16. CASE Join(Helper)
  <2>1. HelperAt("cleanup")
    BY <1>16, HelperMoves DEF Join
  <2>2. QED
    BY <1>16, <2>1, Distinct DEF Join
<1>17. CASE Cleanup(Owner)
  <2>1. OwnerAt(Caller(Owner))
    BY <1>17, OwnerMoves DEF Cleanup
  <2>2. QED
    BY <1>17, <2>1, Distinct DEF Cleanup
<1>18. CASE Cleanup(Helper)
  <2>1. HelperAt("done")
    BY <1>18, HelperMoves DEF Cleanup
  <2>2. QED
    BY <1>18, <2>1, Distinct DEF Cleanup
<1>19. CASE Connected
  <2>1. CASE UNCHANGED pc
    <3>1. LoopAt(pc[Loop])
      BY <1>19, <2>1, NoMove DEF Connected
    <3>2. QED
      BY <1>19, <2>1, <3>1, Distinct DEF Connected
  <2>2. CASE ErrorCallback("loop") /\ user = "example"
    <3>1. LoopAt("check") /\ resume' = "loop"
      BY <1>19, <2>2, LoopMoves DEF Connected, ErrorCallback
    <3>2. QED
      BY <1>19, <2>2, <3>1, Distinct DEF Connected
  <2>3. CASE ErrorCallback("loop") /\ user # "example"
    <3>1. LoopAt("loop") /\ UNCHANGED resume
      BY <1>19, <2>3, LoopMoves DEF Connected, ErrorCallback
    <3>2. QED
      BY <1>19, <2>3, <3>1, Distinct DEF Connected
  <2>4. QED
    BY <1>19, <2>1, <2>2, <2>3 DEF Connected
<1>20. CASE Response
  <2>1. /\ UNCHANGED <<bev, thread, event_thread, loopexit, calls, user, early, sends>>
        /\ UNCHANGED <<sent_close, send_queue>> /\ locked' = (pc'[Loop] # "loop")
        /\ pc[Loop] = "loop" /\ running /\ bev = "live" /\ "response" \notin events
        /\ events' = events \cup {"response"} /\ (state' = state \/ state' = "FAILED")
    BY <1>20 DEF Response
  <2>2. /\ LoopAt("check") \/ LoopAt("loop") \/ LoopAt("upgrade")
        /\ pc'[Loop] = "check" => user = "example"
    <3>1. CASE ErrorCallback("loop")
      BY <3>1, LoopMoves DEF ErrorCallback
    <3>2. CASE ErrorCallback("upgrade")
      BY <3>2, LoopMoves DEF ErrorCallback
    <3>3. CASE Goto(Loop, "upgrade")
      BY <3>3, LoopMoves
    <3>4. QED
      BY <1>20, <3>1, <3>2, <3>3, ResponseMoves
  <2>3. PlaceTypes' /\ Wiring' /\ LockHeld' /\ Answered'
    BY <2>1, <2>2, Distinct
  <2>4. Truthful'
    BY <2>1, <2>2, Distinct
  <2>5. Turns
    BY <2>1, <2>2, Distinct
  <2>6. QED
    BY <2>1, <2>2, <2>3, <2>4, <2>5
<1>21. CASE Upgrade
  <2>1. LoopAt("connect")
    BY <1>21, LoopMoves DEF Upgrade
  <2>2. QED
    BY <1>21, <2>1, Distinct DEF Upgrade
<1>22. CASE SetConnected
  <2>1. LoopAt("flush")
    BY <1>22, LoopMoves DEF SetConnected
  <2>2. QED
    BY <1>22, <2>1, Distinct DEF SetConnected
<1>23. CASE Flush
  <2>1. LoopAt(pc[Loop])
    BY <1>23, NoMove DEF Flush
  <2>2. QED
    BY <1>23, <2>1, Distinct DEF Flush
<1>24. CASE Opened
  <2>1. LoopAt("loop")
    BY <1>24, LoopMoves DEF Opened
  <2>2. QED
    BY <1>24, <2>1, Distinct DEF Opened
<1>25. CASE FrameArrives
  <2>1. CASE Goto(Loop, "reply")
    <3>1. LoopAt("reply")
      BY <1>25, <2>1, LoopMoves DEF FrameArrives
    <3>2. QED
      BY <1>25, <2>1, <3>1, Distinct DEF FrameArrives
  <2>2. CASE ~Goto(Loop, "reply")
    <3>1. LoopAt("loop")
      BY <1>25, <2>2, LoopMoves DEF FrameArrives
    <3>2. QED
      BY <1>25, <2>2, <3>1, Distinct DEF FrameArrives
  <2>3. QED
    BY <1>25, <2>1, <2>2 DEF FrameArrives
<1>26. CASE Reply
  <2>1. LoopAt("loop")
    BY <1>26, LoopMoves DEF Reply
  <2>2. QED
    BY <1>26, <2>1, Distinct DEF Reply
<1>27. CASE Eof
  <2>1. LoopAt(pc[Loop])
    BY <1>27, NoMove DEF Eof
  <2>2. QED
    BY <1>27, <2>1, Distinct DEF Eof
<1>28. CASE Error
  <2>1. CASE user = "example"
    <3>1. LoopAt("check") /\ resume' = "failed"
      BY <1>28, <2>1, LoopMoves DEF Error, ErrorCallback
    <3>2. QED
      BY <1>28, <2>1, <3>1, Distinct DEF Error
  <2>2. CASE user # "example"
    <3>1. LoopAt("failed") /\ UNCHANGED resume
      BY <1>28, <2>2, LoopMoves DEF Error, ErrorCallback
    <3>2. QED
      BY <1>28, <2>2, <3>1, Distinct DEF Error
  <2>3. QED
    BY <1>28, <2>1, <2>2 DEF Error
<1>29. CASE SetFailed
  <2>1. LoopAt("loop")
    BY <1>29, LoopMoves DEF SetFailed
  <2>2. QED
    BY <1>29, <2>1, Distinct DEF SetFailed
<1>30. CASE Timeout
  <2>1. CASE UNCHANGED pc
    <3>1. LoopAt(pc[Loop])
      BY <1>30, <2>1, NoMove DEF Timeout
    <3>2. QED
      BY <1>30, <2>1, <3>1, Distinct DEF Timeout
  <2>2. CASE ErrorCallback("loop") /\ user = "example"
    <3>1. LoopAt("check") /\ resume' = "loop"
      BY <1>30, <2>2, LoopMoves DEF Timeout, ErrorCallback
    <3>2. QED
      BY <1>30, <2>2, <3>1, Distinct DEF Timeout
  <2>3. CASE ErrorCallback("loop") /\ user # "example"
    <3>1. LoopAt("loop") /\ UNCHANGED resume
      BY <1>30, <2>3, LoopMoves DEF Timeout, ErrorCallback
    <3>2. QED
      BY <1>30, <2>3, <3>1, Distinct DEF Timeout
  <2>4. QED
    BY <1>30, <2>1, <2>2, <2>3 DEF Timeout
<1>31. CASE LoopExits
  <2>1. LoopAt(pc[Loop])
    BY <1>31, NoMove DEF LoopExits
  <2>2. QED
    BY <1>31, <2>1, Distinct DEF LoopExits
<1>32. CASE Defer
  BY <1>32, DeferMoves, Distinct DEF Defer
<1>33. CASE DeferMissed
  <2>1. LoopAt("cleanup")
    BY <1>33, LoopMoves DEF DeferMissed
  <2>2. QED
    BY <1>33, <2>1, Distinct DEF DeferMissed
<1>34. CASE Cleanup(Loop)
  <2>1. LoopAt(Caller(Loop))
    BY <1>34, LoopMoves, Distinct DEF Cleanup
  <2>2. QED
    BY <1>34, <2>1, Distinct DEF Cleanup
<1>35. CASE StartThread
  <2>1. CASE ConnectsNoMore
    <3>1. OwnerAt("assign_last")
      BY <1>35, <2>1, OwnerMoves DEF StartThread
    <3>2. QED
      BY <1>35, <2>1, <3>1, Distinct DEF StartThread, ConnectsNoMore
  <2>2. CASE ~ConnectsNoMore
    <3>1. OwnerAt("assign")
      BY <1>35, <2>2, OwnerMoves DEF StartThread
    <3>2. user = "streamer"
      BY <2>2, ClientAssumption DEF ConnectsNoMore
    <3>3. QED
      BY <1>35, <2>2, <3>1, <3>2, Distinct DEF StartThread, ConnectsNoMore
  <2>3. QED
    BY <2>1, <2>2
<1>36. CASE AssignThread
  <2>1. CASE pc[Owner] = "assign"
    <3>1. OwnerAt("connect_again")
      BY <1>36, <2>1, OwnerMoves DEF AssignThread
    <3>2. QED
      BY <1>36, <2>1, <3>1, Distinct DEF AssignThread
  <2>2. CASE pc[Owner] = "assign_last"
    <3>1. OwnerAt("idle")
      BY <1>36, <2>2, OwnerMoves DEF AssignThread
    <3>2. QED
      BY <1>36, <2>2, <3>1, Distinct DEF AssignThread
  <2>3. QED
    BY <1>36, <2>1, <2>2 DEF AssignThread
<1>37. QED
  BY <1>1, <1>2, <1>3, <1>4, <1>5, <1>6, <1>7, <1>8, <1>9, <1>10, <1>11, <1>12, <1>13, <1>14, <1>15, <1>16, 
     <1>17, <1>18, <1>19, <1>20, <1>21, <1>22, <1>23, <1>24, <1>25, <1>26, <1>27, <1>28, <1>29, <1>30, <1>31, <1>32,
     <1>33, <1>34, <1>35, <1>36
  DEF OwnerStep, HelperStep, LoopStep, Disconnect

-----------------------------------------------------------------------------
(* The senders.                                                            *)

\* Only its own steps move a sender.
OnlySenders == (SendersStay /\ UNCHANGED sends) \/ \E s \in Senders : SenderStep(s)

LEMMA SendersStep ==
    ASSUME Places, SenderTypes, Turns, OnlySenders
    PROVE  SenderTypes'
<1>1. CASE SendersStay /\ UNCHANGED sends
  BY <1>1 DEF Turns, SenderTypes, SendersStay
<1>2. ASSUME NEW s \in Senders, SendData(s) PROVE SenderTypes'
  <2>1. PICK label \in SenderLabels : SenderAt(s, label)
    BY <1>2, SenderMoves DEF SendData, SenderLabels
  <2>2. sends' = [sends EXCEPT ![s] = sends[s] + 1] /\ sends[s] + 1 \in 1 .. MaxSends
    BY <1>2, ClientAssumption DEF SendData, SenderTypes
  <2>3. QED
    BY <2>1, <2>2 DEF SenderAt, SenderTypes, SenderLabels
<1>3. ASSUME NEW s \in Senders, Enqueue(s) \/ Write(s) PROVE SenderTypes'
  <2>1. SenderAt(s, "idle") /\ UNCHANGED sends
    BY <1>3, SenderMoves DEF Enqueue, Write, callers
  <2>2. QED
    BY <2>1 DEF SenderAt, SenderTypes, SenderLabels
<1>4. QED
  BY <1>1, <1>2, <1>3 DEF OnlySenders, SenderStep

LEMMA WhoWrites ==
    ASSUME Next
    PROVE  \/ UNCHANGED output
           \/ SendClose(Owner) \/ SendClose(Loop) \/ Reply \/ Flush \/ \E s \in Senders : Write(s)
  BY DEF Next, OwnerStep, HelperStep, LoopStep, SenderStep, Disconnect, frames,
     ConnectFails, StartThread, AssignThread, OwnerDisconnects, CheckState, MarkDisconnecting, Close, WaitForClose, Shutdown, Join, Cleanup,
     Connected, Response, Upgrade, SetConnected, Opened, FrameArrives, Eof, Error, SetFailed, Timeout,
     LoopExits, Defer, DeferMissed, SendData, Enqueue

LEMMA WhoQueues ==
    ASSUME Next
    PROVE  UNCHANGED queue \/ Flush \/ \E s \in Senders : Enqueue(s)
  BY DEF Next, OwnerStep, HelperStep, LoopStep, SenderStep, Disconnect, frames,
     ConnectFails, StartThread, AssignThread, OwnerDisconnects, CheckState, MarkDisconnecting, Close, SendClose, WaitForClose, Shutdown, Join,
     Cleanup, Connected, Response, Upgrade, SetConnected, Opened, FrameArrives, Reply, Eof, Error, SetFailed,
     Timeout, LoopExits, Defer, DeferMissed, SendData, Write

-----------------------------------------------------------------------------
(* The close frame.                                                        *)

LEMMA OutputStays == ASSUME UNCHANGED output PROVE (NoClose <=> NoClose') /\ (OneCloseFrame <=> OneCloseFrame')
  BY DEF NoClose, OneCloseFrame

\* A message more leaves the close frames alone, and a first close frame is the only one.
LEMMA OneMoreMessage ==
    ASSUME SequenceTypes, NEW m \in Messages, output' = Append(output, m)
    PROVE  (NoClose => NoClose') /\ (OneCloseFrame => OneCloseFrame')
<1>1. m \in Messages \cup {CLOSE} /\ m # CLOSE
  BY ClientAssumption DEF Messages
<1>2. /\ Len(output') = Len(output) + 1 /\ Len(output) \in Nat /\ output'[Len(output) + 1] # CLOSE
      /\ \A i \in 1 .. Len(output) : output'[i] = output[i]
  BY <1>1, Appended DEF SequenceTypes
<1>3. QED
  BY <1>2 DEF NoClose, OneCloseFrame

LEMMA FirstCloseFrame ==
    ASSUME SequenceTypes, NoClose, output' = Append(output, CLOSE)
    PROVE  OneCloseFrame'
<1>1. CLOSE \in Messages \cup {CLOSE}
  OBVIOUS
<1>2. /\ Len(output') = Len(output) + 1 /\ Len(output) \in Nat
      /\ \A i \in 1 .. Len(output) : output'[i] = output[i]
  BY <1>1, Appended DEF SequenceTypes
<1>3. QED
  BY <1>2 DEF NoClose, OneCloseFrame

LEMMA CloseStep ==
    ASSUME Places, SenderTypes, SequenceTypes, CloseOnce, Turns, Next
    PROVE  CloseOnce'
<1> USE DEF CloseOnce, Turns
<1>1. CASE UNCHANGED output
  BY <1>1, OutputStays
<1>2. CASE SendClose(Owner)
  <2>1. CASE CanClose
    <3>1. OwnerAt("wait") /\ OneCloseFrame' /\ sent_close
      BY <1>2, <2>1, OwnerMoves, FirstCloseFrame DEF SendClose
    <3>2. QED
      BY <1>2, <3>1 DEF SendClose, OwnerAt
  <2>2. CASE ~CanClose
    BY <1>1, <1>2, <2>2 DEF SendClose
  <2>3. QED
    BY <2>1, <2>2
<1>3. CASE SendClose(Loop)
  <2>1. CASE CanClose
    <3>1. LoopAt("wait") /\ OneCloseFrame' /\ sent_close
      BY <1>3, <2>1, LoopMoves, FirstCloseFrame DEF SendClose
    <3>2. QED
      BY <1>3, <3>1 DEF SendClose, LoopAt
  <2>2. CASE ~CanClose
    BY <1>1, <1>3, <2>2 DEF SendClose
  <2>3. QED
    BY <2>1, <2>2
<1>4. CASE Reply
  <2>1. CASE MayClose /\ CanClose
    <3>1. LoopAt("loop") /\ sent_close' /\ NoClose /\ OneCloseFrame' /\ pc[Owner] # "send_close"
      BY <1>4, <2>1, LoopMoves, FirstCloseFrame DEF Reply, MayClose
    <3>2. QED
      BY <3>1 DEF LoopAt
  <2>2. CASE ~(MayClose /\ CanClose)
    BY <1>1, <1>4, <2>2 DEF Reply
  <2>3. QED
    BY <2>1, <2>2
<1>5. CASE Flush
  <2>1. Head(send_queue) \in Messages
    BY <1>5, Tailed DEF Flush, SequenceTypes
  <2>2. (NoClose => NoClose') /\ (OneCloseFrame => OneCloseFrame')
    BY <1>5, <2>1, OneMoreMessage, OutputStays DEF Flush
  <2>3. QED
    BY <2>2
<1>6. ASSUME NEW s \in Senders, Write(s) PROVE CloseOnce'
  <2>1. <<s, sends[s]>> \in Messages
    BY <1>6 DEF Write, Messages, SenderTypes
  <2>2. (NoClose => NoClose') /\ (OneCloseFrame => OneCloseFrame')
    BY <1>6, <2>1, OneMoreMessage, OutputStays DEF Write
  <2>3. QED
    BY <2>2
<1>7. QED
  BY <1>1, <1>2, <1>3, <1>4, <1>5, <1>6, WhoWrites

-----------------------------------------------------------------------------
(* Before and after the flush.                                             *)

LEMMA OnlyCloseStays ==
    ASSUME SequenceTypes, UNCHANGED output \/ output' = Append(output, CLOSE), OnlyClose
    PROVE  OnlyClose'
<1>1. CLOSE \in Messages \cup {CLOSE}
  OBVIOUS
<1>2. CASE output' = Append(output, CLOSE)
  <2>1. /\ Len(output') = Len(output) + 1 /\ Len(output) \in Nat
        /\ output'[Len(output) + 1] = CLOSE
        /\ \A i \in 1 .. Len(output) : output'[i] = output[i]
    BY <1>1, <1>2, Appended DEF SequenceTypes
  <2>2. QED
    BY <2>1 DEF OnlyClose
<1>3. QED
  BY <1>2 DEF OnlyClose

LEMMA UnopenedStep ==
    ASSUME Places, SequenceTypes, Control, Unopened, Turns, OnlySenders, Next
    PROVE  Unopened'
<1> SUFFICES ASSUME BeforeFlush' PROVE state' # "CONNECTED" /\ OnlyClose' /\ NobodySends'
  BY DEF Unopened
<1>1. BeforeFlush /\ state # "CONNECTED" /\ OnlyClose /\ NobodySends
  BY DEF Turns, Unopened
<1>2. state' # "CONNECTED"
  BY <1>1 DEF Turns
<1>3. OnlyClose'
  <2>1. ~Flush /\ \A s \in Senders : ~Write(s)
    BY <1>1 DEF Flush, Write, NobodySends, BeforeFlush, Control, Answered, DisconnectLabels
  <2>2. UNCHANGED output \/ output' = Append(output, CLOSE)
    BY <2>1, WhoWrites DEF SendClose, Reply
  <2>3. QED
    BY <1>1, <2>2, OnlyCloseStays
<1>4. NobodySends'
  <2>1. CASE SendersStay
    BY <1>1, <2>1 DEF SendersStay, NobodySends
  <2>2. ASSUME NEW s \in Senders, SendData(s) PROVE NobodySends'
    <3>1. PICK label : SenderAt(s, label) /\ (label = "send" => state = "CONNECTED")
      BY <2>2, SenderMoves DEF SendData
    <3>2. QED
      BY <1>1, <3>1 DEF SenderAt, NobodySends
  <2>3. ASSUME NEW s \in Senders, Enqueue(s) \/ Write(s) PROVE NobodySends'
    <3>1. SenderAt(s, "idle")
      BY <2>3, SenderMoves DEF Enqueue, Write
    <3>2. QED
      BY <1>1, <3>1 DEF SenderAt, NobodySends
  <2>4. QED
    BY <2>1, <2>2, <2>3 DEF OnlySenders, SenderStep
<1>5. QED
  BY <1>2, <1>3, <1>4

\* What is in the queue came after the flush.
QueuedAreLate == \A i \in 1 .. Len(send_queue) : send_queue[i] \in late

LEMMA FlushedStep ==
    ASSUME Places, SequenceTypes, SenderTypes, FlushedUnlessLate, Turns, Next
    PROVE  FlushedUnlessLate'
<1> SUFFICES ASSUME state' = "CONNECTED", pc'[Loop] # "flush" PROVE QueuedAreLate'
  BY DEF FlushedUnlessLate, QueuedAreLate
<1>1. state = "CONNECTED" /\ (pc[Loop] = "flush" => send_queue = <<>>)
  BY DEF Turns
<1>2. QueuedAreLate
  <2>1. CASE pc[Loop] = "flush"
    BY <1>1, <2>1 DEF QueuedAreLate
  <2>2. CASE pc[Loop] # "flush"
    BY <1>1, <2>2 DEF FlushedUnlessLate, QueuedAreLate
  <2>3. QED
    BY <2>1, <2>2
<1>3. CASE UNCHANGED queue
  BY <1>2, <1>3 DEF queue, QueuedAreLate
<1>4. CASE Flush
  BY <1>1, <1>4 DEF Flush
<1>5. ASSUME NEW s \in Senders, Enqueue(s) PROVE QueuedAreLate'
  <2>1. late' = late \cup {<<s, sends[s]>>} /\ <<s, sends[s]>> \in Messages
    BY <1>1, <1>5 DEF Enqueue, SenderTypes, Messages
  <2>2. CASE send_queue' = Append(send_queue, <<s, sends[s]>>)
    <3>1. /\ Len(send_queue') = Len(send_queue) + 1 /\ Len(send_queue) \in Nat
          /\ \A i \in 1 .. Len(send_queue) : send_queue'[i] = send_queue[i]
          /\ send_queue'[Len(send_queue) + 1] = <<s, sends[s]>>
      BY <2>1, <2>2, Appended DEF SequenceTypes
    <3>2. QED
      BY <1>2, <2>1, <3>1 DEF QueuedAreLate
  <2>3. CASE send_queue' = send_queue
    BY <1>2, <2>1, <2>3 DEF QueuedAreLate
  <2>4. QED
    BY <1>5, <2>2, <2>3 DEF Enqueue
<1>6. QED
  BY <1>3, <1>4, <1>5, WhoQueues

-----------------------------------------------------------------------------
(* The order of the messages.                                              *)

\* What is in the two sequences.
LEMMA Elements ==
    ASSUME SequenceTypes
    PROVE  /\ \A i \in 1 .. Len(output) : output[i] # CLOSE =>
                output[i][1] \in Senders /\ output[i][2] \in Nat
           /\ \A i \in 1 .. Len(send_queue) :
                send_queue[i] # CLOSE /\ send_queue[i][1] \in Senders /\ send_queue[i][2] \in Nat
           /\ Len(output) \in Nat /\ Len(send_queue) \in Nat
<1>1. \A i \in 1 .. Len(output) : output[i] # CLOSE => output[i] \in Messages
  BY DEF SequenceTypes
<1>2. \A i \in 1 .. Len(send_queue) : send_queue[i] \in Messages
  BY DEF SequenceTypes
<1>3. \A m \in Messages : m # CLOSE /\ m[1] \in Senders /\ m[2] \in Nat
  BY ClientAssumption DEF Messages
<1>4. Len(output) \in Nat /\ Len(send_queue) \in Nat
  BY DEF SequenceTypes
<1>5. QED
  BY <1>1, <1>2, <1>3, <1>4

\* Before(m) in the next state.
BeforeNext(m) == m[2] <= sends'[m[1]] /\ (pc'[m[1]] # "idle" => m[2] < sends'[m[1]])

LEMMA OutputBeforeNext ==
    ASSUME SequenceTypes, OutputBefore, UNCHANGED output,
           \A m \in Messages : Before(m) => BeforeNext(m)
    PROVE  OutputBefore'
<1>1. \A i \in 1 .. Len(output) : output[i] # CLOSE => output[i] \in Messages /\ Before(output[i])
  BY DEF SequenceTypes, OutputBefore
<1>2. QED
  BY <1>1 DEF OutputBefore, Before, BeforeNext

LEMMA QueueBeforeNext ==
    ASSUME SequenceTypes, QueueBefore, UNCHANGED send_queue,
           \A m \in Messages : Before(m) => BeforeNext(m)
    PROVE  QueueBefore'
<1>1. \A i \in 1 .. Len(send_queue) : send_queue[i] \in Messages /\ Before(send_queue[i])
  BY DEF SequenceTypes, QueueBefore
<1>2. QED
  BY <1>1 DEF QueueBefore, Before, BeforeNext

\* Nothing of a sender's moves.
LEMMA OrderStays ==
    ASSUME Ordered, SequenceTypes, UNCHANGED <<output, send_queue, sends>>, SendersStay,
           pc'[Loop] = "flush" => pc[Loop] = "flush" \/ OnlyClose
    PROVE  Ordered'
<1>1. OutputBefore' /\ QueueBefore' /\ OutputInOrder' /\ QueueInOrder'
  BY Elements DEF Ordered, OutputBefore, QueueBefore, OutputInOrder, QueueInOrder, Before, SendersStay
<1>2. OnlyClose => OutputFirst'
  BY DEF OnlyClose, OutputFirst
<1>3. OutputFirst => OutputFirst'
  BY DEF OutputFirst
<1>4. QED
  BY <1>1, <1>2, <1>3 DEF Ordered

\* A close frame has no place in the order.
LEMMA OrderedAroundClose ==
    ASSUME Ordered, SequenceTypes, output' = Append(output, CLOSE), UNCHANGED <<send_queue, sends>>,
           SendersStay, pc'[Loop] = "flush" => pc[Loop] = "flush"
    PROVE  Ordered'
<1>1. CLOSE \in Messages \cup {CLOSE}
  OBVIOUS
<1>2. /\ Len(output') = Len(output) + 1 /\ Len(output) \in Nat
      /\ output'[Len(output) + 1] = CLOSE
      /\ \A i \in 1 .. Len(output) : output'[i] = output[i]
  BY <1>1, Appended DEF SequenceTypes
<1>3. \A i \in 1 .. Len(output') : output'[i] # CLOSE => i \in 1 .. Len(output) /\ output'[i] = output[i]
  BY <1>2
<1>4. OutputBefore'
  BY <1>3, Elements DEF Ordered, OutputBefore, Before, SendersStay
<1>5. QueueBefore'
  BY Elements DEF Ordered, QueueBefore, Before, SendersStay
<1>6. OutputInOrder'
  BY <1>3 DEF Ordered, OutputInOrder
<1>7. QueueInOrder'
  BY DEF Ordered, QueueInOrder
<1>8. OutputFirst => OutputFirst'
  BY <1>3 DEF OutputFirst
<1>9. QED
  BY <1>4, <1>5, <1>6, <1>7, <1>8 DEF Ordered

\* The head of the queue goes out.
LEMMA FlushKeepsOrder ==
    ASSUME Places, SequenceTypes, Ordered, Flush PROVE Ordered'
<1>1. pc[Loop] = "flush" /\ LoopAt(pc[Loop]) /\ UNCHANGED sends /\ send_queue # <<>>
  BY NoMove DEF Flush, callers
<1>2. /\ Len(send_queue') = Len(send_queue) - 1 /\ Len(send_queue) \in Nat \ {0}
      /\ \A i \in 1 .. Len(send_queue) - 1 : send_queue'[i] = send_queue[i + 1]
      /\ Head(send_queue) = send_queue[1] /\ send_queue[1] \in Messages
  BY <1>1, Tailed DEF Flush, SequenceTypes
<1>3. QueueBefore' /\ QueueInOrder'
  <2>1. QueueBefore'
    <3>1. \A i \in 1 .. Len(send_queue') :
             i + 1 \in 1 .. Len(send_queue) /\ send_queue'[i] = send_queue[i + 1]
      BY <1>2
    <3>2. \A i \in 1 .. Len(send_queue') : Before(send_queue'[i]) /\ send_queue'[i][1] \in Senders
      BY <3>1, Elements DEF Ordered, QueueBefore
    <3>3. QED
      BY <1>1, <3>2 DEF QueueBefore, Before, LoopAt, SendersStay
  <2>2. QueueInOrder'
    BY <1>2 DEF Ordered, QueueInOrder
  <2>3. QED
    BY <2>1, <2>2
<1>4. CASE output' = Append(output, send_queue[1])
  <2>1. /\ Len(output') = Len(output) + 1 /\ Len(output) \in Nat
        /\ output'[Len(output) + 1] = send_queue[1]
        /\ \A i \in 1 .. Len(output) : output'[i] = output[i]
    BY <1>2, <1>4, Appended DEF SequenceTypes
  <2>2. 1 \in 1 .. Len(send_queue) /\ Before(send_queue[1]) /\ send_queue[1][1] \in Senders
    BY <1>2, Elements DEF Ordered, QueueBefore
  <2>3. OutputBefore'
    BY <1>1, <2>1, <2>2, Elements DEF Ordered, OutputBefore, Before, LoopAt, SendersStay
  <2>4. OutputInOrder'
    BY <1>1, <2>1, <2>2 DEF Ordered, OutputInOrder, OutputFirst
  <2>5. OutputFirst'
    <3>1. \A j \in 1 .. Len(send_queue') :
             /\ j + 1 \in 1 .. Len(send_queue) /\ send_queue'[j] = send_queue[j + 1]
             /\ send_queue[1][1] = send_queue'[j][1] => send_queue[1][2] < send_queue'[j][2]
      BY <1>2 DEF Ordered, QueueInOrder
    <3>2. \A i \in 1 .. Len(output), j \in 1 .. Len(send_queue') :
             output[i] # CLOSE /\ output[i][1] = send_queue'[j][1] => output[i][2] < send_queue'[j][2]
      BY <1>1, <3>1 DEF Ordered, OutputFirst
    <3>3. \A j \in 1 .. Len(send_queue') :
             output'[Len(output) + 1][1] = send_queue'[j][1] => output'[Len(output) + 1][2] < send_queue'[j][2]
      BY <2>1, <3>1
    <3>4. QED
      BY <2>1, <3>2, <3>3 DEF OutputFirst
  <2>6. QED
    BY <1>3, <2>3, <2>4, <2>5 DEF Ordered
<1>5. CASE output' = output
  <2>1. OutputBefore' /\ OutputInOrder'
    BY <1>1, <1>5, Elements DEF Ordered, OutputBefore, OutputInOrder, Before, LoopAt, SendersStay
  <2>2. OutputFirst'
    BY <1>1, <1>2, <1>5 DEF Ordered, OutputFirst
  <2>3. QED
    BY <1>3, <2>1, <2>2 DEF Ordered
<1>6. QED
  BY <1>2, <1>4, <1>5 DEF Flush

\* A sender counts a new message.
LEMMA SendDataKeepsOrder ==
    ASSUME Places, SequenceTypes, SenderTypes, Ordered, NEW s \in Senders, SendData(s) PROVE Ordered'
<1>1. PICK label : SenderAt(s, label)
  BY SenderMoves DEF SendData
<1>2. /\ sends[s] \in Nat /\ sends'[s] = sends[s] + 1 /\ \A r \in Senders \ {s} : sends'[r] = sends[r]
      /\ pc[s] = "idle" /\ UNCHANGED <<output, send_queue>>
  BY DEF SendData, SenderTypes, frames, queue
<1>3. \A m \in Messages : Before(m) => BeforeNext(m)
  BY <1>1, <1>2 DEF Messages, Before, BeforeNext, SenderAt
<1>4. OutputBefore'
  BY <1>2, <1>3, OutputBeforeNext DEF Ordered
<1>5. QueueBefore'
  BY <1>2, <1>3, QueueBeforeNext DEF Ordered
<1>6. QED
  BY <1>1, <1>2, <1>4, <1>5 DEF Ordered, OutputInOrder, QueueInOrder, OutputFirst, SenderAt

LEMMA EnqueueKeepsOrder ==
    ASSUME Places, SequenceTypes, SenderTypes, Ordered, NEW s \in Senders, Enqueue(s) PROVE Ordered'
<1>1. SenderAt(s, "idle") /\ pc[s] # "idle" /\ pc'[Loop] # "flush"
  BY SenderMoves DEF Enqueue, SenderAt
<1>2. UNCHANGED <<output, sends>> /\ <<s, sends[s]>> \in Messages /\ sends[s] \in Nat
  BY <1>1 DEF Enqueue, callers, SenderTypes, Messages
<1>3. \A m \in Messages : Before(m) => BeforeNext(m)
  BY <1>1, <1>2 DEF Messages, Before, BeforeNext, SenderAt
<1>4. OutputBefore' /\ OutputInOrder'
  BY <1>2, <1>3, OutputBeforeNext DEF Ordered, OutputInOrder
<1>5. CASE send_queue' = Append(send_queue, <<s, sends[s]>>)
  <2>1. /\ Len(send_queue') = Len(send_queue) + 1 /\ Len(send_queue) \in Nat
        /\ send_queue'[Len(send_queue) + 1] = <<s, sends[s]>>
        /\ \A i \in 1 .. Len(send_queue) : send_queue'[i] = send_queue[i]
    BY <1>2, <1>5, Appended DEF SequenceTypes
  <2>2. QueueBefore'
    <3>1. \A i \in 1 .. Len(send_queue) : BeforeNext(send_queue'[i])
      BY <1>3, <2>1 DEF SequenceTypes, Ordered, QueueBefore
    <3>2. BeforeNext(<<s, sends[s]>>)
      BY <1>1, <1>2 DEF BeforeNext, SenderAt
    <3>3. \A i \in 1 .. Len(send_queue') : BeforeNext(send_queue'[i])
      BY <2>1, <3>1, <3>2
    <3>4. QED
      BY <3>3 DEF QueueBefore, Before, BeforeNext
  <2>3. \A i \in 1 .. Len(send_queue) : send_queue[i][1] = s => send_queue[i][2] < sends[s]
    BY <1>1 DEF Ordered, QueueBefore, Before
  <2>4. QueueInOrder'
    BY <2>1, <2>3 DEF Ordered, QueueInOrder
  <2>5. QED
    BY <1>1, <1>4, <2>2, <2>4 DEF Ordered
<1>6. CASE send_queue' = send_queue
  <2>1. QueueBefore' /\ QueueInOrder'
    BY <1>6, <1>3, QueueBeforeNext DEF Ordered, QueueInOrder
  <2>2. QED
    BY <1>1, <1>4, <2>1 DEF Ordered
<1>7. QED
  BY <1>5, <1>6 DEF Enqueue

\* The lock keeps a sender from overtaking what is still in the queue.
LEMMA WriteKeepsOrder ==
    ASSUME Places, SequenceTypes, SenderTypes, LockHeld, Ordered, NEW s \in Senders, Write(s)
    PROVE  Ordered'
<1>1. SenderAt(s, "idle") /\ pc[s] # "idle"
  BY SenderMoves DEF Write
<1>2. pc'[Loop] # "flush"
  BY <1>1, Distinct DEF Write, LockedOut, LockHeld, SenderAt
<1>3. UNCHANGED <<send_queue, sends>> /\ <<s, sends[s]>> \in Messages /\ sends[s] \in Nat
  BY <1>1 DEF Write, queue, callers, SenderTypes, Messages
<1>4. \A m \in Messages : Before(m) => BeforeNext(m)
  BY <1>1, <1>3 DEF Messages, Before, BeforeNext, SenderAt
<1>5. QueueBefore' /\ QueueInOrder'
  BY <1>3, <1>4, QueueBeforeNext DEF Ordered, QueueInOrder
<1>6. CASE output' = Append(output, <<s, sends[s]>>)
  <2>1. /\ Len(output') = Len(output) + 1 /\ Len(output) \in Nat
        /\ output'[Len(output) + 1] = <<s, sends[s]>>
        /\ \A i \in 1 .. Len(output) : output'[i] = output[i]
    BY <1>3, <1>6, Appended DEF SequenceTypes
  <2>2. OutputBefore'
    <3>1. \A i \in 1 .. Len(output) : output'[i] # CLOSE => BeforeNext(output'[i])
      BY <1>4, <2>1 DEF SequenceTypes, Ordered, OutputBefore
    <3>2. BeforeNext(<<s, sends[s]>>)
      BY <1>1, <1>3 DEF BeforeNext, SenderAt
    <3>3. \A i \in 1 .. Len(output') : output'[i] # CLOSE => BeforeNext(output'[i])
      BY <2>1, <3>1, <3>2
    <3>4. QED
      BY <3>3 DEF OutputBefore, Before, BeforeNext
  <2>3. \A i \in 1 .. Len(output) : output[i] # CLOSE /\ output[i][1] = s => output[i][2] < sends[s]
    BY <1>1 DEF Ordered, OutputBefore, Before
  <2>4. OutputInOrder'
    BY <2>1, <2>3 DEF Ordered, OutputInOrder
  <2>5. QED
    BY <1>2, <1>5, <2>2, <2>4 DEF Ordered
<1>7. CASE output' = output
  <2>1. OutputBefore' /\ OutputInOrder'
    BY <1>7, <1>4, OutputBeforeNext DEF Ordered, OutputInOrder
  <2>2. QED
    BY <1>2, <1>5, <2>1 DEF Ordered
<1>8. QED
  BY <1>6, <1>7 DEF Write

LEMMA OrderedStep ==
    ASSUME Places, SenderTypes, SequenceTypes, Control, Unopened, Ordered, Turns, OnlySenders, Next
    PROVE  Ordered'
<1>1. CASE SendersStay /\ UNCHANGED sends
  <2>1. CASE UNCHANGED <<output, send_queue>>
    BY <1>1, <2>1, OrderStays DEF Turns, Unopened
  <2>2. CASE SendClose(Owner) \/ SendClose(Loop) \/ Reply
    <3>1. (UNCHANGED output \/ output' = Append(output, CLOSE)) /\ UNCHANGED send_queue
      BY <2>2 DEF SendClose, Reply, queue
    <3>2. pc'[Loop] = "flush" => pc[Loop] = "flush"
      <4>1. CASE SendClose(Owner)
        <5>1. OwnerAt("wait") \/ OwnerAt("shutdown")
          BY <4>1, OwnerMoves DEF SendClose
        <5>2. QED
          BY <5>1 DEF OwnerAt
      <4>2. CASE SendClose(Loop)
        <5>1. LoopAt("wait") \/ LoopAt("shutdown")
          BY <4>2, LoopMoves DEF SendClose
        <5>2. QED
          BY <5>1 DEF LoopAt
      <4>3. CASE Reply
        <5>1. LoopAt("loop")
          BY <4>3, LoopMoves DEF Reply
        <5>2. QED
          BY <5>1 DEF LoopAt
      <4>4. QED
        BY <2>2, <4>1, <4>2, <4>3
    <3>3. QED
      BY <1>1, <3>1, <3>2, OrderStays, OrderedAroundClose
  <2>3. CASE Flush
    BY <2>3, FlushKeepsOrder
  <2>4. ASSUME NEW s \in Senders, SenderStep(s) PROVE Ordered'
    BY <2>4, SendDataKeepsOrder, EnqueueKeepsOrder, WriteKeepsOrder DEF SenderStep, Control
  <2>5. QED
    BY <2>1, <2>2, <2>3, <2>4, WhoWrites, WhoQueues DEF SenderStep, queue
<1>2. ASSUME NEW s \in Senders, SenderStep(s) PROVE Ordered'
  BY <1>2, SendDataKeepsOrder, EnqueueKeepsOrder, WriteKeepsOrder DEF SenderStep, Control
<1>3. QED
  BY <1>1, <1>2 DEF OnlySenders

-----------------------------------------------------------------------------
(* The theorems.                                                           *)

LEMMA InitInvariant == Init => IInv
<1> SUFFICES ASSUME Init PROVE IInv
  OBVIOUS
<1>1. /\ pc[Owner] = "new" /\ pc[Loop] = "loop" /\ pc[Helper] = "idle"
      /\ \A s \in Senders : pc[s] = "idle" /\ sends[s] = 0
      /\ PcFunction /\ sends \in [Senders -> 0 .. MaxSends]
  BY Distinct, ClientAssumption DEF Init, PcFunction
<1>2. /\ Len(output) = 0 /\ Len(send_queue) = 0
      /\ output \in Seq(Messages \cup {CLOSE}) /\ send_queue \in Seq(Messages)
  BY DEF Init
<1>3. TypeOK
  <2>1. PlaceTypes /\ SenderTypes
    BY <1>1, ClientAssumption DEF PlaceTypes, SenderTypes, OwnerLabels, LoopLabels, HelperLabels, SenderLabels
  <2>2. ValueTypes
    <3>1. /\ resume = "loop" /\ state = "DISCONNECTED" /\ bev = "none" /\ thread = "none"
          /\ locked = FALSE /\ loopexit = FALSE /\ upgraded = FALSE /\ sent_close = FALSE
          /\ events = {} /\ calls = 0 /\ user \in Users /\ event_thread = FALSE /\ early = FALSE
      BY DEF Init
    <3>2. /\ event_thread \in BOOLEAN /\ early \in BOOLEAN
          /\ locked \in BOOLEAN /\ loopexit \in BOOLEAN /\ upgraded \in BOOLEAN /\ sent_close \in BOOLEAN
          /\ \A S : events \subseteq S
      BY <3>1
    <3>3. calls \in 0 .. 2
      BY <3>1
    <3>4. QED
      BY <3>1, <3>2, <3>3 DEF ValueTypes
  <2>3. SequenceTypes
    BY <1>2, ClientAssumption DEF Init, SequenceTypes
  <2>4. QED
    BY <2>1, <2>2, <2>3, TypeParts
<1>4. Places /\ Wiring /\ LockHeld /\ Answered /\ Truthful
  BY <1>1 DEF Init, Places, Wiring, FreedAfterLoop, running, LockHeld, Answered, Truthful, DestroyedUnlessEof, DisconnectLabels
<1>5. CloseOnce /\ Unopened
  <2>1. OneCloseFrame /\ NoClose /\ OnlyClose
    BY <1>2 DEF OneCloseFrame, NoClose, OnlyClose
  <2>2. QED
    BY <1>1, <2>1 DEF Init, CloseOnce, Unopened, NobodySends
<1>6. Ordered /\ FlushedUnlessLate
  BY <1>1, <1>2 DEF Init, Ordered, OutputBefore, QueueBefore, OutputInOrder, QueueInOrder, FlushedUnlessLate
<1>7. QED
  BY <1>3, <1>4, <1>5, <1>6 DEF IInv

LEMMA NextInvariant == IInv /\ [Next]_vars => IInv'
<1> SUFFICES ASSUME IInv, [Next]_vars PROVE IInv'
  OBVIOUS
<1>1. CASE Next
  <2>1. PlaceTypes /\ SenderTypes /\ ValueTypes /\ SequenceTypes /\ Places
    BY TypeParts DEF IInv
  <2>2. Control
    BY <2>1 DEF IInv, Control
  <2>3. Control' /\ Turns /\ OnlySenders
    BY <1>1, <2>1, <2>2, ControlStep, SenderControl DEF Next, OnlySenders
  <2>4. SenderTypes' /\ ValueTypes' /\ SequenceTypes'
    BY <1>1, <2>1, <2>3, SendersStep, ValuesStep, SequencesStep
  <2>5. CloseOnce' /\ Unopened' /\ Ordered' /\ FlushedUnlessLate'
    BY <1>1, <2>1, <2>2, <2>3, CloseStep, UnopenedStep, OrderedStep, FlushedStep DEF IInv
  <2>6. PlaceTypes' /\ Wiring' /\ LockHeld' /\ Answered' /\ Truthful'
    BY <2>3 DEF Control
  <2>7. TypeOK' /\ Places'
    BY <2>4, <2>6, TypePartsNext
  <2>8. QED
    BY <2>5, <2>6, <2>7 DEF IInv
<1>2. CASE UNCHANGED vars
  <2>1. TypeOK'
    <3>1. PlaceTypes /\ SenderTypes /\ ValueTypes /\ SequenceTypes
      BY TypeParts DEF IInv
    <3>2. PlaceTypes' /\ SenderTypes'
      BY <1>2, <3>1 DEF vars, PlaceTypes, SenderTypes, PcFunction
    <3>3. ValueTypes' /\ SequenceTypes'
      BY <1>2, <3>1 DEF vars, ValueTypes, SequenceTypes
    <3>4. QED
      BY <3>2, <3>3, TypePartsNext
  <2>2. Places' /\ Wiring'
    BY <1>2 DEF vars, IInv, Places, PcFunction, Wiring, FreedAfterLoop, running
  <2>3. CloseOnce' /\ LockHeld' /\ Answered'
    BY <1>2 DEF vars, IInv, CloseOnce, OneCloseFrame, NoClose, LockHeld, Answered
  <2>4. Unopened' /\ FlushedUnlessLate' /\ Truthful'
    BY <1>2 DEF vars, IInv, Unopened, BeforeFlush, OnlyClose, NobodySends, FlushedUnlessLate, Truthful,
       OwnerAtWork, CallbackDisconnects, DestroyedUnlessEof
  <2>5. Ordered'
    BY <1>2 DEF vars, IInv, Ordered, OutputBefore, QueueBefore, OutputInOrder, QueueInOrder, OutputFirst, Before
  <2>6. QED
    BY <2>1, <2>2, <2>3, <2>4, <2>5 DEF IInv
<1>3. QED
  BY <1>1, <1>2

LEMMA Invariant == Spec => []IInv
  BY InitInvariant, NextInvariant, PTL DEF Spec

\* Every variable keeps its type, and the queue never grows beyond MAX_QUEUE_SIZE.
THEOREM TypeCorrect == Spec => []TypeOK
<1>1. IInv => TypeOK
  BY DEF IInv
<1>2. QED
  BY <1>1, Invariant, PTL

\* cleanup() frees the bufferevent without a lock only when the event loop is over, on whichever
\* threads disconnect() was called; unless a callback called it before connect() had stored
\* event_thread.
THEOREM NeverFreedUnderLoop == Spec => []FreedAfterLoop
<1>1. IInv => FreedAfterLoop
  BY DEF IInv, Wiring, FreedAfterLoop
<1>2. QED
  BY <1>1, Invariant, PTL

\* The exchange of sent_close lets one close frame out, whoever answers or disconnects.
THEOREM AtMostOneClose == Spec => []OneCloseFrame
<1>1. IInv => OneCloseFrame
  BY DEF IInv, CloseOnce
<1>2. QED
  BY <1>1, Invariant, PTL

\* The packets of a sender, queued before the upgrade or written afterwards, go out in the order
\* of its calls and once each.
THEOREM OrderKept == Spec => []SentInOrder
<1>1. IInv => SentInOrder
  BY DEF IInv, Ordered, OutputInOrder, SentInOrder
<1>2. QED
  BY <1>1, Invariant, PTL

\* flushSendQueue() leaves nothing in the queue of an open connection but what a sender that had
\* seen CONNECTING brought afterwards.
THEOREM OnlyLateStays == Spec => []FlushedUnlessLate
<1>1. IInv => FlushedUnlessLate
  BY DEF IInv
<1>2. QED
  BY <1>1, Invariant, PTL

\* The destructor leaves no event thread and no bufferevent behind, unless EOF has set DISCONNECTED
\* first, a callback's disconnect() is under way, or one came before event_thread was stored.
THEOREM CleanUnlessEof == Spec => []DestroyedUnlessEof
<1>1. IInv => DestroyedUnlessEof
  BY DEF IInv, Truthful
<1>2. QED
  BY <1>1, Invariant, PTL
=============================================================================
