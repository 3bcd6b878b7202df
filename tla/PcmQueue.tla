------------------------------ MODULE PcmQueue ------------------------------
(***************************************************************************)
(* What the outgoing audio queue of an AudioStreamer promises, without its *)
(* ring, its lock or its threads.  Audio units are numbered in the order   *)
(* the media thread hands them in.  New ones come behind the ones that     *)
(* wait, the sender takes batches from the old end, and when units are     *)
(* dropped, it is the oldest ones: what waits is the most recent audio,    *)
(* without a hole.  A write that is longer than the queue loses its own    *)
(* beginning instead, and may leave one older unit before the hole.        *)
(***************************************************************************)
EXTENDS Naturals, Sequences

CONSTANT Room          \* the most units the queue ever holds

VARIABLES heard,       \* how many units were handed in so far
          queue,       \* the numbers of the units waiting, oldest first
          batch        \* the batch the sender took last

queueVars == <<heard, queue, batch>>

\* The k most recent of h units.
Recent(h, k) == [i \in 1 .. k |-> h - k + i]

Init == heard = 0 /\ queue = <<>> /\ batch = <<>>

\* New audio enters at the back, and the queue may forget some of the oldest; or the new
\* audio loses its beginning, when it fills the queue but for one unit.
Accept ==
    /\ heard' \in Nat /\ heard' > heard
    /\ \E kept \in 0 .. Len(queue), new \in 0 .. heard' - heard :
          /\ kept + new <= Room
          /\ kept = 0 \/ new = heard' - heard \/ (kept = 1 /\ new = Room - 1)
          /\ queue' = SubSeq(queue, Len(queue) - kept + 1, Len(queue)) \o Recent(heard', new)
    /\ UNCHANGED batch

\* The sender takes the n oldest units.
Take(n) ==
    /\ batch' = SubSeq(queue, 1, n)
    /\ queue' = SubSeq(queue, n + 1, Len(queue))
    /\ UNCHANGED heard

Next == Accept \/ \E n \in 1 .. Len(queue) : Take(n)

Spec == Init /\ [][Next]_queueVars

-----------------------------------------------------------------------------
\* Batches come out in capture order and no unit comes out twice.
InOrder ==
    [][batch' # batch =>
         /\ \A i \in 1 .. Len(batch') - 1 : batch'[i] < batch'[i + 1]
         /\ batch # <<>> => batch'[1] > batch[Len(batch)]]_queueVars
=============================================================================
