----------------------- MODULE ChannelRegistry_proofs -----------------------
(***************************************************************************)
(* Proofs about ChannelRegistry, for any number of calls, starts, threads  *)
(* and channels.  The counter is compared with the number of streams at    *)
(* certain places, so the proofs are about how a step of one stream        *)
(* changes such numbers.                                                   *)
(***************************************************************************)
EXTENDS ChannelRegistry, FiniteSetTheorems, TLAPS

-----------------------------------------------------------------------------
(* Counting streams.                                                       *)

\* How many streams are at one of the places in L, when p says where they are.
Count(p, L) == Cardinality({s \in Streams : p[s] \in L})

\* What a stream at place l adds to it.
One(l, L) == IF l \in L THEN 1 ELSE 0

LEMMA CountRange ==
    ASSUME NEW p, NEW L
    PROVE  /\ IsFiniteSet({s \in Streams : p[s] \in L})
           /\ Count(p, L) \in Nat
           /\ Count(p, L) <= Cardinality(Streams)
           /\ \A s \in Streams : p[s] \in L => Count(p, L) >= 1
<1> DEFINE S == {s \in Streams : p[s] \in L}
<1>1. S \in SUBSET Streams /\ IsFiniteSet(Streams)
  BY RegistryAssumption
<1>2. IsFiniteSet(S) /\ Cardinality(S) <= Cardinality(Streams)
  BY <1>1, FS_Subset
<1>3. Cardinality(S) \in Nat
  BY <1>2, FS_CardinalityType
<1>4. ASSUME NEW s \in Streams, p[s] \in L PROVE Cardinality(S) >= 1
  <2>1. S # {}
    BY <1>4
  <2>2. Cardinality(S) # 0
    BY <1>2, <2>1, FS_EmptySet
  <2>3. QED
    BY <1>3, <2>2
<1>5. QED
  BY <1>2, <1>3, <1>4 DEF Count

\* One stream moves to place l.
Moved(p, q, s, l) ==
    p \in [Streams -> Labels] /\ s \in Streams /\ q = [p EXCEPT ![s] = l]

LEMMA CountMove ==
    ASSUME NEW p, NEW q, NEW s, NEW l, NEW L, Moved(p, q, s, l)
    PROVE  Count(q, L) = Count(p, L) + One(l, L) - One(p[s], L)
<1>1. p \in [Streams -> Labels] /\ s \in Streams /\ q = [p EXCEPT ![s] = l]
  BY DEF Moved
<1> DEFINE P == {x \in Streams : p[x] \in L}
           Q == {x \in Streams : q[x] \in L}
<1>2. IsFiniteSet(P) /\ IsFiniteSet(Q) /\ Cardinality(P) \in Nat /\ Cardinality(Q) \in Nat
  BY CountRange DEF Count
<1>3. CASE p[s] \in L /\ l \in L
  <2>1. P = Q
    BY <1>3, <1>1
  <2>2. QED
    BY <1>2, <1>3, <2>1 DEF Count, One
<1>4. CASE p[s] \notin L /\ l \notin L
  <2>1. P = Q
    BY <1>4, <1>1
  <2>2. QED
    BY <1>2, <1>4, <2>1 DEF Count, One
<1>5. CASE p[s] \in L /\ l \notin L
  <2>1. Q = P \ {s} /\ s \in P
    BY <1>5, <1>1
  <2>2. Cardinality(P \ {s}) = Cardinality(P) - 1
    <3> HIDE DEF P
    <3>1. QED
      BY <1>2, <2>1, FS_RemoveElement
  <2>3. Cardinality(Q) = Cardinality(P) - 1
    BY <2>1, <2>2
  <2>4. QED
    BY <1>2, <1>5, <2>3 DEF Count, One
<1>6. CASE p[s] \notin L /\ l \in L
  <2>1. Q = P \cup {s} /\ s \notin P
    BY <1>6, <1>1
  <2>2. Cardinality(Q) = Cardinality(P) + 1
    BY <1>2, <2>1, FS_AddElement
  <2>3. QED
    BY <1>2, <1>6, <2>2 DEF Count, One
<1>7. QED
  BY <1>3, <1>4, <1>5, <1>6

LEMMA CountSubset ==
    ASSUME NEW p, NEW L, NEW M, L \subseteq M PROVE Count(p, L) <= Count(p, M)
<1> DEFINE P == {s \in Streams : p[s] \in L}
           Q == {s \in Streams : p[s] \in M}
<1>1. P \in SUBSET Q /\ IsFiniteSet(Q)
  BY CountRange
<1>2. QED
  BY <1>1, FS_Subset DEF Count

-----------------------------------------------------------------------------
(* The inductive invariant.                                                *)

taken      == Count(pc, Holding \cup {"orphan"})
doubled    == Count(pc, {"twice"})
starters   == Count(pc, Starting)
reserving  == Count(pc, {"reserve"})
allocating == Count(pc, {"allocate"})
ended      == Count(pc, {"failed", "gone", "twice"}) + doubled

\* What is known of a stream from where it is.
Shape ==
    \A s \in Streams :
        /\ pc[s] \in {"new", "full", "reload", "reserve", "allocate", "refused"} => streamer[s] = "none"
        /\ streamer[s] \in {"finished", "deleted"} => pc[s] \in {"destroy", "gone", "twice"}
        /\ At(s, "reload") => healed /\ lock = s
        /\ At(s, "full") => current[s] >= MaxChannels
        /\ ~At(s, "new") => call[s] \in Calls

\* The slots that are taken or leaked, with those that passed the check, are no more than
\* the limit, the threads that start and the slots that were given back twice: one of the
\* threads saw the counter below the limit.
Crowd ==
    /\ starters <= ApiThreads
    /\ ~healed => g_active_channels + doubled \in {taken, taken + Modulus}
    /\ ~healed => taken + reserving < MaxChannels + ApiThreads + doubled

\* What a start reads back after it replaced the counter: no more than what is registered
\* or about to be, unless slots that were given back took it below zero.
ReadBack == \/ g_active_channels <= Cardinality(g_active_sessions) + allocating
            \/ g_active_channels >= Modulus - ended
ReloadSound == \A s \in Streams : At(s, "reload") => ReadBack

\* RegisteredUnlessErased, for a stream that is about to run as well.
Registered ==
    \A s \in Streams :
        pc[s] \in {"init", "running"} /\ call[s] \notin g_active_sessions =>
            \E x \in Streams : /\ call[x] = call[s]
                               /\ \/ x # s /\ streamer[x] \in {"finished", "deleted"}
                                  \/ streamer[x] = "stillborn"

IInv == TypeOK /\ Shape /\ Crowd /\ ReloadSound /\ Registered

-----------------------------------------------------------------------------
(* Facts about one step.                                                   *)

LEMMA Numbers ==
    /\ taken \in Nat /\ doubled \in Nat /\ starters \in Nat
    /\ reserving \in Nat /\ allocating \in Nat /\ ended \in Nat
    /\ taken <= Cardinality(Streams) /\ doubled <= Cardinality(Streams)
    /\ ended <= 2 * Cardinality(Streams)
    /\ reserving <= starters
    /\ MaxChannels \in Nat /\ ApiThreads \in Nat /\ Modulus \in Nat /\ Cardinality(Streams) \in Nat
    /\ MaxChannels + 2 * Cardinality(Streams) < Modulus
<1>1. {"reserve"} \subseteq Starting
  BY DEF Starting
<1>2. Cardinality(Streams) \in Nat
  BY RegistryAssumption, FS_CardinalityType
<1>3. /\ taken \in Nat /\ doubled \in Nat /\ starters \in Nat
      /\ reserving \in Nat /\ allocating \in Nat
      /\ taken <= Cardinality(Streams) /\ doubled <= Cardinality(Streams)
  BY CountRange DEF taken, doubled, starters, reserving, allocating
<1>4. ended \in Nat /\ ended <= 2 * Cardinality(Streams)
  <2>1. /\ Count(pc, {"failed", "gone", "twice"}) \in Nat
        /\ Count(pc, {"failed", "gone", "twice"}) <= Cardinality(Streams)
    BY CountRange
  <2>2. QED
    BY <1>2, <1>3, <2>1 DEF ended
<1>5. reserving <= starters
  BY <1>1, CountSubset DEF reserving, starters
<1>6. QED
  BY <1>2, <1>3, <1>4, <1>5, RegistryAssumption

\* The number of registered calls is one the counter can take.
LEMMA Sessions ==
    ASSUME g_active_sessions \subseteq Calls
    PROVE  /\ Cardinality(g_active_sessions) \in Nat
           /\ Cardinality(g_active_sessions) < Modulus
<1>1. IsFiniteSet(Calls) /\ Cardinality(Calls) \in Nat /\ Cardinality(Calls) < Modulus
      /\ Modulus \in Nat
  BY RegistryAssumption, FS_CardinalityType
<1>2. IsFiniteSet(g_active_sessions) /\ Cardinality(g_active_sessions) <= Cardinality(Calls)
  BY <1>1, FS_Subset
<1>3. QED
  BY <1>1, <1>2, FS_CardinalityType

LEMMA Wraps ==
    ASSUME NEW m \in Nat, NEW x \in 0 .. m - 1
    PROVE  /\ (x + 1) % m = IF x = m - 1 THEN 0 ELSE x + 1
           /\ (x - 1) % m = IF x = 0 THEN m - 1 ELSE x - 1
<1>1. CASE x = m - 1
  BY <1>1
<1>2. CASE x # m - 1
  BY <1>2
<1>3. QED
  BY <1>1, <1>2

\* A stream goes from one place to another.
LEMMA Moves ==
    ASSUME TypeOK, NEW s \in Streams, NEW l, Goto(s, l)
    PROVE  /\ taken' = taken + One(l, Holding \cup {"orphan"})
                             - One(pc[s], Holding \cup {"orphan"})
           /\ doubled' = doubled + One(l, {"twice"}) - One(pc[s], {"twice"})
           /\ starters' = starters + One(l, Starting) - One(pc[s], Starting)
           /\ reserving' = reserving + One(l, {"reserve"}) - One(pc[s], {"reserve"})
           /\ allocating' = allocating + One(l, {"allocate"}) - One(pc[s], {"allocate"})
           /\ ended' = ended + One(l, {"failed", "gone", "twice"}) + One(l, {"twice"})
                             - One(pc[s], {"failed", "gone", "twice"}) - One(pc[s], {"twice"})
           /\ \A x \in Streams : pc'[x] = IF x = s THEN l ELSE pc[x]
<1>1. pc \in [Streams -> Labels] /\ pc' = [pc EXCEPT ![s] = l]
  BY DEF TypeOK, Goto
<1>2. \A L : Count(pc', L) = Count(pc, L) + One(l, L) - One(pc[s], L)
  <2>1. Moved(pc, pc', s, l)
    BY <1>1 DEF Moved
  <2>2. QED
    BY <2>1, CountMove
<1>3. \A x \in Streams : pc'[x] = IF x = s THEN l ELSE pc[x]
  BY <1>1
<1>4. QED
  <2>1. /\ Count(pc, {"failed", "gone", "twice"}) \in Nat /\ Count(pc, {"twice"}) \in Nat
        /\ \A L : One(l, L) \in Nat /\ One(pc[s], L) \in Nat
    BY CountRange DEF One
  <2>2. QED
    BY <1>2, <1>3, <2>1 DEF taken, doubled, starters, reserving, allocating, ended

-----------------------------------------------------------------------------
(* The invariant holds initially, and every step keeps each of its parts.  *)

LEMMA InitInvariant == Init => IInv
<1> SUFFICES ASSUME Init PROVE IInv
  OBVIOUS
<1>1. TypeOK
  <2>1. 0 \in 0 .. Modulus - 1
    BY Numbers
  <2>2. QED
    BY <2>1 DEF Init, TypeOK, Labels
<1>2. Shape
  BY RegistryAssumption DEF Init, Shape, At
<1>3. Crowd
  <2>1. \A L : "new" \notin L => Count(pc, L) = 0
    <3> SUFFICES ASSUME NEW L, "new" \notin L PROVE Count(pc, L) = 0
      OBVIOUS
    <3>1. {s \in Streams : pc[s] \in L} = {}
      BY DEF Init
    <3>2. QED
      BY <3>1, FS_EmptySet DEF Count
  <2>2. taken = 0 /\ doubled = 0 /\ starters = 0 /\ reserving = 0
    BY <2>1 DEF taken, doubled, starters, reserving, Holding, Starting
  <2>3. QED
    BY <2>2, Numbers, RegistryAssumption DEF Init, Crowd
<1>4. ReloadSound
  BY DEF Init, ReloadSound, At
<1>5. Registered
  BY DEF Init, Registered
<1>6. QED
  BY <1>1, <1>2, <1>3, <1>4, <1>5 DEF IInv

\* What a step of the stream s can be.
Step(s) ==
    \/ \E c \in Calls : Start(s, c)
    \/ Mismatch(s) \/ Reload(s) \/ Refuse(s)
    \/ Reserve(s) \/ GiveBack(s) \/ Register(s) \/ Throw(s)
    \/ InitFails(s) \/ Run(s) \/ Orphan(s)
    \/ Finish(s) \/ Destroy(s) \/ DestroyAgain(s) \/ Delete(s)

LEMMA TypeStep == ASSUME TypeOK, Shape, NEW s \in Streams, Step(s) PROVE TypeOK'
<1>1. /\ Modulus \in Nat /\ g_active_channels \in 0 .. Modulus - 1
      /\ (g_active_channels + 1) % Modulus \in 0 .. Modulus - 1
      /\ (g_active_channels - 1) % Modulus \in 0 .. Modulus - 1
      /\ Cardinality(g_active_sessions) \in 0 .. Modulus - 1
  <2>1. Modulus \in Nat /\ g_active_channels \in 0 .. Modulus - 1
    BY Numbers DEF TypeOK
  <2>2. Cardinality(g_active_sessions) \in Nat /\ Cardinality(g_active_sessions) < Modulus
    BY Sessions DEF TypeOK
  <2>3. QED
    BY <2>1, <2>2, Wraps
<1>2. CASE \E c \in Calls : Start(s, c)
  BY <1>2 DEF Start, Goto, At, registry, TypeOK, Labels, Starting
<1>3. CASE Mismatch(s)
  BY <1>1, <1>3 DEF Mismatch, Goto, At, registry, TypeOK, Labels, Starting
<1>4. CASE Reload(s)
  BY <1>1, <1>4 DEF Reload, Goto, At, registry, TypeOK, Labels, Starting
<1>5. CASE Refuse(s)
  BY <1>1, <1>5 DEF Refuse, Goto, At, registry, TypeOK, Labels, Starting
<1>6. CASE Reserve(s)
  BY <1>1, <1>6 DEF Reserve, Increment, Goto, At, registry, TypeOK, Labels, Starting
<1>7. CASE GiveBack(s)
  BY <1>1, <1>7 DEF GiveBack, Decrement, Goto, At, registry, TypeOK, Labels, Starting
<1>8. CASE Register(s)
  BY <1>1, <1>8 DEF Register, Insert, Goto, At, registry, TypeOK, Shape, Labels, Starting
<1>9. CASE Throw(s)
  BY <1>1, <1>9 DEF Throw, Erase, Goto, At, registry, TypeOK, Labels, Starting
<1>10. CASE InitFails(s)
  BY <1>1, <1>10 DEF InitFails, Decrement, Goto, At, registry, TypeOK, Labels, Starting
<1>11. CASE Run(s)
  BY <1>1, <1>11 DEF Run, Goto, At, registry, TypeOK, Labels, Starting
<1>12. CASE Orphan(s)
  BY <1>1, <1>12 DEF Orphan, Goto, At, registry, TypeOK, Labels, Starting
<1>13. CASE Finish(s)
  BY <1>1, <1>13 DEF Finish, Erase, Goto, At, registry, TypeOK, Labels, Starting
<1>14. CASE Destroy(s)
  BY <1>1, <1>14 DEF Destroy, Decrement, Goto, At, registry, TypeOK, Labels, Starting
<1>15. CASE DestroyAgain(s)
  BY <1>1, <1>15 DEF DestroyAgain, Decrement, Goto, At, registry, TypeOK, Labels, Starting
<1>16. CASE Delete(s)
  BY <1>1, <1>16 DEF Delete, Erase, Goto, At, registry, TypeOK, Labels, Starting
<1>17. QED
  BY <1>2, <1>3, <1>4, <1>5, <1>6, <1>7, <1>8, <1>9, <1>10, <1>11, <1>12, <1>13, <1>14, <1>15,
     <1>16 DEF Step

LEMMA ShapeStep == ASSUME TypeOK, Shape, NEW s \in Streams, Step(s) PROVE Shape'
<1>1. Nobody \notin Streams /\ MaxChannels \in Nat
  BY RegistryAssumption
<1>2. \A x \in Streams : pc[x] \in Labels
  BY DEF TypeOK
<1>3. CASE \E c \in Calls : Start(s, c)
  <2> PICK c \in Calls : Start(s, c)
    BY <1>3
  <2>1. \A x \in Streams : call'[x] = IF x = s THEN c ELSE call[x]
    BY DEF Start, TypeOK
  <2>2. \A x \in Streams \ {s} : pc'[x] = pc[x] /\ current'[x] = current[x]
    BY DEF Start, Goto, TypeOK
  <2>3. pc'[s] = "reserve" \/ (pc'[s] = "full" /\ current'[s] >= MaxChannels)
    <3>1. g_active_channels < MaxChannels \/ g_active_channels >= MaxChannels
      BY <1>1, Numbers DEF TypeOK
    <3>2. QED
      BY <3>1 DEF Start, Below, Goto, TypeOK
  <2>4. QED
    BY <2>1, <2>2, <2>3 DEF Start, Shape, At, registry
<1>4. CASE Mismatch(s)
  BY <1>1, <1>2, <1>4 DEF Mismatch, Goto, At, registry, TypeOK, Shape
<1>5. CASE Reload(s)
  BY <1>1, <1>2, <1>5 DEF Reload, Goto, At, registry, TypeOK, Shape
<1>6. CASE Refuse(s)
  BY <1>1, <1>2, <1>6 DEF Refuse, Goto, At, registry, TypeOK, Shape
<1>7. CASE Reserve(s)
  BY <1>1, <1>2, <1>7 DEF Reserve, Goto, At, registry, TypeOK, Shape
<1>8. CASE GiveBack(s)
  BY <1>1, <1>2, <1>8 DEF GiveBack, Goto, At, registry, TypeOK, Shape
<1>9. CASE Register(s)
  BY <1>1, <1>2, <1>9 DEF Register, Goto, At, registry, TypeOK, Shape
<1>10. CASE Throw(s)
  BY <1>1, <1>2, <1>10 DEF Throw, Goto, At, registry, TypeOK, Shape
<1>11. CASE InitFails(s)
  BY <1>1, <1>2, <1>11 DEF InitFails, Goto, At, registry, TypeOK, Shape
<1>12. CASE Run(s)
  BY <1>1, <1>2, <1>12 DEF Run, Goto, At, registry, TypeOK, Shape
<1>13. CASE Orphan(s)
  BY <1>1, <1>2, <1>13 DEF Orphan, Goto, At, registry, TypeOK, Shape
<1>14. CASE Finish(s)
  BY <1>1, <1>2, <1>14 DEF Finish, Goto, At, registry, TypeOK, Shape
<1>15. CASE Destroy(s)
  BY <1>1, <1>2, <1>15 DEF Destroy, Goto, At, registry, TypeOK, Shape
<1>16. CASE DestroyAgain(s)
  BY <1>1, <1>2, <1>16 DEF DestroyAgain, Goto, At, registry, TypeOK, Shape
<1>17. CASE Delete(s)
  BY <1>1, <1>2, <1>17 DEF Delete, Goto, At, registry, TypeOK, Shape
<1>18. QED
  BY <1>3, <1>4, <1>5, <1>6, <1>7, <1>8, <1>9, <1>10, <1>11, <1>12, <1>13, <1>14, <1>15, <1>16,
     <1>17 DEF Step

\* Of the numbers that a step could disturb, the ones that count slots.
LEMMA CrowdStep == ASSUME TypeOK, Shape, Crowd, NEW s \in Streams, Step(s) PROVE Crowd'
<1>1. TypeOK
  OBVIOUS
<1>2. /\ taken \in Nat /\ taken' \in Nat /\ taken <= Cardinality(Streams)
      /\ taken' <= Cardinality(Streams)
      /\ doubled \in Nat /\ doubled' \in Nat /\ doubled <= Cardinality(Streams)
      /\ doubled' <= Cardinality(Streams)
      /\ starters \in Nat /\ reserving \in Nat /\ reserving <= starters
      /\ MaxChannels \in Nat /\ ApiThreads \in Nat /\ Modulus \in Nat
      /\ Cardinality(Streams) \in Nat
      /\ MaxChannels + 2 * Cardinality(Streams) < Modulus
      /\ g_active_channels \in 0 .. Modulus - 1
  BY Numbers, CountRange DEF TypeOK, taken, doubled
<1>3. ASSUME NEW c \in Calls, Start(s, c) PROVE Crowd'
  <2>1. starters < ApiThreads /\ healed' = healed /\ g_active_channels' = g_active_channels
    BY <1>3 DEF Start, starters, Count, registry
  <2>2. CASE Below(g_active_channels)
    <3>1. taken' = taken /\ doubled' = doubled /\ starters' = starters + 1 /\ reserving' = reserving + 1
      BY <1>1, <1>2, <1>3, <2>2, Moves DEF One, Holding, Starting, Start, At
    <3>2. QED
      BY <1>2, <2>1, <2>2, <3>1 DEF Crowd, Below
  <2>3. CASE ~Below(g_active_channels)
    <3>1. taken' = taken /\ doubled' = doubled /\ starters' = starters + 1 /\ reserving' = reserving
      BY <1>1, <1>2, <1>3, <2>3, Moves DEF One, Holding, Starting, Start, At
    <3>2. QED
      BY <1>2, <2>1, <3>1 DEF Crowd
  <2>4. QED
    BY <2>2, <2>3
<1>4. CASE Mismatch(s)
  <2>1. starters' = starters /\ healed'
    BY <1>1, <1>2, <1>4, Moves DEF One, Starting, Mismatch, At
  <2>2. QED
    BY <2>1, <1>2 DEF Crowd
<1>5. CASE Reload(s)
  <2>1. healed /\ healed' = healed
    BY <1>5 DEF Reload, Shape, At
  <2>2. starters' <= starters /\ starters' \in Int
    <3>1. CASE Goto(s, "reserve")
      BY <1>1, <1>2, <1>5, <3>1, Moves DEF One, Starting, Reload, At
    <3>2. CASE Goto(s, "refused")
      BY <1>1, <1>2, <1>5, <3>2, Moves DEF One, Starting, Reload, At
    <3>3. QED
      BY <1>5, <3>1, <3>2 DEF Reload
  <2>3. QED
    BY <1>2, <2>1, <2>2 DEF Crowd
<1>6. CASE Refuse(s)
  <2>1. taken' = taken /\ doubled' = doubled /\ starters' = starters - 1 /\ reserving' = reserving
    BY <1>1, <1>2, <1>6, Moves DEF One, Holding, Starting, Refuse, At
  <2>2. healed' = healed /\ g_active_channels' = g_active_channels
    BY <1>6 DEF Refuse, registry
  <2>3. QED
    BY <1>2, <2>1, <2>2 DEF Crowd
<1>7. CASE Reserve(s)
  <2>1. taken' = taken + 1 /\ doubled' = doubled /\ starters' = starters /\ reserving' = reserving - 1
    BY <1>1, <1>2, <1>7, Moves DEF One, Holding, Starting, Reserve, At
  <2>2. healed' = healed /\ g_active_channels' = IF g_active_channels = Modulus - 1
                                                THEN 0 ELSE g_active_channels + 1
    BY <1>2, <1>7, Wraps DEF Reserve, Increment
  <2>3. QED
    BY <1>2, <2>1, <2>2 DEF Crowd
<1>8. CASE GiveBack(s)
  <2>1. taken' = taken - 1 /\ doubled' = doubled /\ starters' = starters - 1 /\ reserving' = reserving
    BY <1>1, <1>2, <1>8, Moves DEF One, Holding, Starting, GiveBack, At
  <2>2. healed' = healed /\ g_active_channels' = IF g_active_channels = 0
                                                THEN Modulus - 1 ELSE g_active_channels - 1
    BY <1>2, <1>8, Wraps DEF GiveBack, Decrement
  <2>3. QED
    BY <1>2, <2>1, <2>2 DEF Crowd
<1>9. CASE Register(s)
  <2>1. taken' = taken /\ doubled' = doubled /\ starters' = starters /\ reserving' = reserving
    BY <1>1, <1>2, <1>9, Moves DEF One, Holding, Starting, Register, At
  <2>2. healed' = healed /\ g_active_channels' = g_active_channels
    BY <1>9 DEF Register, registry
  <2>3. QED
    BY <1>2, <2>1, <2>2 DEF Crowd
<1>10. CASE Throw(s)
  BY <1>10 DEF Throw, Crowd, taken, doubled, starters, reserving
<1>11. CASE InitFails(s)
  <2>1. taken' = taken - 1 /\ doubled' = doubled /\ starters' = starters - 1 /\ reserving' = reserving
    BY <1>1, <1>2, <1>11, Moves DEF One, Holding, Starting, InitFails, At
  <2>2. healed' = healed /\ g_active_channels' = IF g_active_channels = 0
                                                THEN Modulus - 1 ELSE g_active_channels - 1
    BY <1>2, <1>11, Wraps DEF InitFails, Decrement
  <2>3. QED
    BY <1>2, <2>1, <2>2 DEF Crowd
<1>12. CASE Run(s)
  <2>1. taken' = taken /\ doubled' = doubled /\ starters' = starters - 1 /\ reserving' = reserving
    BY <1>1, <1>2, <1>12, Moves DEF One, Holding, Starting, Run, At
  <2>2. healed' = healed /\ g_active_channels' = g_active_channels
    BY <1>12 DEF Run, registry
  <2>3. QED
    BY <1>2, <2>1, <2>2 DEF Crowd
<1>13. CASE Orphan(s)
  <2>1. taken' = taken /\ doubled' = doubled /\ starters' = starters - 1 /\ reserving' = reserving
    BY <1>1, <1>2, <1>13, Moves DEF One, Holding, Starting, Orphan, At
  <2>2. healed' = healed /\ g_active_channels' = g_active_channels
    BY <1>13 DEF Orphan, registry
  <2>3. QED
    BY <1>2, <2>1, <2>2 DEF Crowd
<1>14. CASE Finish(s)
  <2>1. taken' = taken /\ doubled' = doubled /\ starters' = starters /\ reserving' = reserving
    <3>1. pc[s] = "running" /\ Goto(s, "destroy")
      BY <1>14 DEF Finish, At
    <3>2. QED
      BY <1>1, <1>2, <3>1, Moves DEF One, Holding, Starting
  <2>2. healed' = healed /\ g_active_channels' = g_active_channels
    BY <1>14 DEF Finish, registry
  <2>3. QED
    BY <1>2, <2>1, <2>2 DEF Crowd
<1>15. CASE Destroy(s)
  <2>1. taken' = taken - 1 /\ doubled' = doubled /\ starters' = starters /\ reserving' = reserving
    BY <1>1, <1>2, <1>15, Moves DEF One, Holding, Starting, Destroy, At
  <2>2. healed' = healed /\ g_active_channels' = IF g_active_channels = 0
                                                THEN Modulus - 1 ELSE g_active_channels - 1
    BY <1>2, <1>15, Wraps DEF Destroy, Decrement
  <2>3. QED
    BY <1>2, <2>1, <2>2 DEF Crowd
<1>16. CASE DestroyAgain(s)
  <2>1. taken' = taken /\ doubled' = doubled + 1 /\ starters' = starters /\ reserving' = reserving
    BY <1>1, <1>2, <1>16, Moves DEF One, Holding, Starting, DestroyAgain, At
  <2>2. healed' = healed /\ g_active_channels' = IF g_active_channels = 0
                                                THEN Modulus - 1 ELSE g_active_channels - 1
    BY <1>2, <1>16, Wraps DEF DestroyAgain, Decrement
  <2>3. QED
    BY <1>2, <2>1, <2>2 DEF Crowd
<1>17. CASE Delete(s)
  BY <1>17 DEF Delete, Crowd, taken, doubled, starters, reserving
<1>18. QED
  BY <1>3, <1>4, <1>5, <1>6, <1>7, <1>8, <1>9, <1>10, <1>11, <1>12, <1>13, <1>14, <1>15, <1>16,
     <1>17 DEF Step

\* While a stream is about to read the counter again it holds the mutex, so that the set
\* does not change.
LEMMA ReloadStep ==
    ASSUME TypeOK, Shape, ReloadSound, NEW s \in Streams, Step(s) PROVE ReloadSound'
<1>1. TypeOK
  OBVIOUS
<1>2. /\ allocating \in Nat /\ allocating' \in Nat /\ ended \in Nat /\ ended' \in Nat
      /\ Modulus \in Nat /\ g_active_channels \in 0 .. Modulus - 1
      /\ Cardinality(g_active_sessions) \in Nat
  <2>1. allocating' \in Nat /\ ended' \in Nat
    <3>1. \A L : Count(pc', L) \in Nat
      BY CountRange
    <3>2. QED
      BY <3>1 DEF allocating, ended, doubled
  <2>2. QED
    BY <2>1, Numbers, Sessions DEF TypeOK
<1>3. SUFFICES ASSUME NEW x \in Streams, At(x, "reload")' PROVE ReadBack'
  BY DEF ReloadSound
<1>4. CASE Mismatch(s)
  <2>1. /\ g_active_channels' = Cardinality(g_active_sessions)
        /\ g_active_sessions' = g_active_sessions
    BY <1>4 DEF Mismatch
  <2>2. QED
    BY <1>2, <2>1 DEF ReadBack
<1>5. CASE ~Mismatch(s)
  <2>1. At(x, "reload") /\ ~Reload(s)
    <3>1. CASE Reload(s)
      <4>1. pc'[s] # "reload" /\ \A y \in Streams \ {s} : pc'[y] = pc[y]
        BY <3>1 DEF Reload, Goto, TypeOK
      <4>2. x # s /\ pc[x] = "reload" /\ pc[s] = "reload"
        BY <1>3, <3>1, <4>1 DEF At, Reload
      <4>3. lock = x /\ lock = s
        BY <4>2 DEF Shape, At
      <4>4. QED
        BY <4>2, <4>3
    <3>2. CASE ~Reload(s)
      <4>1. CASE \E c \in Calls : Start(s, c)
        BY <1>3, <3>2, <4>1 DEF Start, Goto, At, TypeOK
      <4>2. CASE Refuse(s) \/ Reserve(s) \/ GiveBack(s) \/ Register(s) \/ InitFails(s)
        BY <1>3, <3>2, <4>2 DEF Refuse, Reserve, GiveBack, Register, InitFails, Goto, At, TypeOK
      <4>3. CASE Run(s) \/ Orphan(s) \/ Finish(s) \/ Destroy(s) \/ DestroyAgain(s) \/ Throw(s) \/ Delete(s)
        BY <1>3, <3>2, <4>3 DEF Run, Orphan, Finish, Destroy, DestroyAgain, Throw, Delete, Goto, At, TypeOK
      <4>4. QED
        BY <1>5, <3>2, <4>1, <4>2, <4>3 DEF Step
    <3>3. QED
      BY <3>1, <3>2
  <2>2. ReadBack /\ lock # Nobody
    BY <2>1, RegistryAssumption DEF ReloadSound, Shape
  <2>3. CASE \E c \in Calls : Start(s, c)
    <3> PICK c \in Calls : Start(s, c)
      BY <2>3
    <3>1. allocating' = allocating /\ ended' = ended
      <4>1. CASE Goto(s, "reserve")
        BY <1>1, <1>2, <4>1, Moves DEF One, Start, At
      <4>2. CASE Goto(s, "full")
        BY <1>1, <1>2, <4>2, Moves DEF One, Start, At
      <4>3. QED
        BY <4>1, <4>2 DEF Start
    <3>2. QED
      BY <2>2, <3>1 DEF ReadBack, Start, registry
  <2>4. CASE Reserve(s)
    <3>1. allocating' = allocating + 1 /\ ended' = ended
      BY <1>1, <1>2, <2>4, Moves DEF One, Reserve, At
    <3>2. /\ g_active_sessions' = g_active_sessions
          /\ g_active_channels = Modulus - 1 => g_active_channels' = 0
          /\ g_active_channels # Modulus - 1 => g_active_channels' = g_active_channels + 1
      BY <1>2, <2>4, Wraps DEF Reserve, Increment
    <3>3. QED
      BY <1>2, <2>2, <3>1, <3>2 DEF ReadBack
  <2>5. CASE GiveBack(s)
    <3>1. allocating' = allocating - 1 /\ ended' = ended + 1
      BY <1>1, <1>2, <2>5, Moves DEF One, GiveBack, At
    <3>2. /\ g_active_sessions' = g_active_sessions
          /\ g_active_channels = 0 => g_active_channels' = Modulus - 1
          /\ g_active_channels # 0 => g_active_channels' = g_active_channels - 1
      BY <1>2, <2>5, Wraps DEF GiveBack, Decrement
    <3>3. QED
      BY <1>2, <2>2, <3>1, <3>2 DEF ReadBack
  <2>6. CASE InitFails(s)
    <3>1. allocating' = allocating /\ ended' = ended + 1
      BY <1>1, <1>2, <2>6, Moves DEF One, InitFails, At
    <3>2. /\ g_active_sessions' = g_active_sessions
          /\ g_active_channels = 0 => g_active_channels' = Modulus - 1
          /\ g_active_channels # 0 => g_active_channels' = g_active_channels - 1
      BY <1>2, <2>6, Wraps DEF InitFails, Decrement
    <3>3. QED
      BY <1>2, <2>2, <3>1, <3>2 DEF ReadBack
  <2>7. CASE Destroy(s)
    <3>1. allocating' = allocating /\ ended' = ended + 1
      BY <1>1, <1>2, <2>7, Moves DEF One, Destroy, At
    <3>2. /\ g_active_sessions' = g_active_sessions
          /\ g_active_channels = 0 => g_active_channels' = Modulus - 1
          /\ g_active_channels # 0 => g_active_channels' = g_active_channels - 1
      BY <1>2, <2>7, Wraps DEF Destroy, Decrement
    <3>3. QED
      BY <1>2, <2>2, <3>1, <3>2 DEF ReadBack
  <2>8. CASE DestroyAgain(s)
    <3>1. allocating' = allocating /\ ended' = ended + 1
      BY <1>1, <1>2, <2>8, Moves DEF One, DestroyAgain, At
    <3>2. /\ g_active_sessions' = g_active_sessions
          /\ g_active_channels = 0 => g_active_channels' = Modulus - 1
          /\ g_active_channels # 0 => g_active_channels' = g_active_channels - 1
      BY <1>2, <2>8, Wraps DEF DestroyAgain, Decrement
    <3>3. QED
      BY <1>2, <2>2, <3>1, <3>2 DEF ReadBack
  <2>9. CASE Run(s)
    <3>1. allocating' = allocating /\ ended' = ended
      BY <1>1, <1>2, <2>9, Moves DEF One, Run, At
    <3>2. QED
      BY <2>2, <2>9, <3>1 DEF ReadBack, Run, registry
  <2>10. CASE Orphan(s)
    <3>1. allocating' = allocating /\ ended' = ended
      BY <1>1, <1>2, <2>10, Moves DEF One, Orphan, At
    <3>2. QED
      BY <2>2, <2>10, <3>1 DEF ReadBack, Orphan, registry
  <2>11. ~Refuse(s) /\ ~Register(s) /\ ~Throw(s) /\ ~Finish(s) /\ ~Delete(s)
    BY <2>2 DEF Refuse, Register, Throw, Finish, Delete, Insert, Erase
  <2>12. QED
    BY <1>5, <2>1, <2>3, <2>4, <2>5, <2>6, <2>7, <2>8, <2>9, <2>10,
       <2>11 DEF Step
<1>6. QED
  BY <1>4, <1>5

\* A stream that has unregistered the call of another, or was never registered itself.
Eraser(x, s) == /\ call[x] = call[s]
                /\ \/ x # s /\ streamer[x] \in {"finished", "deleted"}
                   \/ streamer[x] = "stillborn"

LEMMA RegisteredStep ==
    ASSUME TypeOK, Shape, Registered, NEW s \in Streams, Step(s) PROVE Registered'
<1> SUFFICES ASSUME NEW y \in Streams, pc'[y] \in {"init", "running"},
                    call'[y] \notin g_active_sessions'
             PROVE  \E x \in Streams : Eraser(x, y)'
  BY DEF Registered, Eraser
\* A step that unregisters no call and starts no stream loses no witness.
<1>1. ASSUME pc[y] \in {"init", "running"}, call' = call, streamer' = streamer,
             g_active_sessions' = g_active_sessions
      PROVE  \E x \in Streams : Eraser(x, y)'
  <2>1. PICK x \in Streams : Eraser(x, y)
    BY <1>1 DEF Registered, Eraser
  <2>2. Eraser(x, y)'
    BY <1>1, <2>1 DEF Eraser
  <2>3. QED
    BY <2>2
\* One that unregisters its own call is a witness for the others of that call.
<1>2. ASSUME pc[y] \in {"init", "running"}, call' = call, Erase(call[s]),
             NEW o, streamer' = [streamer EXCEPT ![s] = o],
             o = "stillborn" \/ (y # s /\ o \in {"finished", "deleted"})
      PROVE  \E x \in Streams : Eraser(x, y)'
  <2>1. streamer'[s] = o /\ \A x \in Streams \ {s} : streamer'[x] = streamer[x]
    BY <1>2 DEF TypeOK
  <2>2. CASE call[y] = call[s]
    <3>1. Eraser(s, y)'
      BY <1>2, <2>1, <2>2 DEF Eraser
    <3>2. QED
      BY <3>1
  <2>3. CASE call[y] # call[s]
    <3>1. PICK x \in Streams : Eraser(x, y)
      BY <1>2, <2>3 DEF Registered, Eraser, Erase
    <3>2. x # s /\ streamer'[x] = streamer[x]
      BY <2>1, <2>3, <3>1 DEF Eraser
    <3>3. Eraser(x, y)'
      BY <1>2, <3>1, <3>2 DEF Eraser
    <3>4. QED
      BY <3>3
  <2>4. QED
    BY <2>2, <2>3
<1>3. CASE \E c \in Calls : Start(s, c)
  <2> PICK c \in Calls : Start(s, c)
    BY <1>3
  <2>1. /\ pc[s] = "new" /\ y # s /\ pc'[y] = pc[y]
        /\ \A x \in Streams \ {s} : call'[x] = call[x]
        /\ streamer' = streamer /\ g_active_sessions' = g_active_sessions
    BY DEF Start, Goto, At, TypeOK, registry
  <2>2. PICK x \in Streams : Eraser(x, y)
    BY <2>1 DEF Registered, Eraser
  <2>3. streamer[s] = "none"
    BY <2>1 DEF Shape
  <2>4. Eraser(x, y)'
    BY <2>1, <2>2, <2>3 DEF Eraser
  <2>5. QED
    BY <2>4
<1>4. CASE Mismatch(s) \/ Reload(s) \/ Refuse(s) \/ Reserve(s) \/ GiveBack(s) \/ InitFails(s)
  <2>1. /\ pc[y] \in {"init", "running"} /\ call' = call /\ streamer' = streamer
        /\ g_active_sessions' = g_active_sessions
    BY <1>4 DEF Mismatch, Reload, Refuse, Reserve, GiveBack, InitFails, Goto, At, TypeOK, registry
  <2>2. QED
    BY <1>1, <2>1
<1>5. CASE Run(s) \/ Orphan(s) \/ Destroy(s) \/ DestroyAgain(s)
  <2>1. /\ pc[y] \in {"init", "running"} /\ call' = call /\ streamer' = streamer
        /\ g_active_sessions' = g_active_sessions
    BY <1>5 DEF Run, Orphan, Destroy, DestroyAgain, Goto, At, TypeOK, registry
  <2>2. QED
    BY <1>1, <2>1
<1>6. CASE Register(s)
  <2>1. /\ pc[s] = "allocate" /\ call' = call
        /\ g_active_sessions' = g_active_sessions \cup {call[s]}
        /\ \A x \in Streams \ {s} : pc'[x] = pc[x] /\ streamer'[x] = streamer[x]
    BY <1>6 DEF Register, Insert, Goto, At, TypeOK
  <2>2. y # s /\ pc[y] \in {"init", "running"} /\ call[y] \notin g_active_sessions
    BY <2>1
  <2>3. PICK x \in Streams : Eraser(x, y)
    BY <2>2 DEF Registered, Eraser
  <2>4. streamer[s] = "none"
    BY <2>1 DEF Shape
  <2>5. Eraser(x, y)'
    BY <2>1, <2>3, <2>4 DEF Eraser
  <2>6. QED
    BY <2>5
<1>7. CASE Throw(s)
  <2>1. pc' = pc /\ call' = call /\ Erase(call[s]) /\ streamer[s] = "running"
        /\ streamer' = [streamer EXCEPT ![s] = "stillborn"]
    BY <1>7 DEF Throw
  <2>2. QED
    BY <1>2, <2>1
<1>8. CASE Finish(s)
  <2>1. /\ y # s /\ pc'[y] = pc[y] /\ call' = call /\ Erase(call[s])
        /\ streamer' = [streamer EXCEPT ![s] = "finished"]
    BY <1>8 DEF Finish, Goto, TypeOK
  <2>2. QED
    BY <1>2, <2>1
<1>9. CASE Delete(s)
  <2>1. /\ streamer[s] = "finished" /\ pc' = pc /\ call' = call /\ Erase(call[s])
        /\ streamer' = [streamer EXCEPT ![s] = "deleted"]
    BY <1>9 DEF Delete
  <2>2. pc[s] \in {"destroy", "gone", "twice"}
    BY <2>1 DEF Shape
  <2>3. QED
    BY <1>2, <2>1, <2>2
<1>10. QED
  BY <1>3, <1>4, <1>5, <1>6, <1>7, <1>8, <1>9 DEF Step

LEMMA NextInvariant == IInv /\ [Next]_vars => IInv'
<1> SUFFICES ASSUME IInv, [Next]_vars PROVE IInv'
  OBVIOUS
<1>1. ASSUME NEW s \in Streams, Step(s) PROVE IInv'
  BY <1>1, TypeStep, ShapeStep, CrowdStep, ReloadStep, RegisteredStep DEF IInv
<1>2. CASE UNCHANGED vars
  BY <1>2 DEF IInv, vars, TypeOK, Shape, Crowd, ReloadSound, ReadBack, Registered, At,
              taken, doubled, starters, reserving, allocating, ended, Count
<1>3. CASE Next
  <2>1. \E s \in Streams : Step(s)
    BY <1>3 DEF Next, Step
  <2>2. QED
    BY <1>1, <2>1
<1>4. QED
  BY <1>2, <1>3

LEMMA Invariant == Spec => []IInv
<1>1. QED
  BY InitInvariant, NextInvariant, PTL DEF Spec

-----------------------------------------------------------------------------
(* What the runs check, for every value of the constants.                  *)

\* Every variable keeps its type: the counter is unsigned and never leaves its width.
THEOREM TypeCorrect == Spec => []TypeOK
<1>1. IInv => TypeOK
  BY DEF IInv
<1>2. QED
  BY <1>1, Invariant, PTL

\* What the properties count.
LEMMA Slots ==
    /\ taken = Cardinality(Holders) + Cardinality(Leaked)
    /\ doubled = Cardinality(Doubled)
<1>1. IsFiniteSet(Holders) /\ IsFiniteSet(Leaked) /\ Holders \cap Leaked = {}
  <2>1. Holders \in SUBSET Streams /\ Leaked \in SUBSET Streams /\ IsFiniteSet(Streams)
    BY RegistryAssumption DEF Holders, Leaked
  <2>2. QED
    BY <2>1, FS_Subset DEF Holders, Leaked, Holding, At
<1>2. Cardinality(Holders \cup Leaked) = Cardinality(Holders) + Cardinality(Leaked)
  <2>1. Cardinality(Holders) \in Nat /\ Cardinality(Leaked) \in Nat
        /\ Cardinality(Holders \cap Leaked) = 0
    BY <1>1, FS_CardinalityType, FS_EmptySet
  <2>2. QED
    <3>1. Cardinality(Holders \cup Leaked) = Cardinality(Holders) + Cardinality(Leaked)
                                             - Cardinality(Holders \cap Leaked)
      BY <1>1, FS_Union
    <3>2. QED
      BY <2>1, <3>1
<1>3. Holders \cup Leaked = {s \in Streams : pc[s] \in Holding \cup {"orphan"}}
  BY DEF Holders, Leaked, At
<1>4. Doubled = {s \in Streams : pc[s] \in {"twice"}}
  BY DEF Doubled, At
<1>5. QED
  BY <1>2, <1>3, <1>4 DEF taken, doubled, Count

\* Each exit of stream_session_init() and each teardown moves the counter as it should,
\* whatever the order of the threads, but for two: the failed switch_core_media_bug_add()
\* that leaks its slot, and the second teardown that gives a slot back again.
THEOREM SlotsAreCounted == Spec => []CounterIsSlots
<1>1. IInv => CounterIsSlots
  BY Slots DEF IInv, Crowd, CounterIsSlots
<1>2. QED
  BY <1>1, Invariant, PTL

\* check_channel_limit() and increment_active_channels() are two steps: the limit is
\* exceeded by no more than the other threads that start and the slots given back twice.
THEOREM LimitHolds == Spec => []OvershootBounded
<1>1. IInv => OvershootBounded
  BY Slots, Numbers DEF IInv, Crowd, OvershootBounded
<1>2. QED
  BY <1>1, Invariant, PTL

\* A running stream is missing from the registry only when another stream of its call, or
\* its own constructor, has erased the uuid.
THEOREM RunningIsRegistered == Spec => []RegisteredUnlessErased
<1>1. IInv => RegisteredUnlessErased
  BY DEF IInv, Registered, RegisteredUnlessErased, At
<1>2. QED
  BY <1>1, Invariant, PTL

\* However far the counter drifted, check_channel_limit() refuses a start only when the
\* registry and the streams about to enter it have reached the limit, or when a slot given
\* back under its eyes took the new value below zero.
THEOREM RefusalIsJust == Spec => RefusedAtLimit
<1> DEFINE Just(s) == pc[s] # "refused" /\ pc'[s] = "refused" =>
                        \/ Cardinality(g_active_sessions)
                              + Cardinality({x \in Streams : At(x, "allocate")}) >= MaxChannels
                        \/ At(s, "reload") /\ Wrapped
<1>1. ASSUME IInv
      PROVE  /\ Cardinality({x \in Streams : At(x, "allocate")}) = allocating
             /\ allocating \in Nat /\ ended \in Nat /\ ended <= 2 * Cardinality(Streams)
             /\ Cardinality(Streams) \in Nat /\ Cardinality(g_active_sessions) \in Nat
             /\ MaxChannels \in Nat /\ Modulus \in Nat /\ g_active_channels \in 0 .. Modulus - 1
  BY <1>1, Numbers, Sessions DEF IInv, TypeOK, allocating, Count, At
<1>2. ASSUME IInv, NEW s \in Streams, Step(s), NEW y \in Streams PROVE Just(y)
  <2> SUFFICES ASSUME pc[y] # "refused", pc'[y] = "refused" PROVE Just(y)
    OBVIOUS
  <2>1. TypeOK
    BY <1>2 DEF IInv
  <2>2. CASE Refuse(s)
    <3>1. y = s
      BY <2>1, <2>2 DEF Refuse, Goto, TypeOK
    <3>2. Cardinality(g_active_sessions) >= MaxChannels
      BY <1>2, <2>2 DEF IInv, Shape, Refuse
    <3>3. QED
      BY <1>1, <1>2, <3>2
  <2>3. CASE Reload(s)
    <3>1. y = s /\ At(y, "reload") /\ ~Below(g_active_channels)
      BY <2>1, <2>3 DEF Reload, Goto, At, TypeOK
    <3>2. ReadBack
      BY <1>2, <3>1 DEF IInv, ReloadSound
    <3>3. QED
      BY <1>1, <1>2, <3>1, <3>2 DEF ReadBack, Below, Wrapped
  <2>4. CASE ~Refuse(s) /\ ~Reload(s)
    <3>1. CASE \E c \in Calls : Start(s, c)
      BY <2>1, <3>1 DEF Start, Goto, TypeOK
    <3>2. CASE Mismatch(s) \/ Reserve(s) \/ GiveBack(s) \/ Register(s) \/ InitFails(s)
      BY <2>1, <3>2 DEF Mismatch, Reserve, GiveBack, Register, InitFails, Goto, TypeOK
    <3>3. CASE Run(s) \/ Orphan(s) \/ Finish(s) \/ Destroy(s) \/ DestroyAgain(s) \/ Throw(s) \/ Delete(s)
      BY <2>1, <3>3 DEF Run, Orphan, Finish, Destroy, DestroyAgain, Throw, Delete, Goto, TypeOK
    <3>4. QED
      BY <1>2, <2>4, <3>1, <3>2, <3>3 DEF Step
  <2>5. QED
    BY <2>2, <2>3, <2>4
<1>3. ASSUME IInv, [Next]_vars PROVE [\A s \in Streams : Just(s)]_vars
  <2>1. CASE Next
    <3>1. \E s \in Streams : Step(s)
      BY <2>1 DEF Next, Step
    <3>2. QED
      BY <1>2, <1>3, <3>1
  <2>2. QED
    BY <1>3, <2>1
<1>4. QED
  BY <1>3, Invariant, PTL DEF Spec, RefusedAtLimit
=============================================================================
