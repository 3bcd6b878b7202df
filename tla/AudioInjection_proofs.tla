------------------------- MODULE AudioInjection_proofs -------------------------
(***************************************************************************)
(* Proofs about AudioInjection, for every set of messages, rates, channel  *)
(* counts and sizes of the buffer and the frame, as long as those are      *)
(* even: what is queued, given up and played, at which rate, and what a    *)
(* teardown leaves; and about the companding in G711, segment by segment.  *)
(***************************************************************************)
EXTENDS AudioInjection, SequenceTheorems, TLAPS

-----------------------------------------------------------------------------
(* The inductive invariant.                                                *)

MessageRates == {m.rate : m \in Messages}

\* TypeOK is about what the properties need; a step needs the rest.
Numbers ==
    /\ accepted \in Nat /\ dropped \in Nat /\ wasted \in Nat /\ heard \in Nat
    /\ input_len \in Nat
    /\ msg \in [rate : Nat, channels : Nat, len : Nat, to : Nat]
    /\ pc # "idle" => msg.rate \in MessageRates /\ msg.channels # 0
    /\ inject_resampler \in [in : Nat, out : Nat, since : 0 .. MaxChanges]

\* Every byte is accounted for; the buffer holds the newest, and a frame older ones.
Queued ==
    /\ accepted = Len(inject_buffer) + dropped + wasted + heard
    /\ \A i \in 1 .. Len(inject_buffer) : inject_buffer[i].n = accepted - Len(inject_buffer) + i
    /\ \A i \in 1 .. Len(frame) : frame[i].n = frame[1].n + i - 1
    /\ \A i \in 1 .. Len(frame) : frame[i].n <= accepted - Len(inject_buffer)

\* Without odd messages the first half of a sample is always in an odd place.
Paired ==
    ~odd =>
        /\ Len(inject_buffer) % 2 = 0
        /\ \A i \in 1 .. Len(inject_buffer) : inject_buffer[i].first = (i % 2 = 1)
        /\ \A i \in 1 .. Len(frame) : frame[i].first = (i % 2 = 1)
        /\ pc = "queue" => input_len % 2 = 0

\* Which rates the resampler goes between, as long as the codec is that of its making.
Matched ==
    /\ codec.n <= changes /\ inject_resampler.since <= codec.n
    /\ inject_resampler # None =>
           /\ inject_resampler.in = inject_sample_rate
           /\ inject_resampler.since = codec.n => inject_resampler.out = codec.rate
    /\ pc = "resample" => inject_sample_rate = msg.rate
    /\ pc = "resample" /\ inject_resampler # None /\ inject_resampler.since = codec.n
           => msg.to = codec.rate
    /\ RightRate

\* Who can be where once the teardown has begun.
Teardown ==
    /\ private => ~torn /\ ~overtaken
    /\ ~private /\ ~overtaken => pc = "idle"
    /\ private /\ pc = "resample" => inject_resampler # None
    /\ torn /\ ~overtaken => inject_resampler = None
    /\ pc = "undefined" => overtaken

IInv == TypeOK /\ Numbers /\ Queued /\ Paired /\ Matched /\ Teardown

\* TypeOK in two: the bytes, and all else.
Byte(count) == [n : 1 .. count, first : BOOLEAN]

ByteTypes ==
    /\ inject_buffer \in Seq(Byte(accepted)) /\ Len(inject_buffer) <= Capacity
    /\ frame \in Seq(Byte(accepted)) /\ Len(frame) <= FrameBytes

OtherTypes ==
    /\ writes \in BOOLEAN /\ private \in BOOLEAN /\ torn \in BOOLEAN /\ overtaken \in BOOLEAN
    /\ inject_audio_enabled \in BOOLEAN
    /\ codec \in [name : Name, rate : Rates, n : 0 .. MaxChanges]
    /\ inject_sample_rate \in {Sampling} \cup MessageRates
    /\ pc \in {"idle", "convert", "resample", "queue", "undefined"}
    /\ odd \in BOOLEAN /\ messages \in 0 .. MaxMessages /\ changes \in 0 .. MaxChanges

LEMMA Types == TypeOK <=> ByteTypes /\ OtherTypes /\ inject_resampler.since \in 0 .. MaxChanges
BY DEF TypeOK, ByteTypes, OtherTypes, Byte, MessageRates

LEMMA TypesNext ==
    TypeOK' <=> ByteTypes' /\ OtherTypes' /\ inject_resampler'.since \in 0 .. MaxChanges
BY DEF TypeOK, ByteTypes, OtherTypes, Byte, MessageRates

-----------------------------------------------------------------------------
(* Numbers and sequences.                                                  *)

LEMMA Quotient ==
    ASSUME NEW a \in Nat, NEW b \in Nat \ {0}
    PROVE  a \div b \in Nat
OBVIOUS

LEMMA Product ==
    ASSUME NEW a \in Nat, NEW b \in Nat
    PROVE  a * b \in Nat
OBVIOUS

LEMMA EvenSum ==
    ASSUME NEW a \in Nat, NEW b \in Nat, a % 2 = 0, b % 2 = 0
    PROVE  (a + b) % 2 = 0
OBVIOUS

LEMMA EvenDifference ==
    ASSUME NEW a \in Nat, NEW b \in Nat, a % 2 = 0, b % 2 = 0
    PROVE  (a - b) % 2 = 0
OBVIOUS

LEMMA SameParity ==
    ASSUME NEW a \in Nat, NEW b \in Nat, b % 2 = 0
    PROVE  (b + a) % 2 = a % 2
OBVIOUS

LEMMA Cut ==
    ASSUME NEW S, NEW q \in Seq(S), NEW a \in 1 .. Len(q) + 1, NEW b \in 0 .. Len(q),
           a <= b + 1
    PROVE  /\ SubSeq(q, a, b) \in Seq(S)
           /\ Len(SubSeq(q, a, b)) = b - a + 1
           /\ \A i \in 1 .. b - a + 1 : SubSeq(q, a, b)[i] = q[a + i - 1]
<1>1. Len(q) \in Nat
  BY LenProperties
<1>2. a \in Int /\ b \in Int /\ \A i \in a .. b : i \in 1 .. Len(q)
  BY <1>1
<1>3. \A i \in a .. b : q[i] \in S
  BY <1>2, ElementOfSeq
<1>4. QED
  BY <1>1, <1>2, <1>3, SubSeqProperties

LEMMA Numbered ==
    ASSUME NEW S, NEW n \in Nat, NEW f \in [1 .. n -> S]
    PROVE  f \in Seq(S) /\ Len(f) = n
OBVIOUS

LEMMA MoreBytes ==
    ASSUME NEW a \in Nat, NEW b \in Nat, a <= b, NEW q \in Seq(Byte(a))
    PROVE  q \in Seq(Byte(b))
<1>1. Byte(a) \subseteq Byte(b)
  BY DEF Byte
<1>2. Len(q) \in Nat /\ q \in [1 .. Len(q) -> Byte(a)]
  BY LenProperties
<1>3. q \in [1 .. Len(q) -> Byte(b)]
  BY <1>1, <1>2
<1>4. QED
  BY <1>2, <1>3, Numbered

-----------------------------------------------------------------------------
(* Queue: the room that is made.                                           *)

LEMMA RoomIsMade ==
    ASSUME ByteTypes, Numbers
    PROVE  /\ Len(inject_buffer) \in 0 .. Capacity
           /\ WriteLen \in 0 .. input_len /\ WriteLen <= Capacity
           /\ ToDrop \in 0 .. Len(inject_buffer)
           /\ WriteLen = input_len \/ ToDrop = Len(inject_buffer)
           /\ Len(inject_buffer) - ToDrop + WriteLen \in 0 .. Capacity
           /\ ToDrop + (input_len - WriteLen) # 0
                  => Len(inject_buffer) - ToDrop + WriteLen = Capacity
           /\ Len(inject_buffer) % 2 = 0 /\ input_len % 2 = 0
                  => WriteLen % 2 = 0 /\ ToDrop % 2 = 0
<1> DEFINE L == Len(inject_buffer)
<1>1. L \in Nat /\ L <= Capacity
  BY LenProperties DEF ByteTypes
<1>2. Capacity \in Nat /\ Capacity % 2 = 0 /\ input_len \in Nat
  BY InjectionAssumption DEF Numbers
<1>3. WriteLen = IF input_len > Capacity THEN Capacity ELSE input_len
  BY DEF WriteLen
<1>4. ToDrop = IF WriteLen > Capacity - L THEN WriteLen - (Capacity - L) ELSE 0
  BY DEF ToDrop, FreeBytes
<1> HIDE DEF L
<1>5. WriteLen \in 0 .. input_len /\ WriteLen <= Capacity
  BY <1>1, <1>2, <1>3
<1>6. ToDrop \in 0 .. L /\ L - ToDrop + WriteLen \in 0 .. Capacity
  BY <1>1, <1>2, <1>4, <1>5
<1>7. ToDrop + (input_len - WriteLen) # 0 => L - ToDrop + WriteLen = Capacity
  BY <1>1, <1>2, <1>3, <1>4, <1>5
<1>8. L % 2 = 0 /\ input_len % 2 = 0 => WriteLen % 2 = 0 /\ ToDrop % 2 = 0
  <2>1. SUFFICES ASSUME L % 2 = 0, input_len % 2 = 0
                 PROVE  WriteLen % 2 = 0 /\ ToDrop % 2 = 0
    OBVIOUS
  <2>2. WriteLen % 2 = 0
    BY <1>2, <1>3, <2>1
  <2>3. Capacity - L \in Nat /\ (Capacity - L) % 2 = 0
    BY <1>1, <1>2, <2>1, EvenDifference
  <2>4. (WriteLen - (Capacity - L)) % 2 = 0
    BY <1>2, <1>5, <2>2, <2>3, EvenDifference
  <2>5. QED
    BY <1>4, <2>2, <2>4
<1>9. WriteLen = input_len \/ ToDrop = L
  BY <1>1, <1>2, <1>3, <1>4
<1>10. QED
  BY <1>1, <1>5, <1>6, <1>7, <1>8, <1>9 DEF L

LEMMA Queueing ==
    ASSUME ByteTypes, Numbers, Queue
    PROVE  LET kept == Len(inject_buffer) - ToDrop
           IN  /\ inject_buffer' \in Seq(Byte(accepted + input_len))
               /\ Len(inject_buffer') = kept + WriteLen
               /\ \A i \in 1 .. kept : inject_buffer'[i] = inject_buffer[ToDrop + i]
               /\ \A i \in 1 .. WriteLen :
                      inject_buffer'[kept + i] = [n |-> accepted + (input_len - WriteLen + i),
                                                  first |-> (input_len - WriteLen + i) % 2 = 1]
<1> DEFINE L == Len(inject_buffer)
           I == input_len
           W == WriteLen
           D == ToDrop
           k == L - D
           S == Byte(accepted + I)
           old == SubSeq(inject_buffer, D + 1, L)
<1>1. L \in Nat /\ I \in Nat /\ accepted \in Nat /\ W \in 0 .. I /\ D \in 0 .. L
  BY RoomIsMade DEF Numbers
<1>2. inject_buffer \in Seq(S)
  BY <1>1, MoreBytes DEF ByteTypes
<1>3. inject_buffer' = old \o Newest
  BY DEF Queue
<1>4. /\ Bytes \in Seq(S) /\ Len(Bytes) = I
      /\ \A i \in 1 .. I : Bytes[i] = [n |-> accepted + i, first |-> i % 2 = 1]
  <2>1. Bytes = [i \in 1 .. I |-> [n |-> accepted + i, first |-> i % 2 = 1]]
    BY DEF Bytes
  <2> HIDE DEF I
  <2>2. \A i \in 1 .. I : [n |-> accepted + i, first |-> i % 2 = 1] \in S
    BY <1>1 DEF Byte
  <2> HIDE DEF S
  <2>3. Bytes \in [1 .. I -> S]
    BY <2>1, <2>2
  <2>4. QED
    BY <1>1, <2>1, <2>3, Numbered
<1>5. Newest = SubSeq(Bytes, I - W + 1, I)
  BY DEF Newest
<1> HIDE DEF L, I, W, D, S
<1>6. Newest \in Seq(S) /\ Len(Newest) = W /\ \A i \in 1 .. W : Newest[i] = Bytes[I - W + i]
  <2>1. I - W + 1 \in 1 .. Len(Bytes) + 1 /\ I \in 0 .. Len(Bytes) /\ I - W + 1 <= I + 1
    BY <1>1, <1>4
  <2>2. /\ Newest \in Seq(S) /\ Len(Newest) = I - (I - W + 1) + 1
        /\ \A i \in 1 .. I - (I - W + 1) + 1 : Newest[i] = Bytes[(I - W + 1) + i - 1]
    BY <1>4, <1>5, <2>1, Cut
  <2>3. I - (I - W + 1) + 1 = W
    BY <1>1
  <2>4. ASSUME NEW i \in 1 .. W PROVE Newest[i] = Bytes[I - W + i]
    <3>1. (I - W + 1) + i - 1 = I - W + i
      BY <1>1
    <3>2. QED
      BY <3>1, <2>2, <2>3
  <2>5. QED
    BY <2>2, <2>3, <2>4
<1>7. old \in Seq(S) /\ Len(old) = k /\ \A i \in 1 .. k : old[i] = inject_buffer[D + i]
  <2>1. D + 1 \in 1 .. L + 1 /\ L \in 0 .. L /\ D + 1 <= L + 1 /\ L = Len(inject_buffer)
    BY <1>1 DEF L
  <2>2. /\ old \in Seq(S) /\ Len(old) = L - (D + 1) + 1
        /\ \A i \in 1 .. L - (D + 1) + 1 : old[i] = inject_buffer[(D + 1) + i - 1]
    BY <1>2, <2>1, Cut
  <2>3. L - (D + 1) + 1 = k
    BY <1>1
  <2> HIDE DEF old
  <2>4. ASSUME NEW i \in 1 .. k PROVE old[i] = inject_buffer[D + i]
    <3>1. (D + 1) + i - 1 = D + i
      BY <1>1
    <3>2. QED
      BY <3>1, <2>2, <2>3
  <2>5. QED
    BY <2>2, <2>3, <2>4
<1> DEFINE new == old \o Newest
<1> HIDE DEF old
<1>8. /\ new \in Seq(S) /\ Len(new) = Len(old) + Len(Newest)
      /\ \A i \in 1 .. Len(old) + Len(Newest) :
             new[i] = IF i <= Len(old) THEN old[i] ELSE Newest[i - Len(old)]
  BY <1>6, <1>7, ConcatProperties
<1> HIDE DEF new
<1>9. k \in Nat /\ W \in Nat
  BY <1>1
<1> HIDE DEF k
<1>10. \A i \in 1 .. k : new[i] = inject_buffer[D + i]
  <2>1. SUFFICES ASSUME NEW i \in 1 .. k PROVE new[i] = inject_buffer[D + i]
    OBVIOUS
  <2>2. i \in 1 .. k + W /\ i <= k
    BY <1>9
  <2>3. new[i] = old[i]
    BY <2>2, <1>6, <1>7, <1>8
  <2>4. QED
    BY <2>3, <1>7
<1>11. \A i \in 1 .. W :
           new[k + i] = [n |-> accepted + (I - W + i), first |-> (I - W + i) % 2 = 1]
  <2>1. SUFFICES ASSUME NEW i \in 1 .. W
                 PROVE  new[k + i] = [n |-> accepted + (I - W + i),
                                      first |-> (I - W + i) % 2 = 1]
    OBVIOUS
  <2>2. k + i \in 1 .. k + W /\ ~ (k + i <= k) /\ (k + i) - k = i
    BY <1>9
  <2>3. new[k + i] = Newest[i]
    BY <2>2, <1>6, <1>7, <1>8
  <2>4. I - W + i \in 1 .. I
    BY <1>1
  <2>5. QED
    BY <2>3, <2>4, <1>4, <1>6
<1>12. inject_buffer' = new
  BY <1>3 DEF new
<1>13. Len(new) = k + W
  BY <1>6, <1>7, <1>8
<1>14. QED
  BY <1>8, <1>10, <1>11, <1>12, <1>13 DEF k, L, D, W, I, S

\* Of a full queue the newest bytes remain, in order and paired as before.
LEMMA QueueKeeps ==
    ASSUME ByteTypes, Numbers, Queued, Paired, pc = "queue", Queue
    PROVE  ByteTypes' /\ Queued' /\ Paired' /\ DropsForRoom
<1> DEFINE L == Len(inject_buffer)
           I == input_len
           W == WriteLen
           D == ToDrop
           k == L - D
           q == inject_buffer'
<1>1. /\ L \in 0 .. Capacity /\ W \in 0 .. I /\ D \in 0 .. L /\ k + W \in 0 .. Capacity
      /\ W = I \/ D = L
      /\ D + (I - W) # 0 => k + W = Capacity
      /\ L % 2 = 0 /\ I % 2 = 0 => W % 2 = 0 /\ D % 2 = 0
  BY RoomIsMade
<1>2. /\ I \in Nat /\ accepted \in Nat /\ dropped \in Nat /\ wasted \in Nat /\ heard \in Nat
      /\ Capacity \in Nat
  BY InjectionAssumption DEF Numbers
<1>3. /\ q \in Seq(Byte(accepted + I)) /\ Len(q) = k + W
      /\ \A i \in 1 .. k : q[i] = inject_buffer[D + i]
      /\ \A i \in 1 .. W : q[k + i] = [n |-> accepted + (I - W + i), first |-> (I - W + i) % 2 = 1]
  BY Queueing
<1>4. /\ accepted' = accepted + I /\ dropped' = dropped + D + (I - W)
      /\ wasted' = wasted /\ heard' = heard /\ frame' = frame
      /\ pc' = "idle" /\ input_len' = I /\ odd' = odd
  BY DEF Queue
<1>5. /\ accepted = L + dropped + wasted + heard
      /\ \A i \in 1 .. L : inject_buffer[i].n = accepted - L + i
      /\ \A i \in 1 .. Len(frame) : frame[i].n = frame[1].n + i - 1
      /\ \A i \in 1 .. Len(frame) : frame[i].n <= accepted - L
  BY DEF Queued
<1>6. frame \in Seq(Byte(accepted)) /\ Len(frame) \in Nat /\ Len(frame) <= FrameBytes
  BY LenProperties DEF ByteTypes
<1> HIDE DEF L, I, W, D, q
<1>7. L \in Nat /\ W \in Nat /\ D \in Nat /\ k \in Nat /\ D <= L /\ W <= I /\ I - W \in Nat
      /\ L = D + k
  BY <1>1, <1>2
<1> HIDE DEF k
<1>8. ByteTypes'
  <2>1. frame \in Seq(Byte(accepted + I))
    BY <1>2, <1>6, MoreBytes
  <2>2. Len(q) <= Capacity
    BY <1>1, <1>2, <1>3
  <2>3. Byte(accepted)' = Byte(accepted + I)
    BY <1>4 DEF Byte
  <2>4. frame' \in Seq(Byte(accepted)') /\ q \in Seq(Byte(accepted)')
    BY <1>3, <1>4, <2>1, <2>3
  <2>5. QED
    BY <1>4, <1>6, <2>2, <2>4 DEF ByteTypes, q
<1>9. ASSUME NEW i \in 1 .. k + W PROVE q[i].n = accepted + I - (k + W) + i
  <2>1. CASE i <= k
    <3>1. i \in 1 .. k /\ D + i \in 1 .. L
      BY <1>7, <2>1
    <3>2. q[i].n = accepted - L + (D + i)
      BY <3>1, <1>3, <1>5
    <3>3. W = I
      BY <3>1, <1>1, <1>7
    <3>4. QED
      BY <3>2, <3>3, <1>2, <1>7
  <2>2. CASE i > k
    <3> DEFINE j == i - k
    <3>1. j \in 1 .. W /\ k + j = i
      BY <1>7, <2>2
    <3> HIDE DEF j
    <3>2. q[k + j] = [n |-> accepted + (I - W + j), first |-> (I - W + j) % 2 = 1]
      BY <3>1, <1>3
    <3>3. q[i].n = accepted + (I - W + j)
      BY <3>1, <3>2
    <3>4. QED
      BY <3>1, <3>2, <1>2, <1>7
  <2>3. QED
    BY <2>1, <2>2, <1>7

<1>10. Queued'
  <2>1. accepted' - (k + W) = accepted + I - (k + W) /\ accepted' - (k + W) >= accepted - L
    BY <1>2, <1>4, <1>7
  <2>2. accepted' = (k + W) + dropped' + wasted' + heard'
    BY <1>2, <1>4, <1>5, <1>7
  <2>3. ASSUME NEW i \in 1 .. Len(q) PROVE q[i].n = accepted' - Len(q) + i
    <3>1. i \in 1 .. k + W /\ accepted' - Len(q) = accepted + I - (k + W)
      <4>1. Len(q) = k + W /\ accepted' = accepted + I
        BY <1>3, <1>4
      <4>2. QED
        BY <4>1, <1>2, <1>7
    <3>2. q[i].n = accepted + I - (k + W) + i
      BY <3>1, <1>9
    <3>3. QED
      BY <3>1, <3>2
  <2>4. ASSUME NEW i \in 1 .. Len(frame) PROVE frame[i].n <= accepted' - Len(q)
    <3>1. frame[i].n <= accepted - L
      BY <1>5
    <3>2. frame[i].n \in Int
      <4>1. frame[i] \in Byte(accepted)
        BY <1>6, ElementOfSeq
      <4>2. QED
        BY <4>1, <1>2 DEF Byte
    <3>3. accepted' - Len(q) >= accepted - L /\ accepted' - Len(q) \in Int /\ accepted - L \in Int
      BY <2>1, <1>2, <1>3, <1>4, <1>7
    <3>4. QED
      BY <3>1, <3>2, <3>3
  <2>5. QED
    BY <1>3, <1>4, <1>5, <2>2, <2>3, <2>4 DEF Queued, q
<1>11. Paired'
  <2>1. SUFFICES ASSUME ~odd
                 PROVE  /\ Len(q) % 2 = 0
                        /\ \A i \in 1 .. Len(q) : q[i].first = (i % 2 = 1)
                        /\ \A i \in 1 .. Len(frame) : frame[i].first = (i % 2 = 1)
    BY <1>4 DEF Paired, q
  <2>2. /\ L % 2 = 0 /\ I % 2 = 0
        /\ \A i \in 1 .. L : inject_buffer[i].first = (i % 2 = 1)
        /\ \A i \in 1 .. Len(frame) : frame[i].first = (i % 2 = 1)
    BY <2>1 DEF Paired, L, I
  <2>3. W % 2 = 0 /\ D % 2 = 0
    BY <1>1, <2>2
  <2>4. k % 2 = 0 /\ (I - W) % 2 = 0
    BY <1>2, <1>7, <2>2, <2>3
  <2>5. Len(q) % 2 = 0
    BY <1>3, <1>7, <2>3, <2>4, EvenSum
  <2>6. ASSUME NEW i \in 1 .. k + W PROVE q[i].first = (i % 2 = 1)
    <3>1. CASE i <= k
      <4>1. i \in 1 .. k /\ D + i \in 1 .. L /\ i \in Nat
        BY <1>7, <3>1
      <4>2. q[i].first = ((D + i) % 2 = 1)
        BY <4>1, <1>3, <2>2
      <4>3. (D + i) % 2 = i % 2
        BY <4>1, <1>7, <2>3, SameParity
      <4>4. QED
        BY <4>2, <4>3
    <3>2. CASE i > k
      <4> DEFINE j == i - k
      <4>1. j \in 1 .. W /\ k + j = i /\ j \in Nat
        BY <1>7, <3>2
      <4> HIDE DEF j
      <4>2. q[k + j] = [n |-> accepted + (I - W + j), first |-> (I - W + j) % 2 = 1]
        BY <4>1, <1>3
      <4>3. q[i].first = ((I - W + j) % 2 = 1)
        BY <4>1, <4>2
      <4>4. (k + j) % 2 = j % 2
        BY <4>1, <1>7, <2>4, SameParity
      <4>5. ((I - W) + j) % 2 = j % 2
        BY <4>1, <1>7, <2>4, SameParity
      <4>6. QED
        BY <4>1, <4>3, <4>4, <4>5
    <3>3. QED
      BY <3>1, <3>2, <1>7
  <2>7. QED
    BY <1>3, <2>2, <2>5, <2>6
<1>12. DropsForRoom
  <2>1. accepted' = (k + W) + dropped' + wasted' + heard'
    BY <1>2, <1>4, <1>5, <1>7
  <2>2. ASSUME dropped' # dropped PROVE k + W = Capacity
    BY <2>2, <1>1, <1>2, <1>4, <1>7
  <2>3. QED
    BY <1>3, <2>1, <2>2 DEF DropsForRoom, q
<1>13. QED
  BY <1>8, <1>10, <1>11, <1>12

LEMMA PlayReads ==
    ASSUME ByteTypes
    PROVE  /\ Len(inject_buffer) \in Nat /\ FrameBytes \in Nat
           /\ ToRead \in 0 .. Len(inject_buffer) /\ ToRead <= FrameBytes
           /\ Playable \in 0 .. ToRead
           /\ Len(inject_buffer) % 2 = 0 => ToRead % 2 = 0
<1>1. Len(inject_buffer) \in Nat /\ FrameBytes \in Nat /\ FrameBytes % 2 = 0
  BY InjectionAssumption, LenProperties DEF ByteTypes
<1>2. ToRead \in 0 .. Len(inject_buffer) /\ ToRead <= FrameBytes
  BY <1>1 DEF ToRead
<1>3. Len(inject_buffer) % 2 = 0 => ToRead % 2 = 0
  BY <1>1 DEF ToRead
<1>4. Playable \in 0 .. ToRead
  BY <1>1, <1>2 DEF Playable
<1>5. QED
  BY <1>1, <1>2, <1>3, <1>4

\* A frame takes the oldest bytes and what is left is queued as before.
LEMMA PlayKeeps ==
    ASSUME ByteTypes, Numbers, Queued, Paired, Play
    PROVE  ByteTypes' /\ Queued' /\ Paired' /\ DropsForRoom
<1> DEFINE L == Len(inject_buffer)
           R == ToRead
           p == Playable
           f == frame'
           q == inject_buffer'
           S == Byte(accepted)
<1>1. /\ L \in Nat /\ R \in 0 .. L /\ R <= FrameBytes /\ p \in 0 .. R /\ FrameBytes \in Nat
      /\ L % 2 = 0 => R % 2 = 0
  BY PlayReads
<1>2. /\ accepted \in Nat /\ dropped \in Nat /\ wasted \in Nat /\ heard \in Nat
      /\ L <= Capacity /\ Capacity \in Nat /\ inject_buffer \in Seq(S)
  BY InjectionAssumption DEF Numbers, ByteTypes
<1>3. /\ f = SubSeq(inject_buffer, 1, p) /\ q = SubSeq(inject_buffer, R + 1, L)
      /\ heard' = heard + p /\ wasted' = wasted + (R - p)
      /\ accepted' = accepted /\ dropped' = dropped
      /\ pc' = pc /\ input_len' = input_len /\ odd' = odd
  BY DEF Play, event
<1>4. f \in Seq(S) /\ Len(f) = p /\ \A i \in 1 .. p : f[i] = inject_buffer[i]
  <2>1. 1 \in 1 .. L + 1 /\ p \in 0 .. L /\ 1 <= p + 1 /\ p - 1 + 1 = p
    BY <1>1
  <2> HIDE DEF S, p
  <2>2. /\ f \in Seq(S) /\ Len(f) = p - 1 + 1
        /\ \A i \in 1 .. p - 1 + 1 : f[i] = inject_buffer[1 + i - 1]
    BY <1>2, <1>3, <2>1, Cut
  <2>3. \A i \in 1 .. p : 1 + i - 1 = i
    OBVIOUS
  <2> HIDE DEF f
  <2>4. QED
    BY <2>1, <2>2, <2>3
<1>5. q \in Seq(S) /\ Len(q) = L - R /\ \A i \in 1 .. L - R : q[i] = inject_buffer[R + i]
  <2>1. R + 1 \in 1 .. L + 1 /\ L \in 0 .. L /\ R + 1 <= L + 1 /\ L - (R + 1) + 1 = L - R
    BY <1>1
  <2> HIDE DEF S, R
  <2>2. /\ q \in Seq(S) /\ Len(q) = L - (R + 1) + 1
        /\ \A i \in 1 .. L - (R + 1) + 1 : q[i] = inject_buffer[(R + 1) + i - 1]
    BY <1>2, <1>3, <2>1, Cut
  <2> HIDE DEF q, L
  <2>3. \A i \in 1 .. L - R : (R + 1) + i - 1 = R + i
    BY <1>1
  <2>4. QED
    BY <2>1, <2>2, <2>3
<1>6. /\ accepted = L + dropped + wasted + heard
      /\ \A i \in 1 .. L : inject_buffer[i].n = accepted - L + i
  BY DEF Queued
<1> HIDE DEF L, R, p, f, q
<1>7. R \in Nat /\ p \in Nat /\ R <= L /\ p <= R
  BY <1>1
<1>8. ByteTypes'
  <2>1. Byte(accepted)' = S
    BY <1>3 DEF Byte
  <2>2. Len(f) <= FrameBytes /\ Len(q) <= Capacity
    BY <1>1, <1>2, <1>4, <1>5, <1>7
  <2> HIDE DEF S
  <2>3. QED
    BY <1>4, <1>5, <2>1, <2>2 DEF ByteTypes, f, q
<1> HIDE DEF S
<1>9. ASSUME NEW i \in 1 .. p PROVE f[i].n = accepted - L + i
  BY <1>4, <1>6, <1>1, <1>7
<1>10. ASSUME NEW i \in 1 .. L - R PROVE q[i].n = accepted - (L - R) + i
  <2>1. R + i \in 1 .. L
    BY <1>1, <1>7
  <2>2. q[i].n = accepted - L + (R + i)
    BY <2>1, <1>5, <1>6
  <2>3. QED
    BY <2>2, <1>1, <1>2, <1>7
<1>11. accepted' = (L - R) + dropped' + wasted' + heard'
  BY <1>1, <1>2, <1>3, <1>6, <1>7
<1>12. Queued'
  <2>1. ASSUME NEW i \in 1 .. p
        PROVE  f[i].n = f[1].n + i - 1 /\ f[i].n <= accepted - (L - R)
    <3>1. 1 \in 1 .. p
      BY <1>7
    <3>2. f[1].n = accepted - L + 1 /\ f[i].n = accepted - L + i
      BY <3>1, <1>9
    <3>3. QED
      BY <3>2, <1>1, <1>2, <1>7
  <2>2. QED
    BY <1>3, <1>4, <1>5, <1>10, <1>11, <2>1 DEF Queued, f, q
<1>13. Paired'
  <2>1. SUFFICES ASSUME ~odd
                 PROVE  /\ Len(q) % 2 = 0
                        /\ \A i \in 1 .. Len(q) : q[i].first = (i % 2 = 1)
                        /\ \A i \in 1 .. Len(f) : f[i].first = (i % 2 = 1)
                        /\ pc = "queue" => input_len % 2 = 0
    BY <1>3 DEF Paired, f, q
  <2>2. /\ L % 2 = 0 /\ \A i \in 1 .. L : inject_buffer[i].first = (i % 2 = 1)
        /\ pc = "queue" => input_len % 2 = 0
    BY <2>1 DEF Paired, L
  <2>3. R % 2 = 0
    BY <1>1, <2>2
  <2>4. (L - R) % 2 = 0
    BY <1>1, <1>7, <2>2, <2>3, EvenDifference
  <2>5. ASSUME NEW i \in 1 .. L - R PROVE q[i].first = (i % 2 = 1)
    <3>1. R + i \in 1 .. L /\ i \in Nat
      BY <1>1, <1>7
    <3>2. q[i].first = ((R + i) % 2 = 1)
      BY <3>1, <1>5, <2>2
    <3>3. (R + i) % 2 = i % 2
      BY <3>1, <1>7, <2>3, SameParity
    <3>4. QED
      BY <3>2, <3>3
  <2>6. ASSUME NEW i \in 1 .. p PROVE f[i].first = (i % 2 = 1)
    <3>1. i \in 1 .. L
      BY <1>1, <1>7
    <3>2. QED
      BY <3>1, <1>4, <2>2
  <2>7. QED
    BY <1>4, <1>5, <2>2, <2>4, <2>5, <2>6
<1>14. DropsForRoom
  BY <1>3, <1>5, <1>11 DEF DropsForRoom, q
<1>15. QED
  BY <1>8, <1>12, <1>13, <1>14

-----------------------------------------------------------------------------
(* The steps that leave the queue alone.                                   *)

LEMMA QueueStays ==
    ASSUME ByteTypes, Numbers, Queued, UNCHANGED queue
    PROVE  ByteTypes' /\ Queued' /\ DropsForRoom
<1>1. /\ inject_buffer' = inject_buffer /\ frame' = frame /\ accepted' = accepted
      /\ dropped' = dropped /\ wasted' = wasted /\ heard' = heard
  BY DEF queue
<1>2. ByteTypes'
  BY <1>1 DEF ByteTypes, Byte
<1>3. Queued' /\ DropsForRoom
  BY <1>1 DEF Queued, DropsForRoom
<1>4. QED
  BY <1>2, <1>3

LEMMA PairsStay ==
    ASSUME Paired, UNCHANGED queue, ~odd' => ~odd, ~odd' /\ pc' = "queue" => input_len' % 2 = 0
    PROVE  Paired'
BY DEF Paired, queue

\* The part of the invariant that such a step has to keep itself.
Rest == OtherTypes /\ Numbers /\ Matched /\ Teardown

LEMMA Assembled ==
    ASSUME ByteTypes', Queued', Paired', Rest'
    PROVE  IInv'
BY TypesNext DEF IInv, Rest, Numbers

LEMMA Disassembled ==
    ASSUME IInv
    PROVE  ByteTypes /\ Queued /\ Paired /\ Rest
BY Types DEF IInv, Rest

LEMMA RatesArePositive ==
    /\ MessageRates \subseteq Nat \ {0} /\ Rates \subseteq Nat \ {0}
    /\ Sampling \in Nat \ {0} /\ MaxChanges \in Nat /\ MaxMessages \in Nat
BY InjectionAssumption DEF MessageRates

LEMMA MonoLength ==
    ASSUME Rest, pc = "convert"
    PROVE  MonoBytes \in Nat
<1>1. msg.len \in Nat /\ msg.channels \in Nat /\ msg.channels # 0
  BY DEF Rest, Numbers
<1>2. 2 * msg.channels \in Nat \ {0}
  BY <1>1
<1>3. msg.len \div (2 * msg.channels) \in Nat
  BY <1>1, <1>2, Quotient
<1>4. QED
  BY <1>1, <1>3 DEF MonoBytes

\* What the resampler gives fits its room, and is whole samples.
LEMMA ResampledLength ==
    ASSUME Rest, pc = "resample", inject_resampler # None
    PROVE  LET n == 2 * (IF Produced < Room THEN Produced ELSE Room)
           IN  n \in Nat /\ n % 2 = 0
<1>1. /\ input_len \in Nat /\ msg.to \in Nat /\ msg.rate \in Nat \ {0}
      /\ inject_resampler.out \in Nat /\ inject_resampler.in \in Nat \ {0}
  BY RatesArePositive DEF Rest, Numbers, Matched
<1>2. input_len \div 2 \in Nat
  BY <1>1
<1>3. (input_len \div 2) * msg.to \in Nat /\ (input_len \div 2) * inject_resampler.out \in Nat
  BY <1>1, <1>2, Product
<1>4. Produced \in Nat
  BY <1>1, <1>3, Quotient DEF Produced
<1>5. Room \in Nat
  <2>1. ((input_len \div 2) * msg.to) \div msg.rate \in Nat
    BY <1>1, <1>3, Quotient
  <2>2. QED
    BY <2>1 DEF Room
<1>6. QED
  BY <1>4, <1>5

LEMMA Initially == Init => IInv
<1> SUFFICES ASSUME Init PROVE IInv
  OBVIOUS
<1>1. MaxChanges \in Nat /\ MaxMessages \in Nat /\ Capacity \in Nat /\ FrameBytes \in Nat
  BY InjectionAssumption
<1>2. inject_buffer = <<>> /\ frame = <<>> /\ accepted = 0 /\ Len(<<>>) = 0
      /\ <<>> \in Seq(Byte(0))
  BY EmptySeq DEF Init
<1>3. ByteTypes
  BY <1>1, <1>2 DEF ByteTypes
<1>4. Queued /\ Paired
  <2>1. /\ \A i \in 1 .. Len(frame) : FALSE
        /\ \A i \in 1 .. Len(inject_buffer) : FALSE
    BY <1>2
  <2>2. Queued
    BY <1>2, <2>1 DEF Init, Queued
  <2>3. Paired
    BY <1>2, <2>1 DEF Init, Paired
  <2>4. QED
    BY <2>2, <2>3
<1>5. OtherTypes
  <2>1. codec \in [name : Name, rate : Rates, n : 0 .. MaxChanges]
    BY <1>1 DEF Init
  <2>2. inject_sample_rate = Sampling /\ pc = "idle" /\ odd = FALSE /\ messages = 0
        /\ changes = 0 /\ private = TRUE /\ torn = FALSE /\ overtaken = FALSE
        /\ inject_audio_enabled = FALSE /\ writes \in BOOLEAN
    BY DEF Init
  <2>3. 0 \in 0 .. MaxMessages /\ 0 \in 0 .. MaxChanges
    BY <1>1
  <2>4. QED
    BY <2>1, <2>2, <2>3 DEF OtherTypes
<1>6. Numbers
  <2>1. msg \in [rate : Nat, channels : Nat, len : Nat, to : Nat]
    BY DEF Init
  <2>2. inject_resampler \in [in : Nat, out : Nat, since : 0 .. MaxChanges]
    BY <1>1 DEF Init, None
  <2>3. QED
    BY <2>1, <2>2 DEF Init, Numbers
<1>7. Matched /\ Teardown
  BY DEF Init, Matched, RightRate, Teardown, None
<1>8. inject_resampler.since \in 0 .. MaxChanges
  BY <1>6 DEF Numbers
<1>9. QED
  BY <1>3, <1>4, <1>5, <1>6, <1>7, <1>8, Types DEF IInv

LEMMA FindKeeps ==
    ASSUME Rest, NEW m \in Messages, Find(m)
    PROVE  Rest' /\ UNCHANGED queue
<1>1. m.rate \in MessageRates /\ m.rate \in Nat /\ m.channels \in Nat \ {0} /\ m.len \in Nat
  BY InjectionAssumption DEF MessageRates
<1>2. msg' = [rate |-> m.rate, channels |-> m.channels, len |-> m.len, to |-> 0]
  BY DEF Find
<1>3. /\ msg' \in [rate : Nat, channels : Nat, len : Nat, to : Nat]
      /\ msg'.rate \in MessageRates /\ msg'.channels # 0
  BY <1>1, <1>2
<1>4. OtherTypes'
  BY RatesArePositive DEF Rest, OtherTypes, Find, stream, resample, queue, event
<1>5. Numbers'
  BY <1>3 DEF Rest, Numbers, Find, stream, resample, queue, event
<1>6. Matched'
  BY DEF Rest, Matched, RightRate, Find, stream, resample, queue, event
<1>7. Teardown'
  BY DEF Rest, Teardown, Published, Find, stream, resample, queue, event
<1>8. QED
  BY <1>1, <1>2, <1>3, <1>4, <1>5, <1>6, <1>7 DEF Rest, Find

LEMMA NoResamplingKeeps ==
    ASSUME Rest, NoResampling
    PROVE  Rest' /\ UNCHANGED queue
           /\ (~odd' => ~odd /\ input_len' % 2 = 0)
<1>1. input_len' = MonoBytes /\ MonoBytes \in Nat /\ odd' = (odd \/ MonoBytes % 2 = 1)
  BY MonoLength DEF NoResampling
<1>2. ~odd' => ~odd /\ input_len' % 2 = 0
  <2>1. MonoBytes % 2 = 0 \/ MonoBytes % 2 = 1
    BY <1>1
  <2>2. QED
    BY <1>1, <2>1
<1>3. OtherTypes'
  BY <1>1 DEF Rest, OtherTypes, NoResampling, stream, resample, queue, event
<1>4. Numbers'
  BY <1>1 DEF Rest, Numbers, NoResampling, stream, resample, queue, event
<1>5. Matched'
  BY DEF Rest, Matched, RightRate, NoResampling, stream, resample, queue, event
<1>6. Teardown'
  BY DEF Rest, Teardown, NoResampling, stream, resample, queue, event
<1>7. QED
  BY <1>1, <1>2, <1>3, <1>4, <1>5, <1>6 DEF Rest, NoResampling

LEMMA KeepResamplerKeeps ==
    ASSUME Rest, KeepResampler
    PROVE  Rest' /\ UNCHANGED queue
<1>1. input_len' = MonoBytes /\ MonoBytes \in Nat
  BY MonoLength DEF KeepResampler
<1>2. /\ msg' = [msg EXCEPT !.to = codec.rate] /\ codec.rate \in Nat
      /\ msg \in [rate : Nat, channels : Nat, len : Nat, to : Nat]
  BY RatesArePositive DEF KeepResampler, Rest, OtherTypes, Numbers
<1>3. /\ msg' \in [rate : Nat, channels : Nat, len : Nat, to : Nat]
      /\ msg'.rate = msg.rate /\ msg'.channels = msg.channels /\ msg'.to = codec.rate
  BY <1>2
<1>4. OtherTypes'
  BY DEF Rest, OtherTypes, KeepResampler, stream, resample, queue, event
<1>5. Numbers'
  BY <1>1, <1>3 DEF Rest, Numbers, KeepResampler, stream, resample, queue, event
<1>6. Matched'
  BY <1>3 DEF Rest, Matched, RightRate, Fits, KeepResampler, stream, resample, queue, event
<1>7. Teardown'
  BY DEF Rest, Teardown, Fits, KeepResampler, stream, resample, queue, event
<1>8. QED
  BY <1>1, <1>2, <1>3, <1>4, <1>5, <1>6, <1>7 DEF Rest, KeepResampler

LEMMA NewResamplerKeeps ==
    ASSUME Rest, NewResampler
    PROVE  Rest' /\ UNCHANGED queue
<1>1. MonoBytes \in Nat
  BY MonoLength DEF NewResampler
<1>2. /\ codec.rate \in Nat \ {0} /\ codec.n \in 0 .. MaxChanges /\ codec.n \in Nat
      /\ msg.rate \in MessageRates /\ msg.rate \in Nat \ {0}
      /\ msg \in [rate : Nat, channels : Nat, len : Nat, to : Nat]
  BY RatesArePositive DEF NewResampler, Rest, OtherTypes, Numbers
<1>3. /\ codec' = codec /\ last' = last /\ changes' = changes /\ odd' = odd
      /\ messages' = messages /\ inject_audio_enabled' = inject_audio_enabled
      /\ writes' = writes /\ private' = private /\ torn' = torn /\ overtaken' = overtaken
      /\ accepted' = accepted /\ dropped' = dropped /\ wasted' = wasted /\ heard' = heard
      /\ pc = "convert"
  BY DEF NewResampler, stream, queue
<1>4. \/ /\ inject_resampler' = [in |-> msg.rate, out |-> codec.rate, since |-> codec.n]
         /\ inject_sample_rate' = msg.rate /\ input_len' = MonoBytes
         /\ msg' = [msg EXCEPT !.to = codec.rate] /\ pc' = "resample"
      \/ /\ inject_resampler' = None /\ pc' = "idle"
         /\ inject_sample_rate' = inject_sample_rate /\ input_len' = input_len /\ msg' = msg
  BY DEF NewResampler
<1>5. ASSUME msg' = [msg EXCEPT !.to = codec.rate]
      PROVE  /\ msg' \in [rate : Nat, channels : Nat, len : Nat, to : Nat]
             /\ msg'.rate = msg.rate /\ msg'.channels = msg.channels /\ msg'.to = codec.rate
  BY <1>2, <1>5
<1>6. None \in [in : Nat, out : Nat, since : 0 .. MaxChanges] /\ None.since = 0
  BY RatesArePositive DEF None
<1>7. ASSUME inject_resampler' = [in |-> msg.rate, out |-> codec.rate, since |-> codec.n]
      PROVE  /\ inject_resampler' \in [in : Nat, out : Nat, since : 0 .. MaxChanges]
             /\ inject_resampler'.in = msg.rate /\ inject_resampler'.out = codec.rate
             /\ inject_resampler'.since = codec.n /\ inject_resampler' # None
  <2>1. None.in = 0
    BY DEF None
  <2>2. QED
    BY <1>2, <1>7, <2>1
<1>8. OtherTypes'
  BY <1>2, <1>3, <1>4 DEF Rest, OtherTypes
<1>9. Numbers'
  <2>1. CASE pc' = "resample"
    BY <1>1, <1>3, <1>4, <1>5, <1>7, <2>1 DEF Rest, Numbers
  <2>2. CASE pc' = "idle"
    BY <1>3, <1>4, <1>6, <2>2 DEF Rest, Numbers
  <2>3. QED
    BY <1>4, <2>1, <2>2
<1>10. Matched'
  <2>1. CASE pc' = "resample"
    BY <1>2, <1>3, <1>4, <1>5, <1>7, <2>1 DEF Rest, Matched, RightRate
  <2>2. CASE pc' = "idle"
    BY <1>2, <1>3, <1>4, <1>6, <2>2 DEF Rest, Matched, RightRate
  <2>3. QED
    BY <1>4, <2>1, <2>2
<1>11. Teardown'
  BY <1>3, <1>4, <1>7 DEF Rest, Teardown
<1>12. QED
  BY <1>1, <1>2, <1>3, <1>4, <1>5, <1>6, <1>7, <1>8, <1>9, <1>10, <1>11 DEF Rest, NewResampler

LEMMA ResampleKeeps ==
    ASSUME Rest, Resample
    PROVE  /\ Rest' /\ UNCHANGED queue /\ odd' = odd
           /\ pc' = "queue" => input_len' % 2 = 0
<1>1. /\ inject_resampler' = inject_resampler /\ inject_sample_rate' = inject_sample_rate
      /\ codec' = codec /\ msg' = msg /\ changes' = changes /\ odd' = odd
      /\ messages' = messages /\ inject_audio_enabled' = inject_audio_enabled
      /\ writes' = writes /\ private' = private /\ torn' = torn /\ overtaken' = overtaken
      /\ accepted' = accepted /\ dropped' = dropped /\ wasted' = wasted /\ heard' = heard
      /\ pc = "resample" /\ UNCHANGED queue
  BY DEF Resample, stream, queue
<1>2. CASE inject_resampler = None
  <2>1. pc' = "undefined" /\ input_len' = input_len /\ last' = last
    BY <1>2 DEF Resample
  <2>2. OtherTypes' /\ Numbers'
    BY <1>1, <2>1 DEF Rest, OtherTypes, Numbers
  <2>3. Matched'
    BY <1>1, <2>1 DEF Rest, Matched, RightRate
  <2>4. Teardown'
    BY <1>1, <1>2, <2>1 DEF Rest, Teardown
  <2>5. QED
    BY <1>1, <2>1, <2>2, <2>3, <2>4 DEF Rest
<1>3. CASE inject_resampler # None
  <2> DEFINE n == 2 * (IF Produced < Room THEN Produced ELSE Room)
  <2>1. /\ pc' = "queue" /\ input_len' = n
        /\ last' = [right |-> msg.rate * inject_resampler.out = msg.to * inject_resampler.in,
                    fresh |-> inject_resampler.since = codec.n]
    BY <1>3 DEF Resample
  <2>2. n \in Nat /\ n % 2 = 0
    BY <1>1, <1>3, ResampledLength
  <2> HIDE DEF n
  <2>3. OtherTypes' /\ Numbers'
    BY <1>1, <2>1, <2>2 DEF Rest, OtherTypes, Numbers
  <2>4. RightRate'
    <3>1. SUFFICES ASSUME inject_resampler.since = codec.n
                   PROVE  msg.rate * inject_resampler.out = msg.to * inject_resampler.in
      BY <2>1 DEF RightRate
    <3>2. /\ inject_resampler.in = msg.rate /\ inject_resampler.out = codec.rate
          /\ msg.to = codec.rate
      BY <1>1, <1>3, <3>1 DEF Rest, Matched
    <3>3. msg.rate \in Nat /\ codec.rate \in Nat
      BY RatesArePositive DEF Rest, Numbers, OtherTypes
    <3>4. msg.rate * codec.rate = codec.rate * msg.rate
      BY <3>3
    <3>5. QED
      BY <3>2, <3>4
  <2>5. Matched'
    BY <1>1, <2>1, <2>4 DEF Rest, Matched
  <2>6. Teardown'
    BY <1>1, <2>1 DEF Rest, Teardown
  <2>7. QED
    BY <1>1, <2>1, <2>2, <2>3, <2>5, <2>6 DEF Rest
<1>4. QED
  BY <1>2, <1>3

LEMMA EnableKeeps ==
    ASSUME Rest, NEW on \in BOOLEAN, Enable(on)
    PROVE  Rest' /\ UNCHANGED queue
<1>1. changes' = changes + 1 /\ changes' \in 0 .. MaxChanges /\ codec.n \in Nat /\ changes \in Nat
  BY RatesArePositive DEF Rest, OtherTypes, Enable
<1>2. OtherTypes'
  BY <1>1 DEF Rest, OtherTypes, Enable, stream, resample, queue, event
<1>3. Numbers'
  BY DEF Rest, Numbers, Enable, stream, resample, queue, event
<1>4. Matched'
  BY <1>1 DEF Rest, Matched, RightRate, Enable, stream, resample, queue, event
<1>5. Teardown'
  BY DEF Rest, Teardown, Enable, stream, resample, queue, event
<1>6. QED
  BY <1>1, <1>2, <1>3, <1>4, <1>5 DEF Rest, Enable

LEMMA RenegotiateKeeps ==
    ASSUME Rest, NEW name \in Name, NEW rate \in Rates, Renegotiate(name, rate)
    PROVE  Rest' /\ UNCHANGED queue
<1>1. /\ changes' = changes + 1 /\ changes' \in 0 .. MaxChanges /\ changes \in Nat
      /\ codec.n \in Nat /\ codec.n <= changes /\ inject_resampler.since \in Nat
      /\ inject_resampler.since <= codec.n
  BY RatesArePositive DEF Rest, OtherTypes, Numbers, Matched, Renegotiate
<1>2. /\ codec'.n = codec.n + 1 /\ codec' \in [name : Name, rate : Rates, n : 0 .. MaxChanges]
  <2>1. codec' = [name |-> name, rate |-> rate, n |-> codec.n + 1]
    BY DEF Renegotiate
  <2>2. codec.n + 1 \in 0 .. MaxChanges
    BY <1>1, RatesArePositive
  <2>3. QED
    BY <2>1, <2>2
<1>3. OtherTypes'
  BY <1>1, <1>2 DEF Rest, OtherTypes, Renegotiate, stream, resample, queue, event
<1>4. Numbers'
  BY DEF Rest, Numbers, Renegotiate, stream, resample, queue, event
<1>5. Matched'
  BY <1>1, <1>2 DEF Rest, Matched, RightRate, Renegotiate, stream, resample, queue, event
<1>6. Teardown'
  BY DEF Rest, Teardown, Renegotiate, stream, resample, queue, event
<1>7. QED
  BY <1>1, <1>2, <1>3, <1>4, <1>5, <1>6 DEF Rest, Renegotiate

LEMMA UnpublishKeeps ==
    ASSUME Rest, Unpublish
    PROVE  Rest' /\ UNCHANGED queue
<1>1. OtherTypes'
  BY DEF Rest, OtherTypes, Unpublish, stream, resample, queue, event
<1>2. Numbers'
  BY DEF Rest, Numbers, Unpublish, stream, resample, queue, event
<1>3. Matched'
  BY DEF Rest, Matched, RightRate, Unpublish, stream, resample, queue, event
<1>4. Teardown'
  BY DEF Rest, Teardown, Unpublish, stream, resample, queue, event
<1>5. QED
  BY <1>1, <1>2, <1>3, <1>4 DEF Rest, Unpublish

LEMMA DestroyKeeps ==
    ASSUME Rest, Destroy
    PROVE  Rest' /\ UNCHANGED queue
<1>1. None \in [in : Nat, out : Nat, since : 0 .. MaxChanges] /\ None.since = 0
  BY RatesArePositive DEF None
<1>2. codec.n \in Nat
  BY RatesArePositive DEF Rest, OtherTypes
<1>3. OtherTypes'
  BY DEF Rest, OtherTypes, Destroy, stream, resample, queue, event
<1>4. Numbers'
  BY <1>1 DEF Rest, Numbers, Destroy, stream, resample, queue, event
<1>5. Matched'
  BY <1>1, <1>2 DEF Rest, Matched, RightRate, Destroy, stream, resample, queue, event
<1>6. Teardown'
  BY DEF Rest, Teardown, Destroy, stream, resample, queue, event
<1>7. QED
  BY <1>1, <1>2, <1>3, <1>4, <1>5, <1>6 DEF Rest, Destroy


-----------------------------------------------------------------------------
(* Steps.                                                                  *)

LEMMA OtherStep ==
    ASSUME ByteTypes, Queued, Paired, Rest, Rest', UNCHANGED queue,
           ~odd' => ~odd, ~odd' /\ pc' = "queue" => input_len' % 2 = 0
    PROVE  IInv' /\ DropsForRoom
<1>1. ByteTypes' /\ Queued' /\ DropsForRoom
  BY QueueStays DEF Rest
<1>2. Paired'
  BY PairsStay
<1>3. QED
  BY <1>1, <1>2, Assembled

LEMMA Step == IInv /\ [Next]_vars => IInv' /\ [DropsForRoom]_vars
<1> SUFFICES ASSUME IInv, [Next]_vars PROVE IInv' /\ [DropsForRoom]_vars
  OBVIOUS
<1>1. ByteTypes /\ Queued /\ Paired /\ Rest
  BY Disassembled
<1>2. ~odd /\ pc = "queue" => input_len % 2 = 0
  BY <1>1 DEF Paired
<1>3. ASSUME NEW m \in Messages, Find(m) PROVE IInv' /\ DropsForRoom
  <2>1. Rest' /\ UNCHANGED queue
    BY <1>1, <1>3, FindKeeps
  <2>2. odd' = odd /\ pc' = "convert"
    BY <1>3 DEF Find
  <2>3. QED
    BY <1>1, <2>1, <2>2, OtherStep
<1>4. CASE NoResampling
  <2>1. Rest' /\ UNCHANGED queue /\ (~odd' => ~odd /\ input_len' % 2 = 0)
    BY <1>1, <1>4, NoResamplingKeeps
  <2>2. QED
    BY <1>1, <2>1, OtherStep
<1>5. CASE KeepResampler
  <2>1. Rest' /\ UNCHANGED queue
    BY <1>1, <1>5, KeepResamplerKeeps
  <2>2. odd' = odd /\ pc' = "resample"
    BY <1>5 DEF KeepResampler
  <2>3. QED
    BY <1>1, <2>1, <2>2, OtherStep
<1>6. CASE NewResampler
  <2>1. Rest' /\ UNCHANGED queue
    BY <1>1, <1>6, NewResamplerKeeps
  <2>2. odd' = odd /\ pc' # "queue"
    BY <1>6 DEF NewResampler
  <2>3. QED
    BY <1>1, <2>1, <2>2, OtherStep
<1>7. CASE Resample
  <2>1. Rest' /\ UNCHANGED queue /\ odd' = odd /\ (pc' = "queue" => input_len' % 2 = 0)
    BY <1>1, <1>7, ResampleKeeps
  <2>2. QED
    BY <1>1, <2>1, OtherStep
<1>8. CASE Queue
  <2>1. ByteTypes' /\ Queued' /\ Paired' /\ DropsForRoom
    BY <1>1, <1>8, QueueKeeps DEF Queue, Rest
  <2>2. Rest'
    <3>1. /\ accepted' = accepted + input_len
          /\ dropped' = dropped + ToDrop + (input_len - WriteLen)
          /\ wasted' = wasted /\ heard' = heard /\ input_len' = input_len /\ msg' = msg
          /\ inject_resampler' = inject_resampler /\ pc' = "idle"
      BY <1>8 DEF Queue, resample
    <3>2. input_len - WriteLen \in Nat /\ ToDrop \in Nat
      BY <1>1, RoomIsMade DEF Rest, Numbers
    <3>3. Numbers'
      <4>1. accepted' \in Nat /\ dropped' \in Nat
        BY <1>1, <3>1, <3>2 DEF Rest, Numbers
      <4>2. QED
        BY <1>1, <3>1, <4>1 DEF Rest, Numbers
    <3>4. OtherTypes'
      BY <1>1, <1>8 DEF Rest, OtherTypes, Queue, resample, stream
    <3>5. Matched' /\ Teardown'
      BY <1>1, <1>8 DEF Rest, Matched, RightRate, Teardown, Queue, resample, stream
    <3>6. QED
      BY <3>3, <3>4, <3>5 DEF Rest
  <2>3. QED
    BY <2>1, <2>2, Assembled
<1>9. CASE Play
  <2>1. ByteTypes' /\ Queued' /\ Paired' /\ DropsForRoom
    BY <1>1, <1>9, PlayKeeps DEF Rest
  <2>2. Rest'
    <3>1. accepted' = accepted /\ dropped' = dropped /\ heard' = heard + Playable
          /\ wasted' = wasted + (ToRead - Playable) /\ dropped' = dropped
          /\ input_len' = input_len /\ msg' = msg /\ pc' = pc
          /\ inject_resampler' = inject_resampler
      BY <1>9 DEF Play, resample, event
    <3>2. ToRead - Playable \in Nat /\ Playable \in Nat
      BY <1>1, PlayReads
    <3>3. Numbers'
      <4>1. heard' \in Nat /\ wasted' \in Nat
        BY <1>1, <3>1, <3>2 DEF Rest, Numbers
      <4>2. QED
        BY <1>1, <3>1, <4>1 DEF Rest, Numbers
    <3>4. OtherTypes'
      BY <1>1, <1>9 DEF Rest, OtherTypes, Play, resample, stream, event
    <3>5. Matched' /\ Teardown'
      BY <1>1, <1>9 DEF Rest, Matched, RightRate, Teardown, Play, resample, stream, event
    <3>6. QED
      BY <3>3, <3>4, <3>5 DEF Rest
  <2>3. QED
    BY <2>1, <2>2, Assembled
<1>10. ASSUME NEW on \in BOOLEAN, Enable(on) PROVE IInv' /\ DropsForRoom
  <2>1. Rest' /\ UNCHANGED queue
    BY <1>1, <1>10, EnableKeeps
  <2>2. odd' = odd /\ pc' = pc /\ input_len' = input_len
    BY <1>10 DEF Enable, event
  <2>3. QED
    BY <1>1, <1>2, <2>1, <2>2, OtherStep
<1>11. ASSUME NEW name \in Name, NEW rate \in Rates, Renegotiate(name, rate)
       PROVE  IInv' /\ DropsForRoom
  <2>1. Rest' /\ UNCHANGED queue
    BY <1>1, <1>11, RenegotiateKeeps
  <2>2. odd' = odd /\ pc' = pc /\ input_len' = input_len
    BY <1>11 DEF Renegotiate, event
  <2>3. QED
    BY <1>1, <1>2, <2>1, <2>2, OtherStep
<1>12. CASE Unpublish
  <2>1. Rest' /\ UNCHANGED queue
    BY <1>1, <1>12, UnpublishKeeps
  <2>2. odd' = odd /\ pc' = pc /\ input_len' = input_len
    BY <1>12 DEF Unpublish, event
  <2>3. QED
    BY <1>1, <1>2, <2>1, <2>2, OtherStep
<1>13. CASE Destroy
  <2>1. Rest' /\ UNCHANGED queue
    BY <1>1, <1>13, DestroyKeeps
  <2>2. odd' = odd /\ pc' = pc /\ input_len' = input_len
    BY <1>13 DEF Destroy, event
  <2>3. QED
    BY <1>1, <1>2, <2>1, <2>2, OtherStep
<1>14. CASE UNCHANGED vars
  <2>1. Rest'
    BY <1>1, <1>14
       DEF vars, stream, resample, queue, event, Rest, OtherTypes, Numbers, Matched, RightRate,
           Teardown
  <2>2. UNCHANGED queue /\ odd' = odd /\ pc' = pc /\ input_len' = input_len
    BY <1>14 DEF vars, queue, event
  <2>3. QED
    BY <1>1, <1>2, <2>1, <2>2, OtherStep
<1>15. QED
  BY <1>3, <1>4, <1>5, <1>6, <1>7, <1>8, <1>9, <1>10, <1>11, <1>12, <1>13, <1>14 DEF Next

LEMMA Invariant == Spec => []IInv
<1>1. Init => IInv
  BY Initially
<1>2. IInv /\ [Next]_vars => IInv'
  BY Step
<1>3. QED
  BY <1>1, <1>2, PTL DEF Spec

-----------------------------------------------------------------------------
(* Theorems.                                                               *)

\* The buffer always holds the newest of what the server sent, without a hole, every byte
\* is accounted for, and none is given up but for the room that a message needs
\* (inject_audio_data, process_injected_audio).
THEOREM NewestBytesKept == Spec => NewestKept
<1>1. IInv => TypeOK /\ InOrder
  <2> SUFFICES ASSUME IInv PROVE TypeOK /\ InOrder
    OBVIOUS
  <2>1. ByteTypes /\ Queued /\ Rest
    BY Disassembled
  <2>2. /\ \A i \in 1 .. Len(inject_buffer) :
               inject_buffer[i].n = accepted - Len(inject_buffer) + i
        /\ \A i \in 1 .. Len(frame) : frame[i].n = frame[1].n + i - 1
        /\ \A i \in 1 .. Len(frame) : frame[i].n <= accepted - Len(inject_buffer)
    BY <2>1 DEF Queued
  <2>3. ASSUME frame # <<>>, inject_buffer # <<>>
        PROVE  frame[Len(frame)].n < inject_buffer[1].n
    <3>1. /\ Len(frame) \in 1 .. Len(frame) /\ 1 \in 1 .. Len(inject_buffer)
          /\ Len(inject_buffer) \in Nat /\ accepted \in Nat
      BY <2>1, <2>3, EmptySeq, LenProperties DEF ByteTypes, Rest, Numbers
    <3>2. frame[Len(frame)] \in Byte(accepted)
      BY <2>1, <3>1, ElementOfSeq DEF ByteTypes
    <3>3. frame[Len(frame)].n \in Nat
      BY <3>1, <3>2 DEF Byte
    <3>4. /\ frame[Len(frame)].n <= accepted - Len(inject_buffer)
          /\ inject_buffer[1].n = accepted - Len(inject_buffer) + 1
      BY <2>2, <3>1
    <3>5. QED
      BY <3>1, <3>3, <3>4
  <2>4. QED
    BY <2>2, <2>3 DEF IInv, InOrder
<1>2. IInv /\ [Next]_vars => [DropsForRoom]_vars
  BY Step
<1>3. QED
  BY <1>1, <1>2, Invariant, PTL DEF Spec, NewestKept

\* No sample is ever played in halves as long as the messages have whole ones
\* (SWITCH_ABC_TYPE_WRITE and the buffer's drops).
THEOREM SamplesStayWhole == Spec => []WholeSamples
<1>1. IInv => WholeSamples
  BY DEF IInv, Paired, WholeSamples
<1>2. QED
  BY <1>1, Invariant, PTL

\* A message comes out at the codec's rate, unless the codec changed after the resampler
\* in use was made (inject_resampler and inject_sample_rate).
THEOREM RateIsRight == Spec => []RightRate
<1>1. IInv => RightRate
  BY DEF IInv, Matched
<1>2. QED
  BY <1>1, Invariant, PTL

\* Only a message that is under way when the teardown begins can meet a destroyed
\* resampler, or make one that nobody destroys (destroy_tech_pvt).
THEOREM TeardownIsClean == Spec => []TeardownClean
<1>1. IInv => TeardownClean
  BY DEF IInv, Teardown, TeardownClean
<1>2. QED
  BY <1>1, Invariant, PTL

-----------------------------------------------------------------------------
(* The companding.  Its constants are powers of two, which the prover      *)
(* computes one by one: there is a case for each segment.                  *)

\* Segment finds the one whose end is not below the value, when those before are.
LEMMA SegmentIs ==
    ASSUME NEW ends \in [0 .. 7 -> Int], NEW v \in Int, NEW k \in 0 .. 7,
           v <= ends[k], \A j \in 0 .. 7 : j < k => v > ends[j]
    PROVE  Segment(v, ends) = k
<1>1. \A i \in 0 .. 7 : (v <= ends[i] /\ \A j \in 0 .. 7 : j < i => v > ends[j]) <=> i = k
  <2>1. ASSUME NEW i \in 0 .. 7, i > k, \A j \in 0 .. 7 : j < i => v > ends[j] PROVE FALSE
    BY <2>1
  <2>2. ASSUME NEW i \in 0 .. 7, i < k, v <= ends[i] PROVE FALSE
    BY <2>2
  <2>3. QED
    BY <2>1, <2>2
<1>2. DOMAIN ends = 0 .. 7
  OBVIOUS
<1>3. QED
  BY <1>1, <1>2 DEF Segment

LEMMA UlawEndsAre ==
    /\ UlawEnds \in [0 .. 7 -> Int]
    /\ UlawEnds[0] = 255 /\ UlawEnds[1] = 511
    /\ UlawEnds[2] = 1023 /\ UlawEnds[3] = 2047
    /\ UlawEnds[4] = 4095 /\ UlawEnds[5] = 8191
    /\ UlawEnds[6] = 16383 /\ UlawEnds[7] = 32767
  BY DEF UlawEnds

\* The middle of a segment's interval is no further than half its width from the value.
LEMMA UlawMiddle ==
    ASSUME NEW v \in Int, 132 <= v, v <= 32767
    PROVE  LET seg == Segment(v, UlawEnds)
               middle == (Bits(v, seg) * 8 + 132) * 2 ^ seg
           IN  /\ middle \in Int /\ 2 ^ (seg + 2) \in Int
               /\ middle - v <= 2 ^ (seg + 2) /\ v - middle <= 2 ^ (seg + 2)
<1> DEFINE Near(seg) == LET middle == (Bits(v, seg) * 8 + 132) * 2 ^ seg
                        IN  /\ middle \in Int /\ 2 ^ (seg + 2) \in Int
                            /\ middle - v <= 2 ^ (seg + 2) /\ v - middle <= 2 ^ (seg + 2)
<1>1. CASE 132 <= v /\ v <= 255
  <2>1. \A j \in 0 .. 7 : ~(j < 0)
    OBVIOUS
  <2>2. Segment(v, UlawEnds) = 0
    BY <1>1, <2>1, UlawEndsAre, SegmentIs
  <2>3. 2 ^ 0 = 1 /\ 2 ^ (0 + 2) = 4 /\ 2 ^ (0 + 3) = 8
    OBVIOUS
  <2> DEFINE q == v \div 8
  <2>4. q \in 16 .. 31 /\ 0 <= v - 8 * q /\ v - 8 * q < 8
    BY <1>1
  <2>5. Bits(v, 0) = q - 16
    <3>1. Bits(v, 0) = q % 16
      BY <2>3 DEF Bits
    <3> HIDE DEF q
    <3>2. QED
      BY <2>4, <3>1
  <2> HIDE DEF q
  <2>6. Near(0)
    BY <2>3, <2>4, <2>5
  <2>7. QED
    BY <2>2, <2>6
<1>2. CASE 256 <= v /\ v <= 511
  <2>1. ASSUME NEW j \in 0 .. 7, j < 1 PROVE v > UlawEnds[j]
    <3>1. j \in {0}
      BY <2>1
    <3>2. QED
      BY <1>2, <3>1, UlawEndsAre
  <2>2. Segment(v, UlawEnds) = 1
    BY <1>2, <2>1, UlawEndsAre, SegmentIs
  <2>3. 2 ^ 1 = 2 /\ 2 ^ (1 + 2) = 8 /\ 2 ^ (1 + 3) = 16
    OBVIOUS
  <2> DEFINE q == v \div 16
  <2>4. q \in 16 .. 31 /\ 0 <= v - 16 * q /\ v - 16 * q < 16
    BY <1>2
  <2>5. Bits(v, 1) = q - 16
    <3>1. Bits(v, 1) = q % 16
      BY <2>3 DEF Bits
    <3> HIDE DEF q
    <3>2. QED
      BY <2>4, <3>1
  <2> HIDE DEF q
  <2>6. Near(1)
    BY <2>3, <2>4, <2>5
  <2>7. QED
    BY <2>2, <2>6
<1>3. CASE 512 <= v /\ v <= 1023
  <2>1. ASSUME NEW j \in 0 .. 7, j < 2 PROVE v > UlawEnds[j]
    <3>1. j \in {0, 1}
      BY <2>1
    <3>2. QED
      BY <1>3, <3>1, UlawEndsAre
  <2>2. Segment(v, UlawEnds) = 2
    BY <1>3, <2>1, UlawEndsAre, SegmentIs
  <2>3. 2 ^ 2 = 4 /\ 2 ^ (2 + 2) = 16 /\ 2 ^ (2 + 3) = 32
    OBVIOUS
  <2> DEFINE q == v \div 32
  <2>4. q \in 16 .. 31 /\ 0 <= v - 32 * q /\ v - 32 * q < 32
    BY <1>3
  <2>5. Bits(v, 2) = q - 16
    <3>1. Bits(v, 2) = q % 16
      BY <2>3 DEF Bits
    <3> HIDE DEF q
    <3>2. QED
      BY <2>4, <3>1
  <2> HIDE DEF q
  <2>6. Near(2)
    BY <2>3, <2>4, <2>5
  <2>7. QED
    BY <2>2, <2>6
<1>4. CASE 1024 <= v /\ v <= 2047
  <2>1. ASSUME NEW j \in 0 .. 7, j < 3 PROVE v > UlawEnds[j]
    <3>1. j \in {0, 1, 2}
      BY <2>1
    <3>2. QED
      BY <1>4, <3>1, UlawEndsAre
  <2>2. Segment(v, UlawEnds) = 3
    BY <1>4, <2>1, UlawEndsAre, SegmentIs
  <2>3. 2 ^ 3 = 8 /\ 2 ^ (3 + 2) = 32 /\ 2 ^ (3 + 3) = 64
    OBVIOUS
  <2> DEFINE q == v \div 64
  <2>4. q \in 16 .. 31 /\ 0 <= v - 64 * q /\ v - 64 * q < 64
    BY <1>4
  <2>5. Bits(v, 3) = q - 16
    <3>1. Bits(v, 3) = q % 16
      BY <2>3 DEF Bits
    <3> HIDE DEF q
    <3>2. QED
      BY <2>4, <3>1
  <2> HIDE DEF q
  <2>6. Near(3)
    BY <2>3, <2>4, <2>5
  <2>7. QED
    BY <2>2, <2>6
<1>5. CASE 2048 <= v /\ v <= 4095
  <2>1. ASSUME NEW j \in 0 .. 7, j < 4 PROVE v > UlawEnds[j]
    <3>1. j \in {0, 1, 2, 3}
      BY <2>1
    <3>2. QED
      BY <1>5, <3>1, UlawEndsAre
  <2>2. Segment(v, UlawEnds) = 4
    BY <1>5, <2>1, UlawEndsAre, SegmentIs
  <2>3. 2 ^ 4 = 16 /\ 2 ^ (4 + 2) = 64 /\ 2 ^ (4 + 3) = 128
    OBVIOUS
  <2> DEFINE q == v \div 128
  <2>4. q \in 16 .. 31 /\ 0 <= v - 128 * q /\ v - 128 * q < 128
    BY <1>5
  <2>5. Bits(v, 4) = q - 16
    <3>1. Bits(v, 4) = q % 16
      BY <2>3 DEF Bits
    <3> HIDE DEF q
    <3>2. QED
      BY <2>4, <3>1
  <2> HIDE DEF q
  <2>6. Near(4)
    BY <2>3, <2>4, <2>5
  <2>7. QED
    BY <2>2, <2>6
<1>6. CASE 4096 <= v /\ v <= 8191
  <2>1. ASSUME NEW j \in 0 .. 7, j < 5 PROVE v > UlawEnds[j]
    <3>1. j \in {0, 1, 2, 3, 4}
      BY <2>1
    <3>2. QED
      BY <1>6, <3>1, UlawEndsAre
  <2>2. Segment(v, UlawEnds) = 5
    BY <1>6, <2>1, UlawEndsAre, SegmentIs
  <2>3. 2 ^ 5 = 32 /\ 2 ^ (5 + 2) = 128 /\ 2 ^ (5 + 3) = 256
    OBVIOUS
  <2> DEFINE q == v \div 256
  <2>4. q \in 16 .. 31 /\ 0 <= v - 256 * q /\ v - 256 * q < 256
    BY <1>6
  <2>5. Bits(v, 5) = q - 16
    <3>1. Bits(v, 5) = q % 16
      BY <2>3 DEF Bits
    <3> HIDE DEF q
    <3>2. QED
      BY <2>4, <3>1
  <2> HIDE DEF q
  <2>6. Near(5)
    BY <2>3, <2>4, <2>5
  <2>7. QED
    BY <2>2, <2>6
<1>7. CASE 8192 <= v /\ v <= 16383
  <2>1. ASSUME NEW j \in 0 .. 7, j < 6 PROVE v > UlawEnds[j]
    <3>1. j \in {0, 1, 2, 3, 4, 5}
      BY <2>1
    <3>2. QED
      BY <1>7, <3>1, UlawEndsAre
  <2>2. Segment(v, UlawEnds) = 6
    BY <1>7, <2>1, UlawEndsAre, SegmentIs
  <2>3. 2 ^ 6 = 64 /\ 2 ^ (6 + 2) = 256 /\ 2 ^ (6 + 3) = 512
    OBVIOUS
  <2> DEFINE q == v \div 512
  <2>4. q \in 16 .. 31 /\ 0 <= v - 512 * q /\ v - 512 * q < 512
    BY <1>7
  <2>5. Bits(v, 6) = q - 16
    <3>1. Bits(v, 6) = q % 16
      BY <2>3 DEF Bits
    <3> HIDE DEF q
    <3>2. QED
      BY <2>4, <3>1
  <2> HIDE DEF q
  <2>6. Near(6)
    BY <2>3, <2>4, <2>5
  <2>7. QED
    BY <2>2, <2>6
<1>8. CASE 16384 <= v /\ v <= 32767
  <2>1. ASSUME NEW j \in 0 .. 7, j < 7 PROVE v > UlawEnds[j]
    <3>1. j \in {0, 1, 2, 3, 4, 5, 6}
      BY <2>1
    <3>2. QED
      BY <1>8, <3>1, UlawEndsAre
  <2>2. Segment(v, UlawEnds) = 7
    BY <1>8, <2>1, UlawEndsAre, SegmentIs
  <2>3. 2 ^ 7 = 128 /\ 2 ^ (7 + 2) = 512 /\ 2 ^ (7 + 3) = 1024
    OBVIOUS
  <2> DEFINE q == v \div 1024
  <2>4. q \in 16 .. 31 /\ 0 <= v - 1024 * q /\ v - 1024 * q < 1024
    BY <1>8
  <2>5. Bits(v, 7) = q - 16
    <3>1. Bits(v, 7) = q % 16
      BY <2>3 DEF Bits
    <3> HIDE DEF q
    <3>2. QED
      BY <2>4, <3>1
  <2> HIDE DEF q
  <2>6. Near(7)
    BY <2>3, <2>4, <2>5
  <2>7. QED
    BY <2>2, <2>6
<1>9. QED
  BY <1>1, <1>2, <1>3, <1>4, <1>5, <1>6, <1>7, <1>8

\* What a code is made of.
LEMMA Fields ==
    ASSUME NEW s, NEW seg, NEW m, NEW c, c = [positive |-> s >= 0, seg |-> seg, mantissa |-> m]
    PROVE  (c.positive <=> s >= 0) /\ c.seg = seg /\ c.mantissa = m
<1> DEFINE p == s >= 0
<1>1. c = [positive |-> p, seg |-> seg, mantissa |-> m]
  OBVIOUS
<1> HIDE DEF p
<1>2. c.positive = p /\ c.seg = seg /\ c.mantissa = m
  BY <1>1
<1>3. QED
  BY <1>2 DEF p

LEMMA UlawIsRight == UlawRight
<1>1. \A s \in MisheardUlaw :
         s \in Int /\ Far(UlawValue(linear_to_ulaw(s)), s, UlawError(linear_to_ulaw(s)))
  <2> DEFINE Mis(s) == Far(UlawValue(linear_to_ulaw(s)), s, UlawError(linear_to_ulaw(s)))
  <2>1. MisheardUlaw = {s \in Samples : Mis(s)}
    BY DEF MisheardUlaw
  <2> HIDE DEF Mis
  <2>2. \A s \in Samples : s \in Int
    BY DEF Samples
  <2>3. \A s \in MisheardUlaw : s \in Samples /\ Mis(s)
    BY <2>1, Zenon
  <2>4. QED
    BY <2>2, <2>3 DEF Mis
<1>2. SUFFICES ASSUME NEW s \in MisheardUlaw, -32635 <= s, s <= 32635 PROVE FALSE
  BY <1>1 DEF UlawRight
<1> DEFINE v == IF s < 0 THEN 132 - s ELSE 132 + s
           seg == Segment(v, UlawEnds)
           middle == (Bits(v, seg) * 8 + 132) * 2 ^ seg
           half == 2 ^ (seg + 2)
<1>3. v \in Int /\ 132 <= v /\ v <= 32767
  BY <1>1, <1>2
<1>4. Int16(v) = v
  <2> HIDE DEF v
  <2>1. (v + 32768) % 65536 = v + 32768
    BY <1>3
  <2>2. QED
    BY <1>3, <2>1 DEF Int16
<1>5. linear_to_ulaw(s) = Code(s >= 0, seg, Bits(v, seg))
  BY <1>4 DEF linear_to_ulaw
<1>6. middle \in Int /\ half \in Int /\ middle - v <= half /\ v - middle <= half
  <2> HIDE DEF v
  <2>1. QED
    BY <1>3, UlawMiddle
<1>7. /\ UlawValue(linear_to_ulaw(s)) = IF s >= 0 THEN middle - 132 ELSE -(middle - 132)
      /\ UlawError(linear_to_ulaw(s)) = half
  <2> HIDE DEF v
  <2>1. linear_to_ulaw(s) = [positive |-> s >= 0, seg |-> seg, mantissa |-> Bits(v, seg)]
    BY <1>5 DEF Code
  <2> HIDE DEF seg
  <2> DEFINE c == linear_to_ulaw(s)
  <2>2. (c.positive <=> s >= 0) /\ c.seg = seg /\ c.mantissa = Bits(v, seg)
    BY <2>1, Fields
  <2> HIDE DEF c
  <2>3. UlawValue(c) = (IF s >= 0 THEN middle - 132 ELSE -(middle - 132)) /\ UlawError(c) = half
    BY <2>2 DEF UlawValue, UlawError, Signed
  <2>4. QED
    BY <2>3 DEF c
<1>8. Far(IF s >= 0 THEN middle - 132 ELSE -(middle - 132), s, half)
  BY <1>1, <1>7
<1> HIDE DEF seg, middle, half
<1>9. QED
  BY <1>1, <1>3, <1>6, <1>8 DEF Far

LEMMA AlawIsRight == AlawRight
<1>1. \A s \in MisheardAlaw :
         s \in Int /\ Far(AlawValue(linear_to_alaw(s)), s, AlawError(linear_to_alaw(s)))
  <2> DEFINE Mis(s) == Far(AlawValue(linear_to_alaw(s)), s, AlawError(linear_to_alaw(s)))
  <2>1. MisheardAlaw = {s \in Samples : Mis(s)}
    BY DEF MisheardAlaw
  <2> HIDE DEF Mis
  <2>2. \A s \in Samples : s \in Int
    BY DEF Samples
  <2>3. \A s \in MisheardAlaw : s \in Samples /\ Mis(s)
    BY <2>1, Zenon
  <2>4. QED
    BY <2>2, <2>3 DEF Mis
<1>2. SUFFICES ASSUME NEW s \in MisheardAlaw, -256 <= s, s <= 255 PROVE FALSE
  BY <1>1 DEF AlawRight
<1> DEFINE v == IF s >= 0 THEN s ELSE -s - 1
           q == v \div 16
<1>3. v \in Int /\ 0 <= v /\ v <= 255
  BY <1>1, <1>2
<1>4. q \in Int /\ 0 <= v - 16 * q /\ v - 16 * q <= 15
  <2> HIDE DEF v
  <2>1. QED
    BY <1>3
<1>5. linear_to_alaw(s) = [positive |-> s >= 0, seg |-> 0, mantissa |-> q]
  <2>1. ~(v > 32635) /\ ~(v >= 256)
    BY <1>3
  <2>2. QED
    BY <2>1 DEF linear_to_alaw, Code
<1> HIDE DEF q
<1>6. /\ AlawValue(linear_to_alaw(s)) = IF s >= 0 THEN q * 16 + 8 ELSE -(q * 16 + 8)
      /\ AlawError(linear_to_alaw(s)) = 8
  <2> DEFINE c == linear_to_alaw(s)
  <2>1. (c.positive <=> s >= 0) /\ c.seg = 0 /\ c.mantissa = q
    BY <1>5, Fields
  <2> HIDE DEF c
  <2>2. AlawValue(c) = (IF s >= 0 THEN q * 16 + 8 ELSE -(q * 16 + 8)) /\ AlawError(c) = 8
    BY <2>1 DEF AlawValue, AlawError, Signed
  <2>3. QED
    BY <2>2 DEF c
<1>7. Far(IF s >= 0 THEN q * 16 + 8 ELSE -(q * 16 + 8), s, 8)
  BY <1>1, <1>6
<1>8. QED
  BY <1>1, <1>3, <1>4, <1>7 DEF Far

\* Every sample up to 32 635 is heard as itself through mu-law, and of a-law those up to 256
\* (linear_to_ulaw and linear_to_alaw).
THEOREM QuietIsRight == Spec => []QuietSamplesAreRight
<1>1. QuietSamplesAreRight
  BY UlawIsRight, AlawIsRight DEF QuietSamplesAreRight
<1>2. QED
  BY <1>1, PTL
=============================================================================
