---------------------------- MODULE CapturePath_proofs -------------------------
(***************************************************************************)
(* Proofs about CapturePath, for every frame and packet length, every      *)
(* STREAM_BUFFER_SIZE and every number of reads: no audio is lost or       *)
(* doubled without a resampler, chunks are what fills their buffer and     *)
(* follow one another, no buffer stays full, and the clock goes on.        *)
(*                                                                         *)
(* They rest on the size of the ring, the next power of two: even, no less *)
(* than buflen and less than twice as much.  The provers know no powers,   *)
(* so the first lemmas count the subsets of 1 .. k.                        *)
(***************************************************************************)
EXTENDS CapturePath, FiniteSetTheorems, SequenceTheorems, WellFoundedInduction, TLAPS

-----------------------------------------------------------------------------
(* Powers of two, of which the provers know only numerals.                 *)

LEMMA LeastNumber ==
    ASSUME NEW T \in SUBSET Nat, T # {}
    PROVE  \E x \in T : \A y \in T : x <= y
<1> DEFINE R == OpToRel(<, Nat)
<1>1. IsWellFoundedOn(R, Nat)
  BY NatLessThanWellFounded
<1>2. \A x, y \in Nat : <<y, x>> \in R <=> y < x
  BY DEF OpToRel
<1> HIDE DEF R
<1>3. PICK x \in T : \A y \in T : ~ (<<y, x>> \in R)
  BY <1>1, WFMin
<1>4. \A y \in T : x <= y
  <2>1. SUFFICES ASSUME NEW y \in T PROVE x <= y
    OBVIOUS
  <2>2. ~ (y < x)
    BY <1>2, <1>3
  <2>3. QED
    BY <2>2
<1>5. QED
  BY <1>4

LEMMA SetInduction ==
    ASSUME NEW S \in SUBSET Nat, 0 \in S, \A n \in S : n + 1 \in S
    PROVE  S = Nat
<1> SUFFICES ASSUME S # Nat PROVE FALSE
  OBVIOUS
<1>1. PICK x \in Nat \ S : \A y \in Nat \ S : x <= y
  BY LeastNumber
<1>2. x - 1 \in S
  BY <1>1
<1>3. QED
  BY <1>1, <1>2

LEMMA PowerIsSubsets ==
    \A k \in Nat : IsFiniteSet(SUBSET (1 .. k)) /\ Cardinality(SUBSET (1 .. k)) = 2 ^ k
<1> SUFFICES ASSUME NEW k \in Nat
             PROVE  IsFiniteSet(SUBSET (1 .. k)) /\ Cardinality(SUBSET (1 .. k)) = 2 ^ k
  OBVIOUS
<1>1. IsFiniteSet(1 .. k) /\ Cardinality(1 .. k) = k
  BY FS_Interval
<1>2. QED
  BY <1>1, FS_SUBSET

LEMMA Doubles ==
    ASSUME NEW k \in Nat
    PROVE  2 ^ (k + 1) = 2 * 2 ^ k
<1> DEFINE Old == SUBSET (1 .. k)
           New == {T \cup {k + 1} : T \in Old}
           f == [T \in Old |-> T \cup {k + 1}]
<1>1. SUBSET (1 .. k + 1) = Old \cup New
  <2>1. ASSUME NEW T \in SUBSET (1 .. k + 1), k + 1 \in T PROVE T \in New
    <3>1. T \ {k + 1} \in Old /\ T = (T \ {k + 1}) \cup {k + 1}
      BY <2>1
    <3>2. QED
      BY <3>1
  <2>2. ASSUME NEW T \in SUBSET (1 .. k + 1), k + 1 \notin T PROVE T \in Old
    BY <2>2
  <2>3. \A T \in New : T \in SUBSET (1 .. k + 1)
    OBVIOUS
  <2>4. Old \subseteq SUBSET (1 .. k + 1)
    OBVIOUS
  <2>5. QED
    BY <2>1, <2>2, <2>3, <2>4
<1>2. Old \cap New = {}
  OBVIOUS
<1>3. f \in Bijection(Old, New)
  <2>1. f \in [Old -> New]
    OBVIOUS
  <2>2. \A A, B \in Old : f[A] = f[B] => A = B
    <3>1. SUFFICES ASSUME NEW A \in Old, NEW B \in Old, f[A] = f[B] PROVE A = B
      OBVIOUS
    <3>2. k + 1 \notin A /\ k + 1 \notin B /\ A \cup {k + 1} = B \cup {k + 1}
      BY <3>1
    <3>3. QED
      BY <3>2
  <2>3. \A B \in New : \E A \in Old : f[A] = B
    OBVIOUS
  <2>4. QED
    BY <2>1, <2>2, <2>3 DEF Bijection, Injection, Surjection, IsInjective
<1>4. IsFiniteSet(Old) /\ Cardinality(Old) = 2 ^ k
  BY PowerIsSubsets
<1>5. k + 1 \in Nat
  OBVIOUS
<1>6. Cardinality(SUBSET (1 .. (k + 1))) = 2 ^ (k + 1)
  <2> DEFINE n == k + 1
  <2>1. n \in Nat
    OBVIOUS
  <2> HIDE DEF n
  <2>2. Cardinality(SUBSET (1 .. n)) = 2 ^ n
    BY <2>1, PowerIsSubsets
  <2>3. QED
    BY <2>2 DEF n
<1>7. 2 ^ k \in Int
  OBVIOUS
<1> DEFINE m == 2 ^ k  p == 2 ^ (k + 1)
<1>8. Cardinality(Old) = m /\ Cardinality(Old \cup New) = p /\ m \in Int
  BY <1>1, <1>4, <1>6, <1>7
<1> HIDE DEF Old, New
<1>9. IsFiniteSet(New) /\ Cardinality(New) = Cardinality(Old)
  BY <1>3, <1>4, FS_Bijection DEF ExistsBijection
<1> HIDE DEF m, p
<1>10. Cardinality(Old \cup New) = Cardinality(Old) + Cardinality(New) - Cardinality({})
  BY <1>2, <1>4, <1>9, FS_Union
<1>11. Cardinality({}) = 0
  BY FS_EmptySet
<1>12. p = 2 * m
  BY <1>8, <1>9, <1>10, <1>11
<1>13. QED
  BY <1>12 DEF m, p

LEMMA PowerGrows ==
    ASSUME NEW k \in Nat
    PROVE  2 ^ k \in Nat /\ 2 ^ k > k
<1> DEFINE S == {n \in Nat : 2 ^ n \in Nat /\ 2 ^ n > n}
<1>1. 0 \in S
  OBVIOUS
<1>2. ASSUME NEW n \in S PROVE n + 1 \in S
  <2>1. n \in Nat /\ 2 ^ n \in Nat /\ 2 ^ n > n /\ 2 ^ (n + 1) = 2 * 2 ^ n
    BY Doubles
  <2>2. QED
    BY <2>1
<1>3. S \in SUBSET Nat
  OBVIOUS
<1>4. S = Nat
  <2> HIDE DEF S
  <2> QED BY <1>1, <1>2, <1>3, SetInduction
<1>5. QED
  BY <1>4

LEMMA NextPower ==
    ASSUME NEW B \in Nat, B >= 2
    PROVE  LET P == Min({n \in {2 ^ k : k \in 0 .. B} : n >= B})
           IN  P \in Nat /\ P % 2 = 0 /\ P >= B /\ P < 2 * B
<1> DEFINE T == {n \in {2 ^ k : k \in 0 .. B} : n >= B}
           P == Min(T)
<1>1. \A k \in 0 .. B : k \in Nat /\ 2 ^ k \in Nat /\ 2 ^ k > k
  BY PowerGrows
<1>2. 2 ^ B \in T /\ T \in SUBSET Nat
  BY <1>1
<1>3. P \in T /\ \A y \in T : P <= y
  <2> HIDE DEF T
  <2>1. \E x \in T : \A y \in T : x <= y
    BY <1>2, LeastNumber
  <2>2. QED
    BY <2>1 DEF Min
<1>4. PICK k \in 0 .. B : P = 2 ^ k /\ P >= B /\ P \in Nat
  BY <1>1, <1>2, <1>3
<1>5. k # 0
  <2>1. 2 ^ 0 = 1
    OBVIOUS
  <2>2. QED
    <3>1. SUFFICES ASSUME k = 0 PROVE FALSE
      OBVIOUS
    <3>2. P = 1
      <4> HIDE DEF P, T
      <4> QED BY <1>4, <2>1, <3>1
    <3>3. QED
      <4> HIDE DEF P, T
      <4> QED BY <1>4, <3>2
<1> DEFINE j == k - 1
<1>6. j \in 0 .. B /\ j \in Nat /\ k = j + 1
  BY <1>5
<1>7. 2 ^ j \in Nat /\ 2 ^ j > 0 /\ 2 ^ (j + 1) = 2 * 2 ^ j
  <2> HIDE DEF j
  <2> QED BY <1>6, Doubles, PowerGrows
<1>8. P = 2 * 2 ^ j
  BY <1>4, <1>6, <1>7
<1>9. 2 ^ j < B
  <2>1. SUFFICES ASSUME 2 ^ j >= B PROVE FALSE
    BY <1>7
  <2>2. 2 ^ j \in T
    BY <1>6, <2>1
  <2>3. P <= 2 ^ j
    BY <1>3, <2>2
  <2>4. QED
    BY <2>3, <1>7, <1>8
<1> DEFINE h == 2 ^ j
<1>10. h \in Nat /\ P = 2 * h /\ h < B /\ P >= B
  BY <1>4, <1>7, <1>8, <1>9
<1> HIDE DEF h, P, T
<1>11. P \in Nat /\ P % 2 = 0 /\ P >= B /\ P < 2 * B
  BY <1>10
<1>12. QED
  BY <1>11 DEF P, T

\* What holds of a multiple of the sample's size holds of it for one and for two channels.
LEMMA WholeSamples ==
    /\ Sample \in {2, 4} /\ Twenty \in Nat \ {0} /\ Twenty % Sample = 0
    /\ 0 % Sample = 0
    /\ \A n \in Nat : n % Sample = 0 => n % 2 = 0
    /\ \A n, m \in Nat : n % Sample = 0 /\ m % Sample = 0 =>
          /\ (n + m) % Sample = 0
          /\ m < n => n - m >= Sample
<1>1. Sample \in {2, 4} /\ Twenty \in Nat \ {0} /\ Twenty % Sample = 0
  BY FormatAssumption
<1>2. CASE Sample = 2
  BY <1>1, <1>2
<1>3. CASE Sample = 4
  BY <1>1, <1>3
<1>4. QED
  BY <1>1, <1>2, <1>3

\* Speex gives whole samples of what it gets and of what it has room for.
LEMMA OutputIs ==
    ASSUME NEW n \in Nat, NEW room \in Nat, room % Sample = 0
    PROVE  /\ Output(n, room) \in 0 .. n /\ Output(n, room) <= room
           /\ Output(n, room) % Sample = 0
<1>1. CASE Sample = 2
  <2>1. PICK a \in Nat, b \in Nat : a = room \div 2 /\ b = n \div 2
    OBVIOUS
  <2>2. 2 * a <= room /\ 2 * b <= n
    BY <2>1
  <2>3. AtMost(a, b) \in Nat /\ AtMost(a, b) <= a /\ AtMost(a, b) <= b
    BY DEF AtMost
  <2>4. PICK k \in Nat : k = AtMost(a, b)
    BY <2>3
  <2>5. Output(n, room) = 2 * k
    BY <1>1, <2>1, <2>4 DEF Output
  <2>6. QED
    BY <1>1, <2>2, <2>3, <2>4, <2>5
<1>2. CASE Sample = 4
  <2>1. PICK a \in Nat, b \in Nat : a = room \div 4 /\ b = n \div 4
    OBVIOUS
  <2>2. 4 * a <= room /\ 4 * b <= n
    BY <2>1
  <2>3. AtMost(a, b) \in Nat /\ AtMost(a, b) <= a /\ AtMost(a, b) <= b
    BY DEF AtMost
  <2>4. PICK k \in Nat : k = AtMost(a, b)
    BY <2>3
  <2>5. Output(n, room) = 4 * k
    BY <1>2, <2>1, <2>4 DEF Output
  <2>6. QED
    BY <1>2, <2>2, <2>3, <2>4, <2>5
<1>3. QED
  BY <1>1, <1>2, WholeSamples

LEMMA WholeDifference ==
    ASSUME NEW n \in Nat, NEW m \in Nat, n % Sample = 0, m % Sample = 0, m <= n
    PROVE  n - m \in Nat /\ (n - m) % Sample = 0
<1>1. CASE Sample = 2
  BY <1>1
<1>2. CASE Sample = 4
  BY <1>2
<1>3. QED
  BY <1>1, <1>2, WholeSamples

LEMMA RingSize ==
    ASSUME rtp_packets \in Packets
    PROVE  /\ buflen \in Nat /\ buflen >= 2 /\ buflen % Sample = 0
           /\ AdjSize \in Nat /\ AdjSize % 2 = 0
           /\ AdjSize >= buflen /\ AdjSize < 2 * buflen
<1>1. rtp_packets \in Nat \ {0}
  BY FormatAssumption
<1>2. buflen \in Nat /\ buflen >= 2 /\ buflen % Sample = 0
  <2>1. CASE Sample = 2
    <3>1. PICK h \in Nat \ {0} : Twenty = 2 * h
      BY <2>1, WholeSamples
    <3>2. PICK m \in Nat \ {0} : m = h * rtp_packets
      BY <1>1
    <3>3. buflen = 2 * m
      BY <1>1, <3>1, <3>2 DEF buflen
    <3>4. QED
      BY <2>1, <3>3
  <2>2. CASE Sample = 4
    <3>1. PICK h \in Nat \ {0} : Twenty = 4 * h
      BY <2>2, WholeSamples
    <3>2. PICK m \in Nat \ {0} : m = h * rtp_packets
      BY <1>1
    <3>3. buflen = 4 * m
      BY <1>1, <3>1, <3>2 DEF buflen
    <3>4. QED
      BY <2>2, <3>3
  <2>3. QED
    BY <2>1, <2>2, WholeSamples
<1>3. QED
  <2> HIDE DEF buflen
  <2> QED BY <1>2, NextPower DEF AdjSize

-----------------------------------------------------------------------------
(* The invariant.                                                          *)

\* Without a resampler the ring holds what was kept since the last chunk, from its first
\* slot on.
Holds(b, last, units) ==
    /\ units = last + b.tail
    /\ \A i \in 0 .. b.tail - 1 : b.data[i] = last + i + 1

Gathered ==
    ~resampling => Holds(buffer, sent, kept) /\ (rtp_packets = 1 => buffer.tail = 0)

\* With one, sbuffer holds some of it, in order, from the first half of a sample on.
Resampled ==
    resampling =>
        /\ sent <= kept
        /\ \A i \in 1 .. Len(sbuffer) : sbuffer[i] \in sent + 1 .. kept
        /\ \A i \in 2 .. Len(sbuffer) : sbuffer[i] > sbuffer[i - 1]
        /\ sbuffer # <<>> => sbuffer[1] % 2 = 1

\* Only whole samples are kept, and sent.
Whole ==
    /\ kept % 2 = 0 /\ Len(sbuffer) % Sample = 0
    /\ ~resampling => sent % 2 = 0

RoomLeft == buffer.tail < sizeMask /\ Len(sbuffer) < buflen

\* What a callback that has read something still has to do, or has done.
Clocked ==
    IF callback = "reading"
    THEN IF sent_audio > 0 THEN kept > keptBefore ELSE reads > 0 => saw_placeholder
    ELSE reads > 0 => kept > keptBefore

IInv ==
    /\ TypeOK /\ Gathered /\ Resampled /\ Whole /\ RoomLeft
    /\ ChunkFillsBuffer /\ Clocked

\* The part of it that is about the audio, which no thread but the one of the
\* callback disturbs.
Rings == [data : [0 .. sizeMask -> 0 .. MaxUnits], head : {0}, tail : 0 .. sizeMask]

FlowTypes ==
    /\ resampling \in BOOLEAN /\ rtp_packets \in Packets
    /\ buffer \in Rings
    /\ sbuffer \in Seq(1 .. MaxUnits) /\ chunk \in Seq(1 .. MaxUnits)
    /\ kept \in 0 .. MaxUnits

FlowOK ==
    /\ FlowTypes /\ Gathered /\ Resampled /\ Whole /\ RoomLeft /\ ChunkFillsBuffer

\* What a step does to the chunks, as in ChunksFollow.
Follows ==
    chunk' # chunk =>
        /\ chunk'[1] % 2 = 1 /\ Last(chunk') % 2 = 0
        /\ IF resampling
           THEN chunk'[1] > sent /\ \A i \in 2 .. Len(chunk') : chunk'[i] > chunk'[i - 1]
           ELSE chunk' = [i \in 1 .. Len(chunk') |-> sent + i]

-----------------------------------------------------------------------------
(* What is kept of a frame.                                                *)

LEMMA FrameLength ==
    ASSUME NEW f \in FrameType, ~Placeholder(f)
    PROVE  clamp_pcm_bytes(f) \in 2 .. Twenty /\ clamp_pcm_bytes(f) % 2 = 0
<1> DEFINE whole == f.datalen - (f.datalen % 2)
           T == {whole, Twenty} \cup ({f.limit} \ {0})
<1>1. Twenty \in Nat /\ Twenty % 2 = 0 /\ Twenty >= 2
  <2>1. Twenty \in Nat \ {0} /\ Twenty % 2 = 0
    BY WholeSamples
  <2>2. QED
    BY <2>1
<1>2. f.datalen \in Nat /\ f.datalen >= 2
  <2>1. f.datalen \in Lengths /\ ~ (f.datalen < 2)
    BY DEF FrameType, Placeholder
  <2>2. f.datalen \in Nat
    BY <2>1, FormatAssumption
  <2>3. QED
    BY <2>1, <2>2
<1>3. whole \in Nat /\ whole >= 2 /\ whole % 2 = 0
  BY <1>2
<1>4. f.limit \in Nat /\ f.limit % 2 = 0
  BY FormatAssumption DEF FrameType
<1>5. f.limit # 0 => f.limit >= 2
  BY <1>4
<1>6. clamp_pcm_bytes(f) = Min(T)
  BY DEF clamp_pcm_bytes
<1> HIDE DEF whole
<1>7. \A n \in T : n \in Nat /\ n >= 2 /\ n % 2 = 0
  BY <1>1, <1>3, <1>4, <1>5
<1>8. Twenty \in T
  OBVIOUS
<1> HIDE DEF T
<1>9. PICK n \in T : Min(T) = n /\ \A m \in T : n <= m
  <2>1. \E x \in T : \A y \in T : x <= y
    BY <1>7, <1>8, LeastNumber
  <2>2. QED
    BY <2>1 DEF Min
<1>10. QED
  BY <1>1, <1>6, <1>7, <1>8, <1>9

LEMMA SilenceLength ==
    ASSUME silence \in Silences
    PROVE  silence \in 2 .. Twenty /\ silence % 2 = 0
BY FormatAssumption

-----------------------------------------------------------------------------
(* The ring.                                                               *)

LEMMA NoTurn ==
    ASSUME NEW P \in Nat \ {0}, NEW x \in 0 .. P - 1
    PROVE  x % P = x
OBVIOUS

LEMMA Turned ==
    ASSUME NEW P \in Nat \ {0}, NEW t \in 0 .. P - 1, NEW i \in 0 .. P - 1
    PROVE  (i - t) % P = IF i >= t THEN i - t ELSE i - t + P
<1>1. CASE i >= t
  BY <1>1
<1>2. CASE i < t
  <2> DEFINE d == i - t + P
  <2>1. d \in 0 .. P - 1 /\ i - t = d + (-1) * P
    BY <1>2
  <2>2. (d + (-1) * P) % P = d
    BY <2>1
  <2>3. QED
    BY <1>2, <2>1, <2>2
<1>3. QED
  BY <1>1, <1>2

\* Units that fit without a turn follow those that are there.
LEMMA Appended ==
    ASSUME rtp_packets \in Packets, NEW b \in Rings, NEW units \in Seq(1 .. MaxUnits),
           b.tail + Len(units) <= sizeMask
    PROVE  LET r == ringBufferAppendMultiple(b, units)
           IN  /\ r \in Rings
               /\ r.tail = b.tail + Len(units)
               /\ \A i \in 0 .. b.tail - 1 : r.data[i] = b.data[i]
               /\ \A i \in 1 .. Len(units) : r.data[b.tail + i - 1] = units[i]
<1> DEFINE P == AdjSize
           t == b.tail
           D(i) == ((i - t) % P) + 1
           data == [i \in 0 .. sizeMask |->
                       IF D(i) <= Len(units) THEN units[D(i)] ELSE b.data[i]]
           r == ringBufferAppendMultiple(b, units)
<1>1. P \in Nat \ {0} /\ sizeMask = P - 1 /\ sizeMask \in Nat
  BY RingSize DEF sizeMask
<1>2. t \in 0 .. P - 1 /\ b.data \in [0 .. sizeMask -> 0 .. MaxUnits] /\ b.head = 0
  BY <1>1 DEF Rings
<1>3. Len(units) \in Nat /\ t + Len(units) <= P - 1
  BY <1>1
<1>4. \A i \in 0 .. sizeMask : D(i) = IF i >= t THEN i - t + 1 ELSE i - t + P + 1
  <2> HIDE DEF P, t
  <2>1. SUFFICES ASSUME NEW i \in 0 .. sizeMask
                 PROVE  D(i) = IF i >= t THEN i - t + 1 ELSE i - t + P + 1
    OBVIOUS
  <2>2. (i - t) % P = IF i >= t THEN i - t ELSE i - t + P
    BY <1>1, <1>2, Turned
  <2>3. QED
    BY <2>2, <1>1, <1>2
<1>5. r = [b EXCEPT !.data = data, !.tail = (b.tail + Len(units)) % AdjSize]
  BY DEF ringBufferAppendMultiple
<1>6. (t + Len(units)) % P = t + Len(units)
  <2> DEFINE x == t + Len(units)
  <2>1. x \in 0 .. P - 1
    <3> HIDE DEF P, t
    <3> QED BY <1>1, <1>2, <1>3
  <2> HIDE DEF P, x
  <2>2. x % P = x
    BY <1>1, <2>1, NoTurn
  <2>3. QED
    BY <2>2 DEF P, x
<1>7. data \in [0 .. sizeMask -> 0 .. MaxUnits]
  <2>1. ASSUME NEW i \in 0 .. sizeMask, D(i) <= Len(units)
        PROVE  units[D(i)] \in 0 .. MaxUnits
    <3>1. D(i) \in 1 .. Len(units)
      <4> HIDE DEF P, t
      <4> QED BY <1>1, <1>2, <1>3, <1>4, <2>1
    <3> HIDE DEF D
    <3>2. units[D(i)] \in 1 .. MaxUnits
      BY <3>1, ElementOfSeq
    <3>3. QED
      BY <3>2, FormatAssumption
  <2> HIDE DEF D
  <2>2. QED
    BY <2>1, <1>2
<1>8. \A i \in 0 .. t - 1 : data[i] = b.data[i]
  <2>1. SUFFICES ASSUME NEW i \in 0 .. t - 1 PROVE data[i] = b.data[i]
    OBVIOUS
  <2>2. i \in 0 .. sizeMask /\ D(i) > Len(units)
    <3> HIDE DEF P, t, D
    <3> QED BY <1>1, <1>2, <1>3, <1>4
  <2>3. ~ (D(i) <= Len(units))
    <3> HIDE DEF P, t
    <3> QED BY <2>2, <1>1, <1>2, <1>3, <1>4
  <2> HIDE DEF D
  <2>4. QED
    BY <2>2, <2>3
<1>9. \A i \in 1 .. Len(units) : data[t + i - 1] = units[i]
  <2>1. SUFFICES ASSUME NEW i \in 1 .. Len(units) PROVE data[t + i - 1] = units[i]
    OBVIOUS
  <2>2. t + i - 1 \in 0 .. sizeMask /\ D(t + i - 1) = i
    <3> HIDE DEF P, t
    <3>1. t + i - 1 \in 0 .. sizeMask /\ t + i - 1 >= t
      BY <1>1, <1>2, <1>3
    <3> HIDE DEF D
    <3>2. D(t + i - 1) = (t + i - 1) - t + 1
      BY <1>4, <3>1
    <3>3. QED
      BY <3>1, <3>2, <1>2
  <2> HIDE DEF D
  <2>3. QED
    BY <2>2
<1> HIDE DEF data
<1>10. r \in Rings
  <2>1. (b.tail + Len(units)) % AdjSize \in 0 .. sizeMask
    <3>1. t + Len(units) \in 0 .. sizeMask
      <4> HIDE DEF P, t
      <4> QED BY <1>1, <1>2, <1>3
    <3>2. QED
      BY <3>1, <1>6
  <2>2. QED
    BY <1>5, <1>7, <2>1 DEF Rings
<1>11. r.data = data /\ r.tail = b.tail + Len(units)
  BY <1>5, <1>6 DEF Rings
<1>12. QED
  BY <1>8, <1>9, <1>10, <1>11

-----------------------------------------------------------------------------
(* Sequences of units.                                                     *)

LEMMA Cut ==
    ASSUME NEW S, NEW q \in Seq(S), NEW a \in 1 .. Len(q) + 1, NEW b \in 0 .. Len(q),
           a <= b + 1
    PROVE  /\ SubSeq(q, a, b) \in Seq(S)
           /\ Len(SubSeq(q, a, b)) = b - a + 1
           /\ \A i \in 1 .. b - a + 1 : SubSeq(q, a, b)[i] = q[a + i - 1]
<1>1. Len(q) \in Nat
  BY LenProperties
<1>2. a \in Int /\ b \in Int /\ \A i \in a .. b : i \in 1 .. Len(q)
  BY <1>1
<1>3. \A i \in a .. b : q[i] \in S
  BY <1>2, ElementOfSeq
<1>4. QED
  BY <1>1, <1>2, <1>3, SubSeqProperties

LEMMA Numbered ==
    ASSUME NEW S, NEW n \in Nat, NEW f \in [1 .. n -> S]
    PROVE  f \in Seq(S) /\ Len(f) = n
OBVIOUS

LEMMA EvenSum ==
    ASSUME NEW a \in Nat, NEW b \in Nat, a % 2 = 0, b % 2 = 0
    PROVE  (a + b) % 2 = 0
OBVIOUS

\* A chunk that goes on where the last one ended.
LEMMA GoesOn ==
    ASSUME NEW q \in Seq(1 .. MaxUnits), NEW s \in Nat, s % 2 = 0,
           Len(q) >= 1, Len(q) % 2 = 0, \A i \in 1 .. Len(q) : q[i] = s + i
    PROVE  /\ q # <<>> /\ q[1] % 2 = 1 /\ Last(q) = s + Len(q) /\ Last(q) % 2 = 0
           /\ q = [i \in 1 .. Len(q) |-> s + i]
<1>1. Len(q) \in Nat /\ 1 \in 1 .. Len(q) /\ Len(q) \in 1 .. Len(q)
  BY LenProperties
<1>2. q[1] = s + 1 /\ q[Len(q)] = s + Len(q)
  BY <1>1
<1>3. q # <<>>
  BY <1>1, EmptySeq
<1>4. (s + 1) % 2 = 1 /\ (s + Len(q)) % 2 = 0
  BY <1>1
<1>5. q = [i \in 1 .. Len(q) |-> s + i]
  <2>1. q \in [1 .. Len(q) -> 1 .. MaxUnits]
    BY LenProperties
  <2>2. QED
    BY <2>1
<1>6. QED
  BY <1>2, <1>3, <1>4, <1>5 DEF Last

LEMMA SentIsNumber ==
    ASSUME FlowTypes
    PROVE  sent \in 0 .. MaxUnits
<1>1. CASE chunk = <<>>
  BY <1>1, FormatAssumption DEF sent
<1>2. CASE chunk # <<>>
  <2>1. Len(chunk) \in 1 .. Len(chunk)
    BY <1>2, EmptySeq DEF FlowTypes
  <2>2. chunk[Len(chunk)] \in 1 .. MaxUnits
    BY <2>1, ElementOfSeq DEF FlowTypes
  <2>3. QED
    BY <1>2, <2>2 DEF sent, Last
<1>3. QED
  BY <1>1, <1>2

\* The frame that send_pcm_bytes() is given.
Frame(units, n) ==
    /\ n \in 2 .. Twenty /\ n % 2 = 0
    /\ units \in Seq(1 .. MaxUnits) /\ Len(units) = n
    /\ \A i \in 1 .. n : units[i] = kept + i
    /\ kept + n <= MaxUnits /\ kept' = kept + n

LEMMA FormatStays ==
    ASSUME UNCHANGED format
    PROVE  /\ resampling' = resampling /\ rtp_packets' = rtp_packets
           /\ AdjSize' = AdjSize /\ buflen' = buflen /\ sizeMask' = sizeMask
           /\ Rings' = Rings
BY DEF format, AdjSize, buflen, sizeMask, Rings

-----------------------------------------------------------------------------
(* send_pcm_bytes(), one way after the other.                              *)

LEMMA PassKeeps ==
    ASSUME FlowOK, UNCHANGED format, NEW n, NEW units, Frame(units, n), Pass(units)
    PROVE  FlowOK' /\ Follows
<1>1. /\ ~resampling /\ rtp_packets = 1 /\ rtp_packets \in Packets
      /\ chunk' = units /\ buffer' = buffer /\ sbuffer' = sbuffer
      /\ buffer \in Rings /\ sbuffer \in Seq(1 .. MaxUnits) /\ chunk \in Seq(1 .. MaxUnits)
      /\ kept \in 0 .. MaxUnits
  BY DEF Pass, writeBinary, FlowOK, FlowTypes
<1>2. n \in 2 .. Twenty /\ n % 2 = 0 /\ Twenty \in Nat /\ MaxUnits \in Nat
      /\ kept + n <= MaxUnits /\ kept' = kept + n
  BY FormatAssumption DEF Frame
<1>3. buffer.tail = 0 /\ kept = sent /\ sent \in 0 .. MaxUnits /\ sent % 2 = 0
      /\ Len(sbuffer) % Sample = 0
  BY <1>1, SentIsNumber DEF FlowOK, Gathered, Holds, Whole
<1>4. /\ units \in Seq(1 .. MaxUnits) /\ Len(units) = n
      /\ \A i \in 1 .. Len(units) : units[i] = sent + i
  BY <1>3 DEF Frame
<1>5. /\ units # <<>> /\ units[1] % 2 = 1 /\ Last(units) = sent + n /\ Last(units) % 2 = 0
      /\ units = [i \in 1 .. Len(units) |-> sent + i]
  <2>1. Len(units) >= 1 /\ Len(units) % 2 = 0 /\ sent \in Nat
    BY <1>2, <1>3, <1>4
  <2>2. QED
    BY <1>3, <1>4, <2>1, GoesOn
<1>6. sent' = kept' /\ kept' \in 0 .. MaxUnits /\ kept' % 2 = 0 /\ sent' % 2 = 0
  <2>1. sent' = Last(units)
    BY <1>1, <1>5 DEF sent
  <2>2. QED
    BY <2>1, <1>2, <1>3, <1>5
<1>7. FlowTypes'
  BY <1>1, <1>4, <1>6, FormatStays DEF FlowOK, FlowTypes
<1>8. Gathered'
  <2>1. Holds(buffer, kept', kept')
    BY <1>2, <1>3, <1>6 DEF Holds
  <2>2. Holds(buffer', sent', kept')
    BY <2>1, <1>1, <1>6
  <2>3. QED
    BY <2>2, <1>1, <1>3 DEF Gathered
<1>9. Resampled' /\ Whole'
  <2>1. resampling' = resampling
    BY FormatStays
  <2>2. Len(sbuffer') % Sample = 0
    BY <1>1, <1>3
  <2>3. QED
    BY <1>1, <1>6, <2>1, <2>2 DEF Resampled, Whole
<1>10. RoomLeft'
  BY <1>1, FormatStays DEF FlowOK, RoomLeft
<1>11. ChunkFillsBuffer'
  BY <1>1, FormatStays DEF ChunkFillsBuffer
<1>12. Follows
  BY <1>1, <1>5 DEF Follows
<1>13. QED
  BY <1>7, <1>8, <1>9, <1>10, <1>11, <1>12 DEF FlowOK

\* The ring has room for the frame, and more.
LEMMA RingFills ==
    ASSUME FlowOK, UNCHANGED format, NEW n, NEW units, Frame(units, n), Gather(units),
           buffer.tail + n < sizeMask
    PROVE  FlowOK' /\ Follows
<1> DEFINE fits == AtMost(ringBufferFreeSpace(buffer), Len(units))
           taken == SubSeq(units, 1, fits)
           filled == ringBufferAppendMultiple(buffer, taken)
           t == buffer.tail
<1>1. /\ ~resampling /\ rtp_packets > 1 /\ rtp_packets \in Packets
      /\ buffer \in Rings /\ sbuffer \in Seq(1 .. MaxUnits) /\ chunk \in Seq(1 .. MaxUnits)
      /\ kept \in 0 .. MaxUnits /\ sbuffer' = sbuffer
  BY DEF Gather, FlowOK, FlowTypes
<1>2. n \in 2 .. Twenty /\ n % 2 = 0 /\ Twenty \in Nat /\ MaxUnits \in Nat
      /\ kept + n <= MaxUnits /\ kept' = kept + n
      /\ units \in Seq(1 .. MaxUnits) /\ Len(units) = n
      /\ \A i \in 1 .. n : units[i] = kept + i
  BY FormatAssumption DEF Frame
<1>3. /\ sizeMask \in Nat /\ AdjSize = sizeMask + 1
      /\ t \in 0 .. sizeMask /\ buffer.head = 0
  BY <1>1, RingSize DEF sizeMask, Rings
<1>4. ringBufferFreeSpace(buffer) = sizeMask - t
  BY <1>3 DEF ringBufferFreeSpace, ringBufferLen
<1>5. fits = n
  BY <1>2, <1>3, <1>4 DEF AtMost
<1>6. taken \in Seq(1 .. MaxUnits) /\ Len(taken) = n /\ \A i \in 1 .. n : taken[i] = units[i]
  <2> HIDE DEF fits
  <2>1. 1 \in 1 .. Len(units) + 1 /\ n \in 0 .. Len(units) /\ 1 <= n + 1
    BY <1>2
  <2>2. QED
    BY <1>2, <1>5, <2>1, Cut
<1> HIDE DEF taken, fits
<1>7. /\ filled \in Rings /\ filled.tail = t + n
      /\ \A i \in 0 .. t - 1 : filled.data[i] = buffer.data[i]
      /\ \A i \in 1 .. n : filled.data[t + i - 1] = taken[i]
  <2>1. buffer.tail + Len(taken) <= sizeMask
    BY <1>2, <1>3, <1>6
  <2>2. QED
    BY <1>1, <1>6, <2>1, Appended
<1>8. ringBufferFreeSpace(filled) # 0
  <2>1. filled.head = 0 /\ filled.tail >= filled.head /\ filled.tail \in Nat
    BY <1>2, <1>3, <1>7 DEF Rings
  <2>2. ringBufferFreeSpace(filled) = sizeMask - filled.tail
    <3> HIDE DEF filled
    <3> QED BY <2>1, <1>3 DEF ringBufferFreeSpace, ringBufferLen
  <2>3. QED
    BY <1>2, <1>3, <1>7, <2>2
<1>9. buffer' = filled /\ chunk' = chunk
  BY <1>8 DEF Gather, fits, taken
<1> HIDE DEF filled
<1>10. sent' = sent /\ sent \in 0 .. MaxUnits /\ kept = sent + t /\ sent % 2 = 0
       /\ kept % 2 = 0 /\ \A i \in 0 .. t - 1 : buffer.data[i] = sent + i + 1
  BY <1>1, <1>9, SentIsNumber DEF FlowOK, sent, Gathered, Holds, Whole
<1>11. ASSUME NEW i \in 0 .. t + n - 1 PROVE filled.data[i] = sent + i + 1
  <2>1. CASE i < t
    <3>1. i \in 0 .. t - 1
      BY <2>1, <1>3
    <3>2. QED
      BY <3>1, <1>7, <1>10
  <2>2. CASE i >= t
    <3> DEFINE j == i - t + 1
    <3>1. j \in 1 .. n /\ t + j - 1 = i
      <4> HIDE DEF t
      <4> QED BY <2>2, <1>2, <1>3
    <3> HIDE DEF j
    <3>2. filled.data[i] = kept + j
      BY <3>1, <1>2, <1>6, <1>7
    <3>3. QED
      BY <3>1, <3>2, <1>3, <1>10
  <2>3. QED
    BY <2>1, <2>2, <1>2, <1>3
<1>12. kept' = sent + (t + n) /\ kept' \in 0 .. MaxUnits /\ kept' % 2 = 0
  <2>1. n \in Nat /\ t \in Nat /\ kept \in Nat
    BY <1>1, <1>2, <1>3
  <2>2. sent \in Nat /\ kept = sent + t /\ kept % 2 = 0
    BY <1>10
  <2> HIDE DEF t
  <2>3. kept' % 2 = 0
    <3>1. (kept + n) % 2 = 0
      BY <2>1, <2>2, <1>2, EvenSum
    <3>2. QED
      BY <3>1, <1>2
  <2>4. QED
    BY <2>1, <2>2, <2>3, <1>2
<1>13. FlowTypes'
  BY <1>1, <1>7, <1>9, <1>12, FormatStays DEF FlowOK, FlowTypes
<1>14. Gathered'
  <2>1. Holds(filled, sent, kept')
    <3>1. filled.tail = t + n
      BY <1>7
    <3>2. kept' = sent + filled.tail
      BY <3>1, <1>12
    <3>3. ASSUME NEW i \in 0 .. filled.tail - 1 PROVE filled.data[i] = sent + i + 1
      <4>1. i \in 0 .. t + n - 1
        BY <3>1, <1>2, <1>3
      <4>2. QED
        BY <4>1, <1>11
    <3>4. QED
      BY <3>2, <3>3 DEF Holds
  <2>2. Holds(buffer', sent', kept')
    BY <2>1, <1>9, <1>10
  <2>3. QED
    BY <2>2, <1>1, FormatStays DEF Gathered
<1>15. Resampled' /\ Whole'
  BY <1>1, <1>10, <1>12, FormatStays DEF FlowOK, Resampled, Whole
<1>16. RoomLeft'
  BY <1>1, <1>7, <1>9, FormatStays DEF FlowOK, RoomLeft
<1>17. ChunkFillsBuffer'
  BY <1>9, FormatStays DEF FlowOK, ChunkFillsBuffer
<1>18. Follows
  BY <1>9 DEF Follows
<1>19. QED
  BY <1>13, <1>14, <1>15, <1>16, <1>17, <1>18 DEF FlowOK

LEMMA Cleared ==
    ASSUME NEW b \in Rings, 0 \in 0 .. sizeMask
    PROVE  ringBufferClear(b) \in Rings /\ ringBufferClear(b).tail = 0
BY DEF Rings, ringBufferClear

\* It is filled by the frame, and what is left of that goes out behind it.
LEMMA RingEmpties ==
    ASSUME FlowOK, UNCHANGED format, NEW n, NEW units, Frame(units, n), Gather(units),
           buffer.tail + n >= sizeMask
    PROVE  FlowOK' /\ Follows
<1> DEFINE fits == AtMost(ringBufferFreeSpace(buffer), Len(units))
           taken == SubSeq(units, 1, fits)
           filled == ringBufferAppendMultiple(buffer, taken)
           rest == Remainder(units, fits)
           whole == ringBufferPeekMultiple(filled, ringBufferLen(filled))
           t == buffer.tail
           m == sizeMask - t
<1>1. /\ ~resampling /\ rtp_packets > 1 /\ rtp_packets \in Packets
      /\ buffer \in Rings /\ sbuffer \in Seq(1 .. MaxUnits) /\ chunk \in Seq(1 .. MaxUnits)
      /\ kept \in 0 .. MaxUnits /\ sbuffer' = sbuffer
  BY DEF Gather, FlowOK, FlowTypes
<1>2. n \in 2 .. Twenty /\ n % 2 = 0 /\ Twenty \in Nat /\ MaxUnits \in Nat
      /\ kept + n <= MaxUnits /\ kept' = kept + n
      /\ units \in Seq(1 .. MaxUnits) /\ Len(units) = n
      /\ \A i \in 1 .. n : units[i] = kept + i
  BY FormatAssumption DEF Frame
<1>3. /\ sizeMask \in Nat /\ AdjSize = sizeMask + 1 /\ AdjSize \in Nat /\ AdjSize % 2 = 0
      /\ AdjSize >= buflen /\ AdjSize < 2 * buflen /\ buflen \in Nat
      /\ t \in 0 .. sizeMask /\ buffer.head = 0
  BY <1>1, RingSize DEF sizeMask, Rings
<1>4. t < sizeMask
  BY DEF FlowOK, RoomLeft
<1>5. m \in 1 .. n /\ fits = m
  <2>1. ringBufferFreeSpace(buffer) = m
    BY <1>3 DEF ringBufferFreeSpace, ringBufferLen
  <2>2. m \in 1 .. n
    BY <1>2, <1>3, <1>4
  <2>3. QED
    BY <2>1, <2>2, <1>2 DEF AtMost
<1>6. taken \in Seq(1 .. MaxUnits) /\ Len(taken) = m /\ \A i \in 1 .. m : taken[i] = units[i]
  <2> HIDE DEF fits, m
  <2>1. 1 \in 1 .. Len(units) + 1 /\ m \in 0 .. Len(units) /\ 1 <= m + 1
    BY <1>2, <1>5
  <2>2. QED
    BY <1>2, <1>5, <2>1, Cut
<1>7. /\ rest \in Seq(1 .. MaxUnits) /\ Len(rest) = n - m
      /\ \A i \in 1 .. n - m : rest[i] = units[m + i]
  <2> HIDE DEF fits, m
  <2>1. m + 1 \in 1 .. Len(units) + 1 /\ n \in 0 .. Len(units) /\ m + 1 <= n + 1
    BY <1>2, <1>5
  <2> DEFINE part == SubSeq(units, m + 1, n)
  <2>2. /\ part \in Seq(1 .. MaxUnits) /\ Len(part) = n - (m + 1) + 1
        /\ \A i \in 1 .. n - (m + 1) + 1 : part[i] = units[(m + 1) + i - 1]
    BY <1>2, <2>1, Cut
  <2>3. rest = part
    BY <1>2, <1>5 DEF Remainder
  <2> HIDE DEF part, rest
  <2>4. n - (m + 1) + 1 = n - m /\ m \in Nat /\ n \in Nat
    BY <1>2, <1>5
  <2>5. ASSUME NEW i \in 1 .. n - m PROVE part[i] = units[m + i]
    <3>1. (m + 1) + i - 1 = m + i /\ i \in 1 .. n - (m + 1) + 1
      BY <2>4
    <3>2. QED
      BY <3>1, <2>2
  <2>6. QED
    BY <2>2, <2>3, <2>4, <2>5
<1> HIDE DEF taken, rest
<1>8. /\ filled \in Rings /\ filled.tail = sizeMask
      /\ \A i \in 0 .. t - 1 : filled.data[i] = buffer.data[i]
      /\ \A i \in 1 .. m : filled.data[t + i - 1] = taken[i]
  <2>1. buffer.tail + Len(taken) = sizeMask
    BY <1>3, <1>6
  <2>2. QED
    BY <1>1, <1>3, <1>6, <2>1, Appended
<1>9. ringBufferLen(filled) = sizeMask /\ ringBufferFreeSpace(filled) = 0
  <2>1. filled.head = 0 /\ filled.tail = sizeMask
    BY <1>8 DEF Rings
  <2> HIDE DEF filled
  <2>2. QED
    BY <2>1, <1>3 DEF ringBufferFreeSpace, ringBufferLen
<1>10. buffer' = ringBufferClear(filled) /\ chunk' = whole \o rest
  BY <1>9 DEF Gather, writeBinary, fits, taken, rest
<1> HIDE DEF filled, fits
<1>11. /\ sent \in 0 .. MaxUnits /\ kept = sent + t /\ sent % 2 = 0
       /\ kept % 2 = 0 /\ \A i \in 0 .. t - 1 : buffer.data[i] = sent + i + 1
  BY <1>1, SentIsNumber DEF FlowOK, Gathered, Holds, Whole
<1>12. ASSUME NEW i \in 0 .. sizeMask - 1 PROVE filled.data[i] = sent + i + 1
  <2>1. CASE i < t
    <3>1. i \in 0 .. t - 1
      BY <2>1, <1>3
    <3>2. QED
      BY <3>1, <1>8, <1>11
  <2>2. CASE i >= t
    <3> DEFINE j == i - t + 1
    <3>1. j \in 1 .. m /\ j \in 1 .. n /\ t + j - 1 = i
      <4> HIDE DEF t
      <4> QED BY <2>2, <1>2, <1>3, <1>5
    <3> HIDE DEF j, m
    <3>2. filled.data[i] = kept + j
      BY <3>1, <1>2, <1>6, <1>8
    <3>3. QED
      BY <3>1, <3>2, <1>3, <1>11
  <2>3. QED
    BY <2>1, <2>2, <1>2, <1>3
<1>13. /\ whole \in Seq(1 .. MaxUnits) /\ Len(whole) = sizeMask
       /\ \A i \in 1 .. sizeMask : whole[i] = sent + i
  <2>1. whole = [i \in 1 .. sizeMask |-> filled.data[(0 + i - 1) % AdjSize]]
    BY <1>8, <1>9 DEF ringBufferPeekMultiple, Rings
  <2>2. ASSUME NEW i \in 1 .. sizeMask
        PROVE  filled.data[(0 + i - 1) % AdjSize] = sent + i
    <3> DEFINE x == 0 + i - 1
    <3>1. x \in 0 .. AdjSize - 1 /\ x \in 0 .. sizeMask - 1 /\ sent + x + 1 = sent + i
      BY <1>3, <1>11
    <3> HIDE DEF x
    <3>2. AdjSize \in Nat \ {0}
      BY <1>3
    <3>3. x % AdjSize = x
      BY <3>1, <3>2, NoTurn
    <3>4. filled.data[x] = sent + x + 1
      BY <3>1, <1>12
    <3>5. QED
      BY <3>1, <3>3, <3>4 DEF x
  <2>3. whole = [i \in 1 .. sizeMask |-> sent + i]
    <3> HIDE DEF whole
    <3> QED BY <2>1, <2>2
  <2>4. ASSUME NEW i \in 1 .. sizeMask PROVE sent + i \in 1 .. MaxUnits
    <3>1. sizeMask <= t + n /\ sent + (t + n) <= MaxUnits /\ sent \in Nat /\ t + n \in Nat
          /\ sizeMask \in Nat /\ MaxUnits \in Nat
      <4>1. n \in Nat /\ t \in Nat /\ sent \in Nat /\ kept = sent + t /\ sizeMask \in Nat
            /\ kept + n <= MaxUnits /\ MaxUnits \in Nat
        BY <1>1, <1>2, <1>3, <1>11
      <4>2. sizeMask <= t + n
        BY <4>1, <1>5
      <4> HIDE DEF t
      <4>3. QED
        BY <4>1, <4>2
    <3> HIDE DEF t
    <3>2. QED
      BY <3>1
  <2>5. whole \in [1 .. sizeMask -> 1 .. MaxUnits]
    <3> HIDE DEF whole
    <3> QED BY <2>3, <2>4
  <2>6. QED
    <3> HIDE DEF whole
    <3> QED BY <2>3, <2>5, <1>3, Numbered
<1> HIDE DEF whole
<1> DEFINE q == whole \o rest
<1>14. /\ q \in Seq(1 .. MaxUnits) /\ Len(q) = t + n
       /\ \A i \in 1 .. t + n : q[i] = IF i <= sizeMask THEN whole[i] ELSE rest[i - sizeMask]
  <2>1. sizeMask + (n - m) = t + n
    BY <1>2, <1>3
  <2>2. /\ q \in Seq(1 .. MaxUnits) /\ Len(q) = Len(whole) + Len(rest)
        /\ \A i \in 1 .. Len(whole) + Len(rest) :
              q[i] = IF i <= Len(whole) THEN whole[i] ELSE rest[i - Len(whole)]
    BY <1>7, <1>13, ConcatProperties
  <2>3. Len(whole) = sizeMask /\ Len(whole) + Len(rest) = t + n
    BY <2>1, <1>7, <1>13
  <2> HIDE DEF q, t, m
  <2>4. QED
    BY <2>2, <2>3
<1> HIDE DEF q
<1>15. ASSUME NEW i \in 1 .. t + n PROVE q[i] = sent + i
  <2>1. CASE i <= sizeMask
    <3>1. i \in 1 .. sizeMask
      BY <2>1, <1>2, <1>3
    <3>2. QED
      BY <3>1, <2>1, <1>13, <1>14
  <2>2. CASE i > sizeMask
    <3> DEFINE j == i - sizeMask
    <3>1. j \in 1 .. n - m /\ m + j \in 1 .. n /\ m + j = i - t /\ ~ (i <= sizeMask)
      BY <2>2, <1>2, <1>3, <1>5
    <3> HIDE DEF j, m
    <3>2. q[i] = kept + (m + j)
      BY <3>1, <1>2, <1>7, <1>14 DEF j
    <3>3. QED
      BY <3>1, <3>2, <1>3, <1>11
  <2>3. QED
    BY <2>1, <2>2, <1>2, <1>3
<1>16. t + n >= 1 /\ (t + n) % 2 = 0 /\ sent \in Nat /\ kept' = sent + (t + n)
       /\ kept' \in 0 .. MaxUnits /\ kept' % 2 = 0 /\ t % 2 = 0
  <2>1. n \in Nat /\ t \in Nat /\ kept \in Nat /\ sent \in Nat /\ kept = sent + t
        /\ n % 2 = 0 /\ sent % 2 = 0 /\ kept % 2 = 0 /\ n >= 2
    BY <1>1, <1>2, <1>3, <1>11
  <2> HIDE DEF t
  <2>2. t % 2 = 0
    BY <2>1
  <2>3. (t + n) % 2 = 0 /\ (kept + n) % 2 = 0
    BY <2>1, <2>2, EvenSum
  <2>4. kept' = kept + n /\ kept + n <= MaxUnits /\ MaxUnits \in Nat
    BY <1>2
  <2>5. QED
    BY <2>1, <2>2, <2>3, <2>4
<1>17. /\ q # <<>> /\ q[1] % 2 = 1 /\ Last(q) = sent + (t + n) /\ Last(q) % 2 = 0
       /\ q = [i \in 1 .. Len(q) |-> sent + i]
  <2>1. /\ sent \in Nat /\ sent % 2 = 0 /\ Len(q) >= 1 /\ Len(q) % 2 = 0
        /\ \A i \in 1 .. Len(q) : q[i] = sent + i
    BY <1>11, <1>14, <1>15, <1>16
  <2>2. QED
    BY <2>1, <1>14, GoesOn
<1>18. chunk' = q
  BY <1>10 DEF q
<1>19. sent' = kept'
  BY <1>16, <1>17, <1>18 DEF sent
<1>20. buffer' \in Rings /\ buffer'.tail = 0
  <2>1. 0 \in 0 .. sizeMask
    BY <1>3
  <2>2. QED
    BY <1>8, <1>10, <2>1, Cleared
<1>21. FlowTypes'
  BY <1>1, <1>14, <1>16, <1>18, <1>20, FormatStays DEF FlowOK, FlowTypes
<1>22. Gathered'
  <2>1. Holds(buffer', kept', kept')
    BY <1>16, <1>20 DEF Holds
  <2>2. QED
    BY <2>1, <1>19, <1>20 DEF Gathered
<1>23. Resampled' /\ Whole'
  <2>1. resampling' = resampling /\ Len(sbuffer') % Sample = 0 /\ sent' % 2 = 0
    BY <1>1, <1>16, <1>19, FormatStays DEF FlowOK, Whole
  <2>2. QED
    BY <2>1, <1>1, <1>16 DEF Resampled, Whole
<1>24. RoomLeft'
  <2>1. Len(sbuffer) < buflen /\ sizeMask > 0
    BY <1>3, <1>4 DEF FlowOK, RoomLeft
  <2>2. QED
    BY <2>1, <1>1, <1>3, <1>20, FormatStays DEF RoomLeft
<1>25. ChunkFillsBuffer'
  <2>1. t + n >= AdjSize /\ t + n <= AdjSize + Twenty - 2
    <3>1. t + n >= AdjSize
      <4>1. t + n >= AdjSize - 1 /\ AdjSize % 2 = 0 /\ (t + n) % 2 = 0
        BY <1>3, <1>16
      <4>2. t + n \in Nat /\ AdjSize \in Nat
        BY <1>2, <1>3
      <4> DEFINE k == t + n
      <4> HIDE DEF k
      <4>3. k >= AdjSize - 1 /\ k % 2 = 0 /\ k \in Nat
        BY <4>1, <4>2 DEF k
      <4>4. k >= AdjSize
        BY <4>1, <4>2, <4>3
      <4>5. QED
        BY <4>4 DEF k
    <3>2. t + n <= AdjSize + Twenty - 2
      BY <1>2, <1>3, <1>4
    <3>3. QED
      BY <3>1, <3>2
  <2>2. Len(chunk') = t + n
    BY <1>14, <1>18
  <2>3. AdjSize' = AdjSize /\ ~resampling'
    BY <1>1, FormatStays
  <2>4. QED
    <3> HIDE DEF t
    <3> QED BY <2>1, <2>2, <2>3 DEF ChunkFillsBuffer
<1>26. Follows
  BY <1>1, <1>17, <1>18 DEF Follows
<1>27. QED
  BY <1>21, <1>22, <1>23, <1>24, <1>25, <1>26 DEF FlowOK

\* With a resampler what comes of a frame may be nothing, as when it is less than a sample.
LEMMA NothingComesOut ==
    ASSUME FlowOK, UNCHANGED format, NEW n, NEW units, Frame(units, n), resampling,
           UNCHANGED <<buffer, sbuffer, chunk>>
    PROVE  FlowOK' /\ Follows
<1>1. /\ kept \in 0 .. MaxUnits /\ MaxUnits \in Nat /\ n \in Nat /\ n % 2 = 0 /\ kept % 2 = 0
      /\ kept' = kept + n /\ kept + n <= MaxUnits
  BY FormatAssumption DEF Frame, FlowOK, FlowTypes, Whole
<1>2. kept' \in 0 .. MaxUnits /\ kept' % 2 = 0 /\ kept \in Nat /\ kept' \in Nat /\ kept <= kept'
  BY <1>1, EvenSum
<1>3. /\ buffer' = buffer /\ sbuffer' = sbuffer /\ chunk' = chunk /\ sent' = sent
      /\ resampling' = resampling /\ resampling
  BY FormatStays DEF sent
<1>4. FlowTypes'
  BY <1>2, <1>3, FormatStays DEF FlowOK, FlowTypes
<1>5. Gathered' /\ Whole'
  BY <1>2, <1>3 DEF FlowOK, Gathered, Whole
<1>6. Resampled'
  <2>1. /\ sent \in Nat /\ sent <= kept
        /\ \A i \in 1 .. Len(sbuffer) : sbuffer[i] \in sent + 1 .. kept
        /\ \A i \in 2 .. Len(sbuffer) : sbuffer[i] > sbuffer[i - 1]
        /\ sbuffer # <<>> => sbuffer[1] % 2 = 1
    BY <1>1, <1>3, SentIsNumber DEF FlowOK, Resampled
  <2>2. sent <= kept'
    BY <1>2, <2>1
  <2>3. ASSUME NEW i \in 1 .. Len(sbuffer) PROVE sbuffer[i] \in sent + 1 .. kept'
    <3>1. sbuffer[i] \in sent + 1 .. kept
      BY <2>1
    <3>2. QED
      BY <1>2, <2>1, <3>1
  <2>4. QED
    BY <1>3, <2>1, <2>2, <2>3 DEF Resampled
<1>7. RoomLeft' /\ ChunkFillsBuffer'
  BY <1>3, FormatStays DEF FlowOK, RoomLeft, ChunkFillsBuffer
<1>8. Follows
  BY <1>3 DEF Follows
<1>9. QED
  BY <1>4, <1>5, <1>6, <1>7, <1>8 DEF FlowOK

\* The resampler's output is cut to the room in sbuffer, where a sample always has some.
LEMMA ResampleKeeps ==
    ASSUME FlowOK, UNCHANGED format, NEW n, NEW units, Frame(units, n), Resample(units)
    PROVE  FlowOK' /\ Follows
<1> DEFINE L == Len(sbuffer)
           k == Output(Len(units), buflen - L)
           out == SubSeq(units, 1, k)
           all == sbuffer \o out
<1>1. /\ resampling /\ rtp_packets \in Packets /\ rtp_packets \in Nat \ {0}
      /\ buffer \in Rings /\ sbuffer \in Seq(1 .. MaxUnits) /\ chunk \in Seq(1 .. MaxUnits)
      /\ kept \in 0 .. MaxUnits /\ buffer' = buffer
  BY FormatAssumption DEF Resample, FlowOK, FlowTypes
<1>2. n \in 2 .. Twenty /\ n % 2 = 0 /\ Twenty \in Nat /\ MaxUnits \in Nat
      /\ kept + n <= MaxUnits /\ kept' = kept + n
      /\ units \in Seq(1 .. MaxUnits) /\ Len(units) = n
      /\ \A i \in 1 .. n : units[i] = kept + i
  BY FormatAssumption DEF Frame
<1>3. /\ L \in Nat /\ L < buflen /\ L % Sample = 0 /\ buflen \in Nat /\ buflen % Sample = 0
      /\ kept % 2 = 0
  BY <1>1, RingSize, LenProperties DEF FlowOK, RoomLeft, Whole
<1>4. /\ sent \in 0 .. MaxUnits /\ sent <= kept
      /\ \A i \in 1 .. L : sbuffer[i] \in sent + 1 .. kept
      /\ \A i \in 2 .. L : sbuffer[i] > sbuffer[i - 1]
      /\ sbuffer # <<>> => sbuffer[1] % 2 = 1
  BY <1>1, SentIsNumber DEF FlowOK, Resampled
<1>5. k \in 0 .. n /\ k % Sample = 0 /\ k % 2 = 0 /\ L + k <= buflen
  <2>1. n \in Nat /\ Len(units) = n
    BY <1>2
  <2>2. buflen - L \in Nat /\ (buflen - L) % Sample = 0
    BY <1>3, WholeDifference
  <2> HIDE DEF L
  <2>3. k \in 0 .. n /\ k <= buflen - L /\ k % Sample = 0
    BY <2>1, <2>2, OutputIs
  <2> HIDE DEF k
  <2>4. QED
    BY <1>3, <2>1, <2>3, WholeSamples
<1>6. out \in Seq(1 .. MaxUnits) /\ Len(out) = k /\ \A i \in 1 .. k : out[i] = kept + i
  <2> HIDE DEF k
  <2>1. 1 \in 1 .. Len(units) + 1 /\ k \in 0 .. Len(units) /\ 1 <= k + 1 /\ k \in Nat
    BY <1>2, <1>5
  <2>2. out \in Seq(1 .. MaxUnits) /\ Len(out) = k /\ \A i \in 1 .. k : out[i] = units[i]
    BY <1>2, <2>1, Cut
  <2> HIDE DEF out
  <2>3. \A i \in 1 .. k : i \in 1 .. n
    BY <1>2, <1>5
  <2>4. QED
    BY <1>2, <2>2, <2>3
<1>22. CASE k = 0
  <2>1. out = <<>>
    <3> HIDE DEF k, out
    <3> QED BY <1>6, <1>22, EmptySeq
  <2>2. all = sbuffer
    <3> HIDE DEF out
    <3> QED BY <1>1, <2>1, ConcatEmptySeq
  <2>3. UNCHANGED <<buffer, sbuffer, chunk>>
    BY <1>1, <2>1, <2>2 DEF Resample, out, all
  <2>4. QED
    BY <1>1, <2>3, NothingComesOut
<1>23. SUFFICES ASSUME k # 0 PROVE FlowOK' /\ Follows
  BY <1>22
<1>24. k >= 1
  <2> HIDE DEF k
  <2> QED BY <1>2, <1>5, <1>23
<1>7. out # <<>>
  <2>1. Len(out) # 0
    <3> HIDE DEF k, out
    <3> QED BY <1>24, <1>6
  <2> HIDE DEF out
  <2>2. QED
    BY <2>1, EmptySeq
<1> HIDE DEF out
<1>8. /\ all \in Seq(1 .. MaxUnits) /\ Len(all) = L + k
      /\ \A i \in 1 .. L + k : all[i] = IF i <= L THEN sbuffer[i] ELSE out[i - L]
  <2> HIDE DEF k
  <2> QED BY <1>1, <1>6, ConcatProperties
<1>9. \/ (rtp_packets = 1 \/ Len(all) = buflen) /\ chunk' = all /\ sbuffer' = <<>>
      \/ rtp_packets # 1 /\ Len(all) # buflen /\ sbuffer' = all /\ chunk' = chunk
  BY <1>7 DEF Resample, writeBinary, Flushed, out
<1> HIDE DEF all, k
<1>10. ASSUME NEW i \in 1 .. L PROVE all[i] = sbuffer[i]
  BY <1>3, <1>5, <1>8
<1>11. ASSUME NEW i \in L + 1 .. L + k PROVE all[i] = kept + (i - L)
  <2>1. i \in 1 .. L + k /\ ~ (i <= L) /\ i - L \in 1 .. k
    BY <1>3, <1>5
  <2>2. QED
    BY <2>1, <1>6, <1>8
<1>12. ASSUME NEW i \in 1 .. L + k PROVE all[i] \in sent + 1 .. kept + k
  <2>1. sent \in Nat /\ kept \in Nat /\ k \in Nat /\ L \in Nat /\ sent <= kept
    BY <1>1, <1>2, <1>3, <1>4, <1>5
  <2>2. CASE i <= L
    <3>1. i \in 1 .. L
      BY <2>2, <2>1
    <3>2. all[i] \in sent + 1 .. kept
      BY <3>1, <1>4, <1>10
    <3>3. QED
      BY <3>2, <2>1
  <2>3. CASE i > L
    <3>1. i \in L + 1 .. L + k
      BY <2>3, <2>1
    <3>2. all[i] = kept + (i - L)
      BY <3>1, <1>11
    <3>3. QED
      BY <3>1, <3>2, <2>1
  <2>4. QED
    BY <2>1, <2>2, <2>3
<1>13. ASSUME NEW i \in 2 .. L + k PROVE all[i] > all[i - 1]
  <2>1. kept \in Nat /\ k \in Nat /\ L \in Nat
    BY <1>1, <1>2, <1>3, <1>5
  <2>2. CASE i <= L
    <3>1. i \in 2 .. L /\ i \in 1 .. L /\ i - 1 \in 1 .. L
      BY <2>1, <2>2
    <3>2. all[i] = sbuffer[i] /\ all[i - 1] = sbuffer[i - 1]
      BY <3>1, <1>10
    <3>3. QED
      BY <3>1, <3>2, <1>4
  <2>3. CASE i = L + 1
    <3>1. i - 1 \in 1 .. L /\ i \in L + 1 .. L + k
      BY <2>1, <2>3
    <3>2. all[i - 1] \in sent + 1 .. kept
      BY <3>1, <1>4, <1>10
    <3>3. all[i] = kept + 1
      BY <3>1, <2>1, <2>3, <1>11
    <3>4. QED
      BY <3>2, <3>3, <2>1, <1>4
  <2>4. CASE i > L + 1
    <3>1. i \in L + 1 .. L + k /\ i - 1 \in L + 1 .. L + k
      BY <2>1, <2>4
    <3>2. all[i] = kept + (i - L) /\ all[i - 1] = kept + ((i - 1) - L)
      BY <3>1, <1>11
    <3>3. QED
      BY <3>1, <3>2, <2>1
  <2>5. QED
    BY <2>1, <2>2, <2>3, <2>4
<1>14. all[1] % 2 = 1
  <2>1. CASE L = 0
    <3>1. 1 \in L + 1 .. L + k /\ 1 - L = 1
      BY <2>1, <1>2, <1>5, <1>24
    <3>2. all[1] = kept + 1
      BY <3>1, <1>11
    <3>3. kept \in Nat /\ kept % 2 = 0
      BY <1>1, <1>2, <1>3
    <3>4. (kept + 1) % 2 = 1
      BY <3>3
    <3>5. QED
      BY <3>2, <3>4
  <2>2. CASE L # 0
    <3>1. 1 \in 1 .. L
      BY <2>2, <1>3
    <3>2. sbuffer # <<>>
      BY <2>2, EmptySeq
    <3>3. QED
      BY <3>1, <3>2, <1>4, <1>10
  <2>3. QED
    BY <2>1, <2>2
<1>15. Last(all) = kept + k /\ (kept + k) % 2 = 0
  <2>1. kept \in Nat /\ k \in Nat /\ L \in Nat /\ L + k \in L + 1 .. L + k /\ (L + k) - L = k
    BY <1>1, <1>2, <1>3, <1>5, <1>24
  <2>2. all[L + k] = kept + k
    BY <2>1, <1>11
  <2>3. Last(all) = kept + k
    BY <2>2, <1>8 DEF Last
  <2>4. QED
    BY <2>1, <2>3, <1>3, <1>5, EvenSum
<1>16. kept' = kept + n /\ kept' \in 0 .. MaxUnits /\ kept' % 2 = 0 /\ kept + k <= kept'
  <2>1. n \in Nat /\ kept \in Nat /\ k \in Nat /\ k <= n
    BY <1>1, <1>2, <1>5
  <2>2. (kept + n) % 2 = 0
    BY <2>1, <1>2, <1>3, EvenSum
  <2>3. QED
    BY <2>1, <2>2, <1>2
<1>17. Len(all) % Sample = 0 /\ Len(all) <= buflen /\ all # <<>>
  <2>1. k \in Nat /\ L \in Nat /\ k >= 1
    BY <1>2, <1>3, <1>5, <1>24
  <2>2. (L + k) % Sample = 0
    BY <2>1, <1>3, <1>5, WholeSamples
  <2>3. QED
    BY <2>1, <2>2, <1>5, <1>8, EmptySeq
<1>18. /\ resampling' /\ buflen' = buflen /\ sizeMask' = sizeMask /\ Rings' = Rings
       /\ resampling' = resampling /\ rtp_packets' = rtp_packets
  BY <1>1, FormatStays
<1>19. CASE chunk' = all /\ sbuffer' = <<>> /\ (rtp_packets = 1 \/ Len(all) = buflen)
  <2>1. sent' = kept + k
    BY <1>15, <1>17, <1>19 DEF sent
  <2>2. <<>> \in Seq(1 .. MaxUnits) /\ Len(<<>>) = 0
    BY EmptySeq
  <2>3. FlowTypes'
    BY <1>1, <1>8, <1>16, <1>18, <1>19, <2>2 DEF FlowOK, FlowTypes
  <2>4. Gathered' /\ Whole'
    BY <1>16, <1>18, <1>19, <2>2, WholeSamples DEF Gathered, Whole
  <2>5. Resampled'
    <3>1. sent' <= kept' /\ Len(sbuffer') = 0 /\ sbuffer' = <<>>
      BY <1>16, <1>19, <2>1, <2>2
    <3>2. /\ \A i \in 1 .. Len(sbuffer') : sbuffer'[i] \in sent' + 1 .. kept'
          /\ \A i \in 2 .. Len(sbuffer') : sbuffer'[i] > sbuffer'[i - 1]
      BY <3>1
    <3>3. QED
      BY <3>1, <3>2 DEF Resampled
  <2>6. RoomLeft'
    <3>1. buffer.tail < sizeMask /\ 0 < buflen
      BY <1>3 DEF FlowOK, RoomLeft
    <3>2. QED
      BY <3>1, <1>1, <1>18, <1>19, <2>2 DEF RoomLeft
  <2>7. ChunkFillsBuffer'
    BY <1>1, <1>18, <1>19 DEF ChunkFillsBuffer
  <2>8. Follows
    <3>1. all[1] > sent
      <4>1. 1 \in 1 .. L + k /\ sent \in Nat
        BY <1>2, <1>3, <1>4, <1>5, <1>24
      <4>2. all[1] \in sent + 1 .. kept + k
        BY <4>1, <1>12
      <4>3. QED
        BY <4>1, <4>2, <1>1, <1>2, <1>5
    <3>2. \A i \in 2 .. Len(all) : all[i] > all[i - 1]
      BY <1>8, <1>13
    <3>3. Last(all) % 2 = 0
      BY <1>15
    <3>4. QED
      BY <1>1, <1>14, <1>19, <3>1, <3>2, <3>3 DEF Follows
  <2>9. QED
    BY <2>3, <2>4, <2>5, <2>6, <2>7, <2>8 DEF FlowOK
<1>20. CASE sbuffer' = all /\ chunk' = chunk /\ Len(all) # buflen
  <2>1. sent' = sent
    BY <1>20 DEF sent
  <2>2. FlowTypes'
    BY <1>1, <1>8, <1>16, <1>18, <1>20 DEF FlowOK, FlowTypes
  <2>3. Gathered' /\ Whole'
    BY <1>16, <1>17, <1>18, <1>20 DEF Gathered, Whole
  <2>4. Resampled'
    <3>1. sent' <= kept'
      BY <1>1, <1>2, <1>4, <1>5, <1>16, <2>1
    <3>2. ASSUME NEW i \in 1 .. Len(all) PROVE all[i] \in sent + 1 .. kept'
      <4>1. all[i] \in sent + 1 .. kept + k
        BY <1>8, <1>12
      <4>2. sent \in Nat /\ kept \in Nat /\ k \in Nat /\ kept' \in Nat /\ kept + k <= kept'
        BY <1>1, <1>2, <1>4, <1>5, <1>16
      <4>3. QED
        BY <4>1, <4>2
    <3>3. \A i \in 2 .. Len(all) : all[i] > all[i - 1]
      BY <1>8, <1>13
    <3>4. QED
      BY <1>14, <1>20, <2>1, <3>1, <3>2, <3>3 DEF Resampled
  <2>5. RoomLeft'
    <3>1. Len(all) < buflen
      <4>1. Len(all) \in Nat
        BY <1>8, LenProperties
      <4>2. QED
        BY <4>1, <1>3, <1>17, <1>20
    <3>2. QED
      BY <3>1, <1>1, <1>18, <1>20 DEF FlowOK, RoomLeft
  <2>6. ChunkFillsBuffer'
    BY <1>18, <1>20 DEF FlowOK, ChunkFillsBuffer
  <2>7. Follows
    BY <1>20 DEF Follows
  <2>8. QED
    BY <2>2, <2>3, <2>4, <2>5, <2>6, <2>7 DEF FlowOK
<1>21. QED
  BY <1>9, <1>19, <1>20

LEMMA SendKeeps ==
    ASSUME FlowOK, UNCHANGED format, NEW n \in 2 .. Twenty, n % 2 = 0, send_pcm_bytes(n)
    PROVE  FlowOK' /\ Follows /\ kept' = kept + n
<1> DEFINE units == [i \in 1 .. n |-> kept + i]
<1>1. /\ kept' = kept + n /\ kept + n <= MaxUnits
      /\ Pass(units) \/ Gather(units) \/ Resample(units)
  BY DEF send_pcm_bytes
<1>2. kept \in 0 .. MaxUnits /\ MaxUnits \in Nat /\ n \in Nat
  BY FormatAssumption DEF FlowOK, FlowTypes
<1>3. \A i \in 1 .. n : kept + i \in 1 .. MaxUnits
  BY <1>1, <1>2
<1>4. units \in [1 .. n -> 1 .. MaxUnits] /\ \A i \in 1 .. n : units[i] = kept + i
  BY <1>3
<1> HIDE DEF units
<1>5. Frame(units, n)
  BY <1>1, <1>2, <1>4, Numbered DEF Frame
<1>6. CASE Gather(units)
  <2>1. buffer.tail \in Nat /\ sizeMask \in Nat
    BY RingSize DEF FlowOK, FlowTypes, Rings, sizeMask
  <2>2. CASE buffer.tail + n < sizeMask
    BY <1>1, <1>5, <1>6, <2>2, RingFills
  <2>3. CASE buffer.tail + n >= sizeMask
    BY <1>1, <1>5, <1>6, <2>3, RingEmpties
  <2>4. QED
    BY <1>2, <2>1, <2>2, <2>3
<1>7. QED
  BY <1>1, <1>5, <1>6, PassKeeps, ResampleKeeps

-----------------------------------------------------------------------------
(* Steps.                                                                  *)

\* What the callback and the API threads have beside the audio.
LocalTypes ==
    /\ silence \in Silences /\ streamer \in BOOLEAN /\ paused \in BOOLEAN
    /\ callback \in {"idle", "locking", "reading"}
    /\ reads \in 0 .. MaxReads /\ sent_audio \in 0 .. reads /\ saw_placeholder \in BOOLEAN
    /\ keptBefore \in 0 .. kept

LEMMA Parts == IInv <=> FlowOK /\ LocalTypes /\ Clocked
BY DEF IInv, TypeOK, FlowOK, FlowTypes, LocalTypes, Rings

LEMMA PartsNext == FlowOK' /\ LocalTypes' /\ Clocked' => IInv'
BY DEF IInv, TypeOK, FlowOK, FlowTypes, LocalTypes, Rings

LEMMA FlowStays ==
    ASSUME FlowOK, UNCHANGED format, UNCHANGED flow
    PROVE  FlowOK' /\ Follows
<1>1. buffer' = buffer /\ sbuffer' = sbuffer /\ kept' = kept /\ chunk' = chunk
  BY DEF flow
<1>2. sent' = sent
  BY <1>1 DEF sent
<1>3. FlowTypes'
  BY <1>1, FormatStays DEF FlowOK, FlowTypes
<1>4. Gathered' /\ Resampled' /\ Whole'
  BY <1>1, <1>2, FormatStays DEF FlowOK, Gathered, Resampled, Whole
<1>5. RoomLeft' /\ ChunkFillsBuffer'
  BY <1>1, FormatStays DEF FlowOK, RoomLeft, ChunkFillsBuffer
<1>6. QED
  BY <1>1, <1>3, <1>4, <1>5 DEF FlowOK, Follows

LEMMA Counts ==
    ASSUME FlowOK, LocalTypes
    PROVE  /\ kept \in Nat /\ keptBefore \in Nat /\ keptBefore <= kept
           /\ reads \in Nat /\ sent_audio \in Nat /\ MaxReads \in Nat /\ Twenty \in Nat
BY FormatAssumption DEF FlowOK, FlowTypes, LocalTypes

LEMMA Initially == Init => IInv
<1> SUFFICES ASSUME Init PROVE IInv
  OBVIOUS
<1>1. resampling \in BOOLEAN /\ rtp_packets \in Packets /\ rtp_packets \in Nat \ {0}
      /\ silence \in Silences /\ MaxUnits \in Nat /\ MaxReads \in Nat
  BY FormatAssumption DEF Init
<1>2. buflen \in Nat /\ buflen >= 2 /\ AdjSize \in Nat /\ AdjSize >= buflen
      /\ sizeMask = AdjSize - 1
  BY <1>1, RingSize DEF sizeMask
<1>3. buffer = [data |-> [i \in 0 .. sizeMask |-> 0], head |-> 0, tail |-> 0]
  BY <1>2 DEF Init
<1>4. buffer \in Rings /\ buffer.tail = 0
  <2>1. 0 \in 0 .. sizeMask /\ 0 \in 0 .. MaxUnits
    BY <1>1, <1>2
  <2>2. QED
    BY <1>3, <2>1 DEF Rings
<1>5. <<>> \in Seq(1 .. MaxUnits) /\ Len(<<>>) = 0
  BY EmptySeq
<1>6. sent = 0
  BY DEF Init, sent
<1>7. FlowTypes
  BY <1>1, <1>4, <1>5 DEF Init, FlowTypes
<1>8. LocalTypes /\ Clocked
  <2>1. reads = 0 /\ sent_audio = 0 /\ kept = 0 /\ keptBefore = 0 /\ callback = "idle"
    BY DEF Init
  <2>2. LocalTypes
    <3>1. reads \in 0 .. MaxReads /\ sent_audio \in 0 .. reads /\ keptBefore \in 0 .. kept
      BY <1>1, <2>1
    <3>2. QED
      BY <1>1, <3>1 DEF Init, LocalTypes
  <2>3. Clocked
    BY <2>1 DEF Clocked
  <2>4. QED
    BY <2>2, <2>3
<1>9. Gathered /\ Resampled /\ Whole
  <2>1. Holds(buffer, 0, 0)
    BY <1>4 DEF Holds
  <2>2. QED
    BY <1>4, <1>5, <1>6, <2>1, WholeSamples DEF Init, Gathered, Resampled, Whole
<1>10. RoomLeft /\ ChunkFillsBuffer
  BY <1>2, <1>4, <1>5 DEF Init, RoomLeft, ChunkFillsBuffer
<1>11. QED
  BY <1>7, <1>8, <1>9, <1>10, Parts DEF FlowOK

\* Every step keeps the invariant, and cuts the stream where ChunksFollow says.
LEMMA Step == IInv /\ [Next]_vars => IInv' /\ Follows
<1> SUFFICES ASSUME IInv, [Next]_vars PROVE IInv' /\ Follows
  OBVIOUS
<1>1. FlowOK /\ LocalTypes /\ Clocked
  BY Parts
<1>2. CASE FrameComes
  <2>1. FlowOK' /\ Follows
    BY <1>1, <1>2, FlowStays DEF FrameComes
  <2>2. LocalTypes' /\ Clocked'
    BY <1>1, <1>2 DEF FrameComes, format, locals, flow, LocalTypes, Clocked
  <2>3. QED
    BY <2>1, <2>2, PartsNext
<1>3. CASE Locked
  <2>1. FlowOK' /\ Follows
    BY <1>1, <1>3, FlowStays DEF Locked
  <2>2. /\ reads' = 0 /\ sent_audio' = 0 /\ saw_placeholder' = FALSE
        /\ keptBefore' = kept /\ kept' = kept /\ silence' = silence
        /\ streamer' = streamer /\ paused' = paused
        /\ callback' \in {"idle", "reading"}
    BY <1>3 DEF Locked, format, flow
  <2>3. LocalTypes'
    <3>1. reads' \in 0 .. MaxReads /\ sent_audio' \in 0 .. reads' /\ keptBefore' \in 0 .. kept'
      BY <1>1, <2>2, Counts
    <3>2. QED
      BY <1>1, <2>2, <3>1 DEF LocalTypes
  <2>4. Clocked'
    BY <2>2 DEF Clocked
  <2>5. QED
    BY <2>1, <2>3, <2>4, PartsNext
<1>4. CASE ReadAudio
  <2>1. PICK f \in FrameType :
            /\ callback = "reading" /\ reads < MaxReads /\ ~Placeholder(f)
            /\ reads' = reads + 1 /\ sent_audio' = sent_audio + 1
            /\ send_pcm_bytes(clamp_pcm_bytes(f))
            /\ UNCHANGED <<format, streamer, paused, callback, saw_placeholder, keptBefore>>
    BY <1>4 DEF ReadAudio
  <2> DEFINE n == clamp_pcm_bytes(f)
  <2>2. n \in 2 .. Twenty /\ n % 2 = 0
    BY <2>1, FrameLength
  <2> HIDE DEF n
  <2>3. FlowOK' /\ Follows /\ kept' = kept + n
    BY <1>1, <2>1, <2>2, SendKeeps DEF n
  <2>4. LocalTypes'
    BY <1>1, <2>1, <2>2, <2>3, Counts DEF format, LocalTypes
  <2>5. Clocked'
    BY <1>1, <2>1, <2>2, <2>3, Counts DEF Clocked
  <2>6. QED
    BY <2>3, <2>4, <2>5, PartsNext
<1>5. CASE ReadPlaceholder
  <2>1. FlowOK' /\ Follows
    BY <1>1, <1>5, FlowStays DEF ReadPlaceholder
  <2>2. LocalTypes' /\ Clocked'
    BY <1>1, <1>5, Counts DEF ReadPlaceholder, format, flow, LocalTypes, Clocked
  <2>3. QED
    BY <2>1, <2>2, PartsNext
<1>6. CASE FrameEnds
  <2>1. CASE sent_audio = 0 /\ saw_placeholder
    <3>1. send_pcm_bytes(silence)
      BY <1>6, <2>1 DEF FrameEnds, emit_clock_silence
    <3>2. silence \in 2 .. Twenty /\ silence % 2 = 0
      BY <1>1, SilenceLength DEF LocalTypes
    <3>3. FlowOK' /\ Follows /\ kept' = kept + silence
      BY <1>1, <1>6, <3>1, <3>2, SendKeeps DEF FrameEnds
    <3>4. LocalTypes' /\ Clocked'
      BY <1>1, <1>6, <3>2, <3>3, Counts DEF FrameEnds, format, locals, LocalTypes, Clocked
    <3>5. QED
      BY <3>3, <3>4, PartsNext
  <2>2. CASE ~(sent_audio = 0 /\ saw_placeholder)
    <3>1. UNCHANGED flow
      BY <1>6, <2>2 DEF FrameEnds
    <3>2. FlowOK' /\ Follows
      BY <1>1, <1>6, <3>1, FlowStays DEF FrameEnds
    <3>3. LocalTypes' /\ Clocked'
      BY <1>1, <1>6, <2>2, <3>1, Counts
         DEF FrameEnds, format, locals, flow, LocalTypes, Clocked
    <3>4. QED
      BY <3>2, <3>3, PartsNext
  <2>3. QED
    BY <2>1, <2>2
<1>7. CASE PauseResume
  <2>1. FlowOK' /\ Follows
    BY <1>1, <1>7, FlowStays DEF PauseResume
  <2>2. LocalTypes' /\ Clocked'
    BY <1>1, <1>7 DEF PauseResume, format, locals, flow, LocalTypes, Clocked
  <2>3. QED
    BY <2>1, <2>2, PartsNext
<1>8. CASE Finish
  <2>1. FlowOK' /\ Follows
    BY <1>1, <1>8, FlowStays DEF Finish
  <2>2. LocalTypes' /\ Clocked'
    BY <1>1, <1>8 DEF Finish, format, locals, flow, LocalTypes, Clocked
  <2>3. QED
    BY <2>1, <2>2, PartsNext
<1>9. CASE UNCHANGED vars
  <2>1. UNCHANGED format /\ UNCHANGED flow /\ UNCHANGED locals
        /\ UNCHANGED <<streamer, paused, callback, keptBefore>>
    BY <1>9 DEF vars, format, flow, locals
  <2>2. FlowOK' /\ Follows
    BY <1>1, <2>1, FlowStays
  <2>3. LocalTypes' /\ Clocked'
    BY <1>1, <2>1 DEF format, locals, flow, LocalTypes, Clocked
  <2>4. QED
    BY <2>2, <2>3, PartsNext
<1>10. QED
  BY <1>2, <1>3, <1>4, <1>5, <1>6, <1>7, <1>8, <1>9 DEF Next

LEMMA Invariant == Spec => []IInv
<1>1. Init => IInv
  BY Initially
<1>2. IInv /\ [Next]_vars => IInv'
  BY Step
<1>3. QED
  BY <1>1, <1>2, PTL DEF Spec

-----------------------------------------------------------------------------
(* Theorems.                                                               *)

\* Every variable has its type, whatever lengths and formats there are: the numbers the
\* ring is cut by stay in its bounds (ringbuffer.c, send_pcm_bytes).
THEOREM TypeCorrect == Spec => []TypeOK
<1>1. IInv => TypeOK
  BY DEF IInv
<1>2. QED
  BY <1>1, Invariant, PTL

\* Without a resampler the ring has, in order, exactly the audio that was kept since the
\* last chunk went to writeBinary() (send_pcm_bytes and its remainder).
THEOREM AudioIsKept == Spec => []NothingLost
<1>1. IInv => NothingLost
  <2> SUFFICES ASSUME IInv PROVE NothingLost
    OBVIOUS
  <2>1. TypeOK /\ FlowOK
    BY Parts DEF IInv
  <2>2. SUFFICES ASSUME ~resampling
                 PROVE  ringBufferPeekMultiple(buffer, ringBufferLen(buffer))
                            = [i \in 1 .. kept - sent |-> sent + i]
    BY <2>1 DEF NothingLost
  <2> DEFINE t == buffer.tail
  <2>3. /\ t \in Nat /\ buffer.head = 0 /\ t <= sizeMask /\ sizeMask = AdjSize - 1
        /\ AdjSize \in Nat \ {0}
    BY <2>1, RingSize DEF FlowOK, FlowTypes, Rings, sizeMask
  <2>4. /\ kept = sent + t /\ sent \in Nat
        /\ \A i \in 0 .. t - 1 : buffer.data[i] = sent + i + 1
    BY <2>1, <2>2, SentIsNumber DEF FlowOK, Gathered, Holds
  <2>5. ringBufferLen(buffer) = t /\ kept - sent = t
    BY <2>3, <2>4 DEF ringBufferLen
  <2> HIDE DEF t
  <2>6. ringBufferPeekMultiple(buffer, ringBufferLen(buffer))
            = [i \in 1 .. t |-> buffer.data[(0 + i - 1) % AdjSize]]
    BY <2>3, <2>5 DEF ringBufferPeekMultiple
  <2>7. ASSUME NEW i \in 1 .. t PROVE buffer.data[(0 + i - 1) % AdjSize] = sent + i
    <3> DEFINE x == 0 + i - 1
    <3>1. x \in 0 .. AdjSize - 1 /\ x \in 0 .. t - 1 /\ sent + x + 1 = sent + i
      BY <2>3, <2>4
    <3> HIDE DEF x
    <3>2. x % AdjSize = x
      BY <3>1, <2>3, NoTurn
    <3>3. buffer.data[x] = sent + x + 1
      BY <3>1, <2>4
    <3>4. QED
      BY <3>1, <3>2, <3>3 DEF x
  <2>8. QED
    BY <2>5, <2>6, <2>7
<1>2. QED
  BY <1>1, Invariant, PTL

\* Neither buffer ever stays full, and a callback that read anything has moved the clock
\* of the stream (stream_frame, emit_clock_silence).
THEOREM RoomAndClock == Spec => []NeverStuck
<1>1. IInv => NeverStuck
  <2> SUFFICES ASSUME IInv PROVE NeverStuck
    OBVIOUS
  <2>1. FlowOK /\ Clocked
    BY Parts
  <2>2. /\ buffer.tail \in Nat /\ buffer.head = 0 /\ sizeMask \in Nat
        /\ buffer.tail < sizeMask /\ Len(sbuffer) < buflen
    BY <2>1, RingSize DEF FlowOK, FlowTypes, Rings, RoomLeft, sizeMask
  <2>5. buflen - Len(sbuffer) >= Sample
    <3>1. buflen \in Nat /\ buflen % Sample = 0 /\ Len(sbuffer) \in Nat
      BY <2>1, RingSize, LenProperties DEF FlowOK, FlowTypes
    <3>2. Len(sbuffer) % Sample = 0
      BY <2>1 DEF FlowOK, Whole
    <3> HIDE DEF buflen
    <3>3. QED
      BY <2>2, <3>1, <3>2, WholeSamples
  <2>3. ringBufferFreeSpace(buffer) > 0
    BY <2>2 DEF ringBufferFreeSpace, ringBufferLen
  <2>4. QED
    BY <2>1, <2>3, <2>5 DEF NeverStuck, Clocked
<1>2. QED
  BY <1>1, Invariant, PTL

\* A chunk is as long as STREAM_BUFFER_SIZE asks for with a resampler; without, as long as the
\* ring, the power of two that follows, and at most a frame longer.
THEOREM ChunkLength == Spec => []ChunkFillsBuffer
<1>1. IInv => ChunkFillsBuffer
  BY DEF IInv
<1>2. QED
  BY <1>1, Invariant, PTL

\* Each chunk begins where the one before ended and never cuts a sample in two
\* (writeBinary as send_pcm_bytes calls it).
THEOREM ChunksInOrder == Spec => ChunksFollow
<1>1. IInv /\ [Next]_vars =>
        [chunk' # chunk =>
         /\ chunk'[1] % 2 = 1 /\ Last(chunk') % 2 = 0
         /\ IF resampling
            THEN chunk'[1] > sent /\ \A i \in 2 .. Len(chunk') : chunk'[i] > chunk'[i - 1]
            ELSE chunk' = [i \in 1 .. Len(chunk') |-> sent + i]]_vars
  BY Step DEF Follows
<1>2. QED
  BY <1>1, Invariant, PTL DEF Spec, ChunksFollow

=============================================================================
