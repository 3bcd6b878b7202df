-------------------------- MODULE SendRing_proofs --------------------------
(***************************************************************************)
(* Proofs about SendRing, for every ring size, every write and frame size  *)
(* and every backlog limit.                                                *)
(***************************************************************************)
EXTENDS SendRing, SequenceTheorems, TLAPS

-----------------------------------------------------------------------------
(* Arithmetic of ring indices.  Indices are at most a few ring sizes apart. *)

\* What the remainder is after no turn, one, two or three, and one turn back.
LEMMA NoTurn == ASSUME NEW c \in Nat \ {0}, NEW x \in 0 .. c - 1 PROVE x % c = x
  OBVIOUS

LEMMA OneTurn ==
    ASSUME NEW c \in Nat \ {0}, NEW x \in Int, c <= x, x < 2 * c PROVE x % c = x - c
  OBVIOUS

LEMMA TwoTurns ==
    ASSUME NEW c \in Nat \ {0}, NEW x \in Int, 2 * c <= x, x < 3 * c PROVE x % c = x - 2 * c
  OBVIOUS

LEMMA ThreeTurns ==
    ASSUME NEW c \in Nat \ {0}, NEW x \in Int, 3 * c <= x, x < 4 * c PROVE x % c = x - 3 * c
  OBVIOUS

LEMMA TurnBack ==
    ASSUME NEW c \in Nat \ {0}, NEW x \in Int, 0 - c <= x, x < 0 PROVE x % c = x + c
  OBVIOUS

\* A full turn changes nothing.
LEMMA Turn ==
    ASSUME NEW c \in Nat \ {0}, NEW x \in Int, NEW y \in Int,
           y = x - c, c <= x, x < 4 * c
    PROVE  y % c = x % c
<1>1. CASE x < 2 * c
  <2>1. x % c = x - c
    BY <1>1, OneTurn
  <2>2. y % c = y
    BY <1>1, NoTurn
  <2>3. QED
    BY <2>1, <2>2
<1>2. CASE 2 * c <= x /\ x < 3 * c
  <2>1. x % c = x - 2 * c
    BY <1>2, TwoTurns
  <2>2. c <= y /\ y < 2 * c
    BY <1>2
  <2>3. y % c = y - c
    BY <2>2, OneTurn
  <2>4. QED
    BY <2>1, <2>3
<1>3. CASE 3 * c <= x
  <2>1. x % c = x - 3 * c
    BY <1>3, ThreeTurns
  <2>2. 2 * c <= y /\ y < 3 * c
    BY <1>3
  <2>3. y % c = y - 2 * c
    BY <2>2, TwoTurns
  <2>4. QED
    BY <2>1, <2>3
<1>4. QED
  BY <1>1, <1>2, <1>3

\* Advancing twice is advancing by the sum.
LEMMA AdvanceTwice ==
    ASSUME NEW c \in Nat \ {0}, NEW t \in 0 .. c - 1,
           NEW a \in 0 .. c, NEW b \in 0 .. 2 * c, t + a + b < 4 * c
    PROVE  (((t + a) % c) + b) % c = (t + a + b) % c
<1>1. PICK u \in Int : u = t + a
  OBVIOUS
<1>2. u < 2 * c /\ 0 <= u
  BY <1>1
<1>3. CASE u < c
  <2>1. u % c = u
    BY <1>2, <1>3, NoTurn
  <2>2. QED
    BY <1>1, <2>1
<1>4. CASE u >= c
  <2>1. u % c = u - c
    BY <1>2, <1>4, OneTurn
  <2>2. PICK x \in Int : x = u + b
    BY <1>1
  <2>3. PICK y \in Int : y = x - c
    BY <2>2
  <2>4. c <= x /\ x < 4 * c
    BY <1>1, <1>2, <1>4, <2>2
  <2>5. y % c = x % c
    BY <2>2, <2>3, <2>4, Turn
  <2>6. ((t + a) % c) + b = y /\ t + a + b = x
    BY <1>1, <2>1, <2>2, <2>3
  <2>7. QED
    BY <2>6, <2>5
<1>5. QED
  BY <1>2, <1>3, <1>4

\* A slot is at a distance of less than a ring size from the head, and
\* advancing from the head by less than a ring size finds it back.
LEMMA Distance ==
    ASSUME NEW c \in Nat \ {0}, NEW h \in 0 .. c - 1, NEW d \in 0 .. c - 1
    PROVE  (((h + d) % c) - h) % c = d
<1>1. CASE h + d < c
  <2>1. ((h + d) % c) - h = d
    BY <1>1, NoTurn
  <2>2. QED
    BY <2>1, NoTurn
<1>2. CASE h + d >= c
  <2>1. ((h + d) % c) - h = d - c
    BY <1>2, OneTurn
  <2>2. d - c \in Int /\ 0 - c <= d - c /\ d - c < 0
    OBVIOUS
  <2>3. (d - c) % c = (d - c) + c
    BY <2>2, TurnBack
  <2>4. QED
    BY <2>1, <2>3
<1>3. QED
  BY <1>1, <1>2

-----------------------------------------------------------------------------
(* The ring.                                                               *)

\* The inductive invariant: the shape of the ring, and what ties the flags of
\* the open callback to the audio that left.
MetadataFirst ==
    /\ ready \/ taken > 0 \/ events = "announced" => announced # "no"
    /\ link = "connecting" \/ events = "opened" => announced = "no"
    /\ events = "opened" => link # "connecting" /\ (stopper = "idle" => connected)
    /\ private => stopper \in {"idle", "hung_up"}
    /\ announced = "down" => link = "down"
    /\ sender = "sending" => taken > 0
    /\ sent => taken > 0 /\ announced # "down"

IInv == TypeOK /\ RingHoldsRecent /\ DropsAccounted /\ MetadataFirst

\* The type invariant in two halves: the buffers and the threads' own state.
BufferTypes ==
    /\ ring \in [Slots -> Nat]
    /\ head \in Slots /\ tail \in Slots /\ used \in 0 .. Cap
    /\ dropped \in Nat /\ heard \in Nat /\ clipped \in Nat /\ taken \in Nat
    /\ chunk \in Seq(Nat)

ThreadTypes ==
    /\ sender \in {"top", "check", "enter", "blocked", "woke", "sending", "failed", "exit"}
    /\ stop \in BOOLEAN /\ connected \in BOOLEAN /\ ready \in BOOLEAN
    /\ private \in BOOLEAN /\ sent \in BOOLEAN
    /\ announced \in {"no", "sent", "early", "late", "down"}
    /\ link \in {"connecting", "up", "down"}
    /\ events \in {"connecting", "opened", "announced", "open", "dropping", "closed"}
    /\ stopper \in {"idle", "hung_up", "private_cleared", "connected_cleared", "ready_cleared",
                    "stop_set", "joining", "joined"}

LEMMA TypeHalves == TypeOK <=> BufferTypes /\ ThreadTypes
  BY DEF TypeOK, BufferTypes, ThreadTypes

\* The numbers among them, spelled out for arithmetic.
LEMMA Numbers ==
    ASSUME TypeOK
    PROVE  /\ Cap \in Nat \ {0} /\ head \in 0 .. Cap - 1 /\ tail \in 0 .. Cap - 1
           /\ used \in 0 .. Cap /\ used \in Nat
           /\ heard \in Nat /\ dropped \in Nat /\ clipped \in Nat /\ taken \in Nat
<1>1. Cap \in Nat \ {0}
  BY SizesAssumption
<1>2. /\ head \in 0 .. Cap - 1 /\ tail \in 0 .. Cap - 1 /\ used \in 0 .. Cap
      /\ heard \in Nat /\ dropped \in Nat /\ clipped \in Nat /\ taken \in Nat
  BY DEF TypeOK, Slots
<1>3. QED
  BY <1>1, <1>2

\* One pass of the overflow loop makes enough room for any write: the loop of
\* enqueuePcm never runs twice.
LEMMA MakeRoomIsEnough ==
    ASSUME used \in 0 .. Cap, NEW n \in 1 .. Cap - 1
    PROVE  AfterOverflow(n) \in 0 .. used /\ AfterOverflow(n) + n <= Cap
  BY SizesAssumption DEF AfterOverflow, AtMost, AtLeast

\* A write changes the n slots from head on and no other.
LEMMA WrittenAt ==
    ASSUME head \in Slots, NEW n \in 0 .. Cap - 1, NEW d \in 0 .. Cap - 1, NEW first
    PROVE  /\ (head + d) % Cap \in Slots
           /\ Written(n, first)[(head + d) % Cap] =
                IF d < n THEN first + d ELSE ring[(head + d) % Cap]
<1>1. Cap \in Nat \ {0} /\ head \in 0 .. Cap - 1
  BY SizesAssumption DEF Slots
<1>2. (((head + d) % Cap) - head) % Cap = d
  BY <1>1, Distance
<1>3. (head + d) % Cap \in Slots
  BY <1>1 DEF Slots
<1>4. QED
  BY <1>2, <1>3 DEF Written

\* The slot of the k-th oldest unit, seen from the head.
LEMMA SlotFromHead ==
    ASSUME tail \in Slots, used \in 0 .. Cap, head = (tail + used) % Cap,
           NEW k \in 1 .. used
    PROVE  SlotOf(k) = (head + (Cap - used + k - 1)) % Cap
<1>1. Cap \in Nat \ {0} /\ tail \in 0 .. Cap - 1
  BY SizesAssumption DEF Slots
<1>2. PICK d \in 0 .. Cap - 1 : d = Cap - used + k - 1
  BY <1>1
<1>3. (head + d) % Cap = (tail + used + d) % Cap
  BY <1>1, AdvanceTwice
<1>4. PICK x \in Int : x = tail + used + d
  BY <1>1
<1>5. PICK y \in Int : y = tail + k - 1
  BY <1>1
<1>6. y % Cap = x % Cap
  <2>1. y = x - Cap /\ Cap <= x /\ x < 4 * Cap
    BY <1>1, <1>2, <1>4, <1>5
  <2>2. QED
    BY <1>1, <2>1, Turn
<1>7. QED
  BY <1>2, <1>3, <1>4, <1>5, <1>6 DEF SlotOf

-----------------------------------------------------------------------------
(* Every step keeps the invariant.                                         *)

\* The part of a write that is kept fits the ring but for a slot, and the ring makes room for it.
LEMMA ClippedFits ==
    ASSUME NEW len \in Writes
    PROVE  /\ Clipped(len) \in 1 .. Cap - 1 /\ len - Clipped(len) \in Nat /\ len \in Nat \ {0}
           /\ len - Clipped(len) > 0 => Clipped(len) = Cap - 1
  BY SizesAssumption DEF Clipped

\* enqueuePcm: overflow, copy, trim.  What stays of the ring stays in its slots, and what was
\* written follows it.
LEMMA WriteKeepsRing ==
    ASSUME TypeOK, RingHoldsRecent, NEW len \in Writes, WriteBinary(len)
    PROVE  /\ ring' \in [Slots -> Nat] /\ head' \in Slots /\ tail' \in Slots
           /\ used' \in 0 .. Cap /\ heard' = heard + len /\ dropped' \in Nat
           /\ clipped' = clipped + (len - Clipped(len))
           /\ RingHoldsRecent'
           /\ heard' - used' - dropped' - clipped' = heard - used - dropped - clipped
           /\ \E new \in 0 .. Clipped(len), kept \in 0 .. used :
                 /\ new + kept = used' /\ (kept > 0 => new = Clipped(len))
                 /\ \A i \in 1 .. kept : Content'[i] = Content[used - kept + i]
                 /\ \A i \in kept + 1 .. used' : Content'[i] = heard' - used' + i
<1> DEFINE n == Clipped(len)
           room == AfterOverflow(n)
           full == room + n
           left == AtMost(full, Limit)
           a == used - room
           b == full - left
           cut == len - n
           new == AtMost(left, n)
           kept == left - new
<1>1. Cap \in Nat \ {0} /\ n \in 1 .. Cap - 1 /\ heard \in Nat /\ dropped \in Nat
      /\ head \in 0 .. Cap - 1 /\ tail \in 0 .. Cap - 1 /\ used \in 0 .. Cap
      /\ clipped \in Nat /\ cut \in Nat /\ len = n + cut /\ (cut > 0 => n = Cap - 1)
  <2>1. n \in 1 .. Cap - 1 /\ cut \in Nat /\ len \in Nat /\ (cut > 0 => n = Cap - 1)
    BY ClippedFits
  <2>2. Cap \in Nat \ {0} /\ head \in 0 .. Cap - 1 /\ tail \in 0 .. Cap - 1 /\ used \in 0 .. Cap
        /\ heard \in Nat /\ dropped \in Nat /\ clipped \in Nat
    BY Numbers
  <2>3. QED
    BY <2>1, <2>2
<1>2. room \in 0 .. used /\ full <= Cap /\ (used = Cap => room < used)
  <2>1. room \in 0 .. used /\ full <= Cap
    BY <1>1, MakeRoomIsEnough
  <2>2. QED
    BY <1>1, <2>1
<1>3. left \in 0 .. full
  <2>1. Limit \in Nat
    BY SizesAssumption DEF Limit
  <2>2. full \in Nat
    BY <1>1, <1>2
  <2>3. QED
    BY <2>1, <2>2 DEF AtMost
<1>4. /\ ring' = Written(n, heard + cut + 1) /\ head' = (head + n) % Cap /\ used' = left
      /\ tail' = (((tail + a) % Cap) + b) % Cap
      /\ dropped' = dropped + a + b /\ heard' = heard + len /\ clipped' = clipped + cut
  <2>1. Lost(room, full, left) = a + b
    BY DEF Lost
  <2>2. QED
    BY <2>1, <1>1, <1>2, <1>3 DEF WriteBinary
<1> HIDE DEF n, room, left, cut
<1>5. ring' \in [Slots -> Nat]
  <2>1. ASSUME NEW s \in Slots
        PROVE  Written(n, heard + cut + 1)[s] \in Nat
    <3>1. (s - head) % Cap \in 0 .. Cap - 1
      BY <1>1 DEF Slots
    <3>2. ring[s] \in Nat
      BY DEF TypeOK
    <3>3. PICK off \in 0 .. Cap - 1 : off = (s - head) % Cap
      BY <3>1
    <3>4. Written(n, heard + cut + 1)[s] = IF off < n THEN heard + cut + 1 + off ELSE ring[s]
      BY <3>3 DEF Written
    <3>5. QED
      BY <1>1, <3>2, <3>4
  <2>2. QED
    BY <2>1, <1>4 DEF Written
<1>6. head' \in Slots /\ tail' \in Slots
  BY <1>1, <1>2, <1>3, <1>4 DEF Slots
<1>7. PICK t \in 0 .. Cap - 1 : t = (tail + a) % Cap
  BY <1>1, <1>2
<1>8. /\ room \in 0 .. used /\ a \in 0 .. Cap /\ b \in 0 .. Cap
      /\ full \in 0 .. Cap /\ left \in 0 .. Cap
      /\ b + left = full /\ room + n = full /\ a + room = used
      /\ (used = Cap => a > 0)
  BY <1>1, <1>2, <1>3
<1> HIDE DEF a, b, full
<1>9. ASSUME NEW k \in 0 .. left
      PROVE  (tail' + k) % Cap = (tail + a + (b + k)) % Cap
  <2>1. k \in 0 .. 2 * Cap /\ t + b + k < 4 * Cap
    BY <1>1, <1>7, <1>8
  <2>2. (((t + b) % Cap) + k) % Cap = (t + b + k) % Cap
    BY <1>1, <1>7, <1>8, <2>1, AdvanceTwice
  <2>3. PICK m \in 0 .. Cap : m = b + k
    BY <1>1, <1>8
  <2>4. tail + a + m < 4 * Cap /\ m \in 0 .. 2 * Cap
    BY <1>1, <1>8, <2>3
  <2>5. (((tail + a) % Cap) + m) % Cap = (tail + a + m) % Cap
    BY <1>1, <1>8, <2>4, AdvanceTwice
  <2>6. t + b + k = t + m
    BY <1>7, <1>8, <2>3
  <2>7. QED
    BY <1>4, <1>7, <2>2, <2>3, <2>5, <2>6
<1>10. head' = (tail' + used') % Cap
  <2>1. (tail' + left) % Cap = (tail + a + full) % Cap
    BY <1>8, <1>9
  <2>2. (((tail + used) % Cap) + n) % Cap = (tail + used + n) % Cap
    BY <1>1, AdvanceTwice
  <2>3. tail + a + full = tail + used + n
    BY <1>1, <1>8
  <2>4. QED
    BY <1>4, <2>1, <2>2, <2>3 DEF RingHoldsRecent
<1>11. new \in 0 .. n /\ kept \in 0 .. used /\ new + kept = left /\ kept <= room
       /\ (kept > 0 => new = n)
  BY <1>1, <1>8 DEF AtMost
<1> HIDE DEF new, kept
\* The i-th oldest unit of the ring was the j-th before the trim.
<1>12. ASSUME NEW i \in 1 .. left, NEW j \in 1 .. full, j = b + i
       PROVE  SlotOf(i)' = (tail + a + (j - 1)) % Cap
  <2>1. i - 1 \in 0 .. left /\ b + (i - 1) = j - 1
    BY <1>8, <1>12
  <2>2. (tail' + (i - 1)) % Cap = (tail + a + (j - 1)) % Cap
    BY <1>9, <2>1
  <2>3. tail' + i - 1 = tail' + (i - 1)
    BY <1>1, <1>6 DEF Slots
  <2>4. QED
    BY <2>2, <2>3 DEF SlotOf
<1>13. head = (tail + used) % Cap /\ head \in Slots /\ tail \in Slots
  BY DEF RingHoldsRecent, TypeOK
\* A unit that was there before moved only in the counting.
<1>14. ASSUME NEW i \in 1 .. kept
       PROVE  ring'[SlotOf(i)'] = ring[SlotOf(used - kept + i)]
  <2>1. i \in 1 .. left
    BY <1>11, <1>8
  <2>2. PICK j \in 1 .. full : j = b + i
    BY <1>8, <2>1
  <2>3. j <= room
    BY <1>1, <1>8, <1>11, <2>2
  <2>4. PICK k \in 1 .. used : k = a + j
    BY <1>1, <1>8, <2>3
  <2>5. k = used - kept + i
    BY <1>1, <1>8, <1>11, <2>2, <2>4
  <2>6. PICK d \in 0 .. Cap - 1 : d = Cap - used + k - 1
    BY <1>1, <2>4
  <2>7. ~(d < n) /\ n \in 0 .. Cap - 1
    BY <1>1, <1>8, <2>3, <2>4, <2>6
  <2>8. SlotOf(k) = (head + d) % Cap
    BY <1>1, <1>13, <2>6, SlotFromHead
  <2>9. ring'[(head + d) % Cap] = ring[(head + d) % Cap]
    BY <1>1, <1>4, <1>13, <2>7, WrittenAt
  <2>10. SlotOf(k) = (tail + a + (j - 1)) % Cap
    <3>1. tail + k - 1 = tail + a + (j - 1)
      BY <1>1, <1>8, <2>2, <2>4
    <3>2. QED
      BY <3>1 DEF SlotOf
  <2>11. QED
    BY <1>12, <2>1, <2>2, <2>5, <2>8, <2>9, <2>10
\* A unit of this write.
<1>15. ASSUME NEW i \in kept + 1 .. left
       PROVE  ring'[SlotOf(i)'] = heard' - used' + i
  <2>1. i \in 1 .. left /\ i > kept
    BY <1>11, <1>8
  <2>2. PICK j \in 1 .. full : j = b + i
    BY <1>8, <2>1
  <2>3. j > room
    BY <1>1, <1>8, <1>11, <2>1, <2>2
  <2>4. PICK d \in 0 .. Cap - 1 : d = j - room - 1
    BY <1>1, <1>8, <2>3
  <2>5. d < n /\ n \in 0 .. Cap - 1
    BY <1>1, <1>8, <2>4
  <2>6. ring'[(head + d) % Cap] = heard + cut + 1 + d
    BY <1>1, <1>4, <1>13, <2>5, WrittenAt
  <2>7. (((tail + used) % Cap) + d) % Cap = (tail + used + d) % Cap
    BY <1>1, AdvanceTwice
  <2>8. tail + used + d = tail + a + (j - 1)
    BY <1>1, <1>8, <2>2, <2>4
  <2>9. heard + cut + 1 + d = heard' - used' + i
    BY <1>1, <1>4, <1>8, <2>2, <2>4
  <2>10. QED
    BY <1>12, <1>13, <2>1, <2>2, <2>6, <2>7, <2>8, <2>9
<1>16. ASSUME NEW i \in 1 .. used'
       PROVE  \/ ring'[SlotOf(i)'] = heard' - used' + i
              \/ clipped' > 0 /\ used' = Cap /\ i = 1 /\ ring'[SlotOf(i)'] <= heard' - used'
  <2>1. CASE i > kept
    <3>1. i \in kept + 1 .. left
      BY <1>4, <1>8, <1>11, <2>1
    <3>2. QED
      BY <1>15, <3>1
  <2>2. CASE i <= kept
    <3>1. i \in 1 .. kept /\ new = n
      BY <1>4, <1>8, <1>11, <2>2
    <3>2. PICK k \in 1 .. used : k = used - kept + i
      BY <1>1, <1>11, <3>1
    <3>3. \/ ring[SlotOf(k)] = heard - used + k
          \/ used = Cap /\ k = 1
      BY DEF RingHoldsRecent
    <3>4. k > a
      BY <1>1, <1>8, <1>11, <3>1, <3>2
    <3>5. ring[SlotOf(k)] = heard - used + k
      BY <1>8, <3>3, <3>4
    <3>6. ring'[SlotOf(i)'] = heard - used + k
      BY <1>14, <3>1, <3>2, <3>5
    <3>7. CASE cut = 0
      <4>1. heard - used + k = heard' - used' + i
        BY <1>1, <1>4, <1>8, <1>11, <3>1, <3>2, <3>7
      <4>2. QED
        BY <3>6, <4>1
    <3>8. CASE cut > 0
      <4>1. n = Cap - 1 /\ kept = 1 /\ i = 1 /\ left = Cap
        BY <1>1, <1>8, <1>11, <3>1, <3>8
      <4>2. clipped' > 0
        BY <1>1, <1>4, <3>8
      <4>3. heard - used + k <= heard' - used'
        BY <1>1, <1>4, <3>2, <3>8, <4>1
      <4>4. QED
        BY <1>4, <3>6, <4>1, <4>2, <4>3
    <3>9. QED
      BY <1>1, <3>7, <3>8
  <2>3. QED
    BY <1>1, <1>4, <1>8, <1>11, <2>1, <2>2
<1>17. RingHoldsRecent'
  BY <1>10, <1>16 DEF RingHoldsRecent
<1>18. dropped' \in Nat /\ heard' - used' - dropped' - clipped' = heard - used - dropped - clipped
  BY <1>1, <1>4, <1>8
<1>19. \A i \in 1 .. kept : Content'[i] = Content[used - kept + i]
  <2>1. ASSUME NEW i \in 1 .. kept PROVE Content'[i] = Content[used - kept + i]
    <3>1. i \in 1 .. used' /\ used - kept + i \in 1 .. used
      BY <1>1, <1>4, <1>8, <1>11
    <3>2. QED
      BY <1>14, <3>1 DEF Content
  <2>2. QED
    BY <2>1
<1>20. \A i \in kept + 1 .. used' : Content'[i] = heard' - used' + i
  <2>1. ASSUME NEW i \in kept + 1 .. used' PROVE Content'[i] = heard' - used' + i
    <3>1. i \in 1 .. used' /\ i \in kept + 1 .. left
      BY <1>1, <1>4, <1>8, <1>11
    <3>2. QED
      BY <1>15, <3>1 DEF Content
  <2>2. QED
    BY <2>1
<1>21. used' \in 0 .. Cap /\ heard' = heard + len /\ clipped' = clipped + (len - Clipped(len))
  BY <1>4, <1>8 DEF cut, n
<1>22. \E m \in 0 .. Clipped(len), k \in 0 .. used :
          /\ m + k = used' /\ (k > 0 => m = Clipped(len))
          /\ \A i \in 1 .. k : Content'[i] = Content[used - k + i]
          /\ \A i \in k + 1 .. used' : Content'[i] = heard' - used' + i
  BY <1>4, <1>11, <1>19, <1>20 DEF n
<1>23. QED
  BY <1>5, <1>6, <1>17, <1>18, <1>21, <1>22

\* senderLoop: n units leave at the old end; what stays keeps its slots.
LEMMA CopyKeepsRing ==
    ASSUME TypeOK, RingHoldsRecent, NEW n \in 1 .. used,
           ring' = ring, head' = head, heard' = heard, clipped' = clipped,
           tail' = (tail + n) % Cap, used' = used - n
    PROVE  /\ tail' \in Slots /\ used' \in 0 .. Cap /\ RingHoldsRecent'
           /\ \A i \in 1 .. used - n : Content'[i] = Content[n + i]
<1>1. /\ Cap \in Nat \ {0} /\ head \in 0 .. Cap - 1 /\ tail \in 0 .. Cap - 1
      /\ used \in 0 .. Cap /\ heard \in Nat /\ n \in 0 .. Cap
  BY Numbers
<1>2. tail' \in Slots /\ used' \in 0 .. Cap
  BY <1>1 DEF Slots
<1>3. ASSUME NEW k \in 0 .. used - n
      PROVE  (tail' + k) % Cap = (tail + n + k) % Cap
  <2>1. k \in 0 .. 2 * Cap /\ tail + n + k < 4 * Cap
    BY <1>1
  <2>2. QED
    BY <1>1, <2>1, AdvanceTwice
<1>4. head' = (tail' + used') % Cap
  <2>1. PICK k \in 0 .. used - n : k = used - n
    BY <1>1
  <2>2. tail + n + k = tail + used
    BY <1>1, <2>1
  <2>3. head = (tail + used) % Cap
    BY DEF RingHoldsRecent
  <2>4. QED
    BY <1>3, <2>1, <2>2, <2>3
<1>5. ASSUME NEW i \in 1 .. used - n
      PROVE  /\ ring'[(tail' + i - 1) % Cap] = heard' - used' + i
             /\ ring'[SlotOf(i)'] = ring[SlotOf(n + i)]
  <2>1. PICK k \in 1 .. used : k = n + i
    BY <1>1
  <2>2. i - 1 \in 0 .. used - n
    BY <1>1
  <2>3. (tail' + (i - 1)) % Cap = (tail + n + (i - 1)) % Cap
    BY <1>3, <2>2
  <2>4. tail' + (i - 1) = tail' + i - 1 /\ tail + n + (i - 1) = tail + k - 1
    BY <1>1, <1>2, <2>1 DEF Slots
  <2>5. ring[(tail + k - 1) % Cap] = heard - used + k
    <3>1. k # 1
      BY <1>1, <2>1
    <3>2. QED
      BY <3>1 DEF RingHoldsRecent, SlotOf
  <2>6. heard - used + k = heard' - used' + i
    BY <1>1, <2>1
  <2>7. (tail' + i - 1) % Cap = (tail + k - 1) % Cap
    BY <2>3, <2>4
  <2>8. QED
    BY <2>1, <2>5, <2>6, <2>7 DEF SlotOf
<1>6. RingHoldsRecent'
  BY <1>4, <1>5 DEF RingHoldsRecent, SlotOf
<1>7. \A i \in 1 .. used - n : Content'[i] = Content[n + i]
  <2>1. ASSUME NEW i \in 1 .. used - n PROVE Content'[i] = Content[n + i]
    <3>1. i \in 1 .. used' /\ n + i \in 1 .. used
      BY <1>1
    <3>2. QED
      BY <1>5, <3>1 DEF Content
  <2>2. QED
    BY <2>1
<1>8. QED
  BY <1>2, <1>6, <1>7

\* The invariant holds in the state the constructor leaves.
LEMMA InitInvariant == Init => IInv
<1> SUFFICES ASSUME Init PROVE IInv
  OBVIOUS
<1>1. Cap \in Nat \ {0} /\ 0 % Cap = 0
  BY SizesAssumption, NoTurn
<1>2. TypeOK
  <2>1. 0 \in Slots /\ 0 \in 0 .. Cap /\ ring \in [Slots -> Nat]
    BY <1>1 DEF Init, Slots
  <2>2. BufferTypes
    BY <2>1 DEF Init, BufferTypes
  <2>3. ThreadTypes
    BY DEF Init, ThreadTypes
  <2>4. QED
    BY <2>2, <2>3, TypeHalves
<1>3. RingHoldsRecent
  BY <1>1 DEF Init, RingHoldsRecent
<1>4. DropsAccounted /\ MetadataFirst
  BY DEF Init, DropsAccounted, MetadataFirst
<1>5. QED
  BY <1>2, <1>3, <1>4 DEF IInv

\* A step that leaves the ring alone keeps its part of the invariant.
LEMMA RingUntouched ==
    ASSUME IInv, UNCHANGED <<ring, head, tail, used, dropped, heard, clipped, taken>>
    PROVE  RingHoldsRecent' /\ DropsAccounted'
  BY DEF IInv, RingHoldsRecent, DropsAccounted, SlotOf

LEMMA BuffersUntouched ==
    ASSUME IInv, UNCHANGED <<ring, head, tail, used, dropped, heard, clipped, taken, chunk>>
    PROVE  BufferTypes'
<1>1. BufferTypes
  BY TypeHalves DEF IInv
<1>2. QED
  BY <1>1 DEF BufferTypes

\* What is left of a flag that a step may clear.
LEMMA FlagCleared ==
    ASSUME NEW b \in BOOLEAN, NEW c, c = b \/ c = FALSE
    PROVE  c \in BOOLEAN /\ (c => b)
<1>1. CASE c = FALSE
  BY <1>1
<1>2. CASE c = b
  <2>1. c \in BOOLEAN
    BY <1>2
  <2>2. CASE b = TRUE
    BY <2>1, <2>2
  <2>3. CASE b = FALSE
    BY <1>2, <2>3
  <2>4. QED
    BY <2>2, <2>3
<1>3. QED
  BY <1>1, <1>2

\* A step of the sender without the ring, at most clearing the two flags.
LEMMA FlagsOnly ==
    ASSUME IInv, UNCHANGED <<ring, head, tail, used, dropped, heard, clipped, taken, chunk>>,
           UNCHANGED <<stop, link, events, private, announced, sent, stopper>>,
           sender' \in {"top", "check", "enter", "blocked", "woke", "sending", "failed", "exit"},
           sender' = "sending" => sender = "sending", UNCHANGED connected,
           ready' \in BOOLEAN, ready' => ready
    PROVE  IInv'
<1>1. ThreadTypes'
  BY TypeHalves DEF ThreadTypes, IInv
<1>2. MetadataFirst'
  BY DEF MetadataFirst, IInv
<1>3. QED
  BY <1>1, <1>2, RingUntouched, BuffersUntouched DEF IInv, TypeOK, BufferTypes, ThreadTypes

LEMMA SumUp ==
    ASSUME NEW h \in Nat, NEW u \in Nat, NEW d \in Nat, NEW c \in Nat, NEW t \in Nat,
           h - u - d - c = t
    PROVE  h = t + u + d + c
  OBVIOUS

\* What leaves the ring without being taken is dropped, and what never comes there is clipped.
LEMMA AccountKept ==
    ASSUME TypeOK, DropsAccounted, heard' \in Nat, used' \in Nat, dropped' \in Nat, clipped' \in Nat,
           heard' - used' - dropped' - clipped' = heard - used - dropped - clipped, taken' = taken
    PROVE  DropsAccounted'
<1>1. heard \in Nat /\ used \in Nat /\ dropped \in Nat /\ clipped \in Nat /\ taken \in Nat
  BY Numbers
<1>2. heard = taken + used + dropped + clipped
  BY DEF DropsAccounted
<1>3. heard - used - dropped - clipped = taken
  BY <1>1, <1>2
<1>4. PICK h \in Nat, u \in Nat, d \in Nat, c \in Nat :
          h = heard' /\ u = used' /\ d = dropped' /\ c = clipped'
  OBVIOUS
<1>5. h - u - d - c = taken
  BY <1>3, <1>4
<1>6. h = taken + u + d + c
  BY <1>1, <1>5, SumUp
<1>7. QED
  BY <1>4, <1>6 DEF DropsAccounted

\* Every step of every thread keeps the invariant.
LEMMA NextInvariant == IInv /\ [Next]_vars => IInv'
<1> SUFFICES ASSUME IInv, [Next]_vars PROVE IInv'
  OBVIOUS
<1> USE DEF IInv
<1>1. ASSUME NEW len \in Writes, WriteBinary(len) PROVE IInv'
  <2>1. /\ ring' \in [Slots -> Nat] /\ head' \in Slots /\ tail' \in Slots
        /\ used' \in 0 .. Cap /\ heard' \in Nat /\ dropped' \in Nat /\ clipped' \in Nat
        /\ RingHoldsRecent'
        /\ heard' - used' - dropped' - clipped' = heard - used - dropped - clipped
    <3>1. /\ ring' \in [Slots -> Nat] /\ head' \in Slots /\ tail' \in Slots
          /\ used' \in 0 .. Cap /\ heard' = heard + len /\ dropped' \in Nat
          /\ clipped' = clipped + (len - Clipped(len)) /\ RingHoldsRecent'
          /\ heard' - used' - dropped' - clipped' = heard - used - dropped - clipped
      BY <1>1, WriteKeepsRing
    <3>2. len \in Nat /\ len - Clipped(len) \in Nat /\ heard \in Nat /\ clipped \in Nat
      BY ClippedFits, Numbers
    <3>3. QED
      BY <3>1, <3>2
  <2>2. UNCHANGED <<chunk, taken, stop, connected, ready, link, events, private, announced, sent, stopper>>
        /\ sender' = Notified
    BY <1>1 DEF WriteBinary, flagVars, session
  <2>3. TypeOK'
    <3>1. BufferTypes'
      BY <2>1, <2>2, TypeHalves DEF BufferTypes
    <3>2. ThreadTypes'
      BY <2>2, TypeHalves DEF ThreadTypes, Notified
    <3>3. QED
      BY <3>1, <3>2 DEF TypeOK, BufferTypes, ThreadTypes
  <2>4. DropsAccounted'
    <3>1. used' \in Nat
      BY <2>1, Numbers
    <3>2. QED
      BY <2>1, <2>2, <3>1, AccountKept
  <2>5. MetadataFirst'
    BY <2>2 DEF MetadataFirst, Notified
  <2>6. QED
    BY <2>1, <2>3, <2>4, <2>5
<1>2. CASE SenderCopy
  <2>1. PICK frame \in Frames : /\ chunk' = [i \in 1 .. AtMost(used, frame) |-> ring[SlotOf(i)]]
                                /\ tail' = (tail + AtMost(used, frame)) % Cap
                                /\ used' = used - AtMost(used, frame)
                                /\ taken' = taken + AtMost(used, frame)
    BY <1>2 DEF SenderCopy
  <2>2. /\ UNCHANGED <<ring, head, dropped, heard, clipped, stop, connected, ready, link, events,
                       private, announced, sent, stopper>>
        /\ sender' = "sending" /\ ready /\ used > 0
    BY <1>2 DEF SenderCopy, flagVars, session
  <2>3. Cap \in Nat /\ used \in 0 .. Cap /\ frame \in Nat \ {0} /\ taken \in Nat
        /\ heard \in Nat /\ dropped \in Nat /\ clipped \in Nat
    BY SizesAssumption, Numbers
  <2>4. PICK n \in 1 .. used : n = AtMost(used, frame)
    BY <2>2, <2>3 DEF AtMost
  <2>5. tail' \in Slots /\ used' \in 0 .. Cap /\ RingHoldsRecent'
    BY <2>1, <2>2, <2>4, CopyKeepsRing
  <2>6. chunk' \in Seq(Nat)
    <3>1. ASSUME NEW i \in 1 .. n PROVE ring[SlotOf(i)] \in Nat
      <4>1. i \in 1 .. used /\ tail \in Nat /\ Cap \in Nat \ {0}
        BY <2>3, <2>4, Numbers
      <4>2. SlotOf(i) \in Slots
        BY <4>1, <2>3 DEF SlotOf, Slots
      <4>3. QED
        BY <4>2 DEF TypeOK
    <3>2. chunk' = [i \in 1 .. n |-> ring[SlotOf(i)]] /\ n \in Nat
      BY <2>1, <2>3, <2>4
    <3>3. QED
      BY <3>1, <3>2
  <2>7. taken' \in Nat /\ taken' > 0
    BY <2>1, <2>3, <2>4
  <2>8. TypeOK'
    <3>1. BufferTypes'
      BY <2>2, <2>5, <2>6, <2>7, TypeHalves DEF BufferTypes
    <3>2. ThreadTypes'
      BY <2>2, TypeHalves DEF ThreadTypes
    <3>3. QED
      BY <3>1, <3>2 DEF TypeOK, BufferTypes, ThreadTypes
  <2>9. DropsAccounted'
    <3>1. heard = taken + used + dropped + clipped
      BY DEF DropsAccounted
    <3>2. used' = used - n /\ taken' = taken + n /\ n \in Nat
      BY <2>1, <2>3, <2>4
    <3>3. heard = (taken + n) + (used - n) + dropped + clipped
      BY <2>3, <3>1, <3>2
    <3>4. QED
      BY <2>2, <3>2, <3>3 DEF DropsAccounted
  <2>10. MetadataFirst'
    BY <2>2, <2>7 DEF MetadataFirst
  <2>11. QED
    BY <2>5, <2>8, <2>9, <2>10
<1>3. CASE SenderTop \/ SenderCheck \/ SenderBlock \/ SenderTimeout \/ SenderIdle \/ SenderFailed
  <2>1. /\ UNCHANGED <<ring, head, tail, used, dropped, heard, clipped, taken, chunk>>
        /\ UNCHANGED <<stop, link, events, private, announced, sent, stopper>>
    BY <1>3 DEF SenderTop, SenderCheck, SenderBlock, SenderTimeout, SenderIdle,
                SenderFailed, SenderUnchanged, ringVars, session
  <2>2. /\ sender' \in {"top", "check", "enter", "blocked", "woke", "failed", "exit"}
        /\ UNCHANGED connected /\ ready' \in BOOLEAN /\ (ready' => ready)
    <3>1. /\ sender' \in {"top", "check", "enter", "blocked", "woke", "failed", "exit"}
          /\ UNCHANGED connected
          /\ UNCHANGED ready \/ ready' = FALSE
      BY <1>3 DEF SenderTop, SenderCheck, SenderBlock, SenderTimeout, SenderIdle,
                  SenderFailed, SenderUnchanged, flagVars
    <3>2. ready \in BOOLEAN /\ connected \in BOOLEAN /\ stop \in BOOLEAN
      BY TypeHalves DEF ThreadTypes
    <3>3. QED
      BY <3>1, <3>2, FlagCleared
  <2>3. QED
    BY <2>1, <2>2, FlagsOnly
<1>4. CASE SenderSend
  <2>1. /\ UNCHANGED <<ring, head, tail, used, dropped, heard, clipped, taken, chunk>>
        /\ UNCHANGED <<stop, ready, link, events, private, announced, stopper>>
        /\ sender = "sending" /\ sender' \in {"top", "failed"}
    BY <1>4 DEF SenderSend, ringVars
  <2>2. /\ UNCHANGED sent \/ (sent' = TRUE /\ link = "up")
        /\ UNCHANGED connected \/ connected' = FALSE
    BY <1>4 DEF SenderSend
  <2>3. ThreadTypes'
    <3>1. connected' \in BOOLEAN /\ sent' \in BOOLEAN
      BY <2>2, TypeHalves DEF ThreadTypes
    <3>2. QED
      BY <2>1, <3>1, TypeHalves DEF ThreadTypes
  <2>4. MetadataFirst'
    BY <2>1, <2>2 DEF MetadataFirst
  <2>5. QED
    BY <2>1, <2>3, <2>4, RingUntouched, BuffersUntouched
       DEF TypeOK, BufferTypes, ThreadTypes
<1>5. CASE OpenConnected \/ OpenAnnounce \/ LinkDown
  <2>1. /\ UNCHANGED <<ring, head, tail, used, dropped, heard, clipped, taken, chunk>>
        /\ UNCHANGED <<ready, stop, sender, private, sent, stopper>>
    BY <1>5 DEF OpenConnected, OpenAnnounce, LinkDown, ringVars, flagVars, session
  <2>2. Announcement \in {"sent", "early", "late", "down"}
    BY DEF Announcement
  <2>3. ThreadTypes'
    <3>1. /\ UNCHANGED announced \/ announced' = Announcement
          /\ UNCHANGED connected \/ connected' = TRUE
          /\ UNCHANGED link \/ link' \in {"up", "down"}
          /\ UNCHANGED events \/ events' \in {"opened", "announced"}
      BY <1>5 DEF OpenConnected, OpenAnnounce, LinkDown, flagVars, session
    <3>2. /\ announced' \in {"no", "sent", "early", "late", "down"}
          /\ link' \in {"connecting", "up", "down"}
          /\ events' \in {"connecting", "opened", "announced", "open", "dropping", "closed"}
      BY <2>2, <3>1, TypeHalves DEF ThreadTypes
    <3>3. connected' \in BOOLEAN
      BY <3>1, TypeHalves DEF ThreadTypes
    <3>4. QED
      BY <2>1, <3>2, <3>3, TypeHalves DEF ThreadTypes
  <2>4. MetadataFirst'
    <3>1. CASE OpenConnected
      BY <2>1, <3>1 DEF MetadataFirst, OpenConnected, session
    <3>2. CASE LinkDown
      BY <2>1, <3>2 DEF MetadataFirst, LinkDown, session, flagVars
    <3>3. CASE OpenAnnounce
      <4>1. /\ announced = "no" /\ ~(taken > 0) /\ ~ready /\ ~sent /\ sender # "sending"
            /\ link # "connecting" /\ (stopper = "idle" => connected)
        BY <3>3 DEF OpenAnnounce, MetadataFirst
      <4>2. /\ announced' = Announcement /\ events' = "announced" /\ link' = link
        BY <3>3 DEF OpenAnnounce
      <4>3. link \in {"up", "down"}
        BY <4>1, TypeHalves DEF ThreadTypes
      <4>4. QED
        BY <2>1, <2>2, <4>1, <4>2, <4>3 DEF MetadataFirst, Announcement
    <3>4. QED
      BY <1>5, <3>1, <3>2, <3>3
  <2>5. QED
    BY <2>1, <2>3, <2>4, RingUntouched, BuffersUntouched
       DEF TypeOK, BufferTypes, ThreadTypes
<1>6. CASE FlushPendingAudio
  <2>1. /\ UNCHANGED <<ring, head, tail, used, dropped, heard, clipped, taken, chunk>>
        /\ UNCHANGED <<stop, connected, link, private, announced, sent, stopper>>
        /\ events = "announced" /\ ready' = TRUE /\ events' = "open"
        /\ sender' = Notified
    BY <1>6 DEF FlushPendingAudio, ringVars, session
  <2>2. ThreadTypes'
    BY <2>1, TypeHalves DEF ThreadTypes, Notified
  <2>3. MetadataFirst'
    BY <2>1 DEF MetadataFirst, Notified
  <2>4. QED
    BY <2>1, <2>2, <2>3, RingUntouched, BuffersUntouched
       DEF TypeOK, BufferTypes, ThreadTypes
<1>7. CASE DropConnected \/ DropReady
  <2>1. /\ UNCHANGED <<ring, head, tail, used, dropped, heard, clipped, taken, chunk>>
        /\ UNCHANGED <<sender, stop, link, private, announced, sent, stopper>>
    BY <1>7 DEF DropConnected, DropReady, ringVars, session
  <2>2. /\ events' \in {"dropping", "closed"}
        /\ connected' \in BOOLEAN /\ ready' \in BOOLEAN /\ (ready' => ready)
    <3>1. /\ events' \in {"dropping", "closed"}
          /\ UNCHANGED connected \/ connected' = FALSE
          /\ UNCHANGED ready \/ ready' = FALSE
      BY <1>7 DEF DropConnected, DropReady
    <3>2. ready \in BOOLEAN /\ connected \in BOOLEAN /\ stop \in BOOLEAN
      BY TypeHalves DEF ThreadTypes
    <3>3. QED
      BY <3>1, <3>2, FlagCleared
  <2>3. ThreadTypes'
    BY <2>1, <2>2, TypeHalves DEF ThreadTypes
  <2>4. MetadataFirst'
    BY <2>1, <2>2 DEF MetadataFirst
  <2>5. QED
    BY <2>1, <2>3, <2>4, RingUntouched, BuffersUntouched
       DEF TypeOK, BufferTypes, ThreadTypes
<1>8. CASE SetPrivate \/ HangUp \/ ClearPrivate
  <2>1. /\ UNCHANGED <<ring, head, tail, used, dropped, heard, clipped, taken, chunk>>
        /\ UNCHANGED <<sender, stop, connected, ready, link, events, announced, sent>>
        /\ private' \in BOOLEAN
        /\ (UNCHANGED stopper \/ stopper' \in {"hung_up", "private_cleared"})
        /\ (private' => stopper' \in {"idle", "hung_up"}) /\ (stopper' = "idle" => stopper = "idle")
    BY <1>8, TypeHalves DEF SetPrivate, HangUp, ClearPrivate, ringVars, flagVars, session, ThreadTypes
  <2>2. ThreadTypes'
    BY <2>1, TypeHalves DEF ThreadTypes
  <2>3. MetadataFirst'
    BY <2>1 DEF MetadataFirst
  <2>4. QED
    BY <2>1, <2>2, <2>3, RingUntouched, BuffersUntouched
       DEF TypeOK, BufferTypes, ThreadTypes
<1>9. CASE Stopper
  <2>1. /\ UNCHANGED <<ring, head, tail, used, dropped, heard, clipped, taken, chunk>>
        /\ UNCHANGED <<link, events, private, announced, sent>>
    BY <1>9 DEF Stopper, DisconnectFlags, StopSet, StopNotify, StopJoined,
                StopperUnchanged, ringVars, session
  <2>2. /\ sender' \in {sender, Notified} /\ stop' \in BOOLEAN
        /\ connected' \in BOOLEAN /\ ready' \in BOOLEAN /\ (ready' => ready)
        /\ stopper \notin {"idle", "hung_up"}
        /\ stopper' \in {"connected_cleared", "ready_cleared", "stop_set", "joining", "joined"}
    <3>1. /\ UNCHANGED sender \/ sender' = Notified
          /\ UNCHANGED stop \/ stop' = TRUE
          /\ UNCHANGED connected \/ connected' = FALSE
          /\ UNCHANGED ready \/ ready' = FALSE
          /\ stopper \notin {"idle", "hung_up"}
          /\ stopper' \in {"connected_cleared", "ready_cleared", "stop_set", "joining", "joined"}
      BY <1>9 DEF Stopper, DisconnectFlags, StopSet, StopNotify, StopJoined, flagVars
    <3>2. ready \in BOOLEAN /\ connected \in BOOLEAN /\ stop \in BOOLEAN
      BY TypeHalves DEF ThreadTypes
    <3>3. QED
      BY <3>1, <3>2, FlagCleared
  <2>3. ThreadTypes'
    BY <2>1, <2>2, TypeHalves DEF ThreadTypes, Notified
  <2>4. MetadataFirst'
    BY <2>1, <2>2 DEF MetadataFirst, Notified
  <2>5. QED
    BY <2>1, <2>3, <2>4, RingUntouched, BuffersUntouched
       DEF TypeOK, BufferTypes, ThreadTypes
<1>10. CASE UNCHANGED vars
  <2>1. /\ UNCHANGED <<ring, head, tail, used, dropped, heard, clipped, taken, chunk>>
        /\ UNCHANGED <<sender, connected, ready, stop, link, events, private, announced, sent, stopper>>
    BY <1>10 DEF vars
  <2>2. /\ sender' \in {"top", "check", "enter", "blocked", "woke", "sending", "failed", "exit"}
        /\ connected' \in BOOLEAN /\ ready' \in BOOLEAN /\ (ready' => ready)
    BY <2>1, TypeHalves DEF ThreadTypes
  <2>3. QED
    BY <2>1, <2>2, FlagsOnly
<1>11. QED
  BY <1>1, <1>2, <1>3, <1>5, <1>6, <1>7, <1>9, <1>10, <1>4, <1>8 DEF Next, Sender, Events

\* The invariant holds in every state of every behaviour.
LEMMA Invariant == Spec => []IInv
<1>1. Init => IInv
  BY InitInvariant
<1>2. IInv /\ [Next]_vars => IInv'
  BY NextInvariant
<1>3. QED
  BY <1>1, <1>2, PTL DEF Spec

-----------------------------------------------------------------------------
(* The theorems.                                                           *)

\* The indices of m_send_ring never leave it, m_send_used never exceeds it.
THEOREM TypeCorrect == Spec => []TypeOK
<1>1. IInv => TypeOK
  BY DEF IInv
<1>2. QED
  BY <1>1, Invariant, PTL

\* The ring holds the most recent units, in order and without a hole but the one a write
\* longer than the ring may leave, for every ring size, write size and backlog limit.
THEOREM RingCorrect == Spec => []RingHoldsRecent
<1>1. IInv => RingHoldsRecent
  BY DEF IInv
<1>2. QED
  BY <1>1, Invariant, PTL

\* Every unit that is handed in is copied out, waits, or was counted in m_dropped_bytes; all but
\* what is cut off a write that is longer than the ring, which the code counts nowhere.
THEOREM AccountCorrect == Spec => []DropsAccounted
<1>1. IInv => DropsAccounted
  BY DEF IInv
<1>2. QED
  BY <1>1, Invariant, PTL

\* No audio goes out before the open callback has dealt with the metadata, nor without the
\* metadata, unless the answer came before the private was stored or after it was cleared.
THEOREM MetadataBeforeAudio == Spec => []AudioAfterMetadata
<1>1. IInv => AudioAfterMetadata
  BY DEF IInv, TypeOK, MetadataFirst, AudioAfterMetadata
<1>2. QED
  BY <1>1, Invariant, PTL

-----------------------------------------------------------------------------
(* What a write gives up.                                                  *)

\* The overflow loop stops at the room the write needs, the trim at the backlog limit.
LEMMA DropIsBounded ==
    ASSUME NEW u \in 0 .. Cap, NEW n \in 1 .. Cap - 1, NEW limit \in Nat \ {0}, u = used,
           AtMost(AfterOverflow(n) + n, limit) # used + n
    PROVE  AtMost(AfterOverflow(n) + n, limit)
               >= AtMost(limit, Cap + 1 - AtLeast(n, MinDrop))
<1>1. Cap \in Nat /\ MinDrop \in Nat /\ n \in Nat /\ u \in Nat
  BY SizesAssumption
<1>2. AfterOverflow(n) = IF u + n > Cap /\ u > 0 THEN u - AtMost(u, AtLeast(n, MinDrop)) ELSE u
  BY DEF AfterOverflow
<1>3. QED
  BY <1>1, <1>2 DEF AtMost, AtLeast

LEMMA WriteDrops ==
    ASSUME TypeOK, NEW len \in Writes, WriteBinary(len), dropped' # dropped
    PROVE  used' >= AtMost(IF ready THEN PostLimit ELSE PreLimit,
                           Cap + 1 - AtLeast(Clipped(heard' - heard), MinDrop))
<1>1. /\ Cap \in Nat /\ used \in 0 .. Cap /\ heard \in Nat /\ dropped \in Nat /\ len \in Nat
      /\ Clipped(len) \in 1 .. Cap - 1
  BY SizesAssumption, ClippedFits DEF TypeOK
<1>2. PICK n \in 1 .. Cap - 1 : n = Clipped(len)
  BY <1>1
<1> DEFINE room == AfterOverflow(n)
           full == room + n
           left == AtMost(full, Limit)
<1>3. /\ used' = left /\ heard' = heard + len
      /\ dropped' = dropped + Lost(room, full, left)
  BY <1>2 DEF WriteBinary
<1>4. heard' - heard = len
  BY <1>1, <1>3
<1>5. Limit \in Nat \ {0} /\ Limit = IF ready THEN PostLimit ELSE PreLimit
  BY SizesAssumption DEF Limit
<1>6. room \in Nat
  BY <1>1, MakeRoomIsEnough
<1> HIDE DEF room
<1>7. left # used + n
  <2>1. SUFFICES ASSUME left = used + n PROVE FALSE
    OBVIOUS
  <2>2. Lost(room, full, left) = 0
    BY <1>1, <1>6, <2>1 DEF Lost
  <2>3. QED
    BY <1>1, <1>3, <2>2
<1>8. left >= AtMost(Limit, Cap + 1 - AtLeast(n, MinDrop))
  BY <1>1, <1>5, <1>7, DropIsBounded DEF room
<1>9. QED
  BY <1>2, <1>3, <1>4, <1>5, <1>8

\* Only a write gives audio up, and only what the backlog limit or the room for the write
\* asks for: no trim takes what an overflow has just made fit (enqueuePcm).
THEOREM DropsBounded == Spec => OnlyBacklogDropped
<1> DEFINE Bounded ==
      dropped' # dropped =>
          LET fits == Cap + 1 - AtLeast(Clipped(heard' - heard), MinDrop)
          IN  used' >= AtMost(IF ready THEN PostLimit ELSE PreLimit, fits)
<1>1. TypeOK /\ [Next]_vars => [Bounded]_vars
  <2>1. SUFFICES ASSUME TypeOK, Next, dropped' # dropped
                 PROVE  used' >= AtMost(IF ready THEN PostLimit ELSE PreLimit,
                                        Cap + 1 - AtLeast(Clipped(heard' - heard), MinDrop))
    OBVIOUS
  <2>2. \E len \in Writes : WriteBinary(len)
    <3>1. Sender \/ Events \/ LinkDown \/ SetPrivate \/ HangUp \/ ClearPrivate \/ Stopper
             => dropped' = dropped
      BY DEF Sender, SenderTop, SenderCheck, SenderBlock, SenderTimeout, SenderIdle, SenderCopy,
             SenderSend, SenderFailed, SenderUnchanged, Events, OpenConnected, OpenAnnounce,
             FlushPendingAudio, DropConnected, DropReady, LinkDown, Stopper, DisconnectFlags,
             StopSet, StopNotify, StopJoined, StopperUnchanged, SetPrivate, HangUp, ClearPrivate,
             ringVars
    <3>2. QED
      BY <2>1, <3>1 DEF Next
  <2>3. QED
    BY <2>1, <2>2, WriteDrops
<1>2. QED
  BY <1>1, TypeCorrect, PTL DEF Spec, OnlyBacklogDropped

-----------------------------------------------------------------------------
(* Refinement: the ring is a queue of the most recent units.               *)

\* What is read from the tail is a sequence as long as what is used.
LEMMA ReadFromTail ==
    ASSUME NEW r \in [Slots -> Nat], NEW t \in Slots, NEW u \in 0 .. Cap
    PROVE  /\ [i \in 1 .. u |-> r[(t + i - 1) % Cap]] \in Seq(Nat)
           /\ Len([i \in 1 .. u |-> r[(t + i - 1) % Cap]]) = u
<1>1. Cap \in Nat \ {0} /\ t \in 0 .. Cap - 1 /\ u \in Nat
  BY SizesAssumption DEF Slots
<1>2. ASSUME NEW i \in 1 .. u PROVE r[(t + i - 1) % Cap] \in Nat
  BY <1>1 DEF Slots
<1>3. QED
  BY <1>1, <1>2

LEMMA ContentTypes ==
    ASSUME TypeOK PROVE Content \in Seq(Nat) /\ Len(Content) = used
  BY ReadFromTail DEF TypeOK, Content, SlotOf

LEMMA NextContentTypes ==
    ASSUME TypeOK' PROVE Content' \in Seq(Nat) /\ Len(Content') = used'
<1>1. Content' = [i \in 1 .. used' |-> ring'[(tail' + i - 1) % Cap]]
  BY DEF Content, SlotOf
<1>2. ring' \in [Slots -> Nat] /\ tail' \in Slots /\ used' \in 0 .. Cap
  BY DEF TypeOK
<1>3. QED
  BY <1>1, <1>2, ReadFromTail

\* What the ring holds, read from the tail: numbers that increase, none of them to come yet.
LEMMA ContentIncreases ==
    ASSUME TypeOK, RingHoldsRecent
    PROVE  /\ Content \in Seq(Nat) /\ Len(Content) = used
           /\ \A i \in 1 .. used : Content[i] \in Nat /\ Content[i] <= heard
           /\ \A i, j \in 1 .. used : i < j => Content[i] < Content[j]
<1>1. Cap \in Nat \ {0} /\ tail \in 0 .. Cap - 1 /\ used \in 0 .. Cap /\ heard \in Nat
  BY Numbers
<1>2. ASSUME NEW i \in 1 .. used PROVE Content[i] \in Nat
  <2>1. SlotOf(i) \in Slots
    BY <1>1 DEF SlotOf, Slots
  <2>2. QED
    BY <2>1 DEF Content, TypeOK
<1>3. ASSUME NEW i \in 1 .. used
      PROVE  Content[i] = heard - used + i \/ (i = 1 /\ Content[i] <= heard - used)
  BY DEF RingHoldsRecent, Content
<1>4. Content \in Seq(Nat) /\ Len(Content) = used
  BY ContentTypes
<1>5. ASSUME NEW i \in 1 .. used PROVE Content[i] <= heard
  BY <1>1, <1>2, <1>3
<1>6. ASSUME NEW i \in 1 .. used, NEW j \in 1 .. used, i < j PROVE Content[i] < Content[j]
  <2>1. Content[j] = heard - used + j
    BY <1>1, <1>3, <1>6
  <2>2. Content[i] \in Nat /\ Content[i] <= heard - used + i
    BY <1>1, <1>2, <1>3
  <2>3. QED
    BY <1>1, <1>6, <2>1, <2>2
<1>7. QED
  BY <1>2, <1>4, <1>5, <1>6

LEMMA InitQueue == Init => Queue!Init
  BY SizesAssumption DEF Init, Queue!Init, Content

\* The last k of a sequence, and a sequence in two parts.
LEMMA LastOf ==
    ASSUME NEW c \in Seq(Nat), NEW k \in 0 .. Len(c)
    PROVE  /\ SubSeq(c, Len(c) - k + 1, Len(c)) \in Seq(Int)
           /\ Len(SubSeq(c, Len(c) - k + 1, Len(c))) = k
           /\ \A i \in 1 .. k : SubSeq(c, Len(c) - k + 1, Len(c))[i] = c[Len(c) - k + i]
  OBVIOUS

LEMMA RecentIs ==
    ASSUME NEW h \in Nat, NEW k \in Nat
    PROVE  /\ Queue!Recent(h, k) \in Seq(Int) /\ Len(Queue!Recent(h, k)) = k
           /\ \A i \in 1 .. k : Queue!Recent(h, k)[i] = h - k + i
<1>1. Queue!Recent(h, k) = [i \in 1 .. k |-> h - k + i]
  BY DEF Queue!Recent
<1>2. QED
  BY <1>1

LEMMA SameSequence ==
    ASSUME NEW a \in Seq(Int), NEW b \in Seq(Int), Len(a) = Len(b),
           \A i \in 1 .. Len(a) : a[i] = b[i]
    PROVE  a = b
  BY SeqEqual

LEMMA Halves ==
    ASSUME NEW k \in Nat, NEW n \in Nat, NEW i \in 1 .. k + n
    PROVE  i \in 1 .. k \/ i \in k + 1 .. k + n
  OBVIOUS

LEMMA AmongTheLast ==
    ASSUME NEW u \in Nat, NEW k \in 0 .. u, NEW i \in 1 .. k PROVE u - k + i \in 1 .. u
  OBVIOUS

LEMMA AfterHeard ==
    ASSUME NEW h \in Nat, NEW h2 \in Nat, NEW n \in 0 .. h2 - h, NEW k \in 1 .. n,
           NEW b \in Nat, b <= h, NEW y, y = h2 - n + k
    PROVE  b < y
  OBVIOUS

LEMMA Joined ==
    ASSUME NEW a \in Seq(Int), NEW b \in Seq(Int)
    PROVE  /\ a \o b \in Seq(Int) /\ Len(a \o b) = Len(a) + Len(b)
           /\ \A i \in 1 .. Len(a) : (a \o b)[i] = a[i]
           /\ \A i \in Len(a) + 1 .. Len(a) + Len(b) :
                 (a \o b)[i] = b[i - Len(a)] /\ i - Len(a) \in 1 .. Len(b)
  BY ConcatProperties

LEMMA TwoParts ==
    ASSUME NEW c \in Seq(Nat), NEW c2 \in Seq(Nat), NEW h \in Nat, NEW new \in Nat,
           NEW kept \in 0 .. Len(c), new <= h, Len(c2) = kept + new,
           \A i \in 1 .. kept : c2[i] = c[Len(c) - kept + i],
           \A i \in kept + 1 .. Len(c2) : c2[i] = h - Len(c2) + i
    PROVE  c2 = SubSeq(c, Len(c) - kept + 1, Len(c)) \o Queue!Recent(h, new)
<1> DEFINE old == SubSeq(c, Len(c) - kept + 1, Len(c))
           rec == Queue!Recent(h, new)
<1>1. /\ old \in Seq(Int) /\ Len(old) = kept
      /\ \A i \in 1 .. kept : old[i] = c[Len(c) - kept + i]
  BY LastOf
<1>2. /\ rec \in Seq(Int) /\ Len(rec) = new
      /\ \A i \in 1 .. new : rec[i] = h - new + i
  BY RecentIs
<1>3. kept \in Nat
  OBVIOUS
<1> HIDE DEF old, rec
<1>4. /\ (old \o rec) \in Seq(Int) /\ Len(old \o rec) = kept + new
      /\ \A i \in 1 .. kept : (old \o rec)[i] = old[i]
      /\ \A i \in kept + 1 .. kept + new :
            (old \o rec)[i] = rec[i - kept] /\ i - kept \in 1 .. new
  BY <1>1, <1>2, Joined
<1>5. ASSUME NEW i \in 1 .. kept + new PROVE c2[i] = (old \o rec)[i]
  <2>1. CASE i \in 1 .. kept
    <3>1. (old \o rec)[i] = old[i] /\ i \in 1 .. kept
      BY <1>4, <2>1
    <3>2. QED
      BY <1>1, <3>1
  <2>2. CASE i \in kept + 1 .. kept + new
    <3>1. (old \o rec)[i] = rec[i - kept] /\ i - kept \in 1 .. new
      BY <1>4, <2>2
    <3>2. rec[i - kept] = h - new + (i - kept)
      BY <1>2, <3>1
    <3>3. i \in kept + 1 .. Len(c2)
      BY <1>3, <2>2
    <3>4. c2[i] = h - Len(c2) + i
      BY <3>3
    <3>5. QED
      BY <1>3, <3>1, <3>2, <3>4
  <2>3. QED
    BY <1>3, <2>1, <2>2, Halves
<1>6. c2 = old \o rec
  <2>1. c2 \in Seq(Int) /\ Len(c2) = kept + new
    OBVIOUS
  <2>2. \A i \in 1 .. Len(c2) : c2[i] = (old \o rec)[i]
    BY <1>5, <2>1
  <2>3. QED
    BY <1>4, <2>1, <2>2, SameSequence
<1>7. QED
  BY <1>6 DEF old, rec

LEMMA WriteAccepted ==
    ASSUME IInv, IInv', NEW len \in Writes, WriteBinary(len)
    PROVE  Queue!Accept
<1>1. /\ Content \in Seq(Nat) /\ Len(Content) = used
      /\ Content' \in Seq(Nat) /\ Len(Content') = used'
  BY ContentTypes, NextContentTypes DEF IInv
<1>2. PICK new \in 0 .. Clipped(len), kept \in 0 .. used :
          /\ new + kept = used' /\ (kept > 0 => new = Clipped(len))
          /\ \A i \in 1 .. kept : Content'[i] = Content[used - kept + i]
          /\ \A i \in kept + 1 .. used' : Content'[i] = heard' - used' + i
  BY WriteKeepsRing DEF IInv
<1>3. heard' = heard + len /\ used' \in 0 .. Cap
  BY WriteKeepsRing DEF IInv
<1>4. /\ Clipped(len) \in 1 .. Cap - 1 /\ len - Clipped(len) \in Nat /\ len \in Nat \ {0}
      /\ len - Clipped(len) > 0 => Clipped(len) = Cap - 1
  BY ClippedFits
<1>5. Cap \in Nat \ {0} /\ heard \in Nat /\ used \in 0 .. Cap
  BY Numbers DEF IInv
<1>6. heard' \in Nat /\ heard' > heard /\ new \in 0 .. heard' - heard /\ new <= heard'
  BY <1>2, <1>3, <1>4, <1>5
<1>7. kept + new <= Cap /\ kept \in 0 .. Len(Content) /\ new \in Nat
  BY <1>1, <1>2, <1>3, <1>4, <1>5
<1>8. kept = 0 \/ new = heard' - heard \/ (kept = 1 /\ new = Cap - 1)
  BY <1>2, <1>3, <1>4, <1>5
<1>9. Content' = SubSeq(Content, Len(Content) - kept + 1, Len(Content)) \o Queue!Recent(heard', new)
  <2>1. Len(Content') = kept + new
    BY <1>1, <1>2, <1>7
  <2>2. \A i \in 1 .. kept : Content'[i] = Content[Len(Content) - kept + i]
    BY <1>1, <1>2
  <2>3. \A i \in kept + 1 .. Len(Content') : Content'[i] = heard' - Len(Content') + i
    BY <1>1, <1>2
  <2>4. QED
    BY <1>1, <1>6, <1>7, <2>1, <2>2, <2>3, TwoParts
<1>10. UNCHANGED chunk
  BY DEF WriteBinary
<1>11. QED
  BY <1>6, <1>7, <1>8, <1>9, <1>10 DEF Queue!Accept

LEMMA StepQueue == IInv /\ IInv' /\ [Next]_vars => [Queue!Next]_(Queue!queueVars)
<1> SUFFICES ASSUME IInv, IInv', [Next]_vars PROVE [Queue!Next]_(Queue!queueVars)
  OBVIOUS
<1>1. /\ Content \in Seq(Nat) /\ Len(Content) = used
      /\ Content' \in Seq(Nat) /\ Len(Content') = used'
      /\ used \in 0 .. Cap /\ Cap \in Nat
  BY ContentTypes, NextContentTypes, Numbers DEF IInv
<1>2. ASSUME NEW len \in Writes, WriteBinary(len) PROVE Queue!Accept
  BY <1>2, WriteAccepted
<1>3. CASE SenderCopy
  <2>1. PICK n \in 1 .. used : /\ chunk' = [i \in 1 .. n |-> ring[SlotOf(i)]]
                               /\ used' = used - n /\ tail' = (tail + n) % Cap
    <3>1. PICK frame \in Frames : /\ chunk' = [i \in 1 .. AtMost(used, frame) |-> ring[SlotOf(i)]]
                                  /\ used' = used - AtMost(used, frame)
                                  /\ tail' = (tail + AtMost(used, frame)) % Cap
                                  /\ used > 0
      BY <1>3 DEF SenderCopy
    <3>2. frame \in Nat \ {0}
      BY SizesAssumption
    <3>3. AtMost(used, frame) \in 1 .. used
      BY <1>1, <3>1, <3>2 DEF AtMost
    <3>4. QED
      BY <3>1, <3>3
  <2>2. UNCHANGED <<ring, head, heard, clipped>>
    BY <1>3 DEF SenderCopy
  <2>3. chunk' = SubSeq(Content, 1, n)
    <3>1. SubSeq(Content, 1, n) = [i \in 1 .. n |-> Content[i]]
      BY <1>1
    <3>2. \A i \in 1 .. n : Content[i] = ring[SlotOf(i)]
      BY <1>1 DEF Content
    <3>3. QED
      BY <2>1, <3>1, <3>2
  <2>4. \A i \in 1 .. used - n : Content'[i] = Content[n + i]
    BY <2>1, <2>2, CopyKeepsRing DEF IInv
  <2>5. Content' = SubSeq(Content, n + 1, used)
    <3>1. SubSeq(Content, n + 1, used) \in Seq(Nat)
      BY <1>1
    <3>2. /\ Len(SubSeq(Content, n + 1, used)) = used - n
          /\ \A i \in 1 .. used - n : SubSeq(Content, n + 1, used)[i] = Content[n + i]
      BY <1>1
    <3>3. QED
      BY <1>1, <2>1, <2>4, <3>1, <3>2
  <2>6. QED
    BY <1>1, <2>2, <2>3, <2>5 DEF Queue!Next, Queue!Take
<1>4. ASSUME UNCHANGED <<ring, tail, used, heard, chunk>>
      PROVE  UNCHANGED Queue!queueVars
  BY <1>4 DEF Queue!queueVars, Content, SlotOf
<1>5. CASE SenderTop \/ SenderCheck \/ SenderBlock \/ SenderTimeout \/ SenderIdle
           \/ SenderSend \/ SenderFailed
  <2>1. UNCHANGED <<ring, tail, used, heard, chunk>>
    BY <1>5 DEF SenderTop, SenderCheck, SenderBlock, SenderTimeout, SenderIdle,
                SenderSend, SenderFailed, SenderUnchanged, ringVars
  <2>2. QED
    BY <2>1, <1>4
<1>6. CASE Events \/ LinkDown \/ SetPrivate \/ HangUp \/ ClearPrivate
  <2>1. UNCHANGED <<ring, tail, used, heard, chunk>>
    BY <1>6 DEF Events, OpenConnected, OpenAnnounce, FlushPendingAudio, DropConnected,
                DropReady, LinkDown, SetPrivate, HangUp, ClearPrivate, ringVars
  <2>2. QED
    BY <2>1, <1>4
<1>7. CASE Stopper
  <2>1. UNCHANGED <<ring, tail, used, heard, chunk>>
    BY <1>7 DEF Stopper, DisconnectFlags, StopSet, StopNotify, StopJoined,
                StopperUnchanged, ringVars
  <2>2. QED
    BY <2>1, <1>4
<1>8. CASE UNCHANGED vars
  BY <1>8, <1>4 DEF vars
<1>9. QED
  BY <1>2, <1>3, <1>5, <1>6, <1>7, <1>8 DEF Next, Sender, Queue!Next

\* The ring with its lock and threads implements PcmQueue: what the sender
\* takes is always the oldest of the most recent units.
THEOREM QueueImplemented == Spec => ImplementsQueue
<1>1. Init => Queue!Init
  BY InitQueue
<1>2. IInv /\ IInv' /\ [Next]_vars => [Queue!Next]_(Queue!queueVars)
  BY StepQueue
<1>3. QED
  BY <1>1, <1>2, Invariant, PTL DEF Spec, ImplementsQueue, Queue!Spec

-----------------------------------------------------------------------------
(* What a queue of the most recent units gives whoever reads its batches.  *)

\* The batch that was taken last is older than everything that waits, and than what comes.
BatchIsOlder ==
    chunk # <<>> => /\ chunk[Len(chunk)] <= heard
                    /\ \A i \in 1 .. used : chunk[Len(chunk)] < Content[i]

\* What stays below all that waits, and below what comes, stays below the queue that is left.
LEMMA StaysBelow ==
    ASSUME NEW c \in Seq(Nat), NEW k \in 0 .. Len(c), NEW h \in Nat, NEW h2 \in Nat,
           NEW n \in 0 .. h2 - h, NEW b \in Nat, b <= h, \A i \in 1 .. Len(c) : b < c[i]
    PROVE  LET c2 == SubSeq(c, Len(c) - k + 1, Len(c)) \o Queue!Recent(h2, n)
           IN  Len(c2) = k + n /\ \A i \in 1 .. k + n : b < c2[i]
<1> DEFINE old == SubSeq(c, Len(c) - k + 1, Len(c))
           rec == Queue!Recent(h2, n)
           c2  == old \o rec
<1>1. k \in Nat /\ n \in Nat
  OBVIOUS
<1>2. /\ old \in Seq(Int) /\ Len(old) = k
      /\ \A i \in 1 .. k : old[i] = c[Len(c) - k + i]
  BY LastOf
<1>3. /\ rec \in Seq(Int) /\ Len(rec) = n
      /\ \A i \in 1 .. n : rec[i] = h2 - n + i
  BY <1>1, RecentIs
<1>4. c2 = old \o rec
  OBVIOUS
<1> HIDE DEF old, rec, c2
<1>5. /\ Len(c2) = k + n
      /\ \A i \in 1 .. k : c2[i] = old[i]
      /\ \A i \in k + 1 .. k + n : c2[i] = rec[i - k] /\ i - k \in 1 .. n
  <2>1. /\ Len(old \o rec) = k + n
        /\ \A i \in 1 .. k : (old \o rec)[i] = old[i]
        /\ \A i \in k + 1 .. k + n : (old \o rec)[i] = rec[i - k] /\ i - k \in 1 .. n
    BY <1>2, <1>3, Joined
  <2>2. QED
    BY <1>4, <2>1
<1>6. ASSUME NEW i \in 1 .. k + n PROVE b < c2[i]
  <2>1. CASE i \in 1 .. k
    <3>1. c2[i] = c[Len(c) - k + i]
      BY <1>2, <1>5, <2>1
    <3>2. Len(c) - k + i \in 1 .. Len(c)
      BY <2>1, AmongTheLast
    <3>3. QED
      BY <3>1, <3>2
  <2>2. CASE i \in k + 1 .. k + n
    <3>1. c2[i] = rec[i - k] /\ i - k \in 1 .. n
      BY <1>5, <2>2
    <3>2. c2[i] = h2 - n + (i - k)
      BY <1>3, <3>1
    <3>3. QED
      BY <3>1, <3>2, AfterHeard
  <2>3. QED
    BY <1>1, <2>1, <2>2, Halves
<1>7. QED
  BY <1>5, <1>6 DEF old, rec, c2

\* What the queue accepts is older than the batch only if it waited before.
LEMMA AcceptKeepsOrder ==
    ASSUME IInv, IInv', Queue!Accept, BatchIsOlder
    PROVE  BatchIsOlder'
<1>1. /\ Content \in Seq(Nat) /\ Len(Content) = used
      /\ Content' \in Seq(Nat) /\ Len(Content') = used'
      /\ used \in Nat /\ heard \in Nat /\ chunk \in Seq(Nat)
  <2>1. chunk \in Seq(Nat)
    BY DEF IInv, TypeOK
  <2>2. QED
    BY <2>1, ContentTypes, NextContentTypes, Numbers DEF IInv
<1>2. PICK kept \in 0 .. Len(Content), new \in 0 .. heard' - heard :
          Content' = SubSeq(Content, Len(Content) - kept + 1, Len(Content))
                        \o Queue!Recent(heard', new)
  BY DEF Queue!Accept
<1>3. heard' \in Nat /\ heard' > heard /\ chunk' = chunk
  BY DEF Queue!Accept
<1>4. SUFFICES ASSUME chunk # <<>>
               PROVE  /\ chunk[Len(chunk)] <= heard'
                      /\ \A i \in 1 .. used' : chunk[Len(chunk)] < Content'[i]
  BY <1>3 DEF BatchIsOlder
<1>5. PICK b \in Nat : b = chunk[Len(chunk)]
  BY <1>1, <1>4
<1>6. b <= heard /\ \A i \in 1 .. Len(Content) : b < Content[i]
  BY <1>1, <1>4, <1>5 DEF BatchIsOlder
<1>7. Len(Content') = kept + new /\ \A i \in 1 .. kept + new : b < Content'[i]
  <2>1. kept \in 0 .. Len(Content) /\ new \in 0 .. heard' - heard
    BY <1>2
  <2>2. LET c2 == SubSeq(Content, Len(Content) - kept + 1, Len(Content))
                     \o Queue!Recent(heard', new)
        IN  Len(c2) = kept + new /\ \A i \in 1 .. kept + new : b < c2[i]
    <3>1. Content \in Seq(Nat) /\ heard \in Nat /\ heard' \in Nat /\ b \in Nat
      BY <1>1, <1>3
    <3>2. QED
      BY <1>6, <2>1, <3>1, StaysBelow
  <2>3. QED
    BY <1>2, <2>2
<1>8. b <= heard'
  BY <1>1, <1>3, <1>6
<1>9. QED
  BY <1>1, <1>5, <1>7, <1>8

LEMMA QueueKeepsOrder ==
    ASSUME IInv, IInv', [Queue!Next]_(Queue!queueVars), BatchIsOlder
    PROVE  /\ BatchIsOlder'
           /\ chunk' # chunk =>
                 /\ \A i \in 1 .. Len(chunk') - 1 : chunk'[i] < chunk'[i + 1]
                 /\ chunk # <<>> => chunk'[1] > chunk[Len(chunk)]
<1>1. /\ Content \in Seq(Nat) /\ Len(Content) = used
      /\ Content' \in Seq(Nat) /\ Len(Content') = used'
      /\ used \in Nat /\ used' \in Nat /\ heard \in Nat /\ chunk \in Seq(Nat)
      /\ \A i \in 1 .. used : Content[i] \in Nat /\ Content[i] <= heard
      /\ \A i, j \in 1 .. used : i < j => Content[i] < Content[j]
  <2>1. chunk \in Seq(Nat)
    BY DEF IInv, TypeOK
  <2>2. used' \in Nat
    <3>1. used' \in 0 .. Cap /\ Cap \in Nat
      BY SizesAssumption DEF IInv, TypeOK
    <3>2. QED
      BY <3>1
  <2>3. QED
    BY <2>1, <2>2, ContentIncreases, NextContentTypes, Numbers DEF IInv
<1>2. CASE Queue!Accept
  <2>1. chunk' = chunk
    BY <1>2 DEF Queue!Accept
  <2>2. QED
    BY <1>2, <2>1, AcceptKeepsOrder
<1>3. ASSUME NEW n \in 1 .. Len(Content), Queue!Take(n)
      PROVE  /\ BatchIsOlder'
             /\ \A i \in 1 .. Len(chunk') - 1 : chunk'[i] < chunk'[i + 1]
             /\ chunk # <<>> => chunk'[1] > chunk[Len(chunk)]
  <2>1. n \in 1 .. used /\ n \in Nat
    BY <1>1
  <2>2. Len(chunk') = n /\ \A i \in 1 .. n : chunk'[i] = Content[i]
    <3>1. chunk' = SubSeq(Content, 1, n)
      BY <1>3 DEF Queue!Take
    <3>2. QED
      BY <1>1, <2>1, <3>1
  <2>3. /\ used' = used - n /\ heard' = heard
        /\ \A i \in 1 .. used' : Content'[i] = Content[n + i]
    <3>1. Content' = SubSeq(Content, n + 1, used) /\ heard' = heard
      BY <1>1, <1>3 DEF Queue!Take
    <3>2. /\ Len(SubSeq(Content, n + 1, used)) = used - n
          /\ \A i \in 1 .. used - n : SubSeq(Content, n + 1, used)[i] = Content[n + i]
      BY <1>1, <2>1
    <3>3. QED
      BY <1>1, <3>1, <3>2
  <2>4. BatchIsOlder'
    <3>1. chunk'[Len(chunk')] = Content[n]
      BY <2>1, <2>2
    <3>2. ASSUME NEW i \in 1 .. used' PROVE Content[n] < Content'[i]
      <4>1. n + i \in 1 .. used /\ n < n + i
        BY <1>1, <2>1, <2>3
      <4>2. QED
        BY <1>1, <2>1, <2>3, <4>1
    <3>3. QED
      BY <1>1, <2>1, <2>3, <3>1, <3>2 DEF BatchIsOlder
  <2>5. \A i \in 1 .. Len(chunk') - 1 : chunk'[i] < chunk'[i + 1]
    <3>1. ASSUME NEW i \in 1 .. n - 1 PROVE chunk'[i] < chunk'[i + 1]
      <4>1. i \in 1 .. n /\ i + 1 \in 1 .. n /\ i \in 1 .. used /\ i + 1 \in 1 .. used /\ i < i + 1
        BY <1>1, <2>1
      <4>2. QED
        BY <1>1, <2>2, <4>1
    <3>2. QED
      BY <2>2, <3>1
  <2>6. chunk # <<>> => chunk'[1] > chunk[Len(chunk)]
    <3>1. ASSUME chunk # <<>> PROVE chunk'[1] > chunk[Len(chunk)]
      <4>1. 1 \in 1 .. used /\ 1 \in 1 .. n
        BY <1>1, <2>1
      <4>2. chunk[Len(chunk)] < Content[1] /\ chunk'[1] = Content[1]
        BY <2>2, <3>1, <4>1 DEF BatchIsOlder
      <4>3. chunk[Len(chunk)] \in Nat /\ Content[1] \in Nat
        BY <1>1, <3>1, <4>1
      <4>4. QED
        BY <4>2, <4>3
    <3>2. QED
      BY <3>1
  <2>7. QED
    BY <2>4, <2>5, <2>6
<1>4. CASE UNCHANGED Queue!queueVars
  <2>1. Content' = Content /\ chunk' = chunk /\ heard' = heard
    BY <1>4 DEF Queue!queueVars
  <2>2. used' = used
    BY <1>1, <2>1
  <2>3. QED
    BY <2>1, <2>2 DEF BatchIsOlder
<1>5. QED
  BY <1>2, <1>3, <1>4 DEF Queue!Next

\* senderLoop() hands the audio to the websocket in capture order: no buffer repeats or
\* precedes audio that was sent, whatever was dropped in between.
THEOREM SentInOrder == Spec => InOrder
<1> DEFINE Ordered ==
      chunk' # chunk =>
        /\ \A i \in 1 .. Len(chunk') - 1 : chunk'[i] < chunk'[i + 1]
        /\ chunk # <<>> => chunk'[1] > chunk[Len(chunk)]
<1>1. Init => BatchIsOlder
  BY DEF Init, BatchIsOlder
<1>2. IInv /\ IInv' /\ [Next]_vars /\ BatchIsOlder => BatchIsOlder' /\ Ordered
  BY StepQueue, QueueKeepsOrder
<1>3. Ordered => [Ordered]_(Queue!queueVars)
  OBVIOUS
<1>4. QED
  BY <1>1, <1>2, <1>3, Invariant, PTL DEF Spec, InOrder, Queue!InOrder
=============================================================================
