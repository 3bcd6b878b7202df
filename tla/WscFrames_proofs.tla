---------------------------- MODULE WscFrames_proofs ---------------------------
(***************************************************************************)
(* Proofs about WscFrames, for every set of lengths, every width of size_t *)
(* and every limit of the short lengths: receive() finds in the stream,    *)
(* however it was cut, the frames that were written.                       *)
(*                                                                         *)
(* Total is a recursive function of the stream, so the first lemmas show   *)
(* that it exists and what it is.                                          *)
(***************************************************************************)
EXTENDS WscFrames, SequenceTheorems, WellFoundedInduction, TLAPS

-----------------------------------------------------------------------------
(* Induction over the numbers, without the operator of the library's.      *)

LEMMA SetInduction ==
    ASSUME NEW S \in SUBSET Nat, 0 \in S, \A n \in S : n + 1 \in S
    PROVE  S = Nat
<1> DEFINE R == OpToRel(<, Nat)
           T == Nat \ S
<1>1. SUFFICES ASSUME T # {} PROVE FALSE
  OBVIOUS
<1>2. IsWellFoundedOn(R, Nat)
  BY NatLessThanWellFounded
<1>3. \A x, y \in Nat : <<y, x>> \in R <=> y < x
  BY DEF OpToRel
<1> HIDE DEF R
<1>4. PICK x \in T : \A y \in T : ~ (<<y, x>> \in R)
  BY <1>1, <1>2, WFMin
<1>5. x # 0 /\ x - 1 \in Nat /\ x - 1 < x
  BY <1>4
<1>6. x - 1 \in S
  <2>1. <<x - 1, x>> \in R
    BY <1>3, <1>4, <1>5
  <2>2. QED
    BY <1>4, <1>5, <2>1
<1>7. (x - 1) + 1 \in S
  BY <1>6
<1>8. QED
  BY <1>4, <1>7

-----------------------------------------------------------------------------
(* The bytes of the first n frames.                                        *)

Sums(s) == CHOOSE f : f = [n \in Nat |-> IF n = 0 THEN 0 ELSE f[n - 1] + Size(s[n])]

IsSum(g, s, m) == g = [n \in 0 .. m |-> IF n = 0 THEN 0 ELSE g[n - 1] + Size(s[n])]

LEMMA TotalIsSum == Total = Sums(stream) /\ Total' = Sums(stream')
BY DEF Total, Sums

LEMMA SumsExist ==
    ASSUME NEW s
    PROVE  \A m \in Nat : \E g : IsSum(g, s, m)
<1> DEFINE S == {m \in Nat : \E g : IsSum(g, s, m)}
<1>1. 0 \in S
  <2>1. IsSum([n \in 0 .. 0 |-> 0], s, 0)
    BY DEF IsSum
  <2>2. QED
    BY <2>1
<1>2. ASSUME NEW m \in S PROVE m + 1 \in S
  <2>1. PICK g : IsSum(g, s, m)
    OBVIOUS
  <2> DEFINE next == g[m] + Size(s[m + 1])
             h == [n \in 0 .. m + 1 |-> IF n = m + 1 THEN next ELSE g[n]]
  <2>2. m \in Nat
    OBVIOUS
  <2>3. ASSUME NEW n \in 0 .. m + 1
        PROVE  h[n] = IF n = 0 THEN 0 ELSE h[n - 1] + Size(s[n])
    <3>1. CASE n = 0
      BY <2>1, <2>2, <3>1 DEF IsSum
    <3>2. CASE n = m + 1
      <4>1. n # 0 /\ n - 1 = m /\ m # m + 1 /\ m \in 0 .. m + 1
        BY <2>2, <3>2
      <4>2. h[n] = next /\ h[m] = g[m]
        BY <3>2, <4>1
      <4>3. QED
        BY <3>2, <4>1, <4>2
    <3>3. CASE n # 0 /\ n # m + 1
      <4>1. n \in 0 .. m /\ n - 1 \in 0 .. m + 1 /\ n - 1 # m + 1
        BY <2>2, <3>3
      <4>2. h[n] = g[n] /\ h[n - 1] = g[n - 1]
        BY <3>3, <4>1
      <4>3. g[n] = g[n - 1] + Size(s[n])
        BY <2>1, <3>3, <4>1 DEF IsSum
      <4>4. QED
        BY <3>3, <4>2, <4>3
    <3>4. QED
      BY <3>1, <3>2, <3>3
  <2>4. DOMAIN h = 0 .. m + 1 /\ h = [n \in 0 .. m + 1 |-> h[n]]
    OBVIOUS
  <2> HIDE DEF h
  <2>5. IsSum(h, s, m + 1)
    BY <2>3, <2>4 DEF IsSum
  <2>6. QED
    BY <2>2, <2>5
<1>3. S \in SUBSET Nat
  OBVIOUS
<1>4. S = Nat
  <2> HIDE DEF S
  <2> QED BY <1>1, <1>2, <1>3, SetInduction
<1>5. QED
  BY <1>4

\* Two sums agree as far as their frames do.
LEMMA SumsAgree ==
    ASSUME NEW s, NEW t, NEW g, NEW h, NEW m \in Nat, NEW k \in Nat,
           IsSum(g, s, m), IsSum(h, t, k), m <= k, \A i \in 1 .. m : s[i] = t[i]
    PROVE  \A n \in 0 .. m : g[n] = h[n]
<1> DEFINE S == {n \in Nat : n <= m => g[n] = h[n]}
<1>1. 0 \in S
  <2>1. 0 \in 0 .. m /\ 0 \in 0 .. k
    OBVIOUS
  <2>2. g[0] = 0 /\ h[0] = 0
    BY <2>1 DEF IsSum
  <2>3. QED
    BY <2>2
<1>2. ASSUME NEW n \in S PROVE n + 1 \in S
  <2>1. SUFFICES ASSUME n + 1 <= m PROVE g[n + 1] = h[n + 1]
    OBVIOUS
  <2>2. n \in Nat /\ n + 1 \in 0 .. m /\ n + 1 \in 0 .. k /\ n + 1 # 0 /\ (n + 1) - 1 = n
        /\ n + 1 \in 1 .. m /\ n <= m
    BY <2>1
  <2>3. g[n + 1] = g[n] + Size(s[n + 1])
    BY <2>2 DEF IsSum
  <2>4. h[n + 1] = h[n] + Size(t[n + 1])
    BY <2>2 DEF IsSum
  <2>5. g[n] = h[n] /\ s[n + 1] = t[n + 1]
    BY <2>2
  <2>6. QED
    BY <2>3, <2>4, <2>5
<1>3. S \in SUBSET Nat
  OBVIOUS
<1>4. S = Nat
  <2> HIDE DEF S
  <2> QED BY <1>1, <1>2, <1>3, SetInduction
<1>5. QED
  BY <1>4

LEMMA SumsAre ==
    ASSUME NEW s
    PROVE  Sums(s) = [n \in Nat |-> IF n = 0 THEN 0 ELSE Sums(s)[n - 1] + Size(s[n])]
<1> DEFINE c(m) == CHOOSE g : IsSum(g, s, m)
           f == [n \in Nat |-> c(n)[n]]
<1>1. \A m \in Nat : IsSum(c(m), s, m)
  BY SumsExist
<1> HIDE DEF c
<1>2. ASSUME NEW n \in Nat PROVE f[n] = IF n = 0 THEN 0 ELSE f[n - 1] + Size(s[n])
  <2>1. CASE n = 0
    <3>1. IsSum(c(0), s, 0) /\ 0 \in 0 .. 0
      BY <1>1
    <3>2. c(0)[0] = 0
      BY <3>1 DEF IsSum
    <3>3. QED
      BY <2>1, <3>2
  <2>2. CASE n # 0
    <3>1. n - 1 \in Nat /\ n \in 0 .. n /\ n - 1 \in 0 .. n - 1 /\ n - 1 <= n
      BY <2>2
    <3>2. IsSum(c(n), s, n) /\ IsSum(c(n - 1), s, n - 1)
      BY <1>1, <3>1
    <3>3. c(n)[n] = c(n)[n - 1] + Size(s[n])
      BY <2>2, <3>1, <3>2 DEF IsSum
    <3>4. c(n - 1)[n - 1] = c(n)[n - 1]
      BY <3>1, <3>2, SumsAgree
    <3>5. f[n] = c(n)[n] /\ f[n - 1] = c(n - 1)[n - 1]
      BY <3>1
    <3>6. QED
      BY <2>2, <3>3, <3>4, <3>5
  <2>3. QED
    BY <2>1, <2>2
<1>3. f = [n \in Nat |-> f[n]]
  OBVIOUS
<1> HIDE DEF f
<1>4. f = [n \in Nat |-> IF n = 0 THEN 0 ELSE f[n - 1] + Size(s[n])]
  BY <1>2, <1>3
<1>5. QED
  BY <1>4 DEF Sums

LEMMA SumStep ==
    ASSUME NEW s
    PROVE  Sums(s)[0] = 0 /\ \A n \in Nat : Sums(s)[n + 1] = Sums(s)[n] + Size(s[n + 1])
<1> DEFINE f == Sums(s)
<1>1. f = [n \in Nat |-> IF n = 0 THEN 0 ELSE f[n - 1] + Size(s[n])]
  BY SumsAre
<1> HIDE DEF f
<1>2. f[0] = 0
  BY <1>1
<1>3. ASSUME NEW n \in Nat PROVE f[n + 1] = f[n] + Size(s[n + 1])
  <2>1. n + 1 \in Nat /\ n + 1 # 0 /\ (n + 1) - 1 = n
    OBVIOUS
  <2>2. f[n + 1] = f[(n + 1) - 1] + Size(s[n + 1])
    BY <1>1, <2>1
  <2>3. QED
    BY <2>1, <2>2
<1>4. QED
  BY <1>2, <1>3 DEF f

LEMMA SumOfPrefix ==
    ASSUME NEW s, NEW t, NEW m \in Nat, \A i \in 1 .. m : s[i] = t[i]
    PROVE  \A n \in 0 .. m : Sums(s)[n] = Sums(t)[n]
<1> DEFINE S == {n \in Nat : n <= m => Sums(s)[n] = Sums(t)[n]}
<1>1. 0 \in S
  BY SumStep
<1>2. ASSUME NEW n \in S PROVE n + 1 \in S
  <2>1. SUFFICES ASSUME n + 1 <= m PROVE Sums(s)[n + 1] = Sums(t)[n + 1]
    OBVIOUS
  <2>2. n \in Nat /\ n + 1 \in 1 .. m /\ n <= m
    BY <2>1
  <2>3. Sums(s)[n + 1] = Sums(s)[n] + Size(s[n + 1])
    BY <2>2, SumStep
  <2>4. Sums(t)[n + 1] = Sums(t)[n] + Size(t[n + 1])
    BY <2>2, SumStep
  <2>5. Sums(s)[n] = Sums(t)[n] /\ s[n + 1] = t[n + 1]
    BY <2>2
  <2>6. QED
    BY <2>3, <2>4, <2>5
<1>3. S \in SUBSET Nat
  OBVIOUS
<1>4. S = Nat
  <2> HIDE DEF S
  <2> QED BY <1>1, <1>2, <1>3, SetInduction
<1>5. QED
  BY <1>4

-----------------------------------------------------------------------------
(* Frames.                                                                 *)

FrameTypes ==
    [b2 : 0 .. Mark64, ext : 0 .. SizeMod - 1, len : 0 .. SizeMod - 1,
     mask : BOOLEAN, rsv1 : BOOLEAN, deflated : BOOLEAN]

\* What send() and a peer write: the length can be read again, and the bit that says so is
\* set for a deflated payload.
Frames == {f \in FrameTypes : PayloadLen(f) = f.len /\ f.rsv1 = f.deflated}

LEMMA Limits ==
    /\ Max7 \in Nat /\ Max16 \in Nat /\ SizeMod \in Nat /\ MaxFrames \in Nat
    /\ Mark16 = Max7 + 1 /\ Mark64 = Max7 + 2 /\ Max7 + 2 <= Max16
    /\ SizeMod \div 2 \in Nat /\ Max16 + 14 < SizeMod \div 2 /\ 2 * (SizeMod \div 2) <= SizeMod
    /\ \A len \in Lens : len \in 0 .. SizeMod - 1
BY FramesAssumption DEF Mark16, Mark64

LEMMA HeaderLength ==
    ASSUME NEW f \in Frames
    PROVE  HeaderLen(f) \in 2 .. 14 /\ f.len \in Nat /\ Size(f) = HeaderLen(f) + f.len
BY Limits DEF Frames, FrameTypes, HeaderLen, Extended, Size

LEMMA FrameIsOne ==
    ASSUME NEW b2 \in 0 .. Mark64, NEW mask \in BOOLEAN, NEW len \in 0 .. SizeMod - 1,
           NEW r \in BOOLEAN,
           b2 = Mark16 => len <= Max16, b2 # Mark16 /\ b2 # Mark64 => b2 = len
    PROVE  Frame(b2, mask, len, r, r) \in Frames
<1> DEFINE e == IF b2 = Mark16 THEN len % (Max16 + 1) ELSE len
           f == Frame(b2, mask, len, r, r)
<1>1. b2 # Mark16 => e = len
  OBVIOUS
<1>2. b2 = Mark16 => e = len
  <2>1. ASSUME len <= Max16 PROVE len % (Max16 + 1) = len
    BY <2>1, Limits
  <2>2. QED
    BY <2>1
<1>3. e = len
  BY <1>1, <1>2
<1>4. f = [b2 |-> b2, ext |-> len, mask |-> mask, len |-> len, rsv1 |-> r, deflated |-> r]
  BY <1>3 DEF Frame
<1> HIDE DEF f, e
<1>5. f \in FrameTypes
  BY <1>4 DEF FrameTypes
<1>6. PayloadLen(f) = len
  BY <1>4, Limits DEF PayloadLen, Extended
<1>7. f \in Frames
  BY <1>4, <1>5, <1>6 DEF Frames
<1>8. QED
  BY <1>7 DEF f

-----------------------------------------------------------------------------
(* The inductive invariant.                                                *)

\* Only the last frame can be illegal: receive() fails at it.
Written ==
    /\ stream \in Seq(Frames)
    /\ \A i \in 1 .. Len(stream) - 1 : ~Illegal(stream[i])

Payloads == [len : 0 .. SizeMod - 1, inflate : BOOLEAN]

Handled ==
    /\ handled \in Seq(Payloads)
    /\ undefined => Len(handled) < Len(stream)

IInv == Written /\ Handled /\ FramesReadAsSent /\ UndefinedOnlyIfIllegal

LEMMA TotalStep ==
    /\ Total[0] = 0
    /\ \A n \in Nat : Total[n + 1] = Total[n] + Size(stream[n + 1])
BY TotalIsSum, SumStep

LEMMA TotalIsNumber ==
    ASSUME stream \in Seq(Frames)
    PROVE  \A n \in 0 .. Len(stream) : Total[n] \in Nat
<1> DEFINE L == Len(stream)
           S == {n \in Nat : n <= L => Total[n] \in Nat}
<1>1. 0 \in S
  BY TotalStep
<1>2. ASSUME NEW n \in S PROVE n + 1 \in S
  <2>1. SUFFICES ASSUME n + 1 <= L PROVE Total[n + 1] \in Nat
    OBVIOUS
  <2>2. L \in Nat
    BY LenProperties
  <2>3. n \in Nat /\ n + 1 \in 1 .. L /\ n <= L /\ Total[n] \in Nat
    BY <2>1, <2>2
  <2>4. stream[n + 1] \in Frames
    BY <2>3, ElementOfSeq
  <2> DEFINE z == Size(stream[n + 1])
  <2>5. z \in Nat
    BY <2>4, HeaderLength
  <2>6. Total[n + 1] = Total[n] + z
    BY <2>3, TotalStep
  <2> HIDE DEF z
  <2>7. QED
    BY <2>3, <2>5, <2>6
<1>3. S \in SUBSET Nat
  OBVIOUS
<1>4. S = Nat
  <2> HIDE DEF S
  <2> QED BY <1>1, <1>2, <1>3, SetInduction
<1>5. QED
  BY <1>4, LenProperties

\* More is written behind what is there.
LEMMA PutKeeps ==
    ASSUME IInv, NEW f \in Frames, Put(f),
           deflate_initialized' \in BOOLEAN, deflate_broken' \in BOOLEAN
    PROVE  IInv'
<1> DEFINE L == Len(stream)
           H == Len(handled)
<1>1. /\ L < MaxFrames /\ \A i \in 1 .. L : ~Illegal(stream[i])
      /\ stream' = Append(stream, f)
      /\ arrived' = arrived /\ drained' = drained /\ handled' = handled
      /\ undefined' = undefined
  BY DEF Put
<1>2. /\ stream \in Seq(Frames) /\ handled \in Seq(Payloads)
      /\ undefined \in BOOLEAN /\ H <= L
      /\ arrived \in 0 .. Total[L] /\ drained \in 0 .. arrived /\ drained = Total[H]
      /\ \A i \in 1 .. H :
             handled[i] = [len |-> stream[i].len, inflate |-> stream[i].deflated]
  BY DEF IInv, Written, Handled, FramesReadAsSent, TypeOK
<1>3. L \in Nat /\ H \in Nat
  BY <1>2, LenProperties
<1>4. ~undefined
  <2>1. SUFFICES ASSUME undefined PROVE FALSE
    BY <1>2
  <2>2. H < L /\ Illegal(stream[H + 1])
    BY <2>1 DEF IInv, Handled, UndefinedOnlyIfIllegal
  <2>3. H + 1 \in 1 .. L
    BY <1>3, <2>2
  <2>4. QED
    BY <1>1, <2>2, <2>3
<1>5. /\ stream' \in Seq(Frames) /\ Len(stream') = L + 1
      /\ \A i \in 1 .. L : stream'[i] = stream[i]
      /\ stream'[L + 1] = f
  BY <1>1, <1>2
<1> HIDE DEF L, H
<1>6. \A n \in 0 .. L : Total'[n] = Total[n]
  BY <1>3, <1>5, SumOfPrefix, TotalIsSum
<1>7. Total'[L + 1] = Total[L] + Size(f)
  <2>1. Sums(stream')[L + 1] = Sums(stream')[L] + Size(stream'[L + 1])
    BY <1>3, SumStep
  <2>2. L \in 0 .. L
    BY <1>3
  <2>3. QED
    BY <2>1, <2>2, <1>5, <1>6, TotalIsSum
<1>8. /\ Total[L] \in Nat /\ Size(f) \in Nat /\ arrived \in 0 .. Total'[L + 1]
  <2>1. Total[L] \in Nat
    BY <1>2, <1>3, TotalIsNumber DEF L
  <2>2. Size(f) \in Nat
    BY HeaderLength
  <2>3. QED
    BY <2>1, <2>2, <1>2, <1>7
<1>9. Written'
  BY <1>1, <1>3, <1>5 DEF Written
<1>10. Handled'
  BY <1>1, <1>2, <1>4 DEF Handled
<1>11. UndefinedOnlyIfIllegal'
  BY <1>1, <1>4 DEF UndefinedOnlyIfIllegal
<1>12. TypeOK'
  <2>1. ASSUME NEW i \in 1 .. L + 1
        PROVE  stream'[i].b2 \in 0 .. Mark64 /\ stream'[i].ext \in 0 .. SizeMod - 1
    <3>1. stream'[i] \in Frames
      BY <1>5, ElementOfSeq
    <3>2. QED
      BY <3>1 DEF Frames, FrameTypes
  <2>2. L + 1 <= MaxFrames /\ H <= L + 1
    BY <1>1, <1>2, <1>3, Limits DEF L
  <2>3. QED
    BY <1>1, <1>2, <1>5, <1>8, <2>1, <2>2 DEF TypeOK, H
<1>13. FramesReadAsSent'
  <2>1. H \in 0 .. L /\ \A i \in 1 .. H : i \in 1 .. L
    BY <1>2, <1>3
  <2>2. drained' = Total'[Len(handled')]
    BY <1>1, <1>2, <1>6, <2>1 DEF H
  <2>3. \A i \in 1 .. H :
            handled'[i] = [len |-> stream'[i].len, inflate |-> stream'[i].deflated]
    BY <1>1, <1>2, <1>5, <2>1
  <2>4. QED
    BY <1>1, <1>12, <2>2, <2>3 DEF FramesReadAsSent, H
<1>14. QED
  BY <1>9, <1>10, <1>11, <1>13 DEF IInv

LEMMA ArriveKeeps ==
    ASSUME IInv, Arrive
    PROVE  IInv'
<1>1. /\ stream' = stream /\ handled' = handled /\ drained' = drained
      /\ undefined' = undefined /\ arrived' = arrived + 1 /\ arrived < Total[Len(stream)]
      /\ deflate_initialized' = deflate_initialized /\ deflate_broken' = deflate_broken
  BY DEF Arrive
<1>2. Total' = Total
  BY <1>1, TotalIsSum
<1>3. Written' /\ Handled' /\ UndefinedOnlyIfIllegal'
  BY <1>1 DEF IInv, Written, Handled, UndefinedOnlyIfIllegal
<1>4. TypeOK /\ stream \in Seq(Frames)
  BY DEF IInv, FramesReadAsSent, Written
<1>5. arrived' \in 0 .. Total[Len(stream)] /\ drained \in 0 .. arrived'
  <2> DEFINE b == Total[Len(stream)]
  <2>1. b \in Nat
    BY <1>4, TotalIsNumber, LenProperties
  <2>2. arrived \in 0 .. b /\ drained \in 0 .. arrived /\ arrived < b
    BY <1>1, <1>4 DEF TypeOK
  <2> HIDE DEF b
  <2>3. arrived + 1 \in 0 .. b /\ drained \in 0 .. arrived + 1
    BY <2>1, <2>2
  <2>4. QED
    BY <1>1, <2>3 DEF b
<1>6. TypeOK'
  BY <1>1, <1>2, <1>4, <1>5 DEF TypeOK
<1>7. FramesReadAsSent'
  BY <1>1, <1>2, <1>6 DEF IInv, FramesReadAsSent
<1>8. QED
  BY <1>3, <1>7 DEF IInv

\* One turn of the loop finds the next frame, or one that is illegal.
LEMMA HandleKeeps ==
    ASSUME IInv, HandleFrame
    PROVE  IInv'
<1> DEFINE L == Len(stream)
           H == Len(handled)
           f == Current
           h == HeaderLen(f)
           p == PayloadLen(f)
<1>1. /\ ~undefined /\ H < L /\ IsComplete(f)
      /\ stream' = stream /\ arrived' = arrived
      /\ deflate_initialized' = deflate_initialized /\ deflate_broken' = deflate_broken
  BY DEF HandleFrame
<1>2. Total' = Total
  BY <1>1, TotalIsSum
<1>3. /\ stream \in Seq(Frames) /\ handled \in Seq(Payloads)
      /\ TypeOK /\ drained = Total[H]
      /\ \A i \in 1 .. H :
             handled[i] = [len |-> stream[i].len, inflate |-> stream[i].deflated]
  BY DEF IInv, Written, Handled, FramesReadAsSent
<1>4. L \in Nat /\ H \in Nat /\ H + 1 \in 1 .. L /\ H \in 0 .. L /\ H + 1 \in 0 .. L
  BY <1>1, <1>3, LenProperties
<1>5. f = stream[H + 1] /\ f \in Frames
  BY <1>3, <1>4, ElementOfSeq DEF Current
<1>6. /\ h \in 2 .. 14 /\ p = f.len /\ p \in 0 .. SizeMod - 1
      /\ f.rsv1 = f.deflated /\ f.rsv1 \in BOOLEAN /\ Size(f) = h + p
  BY <1>5, HeaderLength DEF Frames, FrameTypes
<1>7. /\ Total[H] \in Nat /\ Total[L] \in Nat /\ Total[H + 1] \in Nat
      /\ Total[H + 1] = Total[H] + (h + p)
  <2>1. Total[H] \in Nat /\ Total[L] \in Nat /\ Total[H + 1] \in Nat
    BY <1>3, <1>4, TotalIsNumber
  <2>2. Total[H + 1] = Total[H] + Size(stream[H + 1])
    BY <1>4, TotalStep
  <2>3. QED
    BY <2>1, <2>2, <1>5, <1>6
<1>8. arrived \in 0 .. Total[L] /\ drained \in 0 .. arrived
  BY <1>3 DEF TypeOK
<1>9. Written'
  BY <1>1 DEF IInv, Written
<1>10. CASE h + p >= SizeMod
  <2>1. undefined' = TRUE /\ drained' = drained /\ handled' = handled
    BY <1>10 DEF HandleFrame
  <2>2. Illegal(f)
    <3> DEFINE q == SizeMod \div 2
    <3>1. Max16 \in Nat /\ SizeMod \in Nat /\ q \in Nat /\ Max16 + 14 < q
          /\ 2 * q <= SizeMod
      BY Limits
    <3> HIDE DEF q, h, p
    <3>2. p >= q
      BY <1>6, <1>10, <3>1
    <3>3. QED
      BY <1>6, <3>2 DEF Illegal, q
  <2>3. Handled' /\ UndefinedOnlyIfIllegal'
    BY <1>1, <1>3, <1>5, <2>1, <2>2 DEF Handled, UndefinedOnlyIfIllegal
  <2>4. TypeOK'
    BY <1>1, <1>2, <1>3, <2>1 DEF TypeOK
  <2>5. FramesReadAsSent'
    BY <1>1, <1>2, <1>3, <2>1, <2>4 DEF FramesReadAsSent
  <2>6. QED
    BY <1>9, <2>3, <2>5 DEF IInv
<1>11. CASE ~ (h + p >= SizeMod)
  <2> DEFINE e == [len |-> p, inflate |-> f.rsv1]
  <2>1. /\ drained' = drained + h + p /\ handled' = Append(handled, e)
        /\ undefined' = undefined
    BY <1>11 DEF HandleFrame
  <2>2. e \in Payloads
    BY <1>6 DEF Payloads
  <2>3. /\ handled' \in Seq(Payloads) /\ Len(handled') = H + 1
        /\ \A i \in 1 .. H : handled'[i] = handled[i]
        /\ handled'[H + 1] = e
    BY <1>3, <2>1, <2>2
  <2>4. arrived - drained >= h + p
    <3>1. arrived - drained >= (h + p) % SizeMod
      BY <1>1 DEF IsComplete, DataLen
    <3>2. SizeMod \in Nat
      BY Limits
    <3> HIDE DEF h, p
    <3>3. (h + p) % SizeMod = h + p
      BY <1>6, <1>11, <3>2
    <3>4. QED
      BY <3>1, <3>3
  <2> HIDE DEF e
  <2>5. drained' = Total[H + 1] /\ drained' \in 0 .. arrived
    <3> DEFINE a == Total[H]
               b == Total[H + 1]
               c == Total[L]
    <3> HIDE DEF h, p, a, b, c
    <3>1. b = a + (h + p) /\ a \in Nat /\ b \in Nat /\ c \in Nat
          /\ h \in Nat /\ p \in Nat /\ arrived \in 0 .. c /\ drained = a
      BY <1>3, <1>6, <1>7, <1>8 DEF a, b, c
    <3>2. drained + h + p = b /\ b \in 0 .. arrived
      BY <2>4, <3>1
    <3>3. QED
      BY <2>1, <3>2 DEF b
  <2> HIDE DEF h, p, L, H, f
  <2>6. Handled'
    BY <1>1, <2>1, <2>3 DEF Handled
  <2>7. UndefinedOnlyIfIllegal'
    BY <1>1, <2>1 DEF UndefinedOnlyIfIllegal
  <2>8. TypeOK'
    <3>1. Len(handled') <= Len(stream')
      BY <1>1, <1>4, <2>3 DEF L
    <3>2. arrived' \in 0 .. Total'[Len(stream')] /\ drained' \in 0 .. arrived'
      BY <1>1, <1>2, <1>8, <2>5 DEF L
    <3>3. QED
      BY <1>1, <1>3, <2>1, <3>1, <3>2 DEF TypeOK
  <2>9. ASSUME NEW i \in 1 .. H + 1
        PROVE  handled'[i] = [len |-> stream'[i].len, inflate |-> stream'[i].deflated]
    <3>1. CASE i = H + 1
      BY <1>1, <1>5, <1>6, <2>3, <3>1 DEF e
    <3>2. CASE i # H + 1
      <4>1. i \in 1 .. H
        BY <1>4, <3>2
      <4>2. QED
        BY <1>1, <1>3, <2>3, <4>1
    <3>3. QED
      BY <3>1, <3>2
  <2>10. FramesReadAsSent'
    BY <1>2, <2>3, <2>5, <2>8, <2>9 DEF FramesReadAsSent
  <2>11. QED
    BY <1>9, <2>6, <2>7, <2>10 DEF IInv
<1>12. QED
  BY <1>10, <1>11

-----------------------------------------------------------------------------
(* All steps.                                                              *)

LEMMA Initially == Init => IInv
<1>1. SUFFICES ASSUME Init PROVE IInv
  OBVIOUS
<1>2. /\ stream = <<>> /\ arrived = 0 /\ drained = 0 /\ handled = <<>> /\ undefined = FALSE
      /\ deflate_initialized \in BOOLEAN /\ deflate_broken = FALSE
  BY <1>1 DEF Init
<1>3. Len(stream) = 0 /\ Len(handled) = 0 /\ Total[0] = 0 /\ MaxFrames \in Nat
  BY <1>2, TotalStep, Limits, EmptySeq
<1>4. Written /\ Handled
  BY <1>2, <1>3 DEF Written, Handled
<1>5. TypeOK
  <2>1. arrived \in 0 .. Total[Len(stream)] /\ drained \in 0 .. arrived
    BY <1>2, <1>3
  <2>2. \A i \in 1 .. Len(stream) : FALSE
    BY <1>3
  <2>3. Len(stream) <= MaxFrames /\ Len(handled) <= Len(stream)
    BY <1>3
  <2>4. QED
    BY <1>2, <2>1, <2>2, <2>3 DEF TypeOK
<1>6. QED
  BY <1>2, <1>3, <1>4, <1>5 DEF IInv, FramesReadAsSent, UndefinedOnlyIfIllegal

\* What send() writes can be read again: the length has the mark its size calls for.
LEMMA WriteKeeps ==
    ASSUME IInv, NEW len \in Lens, NEW r \in BOOLEAN, Write(len, r, r),
           deflate_initialized' \in BOOLEAN, deflate_broken' \in BOOLEAN
    PROVE  IInv'
<1> DEFINE b == LengthMark(len)
<1>1. len \in 0 .. SizeMod - 1
  BY Limits
<1>2. b \in 0 .. Mark64 /\ (b = Mark16 => len <= Max16)
      /\ (b # Mark16 /\ b # Mark64 => b = len)
  BY <1>1, Limits DEF LengthMark
<1>3. Put(Frame(b, TRUE, len, r, r))
  BY DEF Write
<1> HIDE DEF b
<1>4. Frame(b, TRUE, len, r, r) \in Frames
  BY <1>1, <1>2, FrameIsOne
<1>5. QED
  BY <1>3, <1>4, PutKeeps

LEMMA Step == IInv /\ [Next]_vars => IInv'
<1> SUFFICES ASSUME IInv, [Next]_vars PROVE IInv'
  OBVIOUS
<1>1. deflate_initialized \in BOOLEAN /\ deflate_broken \in BOOLEAN
  BY DEF IInv, FramesReadAsSent, TypeOK
<1>2. ASSUME NEW len \in Lens, SendPlain(len) PROVE IInv'
  BY <1>1, <1>2, WriteKeeps DEF SendPlain
<1>3. ASSUME NEW len \in Lens, SendDeflated(len) PROVE IInv'
  BY <1>1, <1>3, WriteKeeps DEF SendDeflated
<1>4. ASSUME NEW len \in Lens, SendRaw(len) PROVE IInv'
  BY <1>1, <1>4, WriteKeeps DEF SendRaw
<1>5. ASSUME NEW len \in Lens, NEW b2 \in 0 .. Mark64, PeerWrites(b2, len) PROVE IInv'
  <2>1. /\ Put(Frame(b2, FALSE, len, FALSE, FALSE))
        /\ b2 = Mark16 => len <= Max16
        /\ b2 # Mark16 /\ b2 # Mark64 => b2 = len
        /\ deflate_initialized' = deflate_initialized /\ deflate_broken' = deflate_broken
    BY <1>5 DEF PeerWrites
  <2>2. len \in 0 .. SizeMod - 1
    BY Limits
  <2>3. Frame(b2, FALSE, len, FALSE, FALSE) \in Frames
    BY <2>1, <2>2, FrameIsOne
  <2>4. QED
    BY <1>1, <2>1, <2>3, PutKeeps
<1>6. CASE Arrive
  BY <1>6, ArriveKeeps
<1>7. CASE HandleFrame
  BY <1>7, HandleKeeps
<1>8. CASE UNCHANGED vars
  <2>1. Total' = Total
    BY <1>8, TotalIsSum DEF vars
  <2>2. QED
    BY <1>8, <2>1 DEF vars, IInv, Written, Handled, FramesReadAsSent, UndefinedOnlyIfIllegal,
                      TypeOK
<1>9. QED
  BY <1>2, <1>3, <1>4, <1>5, <1>6, <1>7, <1>8 DEF Next

LEMMA Invariant == Spec => []IInv
BY Initially, Step, PTL DEF Spec

-----------------------------------------------------------------------------
(* The theorems.                                                           *)

\* Whatever send() or another peer writes, and however the stream is cut into pieces, the loop
\* of receive() finds the frames that were written, with their lengths, in order and without
\* losing a byte between them, and inflates those that send() deflated.
THEOREM FramesAreRead == Spec => []FramesReadAsSent
<1>1. IInv => FramesReadAsSent
  BY DEF IInv
<1>2. QED
  BY <1>1, Invariant, PTL

\* The sum of header and payload in receive() wraps around for no frame but one whose length
\* has its top bit set: send() never writes one of which more is read than has arrived.
THEOREM UndefinedNeedsIllegal == Spec => []UndefinedOnlyIfIllegal
<1>1. IInv => UndefinedOnlyIfIllegal
  BY DEF IInv
<1>2. QED
  BY <1>1, Invariant, PTL
=============================================================================
