------------------------ MODULE WscMessages_proofs ------------------------
(***************************************************************************)
(* Proofs about the messages of libwsc.                                    *)
(*                                                                         *)
(* First Utf8Validator: it accepts nothing but UTF-8, and refuses UTF-8 in *)
(* one case only, after any number of messages of any length.              *)
(*                                                                         *)
(* Then WscReceive, which asks it: for any number of frames, the callbacks *)
(* get the messages that the frames spell, a peer that keeps to the        *)
(* protocol is not closed on, and text is valid.  In between, that the     *)
(* roles by which WscReceive tells bytes apart are the validator's.        *)
(***************************************************************************)
EXTENDS Utf8Validator, WscReceive, FiniteSetTheorems, SequenceTheorems, TLAPS

-----------------------------------------------------------------------------
(* The masks of the code as ranges of bytes.                               *)

LEMMA Masks ==
    ASSUME NEW b \in Byte
    PROVE  /\ (b \div 32 = 6)  <=> (b \in 192 .. 223)
           /\ (b \div 16 = 14) <=> (b \in 224 .. 239)
           /\ (b \div 8 = 30)  <=> (b \in 240 .. 247)
           /\ (b \div 64 = 2)  <=> (b \in 128 .. 191)
  BY DEF Byte

\* The five ranges a second byte may be confined to differ.
LEMMA RangesDiffer ==
    /\ Any # 160 .. 191 /\ Any # 128 .. 159 /\ Any # 144 .. 191 /\ Any # 128 .. 143
    /\ 160 .. 191 # 128 .. 159 /\ 144 .. 191 # 128 .. 143
    /\ 160 .. 191 # 144 .. 191 /\ 160 .. 191 # 128 .. 143
    /\ 128 .. 159 # 144 .. 191 /\ 128 .. 159 # 128 .. 143
<1>1. 128 \in Any /\ 128 \notin 160 .. 191 /\ 128 \notin 144 .. 191
  BY DEF Any
<1>2. 191 \in Any /\ 191 \notin 128 .. 159 /\ 191 \notin 128 .. 143
  BY DEF Any
<1>3. 128 \in 128 .. 159 /\ 128 \in 128 .. 143 /\ 191 \in 160 .. 191 /\ 191 \in 144 .. 191
  OBVIOUS
<1>4. 150 \in 144 .. 191 /\ 150 \notin 160 .. 191 /\ 150 \in 128 .. 159 /\ 150 \notin 128 .. 143
  OBVIOUS
<1>5. QED
  BY <1>1, <1>2, <1>3, <1>4

LEMMA RangesAre ==
    /\ Any \in Ranges /\ 160 .. 191 \in Ranges /\ 128 .. 159 \in Ranges
    /\ 144 .. 191 \in Ranges /\ 128 .. 143 \in Ranges
  BY Zenon DEF Ranges

-----------------------------------------------------------------------------
(* What the grammar of RFC 3629 does with one byte.                        *)

LEMMA EightElements ==
    \A a, b, c, d, e, f, g, h :
        LET S == {a, b, c, d, e, f, g, h}
        IN  a \in S /\ b \in S /\ c \in S /\ d \in S /\ e \in S /\ f \in S /\ g \in S /\ h \in S
  OBVIOUS

\* The first byte of a character.
LEMMA FirstByte ==
    ASSUME NEW b \in Byte, valid, needs = 0, Rfc3629(b)
    PROVE  /\ b \in 0 .. 127 => NextIs(0, Any)
           /\ b \in 194 .. 223 => NextIs(1, Any)
           /\ b = 224 => NextIs(2, 160 .. 191)
           /\ b = 237 => NextIs(2, 128 .. 159)
           /\ b \in (225 .. 236) \cup {238, 239} => NextIs(2, Any)
           /\ b = 240 => NextIs(3, 144 .. 191)
           /\ b = 244 => NextIs(3, 128 .. 143)
           /\ b \in 241 .. 243 => NextIs(3, Any)
           /\ b \in (128 .. 193) \cup (245 .. 255) => Invalid
<1>1. \A c \in Characters :
         \/ c.first = 0 .. 127 /\ c.needs = 0 /\ c.range = Any
         \/ c.first = 194 .. 223 /\ c.needs = 1 /\ c.range = Any
         \/ c.first = {224} /\ c.needs = 2 /\ c.range = 160 .. 191
         \/ c.first = {237} /\ c.needs = 2 /\ c.range = 128 .. 159
         \/ c.first = (225 .. 236) \cup {238, 239} /\ c.needs = 2 /\ c.range = Any
         \/ c.first = {240} /\ c.needs = 3 /\ c.range = 144 .. 191
         \/ c.first = {244} /\ c.needs = 3 /\ c.range = 128 .. 143
         \/ c.first = 241 .. 243 /\ c.needs = 3 /\ c.range = Any
  BY DEF Characters, Form
<1>2. \/ \E c \in Characters : b \in c.first /\ NextIs(c.needs, c.range)
      \/ (\A c \in Characters : b \notin c.first) /\ Invalid
  BY DEF Rfc3629
<1>3. CASE \E c \in Characters : b \in c.first /\ NextIs(c.needs, c.range)
  <2>1. PICK c \in Characters : b \in c.first /\ NextIs(c.needs, c.range)
    BY <1>3
  <2>2. NextIs(c.needs, c.range)
    BY <2>1
  <2>3. CASE c.first = 0 .. 127 /\ c.needs = 0 /\ c.range = Any
    BY <2>1, <2>3 DEF NextIs
  <2>4. CASE c.first = 194 .. 223 /\ c.needs = 1 /\ c.range = Any
    BY <2>1, <2>4 DEF NextIs
  <2>5. CASE c.first = {224} /\ c.needs = 2 /\ c.range = 160 .. 191
    BY <2>1, <2>5 DEF NextIs
  <2>6. CASE c.first = {237} /\ c.needs = 2 /\ c.range = 128 .. 159
    BY <2>1, <2>6 DEF NextIs
  <2>7. CASE c.first = (225 .. 236) \cup {238, 239} /\ c.needs = 2 /\ c.range = Any
    BY <2>1, <2>7 DEF NextIs
  <2>8. CASE c.first = {240} /\ c.needs = 3 /\ c.range = 144 .. 191
    BY <2>1, <2>8 DEF NextIs
  <2>9. CASE c.first = {244} /\ c.needs = 3 /\ c.range = 128 .. 143
    BY <2>1, <2>9 DEF NextIs
  <2>10. CASE c.first = 241 .. 243 /\ c.needs = 3 /\ c.range = Any
    BY <2>1, <2>10 DEF NextIs
  <2>11. QED
    BY <1>1, <2>3, <2>4, <2>5, <2>6, <2>7, <2>8, <2>9, <2>10
<1>4. CASE (\A c \in Characters : b \notin c.first) /\ Invalid
  <2> DEFINE c1 == Form(0 .. 127, 0, Any)
             c2 == Form(194 .. 223, 1, Any)
             c3 == Form({224}, 2, 160 .. 191)
             c4 == Form({237}, 2, 128 .. 159)
             c5 == Form((225 .. 236) \cup {238, 239}, 2, Any)
             c6 == Form({240}, 3, 144 .. 191)
             c7 == Form({244}, 3, 128 .. 143)
             c8 == Form(241 .. 243, 3, Any)
  <2>1. Characters = {c1, c2, c3, c4, c5, c6, c7, c8}
    BY Zenon DEF Characters
  <2>2. b \notin c1.first /\ b \notin c2.first /\ b \notin c3.first /\ b \notin c4.first
        /\ b \notin c5.first /\ b \notin c6.first /\ b \notin c7.first /\ b \notin c8.first
    <3> HIDE DEF c1, c2, c3, c4, c5, c6, c7, c8
    <3>1. QED
      BY <1>4, <2>1, EightElements
  <2>3. /\ b \notin 0 .. 127 /\ b \notin 194 .. 223 /\ b # 224 /\ b # 237
        /\ b \notin (225 .. 236) \cup {238, 239} /\ b # 240 /\ b # 244 /\ b \notin 241 .. 243
    BY <2>2 DEF Form
  <2>4. QED
    BY <1>4, <2>3
<1>5. QED
  BY <1>2, <1>3, <1>4

\* A later byte of a character.
LEMMA LaterByte ==
    ASSUME NEW b \in Byte, valid, needs \in 1 .. 3, Rfc3629(b)
    PROVE  IF b \in range THEN NextIs(needs - 1, Any) ELSE Invalid
  BY DEF Rfc3629

\* The grammar's variables keep their types, and a text that is not UTF-8 stays so.
LEMMA GrammarTypes ==
    ASSUME TypeOK, NEW b \in Byte, Rfc3629(b)
    PROVE  /\ needs' \in 0 .. 3 /\ valid' \in BOOLEAN
           /\ range' \in Ranges
           /\ ~valid => ~valid'
<1>1. CASE ~valid
  BY <1>1 DEF Rfc3629, TypeOK
<1>2. CASE valid /\ needs = 0
  <2>1. b \in 0 .. 127 \/ b \in 194 .. 223 \/ b = 224 \/ b = 237
        \/ b \in (225 .. 236) \cup {238, 239} \/ b = 240 \/ b = 244 \/ b \in 241 .. 243
        \/ b \in (128 .. 193) \cup (245 .. 255)
    BY DEF Byte
  <2>2. \/ \E n \in 0 .. 3, r \in Ranges : NextIs(n, r)
        \/ Invalid
    BY <1>2, <2>1, FirstByte, RangesAre
  <2>3. QED
    BY <1>2, <2>2 DEF NextIs, Invalid, TypeOK
<1>3. CASE valid /\ needs \in 1 .. 3
  <2>1. CASE NextIs(needs - 1, Any)
    <3>1. needs' \in 0 .. 3 /\ valid' = valid
      BY <1>3, <2>1 DEF NextIs
    <3>2. range' \in Ranges
      BY <2>1, RangesAre DEF NextIs
    <3>3. QED
      BY <1>3, <3>1, <3>2 DEF TypeOK
  <2>2. CASE Invalid
    BY <2>2 DEF Invalid, TypeOK
  <2>3. QED
    BY <1>3, <2>1, <2>2, LaterByte
<1>4. QED
  BY <1>1, <1>2, <1>3 DEF TypeOK

-----------------------------------------------------------------------------
(* The inductive invariant.                                                *)

\* As long as nothing was refused, the validator and the grammar are at the same place of
\* the same character.  seenE0 alone may be a leftover.
Synced ==
    /\ valid /\ expectedContinuation = needs
    /\ needs \in {0, 1} => range = Any
    /\ needs \in {0, 3} => ~seenED
    /\ needs = 2 => \/ range = Any /\ ~seenED
                    \/ range = 160 .. 191 /\ seenE0 /\ ~seenED
                    \/ range = 128 .. 159 /\ seenED /\ ~seenE0
    /\ needs = 3 => \/ range = Any /\ ~seenF0 /\ ~seenF4
                    \/ range = 144 .. 191 /\ seenF0 /\ ~seenF4
                    \/ range = 128 .. 143 /\ seenF4 /\ ~seenF0

ValidatorIInv == TypeOK /\ (~refused => Synced)

LEMMA InitInvariant == Init => ValidatorIInv
<1> SUFFICES ASSUME Init PROVE ValidatorIInv
  OBVIOUS
<1>1. TypeOK
  <2>1. range \in Ranges
    BY RangesAre DEF Init
  <2>2. expectedContinuation \in 0 .. 3 /\ needs \in 0 .. 3
    BY DEF Init
  <2>3. QED
    BY <2>1, <2>2, Zenon DEF Init, TypeOK
<1>2. Synced
  BY DEF Init, Synced
<1>3. QED
  BY <1>1, <1>2 DEF ValidatorIInv

\* The four flags, which most branches of validateChunk() leave alone.
SameFlags == UNCHANGED <<seenE0, seenED, seenF0, seenF4>>

\* A byte that is refused leaves the rest of the invariant to the next reset().
LEMMA RefusedByte ==
    ASSUME ValidatorIInv, NEW b \in Byte, Rfc3629(b), Refuse,
           seenE0' \in BOOLEAN, seenED' \in BOOLEAN, seenF0' \in BOOLEAN, seenF4' \in BOOLEAN
    PROVE  ValidatorIInv'
  BY GrammarTypes DEF ValidatorIInv, TypeOK, Refuse

\* A byte that is not refused keeps the validator and the grammar together.
LEMMA AcceptedByte ==
    ASSUME ValidatorIInv, NEW b \in Byte, Rfc3629(b), NEW n \in 0 .. 3, Expect(n),
           seenE0' \in BOOLEAN, seenED' \in BOOLEAN, seenF0' \in BOOLEAN, seenF4' \in BOOLEAN,
           ~refused => Synced'
    PROVE  ValidatorIInv'
  BY GrammarTypes DEF ValidatorIInv, TypeOK, Expect

LEMMA LeadKeeps ==
    ASSUME ValidatorIInv, NEW b \in Byte, Rfc3629(b),
           Ascii(b) \/ Lead2(b) \/ Lead3(b) \/ Lead4(b) \/ NoLead(b)
    PROVE  ValidatorIInv'
<1>1. CASE Ascii(b)
  <2>1. Expect(0) /\ SameFlags
    BY <1>1 DEF Ascii, Expect, flags, SameFlags
  <2>2. ASSUME ~refused PROVE Synced'
    <3>1. NextIs(0, Any) /\ Synced
      BY <1>1, <2>2, FirstByte DEF Ascii, ValidatorIInv, Synced, Byte
    <3>2. QED
      BY <1>1, <2>1, <3>1 DEF Synced, NextIs, Expect, SameFlags, Ascii
  <2>3. QED
    BY <2>1, <2>2, AcceptedByte DEF SameFlags, ValidatorIInv, TypeOK
<1>2. CASE Lead2(b)
  <2>1. SameFlags /\ expectedContinuation = 0 /\ b \in 192 .. 223
    BY <1>2, Masks DEF Lead2, flags, SameFlags
  <2>2. CASE b < 194
    BY <1>2, <2>1, <2>2, RefusedByte DEF Lead2, SameFlags, ValidatorIInv, TypeOK
  <2>3. CASE b >= 194
    <3>1. Expect(1)
      BY <1>2, <2>1, <2>3 DEF Lead2
    <3>2. ASSUME ~refused PROVE Synced'
      <4>1. NextIs(1, Any) /\ Synced
        BY <2>1, <2>3, <3>2, FirstByte DEF ValidatorIInv, Synced
      <4>2. QED
        BY <2>1, <3>1, <4>1 DEF Synced, NextIs, Expect, SameFlags
    <3>3. QED
      BY <2>1, <3>1, <3>2, AcceptedByte DEF SameFlags, ValidatorIInv, TypeOK
  <2>4. QED
    BY <2>1, <2>2, <2>3
<1>3. CASE Lead3(b)
  <2>1. /\ expectedContinuation = 0 /\ b \in 224 .. 239 /\ Expect(2)
        /\ seenE0' = (b = 224) /\ seenED' = (b = 237) /\ UNCHANGED <<seenF0, seenF4>>
    BY <1>3, Masks DEF Lead3
  <2>2. ASSUME ~refused PROVE Synced'
    <3>1. Synced /\ valid /\ needs = 0
      BY <2>1, <2>2 DEF ValidatorIInv, Synced
    <3>2. CASE b = 224
      <4>1. NextIs(2, 160 .. 191)
        BY <3>1, <3>2, FirstByte
      <4>2. seenE0' /\ ~seenED'
        <5>1. b # 237
          BY <3>2
        <5>2. QED
          BY <2>1, <3>2, <5>1, Zenon
      <4>3. expectedContinuation' = 2
        BY <2>1 DEF Expect
      <4>4. QED
        BY <4>1, <4>2, <4>3, <3>1 DEF Synced, NextIs
    <3>3. CASE b = 237
      <4>1. NextIs(2, 128 .. 159)
        BY <3>1, <3>3, FirstByte
      <4>2. ~seenE0' /\ seenED'
        <5>1. b # 224
          BY <3>3
        <5>2. QED
          BY <2>1, <3>3, <5>1, Zenon
      <4>3. expectedContinuation' = 2
        BY <2>1 DEF Expect
      <4>4. QED
        BY <4>1, <4>2, <4>3, <3>1 DEF Synced, NextIs
    <3>4. CASE b # 224 /\ b # 237
      <4>1. NextIs(2, Any)
        BY <2>1, <3>1, <3>4, FirstByte
      <4>2. ~seenED'
        BY <2>1, <3>4
      <4>3. expectedContinuation' = 2
        BY <2>1 DEF Expect
      <4>4. QED
        BY <4>1, <4>2, <4>3, <3>1 DEF Synced, NextIs
    <3>5. QED
      BY <3>2, <3>3, <3>4
  <2>3. QED
    BY <2>1, <2>2, AcceptedByte DEF ValidatorIInv, TypeOK
<1>4. CASE Lead4(b)
  <2>1. /\ expectedContinuation = 0 /\ b \in 240 .. 247
        /\ seenF0' = (b = 240) /\ seenF4' = (b = 244) /\ UNCHANGED <<seenE0, seenED>>
    BY <1>4, Masks DEF Lead4
  <2>2. CASE b > 244
    BY <1>4, <2>1, <2>2, RefusedByte DEF Lead4, ValidatorIInv, TypeOK
  <2>3. CASE b <= 244
    <3>1. Expect(3)
      BY <1>4, <2>1, <2>3 DEF Lead4
    <3>2. ASSUME ~refused PROVE Synced'
      <4>1. Synced /\ valid /\ needs = 0 /\ ~seenED
        BY <2>1, <3>2 DEF ValidatorIInv, Synced
      <4>2. CASE b = 240
        <5>1. NextIs(3, 144 .. 191)
          BY <4>1, <4>2, FirstByte
        <5>2. seenF0' /\ ~seenF4' /\ ~seenED'
          <6>1. b = 240 /\ b # 244
            BY <4>2
          <6>2. QED
            BY <2>1, <4>1, <6>1, Zenon
        <5>3. expectedContinuation' = 3
          BY <3>1 DEF Expect
        <5>4. QED
          BY <4>1, <5>1, <5>2, <5>3 DEF Synced, NextIs
      <4>3. CASE b = 244
        <5>1. NextIs(3, 128 .. 143)
          BY <4>1, <4>3, FirstByte
        <5>2. ~seenF0' /\ seenF4' /\ ~seenED'
          <6>1. b = 244 /\ b # 240
            BY <4>3
          <6>2. QED
            BY <2>1, <4>1, <6>1, Zenon
        <5>3. expectedContinuation' = 3
          BY <3>1 DEF Expect
        <5>4. QED
          BY <4>1, <5>1, <5>2, <5>3 DEF Synced, NextIs
      <4>4. CASE b \in 241 .. 243
        <5>1. NextIs(3, Any)
          BY <4>1, <4>4, FirstByte
        <5>2. ~seenF0' /\ ~seenF4' /\ ~seenED'
          <6>1. b # 240 /\ b # 244
            BY <4>4
          <6>2. QED
            BY <2>1, <4>1, <6>1, Zenon
        <5>3. expectedContinuation' = 3
          BY <3>1 DEF Expect
        <5>4. QED
          BY <4>1, <5>1, <5>2, <5>3 DEF Synced, NextIs
      <4>5. QED
        BY <2>1, <2>3, <4>2, <4>3, <4>4
    <3>3. QED
      BY <2>1, <3>1, <3>2, AcceptedByte DEF ValidatorIInv, TypeOK
  <2>4. QED
    BY <2>1, <2>2, <2>3
<1>5. CASE NoLead(b)
  BY <1>5, RefusedByte DEF NoLead, flags, ValidatorIInv, TypeOK
<1>6. QED
  BY <1>1, <1>2, <1>3, <1>4, <1>5

\* A later byte that the flags allow is one the grammar allows.
LEMMA AllowedTail ==
    ASSUME Synced, NEW b \in 128 .. 191, expectedContinuation \in 1 .. 3, ~Forbidden(b)
    PROVE  b \in range
<1>1. CASE needs = 1
  BY <1>1 DEF Synced, Any
<1>2. CASE needs = 2
  BY <1>2 DEF Synced, Any, Forbidden
<1>3. CASE needs = 3
  BY <1>3 DEF Synced, Any, Forbidden
<1>4. QED
  BY <1>1, <1>2, <1>3 DEF Synced

LEMMA TailKeeps ==
    ASSUME ValidatorIInv, NEW b \in Byte, Rfc3629(b), BadTail(b) \/ GoodTail(b)
    PROVE  ValidatorIInv'
<1>1. CASE BadTail(b)
  BY <1>1, RefusedByte DEF BadTail, flags, ValidatorIInv, TypeOK
<1>2. CASE GoodTail(b)
  <2>1. /\ expectedContinuation \in 1 .. 3 /\ b \in 128 .. 191 /\ ~Forbidden(b)
        /\ Expect(expectedContinuation - 1) /\ expectedContinuation - 1 \in 0 .. 3
    BY <1>2, Masks DEF GoodTail, ValidatorIInv, TypeOK
  <2>2. /\ seenE0' \in BOOLEAN /\ seenED' \in BOOLEAN /\ seenF0' \in BOOLEAN /\ seenF4' \in BOOLEAN
    <3>1. CASE expectedContinuation = 1
      BY <1>2, <3>1, Zenon DEF GoodTail
    <3>2. CASE expectedContinuation # 1
      BY <1>2, <3>2 DEF GoodTail, flags, ValidatorIInv, TypeOK
    <3>3. QED
      BY <3>1, <3>2
  <2>3. ASSUME ~refused PROVE Synced'
    <3>1. Synced /\ valid /\ needs \in 1 .. 3 /\ expectedContinuation = needs
      BY <2>1, <2>3 DEF ValidatorIInv, Synced
    <3>2. NextIs(needs - 1, Any)
      BY <2>1, <3>1, AllowedTail, LaterByte
    <3>3. valid' /\ expectedContinuation' = needs' /\ needs' = needs - 1 /\ range' = Any
      BY <2>1, <3>1, <3>2 DEF NextIs, Expect
    <3>4. CASE needs = 1
      <4>1. ~seenED'
        BY <1>2, <3>1, <3>4, Zenon DEF GoodTail
      <4>2. QED
        BY <3>3, <3>4, <4>1 DEF Synced
    <3>5. CASE needs = 2
      BY <3>3, <3>5 DEF Synced
    <3>6. CASE needs = 3
      <4>1. ~seenED /\ UNCHANGED seenED
        BY <1>2, <3>1, <3>6 DEF GoodTail, flags, Synced
      <4>2. QED
        BY <3>3, <3>6, <4>1 DEF Synced
    <3>7. QED
      BY <3>1, <3>4, <3>5, <3>6
  <2>4. QED
    BY <2>1, <2>2, <2>3, AcceptedByte
<1>3. QED
  BY <1>1, <1>2

LEMMA NextInvariant == ValidatorIInv /\ [Next]_vars => ValidatorIInv'
<1> SUFFICES ASSUME ValidatorIInv, [Next]_vars PROVE ValidatorIInv'
  OBVIOUS
<1>1. CASE Reset
  <2>1. TypeOK'
    <3>1. /\ expectedContinuation' \in 0 .. 3 /\ needs' \in 0 .. 3 /\ range' \in Ranges
      BY <1>1, RangesAre DEF Reset
    <3>2. seenE0' \in BOOLEAN /\ seenF0' \in BOOLEAN
      BY <1>1 DEF Reset, ValidatorIInv, TypeOK
    <3>3. /\ seenED' \in BOOLEAN /\ seenF4' \in BOOLEAN
          /\ refused' \in BOOLEAN /\ valid' \in BOOLEAN
      BY <1>1, Zenon DEF Reset
    <3>4. QED
      BY <3>1, <3>2, <3>3 DEF TypeOK
  <2>2. Synced'
    BY <1>1 DEF Reset, Synced
  <2>3. QED
    BY <2>1, <2>2 DEF ValidatorIInv
<1>2. ASSUME NEW b \in Byte, Validate(b) PROVE ValidatorIInv'
  BY <1>2, LeadKeeps, TailKeeps DEF Validate
<1>3. CASE UNCHANGED vars
  BY <1>3 DEF vars, flags, ValidatorIInv, TypeOK, Synced
<1>4. QED
  BY <1>1, <1>2, <1>3 DEF Next

LEMMA Invariant == Spec => []ValidatorIInv
<1>1. Init => ValidatorIInv
  BY InitInvariant
<1>2. ValidatorIInv /\ [Next]_vars => ValidatorIInv'
  BY NextInvariant
<1>3. QED
  BY <1>1, <1>2, PTL DEF Spec

-----------------------------------------------------------------------------
(* The theorems.                                                           *)

\* The count of continuation bytes stays between 0 and 3, every flag is a Boolean.
THEOREM TypeCorrect == Spec => []TypeOK
<1>1. ValidatorIInv => TypeOK
  BY DEF ValidatorIInv
<1>2. QED
  BY <1>1, Invariant, PTL

\* What validateChunk() has not refused is UTF-8 so far, and validateFinal() tells whether
\* it is complete: after any bytes in any number of messages.
THEOREM OnlyUtf8Accepted == Spec => []AcceptsOnlyUtf8
<1>1. ValidatorIInv => AcceptsOnlyUtf8
  BY DEF ValidatorIInv, Synced, AcceptsOnlyUtf8, validateFinal
<1>2. QED
  BY <1>1, Invariant, PTL

\* A byte that the validator refuses and the grammar does not.
LEMMA WronglyRefused ==
    ASSUME ValidatorIInv, ~refused, NEW b \in Byte, Validate(b), refused', valid'
    PROVE  seenE0 /\ expectedContinuation = 2 /\ range = Any
<1>1. Synced /\ valid /\ expectedContinuation = needs /\ needs \in 0 .. 3 /\ ~Invalid
  BY DEF ValidatorIInv, Synced, TypeOK, Invalid
<1>2. CASE BadTail(b)
  <2>1. needs \in 1 .. 3 /\ b \in range
    BY <1>1, <1>2, LaterByte DEF BadTail, Validate
  <2>2. b \in 128 .. 191 /\ Forbidden(b)
    BY <1>1, <1>2, <2>1, Masks DEF BadTail, Synced, Any
  <2>3. CASE needs = 1
    BY <1>1, <2>2, <2>3 DEF Forbidden
  <2>4. CASE needs = 2
    BY <1>1, <2>1, <2>2, <2>4 DEF Forbidden, Synced
  <2>5. CASE needs = 3
    BY <1>1, <2>1, <2>2, <2>5 DEF Forbidden, Synced
  <2>6. QED
    BY <2>1, <2>3, <2>4, <2>5
<1>3. CASE Lead2(b) \/ Lead4(b) \/ NoLead(b)
  <2>1. needs = 0 /\ b \in (128 .. 193) \cup (245 .. 255)
    <3>1. ~Expect(1) /\ ~Expect(3)
      BY DEF Expect
    <3>2. needs = 0
      BY <1>1, <1>3 DEF Lead2, Lead4, NoLead
    <3>3. CASE Lead2(b)
      BY <3>1, <3>2, <3>3, Masks DEF Lead2
    <3>4. CASE Lead4(b)
      BY <3>1, <3>2, <3>4, Masks DEF Lead4
    <3>5. CASE NoLead(b)
      BY <3>2, <3>5, Masks DEF NoLead, Byte
    <3>6. QED
      BY <1>3, <3>3, <3>4, <3>5
  <2>2. Invalid
    BY <1>1, <2>1, FirstByte DEF Validate
  <2>3. QED
    BY <1>1, <2>2
<1>4. CASE Ascii(b) \/ Lead3(b) \/ GoodTail(b)
  BY <1>4 DEF Ascii, Lead3, GoodTail, Expect
<1>5. QED
  BY <1>2, <1>3, <1>4 DEF Validate

\* Text that is UTF-8 is refused only when reset() has left seenE0 set.
THEOREM OnlyBadRefused == Spec => RefusesOnlyBad
<1>1. ValidatorIInv /\ [Next]_vars =>
         [~refused /\ refused' /\ valid' =>
             seenE0 /\ expectedContinuation = 2 /\ range = Any]_vars
  <2>1. SUFFICES ASSUME ValidatorIInv, Next, ~refused, refused', valid'
                 PROVE  seenE0 /\ expectedContinuation = 2 /\ range = Any
    OBVIOUS
  <2>2. CASE Reset
    BY <2>1, <2>2 DEF Reset
  <2>3. ASSUME NEW b \in Byte, Validate(b)
        PROVE  seenE0 /\ expectedContinuation = 2 /\ range = Any
    BY <2>1, <2>3, WronglyRefused
  <2>4. QED
    BY <2>1, <2>2, <2>3 DEF Next
<1>2. QED
  BY <1>1, Invariant, PTL DEF Spec, RefusesOnlyBad

-----------------------------------------------------------------------------
(* The roles of bytes.                                                     *)

\* What WscReceive calls a byte where RFC 3629 is in the middle of a text: the lead of a
\* character of so many bytes, a tail that may come here, or a byte that may not.
Role(b) ==
    CASE b \in 0 .. 127   -> "ascii"
      [] b \in 194 .. 223 -> "lead2"
      [] b \in 224 .. 239 -> "lead3"
      [] b \in 240 .. 244 -> "lead4"
      [] b \in range      -> "tail"
      [] OTHER            -> "bad"

\* The third byte of a character of four, when reset() has left seenE0 set.
LeftBehind(b) == seenE0 /\ expectedContinuation = 2 /\ range = Any /\ b \in 128 .. 159

\* One turn of the loop on a text that was not refused.
Judged(b) ==
    /\ refused' <=> ~Accepts(Role(b), expectedContinuation) \/ LeftBehind(b)
    /\ expectedContinuation' = IF refused' THEN expectedContinuation
                               ELSE After(Role(b), expectedContinuation)

\* A first byte.
LEMMA LeadHasRole ==
    ASSUME ValidatorIInv, ~refused, NEW b \in Byte,
           Ascii(b) \/ Lead2(b) \/ Lead3(b) \/ Lead4(b) \/ NoLead(b)
    PROVE  Judged(b)
<1>1. /\ expectedContinuation = 0 /\ range = Any /\ b \in 0 .. 255
      /\ ~LeftBehind(b)
  BY DEF Ascii, Lead2, Lead3, Lead4, NoLead, ValidatorIInv, Synced, LeftBehind, Byte
<1> DEFINE Goes(ok, n) == IF ok THEN ~refused' /\ expectedContinuation' = n
                          ELSE refused' /\ expectedContinuation' = 0
<1>2. ASSUME NEW role, Role(b) = role, Goes(Accepts(role, 0), After(role, 0))
      PROVE  Judged(b)
  BY <1>1, <1>2 DEF Judged
<1>3. CASE Ascii(b)
  <2>1. Role(b) = "ascii" /\ ~refused' /\ expectedContinuation' = 0
    BY <1>1, <1>3 DEF Ascii, Role, Any
  <2>2. QED
    BY <1>2, <2>1 DEF Accepts, After, Follows
<1>4. CASE Lead2(b)
  <2>1. b \in 192 .. 223
    BY <1>4, Masks DEF Lead2
  <2>2. CASE b < 194
    <3>1. Role(b) = "bad" /\ refused' /\ expectedContinuation' = 0
      BY <1>1, <1>4, <2>1, <2>2 DEF Lead2, Refuse, Role, Any
    <3>2. QED
      BY <1>2, <3>1 DEF Accepts
  <2>3. CASE b >= 194
    <3>1. Role(b) = "lead2" /\ ~refused' /\ expectedContinuation' = 1
      BY <1>1, <1>4, <2>1, <2>3 DEF Lead2, Expect, Role, Any
    <3>2. QED
      BY <1>2, <3>1 DEF Accepts, After, Follows
  <2>4. QED
    BY <2>1, <2>2, <2>3
<1>5. CASE Lead3(b)
  <2>1. b \in 224 .. 239 /\ ~refused' /\ expectedContinuation' = 2
    BY <1>5, Masks DEF Lead3, Expect
  <2>2. Role(b) = "lead3"
    BY <1>1, <2>1 DEF Role, Any
  <2>3. QED
    BY <1>2, <2>1, <2>2 DEF Accepts, After, Follows
<1>6. CASE Lead4(b)
  <2>1. b \in 240 .. 247
    BY <1>6, Masks DEF Lead4
  <2>2. CASE b > 244
    <3>1. Role(b) = "bad" /\ refused' /\ expectedContinuation' = 0
      BY <1>1, <1>6, <2>1, <2>2 DEF Lead4, Refuse, Role, Any
    <3>2. QED
      BY <1>2, <3>1 DEF Accepts
  <2>3. CASE b <= 244
    <3>1. Role(b) = "lead4" /\ ~refused' /\ expectedContinuation' = 3
      BY <1>1, <1>6, <2>1, <2>3 DEF Lead4, Expect, Role, Any
    <3>2. QED
      BY <1>2, <3>1 DEF Accepts, After, Follows
  <2>4. QED
    BY <2>1, <2>2, <2>3
<1>7. CASE NoLead(b)
  <2>1. /\ b \in 128 .. 191 \/ b \in 248 .. 255
        /\ refused' /\ expectedContinuation' = 0
    BY <1>1, <1>7, Masks DEF NoLead, Refuse
  <2>2. Role(b) \in {"tail", "bad"}
    BY <2>1 DEF Role
  <2>3. ~Accepts(Role(b), 0)
    BY <2>2 DEF Accepts
  <2>4. QED
    BY <1>1, <2>1, <2>3 DEF Judged
<1>8. QED
  BY <1>3, <1>4, <1>5, <1>6, <1>7

\* A later byte.
LEMMA TailHasRole ==
    ASSUME ValidatorIInv, ~refused, NEW b \in Byte, BadTail(b) \/ GoodTail(b)
    PROVE  Judged(b)
<1>1. /\ Synced /\ needs \in 1 .. 3 /\ expectedContinuation = needs /\ b \in 0 .. 255
  BY DEF BadTail, GoodTail, ValidatorIInv, Synced, TypeOK, Byte
<1>2. Accepts(Role(b), needs) <=> b \in range
  <2>1. b \in range => b \in 128 .. 191
    BY <1>1 DEF Synced, Any
  <2>2. Role(b) = "tail" <=> b \in range
    BY <2>1 DEF Role
  <2>3. QED
    BY <1>1, <2>2 DEF Accepts
<1>3. CASE GoodTail(b)
  <2>1. /\ b \in 128 .. 191 /\ ~Forbidden(b)
        /\ ~refused' /\ expectedContinuation' = needs - 1
    BY <1>1, <1>3, Masks DEF GoodTail, Expect
  <2>2. b \in range
    BY <1>1, <2>1, AllowedTail
  <2>3. ~LeftBehind(b)
    BY <2>1 DEF LeftBehind, Forbidden
  <2>4. After(Role(b), needs) = needs - 1
    BY <1>1, <1>2, <2>2 DEF After
  <2>5. QED
    BY <1>1, <1>2, <2>1, <2>2, <2>3, <2>4 DEF Judged
<1>4. CASE BadTail(b)
  <2>1. /\ b \in 128 .. 191 => Forbidden(b)
        /\ refused' /\ expectedContinuation' = needs
    BY <1>1, <1>4, Masks DEF BadTail, Refuse
  <2>2. ASSUME b \in range PROVE LeftBehind(b)
    <3>1. b \in 128 .. 191 /\ Forbidden(b)
      BY <1>1, <2>1, <2>2 DEF Synced, Any
    <3>2. CASE needs = 1
      BY <1>1, <3>1, <3>2 DEF Forbidden
    <3>3. CASE needs = 2
      BY <1>1, <2>2, <3>1, <3>3 DEF Forbidden, Synced, LeftBehind
    <3>4. CASE needs = 3
      BY <1>1, <2>2, <3>1, <3>4 DEF Forbidden, Synced
    <3>5. QED
      BY <1>1, <3>2, <3>3, <3>4
  <2>3. QED
    BY <1>1, <1>2, <2>1, <2>2 DEF Judged
<1>5. QED
  BY <1>3, <1>4

\* In every state that the validator can be in, whatever earlier texts left there, it does
\* with a byte what WscReceive says of the byte's role, characters of four bytes included;
\* the flag that reset() leaves behind refuses exactly the bytes below A0 in the place
\* where WscReceive's Refused has it.
THEOREM BytesHaveRoles == Spec => [][\A b \in Byte : ~refused /\ Validate(b) => Judged(b)]_vars
<1>1. ValidatorIInv /\ [Next]_vars =>
         [\A b \in Byte : ~refused /\ Validate(b) => Judged(b)]_vars
  BY LeadHasRole, TailHasRole DEF Validate
<1>2. QED
  BY <1>1, Invariant, PTL DEF Spec

-----------------------------------------------------------------------------
(* WscReceive: the inductive invariant.                                    *)

\* Until the client closes, the frames are in order ...
InOrder ==
    /\ ~ended
    /\ \A i \in 1 .. Len(wire) : /\ wire[i].rsv1 => use_compression
                                 /\ i \in Starts <=> i = 1 \/ wire[i - 1].fin
    /\ message_in_progress = (Len(wire) > 0 /\ ~wire[Len(wire)].fin)

\* ... the handlers have what came of the message in progress ...
Gathered(i) ==
    /\ Reaches(i, Len(wire))
    /\ fragmented_message = Content(i, Len(wire))
    /\ fragmented_opcode = wire[i].op
    /\ compressed_message_in_progress = wire[i].rsv1

InHand ==
    message_in_progress => \E i \in 1 .. Len(wire) : Gathered(i)

\* ... the validator knows what is to come of it, and is fresh when it is not asked ...
Validated ==
    IF message_in_progress /\ Checked THEN TextBut(fragmented_message, utf8Validator)
    ELSE utf8Validator = 0

\* ... its flag is not one that reset() left, nor that of a character that is complete ...
Fresh == flagE0 # "left" /\ (utf8Validator = 0 => flagE0 = "no")

\* ... and the messages before it were delivered, and validated with one exception.
Delivered ==
    /\ Len(delivered) = Ended(Len(wire))
    /\ \A i, j \in 1 .. Len(wire) : Message(i, j) =>
          /\ delivered[Ended(j)] = [op |-> wire[i].op, content |-> Content(i, j)]
          /\ wire[i].op = "text" /\ (wire[i].rsv1 => i = j) => ValidText(Content(i, j))

ReceiveIInv ==
    /\ ReceiveTypeOK
    /\ ~message_in_progress => ~compressed_message_in_progress
    /\ sent_close => ~WellFormed
    /\ ~sent_close => InOrder /\ InHand /\ Validated /\ Fresh /\ Delivered

Roles == {"ascii", "lead2", "lead3", "lead4", "tail", "bad", "corrupt"}

-----------------------------------------------------------------------------
(* Text, byte by byte.                                                     *)

LEMMA FollowsType == \A b : Follows(b) \in 0 .. 3
  BY DEF Follows

LEMMA NothingIsText == TextBut(<<>>, 0)
  BY DEF TextBut

\* What is still to come of a text is told by what is there.
LEMMA ToComeIsKnown ==
    ASSUME NEW s, Len(s) \in Nat, NEW m \in Nat, NEW n \in Nat, TextBut(s, m), TextBut(s, n)
    PROVE  m = n
<1>1. ASSUME NEW k \in Nat, NEW l \in Nat, k < l, TextBut(s, k), TextBut(s, l) PROVE FALSE
  <2>1. PICK p \in 1 .. Len(s) : Len(s) + l <= p + Follows(s[p])
    BY <1>1 DEF TextBut
  <2>2. p + Follows(s[p]) <= Len(s) + k
    BY <1>1 DEF TextBut
  <2>3. QED
    BY <1>1, <2>1, <2>2, FollowsType
<1>2. QED
  BY <1>1

\* A byte that the validator accepts leaves as much to come as the validator says.
LEMMA AcceptedText ==
    ASSUME NEW s \in Seq(Roles), NEW e \in 0 .. 3, NEW b \in Roles,
           TextBut(s, e), Accepts(b, e)
    PROVE  After(b, e) \in 0 .. 3 /\ TextBut(Append(s, b), After(b, e))
<1> DEFINE t == Append(s, b)  n == Len(s)  f == After(b, e)
<1>1. n \in Nat /\ Len(t) = n + 1 /\ t[n + 1] = b /\ \A p \in 1 .. n : t[p] = s[p]
  OBVIOUS
<1>2. f = IF e > 0 THEN e - 1 ELSE Follows(b)
  BY DEF After
<1>3. f \in 0 .. 3
  BY <1>2, FollowsType
<1>4. b \in {"ascii", "lead2", "lead3", "lead4", "tail"} /\ (b = "tail" <=> e > 0)
  BY DEF Accepts
<1>5. b = "tail" => Follows(b) = 0
  BY DEF Follows
<1>6. \A p \in 1 .. n + 1 : t[p] \in {"ascii", "lead2", "lead3", "lead4", "tail"}
  BY <1>1, <1>4 DEF TextBut
<1>7. ASSUME NEW p \in 1 .. n + 1
      PROVE  /\ p + Follows(t[p]) <= n + 1 + f
             /\ \A q \in p + 1 .. p + Follows(t[p]) : q <= n + 1 => t[q] = "tail"
  <2>1. CASE p = n + 1
    BY <1>1, <1>2, <1>3, <1>4, <1>5, <2>1, FollowsType
  <2>2. CASE p \in 1 .. n
    <3>1. /\ t[p] = s[p] /\ p + Follows(s[p]) <= n + e
          /\ \A q \in p + 1 .. p + Follows(s[p]) : q <= n => s[q] = "tail"
      BY <1>1, <2>2 DEF TextBut
    <3>2. p + Follows(t[p]) <= n + 1 + f
      BY <1>2, <1>3, <3>1, FollowsType, <1>1
    <3>3. ASSUME NEW q \in p + 1 .. p + Follows(t[p]), q <= n + 1 PROVE t[q] = "tail"
      <4>1. CASE q = n + 1
        BY <1>1, <1>4, <3>1, <3>3, <4>1, FollowsType
      <4>2. CASE q \in 1 .. n
        BY <1>1, <3>1, <3>3, <4>2
      <4>3. QED
        BY <3>3, <4>1, <4>2, <1>1, FollowsType
    <3>4. QED
      BY <3>2, <3>3
  <2>3. QED
    BY <2>1, <2>2, <1>1
<1>8. ASSUME NEW q \in 1 .. n + 1 + f, q <= n + 1 => t[q] = "tail"
      PROVE  \E p \in 1 .. n + 1 : p < q /\ q <= p + Follows(t[p])
  <2>1. CASE q \in 1 .. n + e /\ (q <= n => s[q] = "tail")
    <3>1. PICK p \in 1 .. n : p < q /\ q <= p + Follows(s[p])
      BY <2>1 DEF TextBut
    <3>2. QED
      BY <1>1, <3>1
  <2>2. CASE e = 0 /\ q > n + 1
    <3>1. n + 1 < q /\ q <= (n + 1) + Follows(t[n + 1])
      BY <1>1, <1>2, <2>2, <1>3
    <3>2. QED
      BY <3>1, <1>1
  <2>3. CASE e = 0 /\ q = n + 1
    BY <1>1, <1>4, <1>8, <2>3
  <2>4. q <= n => t[q] = s[q]
    BY <1>1
  <2>5. QED
    BY <1>1, <1>2, <1>3, <1>8, <2>1, <2>2, <2>3, <2>4
<1>9. QED
  BY <1>1, <1>3, <1>6, <1>7, <1>8 DEF TextBut

\* A byte that the validator refuses cannot be followed by anything that makes it text.
LEMMA RefusedText ==
    ASSUME NEW s \in Seq(Roles), NEW e \in 0 .. 3, NEW b \in Roles,
           TextBut(s, e), ~Accepts(b, e), NEW m \in Nat
    PROVE  ~TextBut(Append(s, b), m)
<1> DEFINE t == Append(s, b)  n == Len(s)
<1>1. n \in Nat /\ Len(t) = n + 1 /\ t[n + 1] = b /\ \A p \in 1 .. n : t[p] = s[p]
  OBVIOUS
<1> SUFFICES ASSUME TextBut(t, m) PROVE FALSE
  OBVIOUS
<1>2. CASE e > 0
  <2>1. PICK p \in 1 .. n : p < n + 1 /\ n + 1 <= p + Follows(s[p])
    BY <1>1, <1>2 DEF TextBut
  <2>2. t[n + 1] = "tail"
    BY <1>1, <2>1, FollowsType DEF TextBut
  <2>3. QED
    BY <1>1, <1>2, <2>2 DEF Accepts
<1>3. CASE e = 0
  <2>1. b \in {"ascii", "lead2", "lead3", "lead4", "tail"}
    BY <1>1 DEF TextBut
  <2>2. b = "tail"
    BY <1>3, <2>1 DEF Accepts
  <2>3. PICK p \in 1 .. n + 1 : p < n + 1 /\ n + 1 <= p + Follows(t[p])
    BY <1>1, <2>2 DEF TextBut
  <2>4. p \in 1 .. n /\ t[p] = s[p] /\ p + Follows(s[p]) <= n
    BY <1>1, <1>3, <2>3 DEF TextBut
  <2>5. QED
    BY <1>1, <2>3, <2>4, FollowsType
<1>4. QED
  BY <1>2, <1>3

\* A message of one byte, or its first.
LEMMA OneByte ==
    ASSUME NEW b \in Roles
    PROVE  IF Accepts(b, 0) THEN After(b, 0) \in 0 .. 3 /\ TextBut(<<b>>, After(b, 0))
           ELSE \A m \in Nat : ~TextBut(<<b>>, m)
<1>1. <<>> \in Seq(Roles)
  OBVIOUS
<1>2. PICK e \in Seq(Roles) : e = <<>>
  BY <1>1, Zenon
<1>3. TextBut(e, 0) /\ 0 \in 0 .. 3
  BY <1>2, NothingIsText
<1>4. Append(e, b) = <<b>>
  BY <1>2
<1>5. Accepts(b, 0) => After(b, 0) \in 0 .. 3 /\ TextBut(Append(e, b), After(b, 0))
  BY <1>3, AcceptedText
<1>6. ~Accepts(b, 0) => \A m \in Nat : ~TextBut(Append(e, b), m)
  BY <1>3, RefusedText
<1>7. QED
  BY <1>4, <1>5, <1>6

-----------------------------------------------------------------------------
(* Frames.                                                                 *)

LEMMA FrameTypes ==
    /\ \A f \in DataFrames :
          /\ f.op \in {"text", "binary", "continuation"}
          /\ f.byte \in Contents /\ f.fin \in BOOLEAN /\ f.rsv1 \in BOOLEAN
          /\ f.op = "binary" => f.byte = "ascii"
          /\ f \notin ControlFrames
    /\ \A f \in ControlFrames : f \notin DataFrames
<1>1. \A f \in DataFrames :
         /\ f.op \in {"text", "binary", "continuation"}
         /\ f.byte \in Contents /\ f.fin \in BOOLEAN /\ f.rsv1 \in BOOLEAN
         /\ f.op = "binary" => f.byte = "ascii"
  BY DEF DataFrames, Contents
<1>2. \A f \in ControlFrames : f.op \in {"ping", "closing"}
  BY DEF ControlFrames, Control
<1>3. QED
  BY <1>1, <1>2

LEMMA ContentsAreRoles == Contents \subseteq Roles
  BY FramesAssumption DEF Contents, Roles

\* A set of numbers counted up to j.
LEMMA EndsAreFinite ==
    \A j \in Nat : /\ IsFiniteSet({k \in 1 .. j : wire[k].fin})
                   /\ Ended(j) \in Nat
<1> SUFFICES ASSUME NEW j \in Nat
             PROVE  IsFiniteSet({k \in 1 .. j : wire[k].fin}) /\ Ended(j) \in Nat
  OBVIOUS
<1>1. IsFiniteSet(1 .. j)
  BY FS_Interval
<1>2. IsFiniteSet({k \in 1 .. j : wire[k].fin})
  BY <1>1, FS_Subset
<1>3. QED
  BY <1>2, FS_CardinalityType DEF Ended

LEMMA EndedGrows ==
    ASSUME NEW j \in Nat, NEW m \in Nat, j <= m
    PROVE  Ended(j) <= Ended(m) /\ (j > 0 /\ wire[j].fin => Ended(j) > 0)
<1>1. {k \in 1 .. j : wire[k].fin} \subseteq {k \in 1 .. m : wire[k].fin}
  OBVIOUS
<1>2. Ended(j) <= Ended(m)
  BY <1>1, EndsAreFinite, FS_Subset DEF Ended
<1>3. ASSUME j > 0, wire[j].fin PROVE Ended(j) > 0
  <2>1. {k \in 1 .. j : wire[k].fin} # {}
    BY <1>3
  <2>2. Cardinality({k \in 1 .. j : wire[k].fin}) # 0
    BY <2>1, EndsAreFinite, FS_EmptySet
  <2>3. QED
    BY <2>2, EndsAreFinite DEF Ended
<1>4. QED
  BY <1>2, <1>3

LEMMA NothingEnded == Ended(0) = 0
<1>1. {k \in 1 .. 0 : wire[k].fin} = {}
  OBVIOUS
<1>2. QED
  BY <1>1, FS_EmptySet DEF Ended

\* What a data frame that arrives changes in the wire, and what it leaves alone.
LEMMA Arrives ==
    ASSUME wire \in Seq(DataFrames), NEW frame \in DataFrames, Receives(frame)
    PROVE  /\ Len(wire) \in Nat /\ Len(wire') = Len(wire) + 1
           /\ wire' \in Seq(DataFrames) /\ ended' = ended
           /\ wire'[Len(wire) + 1] = frame
           /\ \A k \in 1 .. Len(wire) : wire'[k] = wire[k]
<1>1. wire' = Append(wire, frame) /\ ended' = ended
  BY DEF Receives
<1>2. QED
  BY <1>1

LEMMA OldFramesStay ==
    ASSUME wire \in Seq(DataFrames), NEW frame \in DataFrames, Receives(frame),
           NEW i \in 1 .. Len(wire)
    PROVE  /\ (i \in Starts)' <=> i \in Starts
           /\ \A j \in 1 .. Len(wire) : /\ Reaches(i, j)' <=> Reaches(i, j)
                                        /\ Message(i, j)' <=> Message(i, j)
                                        /\ Content(i, j)' = Content(i, j)
<1> DEFINE n == Len(wire)
<1>1. /\ n \in Nat /\ Len(wire') = n + 1
      /\ \A k \in 1 .. n : wire'[k] = wire[k]
  BY Arrives
<1>2. (i \in Starts)' <=> i \in Starts
  BY <1>1 DEF Starts
<1>3. ASSUME NEW j \in 1 .. n PROVE Reaches(i, j)' <=> Reaches(i, j)
  <2>1. \A k \in i .. j - 1 : k \in 1 .. n
    BY <1>1
  <2>2. (\A k \in i .. j - 1 : ~wire'[k].fin) <=> (\A k \in i .. j - 1 : ~wire[k].fin)
    BY <1>1, <2>1
  <2>3. j \in i .. Len(wire') <=> j \in i .. Len(wire)
    BY <1>1
  <2>4. QED
    BY <1>2, <2>2, <2>3 DEF Reaches
<1>4. ASSUME NEW j \in 1 .. n PROVE Content(i, j)' = Content(i, j)
  <2>1. \A k \in 1 .. j - i + 1 : i + k - 1 \in 1 .. n
    BY <1>1
  <2>2. \A k \in 1 .. j - i + 1 : wire'[i + k - 1].byte = wire[i + k - 1].byte
    BY <1>1, <2>1
  <2>3. QED
    BY <2>2 DEF Content
<1>5. ASSUME NEW j \in 1 .. n PROVE Message(i, j)' <=> Message(i, j)
  BY <1>1, <1>3 DEF Message
<1>6. QED
  BY <1>2, <1>3, <1>4, <1>5

LEMMA NewFrameJoins ==
    ASSUME wire \in Seq(DataFrames), NEW frame \in DataFrames, Receives(frame),
           NEW n \in Nat, n = Len(wire), NEW i \in 1 .. n
    PROVE  /\ Reaches(i, n + 1)' <=> Reaches(i, n) /\ ~wire[n].fin
           /\ Content(i, n + 1)' = Append(Content(i, n), frame.byte)
<1>1. /\ n \in Nat /\ Len(wire') = n + 1 /\ wire'[n + 1] = frame
      /\ \A k \in 1 .. n : wire'[k] = wire[k]
  BY Arrives
<1>2. (i \in Starts)' <=> i \in Starts
  BY OldFramesStay
<1>3. (\A k \in i .. (n + 1) - 1 : ~wire'[k].fin)
         <=> (\A k \in i .. n - 1 : ~wire[k].fin) /\ ~wire[n].fin
  <2>1. \A k \in i .. n : wire'[k] = wire[k]
    BY <1>1
  <2>2. (n + 1) - 1 = n /\ i .. n = (i .. n - 1) \cup {n}
    OBVIOUS
  <2>3. QED
    BY <2>1, <2>2
<1>4. Reaches(i, n + 1)' <=> Reaches(i, n) /\ ~wire[n].fin
  <2>1. n + 1 \in i .. Len(wire') /\ n \in i .. Len(wire)
    BY <1>1
  <2>2. QED
    BY <1>2, <1>3, <2>1 DEF Reaches
<1>5. Content(i, n + 1)' = Append(Content(i, n), frame.byte)
  <2> DEFINE c == Content(i, n)  d == [k \in 1 .. (n + 1) - i + 1 |-> wire'[i + k - 1].byte]
             m == n - i + 1
  <2>1. c = [k \in 1 .. m |-> wire[i + k - 1].byte] /\ Content(i, n + 1)' = d
    BY DEF Content
  <2>2. m \in Nat /\ (n + 1) - i + 1 = m + 1
    BY <1>1
  <2>3. \A k \in 1 .. m : wire'[i + k - 1] = wire[i + k - 1]
    BY <1>1, <2>2
  <2>4. wire'[i + (m + 1) - 1] = frame
    BY <1>1, <2>2
  <2>5. Len(c) = m
    BY <2>1, <2>2
  <2>6. Append(c, frame.byte) = [k \in 1 .. m + 1 |-> IF k = m + 1 THEN frame.byte ELSE c[k]]
    BY <2>5, <2>1, <2>2
  <2>7. ASSUME NEW k \in 1 .. m + 1
        PROVE  d[k] = IF k = m + 1 THEN frame.byte ELSE c[k]
    <3>1. d[k] = wire'[i + k - 1].byte
      BY <2>2
    <3>2. CASE k = m + 1
      BY <2>4, <3>1, <3>2
    <3>3. CASE k \in 1 .. m
      <4>1. c[k] = wire[i + k - 1].byte
        BY <2>1, <3>3
      <4>2. wire'[i + k - 1] = wire[i + k - 1]
        BY <2>3, <3>3
      <4>3. k # m + 1
        BY <2>2, <3>3
      <4>4. QED
        BY <3>1, <4>1, <4>2, <4>3
    <3>4. QED
      BY <2>2, <3>2, <3>3
  <2>8. QED
    BY <2>1, <2>2, <2>6, <2>7
<1>6. QED
  BY <1>4, <1>5

LEMMA NewFrameBegins ==
    ASSUME wire \in Seq(DataFrames), NEW frame \in DataFrames, Receives(frame),
           NEW n \in Nat, n = Len(wire) + 1
    PROVE  /\ (n \in Starts)' <=> frame.op # "continuation"
           /\ Reaches(n, n)' <=> frame.op # "continuation"
           /\ Content(n, n)' = <<frame.byte>>
           /\ \A i \in 1 .. n : Message(i, n)' <=> Reaches(i, n)' /\ frame.fin
           /\ \A i, j \in 1 .. n : Reaches(i, j)' => i <= j
<1>1. n \in Nat \ {0} /\ Len(wire') = n /\ wire'[n] = frame
  BY Arrives
<1>2. (n \in Starts)' <=> frame.op # "continuation"
  BY <1>1 DEF Starts
<1>3. Reaches(n, n)' <=> frame.op # "continuation"
  BY <1>1, <1>2 DEF Reaches
<1>4. Content(n, n)' = <<frame.byte>>
  <2>1. Content(n, n)' = [k \in 1 .. n - n + 1 |-> wire'[n + k - 1].byte]
    BY DEF Content
  <2>2. n - n + 1 = 1 /\ \A k \in 1 .. 1 : n + k - 1 = n
    BY <1>1
  <2>3. QED
    BY <1>1, <2>1, <2>2
<1>5. QED
  BY <1>1, <1>2, <1>3, <1>4 DEF Message, Reaches

LEMMA EndsCount ==
    ASSUME wire \in Seq(DataFrames), NEW frame \in DataFrames, Receives(frame),
           NEW n \in Nat, n = Len(wire)
    PROVE  /\ \A j \in 0 .. n : Ended(j)' = Ended(j)
           /\ Ended(n + 1)' = Ended(n) + (IF frame.fin THEN 1 ELSE 0)
<1> DEFINE E(j) == {k \in 1 .. j : wire[k].fin}
           F(j) == {k \in 1 .. j : wire'[k].fin}
<1>1. /\ n \in Nat /\ wire'[n + 1] = frame
      /\ \A k \in 1 .. n : wire'[k] = wire[k]
  BY Arrives
<1>2. \A j \in 0 .. n : F(j) = E(j)
  BY <1>1
<1>3. F(n + 1) = IF frame.fin THEN E(n) \cup {n + 1} ELSE E(n)
  BY <1>1
<1>4. IsFiniteSet(E(n)) /\ n + 1 \notin E(n) /\ Cardinality(E(n)) \in Nat
  BY <1>1, EndsAreFinite, FS_CardinalityType
<1>5. Cardinality(E(n) \cup {n + 1}) = Cardinality(E(n)) + 1
  BY <1>4, FS_AddElement
<1>6. Cardinality(F(n + 1)) = Cardinality(E(n)) + (IF frame.fin THEN 1 ELSE 0)
  <2> HIDE DEF E, F
  <2>1. CASE frame.fin
    BY <1>3, <1>5, <2>1
  <2>2. CASE ~frame.fin
    BY <1>3, <1>4, <2>2
  <2>3. QED
    BY <2>1, <2>2
<1>7. \A j \in 0 .. n : Ended(j)' = Ended(j)
  BY <1>2 DEF Ended
<1>8. QED
  BY <1>6, <1>7 DEF Ended

LEMMA AfterType == \A b : \A e \in 0 .. 3 : After(b, e) \in 0 .. 3
  BY FollowsType DEF After, Accepts

\* Every step keeps the types, and a message that is not in progress is not compressed.
LEMMA TypeStep ==
    ASSUME ReceiveTypeOK, ~message_in_progress => ~compressed_message_in_progress, ReceiveNext
    PROVE  ReceiveTypeOK' /\ (~message_in_progress => ~compressed_message_in_progress)'
<1> USE DEF ReceiveTypeOK, fragments, validator
<1>1. ASSUME NEW frame \in DataFrames \cup ControlFrames, Receives(frame)
      PROVE  /\ wire' \in Seq(DataFrames) /\ ended' \in BOOLEAN
             /\ pongs + 1 \in 0 .. MaxFrames
  <2>1. wire' \in Seq(DataFrames)
    <3>1. wire' = wire \/ (frame \in DataFrames /\ wire' = Append(wire, frame))
      BY <1>1 DEF Receives
    <3>2. wire \in Seq(DataFrames)
      OBVIOUS
    <3> HIDE DEF ReceiveTypeOK
    <3>3. QED
      BY <3>1, <3>2
  <2>2. pongs + 1 \in 0 .. MaxFrames
    BY <1>1, FramesAssumption DEF Receives
  <2>3. ended' = ended \/ ended' = (ended \/ frame # Control("ping", "none"))
    BY <1>1 DEF Receives
  <2>4. ended' \in BOOLEAN
    BY <2>3, Zenon
  <2>5. QED
    BY <2>1, <2>2, <2>4
<1>2. ASSUME NEW frame \in DataFrames \cup ControlFrames, ProtocolError(frame)
      PROVE  ReceiveTypeOK' /\ (~message_in_progress => ~compressed_message_in_progress)'
  BY <1>1, <1>2 DEF ProtocolError, Close
<1>3. ASSUME NEW frame \in ControlFrames, ControlFrame(frame)
      PROVE  ReceiveTypeOK' /\ (~message_in_progress => ~compressed_message_in_progress)'
  BY <1>1, <1>3 DEF ControlFrame, Close
<1>4. ASSUME NEW frame \in DataFrames,
             \/ UnexpectedData(frame)
             \/ UnexpectedContinuation(frame)
      PROVE  ReceiveTypeOK' /\ (~message_in_progress => ~compressed_message_in_progress)'
  BY <1>1, <1>4 DEF UnexpectedData, UnexpectedContinuation, Close
<1>5. ASSUME NEW frame \in DataFrames
      PROVE  /\ frame.op \in {"text", "binary", "continuation"} /\ frame.byte \in Contents
             /\ frame.fin \in BOOLEAN /\ frame.rsv1 \in BOOLEAN
             /\ <<frame.byte>> \in Seq(Contents) /\ <<frame.byte>> # <<>>
             /\ After(frame.byte, 0) \in 0 .. 3 /\ After(frame.byte, utf8Validator) \in 0 .. 3
             /\ \A e, flag : flag \in {"no", "now", "left"} =>
                    Flags(frame.byte, e, flag) \subseteq {"no", "now", "left"}
             /\ AfterReset \in {"no", "now", "left"}
  BY FrameTypes, AfterType DEF Flags, AfterReset
<1>6. ASSUME NEW frame \in DataFrames, FirstFragment(frame)
      PROVE  ReceiveTypeOK' /\ (~message_in_progress => ~compressed_message_in_progress)'
  <2>1. /\ utf8Validator' \in 0 .. 3 /\ flagE0' \in {"no", "now", "left"}
        /\ sent_close' \in BOOLEAN /\ delivered' = delivered
    BY <1>5, <1>6 DEF FirstFragment, ValidateAnew, Close
  <2>2. QED
    BY <1>1, <1>5, <1>6, <2>1 DEF FirstFragment
<1>7. ASSUME NEW frame \in DataFrames, WholeMessage(frame)
      PROVE  ReceiveTypeOK' /\ (~message_in_progress => ~compressed_message_in_progress)'
  <2>1. /\ utf8Validator' \in 0 .. 3 /\ flagE0' \in {"no", "now", "left"}
        /\ sent_close' \in BOOLEAN
    BY <1>5, <1>7 DEF WholeMessage, ValidateAnew, Close, Deliver
  <2>2. ASSUME NEW op \in {"text", "binary"}, Deliver(op, <<frame.byte>>)
        PROVE  delivered' \in Seq([op : {"text", "binary"}, content : Seq(Contents)])
    BY <1>5, <2>2 DEF Deliver
  <2>3. delivered' \in Seq([op : {"text", "binary"}, content : Seq(Contents)])
    BY <1>7, <2>2 DEF WholeMessage, Close
  <2>4. QED
    BY <1>1, <1>7, <2>1, <2>3 DEF WholeMessage
<1>8. ASSUME NEW frame \in DataFrames
      PROVE  /\ Extended(frame) \in Seq(Contents) /\ Extended(frame) # <<>>
             /\ \A belowA0 : ValidateMore(frame, belowA0) =>
                    utf8Validator' \in 0 .. 3 /\ flagE0' \in {"no", "now", "left"}
  <2>1. Extended(frame) \in Seq(Contents) /\ Len(Extended(frame)) = Len(fragmented_message) + 1
    BY <1>5 DEF Extended
  <2>2. Extended(frame) # <<>>
    BY <2>1
  <2>3. \A belowA0 : ValidateMore(frame, belowA0) =>
           utf8Validator' \in 0 .. 3 /\ flagE0' \in {"no", "now", "left"}
    BY <1>5 DEF ValidateMore
  <2>4. QED
    BY <2>1, <2>2, <2>3
<1>9. ASSUME NEW frame \in DataFrames, NEW belowA0 \in BOOLEAN, Continuation(frame, belowA0)
      PROVE  ReceiveTypeOK' /\ (~message_in_progress => ~compressed_message_in_progress)'
  <2>1. <<"corrupt">> \in Seq(Contents) /\ <<"corrupt">> # <<>>
    BY DEF Contents
  <2>2. fragmented_message' \in Seq(Contents) /\ fragmented_message' # <<>>
    BY <1>8, <1>9, <2>1 DEF Continuation
  <2>3. /\ utf8Validator' \in 0 .. 3 /\ flagE0' \in {"no", "now", "left"}
        /\ sent_close' \in BOOLEAN /\ delivered' = delivered
    BY <1>8, <1>9 DEF Continuation, Close
  <2>4. QED
    BY <1>1, <1>9, <2>2, <2>3 DEF Continuation
<1>10. ASSUME NEW frame \in DataFrames, NEW belowA0 \in BOOLEAN, FinalFragment(frame, belowA0)
       PROVE  ReceiveTypeOK' /\ (~message_in_progress => ~compressed_message_in_progress)'
  <2>1. delivered' \in Seq([op : {"text", "binary"}, content : Seq(Contents)])
    BY <1>8, <1>10 DEF FinalFragment, Deliver
  <2>2. utf8Validator' \in 0 .. 3 /\ flagE0' \in {"no", "now", "left"}
    BY <1>8, <1>10 DEF FinalFragment
  <2>3. <<>> \in Seq(Contents)
    OBVIOUS
  <2>4. QED
    BY <1>1, <1>10, <2>1, <2>2, <2>3 DEF FinalFragment
<1>11. QED
  BY <1>2, <1>3, <1>4, <1>6, <1>7, <1>9, <1>10 DEF ReceiveNext

-----------------------------------------------------------------------------
(* What breaks the protocol.                                               *)

LEMMA NewFrameBreaks ==
    ASSUME wire \in Seq(DataFrames), NEW frame \in DataFrames, Receives(frame),
           UNCHANGED use_compression, NEW n \in Nat, n = Len(wire)
    PROVE  /\ frame.rsv1 /\ ~use_compression => ~WellFormed'
           /\ frame.op # "continuation" /\ n > 0 /\ ~wire[n].fin => ~WellFormed'
           /\ frame.op = "continuation" /\ (n = 0 \/ wire[n].fin) => ~WellFormed'
           /\ frame.byte = "corrupt" => ~WellFormed'
<1>1. /\ Len(wire') = n + 1 /\ wire'[n + 1] = frame
      /\ \A k \in 1 .. n : wire'[k] = wire[k]
  BY Arrives
<1>2. (n + 1 \in Starts)' <=> frame.op # "continuation"
  BY NewFrameBegins
<1>3. n + 1 \in 1 .. Len(wire') /\ (n + 1) - 1 = n
  BY <1>1
<1>4. WellFormed' => /\ frame.rsv1 => use_compression
                     /\ (n + 1 \in Starts)' <=> n + 1 = 1 \/ wire'[n].fin
                     /\ frame.byte # "corrupt"
  BY <1>1, <1>3 DEF WellFormed
<1>5. n > 0 => wire'[n] = wire[n]
  BY <1>1
<1>6. QED
  BY <1>2, <1>4, <1>5

LEMMA NewByteBreaks ==
    ASSUME wire \in Seq(DataFrames), NEW frame \in DataFrames, Receives(frame),
           NEW n \in Nat, n = Len(wire),
           NEW i \in 1 .. n + 1, Reaches(i, n + 1)', wire'[i].op = "text",
           NEW s, Content(i, n + 1)' = s,
           IF frame.fin THEN ~ValidText(s) ELSE ~ValidSoFar(s)
    PROVE  ~WellFormed'
<1>1. Len(wire') = n + 1 /\ wire'[n + 1] = frame
  BY Arrives
<1>2. WellFormed' => IF wire'[n + 1].fin THEN ValidText(Content(i, n + 1)')
                     ELSE ValidSoFar(Content(i, n + 1)')
  BY <1>1 DEF WellFormed
<1>3. QED
  BY <1>1, <1>2

\* What broke the protocol once has broken it for good.
LEMMA BrokenForGood ==
    ASSUME ReceiveTypeOK, NEW frame \in DataFrames \cup ControlFrames, Receives(frame),
           UNCHANGED use_compression, WellFormed'
    PROVE  WellFormed
<1>1. CASE frame \in ControlFrames
  <2>1. wire' = wire /\ (ended => ended')
    BY <1>1, FrameTypes DEF Receives
  <2>2. QED
    BY <2>1 DEF WellFormed, Reaches, Starts, Content
<1>2. CASE frame \in DataFrames
  <2> DEFINE n == Len(wire)
  <2>1. /\ n \in Nat /\ Len(wire') = n + 1 /\ ended' = ended
        /\ \A k \in 1 .. n : wire'[k] = wire[k]
    BY <1>2, Arrives DEF ReceiveTypeOK
  <2>2. \A i \in 1 .. n : ((i \in Starts)' <=> i \in Starts)
    BY <1>2, OldFramesStay DEF ReceiveTypeOK
  <2>3. \A i, j \in 1 .. n : (Reaches(i, j)' <=> Reaches(i, j)) /\ Content(i, j)' = Content(i, j)
    BY <1>2, OldFramesStay DEF ReceiveTypeOK
  <2>4. ASSUME NEW i \in 1 .. n
        PROVE  /\ wire[i].rsv1 => use_compression
               /\ i \in Starts <=> i = 1 \/ wire[i - 1].fin
               /\ wire[i].byte # "corrupt"
    <3>1. /\ wire'[i].rsv1 => use_compression'
          /\ (i \in Starts)' <=> i = 1 \/ wire'[i - 1].fin
          /\ wire'[i].byte # "corrupt"
      BY <2>1 DEF WellFormed
    <3>2. i # 1 => wire'[i - 1] = wire[i - 1]
      BY <2>1
    <3>3. QED
      BY <2>1, <2>2, <3>1, <3>2
  <2>5. ASSUME NEW i \in 1 .. n, NEW j \in 1 .. n, Reaches(i, j), wire[i].op = "text"
        PROVE  IF wire[j].fin THEN ValidText(Content(i, j)) ELSE ValidSoFar(Content(i, j))
    <3>1. /\ Reaches(i, j)' /\ wire'[i].op = "text" /\ wire'[j].fin = wire[j].fin
          /\ Content(i, j)' = Content(i, j)
      BY <2>1, <2>3, <2>5
    <3>2. IF wire'[j].fin THEN ValidText(Content(i, j)') ELSE ValidSoFar(Content(i, j)')
      BY <2>1, <3>1 DEF WellFormed
    <3>3. QED
      BY <3>1, <3>2
  <2>6. QED
    BY <2>1, <2>4, <2>5 DEF WellFormed
<1>3. QED
  BY <1>1, <1>2

\* Every step receives a frame, and after the close nothing reopens the connection.
LEMMA EveryStepReceives ==
    ASSUME ReceiveTypeOK, ReceiveNext
    PROVE  \E frame \in DataFrames \cup ControlFrames :
              /\ Receives(frame) /\ UNCHANGED use_compression
              /\ sent_close => sent_close'
<1>1. ASSUME NEW frame \in DataFrames \cup ControlFrames, ProtocolError(frame)
      PROVE  Receives(frame) /\ UNCHANGED use_compression /\ (sent_close => sent_close')
  BY <1>1 DEF ProtocolError, Close
<1>2. ASSUME NEW frame \in ControlFrames, ControlFrame(frame)
      PROVE  Receives(frame) /\ UNCHANGED use_compression /\ (sent_close => sent_close')
  BY <1>2 DEF ControlFrame, Close
<1>3. ASSUME NEW frame \in DataFrames, NEW belowA0 \in BOOLEAN,
             \/ UnexpectedData(frame) \/ FirstFragment(frame) \/ WholeMessage(frame)
             \/ UnexpectedContinuation(frame) \/ Continuation(frame, belowA0) \/ FinalFragment(frame, belowA0)
      PROVE  Receives(frame) /\ UNCHANGED use_compression /\ (sent_close => sent_close')
  BY <1>3 DEF UnexpectedData, FirstFragment, WholeMessage, UnexpectedContinuation, Continuation,
              FinalFragment, Close, Deliver
<1>4. QED
  BY <1>1, <1>2, <1>3 DEF ReceiveNext

LEMMA ClosedStays ==
    ASSUME ReceiveTypeOK, ReceiveNext, sent_close, ~WellFormed
    PROVE  sent_close' /\ ~WellFormed'
  BY EveryStepReceives, BrokenForGood

-----------------------------------------------------------------------------
(* As long as the connection is open.                                      *)

LEMMA OneStart ==
    ASSUME InOrder, NEW n \in Nat, n = Len(wire), NEW i \in 1 .. n, NEW j \in 1 .. n,
           Reaches(i, n), Reaches(j, n)
    PROVE  i = j
<1>1. ASSUME NEW k \in 1 .. n, NEW l \in 1 .. n, k < l, Reaches(k, n), l \in Starts PROVE FALSE
  <2>1. wire[l - 1].fin
    BY <1>1 DEF InOrder
  <2>2. l - 1 \in k .. n - 1
    BY <1>1
  <2>3. QED
    BY <1>1, <2>1, <2>2 DEF Reaches
<1>2. i \in Starts /\ j \in Starts
  BY DEF Reaches
<1>3. QED
  BY <1>1, <1>2

LEMMA InOrderStays ==
    ASSUME ReceiveTypeOK, InOrder, NEW frame \in DataFrames, Receives(frame),
           UNCHANGED use_compression, frame.rsv1 => use_compression,
           frame.op = "continuation" <=> message_in_progress,
           message_in_progress' = ~frame.fin
    PROVE  InOrder'
<1> DEFINE n == Len(wire)
<1>1. /\ n \in Nat /\ Len(wire') = n + 1 /\ wire'[n + 1] = frame /\ ended' = ended
      /\ \A k \in 1 .. n : wire'[k] = wire[k]
  BY Arrives DEF ReceiveTypeOK
<1>2. ~ended'
  BY <1>1 DEF InOrder
<1>3. message_in_progress' = (Len(wire') > 0 /\ ~wire'[Len(wire')].fin)
  BY <1>1
<1>4. ASSUME NEW i \in 1 .. n
      PROVE  /\ wire'[i].rsv1 => use_compression'
             /\ (i \in Starts)' <=> i = 1 \/ wire'[i - 1].fin
  <2>1. /\ wire[i].rsv1 => use_compression
        /\ i \in Starts <=> i = 1 \/ wire[i - 1].fin
    BY DEF InOrder
  <2>2. (i \in Starts)' <=> (i \in Starts)
    BY OldFramesStay DEF ReceiveTypeOK
  <2>3. wire'[i] = wire[i] /\ (i # 1 => wire'[i - 1] = wire[i - 1])
    BY <1>1
  <2>4. QED
    BY <2>1, <2>2, <2>3
<1>5. /\ wire'[n + 1].rsv1 => use_compression'
      /\ frame.op # "continuation" <=> n + 1 = 1 \/ wire'[n].fin
  <2>1. message_in_progress = (n > 0 /\ ~wire[n].fin)
    BY DEF InOrder
  <2>2. n > 0 => wire'[n] = wire[n] /\ wire[n].fin \in BOOLEAN
    BY <1>1, FrameTypes DEF ReceiveTypeOK
  <2>3. frame.op # "continuation" <=> ~(n > 0 /\ ~wire[n].fin)
    BY <2>1
  <2>4. QED
    BY <1>1, <2>2, <2>3
<1>6. \A m \in Nat : m = n + 1 => ((m \in Starts)' <=> frame.op # "continuation")
  BY NewFrameBegins DEF ReceiveTypeOK
<1>7. ASSUME NEW i \in 1 .. Len(wire')
      PROVE  /\ wire'[i].rsv1 => use_compression'
             /\ (i \in Starts)' <=> i = 1 \/ wire'[i - 1].fin
  <2>1. CASE i \in 1 .. n
    BY <1>4, <2>1
  <2>2. CASE i = n + 1
    <3>1. i - 1 = n /\ i \in Nat
      BY <1>1, <2>2
    <3>2. (i \in Starts)' <=> frame.op # "continuation"
      BY <1>6, <2>2, <3>1
    <3>3. QED
      BY <1>5, <2>2, <3>1, <3>2
  <2>3. QED
    BY <1>1, <2>1, <2>2
<1>8. QED
  BY <1>2, <1>3, <1>7 DEF InOrder

\* The messages that are delivered already stay where they are.
LEMMA OldMessages ==
    ASSUME ReceiveTypeOK, Delivered, NEW frame \in DataFrames, Receives(frame),
           NEW n \in Nat, n = Len(wire), NEW i \in 1 .. n, NEW j \in 1 .. n, Message(i, j)'
    PROVE  /\ Ended(j)' \in 1 .. Len(delivered)
           /\ delivered[Ended(j)'] = [op |-> wire'[i].op, content |-> Content(i, j)']
           /\ wire'[i].op = "text" /\ (wire'[i].rsv1 => i = j) => ValidText(Content(i, j)')
<1>1. Message(i, j) /\ Content(i, j)' = Content(i, j)
  BY OldFramesStay DEF ReceiveTypeOK
<1>2. wire'[i] = wire[i]
  BY Arrives DEF ReceiveTypeOK
<1>3. Ended(j)' = Ended(j)
  BY EndsCount DEF ReceiveTypeOK
<1>4. Ended(j) \in 1 .. Ended(n)
  <2>1. wire[j].fin /\ j \in Nat /\ j > 0 /\ j <= n
    BY <1>1 DEF Message
  <2>2. Ended(j) \in Nat /\ Ended(n) \in Nat
    BY <2>1, EndsAreFinite
  <2>3. Ended(j) <= Ended(n) /\ Ended(j) > 0
    BY <2>1, EndedGrows
  <2>4. QED
    BY <2>2, <2>3
<1>5. /\ Len(delivered) = Ended(n)
      /\ delivered[Ended(j)] = [op |-> wire[i].op, content |-> Content(i, j)]
      /\ wire[i].op = "text" /\ (wire[i].rsv1 => i = j) => ValidText(Content(i, j))
  BY <1>1 DEF Delivered
<1>6. QED
  BY <1>1, <1>2, <1>3, <1>4, <1>5

LEMMA NothingDelivered ==
    ASSUME ReceiveTypeOK, Delivered, NEW frame \in DataFrames, Receives(frame),
           ~frame.fin, delivered' = delivered
    PROVE  Delivered'
<1>1. PICK n \in Nat : n = Len(wire)
  BY DEF ReceiveTypeOK
<1>2. Len(wire') = n + 1
  BY <1>1, Arrives DEF ReceiveTypeOK
<1>3. Ended(n + 1)' = Ended(n) /\ Ended(n) \in Nat
  <2>1. Ended(n) \in Nat
    BY EndsAreFinite
  <2>2. Ended(n + 1)' = Ended(n) + (IF frame.fin THEN 1 ELSE 0)
    BY <1>1, EndsCount DEF ReceiveTypeOK
  <2>3. QED
    BY <2>1, <2>2
<1>4. Len(delivered') = Ended(n + 1)'
  BY <1>1, <1>3 DEF Delivered
<1>5. \A i \in 1 .. n + 1 : ~Message(i, n + 1)'
  BY <1>1, NewFrameBegins DEF ReceiveTypeOK
<1>6. \A i, j \in 1 .. n + 1 : Message(i, j)' => i <= j
  BY <1>1, NewFrameBegins DEF ReceiveTypeOK, Message
<1>7. ASSUME NEW i \in 1 .. n + 1, NEW j \in 1 .. n + 1, Message(i, j)'
      PROVE  /\ delivered'[Ended(j)'] = [op |-> wire'[i].op, content |-> Content(i, j)']
             /\ wire'[i].op = "text" /\ (wire'[i].rsv1 => i = j) => ValidText(Content(i, j)')
  <2>1. i \in 1 .. n /\ j \in 1 .. n
    BY <1>5, <1>6, <1>7
  <2>2. QED
    BY <1>1, <1>7, <2>1, OldMessages
<1>8. QED
  BY <1>2, <1>4, <1>7 DEF Delivered

LEMMA OneDelivered ==
    ASSUME ReceiveTypeOK, Delivered, NEW frame \in DataFrames, Receives(frame), frame.fin,
           NEW n \in Nat, n = Len(wire), NEW m, delivered' = Append(delivered, m),
           \A i \in 1 .. n + 1 : Reaches(i, n + 1)' =>
               /\ m = [op |-> wire'[i].op, content |-> Content(i, n + 1)']
               /\ wire'[i].op = "text" /\ (wire'[i].rsv1 => i = n + 1)
                     => ValidText(Content(i, n + 1)')
    PROVE  Delivered'
<1>1. Len(wire') = n + 1
  BY Arrives DEF ReceiveTypeOK
<1>2. Ended(n + 1)' = Ended(n) + 1 /\ Ended(n) \in Nat
  BY EndsCount, EndsAreFinite DEF ReceiveTypeOK
<1>3. /\ Len(delivered) = Ended(n) /\ Len(delivered') = Ended(n) + 1
      /\ delivered'[Ended(n) + 1] = m
      /\ \A k \in 1 .. Len(delivered) : delivered'[k] = delivered[k]
  BY <1>2 DEF Delivered, ReceiveTypeOK
<1>4. \A i, j \in 1 .. n + 1 : Message(i, j)' => Reaches(i, j)' /\ i <= j
  BY NewFrameBegins DEF ReceiveTypeOK, Message
<1>5. ASSUME NEW i \in 1 .. n + 1, NEW j \in 1 .. n + 1, Message(i, j)'
      PROVE  /\ delivered'[Ended(j)'] = [op |-> wire'[i].op, content |-> Content(i, j)']
             /\ wire'[i].op = "text" /\ (wire'[i].rsv1 => i = j) => ValidText(Content(i, j)')
  <2>1. CASE j = n + 1
    BY <1>2, <1>3, <1>4, <1>5, <2>1
  <2>2. CASE j \in 1 .. n
    <3>1. i \in 1 .. n
      BY <1>4, <1>5, <2>2
    <3>2. /\ Ended(j)' \in 1 .. Len(delivered)
          /\ delivered[Ended(j)'] = [op |-> wire'[i].op, content |-> Content(i, j)']
          /\ wire'[i].op = "text" /\ (wire'[i].rsv1 => i = j) => ValidText(Content(i, j)')
      BY <1>5, <2>2, <3>1, OldMessages
    <3>3. QED
      BY <1>3, <3>2
  <2>3. j = n + 1 \/ j \in 1 .. n
    OBVIOUS
  <2>4. QED
    BY <2>1, <2>2, <2>3
<1>6. Len(delivered') = Ended(n + 1)'
  BY <1>2, <1>3
<1>7. QED
  BY <1>1, <1>5, <1>6 DEF Delivered

\* What holds after a step of an open connection.
Open == InOrder /\ InHand /\ Validated /\ Fresh /\ Delivered

\* A byte that the validator accepts leaves no flag behind.
LEMMA FlagStays ==
    ASSUME Fresh, utf8Validator \in 0 .. 3, NEW b, Accepts(b, utf8Validator),
           utf8Validator' = After(b, utf8Validator),
           flagE0' \in Flags(b, utf8Validator, flagE0)
    PROVE  Fresh'
<1>1. CASE utf8Validator = 0
  BY <1>1 DEF Fresh, Accepts, After, Flags, Follows
<1>2. CASE utf8Validator > 0
  <2>1. b = "tail" /\ utf8Validator' = utf8Validator - 1
    BY <1>2 DEF Accepts, After
  <2>2. flagE0' = IF utf8Validator = 1 THEN "no" ELSE flagE0
    BY <1>2, <2>1 DEF Flags
  <2>3. QED
    BY <1>2, <2>1, <2>2 DEF Fresh
<1>3. QED
  BY <1>1, <1>2

\* The same of the first byte of a text.
LEMMA FlagAnew ==
    ASSUME Fresh, utf8Validator = 0, NEW b, Accepts(b, 0), ValidateAnew(b)
    PROVE  Fresh'
<1>1. AfterReset = flagE0
  BY DEF Fresh, AfterReset
<1>2. QED
  BY <1>1, FlagStays DEF ValidateAnew

LEMMA FirstFragmentStep ==
    ASSUME ReceiveIInv, ~sent_close, NEW frame \in DataFrames, FirstFragment(frame)
    PROVE  IF sent_close' THEN ~WellFormed' ELSE Open'
<1>1. /\ Receives(frame) /\ Acceptable(frame) /\ UNCHANGED use_compression
      /\ frame.op # "continuation" /\ ~message_in_progress /\ ~frame.fin
      /\ message_in_progress'
  BY DEF FirstFragment
<1>2. ReceiveTypeOK /\ InOrder /\ InHand /\ Validated /\ Fresh /\ Delivered
      /\ ~compressed_message_in_progress
  BY <1>1 DEF ReceiveIInv
<1>3. PICK n \in Nat : n = Len(wire)
  BY <1>2 DEF ReceiveTypeOK
<1>4. /\ Len(wire') = n + 1 /\ wire'[n + 1] = frame
      /\ Reaches(n + 1, n + 1)' /\ Content(n + 1, n + 1)' = <<frame.byte>>
  BY <1>1, <1>2, <1>3, Arrives, NewFrameBegins DEF ReceiveTypeOK
<1>5. frame.rsv1 \in BOOLEAN /\ frame.byte \in Roles
  BY FrameTypes, ContentsAreRoles
<1>6. compressed_message_in_progress' = frame.rsv1
  BY <1>2, <1>5 DEF ReceiveTypeOK, FirstFragment
<1>7. fragmented_opcode' = frame.op /\ fragmented_message' = <<frame.byte>>
  BY DEF FirstFragment
<1>8. CASE frame.op = "text" /\ ~frame.rsv1 /\ ~Accepts(frame.byte, 0)
  <2>1. \A m \in Nat : ~TextBut(<<frame.byte>>, m)
    BY <1>5, <1>8, OneByte
  <2>2. ~ValidSoFar(Content(n + 1, n + 1)')
    BY <1>4, <2>1 DEF ValidSoFar
  <2>3. ~WellFormed'
    BY <1>1, <1>2, <1>3, <1>4, <1>8, <2>2, NewByteBreaks DEF ReceiveTypeOK
  <2>4. sent_close'
    BY <1>6, <1>8 DEF FirstFragment, Close
  <2>5. QED
    BY <2>3, <2>4
<1>9. CASE ~(frame.op = "text" /\ ~frame.rsv1 /\ ~Accepts(frame.byte, 0))
  <2>1. sent_close' = sent_close /\ delivered' = delivered
    BY <1>6, <1>9 DEF FirstFragment
  <2>2. InOrder'
    BY <1>1, <1>2, InOrderStays DEF Acceptable
  <2>3. Delivered'
    BY <1>1, <1>2, <2>1, NothingDelivered
  <2>4. Gathered(n + 1)'
    BY <1>4, <1>6, <1>7 DEF Gathered
  <2>5. InHand'
    BY <1>4, <2>4 DEF InHand
  <2>6. Validated'
    <3>1. CASE frame.op = "text" /\ ~frame.rsv1
      <4>1. utf8Validator' = After(frame.byte, 0) /\ Checked'
        BY <1>6, <1>7, <3>1 DEF FirstFragment, Checked, ValidateAnew
      <4>2. TextBut(<<frame.byte>>, After(frame.byte, 0))
        BY <1>5, <1>9, <3>1, OneByte
      <4>3. QED
        BY <1>1, <1>7, <4>1, <4>2 DEF Validated
    <3>2. CASE ~(frame.op = "text" /\ ~frame.rsv1)
      <4>1. utf8Validator' = utf8Validator /\ ~Checked'
        BY <1>6, <1>7, <3>2 DEF FirstFragment, Checked, validator
      <4>2. utf8Validator = 0
        BY <1>1, <1>2 DEF Validated
      <4>3. QED
        BY <4>1, <4>2 DEF Validated
    <3>3. QED
      BY <3>1, <3>2
  <2>7. Fresh'
    <3>1. utf8Validator = 0
      BY <1>1, <1>2 DEF Validated
    <3>2. CASE frame.op = "text" /\ ~frame.rsv1
      BY <1>2, <1>6, <1>9, <3>1, <3>2, FlagAnew DEF FirstFragment
    <3>3. CASE ~(frame.op = "text" /\ ~frame.rsv1)
      BY <1>2, <1>6, <3>3 DEF FirstFragment, validator, Fresh
    <3>4. QED
      BY <3>2, <3>3
  <2>8. QED
    BY <2>1, <2>2, <2>3, <2>5, <2>6, <2>7 DEF Open
<1>10. QED
  BY <1>8, <1>9

LEMMA WholeMessageStep ==
    ASSUME ReceiveIInv, ~sent_close, NEW frame \in DataFrames, WholeMessage(frame)
    PROVE  IF sent_close' THEN ~WellFormed' ELSE Open'
<1>1. /\ Receives(frame) /\ Acceptable(frame) /\ UNCHANGED <<use_compression, fragments>>
      /\ frame.op # "continuation" /\ ~message_in_progress /\ frame.fin
  BY DEF WholeMessage
<1>2. ReceiveTypeOK /\ InOrder /\ InHand /\ Validated /\ Fresh /\ Delivered
      /\ ~compressed_message_in_progress
  BY <1>1 DEF ReceiveIInv
<1>3. PICK n \in Nat : n = Len(wire)
  BY <1>2 DEF ReceiveTypeOK
<1>4. /\ Len(wire') = n + 1 /\ wire'[n + 1] = frame
      /\ Reaches(n + 1, n + 1)' /\ Content(n + 1, n + 1)' = <<frame.byte>>
  BY <1>1, <1>2, <1>3, Arrives, NewFrameBegins DEF ReceiveTypeOK
<1>5. /\ frame.rsv1 \in BOOLEAN /\ frame.fin \in BOOLEAN /\ frame.byte \in Roles
      /\ frame.op \in {"text", "binary", "continuation"}
  BY FrameTypes, ContentsAreRoles
<1>6. message_in_progress' = FALSE /\ UNCHANGED use_compression
  BY <1>1, <1>2 DEF fragments, ReceiveTypeOK
<1>7. CASE frame.rsv1 /\ frame.byte = "corrupt"
  <2>1. ~WellFormed'
    BY <1>1, <1>2, <1>3, <1>6, <1>7, NewFrameBreaks DEF ReceiveTypeOK
  <2>2. QED
    BY <1>7, <2>1 DEF WholeMessage, Close
<1>8. CASE /\ ~(frame.rsv1 /\ frame.byte = "corrupt") /\ frame.op = "text"
           /\ ~(Accepts(frame.byte, 0) /\ After(frame.byte, 0) = 0)
  <2>1. ~ValidText(<<frame.byte>>)
    <3>1. CASE ~Accepts(frame.byte, 0)
      BY <1>5, <3>1, OneByte DEF ValidText
    <3>2. CASE Accepts(frame.byte, 0)
      <4>1. TextBut(<<frame.byte>>, After(frame.byte, 0)) /\ After(frame.byte, 0) \in 0 .. 3
        BY <1>5, <3>2, OneByte
      <4>2. After(frame.byte, 0) # 0 /\ Len(<<frame.byte>>) \in Nat
        BY <1>8, <3>2
      <4>3. QED
        BY <4>1, <4>2, ToComeIsKnown DEF ValidText
    <3>3. QED
      BY <3>1, <3>2
  <2>2. ~WellFormed'
    <3>1. wire \in Seq(DataFrames) /\ n + 1 \in 1 .. n + 1 /\ wire'[n + 1].op = "text"
      BY <1>2, <1>4, <1>8 DEF ReceiveTypeOK
    <3>2. IF frame.fin THEN ~ValidText(<<frame.byte>>) ELSE ~ValidSoFar(<<frame.byte>>)
      BY <1>1, <2>1
    <3>3. QED
      BY <1>1, <1>3, <1>4, <3>1, <3>2, NewByteBreaks
  <2>3. sent_close'
    BY <1>8 DEF WholeMessage, ValidateAnew, Close
  <2>4. QED
    BY <2>2, <2>3
<1>9. CASE /\ ~(frame.rsv1 /\ frame.byte = "corrupt")
           /\ frame.op = "text" => Accepts(frame.byte, 0) /\ After(frame.byte, 0) = 0
  <2>1. frame.op \in {"text", "binary"}
    BY <1>1, <1>5
  <2>2. sent_close' = sent_close /\ Deliver(frame.op, <<frame.byte>>)
    BY <1>9, <2>1 DEF WholeMessage, ValidateAnew
  <2>3. InOrder'
    <3>1. frame.op = "continuation" <=> message_in_progress
      BY <1>1
    <3>2. message_in_progress' = ~frame.fin
      BY <1>1, <1>5, <1>6
    <3>3. frame.rsv1 => use_compression
      BY <1>1 DEF Acceptable
    <3>4. QED
      BY <1>1, <1>2, <1>6, <3>1, <3>2, <3>3, InOrderStays
  <2>4. frame.op = "text" => ValidText(<<frame.byte>>)
    BY <1>5, <1>9, OneByte DEF ValidText
  <2>5. \A i \in 1 .. n + 1 : Reaches(i, n + 1)' => i = n + 1
    <3>1. n > 0 => wire[n].fin
      BY <1>1, <1>2, <1>3 DEF InOrder
    <3>2. ASSUME NEW i \in 1 .. n PROVE ~Reaches(i, n + 1)'
      <4>1. Reaches(i, n + 1)' <=> Reaches(i, n) /\ ~wire[n].fin
        BY <1>1, <1>2, <1>3, NewFrameJoins DEF ReceiveTypeOK
      <4>2. QED
        BY <3>1, <4>1
    <3>3. QED
      BY <3>2
  <2>6. Delivered'
    <3> DEFINE m == [op |-> frame.op, content |-> <<frame.byte>>]
    <3>1. delivered' = Append(delivered, m)
      BY <2>2 DEF Deliver
    <3>2. \A i \in 1 .. n + 1 : Reaches(i, n + 1)' =>
             /\ m = [op |-> wire'[i].op, content |-> Content(i, n + 1)']
             /\ wire'[i].op = "text" /\ (wire'[i].rsv1 => i = n + 1)
                   => ValidText(Content(i, n + 1)')
      BY <1>4, <2>4, <2>5
    <3> HIDE DEF m
    <3>3. QED
      BY <1>1, <1>2, <1>3, <3>1, <3>2, OneDelivered
  <2>7. InHand'
    BY <1>6 DEF InHand
  <2>8. Validated'
    <3>1. utf8Validator = 0
      BY <1>1, <1>2 DEF Validated
    <3>2. utf8Validator' = 0
      BY <1>9, <2>1, <3>1 DEF WholeMessage, ValidateAnew, validator
    <3>3. QED
      BY <1>6, <3>2 DEF Validated
  <2>9. Fresh'
    <3>1. utf8Validator = 0
      BY <1>1, <1>2 DEF Validated
    <3>2. CASE frame.op = "text"
      BY <1>2, <1>9, <3>1, <3>2, FlagAnew DEF WholeMessage
    <3>3. CASE frame.op # "text"
      BY <1>2, <1>9, <3>3 DEF WholeMessage, validator, Fresh
    <3>4. QED
      BY <3>2, <3>3
  <2>10. QED
    BY <2>2, <2>3, <2>6, <2>7, <2>8, <2>9 DEF Open
<1>10. QED
  BY <1>7, <1>8, <1>9

\* What a continuation finds: the handlers and the wire agree on the message it extends.
LEMMA ContinuationFinds ==
    ASSUME ReceiveIInv, ~sent_close, NEW frame \in DataFrames, Receives(frame),
           frame.op = "continuation", message_in_progress, NEW n \in Nat, n = Len(wire)
    PROVE  /\ Len(wire') = n + 1 /\ wire'[n + 1] = frame
           /\ fragmented_message \in Seq(Roles) /\ frame.byte \in Roles
           /\ \E i \in 1 .. n :
                 /\ wire'[i] = wire[i]
                 /\ fragmented_opcode = wire[i].op /\ compressed_message_in_progress = wire[i].rsv1
                 /\ Content(i, n + 1)' = Extended(frame)
                 /\ Reaches(i, n + 1)'
                 /\ \A k \in 1 .. n + 1 : Reaches(k, n + 1)' => k = i
<1>1. ReceiveTypeOK /\ InOrder /\ InHand
  BY DEF ReceiveIInv
<1>2. wire \in Seq(DataFrames)
  BY <1>1 DEF ReceiveTypeOK
<1>3. Len(wire') = n + 1 /\ wire'[n + 1] = frame /\ \A k \in 1 .. n : wire'[k] = wire[k]
  BY <1>2, Arrives
<1>4. fragmented_message \in Seq(Roles) /\ frame.byte \in Roles
  <2>1. fragmented_message \in Seq(Contents)
    BY <1>1 DEF ReceiveTypeOK
  <2>2. QED
    BY <2>1, ContentsAreRoles, FrameTypes
<1>5. PICK i \in 1 .. n : Gathered(i)
  BY <1>1 DEF InHand
<1>6. /\ Reaches(i, n) /\ fragmented_message = Content(i, n)
      /\ fragmented_opcode = wire[i].op /\ compressed_message_in_progress = wire[i].rsv1
  BY <1>5 DEF Gathered
<1>7. ~wire[n].fin
  BY <1>1 DEF InOrder
<1>8. Reaches(i, n + 1)' /\ Content(i, n + 1)' = Extended(frame)
  BY <1>2, <1>6, <1>7, NewFrameJoins DEF Extended
<1>9. ASSUME NEW k \in 1 .. n + 1, Reaches(k, n + 1)' PROVE k = i
  <2>1. CASE k = n + 1
    <3>1. ~Reaches(n + 1, n + 1)'
      BY <1>2, NewFrameBegins
    <3>2. QED
      BY <1>9, <2>1, <3>1
  <2>2. CASE k \in 1 .. n
    <3>1. Reaches(k, n)
      BY <1>2, <1>9, <2>2, NewFrameJoins
    <3>2. QED
      BY <1>1, <1>6, <2>2, <3>1, OneStart
  <2>3. QED
    BY <2>1, <2>2
<1>10. QED
  BY <1>3, <1>4, <1>6, <1>8, <1>9

\* The validator's state after a fragment that it does not refuse.
LEMMA ContinuationChecked ==
    ASSUME ReceiveTypeOK, Validated, Fresh, message_in_progress,
           NEW frame \in DataFrames, NEW belowA0 \in BOOLEAN,
           fragmented_message \in Seq(Roles), frame.byte \in Roles,
           ~Refused(frame, belowA0), ValidateMore(frame, belowA0)
    PROVE  /\ IF Checked THEN TextBut(Extended(frame), utf8Validator') /\ utf8Validator' \in 0 .. 3
              ELSE utf8Validator' = 0
           /\ Fresh'
<1>1. CASE Checked
  <2>1. TextBut(fragmented_message, utf8Validator) /\ utf8Validator \in 0 .. 3
    BY <1>1 DEF Validated, ReceiveTypeOK
  <2>2. /\ Accepts(frame.byte, utf8Validator)
        /\ utf8Validator' = After(frame.byte, utf8Validator)
        /\ flagE0' \in Flags(frame.byte, utf8Validator, flagE0)
    BY <1>1 DEF Refused, ValidateMore
  <2>3. Fresh'
    BY <2>1, <2>2, FlagStays
  <2>4. QED
    BY <1>1, <2>1, <2>2, <2>3, AcceptedText DEF Extended
<1>2. CASE ~Checked
  BY <1>2 DEF Validated, ValidateMore, validator, Fresh
<1>3. QED
  BY <1>1, <1>2

LEMMA ContinuationStep ==
    ASSUME ReceiveIInv, ~sent_close, NEW frame \in DataFrames, NEW belowA0 \in BOOLEAN, Continuation(frame, belowA0)
    PROVE  IF sent_close' THEN ~WellFormed' ELSE Open'
<1>1. /\ Receives(frame) /\ Acceptable(frame)
      /\ UNCHANGED <<use_compression, message_in_progress, compressed_message_in_progress,
                     fragmented_opcode>>
      /\ frame.op = "continuation" /\ message_in_progress
      /\ ValidateMore(frame, belowA0)
      /\ frame.fin /\ ~Refused(frame, belowA0) => Incomplete(frame)
      /\ ~frame.fin => fragmented_message' = Extended(frame)
      /\ IF Refused(frame, belowA0) \/ frame.fin THEN sent_close'
         ELSE sent_close' = sent_close /\ delivered' = delivered
  BY DEF Continuation, Close
<1>2. ReceiveTypeOK /\ InOrder /\ InHand /\ Validated /\ Fresh /\ Delivered
  BY DEF ReceiveIInv
<1>3. wire \in Seq(DataFrames) /\ utf8Validator \in 0 .. 3
  BY <1>2 DEF ReceiveTypeOK
<1>4. PICK n \in Nat : n = Len(wire)
  BY <1>3
<1>5. /\ Len(wire') = n + 1 /\ wire'[n + 1] = frame
      /\ fragmented_message \in Seq(Roles) /\ frame.byte \in Roles
  BY <1>1, <1>4, ContinuationFinds
<1>6. PICK i \in 1 .. n :
         /\ wire'[i] = wire[i]
         /\ fragmented_opcode = wire[i].op /\ compressed_message_in_progress = wire[i].rsv1
         /\ Content(i, n + 1)' = Extended(frame)
         /\ Reaches(i, n + 1)'
  BY <1>1, <1>4, ContinuationFinds
<1>7. frame.fin \in BOOLEAN
  BY FrameTypes
<1>8. ASSUME Checked, \A m \in 0 .. 3 : (frame.fin => m = 0) => ~TextBut(Extended(frame), m)
      PROVE  ~WellFormed'
  <2>1. wire'[i].op = "text"
    BY <1>6, <1>8 DEF Checked
  <2>2. IF frame.fin THEN ~ValidText(Extended(frame)) ELSE ~ValidSoFar(Extended(frame))
    BY <1>8 DEF ValidText, ValidSoFar
  <2>3. i \in 1 .. n + 1
    OBVIOUS
  <2>4. QED
    BY <1>1, <1>3, <1>4, <1>6, <2>1, <2>2, <2>3, NewByteBreaks
<1>9. CASE Refused(frame, belowA0)
  <2>1. Checked /\ ~Accepts(frame.byte, utf8Validator)
    BY <1>2, <1>9 DEF Refused, Fresh
  <2>2. TextBut(fragmented_message, utf8Validator)
    BY <1>1, <1>2, <2>1 DEF Validated
  <2>3. \A m \in Nat : ~TextBut(Extended(frame), m)
    BY <1>3, <1>5, <2>1, <2>2, RefusedText DEF Extended
  <2>4. QED
    BY <1>1, <1>8, <1>9, <2>1, <2>3
<1>10. CASE ~Refused(frame, belowA0) /\ frame.fin
  <2>1. CASE ~Inflates(frame)
    <3>1. PICK p \in 1 .. Len(Extended(frame)) : Extended(frame)[p] = "corrupt"
      BY <2>1 DEF Inflates
    <3> DEFINE d == [k \in 1 .. (n + 1) - i + 1 |-> wire'[i + k - 1].byte]
    <3>2. Extended(frame) = d /\ (n + 1) - i + 1 \in Nat
      BY <1>6 DEF Content
    <3>3. Len(d) = (n + 1) - i + 1
      BY <3>2
    <3>4. p \in 1 .. (n + 1) - i + 1 /\ d[p] = wire'[i + p - 1].byte
      BY <3>1, <3>2, <3>3
    <3>5. wire'[i + p - 1].byte = "corrupt" /\ i + p - 1 \in 1 .. Len(wire')
      BY <1>5, <3>1, <3>2, <3>4
    <3>6. ~WellFormed'
      BY <3>5 DEF WellFormed
    <3>7. QED
      BY <1>1, <1>10, <3>6
  <2>2. CASE fragmented_opcode = "text" /\ utf8Validator' # 0
    <3>1. Checked /\ TextBut(Extended(frame), utf8Validator') /\ utf8Validator' \in 0 .. 3
      BY <1>1, <1>2, <1>5, <1>10, <2>2, ContinuationChecked
    <3>2. Len(Extended(frame)) \in Nat
      BY <1>5 DEF Extended
    <3>3. ~TextBut(Extended(frame), 0)
      BY <2>2, <3>1, <3>2, ToComeIsKnown
    <3>4. QED
      BY <1>1, <1>8, <1>10, <3>1, <3>3
  <2>3. QED
    BY <1>1, <1>10, <2>1, <2>2 DEF Incomplete
<1>11. CASE ~Refused(frame, belowA0) /\ ~frame.fin
  <2>1. sent_close' = sent_close /\ delivered' = delivered /\ fragmented_message' = Extended(frame)
    BY <1>1, <1>11
  <2>2. InOrder'
    <3>1. message_in_progress' = ~frame.fin
      BY <1>1, <1>2, <1>11 DEF ReceiveTypeOK
    <3>2. QED
      BY <1>1, <1>2, <3>1, InOrderStays DEF Acceptable
  <2>3. Delivered'
    BY <1>1, <1>2, <1>11, <2>1, NothingDelivered
  <2>4. Gathered(i)'
    BY <1>1, <1>5, <1>6, <2>1 DEF Gathered
  <2>5. InHand'
    BY <1>5, <2>4 DEF InHand
  <2>6. Validated'
    <3>1. Checked' <=> Checked
      BY <1>1 DEF Checked
    <3>2. IF Checked THEN TextBut(Extended(frame), utf8Validator') ELSE utf8Validator' = 0
      BY <1>1, <1>2, <1>5, <1>11, ContinuationChecked
    <3>3. QED
      BY <1>1, <2>1, <3>1, <3>2 DEF Validated
  <2>7. Fresh'
    BY <1>1, <1>2, <1>5, <1>11, ContinuationChecked
  <2>8. QED
    BY <2>1, <2>2, <2>3, <2>5, <2>6, <2>7 DEF Open
<1>12. QED
  BY <1>9, <1>10, <1>11

LEMMA FinalFragmentStep ==
    ASSUME ReceiveIInv, ~sent_close, NEW frame \in DataFrames, NEW belowA0 \in BOOLEAN, FinalFragment(frame, belowA0)
    PROVE  IF sent_close' THEN ~WellFormed' ELSE Open'
<1>1. /\ Receives(frame) /\ Acceptable(frame) /\ UNCHANGED <<use_compression, sent_close>>
      /\ frame.op = "continuation" /\ message_in_progress /\ frame.fin
      /\ ValidateMore(frame, belowA0)
      /\ ~Refused(frame, belowA0) /\ ~Incomplete(frame)
      /\ delivered' = Append(delivered, [op |-> fragmented_opcode, content |-> Extended(frame)])
      /\ message_in_progress' = FALSE
  BY DEF FinalFragment, Deliver
<1>2. ReceiveTypeOK /\ InOrder /\ InHand /\ Validated /\ Fresh /\ Delivered
  BY DEF ReceiveIInv
<1>3. PICK n \in Nat : n = Len(wire)
  BY <1>2 DEF ReceiveTypeOK
<1>4. fragmented_message \in Seq(Roles) /\ frame.byte \in Roles
  BY <1>1, <1>3, ContinuationFinds
<1>5. PICK i \in 1 .. n :
         /\ wire'[i] = wire[i]
         /\ fragmented_opcode = wire[i].op /\ compressed_message_in_progress = wire[i].rsv1
         /\ Content(i, n + 1)' = Extended(frame)
         /\ Reaches(i, n + 1)'
         /\ \A k \in 1 .. n + 1 : Reaches(k, n + 1)' => k = i
  BY <1>1, <1>3, ContinuationFinds
<1>6. /\ IF Checked THEN TextBut(Extended(frame), utf8Validator') ELSE utf8Validator' = 0
      /\ Fresh'
  BY <1>1, <1>2, <1>4, ContinuationChecked
<1>7. utf8Validator' = 0
  BY <1>1, <1>6 DEF Checked, Incomplete
<1>8. InOrder'
  <2>1. message_in_progress' = ~frame.fin
    <3>1. frame.fin \in BOOLEAN
      BY FrameTypes
    <3>2. QED
      BY <1>1, <3>1
  <2>2. QED
    BY <1>1, <1>2, <2>1, InOrderStays DEF Acceptable
<1>9. Delivered'
  <2> DEFINE m == [op |-> fragmented_opcode, content |-> Extended(frame)]
  <2>1. ASSUME NEW k \in 1 .. n + 1, Reaches(k, n + 1)'
        PROVE  /\ m = [op |-> wire'[k].op, content |-> Content(k, n + 1)']
               /\ wire'[k].op = "text" /\ (wire'[k].rsv1 => k = n + 1)
                     => ValidText(Content(k, n + 1)')
    <3>1. k = i
      BY <1>5, <2>1
    <3>2. m = [op |-> wire'[k].op, content |-> Content(k, n + 1)']
      BY <1>5, <3>1
    <3>3. ASSUME wire'[k].op = "text", wire'[k].rsv1 => k = n + 1
          PROVE  ValidText(Content(k, n + 1)')
      <4>1. Checked
        BY <1>5, <3>1, <3>3 DEF Checked
      <4>2. TextBut(Extended(frame), 0)
        BY <1>6, <1>7, <4>1
      <4>3. QED
        BY <1>5, <3>1, <4>2 DEF ValidText
    <3>4. QED
      BY <3>2, <3>3
  <2>2. delivered' = Append(delivered, m)
    BY <1>1
  <2> HIDE DEF m
  <2>3. QED
    BY <1>1, <1>2, <1>3, <2>1, <2>2, OneDelivered
<1>10. InHand' /\ Validated'
  BY <1>1, <1>7 DEF InHand, Validated
<1>11. QED
  BY <1>1, <1>6, <1>8, <1>9, <1>10 DEF Open

-----------------------------------------------------------------------------
(* The invariant.                                                          *)

LEMMA ReceiveInitInvariant == ReceiveInit => ReceiveIInv
<1> SUFFICES ASSUME ReceiveInit PROVE ReceiveIInv
  OBVIOUS
<1> USE DEF ReceiveInit
<1>1. ReceiveTypeOK
  <2>1. /\ <<>> \in Seq(Contents) /\ <<>> \in Seq(DataFrames)
        /\ <<>> \in Seq([op : {"text", "binary"}, content : Seq(Contents)])
    OBVIOUS
  <2>2. 0 \in 0 .. MaxFrames /\ 0 \in 0 .. 3
    BY FramesAssumption
  <2>3. QED
    BY <2>1, <2>2 DEF ReceiveTypeOK
<1>2. Len(wire) = 0 /\ Len(delivered) = 0
  OBVIOUS
<1>3. InOrder /\ InHand
  <2>1. \A i \in 1 .. Len(wire) : FALSE
    BY <1>2
  <2>2. message_in_progress = (Len(wire) > 0 /\ ~wire[Len(wire)].fin)
    <3>1. ~(Len(wire) > 0) /\ message_in_progress = FALSE
      BY <1>2
    <3>2. QED
      BY <3>1, Zenon
  <2>3. QED
    BY <2>1, <2>2 DEF InOrder, InHand
<1>4. Validated /\ Fresh
  BY DEF Validated, Fresh
<1>5. Delivered
  BY <1>2, NothingEnded DEF Delivered
<1>6. QED
  BY <1>1, <1>3, <1>4, <1>5 DEF ReceiveIInv

\* What the handlers and the wire have in common stays when neither changes.
LEMMA ViewsStay ==
    ASSUME InHand, Validated, Fresh, Delivered,
           UNCHANGED <<wire, delivered, utf8Validator, flagE0, message_in_progress,
                       fragmented_message, compressed_message_in_progress, fragmented_opcode>>
    PROVE  InHand' /\ Validated' /\ Fresh' /\ Delivered'
<1>1. Validated' /\ Fresh'
  BY DEF Validated, Checked, Fresh
<1>2. InHand'
  BY DEF InHand, Gathered, Reaches, Starts, Content
<1>3. Delivered'
  <2>1. \A i, j : (Message(i, j)' <=> Message(i, j)) /\ Content(i, j)' = Content(i, j)
    BY DEF Message, Reaches, Starts, Content
  <2>2. \A j : Ended(j)' = Ended(j)
    BY DEF Ended
  <2>3. Len(wire') = Len(wire) /\ Ended(Len(wire))' = Ended(Len(wire))
    BY DEF Ended
  <2>4. QED
    BY <2>1, <2>2, <2>3 DEF Delivered
<1>4. QED
  BY <1>1, <1>2, <1>3

\* A step of an open connection that closes it has broken the protocol, and one that
\* does not close it keeps the handlers and the wire together.
LEMMA OpenStep ==
    ASSUME ReceiveIInv, ~sent_close, ReceiveNext
    PROVE  IF sent_close' THEN ~WellFormed' ELSE Open'
<1>1. ReceiveTypeOK /\ InOrder /\ InHand /\ Validated /\ Fresh /\ Delivered
  BY DEF ReceiveIInv
<1>2. wire \in Seq(DataFrames)
  BY <1>1 DEF ReceiveTypeOK
<1>3. PICK n \in Nat : n = Len(wire)
  BY <1>2
<1>4. message_in_progress = (n > 0 /\ ~wire[n].fin)
  BY <1>1, <1>3 DEF InOrder
<1>5. ASSUME NEW frame \in DataFrames \cup ControlFrames, ProtocolError(frame)
      PROVE  IF sent_close' THEN ~WellFormed' ELSE Open'
  <2>1. Receives(frame) /\ UNCHANGED use_compression /\ sent_close'
    BY <1>5 DEF ProtocolError, Close
  <2>2. CASE frame \in DataFrames
    <3>1. frame.rsv1 /\ ~use_compression
      BY <1>5, <2>2, FrameTypes DEF ProtocolError
    <3>2. QED
      BY <1>2, <1>3, <2>1, <2>2, <3>1, NewFrameBreaks
  <2>3. CASE frame \in ControlFrames
    <3>1. frame # Control("ping", "none")
      BY <1>5, <2>3, FrameTypes DEF ProtocolError, Control
    <3>2. ended'
      BY <2>1, <2>3, <3>1, FrameTypes DEF Receives
    <3>3. QED
      BY <2>1, <3>2 DEF WellFormed
  <2>4. QED
    BY <1>5, <2>2, <2>3
<1>6. ASSUME NEW frame \in ControlFrames, ControlFrame(frame)
      PROVE  IF sent_close' THEN ~WellFormed' ELSE Open'
  <2>1. Receives(frame) /\ frame \notin DataFrames
    BY <1>6, FrameTypes DEF ControlFrame
  <2>2. CASE frame = Control("ping", "none")
    <3>1. /\ UNCHANGED <<use_compression, fragments, validator, sent_close, delivered>>
          /\ wire' = wire
      BY <1>6, <2>1, <2>2 DEF ControlFrame, Receives
    <3>2. ended' = (ended \/ frame # Control("ping", "none"))
      BY <2>1 DEF Receives
    <3>3. ~ended'
      BY <1>1, <2>2, <3>2 DEF InOrder
    <3>4. InOrder'
      BY <1>1, <3>1, <3>3 DEF InOrder, Starts, fragments
    <3>5. InHand' /\ Validated' /\ Fresh' /\ Delivered'
      BY <1>1, <3>1, ViewsStay DEF fragments, validator
    <3>6. QED
      BY <3>1, <3>4, <3>5 DEF Open
  <2>3. CASE frame # Control("ping", "none")
    <3>1. ended' /\ sent_close'
      BY <1>6, <2>1, <2>3 DEF ControlFrame, Receives, Close
    <3>2. QED
      BY <3>1 DEF WellFormed
  <2>4. QED
    BY <2>2, <2>3
<1>7. ASSUME NEW frame \in DataFrames, UnexpectedData(frame) \/ UnexpectedContinuation(frame)
      PROVE  IF sent_close' THEN ~WellFormed' ELSE Open'
  <2>1. /\ Receives(frame) /\ UNCHANGED use_compression /\ sent_close'
        /\ \/ frame.op # "continuation" /\ message_in_progress
           \/ frame.op = "continuation" /\ ~message_in_progress
    BY <1>7 DEF UnexpectedData, UnexpectedContinuation, Close
  <2>2. \/ frame.op # "continuation" /\ n > 0 /\ ~wire[n].fin
        \/ frame.op = "continuation" /\ (n = 0 \/ wire[n].fin)
    <3>1. CASE frame.op # "continuation" /\ message_in_progress
      BY <1>3, <1>4, <3>1
    <3>2. CASE frame.op = "continuation" /\ ~message_in_progress
      <4>1. ~(n > 0 /\ ~wire[n].fin)
        BY <1>4, <3>2, Zenon
      <4>2. QED
        BY <1>3, <3>2, <4>1
    <3>3. QED
      BY <2>1, <3>1, <3>2
  <2>3. QED
    BY <1>2, <1>3, <2>1, <2>2, NewFrameBreaks
<1>8. QED
  BY <1>5, <1>6, <1>7, FirstFragmentStep, WholeMessageStep, ContinuationStep, FinalFragmentStep
     DEF ReceiveNext

LEMMA ReceiveInvariantStays ==
    ASSUME ReceiveIInv, [ReceiveNext]_receiveVars
    PROVE  ReceiveIInv'
<1>1. CASE ReceiveNext
  <2>1. ReceiveTypeOK' /\ (~message_in_progress => ~compressed_message_in_progress)'
    BY <1>1, TypeStep DEF ReceiveIInv
  <2>2. CASE sent_close
    <3>1. sent_close' /\ ~WellFormed'
      BY <1>1, <2>2, ClosedStays DEF ReceiveIInv
    <3>2. QED
      BY <2>1, <3>1 DEF ReceiveIInv
  <2>3. CASE ~sent_close
    <3>1. IF sent_close' THEN ~WellFormed' ELSE Open'
      BY <1>1, <2>3, OpenStep
    <3>2. QED
      BY <2>1, <3>1 DEF ReceiveIInv, Open
  <2>4. QED
    BY <2>2, <2>3
<1>2. CASE UNCHANGED receiveVars
  <2>1. ReceiveTypeOK' /\ (~message_in_progress => ~compressed_message_in_progress)'
    BY <1>2 DEF ReceiveIInv, ReceiveTypeOK, receiveVars
  <2>2. WellFormed' = WellFormed
    BY <1>2 DEF WellFormed, Reaches, Starts, Content, receiveVars
  <2>3. ASSUME Open PROVE Open'
    <3>1. InOrder'
      BY <1>2, <2>3 DEF Open, InOrder, Starts, receiveVars
    <3>2. InHand' /\ Validated' /\ Fresh' /\ Delivered'
      BY <1>2, <2>3, ViewsStay DEF Open, receiveVars
    <3>3. QED
      BY <3>1, <3>2 DEF Open
  <2>4. sent_close' = sent_close
    BY <1>2 DEF receiveVars
  <2>5. QED
    BY <2>1, <2>2, <2>3, <2>4 DEF ReceiveIInv, Open
<1>3. QED
  BY <1>1, <1>2

LEMMA ReceiveInvariant == ReceiveSpec => []ReceiveIInv
<1>1. ReceiveInit => ReceiveIInv
  BY ReceiveInitInvariant
<1>2. ReceiveIInv /\ [ReceiveNext]_receiveVars => ReceiveIInv'
  BY ReceiveInvariantStays
<1>3. QED
  BY <1>1, <1>2, PTL DEF ReceiveSpec

\* Every variable has its type, with the message in progress and what is kept of it.
THEOREM ReceiveTypeCorrect == ReceiveSpec => []ReceiveTypeOK
<1>1. ReceiveIInv => ReceiveTypeOK
  BY DEF ReceiveIInv
<1>2. QED
  BY <1>1, ReceiveInvariant, PTL

\* The callbacks got the messages that the frames spell, each once and in order, whatever
\* pings, compression and fragments came between, until the client closes.
THEOREM MessagesAreReassembled == ReceiveSpec => []Reassembled
<1>1. ReceiveIInv => Reassembled
  BY DEF ReceiveIInv, Reassembled, Delivered
<1>2. QED
  BY <1>1, ReceiveInvariant, PTL

\* Only a peer that broke the protocol is closed on: nothing that one message leaves in
\* the handlers or the validator makes a later one fail.
THEOREM AGoodPeerIsHeard == ReceiveSpec => []GoodPeerIsHeard
<1>1. ReceiveIInv => GoodPeerIsHeard
  BY DEF ReceiveIInv, GoodPeerIsHeard
<1>2. QED
  BY <1>1, ReceiveInvariant, PTL

\* What is delivered as text is UTF-8, wherever its fragments were cut, except a
\* compressed message in fragments, which the code does not validate.
THEOREM DeliveredTextIsValid == ReceiveSpec => []TextIsValid
<1>1. ReceiveIInv => TextIsValid
  <2> SUFFICES ASSUME ReceiveIInv, ~sent_close, NEW i \in 1 .. Len(wire), NEW j \in 1 .. Len(wire),
                      Message(i, j), wire[i].op = "text", wire[i].rsv1 => i = j
               PROVE  ValidText(delivered[Ended(j)].content)
    BY DEF TextIsValid
  <2>1. /\ delivered[Ended(j)] = [op |-> wire[i].op, content |-> Content(i, j)]
        /\ ValidText(Content(i, j))
    BY DEF ReceiveIInv, Delivered
  <2>2. QED
    BY <2>1
<1>2. QED
  BY <1>1, ReceiveInvariant, PTL
=============================================================================
