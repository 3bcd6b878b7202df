---------------------------- MODULE Utf8Validator ----------------------------
(***************************************************************************)
(* The UTF-8 validator of libwsc (libs/libwsc/libwsc/Utf8Validator.cpp),   *)
(* byte by byte, as the client uses it: reset() before a text message,     *)
(* validateChunk() for every fragment, also for one that follows a refused *)
(* one, and validateFinal() at the end.                                    *)
(*                                                                         *)
(* Beside it the grammar of RFC 3629 reads the same bytes.                 *)
(***************************************************************************)
EXTENDS Integers

VARIABLES
    expectedContinuation,
    seenE0, seenED, seenF0, seenF4,
    refused,     \* validateChunk() has returned false since the last reset()
    needs,       \* RFC 3629: how many bytes the character still needs
    range,       \* RFC 3629: where the next one of them has to be
    valid        \* RFC 3629: the text is UTF-8 so far

flags == <<seenE0, seenED, seenF0, seenF4>>
vars  == <<expectedContinuation, flags, refused, needs, range, valid>>

Byte == 0 .. 255
Any == 128 .. 191

Init ==
    /\ expectedContinuation = 0
    /\ seenE0 = FALSE /\ seenED = FALSE /\ seenF0 = FALSE /\ seenF4 = FALSE
    /\ refused = FALSE
    /\ needs = 0 /\ range = Any /\ valid = TRUE

-----------------------------------------------------------------------------
(* RFC 3629, section 4: the bytes of a character after its first one.      *)

Form(first, needs_, range_) == [first |-> first, needs |-> needs_, range |-> range_]

Ranges == {Any, 160 .. 191, 128 .. 159, 144 .. 191, 128 .. 143}

Characters ==
    { Form(0 .. 127, 0, Any),                 Form(194 .. 223, 1, Any),
      Form({224}, 2, 160 .. 191),             Form({237}, 2, 128 .. 159),
      Form((225 .. 236) \cup {238, 239}, 2, Any),
      Form({240}, 3, 144 .. 191),             Form({244}, 3, 128 .. 143),
      Form(241 .. 243, 3, Any) }

NextIs(n, r) == needs' = n /\ range' = r /\ UNCHANGED valid
Invalid == valid' = FALSE /\ UNCHANGED <<needs, range>>

Rfc3629(b) ==
    \/ /\ valid /\ needs = 0
       /\ \E c \in Characters : b \in c.first /\ NextIs(c.needs, c.range)
    \/ /\ valid /\ needs = 0
       /\ \A c \in Characters : b \notin c.first
       /\ Invalid
    \/ valid /\ needs > 0 /\ b \in range /\ NextIs(needs - 1, Any)
    \/ valid /\ needs > 0 /\ b \notin range /\ Invalid
    \/ ~valid /\ UNCHANGED <<needs, range, valid>>

-----------------------------------------------------------------------------
(* validateChunk(), one turn of its loop.                                  *)

Refuse == refused' = TRUE /\ UNCHANGED expectedContinuation
Expect(n) == expectedContinuation' = n /\ UNCHANGED refused

Ascii(b) ==
    /\ expectedContinuation = 0 /\ b < 128
    /\ UNCHANGED <<expectedContinuation, flags, refused>>

Lead2Overlong(b) ==   \* mutant: C0 and C1 are accepted
    /\ expectedContinuation = 0 /\ b \div 32 = 6
    /\ Expect(1)
    /\ UNCHANGED flags

Lead2(b) ==
    /\ expectedContinuation = 0 /\ b \div 32 = 6
    /\ IF b < 194 THEN Refuse ELSE Expect(1)
    /\ UNCHANGED flags

Lead3(b) ==
    /\ expectedContinuation = 0 /\ b \div 16 = 14
    /\ seenE0' = (b = 224) /\ seenED' = (b = 237)
    /\ Expect(2)
    /\ UNCHANGED <<seenF0, seenF4>>

\* The flags are set before the range is looked at.
Lead4(b) ==
    /\ expectedContinuation = 0 /\ b \div 8 = 30
    /\ seenF0' = (b = 240) /\ seenF4' = (b = 244)
    /\ IF b > 244 THEN Refuse ELSE Expect(3)
    /\ UNCHANGED <<seenE0, seenED>>

NoLead(b) ==
    /\ expectedContinuation = 0 /\ (b \div 64 = 2 \/ b >= 248)
    /\ Refuse
    /\ UNCHANGED flags

\* What the flags forbid of the second byte of a character.
Forbidden(b) ==
    \/ seenE0 /\ expectedContinuation = 2 /\ b < 160
    \/ seenED /\ expectedContinuation = 2 /\ b > 159
    \/ seenF0 /\ expectedContinuation = 3 /\ b < 144
    \/ seenF4 /\ expectedContinuation = 3 /\ b > 143

BadTail(b) ==
    /\ expectedContinuation > 0 /\ (b \div 64 # 2 \/ Forbidden(b))
    /\ Refuse
    /\ UNCHANGED flags

GoodTailKeepsFlags(b) ==   \* mutant: the flags stay set when the character is complete
    /\ expectedContinuation > 0 /\ b \div 64 = 2 /\ ~Forbidden(b)
    /\ Expect(expectedContinuation - 1)
    /\ UNCHANGED flags

GoodTail(b) ==
    /\ expectedContinuation > 0 /\ b \div 64 = 2 /\ ~Forbidden(b)
    /\ Expect(expectedContinuation - 1)
    /\ IF expectedContinuation = 1
       THEN seenE0' = FALSE /\ seenED' = FALSE /\ seenF0' = FALSE /\ seenF4' = FALSE
       ELSE UNCHANGED flags

\* The validator goes on where it was when a fragment is refused; the grammar does not.
Validate(b) ==
    /\ \/ Ascii(b) \/ Lead2(b) \/ Lead3(b) \/ Lead4(b) \/ NoLead(b)
       \/ BadTail(b) \/ GoodTail(b)
    /\ Rfc3629(b)

\* reset() leaves seenE0 and seenF0 as they are.
Reset ==
    /\ expectedContinuation' = 0
    /\ seenED' = FALSE /\ seenF4' = FALSE
    /\ refused' = FALSE
    /\ needs' = 0 /\ range' = Any /\ valid' = TRUE
    /\ UNCHANGED <<seenE0, seenF0>>

Next == Reset \/ \E b \in Byte : Validate(b)

Spec == Init /\ [][Next]_vars

\* validateFinal()
validateFinal == expectedContinuation = 0

-----------------------------------------------------------------------------
(* Properties.                                                             *)

\* Every variable has its type.
TypeOK ==
    /\ expectedContinuation \in 0 .. 3
    /\ seenE0 \in BOOLEAN /\ seenED \in BOOLEAN /\ seenF0 \in BOOLEAN /\ seenF4 \in BOOLEAN
    /\ refused \in BOOLEAN /\ valid \in BOOLEAN
    /\ needs \in 0 .. 3
    /\ range \in Ranges

\* A text that validateChunk() has not refused is UTF-8 so far, whatever earlier messages
\* left in the flags, and validateFinal() says whether its last character is complete.
AcceptsOnlyUtf8 == ~refused => valid /\ (validateFinal <=> needs = 0)

\* Bytes that are UTF-8 are refused in one case only: the third of a character of four, when
\* a reset() has left seenE0 set after a message that ended in the middle of a character.
RefusesOnlyBad ==
    [][~refused /\ refused' /\ valid' =>
          seenE0 /\ expectedContinuation = 2 /\ range = Any]_vars
=============================================================================
