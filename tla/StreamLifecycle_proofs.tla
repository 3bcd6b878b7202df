------------------------ MODULE StreamLifecycle_proofs ------------------------
(***************************************************************************)
(* Proofs about StreamLifecycle, for any number of API threads, streams,   *)
(* commands and errors: a stream is torn down once, frames go to live      *)
(* streamers, a running stream can be stopped, and what happens to a       *)
(* stream is what StreamTeardown promises.                                 *)
(*                                                                         *)
(* A thread's stack is a call and, below it, calls that wait for the close *)
(* callbacks they made.  The lemmas about stacks say what replacing,       *)
(* ending and making a call does to the labels that count.                 *)
(***************************************************************************)
EXTENDS StreamLifecycle, SequenceTheorems, FiniteSetTheorems, TLAPS

-----------------------------------------------------------------------------
(* The inductive invariant.                                                *)

\* Labels of a thread that works for a stream.
Streamed ==
    {"add bug", "publish", "read pointer", "use", "load flags", "store closing", "store open",
     "clear", "lock", "decide", "claim", "remove", "remove only", "finish", "close bug",
     "destroy", "retry", "prune", "frame lock", "write", "crash"}

Pausing == {"pause", "load flags", "store closing", "store open"}

\* A frame names a stream that was started; one that pauses was called for.
Frames ==
    {f \in [at : Labels, g : 0 .. started, why : Why] :
        /\ f.at \in Streamed => f.g \in Gens
        /\ f.at \in Pausing => "pause" \in Commands}

\* A call waits only for the close callback it made.
Resting == {f \in Frames : f.at \in {"finish", "destroy", "hang up"}}

IsStack(s) == s # <<>> => Head(s) \in Frames /\ Tail(s) \in Seq(Resting)

Shape ==
    /\ \A t \in Threads : IsStack(stack[t])
    /\ private \in 0 .. started
    /\ \A g \in Gens : bug[g] = "attached" => g <= started
    /\ ~hungUp => stack[Session] = <<>>

\* What a thread may be at with stream g: holding its mutex, tearing it down, having
\* finished it, about to claim it, writing to it.
Hold   == {"decide", "claim", "remove", "finish", "write"}
Tear   == {"remove", "finish", "close bug", "destroy", "retry"}
Done   == {"close bug", "destroy", "retry"}
Claims == {"claim"}
Writes == {"write"}
Kinds  == {Hold, Tear, Done, Claims, Writes}

Has(s, g, K)   == \E i \in 1 .. Len(s) : s[i].g = g /\ s[i].at \in K
Alone(s, g, K) == \A i, j \in 1 .. Len(s) :
    s[i].g = g /\ s[i].at \in K /\ s[j].g = g /\ s[j].at \in K => i = j

\* The mutex is held by at most one call, unless it is gone.
Held ==
    \A t \in Threads, g \in Gens :
        /\ Has(stack[t], g, Hold) => mutex[g] \in {t, Dead}
        /\ mutex[g] # Dead => Alone(stack[t], g, Hold)

\* A stream that has its pointer has a streamer, until a teardown has unhooked it with the
\* mutex held; so has one that is written to.
Live ==
    \A g \in Gens :
        /\ pointer[g] => streamer[g] = "running"
        /\ \A t \in Threads : Has(stack[t], g, Done) => ~pointer[g]
        /\ Has(stack[Media], g, Writes) => pointer[g] /\ mutex[g] = Media

Locks == TypeOK /\ Shape /\ Held /\ Live

\* One call tears stream g down, from close_requested until its mutex is gone.
OnceOf(g) ==
    /\ \A t \in Threads : Has(stack[t], g, Tear) => closing[g] /\ mutex[g] # Dead
    /\ \A t, u \in Threads : Has(stack[t], g, Tear) /\ Has(stack[u], g, Tear) => t = u
    /\ \A t \in Threads : Alone(stack[t], g, Tear)
    /\ \A t \in Threads : Has(stack[t], g, Claims) => ~closing[g]
    /\ mutex[g] = Dead => closing[g]
    /\ closing[g] => mutex[g] = Dead \/ \E t \in Threads : Has(stack[t], g, Tear)

Once == \A g \in Gens : OnceOf(g)

IInv == Locks /\ Once /\ CanBeStopped

-----------------------------------------------------------------------------
(* Stacks.                                                                 *)

FrameTypes == [at : Labels, g : Gens \cup {None}, why : Why]

LEMMA ThreadsAre ==
    /\ Media \in Threads /\ Session \in Threads /\ Media # Session /\ Media \notin Api
    /\ Session \notin Api
    /\ \A t \in Api : t \in Threads
    /\ \A g \in Gens : g \in Threads /\ g # Media /\ g # Session
    /\ Free # Dead /\ \A t \in Threads : t # Free /\ t # Dead
    /\ MaxGen \in Nat /\ MaxCommands \in Nat /\ MaxErrors \in Nat
BY ThreadsAssumption DEF Threads

LEMMA Cons ==
    ASSUME NEW F, NEW f \in F, NEW r \in Seq(F)
    PROVE  /\ <<f>> \o r \in Seq(F) /\ <<f>> \o r # <<>>
           /\ Len(r) \in Nat /\ Len(<<f>> \o r) = Len(r) + 1
           /\ Head(<<f>> \o r) = f /\ Tail(<<f>> \o r) = r
           /\ (<<f>> \o r)[1] = f
           /\ \A i \in 1 .. Len(r) : (<<f>> \o r)[i + 1] = r[i]
<1>1. <<f>> \in Seq(F) /\ Len(<<f>>) = 1 /\ <<f>>[1] = f
  OBVIOUS
<1> DEFINE s == <<f>> \o r
<1>2. Len(r) \in Nat
  BY LenProperties
<1>3. s \in Seq(F) /\ Len(s) = Len(r) + 1
  BY <1>1, <1>2, ConcatProperties
<1>4. s[1] = f
  BY <1>1, <1>2, ConcatProperties
<1>5. ASSUME NEW i \in 1 .. Len(r) PROVE s[i + 1] = r[i]
  <2>1. i + 1 \in 1 .. Len(<<f>>) + Len(r) /\ ~ (i + 1 <= 1) /\ (i + 1) - 1 = i
    BY <1>1, <1>2
  <2>2. QED
    BY <1>1, <2>1, ConcatProperties
<1>6. s # <<>>
  BY <1>2, <1>3
<1>7. Head(s) = f
  BY <1>4, <1>6 DEF Head
<1>8. Tail(s) = r
  <2>1. /\ Tail(s) \in Seq(F) /\ Len(Tail(s)) = Len(s) - 1
        /\ \A i \in 1 .. Len(Tail(s)) : Tail(s)[i] = s[i + 1]
    BY <1>3, <1>6, HeadTailProperties
  <2>2. Len(Tail(s)) = Len(r)
    BY <1>2, <1>3, <2>1
  <2>3. QED
    BY <1>5, <2>1, <2>2, SeqEqual
<1> HIDE DEF s
<1>9. QED
  BY <1>2, <1>3, <1>4, <1>5, <1>6, <1>7, <1>8 DEF s

LEMMA Uncons ==
    ASSUME NEW F, NEW s \in Seq(F), s # <<>>
    PROVE  Head(s) \in F /\ Tail(s) \in Seq(F) /\ s = <<Head(s)>> \o Tail(s)
<1>1. /\ Head(s) \in F /\ Tail(s) \in Seq(F) /\ Len(Tail(s)) = Len(s) - 1
      /\ \A i \in 1 .. Len(Tail(s)) : Tail(s)[i] = s[i + 1]
  BY HeadTailProperties
<1>2. Len(s) \in Nat /\ Len(s) # 0
  BY LenProperties, EmptySeq
<1> DEFINE u == <<Head(s)>> \o Tail(s)
<1>3. /\ u \in Seq(F) /\ Len(u) = Len(Tail(s)) + 1 /\ u[1] = Head(s)
      /\ \A i \in 1 .. Len(Tail(s)) : u[i + 1] = Tail(s)[i]
  BY <1>1, Cons
<1>4. ASSUME NEW i \in 1 .. Len(s) PROVE s[i] = u[i]
  <2>1. CASE i = 1
    BY <1>2, <1>3, <2>1 DEF Head
  <2>2. CASE i # 1
    <3>1. i - 1 \in 1 .. Len(Tail(s)) /\ (i - 1) + 1 = i
      BY <1>1, <1>2, <2>2
    <3>2. QED
      BY <1>1, <1>3, <3>1
  <2>3. QED
    BY <2>1, <2>2
<1>5. Len(u) = Len(s)
  BY <1>1, <1>2, <1>3
<1> HIDE DEF u
<1>6. s = u
  BY <1>3, <1>4, <1>5, SeqEqual
<1>7. QED
  BY <1>1, <1>6 DEF u

LEMMA HasCons ==
    ASSUME NEW f \in FrameTypes, NEW r \in Seq(FrameTypes), NEW g, NEW K
    PROVE  Has(<<f>> \o r, g, K) <=> (f.g = g /\ f.at \in K) \/ Has(r, g, K)
<1> DEFINE s == <<f>> \o r
<1>1. /\ Len(r) \in Nat /\ Len(s) = Len(r) + 1 /\ s[1] = f
      /\ \A i \in 1 .. Len(r) : s[i + 1] = r[i]
  BY Cons
<1> HIDE DEF s
<1>2. ASSUME Has(s, g, K) PROVE (f.g = g /\ f.at \in K) \/ Has(r, g, K)
  <2>1. PICK i \in 1 .. Len(s) : s[i].g = g /\ s[i].at \in K
    BY <1>2 DEF Has
  <2>2. CASE i = 1
    BY <1>1, <2>1, <2>2
  <2>3. CASE i # 1
    <3>1. i - 1 \in 1 .. Len(r) /\ (i - 1) + 1 = i
      BY <1>1, <2>3
    <3>2. s[i] = r[i - 1]
      BY <1>1, <3>1
    <3>3. QED
      BY <2>1, <3>1, <3>2 DEF Has
  <2>4. QED
    BY <2>2, <2>3
<1>3. ASSUME f.g = g /\ f.at \in K PROVE Has(s, g, K)
  <2>1. 1 \in 1 .. Len(s)
    BY <1>1
  <2>2. QED
    BY <1>1, <1>3, <2>1 DEF Has
<1>4. ASSUME Has(r, g, K) PROVE Has(s, g, K)
  <2>1. PICK i \in 1 .. Len(r) : r[i].g = g /\ r[i].at \in K
    BY <1>4 DEF Has
  <2>2. i + 1 \in 1 .. Len(s) /\ s[i + 1] = r[i]
    BY <1>1
  <2>3. QED
    BY <2>1, <2>2 DEF Has
<1>5. QED
  BY <1>2, <1>3, <1>4 DEF s

LEMMA AloneCons ==
    ASSUME NEW f \in FrameTypes, NEW r \in Seq(FrameTypes), NEW g, NEW K
    PROVE  Alone(<<f>> \o r, g, K)
             <=> Alone(r, g, K) /\ (f.g = g /\ f.at \in K => ~Has(r, g, K))
<1> DEFINE s == <<f>> \o r
           Is(x) == x.g = g /\ x.at \in K
<1>1. /\ Len(r) \in Nat /\ Len(s) = Len(r) + 1 /\ s[1] = f
      /\ \A i \in 1 .. Len(r) : s[i + 1] = r[i]
  BY Cons
<1>2. /\ Alone(s, g, K) <=> \A i, j \in 1 .. Len(s) : Is(s[i]) /\ Is(s[j]) => i = j
      /\ Alone(r, g, K) <=> \A i, j \in 1 .. Len(r) : Is(r[i]) /\ Is(r[j]) => i = j
      /\ Has(r, g, K) <=> \E i \in 1 .. Len(r) : Is(r[i])
      /\ Is(f) <=> f.g = g /\ f.at \in K
  BY DEF Alone, Has
<1> HIDE DEF s, Is
<1>3. ASSUME Alone(s, g, K) PROVE Alone(r, g, K) /\ (Is(f) => ~Has(r, g, K))
  <2>1. ASSUME NEW i \in 1 .. Len(r), NEW j \in 1 .. Len(r), Is(r[i]), Is(r[j])
        PROVE  i = j
    <3>1. i + 1 \in 1 .. Len(s) /\ j + 1 \in 1 .. Len(s)
      BY <1>1
    <3>2. Is(s[i + 1]) /\ Is(s[j + 1])
      BY <1>1, <2>1
    <3>3. i + 1 = j + 1
      BY <1>2, <1>3, <3>1, <3>2
    <3>4. QED
      BY <3>3
  <2>2. ASSUME Is(f), NEW i \in 1 .. Len(r), Is(r[i]) PROVE FALSE
    <3>1. 1 \in 1 .. Len(s) /\ i + 1 \in 1 .. Len(s) /\ 1 # i + 1
      BY <1>1
    <3>2. Is(s[1]) /\ Is(s[i + 1])
      BY <1>1, <2>2
    <3>3. QED
      BY <1>2, <1>3, <3>1, <3>2
  <2>3. QED
    BY <1>2, <2>1, <2>2
<1>4. ASSUME Alone(r, g, K), Is(f) => ~Has(r, g, K) PROVE Alone(s, g, K)
  <2>1. SUFFICES ASSUME NEW i \in 1 .. Len(s), NEW j \in 1 .. Len(s), Is(s[i]), Is(s[j])
                 PROVE  i = j
    BY <1>2
  <2>2. \A k \in 1 .. Len(s) : k # 1 =>
            k - 1 \in 1 .. Len(r) /\ s[k] = r[k - 1]
    <3>1. ASSUME NEW k \in 1 .. Len(s), k # 1
          PROVE  k - 1 \in 1 .. Len(r) /\ s[k] = r[k - 1]
      <4>1. k - 1 \in 1 .. Len(r) /\ (k - 1) + 1 = k
        BY <1>1, <3>1
      <4>2. QED
        BY <1>1, <4>1
    <3>2. QED
      BY <3>1
  <2>3. CASE i = 1 \/ j = 1
    <3>1. ASSUME NEW k \in 1 .. Len(s), k # 1, Is(s[k]), Is(f) PROVE FALSE
      BY <1>2, <1>4, <2>2, <3>1
    <3>2. QED
      BY <1>1, <2>1, <2>3, <3>1
  <2>4. CASE i # 1 /\ j # 1
    <3>1. i - 1 \in 1 .. Len(r) /\ j - 1 \in 1 .. Len(r) /\ Is(r[i - 1]) /\ Is(r[j - 1])
      BY <2>1, <2>2, <2>4
    <3>2. i - 1 = j - 1
      BY <1>2, <1>4, <3>1
    <3>3. QED
      BY <3>2
  <2>5. QED
    BY <2>3, <2>4
<1>5. QED
  BY <1>2, <1>3, <1>4 DEF s

-----------------------------------------------------------------------------
(* Calls that do not change what a thread is at with a stream.             *)

Unwatched(label) == \A K \in Kinds : label \notin K

Same(s, u) ==
    \A K \in Kinds, g \in Gens :
        /\ Has(u, g, K) <=> Has(s, g, K)
        /\ Alone(u, g, K) <=> Alone(s, g, K)

LEMMA UnwatchedLabels ==
    \A l \in {"start", "create", "add bug", "publish", "text", "read pointer", "use", "pause",
              "load flags", "store closing", "store open", "find", "clear", "lock",
              "remove only", "prune", "frame lock", "crash", "hang up"} : Unwatched(l)
BY DEF Unwatched, Kinds, Hold, Tear, Done, Claims, Writes

LEMMA SameOnes ==
    /\ \A s : Same(s, s)
    /\ \A s, u, v : Same(s, u) /\ Same(u, v) => Same(s, v)
BY DEF Same

LEMMA Replacing ==
    ASSUME NEW h \in FrameTypes, NEW f \in FrameTypes, NEW r \in Seq(FrameTypes),
           \/ f.g = h.g /\ \A K \in Kinds : f.at \in K <=> h.at \in K
           \/ Unwatched(h.at) /\ Unwatched(f.at)
    PROVE  Same(<<h>> \o r, <<f>> \o r)
<1>1. SUFFICES ASSUME NEW K \in Kinds, NEW g \in Gens
               PROVE  /\ Has(<<f>> \o r, g, K) <=> Has(<<h>> \o r, g, K)
                      /\ Alone(<<f>> \o r, g, K) <=> Alone(<<h>> \o r, g, K)
  BY DEF Same
<1>2. (f.g = g /\ f.at \in K) <=> (h.g = g /\ h.at \in K)
  BY DEF Unwatched
<1>3. QED
  BY <1>2, HasCons, AloneCons

LEMMA Calling1 ==
    ASSUME NEW f \in FrameTypes, NEW r \in Seq(FrameTypes), Unwatched(f.at)
    PROVE  Same(r, <<f>> \o r) /\ Same(<<f>> \o r, r)
<1>1. ASSUME NEW K \in Kinds, NEW g \in Gens
      PROVE  /\ Has(<<f>> \o r, g, K) <=> Has(r, g, K)
             /\ Alone(<<f>> \o r, g, K) <=> Alone(r, g, K)
  <2>1. ~ (f.g = g /\ f.at \in K)
    BY DEF Unwatched
  <2>2. QED
    BY <2>1, HasCons, AloneCons
<1>2. QED
  BY <1>1 DEF Same

-----------------------------------------------------------------------------
(* What the stacks are made of.                                            *)

LEMMA FramesAre ==
    ASSUME TypeOK
    PROVE  /\ Frames \subseteq FrameTypes /\ Resting \subseteq Frames
           /\ Seq(Resting) \subseteq Seq(FrameTypes)
           /\ started \in Nat
<1>1. started \in 0 .. MaxGen
  BY DEF TypeOK
<1>2. 0 .. started \subseteq Gens \cup {None}
  BY <1>1, ThreadsAre DEF Gens, None
<1>3. Frames \subseteq FrameTypes /\ Resting \subseteq Frames
  BY <1>2 DEF Frames, FrameTypes, Resting
<1>4. QED
  BY <1>1, <1>3, ThreadsAre

LEMMA StackOf ==
    ASSUME TypeOK, Shape, NEW t \in Threads, stack[t] # <<>>
    PROVE  /\ Head(stack[t]) \in Frames /\ Tail(stack[t]) \in Seq(Resting)
           /\ Head(stack[t]) \in FrameTypes /\ Tail(stack[t]) \in Seq(FrameTypes)
           /\ stack[t] = <<Head(stack[t])>> \o Tail(stack[t])
           /\ t = Session => hungUp
<1>1. stack[t] \in Seq(FrameTypes)
  BY DEF TypeOK, FrameTypes
<1>2. IsStack(stack[t])
  BY DEF Shape
<1>3. stack[t] = <<Head(stack[t])>> \o Tail(stack[t])
  BY <1>1, Uncons
<1>4. QED
  BY <1>2, <1>3, FramesAre DEF IsStack, Shape

LEMMA NewStacks ==
    ASSUME TypeOK, NEW r \in Seq(Resting)
    PROVE  /\ IsStack(r) /\ r \in Seq(FrameTypes)
           /\ \A f \in Frames : IsStack(<<f>> \o r) /\ <<f>> \o r \in Seq(FrameTypes)
           /\ \A f \in Resting : <<f>> \o r \in Seq(Resting)
<1>1. IsStack(r)
  <2>1. r # <<>> => Head(r) \in Resting /\ Tail(r) \in Seq(Resting)
    BY Uncons
  <2>2. QED
    BY <2>1, FramesAre DEF IsStack
<1>2. ASSUME NEW f \in Frames PROVE IsStack(<<f>> \o r) /\ <<f>> \o r \in Seq(FrameTypes)
  <2>1. f \in FrameTypes /\ r \in Seq(FrameTypes) /\ r \in Seq(Frames)
    BY FramesAre
  <2>2. <<f>> \o r \in Seq(FrameTypes) /\ Head(<<f>> \o r) = f /\ Tail(<<f>> \o r) = r
    BY <2>1, Cons
  <2>3. QED
    BY <2>2 DEF IsStack
<1>3. ASSUME NEW f \in Resting PROVE <<f>> \o r \in Seq(Resting)
  BY Cons
<1>4. QED
  BY <1>1, <1>2, <1>3, FramesAre

\* A call waits at none of the labels at which a stream is on its way.
Way == {"publish", "lock", "decide", "claim"}

LEMMA OnTop ==
    ASSUME TypeOK, Shape, NEW t \in Threads, stack[t] # <<>>, NEW g
    PROVE  Has(stack[t], g, Way) <=> Gen(t) = g /\ Head(stack[t]).at \in Way
<1> DEFINE h == Head(stack[t])
           r == Tail(stack[t])
<1>1. /\ h \in FrameTypes /\ r \in Seq(FrameTypes) /\ r \in Seq(Resting)
      /\ stack[t] = <<h>> \o r
  BY StackOf
<1>2. ~Has(r, g, Way)
  <2>1. \A i \in 1 .. Len(r) : r[i] \in Resting
    BY <1>1, ElementOfSeq
  <2>2. \A f \in Resting : f.at \notin Way
    BY DEF Resting, Way
  <2>3. QED
    BY <2>1, <2>2 DEF Has
<1>3. Gen(t) = h.g
  BY DEF Gen
<1> HIDE DEF h, r
<1>4. Has(stack[t], g, Way) <=> (h.g = g /\ h.at \in Way)
  BY <1>1, <1>2, HasCons
<1>5. QED
  BY <1>3, <1>4 DEF h

-----------------------------------------------------------------------------
(* Steps of one thread.                                                    *)

Turn(t, new) == stack' = [stack EXCEPT ![t] = new]

LEMMA ShapeKept ==
    ASSUME TypeOK, Shape, NEW t \in Threads, NEW new \in Seq(FrameTypes), IsStack(new),
           Turn(t, new), started' = started, private' \in 0 .. started,
           \A g \in Gens : bug'[g] = "attached" => g <= started,
           hungUp' \in {hungUp, TRUE}, t = Session => hungUp'
    PROVE  Shape' /\ stack' \in [Threads -> Seq(FrameTypes)]
<1>1. stack \in [Threads -> Seq(FrameTypes)]
  BY DEF TypeOK, FrameTypes
<1>2. stack' \in [Threads -> Seq(FrameTypes)]
  BY <1>1 DEF Turn
<1>3. Frames' = Frames /\ Resting' = Resting
  BY DEF Frames, Resting
<1>4. ASSUME NEW u \in Threads PROVE IsStack(stack[u])'
  <2>1. stack'[u] = IF u = t THEN new ELSE stack[u]
    BY <1>1 DEF Turn
  <2>2. IsStack(stack[u])
    BY DEF Shape
  <2>3. stack'[u] # <<>> => Head(stack'[u]) \in Frames /\ Tail(stack'[u]) \in Seq(Resting)
    BY <2>1, <2>2 DEF IsStack
  <2>4. QED
    BY <1>3, <2>3 DEF IsStack
<1>5. ~hungUp' => stack'[Session] = <<>>
  <2>1. SUFFICES ASSUME ~hungUp' PROVE stack'[Session] = <<>>
    OBVIOUS
  <2>2. t # Session /\ ~hungUp /\ stack'[Session] = stack[Session]
    BY <1>1, <2>1, ThreadsAre DEF Turn, TypeOK
  <2>3. QED
    BY <2>2 DEF Shape
<1>6. QED
  BY <1>2, <1>4, <1>5 DEF Shape

\* Threads are where they were with all streams, as far as the labels K say.
Stays(K) ==
    \A t \in Threads, g \in Gens :
        /\ Has(stack'[t], g, K) <=> Has(stack[t], g, K)
        /\ Alone(stack'[t], g, K) <=> Alone(stack[t], g, K)

LEMMA StaysIf ==
    ASSUME TypeOK, NEW t \in Threads, NEW new, Turn(t, new), Same(stack[t], new)
    PROVE  \A K \in Kinds : Stays(K)
<1>1. ASSUME NEW u \in Threads PROVE Same(stack[u], stack'[u])
  <2>1. stack'[u] = IF u = t THEN new ELSE stack[u]
    BY DEF Turn, TypeOK
  <2>2. QED
    BY <2>1, SameOnes
<1>2. QED
  BY <1>1 DEF Stays, Same

LEMMA WayKept ==
    ASSUME TypeOK, Shape, NEW t \in Threads, NEW new, Turn(t, new),
           stack[t] # <<>> => Head(stack[t]).at \notin Way
    PROVE  \A g \in Gens : OnItsWay(g) => OnItsWay(g)'
<1>1. SUFFICES ASSUME NEW g \in Gens, NEW u \in Threads, Has(stack[u], g, Way)
               PROVE  Has(stack'[u], g, Way)
  BY DEF OnItsWay, Has, Way
<1>2. u # t
  <2>1. SUFFICES ASSUME u = t PROVE FALSE
    OBVIOUS
  <2>2. stack[t] # <<>>
    <3>1. SUFFICES ASSUME stack[t] = <<>> PROVE FALSE
      OBVIOUS
    <3>2. Len(stack[t]) = 0
      BY <3>1
    <3>3. QED
      BY <1>1, <2>1, <3>2 DEF Has
  <2>3. QED
    BY <1>1, <2>1, <2>2, OnTop
<1>3. stack'[u] = stack[u]
  BY <1>2 DEF Turn, TypeOK
<1>4. QED
  BY <1>1, <1>3

LEMMA HeldKept ==
    ASSUME Held, Stays(Hold), mutex' = mutex
    PROVE  Held'
BY DEF Held, Stays

LEMMA LiveKept ==
    ASSUME Live, Stays(Done), Stays(Writes), pointer' = pointer, streamer' = streamer,
           \A g \in Gens : Has(stack[Media], g, Writes) => mutex'[g] = mutex[g]
    PROVE  Live'
BY ThreadsAre DEF Live, Stays

LEMMA OnceKept ==
    ASSUME Once, Stays(Tear), Stays(Claims), closing' = closing,
           \A g \in Gens : mutex'[g] = Dead <=> mutex[g] = Dead
    PROVE  Once'
<1>1. SUFFICES ASSUME NEW g \in Gens PROVE OnceOf(g)'
  BY DEF Once
<1>2. OnceOf(g)
  BY DEF Once
<1>3. \A t \in Threads :
          /\ Has(stack'[t], g, Tear) <=> Has(stack[t], g, Tear)
          /\ Alone(stack'[t], g, Tear) <=> Alone(stack[t], g, Tear)
          /\ Has(stack'[t], g, Claims) <=> Has(stack[t], g, Claims)
  BY DEF Stays
<1>4. QED
  BY <1>2, <1>3 DEF OnceOf

Proper == Once /\ CanBeStopped

\* A step of a thread that is at nothing that counts, or goes on at the same.
LEMMA Quiet ==
    ASSUME Locks, TypeOK', Shape', NEW t \in Threads, NEW new, Turn(t, new),
           Same(stack[t], new), stack[t] # <<>> => Head(stack[t]).at \notin Way,
           UNCHANGED <<private, strayed, closing, pointer, mutex, streamer>>,
           \A g \in Gens : bug'[g] = "attached" => bug[g] = "attached"
    PROVE  Locks' /\ (Proper => Proper')
<1>1. TypeOK /\ Shape /\ Held /\ Live
  BY DEF Locks
<1>2. Stays(Hold) /\ Stays(Tear) /\ Stays(Done) /\ Stays(Claims) /\ Stays(Writes)
  BY <1>1, StaysIf DEF Kinds
<1>3. Held' /\ Live'
  BY <1>1, <1>2, HeldKept, LiveKept
<1>4. ASSUME Proper PROVE Once'
  BY <1>2, <1>4, OnceKept DEF Proper
<1>5. ASSUME Proper PROVE CanBeStopped'
  <2>1. \A g \in Gens : OnItsWay(g) => OnItsWay(g)'
    BY <1>1, WayKept
  <2>2. QED
    BY <1>5, <2>1 DEF Proper, CanBeStopped
<1>6. QED
  BY <1>1, <1>3, <1>4, <1>5 DEF Locks, Proper

\* What TypeOK says of the other variables.
OtherTypes ==
    /\ private \in Gens \cup {None}
    /\ bug \in [Gens -> {"none", "attached", "closed"}]
    /\ closing \in [Gens -> BOOLEAN] /\ pointer \in [Gens -> BOOLEAN]
    /\ mutex \in [Gens -> {Free, Dead} \cup Threads]
    /\ streamer \in [Gens -> {"none", "running", "finishing", "deleted"}]
    /\ strayed \in BOOLEAN
    /\ slot \in [Gens -> BOOLEAN] /\ started \in 0 .. MaxGen
    /\ commands \in 0 .. MaxCommands /\ errors \in 0 .. MaxErrors
    /\ reading \in BOOLEAN /\ hungUp \in BOOLEAN

LEMMA TypesAre ==
    /\ TypeOK <=> stack \in [Threads -> Seq(FrameTypes)] /\ OtherTypes
    /\ TypeOK' <=> stack' \in [Threads -> Seq(FrameTypes)] /\ OtherTypes'
BY DEF TypeOK, OtherTypes, FrameTypes

Still ==
    /\ UNCHANGED <<private, strayed, bug, closing, pointer, mutex, streamer, started>>
    /\ hungUp' \in {hungUp, TRUE}

LEMMA QuietTurn ==
    ASSUME Locks, NEW t \in Threads, NEW new \in Seq(FrameTypes), IsStack(new), Turn(t, new),
           Same(stack[t], new), stack[t] # <<>> => Head(stack[t]).at \notin Way,
           stack[t] = <<>> => t # Session \/ hungUp', Still, OtherTypes'
    PROVE  Locks' /\ (Proper => Proper')
<1>1. TypeOK /\ Shape /\ hungUp \in BOOLEAN
  BY DEF Locks, TypeOK
<1>2. t = Session => hungUp'
  <2>1. stack[t] # <<>> => (t = Session => hungUp)
    BY <1>1, StackOf
  <2>2. QED
    BY <1>1, <2>1 DEF Still
<1>3. Shape' /\ stack' \in [Threads -> Seq(FrameTypes)]
  <2>1. private' \in 0 .. started /\ \A g \in Gens : bug'[g] = "attached" => g <= started
    BY <1>1 DEF Still, Shape
  <2>2. started' = started /\ hungUp' \in {hungUp, TRUE}
    BY DEF Still
  <2>3. QED
    BY <1>1, <1>2, <2>1, <2>2, ShapeKept
<1>4. TypeOK'
  BY <1>3, TypesAre
<1>5. QED
  BY <1>3, <1>4, Quiet DEF Still

\* The frames a step makes.
LEMMA FrameIs ==
    ASSUME TypeOK, NEW l \in Labels, NEW g \in 0 .. started, NEW w \in Why,
           l \in Streamed => g \in Gens, l \in Pausing => "pause" \in Commands
    PROVE  /\ Frame(l, g, w) \in Frames
           /\ Frame(l, g, w).at = l /\ Frame(l, g, w).g = g /\ Frame(l, g, w).why = w
BY DEF Frame, Frames

LEMMA GotoIs ==
    ASSUME TypeOK, Shape, NEW t \in Threads, stack[t] # <<>>, NEW l \in Labels,
           l \in Streamed => Gen(t) \in Gens, l \in Pausing => "pause" \in Commands
    PROVE  /\ [Head(stack[t]) EXCEPT !.at = l] = Frame(l, Gen(t), By(t))
           /\ Frame(l, Gen(t), By(t)) \in Frames
           /\ Goto(t, l) => Turn(t, <<Frame(l, Gen(t), By(t))>> \o Tail(stack[t]))
           /\ OnwardsAt(t, l) = <<Frame(l, Gen(t), By(t))>> \o Tail(stack[t])
<1> DEFINE h == Head(stack[t])
<1>1. h \in Frames
  BY StackOf
<1>2. h = [at |-> h.at, g |-> h.g, why |-> h.why] /\ h.g \in 0 .. started /\ h.why \in Why
  BY <1>1 DEF Frames
<1>3. Gen(t) = h.g /\ By(t) = h.why
  BY DEF Gen, By
<1> HIDE DEF h
<1>4. [h EXCEPT !.at = l] = Frame(l, h.g, h.why)
  BY <1>2 DEF Frame
<1>5. Frame(l, h.g, h.why) \in Frames
  BY <1>2, <1>3, FrameIs
<1>6. Goto(t, l) => Turn(t, <<[h EXCEPT !.at = l]>> \o Tail(stack[t]))
  BY DEF Goto, Turn, h, TypeOK
<1>7. OnwardsAt(t, l) = <<[h EXCEPT !.at = l]>> \o Tail(stack[t])
  BY DEF OnwardsAt, h
<1>8. QED
  BY <1>3, <1>4, <1>5, <1>6, <1>7 DEF h

LEMMA QuietReplace ==
    ASSUME Locks, NEW t \in Threads, stack[t] # <<>>, NEW f \in Frames,
           Turn(t, <<f>> \o Tail(stack[t])), Head(stack[t]).at \notin Way,
           \/ f.g = Gen(t) /\ \A K \in Kinds : f.at \in K <=> Head(stack[t]).at \in K
           \/ Unwatched(f.at) /\ Unwatched(Head(stack[t]).at),
           Still, OtherTypes'
    PROVE  Locks' /\ (Proper => Proper')
<1> DEFINE h == Head(stack[t])
           r == Tail(stack[t])
<1>1. TypeOK /\ Shape
  BY DEF Locks
<1>2. /\ h \in FrameTypes /\ r \in Seq(FrameTypes) /\ r \in Seq(Resting)
      /\ stack[t] = <<h>> \o r /\ f \in FrameTypes
  BY <1>1, StackOf, FramesAre
<1>3. IsStack(<<f>> \o r) /\ <<f>> \o r \in Seq(FrameTypes)
  BY <1>1, <1>2, NewStacks
<1>4. Same(<<h>> \o r, <<f>> \o r)
  <2>1. h.g = Gen(t)
    BY DEF Gen
  <2> HIDE DEF h, r
  <2>2. QED
    BY <1>2, <2>1, Replacing DEF h
<1>5. QED
  BY <1>2, <1>3, <1>4, QuietTurn

LEMMA QuietGoto ==
    ASSUME Locks, NEW t \in Threads, NEW l0, At(t, l0), l0 \notin Way, NEW l \in Labels,
           Goto(t, l), l0 \in Streamed \/ l \notin Streamed,
           l \in Pausing => "pause" \in Commands,
           \A K \in Kinds : l \in K <=> l0 \in K, Still, OtherTypes'
    PROVE  Locks' /\ (Proper => Proper')
<1> DEFINE f == Frame(l, Gen(t), By(t))
<1>1. TypeOK /\ Shape /\ stack[t] # <<>> /\ Head(stack[t]).at = l0
  BY DEF Locks, At
<1>2. Head(stack[t]) \in Frames
  BY <1>1, StackOf
<1>3. l \in Streamed => Gen(t) \in Gens
  BY <1>1, <1>2 DEF Frames, Gen
<1>4. f \in Frames /\ Turn(t, <<f>> \o Tail(stack[t]))
  BY <1>1, <1>3, GotoIs
<1>5. f.at = l /\ f.g = Gen(t)
  BY DEF Frame
<1> HIDE DEF f
<1>6. QED
  BY <1>1, <1>4, <1>5, QuietReplace

LEMMA QuietBecome ==
    ASSUME Locks, NEW t \in Threads, NEW l0, At(t, l0), l0 \notin Way, NEW l \in Labels,
           NEW g \in 0 .. started, NEW w \in Why,
           Become(t, Frame(l, g, w)), l \in Streamed => g \in Gens,
           l \in Pausing => "pause" \in Commands,
           Unwatched(l), Unwatched(l0), Still, OtherTypes'
    PROVE  Locks' /\ (Proper => Proper')
<1> DEFINE f == Frame(l, g, w)
<1>1. TypeOK /\ Shape /\ stack[t] # <<>> /\ Head(stack[t]).at = l0
  BY DEF Locks, At
<1>2. f \in Frames /\ f.at = l
  BY <1>1, FrameIs
<1>3. Turn(t, <<f>> \o Tail(stack[t]))
  BY <1>1 DEF Become, Turn, TypeOK
<1> HIDE DEF f
<1>4. QED
  BY <1>1, <1>2, <1>3, QuietReplace

LEMMA QuietReturn ==
    ASSUME Locks, NEW t \in Threads, NEW l0, At(t, l0), l0 \notin Way, Unwatched(l0),
           Return(t), Still, OtherTypes'
    PROVE  Locks' /\ (Proper => Proper')
<1> DEFINE h == Head(stack[t])
           r == Tail(stack[t])
<1>1. TypeOK /\ Shape /\ stack[t] # <<>> /\ h.at = l0
  BY DEF Locks, At
<1>2. /\ h \in FrameTypes /\ r \in Seq(FrameTypes) /\ r \in Seq(Resting)
      /\ stack[t] = <<h>> \o r
  BY <1>1, StackOf
<1>3. IsStack(r) /\ Turn(t, r)
  BY <1>1, <1>2, NewStacks DEF Return, Turn, TypeOK
<1> HIDE DEF h, r
<1>4. Same(stack[t], r)
  BY <1>1, <1>2, Calling1
<1>5. QED
  BY <1>1, <1>2, <1>3, <1>4, QuietTurn DEF h

LEMMA QuietEnter ==
    ASSUME Locks, NEW t \in Threads, stack[t] = <<>>, NEW l \in Labels,
           NEW g \in 0 .. started, NEW w \in Why, Enter(t, Frame(l, g, w)),
           l \in Streamed => g \in Gens, l \in Pausing => "pause" \in Commands,
           Unwatched(l), t # Session \/ hungUp', Still, OtherTypes'
    PROVE  Locks' /\ (Proper => Proper')
<1> DEFINE f == Frame(l, g, w)
<1>1. TypeOK
  BY DEF Locks
<1>2. f \in Frames /\ f.at = l /\ f \in FrameTypes
  BY <1>1, FrameIs, FramesAre
<1>3. Turn(t, <<f>> \o <<>>)
  BY <1>1 DEF Enter, Turn, TypeOK
<1> HIDE DEF f
<1>4. <<>> \in Seq(Resting) /\ <<>> \in Seq(FrameTypes)
  BY EmptySeq
<1>5. IsStack(<<f>> \o <<>>) /\ <<f>> \o <<>> \in Seq(FrameTypes)
  BY <1>1, <1>2, <1>4, NewStacks
<1>6. Same(<<>>, <<f>> \o <<>>)
  BY <1>2, <1>4, Calling1
<1>7. QED
  BY <1>3, <1>5, <1>6, QuietTurn

\* Closing a bug calls back into the teardown on top of what is left to do.
LEMMA QuietClose ==
    ASSUME Locks, NEW t \in Threads, stack[t] # <<>>, Head(stack[t]).at \notin Way,
           NEW g \in Gens, NEW rest \in Seq(Resting), CloseBug(t, g, rest),
           Same(stack[t], rest),
           UNCHANGED <<private, strayed, closing, pointer, mutex, streamer, started, hungUp>>,
           UNCHANGED <<slot, commands, errors>>, reading' \in BOOLEAN
    PROVE  Locks' /\ (Proper => Proper')
<1> DEFINE c == CloseCallback(g)
<1>1. TypeOK /\ Shape /\ (t = Session => hungUp) /\ hungUp \in BOOLEAN
  BY StackOf DEF Locks, TypeOK
<1>2. /\ c \in Frames /\ c \in FrameTypes /\ Unwatched(c.at)
      /\ rest \in Seq(FrameTypes)
  <2>1. c = Frame("find", None, "stop") \/ c = Frame("find", None, "hangup")
    BY DEF CloseCallback
  <2>2. None \in 0 .. started
    BY <1>1, FramesAre DEF None
  <2>3. "find" \in Labels /\ "find" \notin Streamed /\ "find" \notin Pausing
    BY DEF Labels, Streamed, Pausing
  <2>4. c \in Frames /\ c.at = "find"
    BY <1>1, <2>1, <2>2, <2>3, FrameIs DEF Why
  <2>5. QED
    BY <1>1, <2>4, FramesAre, UnwatchedLabels
<1>3. /\ OtherTypes' /\ \A k \in Gens : bug'[k] = "attached" => bug[k] = "attached"
  <2>1. bug' = bug \/ bug' = [bug EXCEPT ![g] = "closed"]
    BY DEF CloseBug
  <2>2. bug \in [Gens -> {"none", "attached", "closed"}]
    BY <1>1 DEF TypeOK
  <2>3. /\ bug' \in [Gens -> {"none", "attached", "closed"}]
        /\ \A k \in Gens : bug'[k] = "attached" => bug[k] = "attached"
    BY <2>1, <2>2
  <2>4. QED
    BY <1>1, <2>3 DEF TypeOK, OtherTypes
<1>4. \E new \in {rest, <<c>> \o rest} : Turn(t, new)
  BY DEF CloseBug, Turn
<1> HIDE DEF c
<1>5. PICK new \in {rest, <<c>> \o rest} : Turn(t, new)
  BY <1>4
<1>6. new \in Seq(FrameTypes) /\ IsStack(new) /\ Same(stack[t], new)
  <2>1. Same(rest, <<c>> \o rest)
    BY <1>2, Calling1
  <2>2. IsStack(rest) /\ IsStack(<<c>> \o rest) /\ <<c>> \o rest \in Seq(FrameTypes)
    BY <1>1, <1>2, NewStacks
  <2>3. Same(stack[t], <<c>> \o rest)
    BY <2>1, SameOnes
  <2>4. QED
    BY <1>2, <2>2, <2>3
<1>7. Shape' /\ stack' \in [Threads -> Seq(FrameTypes)]
  <2>1. private' \in 0 .. started /\ \A k \in Gens : bug'[k] = "attached" => k <= started
    BY <1>1, <1>3 DEF Shape
  <2>2. started' = started /\ hungUp' \in {hungUp, TRUE} /\ (t = Session => hungUp')
    BY <1>1
  <2>3. QED
    BY <1>1, <1>5, <1>6, <2>1, <2>2, ShapeKept
<1>8. TypeOK'
  BY <1>3, <1>7, TypesAre
<1>9. QED
  BY <1>3, <1>5, <1>6, <1>7, <1>8, Quiet

-----------------------------------------------------------------------------
(* The actions at which no stream changes hands.                           *)

LEMMA UnwatchedFind == Unwatched("find")
BY UnwatchedLabels

LEMMA CommandStep ==
    ASSUME Locks, NEW t \in Api, Command(t)
    PROVE  Locks' /\ (Proper => Proper')
<1>1. /\ t \in Threads /\ t # Session /\ stack[t] = <<>> /\ None \in 0 .. started
  <2>1. started \in Nat
    BY FramesAre DEF Locks
  <2>2. QED
    BY <2>1, ThreadsAre DEF Command, None
<1>2. Still /\ OtherTypes'
  <2>1. Still /\ UNCHANGED <<slot, reading, errors>> /\ commands' \in 0 .. MaxCommands
    BY ThreadsAre DEF Command, Still, call, channel, stream, Locks, TypeOK
  <2>2. QED
    BY <2>1 DEF Still, Locks, TypeOK, OtherTypes
<1>3. CASE Enter(t, Frame("start", None, "command"))
  <2>1. /\ "start" \in Labels /\ "start" \notin Streamed /\ "start" \notin Pausing
        /\ "command" \in Why
    BY DEF Labels, Streamed, Why, Pausing
  <2>2. Unwatched("start")
    BY UnwatchedLabels
  <2>3. QED
    BY <1>1, <1>2, <1>3, <2>1, <2>2, QuietEnter
<1>4. CASE Enter(t, Frame("find", None, "stop"))
  <2>1. "find" \in Labels /\ "find" \notin Streamed /\ "stop" \in Why /\ "find" \notin Pausing
    BY DEF Labels, Streamed, Why, Pausing
  <2>2. Unwatched("find")
    BY UnwatchedLabels
  <2>3. QED
    BY <1>1, <1>2, <1>4, <2>1, <2>2, QuietEnter
<1>5. CASE Enter(t, Frame("text", None, "command"))
  <2>1. /\ "text" \in Labels /\ "text" \notin Streamed /\ "text" \notin Pausing
        /\ "command" \in Why
    BY DEF Labels, Streamed, Why, Pausing
  <2>2. Unwatched("text")
    BY UnwatchedLabels
  <2>3. QED
    BY <1>1, <1>2, <1>5, <2>1, <2>2, QuietEnter
<1>6. CASE "pause" \in Commands /\ Enter(t, Frame("pause", None, "command"))
  <2>1. "pause" \in Labels /\ "pause" \notin Streamed /\ "command" \in Why
    BY DEF Labels, Streamed, Why, Pausing
  <2>2. Unwatched("pause")
    BY UnwatchedLabels
  <2>3. QED
    BY <1>1, <1>2, <1>6, <2>1, <2>2, QuietEnter
<1>7. QED
  BY <1>3, <1>4, <1>5, <1>6 DEF Command

LEMMA Unchanged ==
    ASSUME Locks, UNCHANGED <<call, stream, counters>>
    PROVE  Still /\ OtherTypes' /\ private \in 0 .. started /\ started \in Nat
BY FramesAre DEF Locks, Shape, TypeOK, OtherTypes, Still, call, channel, stream, counters

LEMMA StartStep ==
    ASSUME Locks, NEW t \in Api, Start(t)
    PROVE  Locks' /\ (Proper => Proper')
<1>1. /\ t \in Threads /\ At(t, "start") /\ Still /\ OtherTypes'
      /\ Unwatched("start") /\ Unwatched("create")
  BY ThreadsAre, UnwatchedLabels, Unchanged DEF Start
<1>2. CASE Return(t)
  BY <1>1, <1>2, QuietReturn DEF Way
<1>3. CASE Goto(t, "create")
  <2>1. /\ "create" \in Labels /\ "create" \notin Streamed /\ "create" \notin Pausing
        /\ "start" \notin Way
    BY DEF Labels, Streamed, Pausing, Way
  <2>2. \A K \in Kinds : "create" \in K <=> "start" \in K
    BY <1>1 DEF Unwatched
  <2>3. QED
    BY <1>1, <1>3, <2>1, <2>2, QuietGoto
<1>4. QED
  BY <1>2, <1>3 DEF Start

LEMMA SendTextStep ==
    ASSUME Locks, NEW t \in Api, SendText(t)
    PROVE  Locks' /\ (Proper => Proper')
<1>1. /\ t \in Threads /\ At(t, "text") /\ Still /\ OtherTypes' /\ private \in 0 .. started
      /\ Unwatched("text") /\ Unwatched("read pointer")
  BY ThreadsAre, UnwatchedLabels, Unchanged DEF SendText
<1>2. CASE Return(t)
  BY <1>1, <1>2, QuietReturn DEF Way
<1>3. CASE private # None /\ Become(t, Frame("read pointer", private, "command"))
  <2>1. private \in Gens
    BY <1>3 DEF Locks, TypeOK
  <2>2. QED
    BY <1>1, <1>3, <2>1, QuietBecome DEF Way, Labels, Why, Pausing
<1>4. QED
  BY <1>2, <1>3 DEF SendText

LEMMA ReadPointerStep ==
    ASSUME Locks, NEW t \in Api, ReadPointer(t)
    PROVE  Locks' /\ (Proper => Proper')
<1>1. /\ t \in Threads /\ At(t, "read pointer") /\ Still /\ OtherTypes'
      /\ Unwatched("read pointer") /\ Unwatched("use")
  BY ThreadsAre, UnwatchedLabels, Unchanged DEF ReadPointer
<1>2. CASE Return(t)
  BY <1>1, <1>2, QuietReturn DEF Way
<1>3. CASE Goto(t, "use")
  <2>1. /\ "use" \in Labels /\ "read pointer" \in Streamed /\ "use" \notin Pausing
        /\ "read pointer" \notin Way
    BY DEF Labels, Streamed, Pausing, Way
  <2>2. \A K \in Kinds : "use" \in K <=> "read pointer" \in K
    BY <1>1 DEF Unwatched
  <2>3. QED
    BY <1>1, <1>3, <2>1, <2>2, QuietGoto
<1>4. QED
  BY <1>2, <1>3 DEF ReadPointer

LEMMA UseStep ==
    ASSUME Locks, NEW t \in Api, Use(t)
    PROVE  Locks' /\ (Proper => Proper')
<1>1. t \in Threads /\ At(t, "use") /\ Return(t) /\ Still /\ OtherTypes' /\ Unwatched("use")
  BY ThreadsAre, UnwatchedLabels, Unchanged DEF Use
<1>2. QED
  BY <1>1, QuietReturn DEF Way

LEMMA FindToPauseStep ==
    ASSUME Locks, NEW t \in Api, FindToPause(t)
    PROVE  Locks' /\ (Proper => Proper')
<1>1. /\ t \in Threads /\ At(t, "pause") /\ Still /\ OtherTypes' /\ private \in 0 .. started
      /\ Unwatched("pause") /\ Unwatched("load flags")
  BY ThreadsAre, UnwatchedLabels, Unchanged DEF FindToPause
<1>2. CASE Return(t)
  BY <1>1, <1>2, QuietReturn DEF Way
<1>3. CASE private # None /\ Become(t, Frame("load flags", private, "command"))
  <2>1. private \in Gens
    BY <1>3 DEF Locks, TypeOK
  <2>2. "pause" \in Commands
    BY <1>1, StackOf DEF Locks, Frames, At, Pausing
  <2>3. QED
    BY <1>1, <1>3, <2>1, <2>2, QuietBecome DEF Way, Labels, Why
<1>4. QED
  BY <1>2, <1>3 DEF FindToPause

LEMMA LoadFlagsStep ==
    ASSUME Locks, NEW t \in Api, LoadFlags(t)
    PROVE  Locks' /\ (Proper => Proper')
<1>1. /\ t \in Threads /\ At(t, "load flags") /\ Still /\ OtherTypes'
      /\ Unwatched("load flags") /\ Unwatched("store closing") /\ Unwatched("store open")
  BY ThreadsAre, UnwatchedLabels, Unchanged DEF LoadFlags
<1>2. "pause" \in Commands
  BY <1>1, StackOf DEF Locks, Frames, At, Pausing
<1>3. PICK l \in {"store closing", "store open"} : Goto(t, l)
  BY DEF LoadFlags
<1>4. l \in Labels /\ "load flags" \in Streamed /\ "load flags" \notin Way
  BY DEF Labels, Streamed, Way
<1>5. \A K \in Kinds : l \in K <=> "load flags" \in K
  BY <1>1 DEF Unwatched
<1>6. QED
  BY <1>1, <1>2, <1>3, <1>4, <1>5, QuietGoto

LEMMA TryLockStep ==
    ASSUME Locks, NEW t \in Threads, TryLock(t)
    PROVE  Locks' /\ (Proper => Proper')
<1>1. At(t, "destroy") /\ Goto(t, "retry") /\ Still /\ OtherTypes'
  BY Unchanged DEF TryLock
<1>2. \A K \in Kinds : "retry" \in K <=> "destroy" \in K
  BY DEF Kinds, Hold, Tear, Done, Claims, Writes
<1>3. /\ "retry" \in Labels /\ "destroy" \in Streamed /\ "retry" \notin Pausing
      /\ "destroy" \notin Way
  BY DEF Labels, Streamed, Pausing, Way
<1>4. QED
  BY <1>1, <1>2, <1>3, QuietGoto

LEMMA FrameCrashesStep ==
    ASSUME Locks, FrameCrashes
    PROVE  Locks' /\ (Proper => Proper')
<1>1. /\ Media \in Threads /\ At(Media, "frame lock") /\ Goto(Media, "crash") /\ Still
      /\ OtherTypes' /\ Unwatched("frame lock") /\ Unwatched("crash")
  BY ThreadsAre, UnwatchedLabels, Unchanged DEF FrameCrashes
<1>2. /\ "crash" \in Labels /\ "frame lock" \in Streamed /\ "crash" \notin Pausing
      /\ "frame lock" \notin Way
  BY DEF Labels, Streamed, Pausing, Way
<1>3. \A K \in Kinds : "crash" \in K <=> "frame lock" \in K
  BY <1>1 DEF Unwatched
<1>4. QED
  BY <1>1, <1>2, <1>3, QuietGoto

LEMMA MediaCallbackStep ==
    ASSUME Locks, NEW g \in Gens, MediaCallback(g)
    PROVE  Locks' /\ (Proper => Proper')
<1>1. /\ Media \in Threads /\ Media # Session /\ stack[Media] = <<>>
      /\ Unwatched("prune") /\ Unwatched("frame lock")
  BY ThreadsAre, UnwatchedLabels DEF MediaCallback
<1>2. Still /\ OtherTypes'
  BY DEF MediaCallback, Still, OtherTypes, Locks, TypeOK, channel, stream, counters
<1>3. g \in 0 .. started
  <2>1. started \in Nat /\ g \in Nat
    BY FramesAre, ThreadsAre DEF Locks, Gens
  <2>2. g <= started
    BY DEF MediaCallback, Locks, Shape
  <2>3. QED
    BY <2>1, <2>2
<1>4. PICK l \in {"prune", "frame lock"} : Enter(Media, Frame(l, g, "frame"))
  BY DEF MediaCallback
<1>5. l \in Labels /\ "frame" \in Why /\ l \notin Pausing
  BY DEF Labels, Why, Pausing
<1>6. QED
  BY <1>1, <1>2, <1>3, <1>4, <1>5, QuietEnter

LEMMA WebSocketErrorStep ==
    ASSUME Locks, NEW g \in Gens, WebSocketError(g)
    PROVE  Locks' /\ (Proper => Proper')
<1>1. /\ g \in Threads /\ g # Session /\ stack[g] = <<>> /\ None \in 0 .. started
      /\ Enter(g, Frame("find", None, "error"))
  <2>1. started \in Nat
    BY FramesAre DEF Locks
  <2>2. QED
    BY <2>1, ThreadsAre DEF WebSocketError, None
<1>2. Still /\ OtherTypes'
  <2>1. Still /\ UNCHANGED <<slot, reading, commands>> /\ errors' \in 0 .. MaxErrors
    BY ThreadsAre DEF WebSocketError, Still, call, channel, stream, Locks, TypeOK
  <2>2. QED
    BY <2>1 DEF Still, Locks, TypeOK, OtherTypes
<1>3. "find" \in Labels /\ "find" \notin Streamed /\ "error" \in Why /\ "find" \notin Pausing
  BY DEF Labels, Streamed, Why, Pausing
<1>4. QED
  BY <1>1, <1>2, <1>3, UnwatchedFind, QuietEnter

LEMMA PruneStep ==
    ASSUME Locks, Prune
    PROVE  Locks' /\ (Proper => Proper')
<1> DEFINE h == Head(stack[Media])
           r == Tail(stack[Media])
<1>1. /\ Media \in Threads /\ stack[Media] # <<>> /\ h.at = "prune" /\ Unwatched("prune")
      /\ CloseBug(Media, Gen(Media), r) /\ Gen(Media) = h.g
  BY ThreadsAre, UnwatchedLabels DEF Prune, At, Gen, Calling
<1>2. /\ h \in Frames /\ h \in FrameTypes /\ r \in Seq(Resting) /\ r \in Seq(FrameTypes)
      /\ stack[Media] = <<h>> \o r
  BY <1>1, StackOf DEF Locks
<1>3. h.g \in Gens
  BY <1>1, <1>2 DEF Frames, Streamed
<1>4. Same(stack[Media], r)
  BY <1>1, <1>2, Calling1
<1>5. /\ UNCHANGED <<private, strayed, closing, pointer, mutex, streamer, started, hungUp>>
      /\ UNCHANGED <<slot, commands, errors>> /\ reading' \in BOOLEAN
  BY DEF Prune, channel, counters
<1> HIDE DEF r
<1>6. QED
  BY <1>1, <1>2, <1>3, <1>4, <1>5, QuietClose DEF Way

LEMMA HangupClosesStep ==
    ASSUME Locks, HangupCloses
    PROVE  Locks' /\ (Proper => Proper')
<1> DEFINE h == Head(stack[Session])
           r == Tail(stack[Session])
           rest == OnwardsAt(Session, "hang up")
<1>1. /\ Session \in Threads /\ stack[Session] # <<>> /\ h.at = "hang up"
      /\ At(Session, "hang up") /\ Unwatched("hang up") /\ TypeOK /\ Shape
  BY ThreadsAre, UnwatchedLabels DEF HangupCloses, At, Locks
<1>2. /\ UNCHANGED <<private, strayed, closing, pointer, mutex, streamer, started, hungUp>>
      /\ UNCHANGED <<slot, commands, errors>> /\ reading' \in BOOLEAN
  BY <1>1 DEF HangupCloses, call, channel, counters, TypeOK
<1>3. CASE \E g \in Gens : bug[g] = "attached" /\ CloseBug(Session, g, rest)
  <2>1. PICK g \in Gens : CloseBug(Session, g, rest)
    BY <1>3
  <2>2. /\ r \in Seq(Resting) /\ r \in Seq(FrameTypes) /\ h \in FrameTypes
        /\ stack[Session] = <<h>> \o r
    BY <1>1, StackOf
  <2> DEFINE f == Frame("hang up", Gen(Session), By(Session))
  <2>3. f \in Frames /\ rest = <<f>> \o r /\ f.at = "hang up"
    BY <1>1, GotoIs DEF Labels, Streamed, Pausing, Frame
  <2> HIDE DEF f, r, h
  <2>4. f \in Resting
    BY <2>3 DEF Resting
  <2>5. rest \in Seq(Resting)
    BY <1>1, <2>2, <2>3, <2>4, NewStacks
  <2>6. Same(stack[Session], rest)
    BY <1>1, <2>2, <2>3, Replacing, FramesAre
  <2> HIDE DEF rest
  <2>7. QED
    BY <1>1, <1>2, <2>1, <2>5, <2>6, QuietClose DEF Way, h
<1>4. CASE Return(Session) /\ UNCHANGED bug
  <2>1. Still /\ OtherTypes'
    BY <1>1, <1>2, <1>4 DEF Still, TypeOK, OtherTypes
  <2>2. QED
    BY <1>1, <1>4, <2>1, QuietReturn DEF Way
<1>5. QED
  BY <1>3, <1>4 DEF HangupCloses

LEMMA RemoveBugStep ==
    ASSUME Locks, NEW t \in Threads, RemoveBug(t)
    PROVE  Locks' /\ (Proper => Proper')
<1> DEFINE h == Head(stack[t])
           r == Tail(stack[t])
           rest == OnwardsAt(t, "finish")
<1>1. /\ stack[t] # <<>> /\ h.at \in {"remove", "remove only"} /\ Unwatched("remove only")
      /\ TypeOK /\ Shape /\ Gen(t) = h.g
  BY UnwatchedLabels DEF RemoveBug, At, Locks, Gen
<1>2. /\ UNCHANGED <<private, strayed, closing, pointer, mutex, streamer, started, hungUp>>
      /\ UNCHANGED <<slot, commands, errors>> /\ reading' \in BOOLEAN
  BY <1>1 DEF RemoveBug, call, channel, counters, TypeOK
<1>3. /\ h \in Frames /\ r \in Seq(Resting) /\ r \in Seq(FrameTypes) /\ h \in FrameTypes
      /\ stack[t] = <<h>> \o r
  BY <1>1, StackOf
<1>4. h.g \in Gens
  BY <1>1, <1>3 DEF Frames, Streamed
<1>5. CASE h.at = "remove" /\ CloseBug(t, Gen(t), rest)
  <2> DEFINE f == Frame("finish", Gen(t), By(t))
  <2>1. f \in Frames /\ rest = <<f>> \o r /\ f.at = "finish" /\ f.g = Gen(t)
    <3>1. "finish" \in Labels /\ "finish" \notin Pausing
      BY DEF Labels, Pausing
    <3>2. f \in Frames /\ rest = <<f>> \o r
      BY <1>1, <1>4, <3>1, GotoIs
    <3>3. QED
      BY <3>2 DEF Frame
  <2> HIDE DEF f, r, h
  <2>2. f \in Resting
    BY <2>1 DEF Resting
  <2>3. rest \in Seq(Resting)
    BY <1>1, <1>3, <2>1, <2>2, NewStacks
  <2>4. \A K \in Kinds : "finish" \in K <=> "remove" \in K
    BY DEF Kinds, Hold, Tear, Done, Claims, Writes
  <2>5. Same(stack[t], rest)
    BY <1>1, <1>3, <1>5, <2>1, <2>4, Replacing, FramesAre
  <2> HIDE DEF rest
  <2>6. QED
    BY <1>1, <1>2, <1>4, <1>5, <2>3, <2>5, QuietClose DEF Way, h
<1>6. CASE h.at = "remove only" /\ CloseBug(t, Gen(t), r)
  <2> HIDE DEF r, h
  <2>1. Same(stack[t], r)
    BY <1>1, <1>3, <1>6, Calling1
  <2>2. QED
    BY <1>1, <1>2, <1>3, <1>4, <1>6, <2>1, QuietClose DEF Way, h
<1>7. QED
  BY <1>5, <1>6 DEF RemoveBug, At, Calling

LEMMA CloseOwnBugStep ==
    ASSUME Locks, NEW t \in Threads, CloseOwnBug(t)
    PROVE  Locks' /\ (Proper => Proper')
<1> DEFINE h == Head(stack[t])
           r == Tail(stack[t])
           rest == OnwardsAt(t, "destroy")
           f == Frame("destroy", Gen(t), By(t))
<1>1. /\ stack[t] # <<>> /\ h.at = "close bug" /\ CloseBug(t, Gen(t), rest)
      /\ TypeOK /\ Shape /\ Gen(t) = h.g
  BY DEF CloseOwnBug, At, Locks, Gen
<1>2. /\ UNCHANGED <<private, strayed, closing, pointer, mutex, streamer, started, hungUp>>
      /\ UNCHANGED <<slot, commands, errors>> /\ reading' \in BOOLEAN
  BY <1>1 DEF CloseOwnBug, call, channel, counters, TypeOK
<1>3. /\ h \in Frames /\ r \in Seq(Resting) /\ r \in Seq(FrameTypes) /\ h \in FrameTypes
      /\ stack[t] = <<h>> \o r
  BY <1>1, StackOf
<1>4. h.g \in Gens
  BY <1>1, <1>3 DEF Frames, Streamed
<1>5. f \in Frames /\ rest = <<f>> \o r /\ f.at = "destroy" /\ f.g = Gen(t)
  <2>1. "destroy" \in Labels /\ "destroy" \notin Pausing
    BY DEF Labels, Pausing
  <2>2. f \in Frames /\ rest = <<f>> \o r
    BY <1>1, <1>4, <2>1, GotoIs
  <2>3. QED
    BY <2>2 DEF Frame
<1> HIDE DEF f, r, h
<1>6. f \in Resting
  BY <1>5 DEF Resting
<1>7. rest \in Seq(Resting)
  BY <1>1, <1>3, <1>5, <1>6, NewStacks
<1>8. \A K \in Kinds : "destroy" \in K <=> "close bug" \in K
  BY DEF Kinds, Hold, Tear, Done, Claims, Writes
<1>9. Same(stack[t], rest)
  BY <1>1, <1>3, <1>5, <1>8, Replacing, FramesAre
<1> HIDE DEF rest
<1>10. QED
  BY <1>1, <1>2, <1>4, <1>7, <1>9, QuietClose DEF Way, h

LEMMA FindStep ==
    ASSUME Locks, NEW t \in Threads, Find(t)
    PROVE  Locks' /\ (Proper => Proper')
<1>1. At(t, "find") /\ Still /\ OtherTypes' /\ private \in 0 .. started /\ "find" \notin Way
  BY Unchanged DEF Find, Way
<1>2. CASE Return(t)
  BY <1>1, <1>2, QuietReturn, UnwatchedFind
<1>3. CASE /\ private # None
           /\ Become(t, Frame(IF By(t) = "error" THEN "lock" ELSE "clear", private, By(t)))
  <2>1. private \in Gens
    BY <1>3 DEF Locks, TypeOK
  <2>2. By(t) \in Why
    BY <1>1, StackOf DEF Locks, Frames, At, By
  <2>3. PICK l \in {"lock", "clear"} : Become(t, Frame(l, private, By(t)))
    BY <1>3
  <2>4. l \in Labels /\ l \notin Pausing /\ Unwatched(l)
    BY UnwatchedLabels DEF Labels, Pausing
  <2>5. QED
    BY <1>1, <2>1, <2>2, <2>3, <2>4, UnwatchedFind, QuietBecome
<1>4. QED
  BY <1>2, <1>3 DEF Find

LEMMA HangupStep ==
    ASSUME Locks, Hangup
    PROVE  Locks' /\ (Proper => Proper')
<1>1. /\ Session \in Threads /\ stack[Session] = <<>> /\ hungUp'
      /\ Enter(Session, Frame("hang up", None, "hangup"))
  BY ThreadsAre DEF Hangup, Locks, Shape
<1>2. None \in 0 .. started
  <2>1. started \in Nat
    BY FramesAre DEF Locks
  <2>2. QED
    BY <2>1 DEF None
<1>3. Still /\ OtherTypes'
  BY DEF Hangup, Still, channel, stream, counters, OtherTypes, Locks, TypeOK
<1>4. /\ "hang up" \in Labels /\ "hang up" \notin Streamed /\ "hang up" \notin Pausing
      /\ "hangup" \in Why
  BY DEF Labels, Streamed, Pausing, Why
<1>5. Unwatched("hang up")
  BY UnwatchedLabels
<1>6. QED
  BY <1>1, <1>2, <1>3, <1>4, <1>5, QuietEnter

-----------------------------------------------------------------------------
(* The actions at which a stream changes hands.                            *)

\* Thread t comes to be at a label of K with stream g, or ceases to be.
Gains(t, g, K) ==
    \A u \in Threads, k \in Gens :
        /\ Has(stack'[u], k, K) <=> Has(stack[u], k, K) \/ (u = t /\ k = g)
        /\ Alone(stack'[u], k, K)
             <=> Alone(stack[u], k, K) /\ (u = t /\ k = g => ~Has(stack[u], k, K))

Loses(t, g, K) ==
    \A u \in Threads, k \in Gens :
        /\ Has(stack[u], k, K) <=> Has(stack'[u], k, K) \/ (u = t /\ k = g)
        /\ Alone(stack[u], k, K)
             <=> Alone(stack'[u], k, K) /\ (u = t /\ k = g => ~Has(stack'[u], k, K))

LEMMA GoingOn ==
    ASSUME TypeOK, Shape, NEW t \in Threads, stack[t] # <<>>, NEW f \in Frames,
           f.g = Gen(t), Turn(t, <<f>> \o Tail(stack[t])), NEW K
    PROVE  LET l0 == Head(stack[t]).at IN
           /\ (f.at \in K <=> l0 \in K) => Stays(K)
           /\ f.at \in K /\ l0 \notin K => Gains(t, Gen(t), K)
           /\ f.at \notin K /\ l0 \in K => Loses(t, Gen(t), K)
<1> DEFINE h == Head(stack[t])
           r == Tail(stack[t])
<1>1. /\ h \in FrameTypes /\ r \in Seq(FrameTypes) /\ f \in FrameTypes
      /\ stack[t] = <<h>> \o r /\ h.g = Gen(t)
  BY StackOf, FramesAre DEF Gen
<1>2. \A u \in Threads : stack'[u] = IF u = t THEN <<f>> \o r ELSE stack[u]
  BY DEF Turn, TypeOK
<1> HIDE DEF h, r
<1>3. \A k \in Gens :
          /\ Has(stack[t], k, K) <=> (k = Gen(t) /\ h.at \in K) \/ Has(r, k, K)
          /\ Alone(stack[t], k, K)
               <=> Alone(r, k, K) /\ (k = Gen(t) /\ h.at \in K => ~Has(r, k, K))
  BY <1>1, HasCons, AloneCons
<1>4. \A k \in Gens :
          /\ Has(stack'[t], k, K) <=> (k = Gen(t) /\ f.at \in K) \/ Has(r, k, K)
          /\ Alone(stack'[t], k, K)
               <=> Alone(r, k, K) /\ (k = Gen(t) /\ f.at \in K => ~Has(r, k, K))
  BY <1>1, <1>2, HasCons, AloneCons
<1>5. \A u \in Threads, k \in Gens : u # t =>
          /\ Has(stack'[u], k, K) <=> Has(stack[u], k, K)
          /\ Alone(stack'[u], k, K) <=> Alone(stack[u], k, K)
  BY <1>2
<1>6. (f.at \in K <=> h.at \in K) => Stays(K)
  BY <1>3, <1>4, <1>5 DEF Stays
<1>7. f.at \in K /\ h.at \notin K => Gains(t, Gen(t), K)
  BY <1>3, <1>4, <1>5 DEF Gains
<1>8. f.at \notin K /\ h.at \in K => Loses(t, Gen(t), K)
  BY <1>3, <1>4, <1>5 DEF Loses
<1>9. QED
  BY <1>6, <1>7, <1>8 DEF h

LEMMA Ending ==
    ASSUME TypeOK, Shape, NEW t \in Threads, stack[t] # <<>>, Return(t), NEW K
    PROVE  LET l0 == Head(stack[t]).at IN
           /\ l0 \notin K => Stays(K)
           /\ l0 \in K => Loses(t, Gen(t), K)
<1> DEFINE h == Head(stack[t])
           r == Tail(stack[t])
<1>1. /\ h \in FrameTypes /\ r \in Seq(FrameTypes)
      /\ stack[t] = <<h>> \o r /\ h.g = Gen(t)
  BY StackOf DEF Gen
<1>2. \A u \in Threads : stack'[u] = IF u = t THEN r ELSE stack[u]
  BY DEF Return, TypeOK
<1> HIDE DEF h, r
<1>3. \A k \in Gens :
          /\ Has(stack[t], k, K) <=> (k = Gen(t) /\ h.at \in K) \/ Has(r, k, K)
          /\ Alone(stack[t], k, K)
               <=> Alone(r, k, K) /\ (k = Gen(t) /\ h.at \in K => ~Has(r, k, K))
  BY <1>1, HasCons, AloneCons
<1>4. stack'[t] = r
  BY <1>2
<1>5. \A u \in Threads, k \in Gens : u # t =>
          /\ Has(stack'[u], k, K) <=> Has(stack[u], k, K)
          /\ Alone(stack'[u], k, K) <=> Alone(stack[u], k, K)
  BY <1>2
<1>6. h.at \notin K => Stays(K)
  BY <1>3, <1>4, <1>5 DEF Stays
<1>7. h.at \in K => Loses(t, Gen(t), K)
  BY <1>3, <1>4, <1>5 DEF Loses
<1>8. QED
  BY <1>6, <1>7 DEF h

\* A call of stream g goes on at another label, or ends; nothing is started.
LEMMA Next1 ==
    ASSUME Locks, NEW t \in Threads, NEW l0, At(t, l0), l0 \in Streamed,
           NEW l \in Labels, l \in Pausing => "pause" \in Commands,
           Goto(t, l) \/ Return(t),
           started' = started, private' \in 0 .. started, hungUp' = hungUp,
           \A g \in Gens : bug'[g] = "attached" => g <= started
    PROVE  /\ TypeOK /\ Shape /\ stack[t] # <<>> /\ Head(stack[t]).at = l0 /\ Gen(t) \in Gens
           /\ Gen(t) <= started /\ By(t) \in Why
           /\ Shape' /\ stack' \in [Threads -> Seq(FrameTypes)]
<1> DEFINE h == Head(stack[t])
           r == Tail(stack[t])
<1>1. TypeOK /\ Shape /\ stack[t] # <<>> /\ h.at = l0
  BY DEF Locks, At
<1>2. h \in Frames /\ r \in Seq(Resting) /\ (t = Session => hungUp)
  BY <1>1, StackOf
<1>3. Gen(t) \in Gens /\ Gen(t) \in 0 .. started /\ By(t) \in Why
  BY <1>1, <1>2 DEF Gen, By, Frames
<1>4. started \in Nat /\ hungUp \in BOOLEAN
  BY <1>1, FramesAre DEF TypeOK
<1>5. PICK new \in Seq(FrameTypes) : IsStack(new) /\ Turn(t, new)
  <2>1. CASE Goto(t, l)
    <3> DEFINE f == Frame(l, Gen(t), By(t))
    <3>1. f \in Frames /\ Turn(t, <<f>> \o r)
      BY <1>1, <1>3, <2>1, GotoIs
    <3> HIDE DEF f, r
    <3>2. IsStack(<<f>> \o r) /\ <<f>> \o r \in Seq(FrameTypes)
      BY <1>1, <1>2, <3>1, NewStacks
    <3>3. QED
      BY <3>1, <3>2
  <2>2. CASE Return(t)
    <3>1. Turn(t, r)
      BY <1>1, <2>2 DEF Return, Turn, TypeOK
    <3> HIDE DEF r
    <3>2. QED
      BY <1>1, <1>2, <3>1, NewStacks
  <2>3. QED
    BY <2>1, <2>2
<1>6. hungUp' \in {hungUp, TRUE} /\ (t = Session => hungUp')
  BY <1>2, <1>4
<1>7. Shape' /\ stack' \in [Threads -> Seq(FrameTypes)]
  BY <1>1, <1>5, <1>6, ShapeKept
<1>8. QED
  BY <1>1, <1>3, <1>4, <1>7

LEMMA GotoMoves ==
    ASSUME Locks, NEW t \in Threads, NEW l0, At(t, l0), l0 \in Streamed,
           NEW l \in Labels, l \in Pausing => "pause" \in Commands, Goto(t, l), NEW K
    PROVE  /\ (l \in K <=> l0 \in K) => Stays(K)
           /\ l \in K /\ l0 \notin K => Gains(t, Gen(t), K)
           /\ l \notin K /\ l0 \in K => Loses(t, Gen(t), K)
<1> DEFINE f == Frame(l, Gen(t), By(t))
<1>1. TypeOK /\ Shape /\ stack[t] # <<>> /\ Head(stack[t]).at = l0
  BY DEF Locks, At
<1>2. Gen(t) \in Gens
  BY <1>1, StackOf DEF Gen, Frames
<1>3. f \in Frames /\ Turn(t, <<f>> \o Tail(stack[t]))
  BY <1>1, <1>2, GotoIs
<1>4. f.at = l /\ f.g = Gen(t)
  BY DEF Frame
<1> HIDE DEF f
<1>5. QED
  BY <1>1, <1>3, <1>4, GoingOn

LEMMA ReturnMoves ==
    ASSUME Locks, NEW t \in Threads, NEW l0, At(t, l0), Return(t), NEW K
    PROVE  /\ l0 \notin K => Stays(K)
           /\ l0 \in K => Loses(t, Gen(t), K)
<1>1. TypeOK /\ Shape /\ stack[t] # <<>> /\ Head(stack[t]).at = l0
  BY DEF Locks, At
<1>2. QED
  BY <1>1, Ending

LEMMA HeldGained ==
    ASSUME TypeOK, Held, NEW t \in Threads, NEW g \in Gens, Gains(t, g, Hold),
           mutex[g] \in {Free, Dead},
           mutex' = [mutex EXCEPT ![g] = IF @ = Free THEN t ELSE @]
    PROVE  Held'
<1>1. SUFFICES ASSUME NEW u \in Threads, NEW k \in Gens
               PROVE  /\ Has(stack'[u], k, Hold) => mutex'[k] \in {u, Dead}
                      /\ mutex'[k] # Dead => Alone(stack'[u], k, Hold)
  BY DEF Held
<1>2. /\ Has(stack[u], k, Hold) => mutex[k] \in {u, Dead}
      /\ mutex[k] # Dead => Alone(stack[u], k, Hold)
  BY DEF Held
<1>3. /\ Has(stack'[u], k, Hold) <=> Has(stack[u], k, Hold) \/ (u = t /\ k = g)
      /\ Alone(stack'[u], k, Hold)
           <=> Alone(stack[u], k, Hold) /\ (u = t /\ k = g => ~Has(stack[u], k, Hold))
  BY DEF Gains
<1>4. mutex'[k] = IF k = g /\ mutex[g] = Free THEN t ELSE mutex[k]
  BY DEF TypeOK
<1>5. QED
  BY <1>2, <1>3, <1>4, ThreadsAre

LEMMA HeldLost ==
    ASSUME TypeOK, Held, NEW t \in Threads, NEW g \in Gens, Loses(t, g, Hold),
           mutex' = Unlocked(t, g)
    PROVE  Held'
<1>1. SUFFICES ASSUME NEW u \in Threads, NEW k \in Gens
               PROVE  /\ Has(stack'[u], k, Hold) => mutex'[k] \in {u, Dead}
                      /\ mutex'[k] # Dead => Alone(stack'[u], k, Hold)
  BY DEF Held
<1>2. /\ Has(stack[u], k, Hold) => mutex[k] \in {u, Dead}
      /\ mutex[k] # Dead => Alone(stack[u], k, Hold)
  BY DEF Held
<1>3. /\ Has(stack[u], k, Hold) <=> Has(stack'[u], k, Hold) \/ (u = t /\ k = g)
      /\ Alone(stack[u], k, Hold)
           <=> Alone(stack'[u], k, Hold) /\ (u = t /\ k = g => ~Has(stack'[u], k, Hold))
  BY DEF Loses
<1>4. mutex'[k] = IF k = g /\ mutex[g] = t THEN Free ELSE mutex[k]
  BY DEF TypeOK, Unlocked
<1>5. QED
  BY <1>2, <1>3, <1>4, ThreadsAre

\* Whoever unlocks the mutex of a stream it holds, does not write to that stream.
LEMMA LiveUnlocked ==
    ASSUME TypeOK, Held, NEW t \in Threads, NEW g \in Gens, Loses(t, g, Hold),
           Stays(Writes), mutex' = Unlocked(t, g)
    PROVE  \A k \in Gens : Has(stack[Media], k, Writes) => mutex'[k] = mutex[k]
<1>1. SUFFICES ASSUME NEW k \in Gens, Has(stack[Media], k, Writes), mutex'[k] # mutex[k]
               PROVE  FALSE
  OBVIOUS
<1>2. k = g /\ mutex[g] = t
  BY <1>1 DEF Unlocked, TypeOK
<1>3. Has(stack'[Media], g, Hold) /\ Has(stack[Media], g, Hold)
  <2>1. Has(stack'[Media], g, Writes)
    BY <1>1, <1>2, ThreadsAre DEF Stays
  <2>2. QED
    BY <1>1, <1>2, <2>1 DEF Has, Hold, Writes
<1>4. t = Media /\ mutex[g] # Dead
  BY <1>2, <1>3, ThreadsAre DEF Held
<1>5. Alone(stack[t], g, Hold)
  BY <1>4 DEF Held
<1>6. QED
  BY <1>3, <1>4, <1>5 DEF Loses

-----------------------------------------------------------------------------

LEMMA WayIs ==
    ASSUME NEW g \in Gens
    PROVE  /\ OnItsWay(g) <=> \E t \in Threads : Has(stack[t], g, Way)
           /\ OnItsWay(g)' <=> \E t \in Threads : Has(stack'[t], g, Way)
BY DEF OnItsWay, Has, Way

LEMMA HasTop ==
    ASSUME Locks, NEW t \in Threads, NEW l, At(t, l), NEW K
    PROVE  l \in K => Has(stack[t], Gen(t), K)
<1> DEFINE h == Head(stack[t])
           r == Tail(stack[t])
<1>1. /\ h \in FrameTypes /\ r \in Seq(FrameTypes) /\ stack[t] = <<h>> \o r
      /\ h.at = l /\ h.g = Gen(t)
  BY StackOf DEF Locks, At, Gen
<1> HIDE DEF h, r
<1>2. QED
  BY <1>1, HasCons

LEMMA PublishStep ==
    ASSUME Locks, NEW t \in Api, Publish(t)
    PROVE  Locks' /\ (Proper => Proper')
<1>1. /\ t \in Threads /\ At(t, "publish") /\ Goto(t, "read pointer")
      /\ private' = Gen(t) /\ strayed' = (strayed \/ private \notin {None, Gen(t)})
      /\ UNCHANGED <<bug, closing, pointer, mutex, streamer>>
      /\ UNCHANGED <<reading, hungUp, slot, started, commands, errors>>
  BY ThreadsAre DEF Publish, SetPrivate, stream, counters
<1>2. /\ "read pointer" \in Labels /\ "publish" \in Streamed /\ "read pointer" \notin Pausing
      /\ "publish" \notin Hold /\ "read pointer" \notin Hold
      /\ "publish" \notin Tear /\ "read pointer" \notin Tear
      /\ "publish" \notin Done /\ "read pointer" \notin Done
      /\ "publish" \notin Claims /\ "read pointer" \notin Claims
      /\ "publish" \notin Writes /\ "read pointer" \notin Writes
      /\ "publish" \in Way /\ "read pointer" \notin Way
  BY DEF Labels, Streamed, Pausing, Hold, Tear, Done, Claims, Writes, Way
<1>3. /\ Stays(Hold) /\ Stays(Tear) /\ Stays(Done)
      /\ Stays(Claims) /\ Stays(Writes) /\ Loses(t, Gen(t), Way)
  BY <1>1, <1>2, GotoMoves
<1>4. /\ TypeOK /\ Shape /\ Gen(t) \in Gens
      /\ Shape' /\ stack' \in [Threads -> Seq(FrameTypes)]
  <2>1. private' \in 0 .. started
    <3>1. Gen(t) \in 0 .. started
      BY <1>1, StackOf DEF Locks, Gen, Frames, At
    <3>2. QED
      BY <1>1, <3>1
  <2>2. \A g \in Gens : bug'[g] = "attached" => g <= started
    BY <1>1 DEF Locks, Shape
  <2>3. QED
    BY <1>1, <1>2, <2>1, <2>2, Next1
<1>5. TypeOK'
  <2>1. OtherTypes'
    BY <1>1, <1>4 DEF TypeOK, OtherTypes
  <2>2. QED
    BY <1>4, <2>1, TypesAre
<1>6. Held' /\ Live'
  BY <1>1, <1>3, HeldKept, LiveKept DEF Locks
<1>7. ASSUME Proper PROVE Once'
  BY <1>1, <1>3, <1>7, OnceKept DEF Proper
<1>8. ASSUME Proper PROVE CanBeStopped'
  <2>1. SUFFICES ASSUME ~strayed', NEW g \in Gens, bug'[g] = "attached", ~closing'[g]
                 PROVE  private' = g \/ OnItsWay(g)'
    BY DEF CanBeStopped
  <2>2. ~strayed /\ private \in {None, Gen(t)} /\ (private = g \/ OnItsWay(g))
    BY <1>1, <1>8, <2>1 DEF Proper, CanBeStopped
  <2>3. g # None
    BY ThreadsAre DEF Gens, None
  <2>4. g # Gen(t) /\ OnItsWay(g) => OnItsWay(g)'
    BY <1>3, WayIs DEF Loses
  <2>5. QED
    BY <1>1, <2>2, <2>3, <2>4
<1>9. QED
  BY <1>4, <1>5, <1>6, <1>7, <1>8 DEF Locks, Proper

LEMMA ClearStep ==
    ASSUME Locks, NEW t \in Threads, Clear(t)
    PROVE  Locks' /\ (Proper => Proper')
<1>1. /\ At(t, "clear") /\ Goto(t, "lock")
      /\ private' = None /\ strayed' = (strayed \/ private \notin {None, Gen(t)})
      /\ UNCHANGED <<bug, closing, pointer, mutex, streamer>>
      /\ UNCHANGED <<reading, hungUp, slot, started, commands, errors>>
  BY DEF Clear, SetPrivate, stream, counters
<1>2. /\ "lock" \in Labels /\ "clear" \in Streamed /\ "lock" \notin Pausing
      /\ "clear" \notin Hold /\ "lock" \notin Hold
      /\ "clear" \notin Tear /\ "lock" \notin Tear
      /\ "clear" \notin Done /\ "lock" \notin Done
      /\ "clear" \notin Claims /\ "lock" \notin Claims
      /\ "clear" \notin Writes /\ "lock" \notin Writes
      /\ "clear" \notin Way /\ "lock" \in Way
  BY DEF Labels, Streamed, Pausing, Hold, Tear, Done, Claims, Writes, Way
<1>3. /\ Stays(Hold) /\ Stays(Tear) /\ Stays(Done)
      /\ Stays(Claims) /\ Stays(Writes) /\ Gains(t, Gen(t), Way)
  BY <1>1, <1>2, GotoMoves
<1>4. /\ TypeOK /\ Shape /\ Gen(t) \in Gens
      /\ Shape' /\ stack' \in [Threads -> Seq(FrameTypes)]
  <2>1. private' \in 0 .. started
    BY <1>1, FramesAre DEF Locks, None
  <2>2. \A g \in Gens : bug'[g] = "attached" => g <= started
    BY <1>1 DEF Locks, Shape
  <2>3. QED
    BY <1>1, <1>2, <2>1, <2>2, Next1
<1>5. TypeOK'
  <2>1. OtherTypes'
    BY <1>1, <1>4 DEF TypeOK, OtherTypes
  <2>2. QED
    BY <1>4, <2>1, TypesAre
<1>6. Held' /\ Live'
  BY <1>1, <1>3, HeldKept, LiveKept DEF Locks
<1>7. ASSUME Proper PROVE Once'
  BY <1>1, <1>3, <1>7, OnceKept DEF Proper
<1>8. ASSUME Proper PROVE CanBeStopped'
  <2>1. SUFFICES ASSUME ~strayed', NEW g \in Gens, bug'[g] = "attached", ~closing'[g]
                 PROVE  OnItsWay(g)'
    BY DEF CanBeStopped
  <2>2. ~strayed /\ private \in {None, Gen(t)} /\ (private = g \/ OnItsWay(g))
    BY <1>1, <1>8, <2>1 DEF Proper, CanBeStopped
  <2>3. g # None
    BY ThreadsAre DEF Gens, None
  <2>4. OnItsWay(g) \/ g = Gen(t) => OnItsWay(g)'
    BY <1>3, WayIs DEF Gains
  <2>5. QED
    BY <2>2, <2>3, <2>4
<1>9. QED
  BY <1>4, <1>5, <1>6, <1>7, <1>8 DEF Locks, Proper

LEMMA LockStep ==
    ASSUME Locks, NEW t \in Threads, Lock(t)
    PROVE  Locks' /\ (Proper => Proper')
<1>1. /\ At(t, "lock") /\ Goto(t, "decide") /\ mutex[Gen(t)] \in {Free, Dead}
      /\ mutex' = [mutex EXCEPT ![Gen(t)] = IF @ = Free THEN t ELSE @]
      /\ UNCHANGED <<private, strayed, reading, hungUp, bug, closing, pointer, streamer>>
      /\ UNCHANGED <<slot, started, commands, errors>>
  BY DEF Lock, call, channel, counters
<1>2. /\ "decide" \in Labels /\ "lock" \in Streamed /\ "decide" \notin Pausing
      /\ "lock" \notin Hold /\ "decide" \in Hold
      /\ "lock" \notin Tear /\ "decide" \notin Tear
      /\ "lock" \notin Done /\ "decide" \notin Done
      /\ "lock" \notin Claims /\ "decide" \notin Claims
      /\ "lock" \notin Writes /\ "decide" \notin Writes
      /\ "lock" \in Way /\ "decide" \in Way
  BY DEF Labels, Streamed, Pausing, Hold, Tear, Done, Claims, Writes, Way
<1>3. /\ Gains(t, Gen(t), Hold) /\ Stays(Tear) /\ Stays(Done)
      /\ Stays(Claims) /\ Stays(Writes) /\ Stays(Way)
  BY <1>1, <1>2, GotoMoves
<1>4. /\ TypeOK /\ Shape /\ Gen(t) \in Gens
      /\ Shape' /\ stack' \in [Threads -> Seq(FrameTypes)]
  <2>1. private' \in 0 .. started /\ \A g \in Gens : bug'[g] = "attached" => g <= started
    BY <1>1 DEF Locks, Shape
  <2>2. QED
    BY <1>1, <1>2, <2>1, Next1
<1>5. TypeOK'
  <2>1. OtherTypes'
    BY <1>1, <1>4 DEF TypeOK, OtherTypes
  <2>2. QED
    BY <1>4, <2>1, TypesAre
<1>6. Held'
  BY <1>1, <1>3, <1>4, HeldGained DEF Locks
<1>7. Live'
  <2>1. ASSUME NEW g \in Gens, Has(stack[Media], g, Writes) PROVE mutex'[g] = mutex[g]
    <3>1. mutex[g] = Media
      BY <2>1 DEF Locks, Live
    <3>2. g # Gen(t)
      BY <1>1, <3>1, ThreadsAre
    <3>3. QED
      BY <1>1, <1>4, <3>2 DEF TypeOK
  <2>2. QED
    BY <1>1, <1>3, <2>1, LiveKept DEF Locks
<1>8. \A g \in Gens : mutex'[g] = Dead <=> mutex[g] = Dead
  BY <1>1, <1>4, ThreadsAre DEF TypeOK
<1>9. ASSUME Proper PROVE Once'
  BY <1>1, <1>3, <1>8, <1>9, OnceKept DEF Proper
<1>10. ASSUME Proper PROVE CanBeStopped'
  <2>1. \A g \in Gens : OnItsWay(g) <=> OnItsWay(g)'
    BY <1>3, WayIs DEF Stays
  <2>2. QED
    BY <1>1, <1>10, <2>1 DEF Proper, CanBeStopped
<1>11. QED
  BY <1>4, <1>5, <1>6, <1>7, <1>9, <1>10 DEF Locks, Proper

\* The mutex is given up, or not, by a call that has found close_requested set.
LEMMA YieldStep ==
    ASSUME Locks, NEW t \in Threads, At(t, "decide"), closing[Gen(t)],
           mutex' = Unlocked(t, Gen(t)), Goto(t, "remove only") \/ Return(t),
           UNCHANGED <<private, strayed, reading, hungUp, bug, closing, pointer, streamer>>,
           UNCHANGED <<slot, started, commands, errors>>
    PROVE  Locks' /\ (Proper => Proper')
<1>1. /\ Loses(t, Gen(t), Hold) /\ Stays(Tear) /\ Stays(Done) /\ Stays(Claims) /\ Stays(Writes)
      /\ Loses(t, Gen(t), Way)
  <2>1. CASE Goto(t, "remove only")
    <3>1. /\ "remove only" \in Labels /\ "decide" \in Streamed /\ "remove only" \notin Pausing
          /\ "decide" \in Hold /\ "remove only" \notin Hold
          /\ "decide" \notin Tear /\ "remove only" \notin Tear
          /\ "decide" \notin Done /\ "remove only" \notin Done
          /\ "decide" \notin Claims /\ "remove only" \notin Claims
          /\ "decide" \notin Writes /\ "remove only" \notin Writes
          /\ "decide" \in Way /\ "remove only" \notin Way
      BY DEF Labels, Streamed, Pausing, Hold, Tear, Done, Claims, Writes, Way
    <3>2. /\ Loses(t, Gen(t), Hold) /\ Stays(Tear) /\ Stays(Done)
          /\ Stays(Claims) /\ Stays(Writes) /\ Loses(t, Gen(t), Way)
      BY <2>1, <3>1, GotoMoves
    <3>3. QED
      BY <3>2
  <2>2. CASE Return(t)
    <3>1. /\ "decide" \in Streamed
          /\ "decide" \in Hold
          /\ "decide" \notin Tear
          /\ "decide" \notin Done
          /\ "decide" \notin Claims
          /\ "decide" \notin Writes
          /\ "decide" \in Way
      BY DEF Streamed, Hold, Tear, Done, Claims, Writes, Way
    <3>2. /\ Loses(t, Gen(t), Hold) /\ Stays(Tear) /\ Stays(Done)
          /\ Stays(Claims) /\ Stays(Writes) /\ Loses(t, Gen(t), Way)
      BY <2>2, <3>1, ReturnMoves
    <3>3. QED
      BY <3>2
  <2>3. QED
    BY <2>1, <2>2
<1>2. /\ TypeOK /\ Shape /\ Gen(t) \in Gens
      /\ Shape' /\ stack' \in [Threads -> Seq(FrameTypes)]
  <2>1. private' \in 0 .. started /\ \A g \in Gens : bug'[g] = "attached" => g <= started
    BY DEF Locks, Shape
  <2>2. "remove only" \in Labels /\ "decide" \in Streamed /\ "remove only" \notin Pausing
    BY DEF Labels, Streamed, Pausing
  <2>3. QED
    BY <2>1, <2>2, Next1
<1>3. TypeOK' /\ \A g \in Gens : mutex'[g] = Dead <=> mutex[g] = Dead
  <2>1. mutex' \in [Gens -> {Free, Dead} \cup Threads]
    BY <1>2 DEF TypeOK, Unlocked
  <2>2. OtherTypes'
    BY <1>2, <2>1 DEF TypeOK, OtherTypes
  <2>3. \A g \in Gens : mutex'[g] = Dead <=> mutex[g] = Dead
    BY <1>2, ThreadsAre DEF TypeOK, Unlocked
  <2>4. QED
    BY <1>2, <2>2, <2>3, TypesAre
<1>4. Held'
  BY <1>1, <1>2, HeldLost DEF Locks
<1>5. Live'
  <2>1. \A k \in Gens : Has(stack[Media], k, Writes) => mutex'[k] = mutex[k]
    BY <1>1, <1>2, LiveUnlocked DEF Locks
  <2>2. QED
    BY <1>1, <2>1, LiveKept DEF Locks
<1>6. ASSUME Proper PROVE Once'
  BY <1>1, <1>3, <1>6, OnceKept DEF Proper
<1>7. ASSUME Proper PROVE CanBeStopped'
  <2>1. \A g \in Gens : g # Gen(t) /\ OnItsWay(g) => OnItsWay(g)'
    BY <1>1, WayIs DEF Loses
  <2>2. QED
    BY <1>7, <2>1 DEF Proper, CanBeStopped
<1>8. QED
  BY <1>2, <1>3, <1>4, <1>5, <1>6, <1>7 DEF Locks, Proper

LEMMA DecideStep ==
    ASSUME Locks, NEW t \in Threads, Decide(t)
    PROVE  Locks' /\ (Proper => Proper')
<1>1. /\ At(t, "decide")
      /\ UNCHANGED <<private, strayed, reading, hungUp, bug, closing, pointer, streamer>>
      /\ UNCHANGED <<slot, started, commands, errors>>
  BY DEF Decide, call, channel, counters
<1>2. CASE closing[Gen(t)]
  <2>1. mutex' = Unlocked(t, Gen(t)) /\ (Goto(t, "remove only") \/ Return(t))
    BY <1>2 DEF Decide
  <2>2. QED
    BY <1>1, <1>2, <2>1, YieldStep
<1>3. CASE ~closing[Gen(t)]
  <2>1. Goto(t, "claim") /\ mutex' = mutex
    BY <1>3 DEF Decide
  <2>2. /\ "claim" \in Labels /\ "decide" \in Streamed /\ "claim" \notin Pausing
        /\ "decide" \in Hold /\ "claim" \in Hold
        /\ "decide" \notin Tear /\ "claim" \notin Tear
        /\ "decide" \notin Done /\ "claim" \notin Done
        /\ "decide" \notin Claims /\ "claim" \in Claims
        /\ "decide" \notin Writes /\ "claim" \notin Writes
        /\ "decide" \in Way /\ "claim" \in Way
    BY DEF Labels, Streamed, Pausing, Hold, Tear, Done, Claims, Writes, Way
  <2>3. /\ Stays(Hold) /\ Stays(Tear) /\ Stays(Done)
        /\ Gains(t, Gen(t), Claims) /\ Stays(Writes) /\ Stays(Way)
    BY <1>1, <2>1, <2>2, GotoMoves
  <2>4. /\ TypeOK /\ Shape /\ Gen(t) \in Gens
        /\ Shape' /\ stack' \in [Threads -> Seq(FrameTypes)]
    <3>1. private' \in 0 .. started /\ \A g \in Gens : bug'[g] = "attached" => g <= started
      BY <1>1 DEF Locks, Shape
    <3>2. QED
      BY <1>1, <2>1, <2>2, <3>1, Next1
  <2>5. TypeOK'
    <3>1. OtherTypes'
      BY <1>1, <2>1, <2>4 DEF TypeOK, OtherTypes
    <3>2. QED
      BY <2>4, <3>1, TypesAre
  <2>6. Held' /\ Live'
    BY <1>1, <2>1, <2>3, HeldKept, LiveKept DEF Locks
  <2>7. ASSUME Proper PROVE Once'
    <3>1. SUFFICES ASSUME NEW g \in Gens PROVE OnceOf(g)'
      BY DEF Once
    <3>2. OnceOf(g)
      BY <2>7 DEF Proper, Once
    <3>3. \A u \in Threads : Has(stack'[u], g, Claims) => ~closing'[g]
      BY <1>1, <1>3, <2>3, <3>2 DEF Gains, OnceOf
    <3>4. QED
      BY <1>1, <2>1, <2>3, <3>2, <3>3 DEF OnceOf, Stays
  <2>8. ASSUME Proper PROVE CanBeStopped'
    <3>1. \A g \in Gens : OnItsWay(g) <=> OnItsWay(g)'
      BY <2>3, WayIs DEF Stays
    <3>2. QED
      BY <1>1, <2>8, <3>1 DEF Proper, CanBeStopped
  <2>9. QED
    BY <2>4, <2>5, <2>6, <2>7, <2>8 DEF Locks, Proper
<1>4. QED
  BY <1>2, <1>3

LEMMA ClaimStep ==
    ASSUME Locks, NEW t \in Threads, Claim(t)
    PROVE  Locks' /\ (Proper => Proper')
<1> DEFINE g == Gen(t)
<1>1. /\ At(t, "claim") /\ (Goto(t, "remove") \/ Goto(t, "finish"))
      /\ closing' = [closing EXCEPT ![g] = TRUE]
      /\ UNCHANGED <<private, strayed, reading, hungUp, bug, pointer, mutex, streamer>>
      /\ UNCHANGED <<slot, started, commands, errors>>
  BY DEF Claim, call, channel, counters
<1>2. /\ "remove" \in Labels /\ "finish" \in Labels /\ "claim" \in Streamed
      /\ "remove" \notin Pausing /\ "finish" \notin Pausing
  BY DEF Labels, Streamed, Pausing
<1>3. /\ Stays(Hold) /\ Gains(t, g, Tear) /\ Stays(Done) /\ Loses(t, g, Claims)
      /\ Stays(Writes) /\ Loses(t, g, Way)
  <2>1. CASE Goto(t, "remove")
    <3>1. /\ "remove" \in Labels /\ "claim" \in Streamed /\ "remove" \notin Pausing
          /\ "claim" \in Hold /\ "remove" \in Hold
          /\ "claim" \notin Tear /\ "remove" \in Tear
          /\ "claim" \notin Done /\ "remove" \notin Done
          /\ "claim" \in Claims /\ "remove" \notin Claims
          /\ "claim" \notin Writes /\ "remove" \notin Writes
          /\ "claim" \in Way /\ "remove" \notin Way
      BY DEF Labels, Streamed, Pausing, Hold, Tear, Done, Claims, Writes, Way
    <3>2. /\ Stays(Hold) /\ Gains(t, Gen(t), Tear) /\ Stays(Done)
          /\ Loses(t, Gen(t), Claims) /\ Stays(Writes) /\ Loses(t, Gen(t), Way)
      BY <1>1, <2>1, <3>1, GotoMoves
    <3>3. QED
      BY <3>2
  <2>2. CASE Goto(t, "finish")
    <3>1. /\ "finish" \in Labels /\ "claim" \in Streamed /\ "finish" \notin Pausing
          /\ "claim" \in Hold /\ "finish" \in Hold
          /\ "claim" \notin Tear /\ "finish" \in Tear
          /\ "claim" \notin Done /\ "finish" \notin Done
          /\ "claim" \in Claims /\ "finish" \notin Claims
          /\ "claim" \notin Writes /\ "finish" \notin Writes
          /\ "claim" \in Way /\ "finish" \notin Way
      BY DEF Labels, Streamed, Pausing, Hold, Tear, Done, Claims, Writes, Way
    <3>2. /\ Stays(Hold) /\ Gains(t, Gen(t), Tear) /\ Stays(Done)
          /\ Loses(t, Gen(t), Claims) /\ Stays(Writes) /\ Loses(t, Gen(t), Way)
      BY <1>1, <2>2, <3>1, GotoMoves
    <3>3. QED
      BY <3>2
  <2>3. QED
    BY <1>1, <2>1, <2>2
<1>4. /\ TypeOK /\ Shape /\ g \in Gens
      /\ Shape' /\ stack' \in [Threads -> Seq(FrameTypes)]
  <2>1. private' \in 0 .. started /\ \A k \in Gens : bug'[k] = "attached" => k <= started
    BY <1>1 DEF Locks, Shape
  <2>2. QED
    BY <1>1, <1>2, <2>1, Next1
<1> HIDE DEF g
<1>5. TypeOK'
  <2>1. OtherTypes'
    BY <1>1, <1>4 DEF TypeOK, OtherTypes
  <2>2. QED
    BY <1>4, <2>1, TypesAre
<1>6. Held' /\ Live'
  BY <1>1, <1>3, HeldKept, LiveKept DEF Locks
<1>7. closing'[g] /\ \A k \in Gens : k # g => closing'[k] = closing[k]
  BY <1>1, <1>4 DEF TypeOK
<1>8. ASSUME Proper PROVE Once'
  <2>1. SUFFICES ASSUME NEW k \in Gens PROVE OnceOf(k)'
    BY DEF Once
  <2>2. OnceOf(k)
    BY <1>8 DEF Proper, Once
  <2>3. CASE k # g
    <3>1. \A u \in Threads :
              /\ Has(stack'[u], k, Tear) <=> Has(stack[u], k, Tear)
              /\ Alone(stack'[u], k, Tear) <=> Alone(stack[u], k, Tear)
              /\ Has(stack'[u], k, Claims) <=> Has(stack[u], k, Claims)
      BY <1>3, <2>3 DEF Gains, Loses
    <3>2. QED
      BY <1>1, <1>7, <2>2, <2>3, <3>1 DEF OnceOf
  <2>4. CASE k = g
    <3>1. Has(stack[t], g, Claims) /\ Has(stack[t], g, Hold)
      <4>1. Has(stack[t], g, Claims)
        BY <1>3, <1>4 DEF Loses
      <4>2. QED
        BY <4>1 DEF Has, Claims, Hold
    <3>2. ~closing[g] /\ mutex[g] # Dead
      BY <2>2, <2>4, <3>1 DEF OnceOf
    <3>3. \A u \in Threads : ~Has(stack[u], g, Tear)
      BY <2>2, <2>4, <3>2 DEF OnceOf
    <3>4. \A u \in Threads : Has(stack'[u], g, Tear) <=> u = t
      BY <1>3, <1>4, <3>3 DEF Gains
    <3>5. \A u \in Threads : Alone(stack'[u], g, Tear)
      BY <1>3, <1>4, <2>2, <2>4, <3>3 DEF Gains, OnceOf
    <3>6. \A u \in Threads : ~Has(stack'[u], g, Claims)
      <4>1. SUFFICES ASSUME NEW u \in Threads, Has(stack'[u], g, Claims) PROVE FALSE
        OBVIOUS
      <4>2. Has(stack[u], g, Hold)
        <5>1. Has(stack[u], g, Claims)
          BY <1>3, <1>4, <4>1 DEF Loses
        <5>2. QED
          BY <5>1 DEF Has, Claims, Hold
      <4>3. mutex[g] \in {u, Dead} /\ mutex[g] \in {t, Dead}
        BY <1>4, <3>1, <4>2 DEF Locks, Held
      <4>4. u = t
        BY <3>2, <4>3
      <4>5. Alone(stack[t], g, Hold)
        BY <1>4, <3>2 DEF Locks, Held
      <4>6. Alone(stack[t], g, Claims)
        BY <4>5 DEF Alone, Claims, Hold
      <4>7. QED
        BY <1>3, <1>4, <4>1, <4>4, <4>6 DEF Loses
    <3>7. QED
      BY <1>1, <1>7, <2>4, <3>2, <3>4, <3>5, <3>6 DEF OnceOf
  <2>5. QED
    BY <2>3, <2>4
<1>9. ASSUME Proper PROVE CanBeStopped'
  <2>1. \A k \in Gens : k # g /\ OnItsWay(k) => OnItsWay(k)'
    BY <1>3, WayIs DEF Loses
  <2>2. QED
    BY <1>1, <1>7, <1>9, <2>1 DEF Proper, CanBeStopped
<1>10. QED
  BY <1>4, <1>5, <1>6, <1>8, <1>9 DEF Locks, Proper

LEMMA FinishStep ==
    ASSUME Locks, NEW t \in Threads, Finish(t)
    PROVE  Locks' /\ (Proper => Proper')
<1> DEFINE g == Gen(t)
<1>1. /\ At(t, "finish") /\ (Goto(t, "close bug") \/ Goto(t, "destroy"))
      /\ mutex' = Unlocked(t, g)
      /\ UNCHANGED <<reading, hungUp, bug, closing, slot, started, commands, errors>>
  BY DEF Finish, bounds
<1>2. \/ private' = None /\ strayed' = (strayed \/ private \notin {None, g})
      \/ UNCHANGED <<private, strayed>>
  BY DEF Finish, SetPrivate, channel
<1>3. IF pointer[g]
      THEN /\ pointer' = [pointer EXCEPT ![g] = FALSE]
           /\ streamer' = [streamer EXCEPT ![g] = "finishing"]
      ELSE UNCHANGED <<pointer, streamer>>
  BY DEF Finish
<1>4. /\ "close bug" \in Labels /\ "destroy" \in Labels /\ "finish" \in Streamed
      /\ "close bug" \notin Pausing /\ "destroy" \notin Pausing
  BY DEF Labels, Streamed, Pausing
<1>5. /\ Loses(t, g, Hold) /\ Stays(Tear) /\ Gains(t, g, Done) /\ Stays(Claims)
      /\ Stays(Writes) /\ Stays(Way)
  <2>1. CASE Goto(t, "close bug")
    <3>1. /\ "close bug" \in Labels /\ "finish" \in Streamed /\ "close bug" \notin Pausing
          /\ "finish" \in Hold /\ "close bug" \notin Hold
          /\ "finish" \in Tear /\ "close bug" \in Tear
          /\ "finish" \notin Done /\ "close bug" \in Done
          /\ "finish" \notin Claims /\ "close bug" \notin Claims
          /\ "finish" \notin Writes /\ "close bug" \notin Writes
          /\ "finish" \notin Way /\ "close bug" \notin Way
      BY DEF Labels, Streamed, Pausing, Hold, Tear, Done, Claims, Writes, Way
    <3>2. /\ Loses(t, Gen(t), Hold) /\ Stays(Tear) /\ Gains(t, Gen(t), Done)
          /\ Stays(Claims) /\ Stays(Writes) /\ Stays(Way)
      BY <1>1, <2>1, <3>1, GotoMoves
    <3>3. QED
      BY <3>2
  <2>2. CASE Goto(t, "destroy")
    <3>1. /\ "destroy" \in Labels /\ "finish" \in Streamed /\ "destroy" \notin Pausing
          /\ "finish" \in Hold /\ "destroy" \notin Hold
          /\ "finish" \in Tear /\ "destroy" \in Tear
          /\ "finish" \notin Done /\ "destroy" \in Done
          /\ "finish" \notin Claims /\ "destroy" \notin Claims
          /\ "finish" \notin Writes /\ "destroy" \notin Writes
          /\ "finish" \notin Way /\ "destroy" \notin Way
      BY DEF Labels, Streamed, Pausing, Hold, Tear, Done, Claims, Writes, Way
    <3>2. /\ Loses(t, Gen(t), Hold) /\ Stays(Tear) /\ Gains(t, Gen(t), Done)
          /\ Stays(Claims) /\ Stays(Writes) /\ Stays(Way)
      BY <1>1, <2>2, <3>1, GotoMoves
    <3>3. QED
      BY <3>2
  <2>3. QED
    BY <1>1, <2>1, <2>2
<1>6. private' \in 0 .. started
  <2>1. started \in Nat /\ private \in 0 .. started
    BY FramesAre DEF Locks, Shape
  <2>2. QED
    BY <1>2, <2>1 DEF None
<1>7. /\ TypeOK /\ Shape /\ g \in Gens
      /\ Shape' /\ stack' \in [Threads -> Seq(FrameTypes)]
  <2>1. \A k \in Gens : bug'[k] = "attached" => k <= started
    BY <1>1 DEF Locks, Shape
  <2>2. QED
    BY <1>1, <1>4, <1>6, <2>1, Next1
<1> HIDE DEF g
<1>8. /\ ~pointer'[g]
      /\ \A k \in Gens : k # g => pointer'[k] = pointer[k] /\ streamer'[k] = streamer[k]
  BY <1>3, <1>7 DEF TypeOK
<1>9. TypeOK' /\ \A k \in Gens : mutex'[k] = Dead <=> mutex[k] = Dead
  <2>1. mutex' \in [Gens -> {Free, Dead} \cup Threads]
    BY <1>1, <1>7 DEF TypeOK, Unlocked
  <2>2. /\ pointer' \in [Gens -> BOOLEAN]
        /\ streamer' \in [Gens -> {"none", "running", "finishing", "deleted"}]
    BY <1>3, <1>7 DEF TypeOK
  <2>3. private' \in Gens \cup {None} /\ strayed' \in BOOLEAN
    BY <1>2, <1>7 DEF TypeOK
  <2>4. OtherTypes'
    BY <1>1, <1>7, <2>1, <2>2, <2>3 DEF TypeOK, OtherTypes
  <2>5. \A k \in Gens : mutex'[k] = Dead <=> mutex[k] = Dead
    BY <1>1, <1>7, ThreadsAre DEF TypeOK, Unlocked
  <2>6. QED
    BY <1>7, <2>4, <2>5, TypesAre
<1>10. Held'
  BY <1>1, <1>5, <1>7, HeldLost DEF Locks
<1>11. Live'
  <2>1. \A k \in Gens : Has(stack[Media], k, Writes) => mutex'[k] = mutex[k]
    BY <1>1, <1>5, <1>7, LiveUnlocked DEF Locks
  <2>2. ASSUME Has(stack[Media], g, Writes) PROVE FALSE
    <3>1. mutex[g] = Media /\ mutex'[g] = Media
      BY <1>7, <2>1, <2>2 DEF Locks, Live
    <3>2. Has(stack[t], g, Hold)
      BY <1>5, <1>7 DEF Loses
    <3>3. mutex[g] \in {t, Dead}
      BY <1>7, <3>2 DEF Locks, Held
    <3>4. mutex'[g] # t
      BY <1>1, <1>7, ThreadsAre DEF TypeOK, Unlocked
    <3>5. QED
      BY <3>1, <3>3, <3>4, ThreadsAre
  <2>3. SUFFICES ASSUME NEW k \in Gens
                 PROVE  /\ pointer'[k] => streamer'[k] = "running"
                        /\ \A u \in Threads : Has(stack'[u], k, Done) => ~pointer'[k]
                        /\ Has(stack'[Media], k, Writes) => pointer'[k] /\ mutex'[k] = Media
    BY DEF Live
  <2>4. /\ pointer[k] => streamer[k] = "running"
        /\ \A u \in Threads : Has(stack[u], k, Done) => ~pointer[k]
        /\ Has(stack[Media], k, Writes) => pointer[k] /\ mutex[k] = Media
    BY DEF Locks, Live
  <2>5. Has(stack'[Media], k, Writes) <=> Has(stack[Media], k, Writes)
    BY <1>5, ThreadsAre DEF Stays
  <2>6. CASE k = g
    BY <1>8, <2>2, <2>5, <2>6
  <2>7. CASE k # g
    <3>1. \A u \in Threads : Has(stack'[u], k, Done) <=> Has(stack[u], k, Done)
      BY <1>5, <2>7 DEF Gains
    <3>2. QED
      BY <1>8, <2>1, <2>4, <2>5, <2>7, <3>1
  <2>8. QED
    BY <2>6, <2>7
<1>12. ASSUME Proper PROVE Once'
  BY <1>1, <1>5, <1>9, <1>12, OnceKept DEF Proper
<1>13. ASSUME Proper PROVE CanBeStopped'
  <2>1. closing[g]
    <3>1. Has(stack[t], g, Tear)
      <4>1. "finish" \in Tear
        BY DEF Tear
      <4>2. QED
        BY <1>1, <1>7, <4>1, HasTop DEF g
    <3>2. QED
      BY <1>7, <1>13, <3>1 DEF Proper, Once, OnceOf
  <2>2. \A k \in Gens : OnItsWay(k) <=> OnItsWay(k)'
    BY <1>5, WayIs DEF Stays
  <2>3. SUFFICES ASSUME ~strayed', NEW k \in Gens, bug'[k] = "attached", ~closing'[k]
                 PROVE  private' = k \/ OnItsWay(k)'
    BY DEF CanBeStopped
  <2>4. ~strayed /\ k # g /\ k # None
    <3>1. ~strayed
      BY <1>2, <2>3
    <3>2. k # g
      BY <1>1, <2>1, <2>3
    <3>3. k # None
      BY ThreadsAre DEF Gens, None
    <3>4. QED
      BY <3>1, <3>2, <3>3
  <2>5. private = k \/ OnItsWay(k)
    BY <1>1, <1>13, <2>3, <2>4 DEF Proper, CanBeStopped
  <2>6. private = k => private' = k
    BY <1>2, <2>3, <2>4
  <2>7. QED
    BY <2>2, <2>5, <2>6
<1>14. QED
  BY <1>7, <1>9, <1>10, <1>11, <1>12, <1>13 DEF Locks, Proper

LEMMA WipeStep ==
    ASSUME Locks, NEW t \in Threads, Wipe(t)
    PROVE  Locks' /\ (Proper => Proper')
<1> DEFINE g == Gen(t)
<1>1. /\ At(t, "retry") \/ At(t, "destroy")
      /\ Return(t)
      /\ pointer' = [pointer EXCEPT ![g] = FALSE]
      /\ streamer' = [streamer EXCEPT ![g] = IF pointer[g] THEN "deleted" ELSE @]
      /\ mutex' = [mutex EXCEPT ![g] = Dead] /\ slot' = [slot EXCEPT ![g] = FALSE]
      /\ UNCHANGED <<private, strayed, reading, hungUp, bug, closing>>
      /\ UNCHANGED <<started, commands, errors>>
  BY DEF Wipe, call, channel, bounds
<1>2. /\ "destroy" \in Labels /\ "destroy" \in Streamed /\ "retry" \in Streamed
      /\ "destroy" \notin Pausing
  BY DEF Labels, Streamed, Pausing
<1>3. /\ Stays(Hold) /\ Loses(t, g, Tear) /\ Loses(t, g, Done) /\ Stays(Claims)
      /\ Stays(Writes) /\ Stays(Way)
  <2>1. CASE At(t, "retry")
    <3>1. /\ "retry" \in Streamed
          /\ "retry" \notin Hold
          /\ "retry" \in Tear
          /\ "retry" \in Done
          /\ "retry" \notin Claims
          /\ "retry" \notin Writes
          /\ "retry" \notin Way
      BY DEF Streamed, Hold, Tear, Done, Claims, Writes, Way
    <3>2. /\ Stays(Hold) /\ Loses(t, Gen(t), Tear) /\ Loses(t, Gen(t), Done)
          /\ Stays(Claims) /\ Stays(Writes) /\ Stays(Way)
      BY <1>1, <2>1, <3>1, ReturnMoves
    <3>3. QED
      BY <3>2
  <2>2. CASE At(t, "destroy")
    <3>1. /\ "destroy" \in Streamed
          /\ "destroy" \notin Hold
          /\ "destroy" \in Tear
          /\ "destroy" \in Done
          /\ "destroy" \notin Claims
          /\ "destroy" \notin Writes
          /\ "destroy" \notin Way
      BY DEF Streamed, Hold, Tear, Done, Claims, Writes, Way
    <3>2. /\ Stays(Hold) /\ Loses(t, Gen(t), Tear) /\ Loses(t, Gen(t), Done)
          /\ Stays(Claims) /\ Stays(Writes) /\ Stays(Way)
      BY <1>1, <2>2, <3>1, ReturnMoves
    <3>3. QED
      BY <3>2
  <2>3. QED
    BY <1>1, <2>1, <2>2
<1>4. /\ TypeOK /\ Shape /\ g \in Gens
      /\ Shape' /\ stack' \in [Threads -> Seq(FrameTypes)]
  <2>1. private' \in 0 .. started /\ \A k \in Gens : bug'[k] = "attached" => k <= started
    BY <1>1 DEF Locks, Shape
  <2>2. QED
    BY <1>1, <1>2, <2>1, Next1
<1> HIDE DEF g
<1>5. Has(stack[t], g, Done) /\ Has(stack[t], g, Tear)
  BY <1>3, <1>4 DEF Loses
<1>6. ~pointer[g] /\ pointer' = pointer /\ streamer' = streamer
  <2>1. ~pointer[g]
    BY <1>4, <1>5 DEF Locks, Live
  <2>2. QED
    BY <1>1, <1>4, <2>1 DEF TypeOK
<1>7. mutex'[g] = Dead /\ \A k \in Gens : k # g => mutex'[k] = mutex[k]
  BY <1>1, <1>4 DEF TypeOK
<1>8. TypeOK'
  <2>1. /\ mutex' \in [Gens -> {Free, Dead} \cup Threads]
        /\ slot' \in [Gens -> BOOLEAN]
    BY <1>1, <1>4 DEF TypeOK
  <2>2. OtherTypes'
    BY <1>1, <1>4, <1>6, <2>1 DEF TypeOK, OtherTypes
  <2>3. QED
    BY <1>4, <2>2, TypesAre
<1>9. Held'
  <2>1. SUFFICES ASSUME NEW u \in Threads, NEW k \in Gens
                 PROVE  /\ Has(stack'[u], k, Hold) => mutex'[k] \in {u, Dead}
                        /\ mutex'[k] # Dead => Alone(stack'[u], k, Hold)
    BY DEF Held
  <2>2. /\ Has(stack[u], k, Hold) => mutex[k] \in {u, Dead}
        /\ mutex[k] # Dead => Alone(stack[u], k, Hold)
    BY DEF Locks, Held
  <2>3. QED
    BY <1>3, <1>7, <2>2 DEF Stays
<1>10. Live'
  <2>1. \A k \in Gens : Has(stack[Media], k, Writes) => mutex'[k] = mutex[k]
    BY <1>4, <1>6, <1>7 DEF Locks, Live
  <2>2. SUFFICES ASSUME NEW k \in Gens
                 PROVE  /\ pointer'[k] => streamer'[k] = "running"
                        /\ \A u \in Threads : Has(stack'[u], k, Done) => ~pointer'[k]
                        /\ Has(stack'[Media], k, Writes) => pointer'[k] /\ mutex'[k] = Media
    BY DEF Live
  <2>3. /\ pointer[k] => streamer[k] = "running"
        /\ \A u \in Threads : Has(stack[u], k, Done) => ~pointer[k]
        /\ Has(stack[Media], k, Writes) => pointer[k] /\ mutex[k] = Media
    BY DEF Locks, Live
  <2>4. \A u \in Threads : Has(stack'[u], k, Done) => Has(stack[u], k, Done)
    BY <1>3 DEF Loses
  <2>5. Has(stack'[Media], k, Writes) <=> Has(stack[Media], k, Writes)
    BY <1>3, ThreadsAre DEF Stays
  <2>6. QED
    BY <1>6, <2>1, <2>3, <2>4, <2>5
<1>11. ASSUME Proper PROVE Once'
  <2>1. SUFFICES ASSUME NEW k \in Gens PROVE OnceOf(k)'
    BY DEF Once
  <2>2. OnceOf(k)
    BY <1>11 DEF Proper, Once
  <2>3. \A u \in Threads : Has(stack'[u], k, Claims) <=> Has(stack[u], k, Claims)
    BY <1>3 DEF Stays
  <2>4. \A u \in Threads : Alone(stack'[u], k, Tear)
    BY <1>3, <2>2 DEF Loses, OnceOf
  <2>5. CASE k # g
    <3>1. \A u \in Threads : Has(stack'[u], k, Tear) <=> Has(stack[u], k, Tear)
      BY <1>3, <2>5 DEF Loses
    <3>2. QED
      BY <1>1, <1>7, <2>2, <2>3, <2>4, <2>5, <3>1 DEF OnceOf
  <2>6. CASE k = g
    <3>1. closing[g] /\ \A u \in Threads : Has(stack[u], g, Tear) => u = t
      BY <1>5, <2>2, <2>6 DEF OnceOf
    <3>2. \A u \in Threads : ~Has(stack'[u], g, Tear)
      <4>1. Alone(stack[t], g, Tear)
        BY <2>2, <2>6 DEF OnceOf
      <4>2. ~Has(stack'[t], g, Tear)
        BY <1>3, <1>4, <4>1 DEF Loses
      <4>3. \A u \in Threads : Has(stack'[u], g, Tear) => Has(stack[u], g, Tear)
        BY <1>3, <1>4 DEF Loses
      <4>4. QED
        BY <3>1, <4>2, <4>3
    <3>3. \A u \in Threads : ~Has(stack'[u], g, Claims)
      BY <2>2, <2>3, <2>6, <3>1 DEF OnceOf
    <3>4. QED
      BY <1>1, <1>7, <2>4, <2>6, <3>1, <3>2, <3>3 DEF OnceOf
  <2>7. QED
    BY <2>5, <2>6
<1>12. ASSUME Proper PROVE CanBeStopped'
  <2>1. \A k \in Gens : OnItsWay(k) <=> OnItsWay(k)'
    BY <1>3, WayIs DEF Stays
  <2>2. QED
    BY <1>1, <1>12, <2>1 DEF Proper, CanBeStopped
<1>13. QED
  BY <1>4, <1>8, <1>9, <1>10, <1>11, <1>12 DEF Locks, Proper

LEMMA FrameStartsStep ==
    ASSUME Locks, FrameStarts
    PROVE  Locks' /\ (Proper => Proper')
<1> DEFINE g == Gen(Media)
<1>1. /\ Media \in Threads /\ At(Media, "frame lock") /\ mutex[g] = Free
      /\ UNCHANGED <<private, strayed, hungUp, bug, closing, pointer, streamer>>
      /\ UNCHANGED <<slot, started, commands, errors>>
  BY ThreadsAre DEF FrameStarts, channel, counters
<1>2. CASE pointer[g]
  <2>1. /\ mutex' = [mutex EXCEPT ![g] = Media] /\ Goto(Media, "write")
        /\ reading' = reading
    BY <1>2 DEF FrameStarts
  <2>2. /\ "write" \in Labels /\ "frame lock" \in Streamed /\ "write" \notin Pausing
        /\ "frame lock" \notin Hold /\ "write" \in Hold
        /\ "frame lock" \notin Tear /\ "write" \notin Tear
        /\ "frame lock" \notin Done /\ "write" \notin Done
        /\ "frame lock" \notin Claims /\ "write" \notin Claims
        /\ "frame lock" \notin Writes /\ "write" \in Writes
        /\ "frame lock" \notin Way /\ "write" \notin Way
    BY DEF Labels, Streamed, Pausing, Hold, Tear, Done, Claims, Writes, Way
  <2>3. /\ Gains(Media, Gen(Media), Hold) /\ Stays(Tear) /\ Stays(Done)
        /\ Stays(Claims) /\ Gains(Media, Gen(Media), Writes) /\ Stays(Way)
    BY <1>1, <2>1, <2>2, GotoMoves
  <2>4. /\ TypeOK /\ Shape /\ g \in Gens
        /\ Shape' /\ stack' \in [Threads -> Seq(FrameTypes)]
    <3>1. private' \in 0 .. started /\ \A k \in Gens : bug'[k] = "attached" => k <= started
      BY <1>1 DEF Locks, Shape
    <3>2. QED
      BY <1>1, <2>1, <2>2, <3>1, Next1
  <2> HIDE DEF g
  <2>5. mutex'[g] = Media /\ \A k \in Gens : k # g => mutex'[k] = mutex[k]
    BY <2>1, <2>4 DEF TypeOK
  <2>6. TypeOK' /\ \A k \in Gens : mutex'[k] = Dead <=> mutex[k] = Dead
    <3>1. mutex' \in [Gens -> {Free, Dead} \cup Threads]
      BY <1>1, <2>1, <2>4 DEF TypeOK
    <3>2. OtherTypes'
      BY <1>1, <2>1, <2>4, <3>1 DEF TypeOK, OtherTypes
    <3>3. \A k \in Gens : mutex'[k] = Dead <=> mutex[k] = Dead
      BY <1>1, <2>5, ThreadsAre
    <3>4. QED
      BY <2>4, <3>2, <3>3, TypesAre
  <2>7. Held'
    <3>1. mutex' = [mutex EXCEPT ![g] = IF @ = Free THEN Media ELSE @]
      BY <1>1, <2>1
    <3>2. QED
      BY <1>1, <2>3, <2>4, <3>1, HeldGained DEF Locks, g
  <2>8. Live'
    <3>1. SUFFICES ASSUME NEW k \in Gens
                   PROVE  /\ pointer'[k] => streamer'[k] = "running"
                          /\ \A u \in Threads : Has(stack'[u], k, Done) => ~pointer'[k]
                          /\ Has(stack'[Media], k, Writes)
                               => pointer'[k] /\ mutex'[k] = Media
      BY DEF Live
    <3>2. /\ pointer[k] => streamer[k] = "running"
          /\ \A u \in Threads : Has(stack[u], k, Done) => ~pointer[k]
          /\ Has(stack[Media], k, Writes) => pointer[k] /\ mutex[k] = Media
      BY DEF Locks, Live
    <3>3. \A u \in Threads : Has(stack'[u], k, Done) <=> Has(stack[u], k, Done)
      BY <2>3 DEF Stays
    <3>4. Has(stack'[Media], k, Writes) => Has(stack[Media], k, Writes) \/ k = g
      BY <1>1, <2>3 DEF Gains, g
    <3>5. QED
      BY <1>1, <1>2, <2>5, <3>2, <3>3, <3>4
  <2>9. ASSUME Proper PROVE Once'
    BY <1>1, <2>3, <2>6, <2>9, OnceKept DEF Proper
  <2>10. ASSUME Proper PROVE CanBeStopped'
    <3>1. \A k \in Gens : OnItsWay(k) <=> OnItsWay(k)'
      BY <2>3, WayIs DEF Stays
    <3>2. QED
      BY <1>1, <2>10, <3>1 DEF Proper, CanBeStopped
  <2>11. QED
    BY <2>4, <2>6, <2>7, <2>8, <2>9, <2>10 DEF Locks, Proper
<1>3. CASE ~pointer[g]
  <2>1. Return(Media) /\ mutex' = mutex /\ reading' = FALSE
    BY <1>3 DEF FrameStarts
  <2>2. Still /\ OtherTypes'
    BY <1>1, <2>1 DEF Still, OtherTypes, Locks, TypeOK
  <2>3. "frame lock" \notin Way /\ Unwatched("frame lock")
    BY UnwatchedLabels DEF Way
  <2>4. QED
    BY <1>1, <2>1, <2>2, <2>3, QuietReturn
<1>4. QED
  BY <1>2, <1>3

LEMMA FrameWritesStep ==
    ASSUME Locks, FrameWrites
    PROVE  Locks' /\ (Proper => Proper')
<1> DEFINE g == Gen(Media)
<1>1. /\ Media \in Threads /\ At(Media, "write") /\ Return(Media)
      /\ mutex' = Unlocked(Media, g) /\ reading' = FALSE
      /\ UNCHANGED <<private, strayed, hungUp, bug, closing, pointer, streamer>>
      /\ UNCHANGED <<slot, started, commands, errors>>
  BY ThreadsAre DEF FrameWrites, channel, counters
<1>2. /\ "write" \in Streamed
      /\ "write" \in Hold
      /\ "write" \notin Tear
      /\ "write" \notin Done
      /\ "write" \notin Claims
      /\ "write" \in Writes
      /\ "write" \notin Way
  BY DEF Streamed, Hold, Tear, Done, Claims, Writes, Way
<1>3. /\ Loses(Media, Gen(Media), Hold) /\ Stays(Tear) /\ Stays(Done)
      /\ Stays(Claims) /\ Loses(Media, Gen(Media), Writes) /\ Stays(Way)
  BY <1>1, <1>2, ReturnMoves
<1>4. /\ TypeOK /\ Shape /\ g \in Gens
      /\ Shape' /\ stack' \in [Threads -> Seq(FrameTypes)]
  <2>1. private' \in 0 .. started /\ \A k \in Gens : bug'[k] = "attached" => k <= started
    BY <1>1 DEF Locks, Shape
  <2>2. "write" \in Labels /\ "write" \notin Pausing
    BY DEF Labels, Pausing
  <2>3. QED
    BY <1>1, <1>2, <2>1, <2>2, Next1
<1> HIDE DEF g
<1>5. TypeOK' /\ \A k \in Gens : mutex'[k] = Dead <=> mutex[k] = Dead
  <2>1. mutex' \in [Gens -> {Free, Dead} \cup Threads]
    BY <1>1, <1>4 DEF TypeOK, Unlocked
  <2>2. OtherTypes'
    BY <1>1, <1>4, <2>1 DEF TypeOK, OtherTypes
  <2>3. \A k \in Gens : mutex'[k] = Dead <=> mutex[k] = Dead
    BY <1>1, <1>4, ThreadsAre DEF TypeOK, Unlocked
  <2>4. QED
    BY <1>4, <2>2, <2>3, TypesAre
<1>6. Held'
  BY <1>1, <1>3, <1>4, HeldLost DEF Locks, g
<1>7. Live'
  <2>1. SUFFICES ASSUME NEW k \in Gens
                 PROVE  /\ pointer'[k] => streamer'[k] = "running"
                        /\ \A u \in Threads : Has(stack'[u], k, Done) => ~pointer'[k]
                        /\ Has(stack'[Media], k, Writes) => pointer'[k] /\ mutex'[k] = Media
    BY DEF Live
  <2>2. /\ pointer[k] => streamer[k] = "running"
        /\ \A u \in Threads : Has(stack[u], k, Done) => ~pointer[k]
        /\ Has(stack[Media], k, Writes) => pointer[k] /\ mutex[k] = Media
    BY DEF Locks, Live
  <2>3. \A u \in Threads : Has(stack'[u], k, Done) <=> Has(stack[u], k, Done)
    BY <1>3 DEF Stays
  <2>4. Has(stack'[Media], k, Writes) => Has(stack[Media], k, Writes) /\ k # g
    <3>1. Has(stack'[Media], k, Writes) => Has(stack[Media], k, Writes)
      BY <1>1, <1>3 DEF Loses, g
    <3>2. ASSUME k = g PROVE ~Has(stack'[Media], g, Writes)
      <4>1. Has(stack[Media], g, Writes)
        BY <1>1, <1>3, <1>4 DEF Loses, g
      <4>2. mutex[g] = Media
        BY <1>4, <4>1 DEF Locks, Live
      <4>3. Alone(stack[Media], g, Hold)
        BY <1>1, <1>4, <4>2, ThreadsAre DEF Locks, Held
      <4>4. Alone(stack[Media], g, Writes)
        BY <4>3 DEF Alone, Hold, Writes
      <4>5. QED
        BY <1>1, <1>3, <1>4, <4>4 DEF Loses, g
    <3>3. QED
      BY <3>1, <3>2
  <2>5. k # g => mutex'[k] = mutex[k]
    BY <1>1, <1>4 DEF TypeOK, Unlocked
  <2>6. QED
    BY <1>1, <2>2, <2>3, <2>4, <2>5
<1>8. ASSUME Proper PROVE Once'
  BY <1>1, <1>3, <1>5, <1>8, OnceKept DEF Proper
<1>9. ASSUME Proper PROVE CanBeStopped'
  <2>1. \A k \in Gens : OnItsWay(k) <=> OnItsWay(k)'
    BY <1>3, WayIs DEF Stays
  <2>2. QED
    BY <1>1, <1>9, <2>1 DEF Proper, CanBeStopped
<1>10. QED
  BY <1>4, <1>5, <1>6, <1>7, <1>8, <1>9 DEF Locks, Proper

LEMMA FramesOf ==
    ASSUME TypeOK, Shape, NEW t \in Threads
    PROVE  \A i \in 1 .. Len(stack[t]) : stack[t][i] \in Frames
<1>1. CASE stack[t] = <<>>
  <2>1. Len(stack[t]) = 0
    BY <1>1
  <2>2. QED
    BY <2>1
<1>2. CASE stack[t] # <<>>
  <2> DEFINE h == Head(stack[t])
             r == Tail(stack[t])
  <2>1. h \in Frames /\ r \in Seq(Resting) /\ stack[t] = <<h>> \o r
    BY <1>2, StackOf
  <2> HIDE DEF h, r
  <2>2. r \in Seq(Frames)
    <3>1. Resting \subseteq Frames
      BY FramesAre
    <3>2. QED
      BY <2>1, <3>1
  <2>3. stack[t] \in Seq(Frames)
    BY <2>1, <2>2, Cons
  <2>4. QED
    BY <2>3, ElementOfSeq
<1>3. QED
  BY <1>1, <1>2

LEMMA CreateStep ==
    ASSUME Locks, NEW t \in Api, Create(t)
    PROVE  Locks' /\ (Proper => Proper')
<1> DEFINE g == started + 1
           f == Frame("add bug", g, "command")
           h == Head(stack[t])
           r == Tail(stack[t])
<1>1. /\ t \in Threads /\ t # Session /\ At(t, "create") /\ started < MaxGen /\ started' = g
      /\ streamer' = [streamer EXCEPT ![g] = "running"]
      /\ pointer' = [pointer EXCEPT ![g] = TRUE]
      /\ UNCHANGED <<private, strayed, reading, hungUp, bug, closing, mutex>>
      /\ UNCHANGED <<commands, errors>>
  BY ThreadsAre DEF Create, NewStreamer, call, channel, bounds
<1>2. /\ slot' = slot \/ slot' = [slot EXCEPT ![g] = TRUE]
      /\ Become(t, f) \/ Return(t)
  BY DEF Create
<1>3. /\ TypeOK /\ Shape /\ stack[t] # <<>> /\ h.at = "create"
      /\ stack \in [Threads -> Seq(FrameTypes)]
  BY <1>1 DEF Locks, At, TypeOK, FrameTypes
<1>4. /\ h \in FrameTypes /\ r \in Seq(FrameTypes) /\ r \in Seq(Resting)
      /\ stack[t] = <<h>> \o r
  BY <1>1, <1>3, StackOf
<1>5. /\ started \in Nat /\ g \in Gens /\ g \in Nat /\ started <= g /\ ~ (g <= started)
      /\ 0 .. started \subseteq 0 .. g /\ g \in 0 .. g /\ g \in 0 .. MaxGen
  <2>1. started \in Nat /\ MaxGen \in Nat
    BY <1>3, FramesAre, ThreadsAre
  <2>2. QED
    BY <1>1, <2>1 DEF Gens
<1>6. /\ "add bug" \in Labels /\ "add bug" \notin Pausing /\ "command" \in Why
      /\ Unwatched("add bug") /\ Unwatched("create") /\ "create" \notin Way
  BY UnwatchedLabels DEF Labels, Pausing, Why, Way
<1>7. Frames \subseteq Frames' /\ Resting \subseteq Resting'
  <2>1. 0 .. started \subseteq 0 .. started'
    BY <1>1, <1>5
  <2>2. Frames \subseteq Frames'
    BY <2>1 DEF Frames
  <2>3. QED
    BY <2>2 DEF Resting
<1>8. f \in FrameTypes /\ f \in Frames' /\ f.at = "add bug"
  BY <1>1, <1>5, <1>6 DEF Frame, FrameTypes, Frames
<1>9. \E new \in {r, <<f>> \o r} : Turn(t, new)
  BY <1>2 DEF Become, Return, Turn
<1> HIDE DEF f, h, r, g
<1>10. PICK new \in {r, <<f>> \o r} : Turn(t, new)
  BY <1>9
<1>11. new \in Seq(FrameTypes) /\ IsStack(new)' /\ Same(stack[t], new)
  <2>1. r \in Seq(Resting')
    BY <1>4, <1>7
  <2>2. CASE new = r
    <3>1. r # <<>> => Head(r) \in Resting' /\ Tail(r) \in Seq(Resting')
      BY <2>1, Uncons
    <3>2. Resting' \subseteq Frames'
      BY DEF Resting
    <3>3. Same(stack[t], r)
      BY <1>3, <1>4, <1>6, Calling1
    <3>4. IsStack(new)'
      BY <2>2, <3>1, <3>2 DEF IsStack
    <3>5. QED
      BY <1>4, <2>2, <3>3, <3>4
  <2>3. CASE new = <<f>> \o r
    <3>1. /\ <<f>> \o r \in Seq(FrameTypes)
          /\ Head(<<f>> \o r) = f /\ Tail(<<f>> \o r) = r
      <4>1. f \in FrameTypes /\ r \in Seq(FrameTypes)
        BY <1>4, <1>8
      <4>2. QED
        BY <4>1, Cons
    <3>2. Same(stack[t], <<f>> \o r)
      BY <1>3, <1>4, <1>6, <1>8, Replacing
    <3>3. IsStack(new)'
      BY <1>8, <2>1, <2>3, <3>1 DEF IsStack
    <3>4. QED
      BY <2>3, <3>1, <3>2, <3>3
  <2>4. QED
    BY <2>2, <2>3
<1>12. \A u \in Threads : stack'[u] = IF u = t THEN new ELSE stack[u]
  BY <1>3, <1>10 DEF Turn
<1>13. stack' \in [Threads -> Seq(FrameTypes)]
  BY <1>3, <1>10, <1>11 DEF Turn
<1>14. Shape'
  <2>1. ASSUME NEW u \in Threads PROVE IsStack(stack[u])'
    <3>1. CASE u = t
      BY <1>11, <1>12, <3>1 DEF IsStack
    <3>2. CASE u # t
      <4>1. stack'[u] = stack[u] /\ IsStack(stack[u])
        BY <1>3, <1>12, <3>2 DEF Shape
      <4>2. stack[u] # <<>> =>
                Head(stack[u]) \in Frames' /\ Tail(stack[u]) \in Seq(Resting')
        BY <1>7, <4>1 DEF IsStack
      <4>3. QED
        BY <4>1, <4>2 DEF IsStack
    <3>3. QED
      BY <3>1, <3>2
  <2>2. private' \in 0 .. started'
    BY <1>1, <1>3, <1>5 DEF Shape
  <2>3. \A k \in Gens : bug'[k] = "attached" => k <= started'
    <3>1. ASSUME NEW k \in Gens, k <= started PROVE k <= g
      BY <1>5, <3>1 DEF g, Gens
    <3>2. QED
      BY <1>1, <1>3, <3>1 DEF Shape
  <2>4. ~hungUp' => stack'[Session] = <<>>
    BY <1>1, <1>3, <1>12, ThreadsAre DEF Shape
  <2>5. QED
    BY <2>1, <2>2, <2>3, <2>4 DEF Shape
<1>15. pointer'[g] /\ streamer'[g] = "running"
       /\ \A k \in Gens : k # g => pointer'[k] = pointer[k] /\ streamer'[k] = streamer[k]
  BY <1>1, <1>3, <1>5 DEF TypeOK
<1>16. TypeOK'
  <2>1. /\ pointer' \in [Gens -> BOOLEAN] /\ slot' \in [Gens -> BOOLEAN]
        /\ streamer' \in [Gens -> {"none", "running", "finishing", "deleted"}]
    BY <1>1, <1>2, <1>3, <1>5 DEF TypeOK
  <2>2. OtherTypes'
    BY <1>1, <1>3, <1>5, <2>1 DEF TypeOK, OtherTypes
  <2>3. QED
    BY <1>13, <2>2, TypesAre
<1>17. Stays(Hold) /\ Stays(Tear) /\ Stays(Done) /\ Stays(Claims) /\ Stays(Writes)
  BY <1>1, <1>3, <1>10, <1>11, StaysIf DEF Kinds
<1>18. Held'
  BY <1>1, <1>17, HeldKept DEF Locks
<1>19. \A u \in Threads : ~Has(stack[u], g, Done) /\ ~Has(stack[u], g, Writes)
  <2>1. SUFFICES ASSUME NEW u \in Threads, NEW i \in 1 .. Len(stack[u]), stack[u][i].g = g
                 PROVE  FALSE
    BY DEF Has
  <2>2. stack[u][i] \in Frames
    BY <1>3, FramesOf
  <2>3. g \in 0 .. started
    BY <2>1, <2>2 DEF Frames
  <2>4. QED
    BY <1>5, <2>3
<1>20. Live'
  <2>1. SUFFICES ASSUME NEW k \in Gens
                 PROVE  /\ pointer'[k] => streamer'[k] = "running"
                        /\ \A u \in Threads : Has(stack'[u], k, Done) => ~pointer'[k]
                        /\ Has(stack'[Media], k, Writes) => pointer'[k] /\ mutex'[k] = Media
    BY DEF Live
  <2>2. /\ pointer[k] => streamer[k] = "running"
        /\ \A u \in Threads : Has(stack[u], k, Done) => ~pointer[k]
        /\ Has(stack[Media], k, Writes) => pointer[k] /\ mutex[k] = Media
    BY DEF Locks, Live
  <2>3. \A u \in Threads :
            /\ Has(stack'[u], k, Done) <=> Has(stack[u], k, Done)
            /\ Has(stack'[u], k, Writes) <=> Has(stack[u], k, Writes)
    BY <1>17 DEF Stays
  <2>4. CASE k = g
    BY <1>15, <1>19, <2>3, <2>4, ThreadsAre
  <2>5. CASE k # g
    BY <1>1, <1>15, <2>2, <2>3, <2>5, ThreadsAre
  <2>6. QED
    BY <2>4, <2>5
<1>21. ASSUME Proper PROVE Once'
  BY <1>1, <1>17, <1>21, OnceKept DEF Proper
<1>22. ASSUME Proper PROVE CanBeStopped'
  <2>1. \A k \in Gens : OnItsWay(k) => OnItsWay(k)'
    <3>1. stack[t] # <<>> => Head(stack[t]).at \notin Way
      BY <1>3, <1>6 DEF h
    <3>2. QED
      BY <1>1, <1>3, <1>10, <3>1, WayKept
  <2>2. QED
    BY <1>1, <1>22, <2>1 DEF Proper, CanBeStopped
<1>23. QED
  BY <1>14, <1>16, <1>18, <1>20, <1>21, <1>22 DEF Locks, Proper

LEMMA AddBugStep ==
    ASSUME Locks, NEW t \in Api, AddBug(t)
    PROVE  Locks' /\ (Proper => Proper')
<1> DEFINE g == Gen(t)
<1>1. /\ t \in Threads /\ At(t, "add bug")
      /\ UNCHANGED <<private, strayed, reading, hungUp, closing, pointer, mutex, streamer>>
      /\ UNCHANGED <<slot, started, commands, errors>>
  BY ThreadsAre DEF AddBug, call, channel, counters
<1>2. CASE bug' = [bug EXCEPT ![g] = "attached"] /\ Goto(t, "publish")
  <2>1. /\ "publish" \in Labels /\ "add bug" \in Streamed /\ "publish" \notin Pausing
        /\ "add bug" \notin Hold /\ "publish" \notin Hold
        /\ "add bug" \notin Tear /\ "publish" \notin Tear
        /\ "add bug" \notin Done /\ "publish" \notin Done
        /\ "add bug" \notin Claims /\ "publish" \notin Claims
        /\ "add bug" \notin Writes /\ "publish" \notin Writes
        /\ "add bug" \notin Way /\ "publish" \in Way
    BY DEF Labels, Streamed, Pausing, Hold, Tear, Done, Claims, Writes, Way
  <2>2. /\ Stays(Hold) /\ Stays(Tear) /\ Stays(Done)
        /\ Stays(Claims) /\ Stays(Writes) /\ Gains(t, Gen(t), Way)
    BY <1>1, <1>2, <2>1, GotoMoves
  <2>3. TypeOK /\ Shape /\ g \in Gens /\ g <= started
    <3>1. TypeOK /\ Shape /\ stack[t] # <<>> /\ Head(stack[t]).at = "add bug"
      BY <1>1 DEF Locks, At
    <3>2. g \in Gens /\ g \in 0 .. started
      BY <1>1, <2>1, <3>1, StackOf DEF Gen, Frames
    <3>3. started \in Nat
      BY <3>1, FramesAre
    <3> HIDE DEF g
    <3>4. g <= started
      BY <3>2, <3>3
    <3>5. QED
      BY <3>1, <3>2, <3>4
  <2>4. /\ bug' \in [Gens -> {"none", "attached", "closed"}]
        /\ \A k \in Gens : k # g => bug'[k] = bug[k]
    BY <1>2, <2>3 DEF TypeOK
  <2>5. Shape' /\ stack' \in [Threads -> Seq(FrameTypes)]
    <3>1. private' \in 0 .. started
      BY <1>1 DEF Locks, Shape
    <3>2. \A k \in Gens : bug'[k] = "attached" => k <= started
      BY <2>3, <2>4 DEF Shape
    <3>3. QED
      BY <1>1, <1>2, <2>1, <3>1, <3>2, Next1
  <2> HIDE DEF g
  <2>6. TypeOK'
    <3>1. OtherTypes'
      BY <1>1, <2>3, <2>4 DEF TypeOK, OtherTypes
    <3>2. QED
      BY <2>5, <3>1, TypesAre
  <2>7. Held' /\ Live'
    BY <1>1, <2>2, HeldKept, LiveKept DEF Locks
  <2>8. ASSUME Proper PROVE Once'
    BY <1>1, <2>2, <2>8, OnceKept DEF Proper
  <2>9. ASSUME Proper PROVE CanBeStopped'
    <3>1. \A k \in Gens : OnItsWay(k) \/ k = g => OnItsWay(k)'
      BY <1>1, <2>2, WayIs DEF Gains, g
    <3>2. QED
      BY <1>1, <2>4, <2>9, <3>1 DEF Proper, CanBeStopped
  <2>10. QED
    BY <2>5, <2>6, <2>7, <2>8, <2>9 DEF Locks, Proper
<1>3. CASE Become(t, Frame("find", None, "stop")) /\ bug' = bug
  <2>1. Still /\ OtherTypes'
    BY <1>1, <1>3 DEF Still, OtherTypes, Locks, TypeOK
  <2>2. /\ "add bug" \notin Way /\ "find" \in Labels /\ "stop" \in Why
        /\ "find" \notin Streamed /\ "find" \notin Pausing
    BY DEF Way, Labels, Why, Streamed, Pausing
  <2>3. Unwatched("add bug")
    BY UnwatchedLabels
  <2>4. None \in 0 .. started
    <3>1. started \in Nat
      BY FramesAre DEF Locks
    <3>2. QED
      BY <3>1 DEF None
  <2>5. QED
    BY <1>1, <1>3, <2>1, <2>2, <2>3, <2>4, UnwatchedFind, QuietBecome
<1>4. QED
  BY <1>2, <1>3 DEF AddBug

\* The bits written back may undo close_requested, but only a pause writes them.
LEMMA StoreFlagsStep ==
    ASSUME Locks, NEW t \in Api, StoreFlags(t)
    PROVE  Locks' /\ "pause" \in Commands
<1>1. PICK l0 \in {"store closing", "store open"} : At(t, l0)
  BY DEF StoreFlags
<1>2. /\ t \in Threads /\ Return(t)
      /\ closing' = [closing EXCEPT ![Gen(t)] = At(t, "store closing")]
      /\ UNCHANGED <<private, strayed, reading, hungUp, bug, pointer, mutex, streamer>>
      /\ UNCHANGED <<slot, started, commands, errors>>
  BY ThreadsAre DEF StoreFlags, call, channel, counters
<1>3. l0 \in Labels /\ l0 \in Streamed /\ l0 \in Pausing
  BY DEF Labels, Streamed, Pausing
<1>4. "pause" \in Commands
  <2>1. stack[t] # <<>> /\ Head(stack[t]).at = l0 /\ TypeOK /\ Shape
    BY <1>1 DEF At, Locks
  <2>2. Head(stack[t]) \in Frames
    BY <1>2, <2>1, StackOf
  <2>3. QED
    BY <1>3, <2>1, <2>2 DEF Frames
<1>5. Stays(Hold) /\ Stays(Done) /\ Stays(Writes)
  <2>1. l0 \notin Hold /\ l0 \notin Done /\ l0 \notin Writes
    BY DEF Hold, Done, Writes
  <2>2. QED
    BY <1>1, <1>2, <2>1, ReturnMoves
<1>6. /\ TypeOK /\ Shape /\ Gen(t) \in Gens
      /\ Shape' /\ stack' \in [Threads -> Seq(FrameTypes)]
  <2>1. private' \in 0 .. started /\ \A k \in Gens : bug'[k] = "attached" => k <= started
    BY <1>2 DEF Locks, Shape
  <2>2. QED
    BY <1>1, <1>2, <1>3, <1>4, <2>1, Next1
<1>7. TypeOK'
  <2>1. At(t, "store closing") \in BOOLEAN
    BY DEF At
  <2>2. closing' \in [Gens -> BOOLEAN]
    BY <1>2, <1>6, <2>1 DEF TypeOK
  <2>3. OtherTypes'
    BY <1>2, <1>6, <2>2 DEF TypeOK, OtherTypes
  <2>4. QED
    BY <1>6, <2>3, TypesAre
<1>8. Held' /\ Live'
  BY <1>2, <1>5, HeldKept, LiveKept DEF Locks
<1>9. QED
  BY <1>4, <1>6, <1>7, <1>8 DEF Locks

\* A step that leaves the calls alone.
LEMMA CallsAlone ==
    ASSUME Locks, stack' = stack, OtherTypes', Live',
           UNCHANGED <<private, bug, started, hungUp, mutex, closing, strayed>>
    PROVE  Locks' /\ (Proper => Proper')
<1>1. TypeOK'
  BY TypesAre DEF Locks
<1>2. Frames' = Frames /\ Resting' = Resting
  BY DEF Frames, Resting
<1>3. Shape'
  <2>1. \A u \in Threads : IsStack(stack[u])'
    BY <1>2 DEF Locks, Shape, IsStack
  <2>2. QED
    BY <2>1 DEF Locks, Shape
<1>4. Held'
  BY DEF Locks, Held
<1>5. Proper => Proper'
  BY DEF Proper, Once, OnceOf, CanBeStopped, OnItsWay
<1>6. QED
  BY <1>1, <1>3, <1>4, <1>5 DEF Locks

LEMMA DeleteStep ==
    ASSUME Locks, NEW g \in Gens, Delete(g)
    PROVE  Locks' /\ (Proper => Proper')
<1>1. /\ streamer[g] = "finishing" /\ streamer' = [streamer EXCEPT ![g] = "deleted"]
      /\ UNCHANGED <<stack, private, strayed, reading, hungUp, bug, closing, pointer, mutex>>
      /\ UNCHANGED <<slot, started, commands, errors>>
  BY DEF Delete, call, channel, bounds
<1>2. OtherTypes'
  <2>1. streamer' \in [Gens -> {"none", "running", "finishing", "deleted"}]
    BY <1>1 DEF Locks, TypeOK
  <2>2. QED
    BY <1>1, <2>1 DEF Locks, TypeOK, OtherTypes
<1>3. \A k \in Gens : pointer[k] => streamer'[k] = streamer[k]
  BY <1>1 DEF Locks, Live, TypeOK
<1>4. Live'
  BY <1>1, <1>3 DEF Locks, Live
<1>5. QED
  BY <1>1, <1>2, <1>4, CallsAlone

LEMMA StutterStep ==
    ASSUME Locks, UNCHANGED vars
    PROVE  Locks' /\ (Proper => Proper')
<1>1. /\ UNCHANGED <<stack, private, bug, closing, pointer, mutex, streamer, slot>>
      /\ UNCHANGED <<strayed, started, commands, errors, reading, hungUp>>
  BY DEF vars
<1>2. OtherTypes' /\ Live'
  BY <1>1 DEF Locks, TypeOK, OtherTypes, Live
<1>3. QED
  BY <1>1, <1>2, CallsAlone

-----------------------------------------------------------------------------
(* The specification.                                                      *)

LEMMA Initially ==
    ASSUME Init
    PROVE  Locks /\ Proper
<1>1. \A t \in Threads : stack[t] = <<>>
  BY DEF Init
<1>2. \A t \in Threads : Len(stack[t]) = 0 /\ stack[t] \in Seq(FrameTypes)
  <2>1. Len(<<>>) = 0 /\ <<>> \in Seq(FrameTypes)
    BY EmptySeq
  <2>2. QED
    BY <1>1, <2>1
<1>3. \A t \in Threads : \A g, K : ~Has(stack[t], g, K) /\ Alone(stack[t], g, K)
  BY <1>2 DEF Has, Alone
<1>4. OtherTypes
  <2>1. /\ bug \in [Gens -> {"none", "attached", "closed"}]
        /\ closing \in [Gens -> BOOLEAN] /\ pointer \in [Gens -> BOOLEAN]
        /\ mutex \in [Gens -> {Free, Dead} \cup Threads]
        /\ streamer \in [Gens -> {"none", "running", "finishing", "deleted"}]
        /\ slot \in [Gens -> BOOLEAN]
    BY DEF Init
  <2>2. /\ private \in Gens \cup {None} /\ strayed \in BOOLEAN
        /\ reading \in BOOLEAN /\ hungUp \in BOOLEAN
    BY DEF Init
  <2>3. started \in 0 .. MaxGen /\ commands \in 0 .. MaxCommands /\ errors \in 0 .. MaxErrors
    BY ThreadsAre DEF Init
  <2>4. QED
    BY <2>1, <2>2, <2>3 DEF OtherTypes
<1>5. TypeOK
  <2>1. stack \in [Threads -> Seq(FrameTypes)]
    BY <1>2 DEF Init
  <2>2. QED
    BY <1>4, <2>1, TypesAre
<1>6. Shape
  BY <1>1, ThreadsAre DEF Init, Shape, IsStack, None
<1>7. Held /\ Live
  BY <1>3, ThreadsAre DEF Held, Live, Init
<1>8. Once
  <2>1. \A g \in Gens : mutex[g] = Free /\ ~closing[g]
    BY DEF Init
  <2>2. QED
    BY <1>3, <2>1, ThreadsAre DEF Once, OnceOf
<1>9. CanBeStopped
  BY DEF Init, CanBeStopped
<1>10. QED
  BY <1>5, <1>6, <1>7, <1>8, <1>9 DEF Locks, Proper

LEMMA Step ==
    ASSUME Locks, [Next]_vars
    PROVE  Locks' /\ ("pause" \in Commands \/ (Proper => Proper'))
<1>1. ASSUME NEW t \in Api, Command(t) \/ Running(t)
      PROVE  Locks' /\ ("pause" \in Commands \/ (Proper => Proper'))
  BY <1>1, CommandStep, StartStep, CreateStep, AddBugStep, PublishStep, SendTextStep,
     ReadPointerStep, UseStep, FindToPauseStep, LoadFlagsStep, StoreFlagsStep DEF Running
<1>2. ASSUME NEW t \in Threads, Teardown(t)
      PROVE  Locks' /\ (Proper => Proper')
  BY <1>2, FindStep, ClearStep, LockStep, DecideStep, ClaimStep, RemoveBugStep, FinishStep,
     CloseOwnBugStep, TryLockStep, WipeStep DEF Teardown
<1>3. ASSUME MediaThread
      PROVE  Locks' /\ (Proper => Proper')
  BY <1>3, MediaCallbackStep, PruneStep, FrameStartsStep, FrameCrashesStep, FrameWritesStep
     DEF MediaThread
<1>4. ASSUME Hangup \/ HangupCloses
      PROVE  Locks' /\ (Proper => Proper')
  BY <1>4, HangupStep, HangupClosesStep
<1>5. ASSUME NEW g \in Gens, WebSocketError(g) \/ Delete(g)
      PROVE  Locks' /\ (Proper => Proper')
  BY <1>5, WebSocketErrorStep, DeleteStep
<1>6. ASSUME UNCHANGED vars
      PROVE  Locks' /\ (Proper => Proper')
  BY <1>6, StutterStep
<1>7. QED
  BY <1>1, <1>2, <1>3, <1>4, <1>5, <1>6 DEF Next

\* The media thread is at "write" with a stream only while that has its streamer.
LEMMA WritesAreLive ==
    ASSUME Locks
    PROVE  FramesGoToLiveStreamer
<1>1. SUFFICES ASSUME At(Media, "write") PROVE streamer[Gen(Media)] = "running"
  BY DEF FramesGoToLiveStreamer
<1>2. Has(stack[Media], Gen(Media), Writes)
  <2>1. "write" \in Writes
    BY DEF Writes
  <2>2. QED
    BY <1>1, <2>1, HasTop, ThreadsAre
<1>3. Gen(Media) \in Gens
  <2>1. stack[Media] # <<>> /\ Head(stack[Media]).at = "write" /\ TypeOK /\ Shape
    BY <1>1 DEF At, Locks
  <2>2. Head(stack[Media]) \in Frames
    BY <2>1, StackOf, ThreadsAre
  <2>3. QED
    BY <2>1, <2>2 DEF Frames, Streamed, Gen
<1>4. QED
  BY <1>2, <1>3 DEF Locks, Live

\* The threads that tear a stream down are none, or the one that claimed it.
LEMMA OnceIsOnce ==
    ASSUME Locks, Once
    PROVE  TornDownOnce
<1>1. SUFFICES ASSUME NEW g \in Gens
               PROVE  Cardinality(TearingDown(g)) + (IF mutex[g] = Dead THEN 1 ELSE 0)
                          = (IF closing[g] THEN 1 ELSE 0)
  BY DEF TornDownOnce, Locks
<1>2. OnceOf(g)
  BY DEF Once
<1>3. TearingDown(g) = {t \in Threads : Has(stack[t], g, Tear)}
  BY DEF TearingDown, Has, Tear
<1>4. closing[g] \in BOOLEAN
  BY DEF Locks, TypeOK
<1>5. CASE \E t \in Threads : Has(stack[t], g, Tear)
  <2>1. PICK t \in Threads : Has(stack[t], g, Tear)
    BY <1>5
  <2>2. TearingDown(g) = {t} /\ closing[g] /\ mutex[g] # Dead
    BY <1>2, <1>3, <2>1 DEF OnceOf
  <2>3. Cardinality({t}) = 1
    BY FS_Singleton
  <2>4. QED
    BY <2>2, <2>3
<1>6. CASE ~ \E t \in Threads : Has(stack[t], g, Tear)
  <2>1. TearingDown(g) = {}
    BY <1>3, <1>6
  <2>2. Cardinality({}) = 0
    BY FS_EmptySet
  <2>3. mutex[g] = Dead <=> closing[g]
    BY <1>2, <1>6 DEF OnceOf
  <2>4. QED
    BY <1>4, <2>1, <2>2, <2>3
<1>7. QED
  BY <1>5, <1>6

LEMMA LocksAlways == Spec => []Locks
<1>1. Init => Locks
  BY Initially
<1>2. Locks /\ [Next]_vars => Locks'
  BY Step
<1>3. QED
  BY <1>1, <1>2, PTL DEF Spec

\* What is true of a behaviour without a pause.
Orderly == "pause" \notin Commands /\ IInv

LEMMA OrderlyAlways == "pause" \notin Commands /\ Spec => []Orderly
<1>1. "pause" \notin Commands /\ Init => Orderly
  BY Initially DEF Orderly, IInv, Proper
<1>2. Orderly /\ [Next]_vars => Orderly'
  BY Step DEF Orderly, IInv, Proper
<1>3. QED
  BY <1>1, <1>2, PTL DEF Spec

\* Every variable has its type, whatever the threads, the commands and the streams.
THEOREM TypeCorrect == Spec => []TypeOK
<1>1. Locks => TypeOK
  BY DEF Locks
<1>2. QED
  BY <1>1, LocksAlways, PTL

\* stream_frame() writes only to an AudioStreamer that nobody has finished: between its
\* lock and its unlock no finish() runs, whoever stops, hangs up or reports an error, and
\* even when a pause has undone close_requested.
THEOREM FramesReachLiveStreamer == Spec => []FramesGoToLiveStreamer
BY WritesAreLive, LocksAlways, PTL

\* close_requested is set once, and one thread then tears the stream down and destroys its
\* mutex, however many stops, hangups, pruned bugs and errors meet; as long as no pause or
\* resume writes the flags next to it back.
THEOREM OneTeardownOnly == "pause" \notin Commands /\ Spec => []TornDownOnce
<1>1. Orderly => TornDownOnce
  BY OnceIsOnce DEF Orderly, IInv
<1>2. QED
  BY <1>1, OrderlyAlways, PTL

\* A stream with an attached bug that nobody tears down is named by the channel's private,
\* or a thread is about to publish it or to tear it down, unless the private was replaced
\* or cleared for another stream.
THEOREM StreamsCanBeStopped == "pause" \notin Commands /\ Spec => []CanBeStopped
<1>1. Orderly => CanBeStopped
  BY DEF Orderly, IInv
<1>2. QED
  BY <1>1, OrderlyAlways, PTL

-----------------------------------------------------------------------------
(* The teardown that StreamTeardown promises.  The media thread writes     *)
(* when its innermost call does; the state of a stream changes with the    *)
(* end of its mutex, close_requested and the start of its streamer.        *)

\* A streamer runs from the start of its stream until it is unhooked; a stream to come is
\* neither claimed nor gone.
Staged ==
    \A g \in Gens :
        /\ streamer[g] = "running" => pointer[g]
        /\ streamer[g] = "none" <=> g > started
        /\ g > started => ~closing[g] /\ mutex[g] # Dead

WriteTop(s) == s # <<>> /\ Head(s).at = "write"

LEMMA WritingKept ==
    ASSUME TypeOK, NEW t \in Threads, NEW new, Turn(t, new), ~WriteTop(stack[t]), ~WriteTop(new)
    PROVE  Writing' = Writing
<1>1. stack'[t] = new /\ \A u \in Threads : u # t => stack'[u] = stack[u]
  BY DEF Turn, TypeOK
<1>2. CASE t = Media
  BY <1>1, <1>2 DEF Writing, At, WriteTop
<1>3. CASE t # Media
  BY <1>1, <1>3, ThreadsAre DEF Writing, At, Gen
<1>4. QED
  BY <1>2, <1>3

LEMMA OtherTop ==
    ASSUME NEW f \in FrameTypes, NEW r \in Seq(FrameTypes), f.at # "write"
    PROVE  ~WriteTop(<<f>> \o r)
BY Cons DEF WriteTop

LEMMA RestingTop ==
    ASSUME NEW r \in Seq(Resting)
    PROVE  ~WriteTop(r)
<1>1. r # <<>> => Head(r) \in Resting
  BY Uncons
<1>2. QED
  BY <1>1 DEF WriteTop, Resting

LEMMA WritingGoto ==
    ASSUME Locks, NEW t \in Threads, NEW l0, At(t, l0), l0 # "write",
           NEW l \in Labels, l # "write", Goto(t, l)
    PROVE  Writing' = Writing
<1> DEFINE h == Head(stack[t])
           f == [h EXCEPT !.at = l]
           r == Tail(stack[t])
<1>1. TypeOK /\ Shape /\ stack[t] # <<>> /\ h.at = l0
  BY DEF Locks, At
<1>2. h \in FrameTypes /\ r \in Seq(FrameTypes)
  BY <1>1, StackOf
<1>3. Turn(t, <<f>> \o r)
  BY <1>1 DEF Goto, Turn, TypeOK
<1> HIDE DEF r, h
<1>4. f \in FrameTypes /\ f.at = l
  BY <1>2 DEF FrameTypes
<1> HIDE DEF f
<1>5. ~WriteTop(stack[t]) /\ ~WriteTop(<<f>> \o r)
  BY <1>1, <1>2, <1>4, OtherTop DEF WriteTop, h
<1>6. QED
  BY <1>1, <1>3, <1>5, WritingKept

LEMMA WritingBecome ==
    ASSUME Locks, NEW t \in Threads, NEW l0, At(t, l0), l0 # "write",
           NEW l \in Labels, l # "write", NEW g \in Gens \cup {None}, NEW w \in Why,
           Become(t, Frame(l, g, w))
    PROVE  Writing' = Writing
<1> DEFINE f == Frame(l, g, w)
           r == Tail(stack[t])
<1>1. TypeOK /\ Shape /\ stack[t] # <<>> /\ Head(stack[t]).at = l0
  BY DEF Locks, At
<1>2. r \in Seq(FrameTypes)
  BY <1>1, StackOf
<1>3. Turn(t, <<f>> \o r)
  BY <1>1 DEF Become, Turn, TypeOK
<1>4. f \in FrameTypes /\ f.at = l
  BY DEF FrameTypes, Frame
<1> HIDE DEF f, r
<1>5. ~WriteTop(stack[t]) /\ ~WriteTop(<<f>> \o r)
  BY <1>1, <1>2, <1>4, OtherTop DEF WriteTop
<1>6. QED
  BY <1>1, <1>3, <1>5, WritingKept

LEMMA WritingReturn ==
    ASSUME Locks, NEW t \in Threads, NEW l0, At(t, l0), l0 # "write", Return(t)
    PROVE  Writing' = Writing
<1>1. TypeOK /\ Shape /\ stack[t] # <<>> /\ Head(stack[t]).at = l0
  BY DEF Locks, At
<1>2. Tail(stack[t]) \in Seq(Resting)
  BY <1>1, StackOf
<1>3. Turn(t, Tail(stack[t]))
  BY <1>1 DEF Return, Turn, TypeOK
<1>4. ~WriteTop(stack[t]) /\ ~WriteTop(Tail(stack[t]))
  BY <1>1, <1>2, RestingTop DEF WriteTop
<1>5. QED
  BY <1>1, <1>3, <1>4, WritingKept

LEMMA WritingEnter ==
    ASSUME Locks, NEW t \in Threads, stack[t] = <<>>, NEW l \in Labels, l # "write",
           NEW g \in Gens \cup {None}, NEW w \in Why, Enter(t, Frame(l, g, w))
    PROVE  Writing' = Writing
<1> DEFINE f == Frame(l, g, w)
<1>1. TypeOK
  BY DEF Locks
<1>2. <<>> \in Seq(FrameTypes)
  BY EmptySeq
<1>3. Turn(t, <<f>> \o <<>>)
  BY <1>1 DEF Enter, Turn, TypeOK
<1>4. f \in FrameTypes /\ f.at = l
  BY DEF FrameTypes, Frame
<1> HIDE DEF f
<1>5. ~WriteTop(stack[t]) /\ ~WriteTop(<<f>> \o <<>>)
  BY <1>2, <1>4, OtherTop DEF WriteTop
<1>6. QED
  BY <1>1, <1>3, <1>5, WritingKept

LEMMA WritingClose ==
    ASSUME Locks, NEW t \in Threads, NEW l0, At(t, l0), l0 # "write",
           NEW g, NEW rest \in Seq(FrameTypes), ~WriteTop(rest), CloseBug(t, g, rest)
    PROVE  Writing' = Writing
<1> DEFINE c == CloseCallback(g)
<1>1. TypeOK /\ ~WriteTop(stack[t])
  BY DEF Locks, At, WriteTop
<1>2. c \in FrameTypes /\ c.at = "find"
  BY DEF CloseCallback, Frame, FrameTypes, Labels, Why
<1>3. \E new \in {rest, <<c>> \o rest} : Turn(t, new)
  BY DEF CloseBug, Turn
<1> HIDE DEF c
<1>4. ~WriteTop(<<c>> \o rest)
  BY <1>2, OtherTop
<1>5. QED
  BY <1>1, <1>3, <1>4, WritingKept

\* What is left to do after a bug is closed.
LEMMA OnwardsTop ==
    ASSUME Locks, NEW t \in Threads, stack[t] # <<>>
    PROVE  /\ Calling(t) \in Seq(FrameTypes) /\ ~WriteTop(Calling(t))
           /\ \A l \in Labels : OnwardsAt(t, l) \in Seq(FrameTypes)
                                /\ (l # "write" => ~WriteTop(OnwardsAt(t, l)))
<1> DEFINE h == Head(stack[t])
           r == Tail(stack[t])
<1>1. h \in FrameTypes /\ r \in Seq(FrameTypes) /\ r \in Seq(Resting)
  BY StackOf DEF Locks
<1>2. ASSUME NEW l \in Labels
      PROVE  OnwardsAt(t, l) \in Seq(FrameTypes) /\ (l # "write" => ~WriteTop(OnwardsAt(t, l)))
  <2> DEFINE f == [h EXCEPT !.at = l]
  <2>1. OnwardsAt(t, l) = <<f>> \o r
    BY DEF OnwardsAt
  <2> HIDE DEF h, r
  <2>2. f \in FrameTypes /\ f.at = l
    BY <1>1 DEF FrameTypes
  <2> HIDE DEF f
  <2>3. QED
    BY <1>1, <2>1, <2>2, Cons, OtherTop
<1>3. QED
  BY <1>1, <1>2, RestingTop DEF Calling

\* A step that leaves the promised teardown where it is.
Unseen ==
    /\ UNCHANGED <<closing, pointer, streamer, slot, started>>
    /\ \A g \in Gens : mutex'[g] = Dead <=> mutex[g] = Dead
    /\ Writing' = Writing

\* What a step shows of a stream.
LEMMA StateIs ==
    /\ \A g \in Gens :
          State[g] = IF mutex[g] = Dead THEN "gone" ELSE IF closing[g] THEN "claimed"
                     ELSE IF streamer[g] = "none" THEN "off" ELSE "on"
    /\ \A g \in Gens :
          State'[g] = IF mutex'[g] = Dead THEN "gone" ELSE IF closing'[g] THEN "claimed"
                      ELSE IF streamer'[g] = "none" THEN "off" ELSE "on"
    /\ DOMAIN State = Gens /\ DOMAIN State' = Gens
    /\ State = [g \in Gens |-> State[g]] /\ State' = [g \in Gens |-> State'[g]]
BY DEF State

\* A step that gives one stream another state.
LEMMA StateMoves ==
    ASSUME NEW g \in Gens, NEW to, State'[g] = to, \A k \in Gens : k # g => State'[k] = State[k]
    PROVE  State' = [State EXCEPT ![g] = to]
<1>1. \A k \in Gens : State'[k] = [State EXCEPT ![g] = to][k]
  BY StateIs
<1>2. State' = [k \in Gens |-> State'[k]]
  BY StateIs
<1>3. QED
  BY <1>1, <1>2, StateIs

LEMMA StateStays ==
    ASSUME \A k \in Gens : State'[k] = State[k]
    PROVE  State' = State
BY StateIs

LEMMA UnseenImplements ==
    ASSUME Staged, Unseen
    PROVE  Staged' /\ UNCHANGED Promised!teardownVars
<1>1. \A g \in Gens : State'[g] = State[g]
  BY StateIs DEF Unseen
<1>2. State' = State
  BY <1>1, StateStays
<1>3. Staged'
  BY DEF Staged, Unseen
<1>4. QED
  BY <1>2, <1>3 DEF Unseen, Promised!teardownVars

LEMMA ApiUnseen ==
    ASSUME Locks, NEW t \in Api,
           \/ Command(t) \/ Start(t) \/ AddBug(t) \/ Publish(t) \/ SendText(t)
           \/ ReadPointer(t) \/ Use(t) \/ FindToPause(t) \/ LoadFlags(t)
    PROVE  Unseen
<1>1. UNCHANGED <<closing, pointer, streamer, slot, started, mutex>>
  BY DEF Command, Start, AddBug, Publish, SendText, ReadPointer, Use, FindToPause, LoadFlags,
         stream, counters
<1>2. t \in Threads /\ None \in Gens \cup {None} /\ private \in Gens \cup {None}
  BY ThreadsAre DEF Locks, TypeOK
<1>3. /\ {"start", "create", "publish", "read pointer", "use", "text", "pause", "load flags",
          "store closing", "store open", "find"} \subseteq Labels
      /\ {"command", "stop"} \subseteq Why
  BY DEF Labels, Why
<1>4. Writing' = Writing
  <2>1. CASE Command(t)
    BY <1>2, <1>3, <2>1, WritingEnter DEF Command
  <2>2. CASE Start(t)
    BY <1>2, <1>3, <2>2, WritingReturn, WritingGoto DEF Start
  <2>3. CASE AddBug(t)
    BY <1>2, <1>3, <2>3, WritingGoto, WritingBecome DEF AddBug
  <2>4. CASE Publish(t)
    BY <1>2, <1>3, <2>4, WritingGoto DEF Publish
  <2>5. CASE SendText(t)
    BY <1>2, <1>3, <2>5, WritingReturn, WritingBecome DEF SendText
  <2>6. CASE ReadPointer(t)
    BY <1>2, <1>3, <2>6, WritingReturn, WritingGoto DEF ReadPointer
  <2>7. CASE Use(t)
    BY <1>2, <1>3, <2>7, WritingReturn DEF Use
  <2>8. CASE FindToPause(t)
    BY <1>2, <1>3, <2>8, WritingReturn, WritingBecome DEF FindToPause
  <2>9. CASE LoadFlags(t)
    BY <1>2, <1>3, <2>9, WritingGoto DEF LoadFlags
  <2>10. QED
    BY <2>1, <2>2, <2>3, <2>4, <2>5, <2>6, <2>7, <2>8, <2>9
<1>5. QED
  BY <1>1, <1>4 DEF Unseen

\* Locking and unlocking a mutex does not bring it back.
LEMMA UnlockedIs ==
    ASSUME TypeOK, NEW t \in Threads, NEW g \in Gens
    PROVE  \A k \in Gens : /\ Unlocked(t, g)[k] = Dead <=> mutex[k] = Dead
                           /\ [mutex EXCEPT ![g] = IF @ = Free THEN t ELSE @][k] = Dead
                                 <=> mutex[k] = Dead
BY ThreadsAre DEF Unlocked, TypeOK

LEMMA StreamAt ==
    ASSUME Locks, NEW t \in Threads, NEW l0 \in Streamed, At(t, l0)
    PROVE  Gen(t) \in Gens /\ Gen(t) <= started
<1>1. TypeOK /\ Shape /\ stack[t] # <<>> /\ Head(stack[t]).at = l0
  BY DEF Locks, At
<1>2. Head(stack[t]) \in Frames /\ started \in Nat
  BY <1>1, StackOf, FramesAre
<1>3. Gen(t) \in Gens /\ Gen(t) \in 0 .. started
  BY <1>1, <1>2 DEF Frames, Gen
<1>4. QED
  BY <1>2, <1>3

LEMMA TeardownUnseen ==
    ASSUME Locks, NEW t \in Threads,
           \/ Find(t) \/ Clear(t) \/ Lock(t) \/ Decide(t) \/ RemoveBug(t)
           \/ CloseOwnBug(t) \/ TryLock(t)
    PROVE  Unseen
<1>1. UNCHANGED <<closing, pointer, streamer, slot, started>>
  BY DEF Find, Clear, Lock, Decide, RemoveBug, CloseOwnBug, TryLock, stream, counters
<1>2. /\ TypeOK /\ private \in Gens \cup {None}
      /\ {"lock", "clear", "decide", "remove only", "claim", "finish", "destroy", "retry"}
            \subseteq Labels
      /\ {"lock", "decide"} \subseteq Streamed
  BY DEF Locks, TypeOK, Labels, Streamed
<1>3. \A g \in Gens : mutex'[g] = Dead <=> mutex[g] = Dead
  <2>1. CASE Lock(t)
    <3>1. Gen(t) \in Gens
      BY <1>2, <2>1, StreamAt DEF Lock
    <3>2. QED
      BY <1>2, <2>1, <3>1, UnlockedIs DEF Lock
  <2>2. CASE Decide(t)
    <3>1. Gen(t) \in Gens
      BY <1>2, <2>2, StreamAt DEF Decide
    <3>2. mutex' = Unlocked(t, Gen(t)) \/ mutex' = mutex
      BY <2>2 DEF Decide
    <3>3. CASE mutex' = Unlocked(t, Gen(t))
      BY <1>2, <3>1, <3>3, UnlockedIs, Zenon
    <3>4. QED
      BY <3>2, <3>3
  <2>3. CASE Find(t) \/ Clear(t) \/ RemoveBug(t) \/ CloseOwnBug(t) \/ TryLock(t)
    BY <2>3 DEF Find, Clear, RemoveBug, CloseOwnBug, TryLock, stream
  <2>4. QED
    BY <2>1, <2>2, <2>3
<1>4. Writing' = Writing
  <2>1. CASE Find(t)
    <3>1. At(t, "find") /\ (Return(t) \/ \E l \in {"lock", "clear"} :
                                              Become(t, Frame(l, private, By(t))))
      BY <2>1 DEF Find
    <3>2. By(t) \in Why
      BY <3>1, StackOf DEF Locks, Frames, At, By
    <3>3. QED
      BY <1>2, <3>1, <3>2, WritingReturn, WritingBecome
  <2>2. CASE Clear(t)
    BY <1>2, <2>2, WritingGoto DEF Clear
  <2>3. CASE Lock(t)
    BY <1>2, <2>3, WritingGoto DEF Lock
  <2>4. CASE Decide(t)
    BY <1>2, <2>4, WritingReturn, WritingGoto DEF Decide
  <2>5. CASE RemoveBug(t)
    <3>1. CASE At(t, "remove") /\ CloseBug(t, Gen(t), OnwardsAt(t, "finish"))
      BY <1>2, <3>1, OnwardsTop, WritingClose DEF At
    <3>2. CASE At(t, "remove only") /\ CloseBug(t, Gen(t), Calling(t))
      BY <1>2, <3>2, OnwardsTop, WritingClose DEF At
    <3>3. QED
      BY <2>5, <3>1, <3>2 DEF RemoveBug
  <2>6. CASE CloseOwnBug(t)
    <3>1. At(t, "close bug") /\ CloseBug(t, Gen(t), OnwardsAt(t, "destroy"))
      BY <2>6 DEF CloseOwnBug
    <3>2. QED
      BY <1>2, <3>1, OnwardsTop, WritingClose DEF At
  <2>7. CASE TryLock(t)
    BY <1>2, <2>7, WritingGoto DEF TryLock
  <2>8. QED
    BY <2>1, <2>2, <2>3, <2>4, <2>5, <2>6, <2>7
<1>5. QED
  BY <1>1, <1>3, <1>4 DEF Unseen

LEMMA OthersUnseen ==
    ASSUME Locks,
           \/ \E g \in Gens : MediaCallback(g) \/ WebSocketError(g)
           \/ Prune \/ FrameCrashes \/ Hangup \/ HangupCloses
    PROVE  Unseen
<1>1. UNCHANGED <<closing, pointer, streamer, slot, started, mutex>>
  BY DEF MediaCallback, WebSocketError, Prune, FrameCrashes, Hangup, HangupCloses,
         stream, counters
<1>2. /\ None \in Gens \cup {None} /\ {"frame", "hangup", "error"} \subseteq Why
      /\ {"prune", "frame lock", "crash", "find", "hang up"} \subseteq Labels
      /\ Media \in Threads /\ Session \in Threads
  BY ThreadsAre DEF Labels, Why
<1>3. Writing' = Writing
  <2>1. ASSUME NEW g \in Gens, MediaCallback(g) PROVE Writing' = Writing
    <3>1. /\ stack[Media] = <<>>
          /\ \E l \in {"prune", "frame lock"} : Enter(Media, Frame(l, g, "frame"))
      BY <2>1 DEF MediaCallback
    <3>2. QED
      BY <1>2, <3>1, WritingEnter
  <2>2. ASSUME NEW g \in Gens, WebSocketError(g) PROVE Writing' = Writing
    BY <1>2, <2>2, ThreadsAre, WritingEnter DEF WebSocketError
  <2>3. CASE Prune
    <3>1. At(Media, "prune") /\ CloseBug(Media, Gen(Media), Calling(Media))
      BY <2>3 DEF Prune
    <3>2. QED
      BY <1>2, <3>1, OnwardsTop, WritingClose DEF At
  <2>4. CASE FrameCrashes
    BY <1>2, <2>4, WritingGoto DEF FrameCrashes
  <2>5. CASE Hangup
    <3>1. stack[Session] = <<>>
      BY <2>5 DEF Hangup, Locks, Shape
    <3>2. QED
      BY <1>2, <2>5, <3>1, WritingEnter DEF Hangup
  <2>6. CASE HangupCloses
    <3>1. /\ At(Session, "hang up")
          /\ \/ Return(Session)
             \/ \E g \in Gens : CloseBug(Session, g, OnwardsAt(Session, "hang up"))
      BY <2>6 DEF HangupCloses
    <3>2. QED
      BY <1>2, <3>1, OnwardsTop, WritingReturn, WritingClose DEF At
  <2>7. QED
    BY <2>1, <2>2, <2>3, <2>4, <2>5, <2>6
<1>4. QED
  BY <1>1, <1>3 DEF Unseen

-----------------------------------------------------------------------------
(* The steps that StreamTeardown sees.                                     *)

LEMMA CreateImplements ==
    ASSUME Locks, Staged, NEW t \in Api, Create(t)
    PROVE  Staged' /\ \E g \in Gens : Promised!Open(g)
<1> DEFINE g == started + 1
<1>1. /\ At(t, "create") /\ started < MaxGen /\ started' = g
      /\ streamer' = [streamer EXCEPT ![g] = "running"]
      /\ pointer' = [pointer EXCEPT ![g] = TRUE]
      /\ \/ slot' = [slot EXCEPT ![g] = TRUE] /\ Become(t, Frame("add bug", g, "command"))
         \/ Return(t) /\ slot' = slot
      /\ closing' = closing /\ mutex' = mutex
  BY DEF Create, NewStreamer
<1>2. TypeOK /\ started \in Nat /\ MaxGen \in Nat /\ t \in Threads
  BY ThreadsAre, FramesAre DEF Locks
<1>3. g \in Gens /\ g > started /\ \A k \in Gens : k # g => (k > g <=> k > started)
  <2>1. started < MaxGen /\ started \in Nat /\ MaxGen \in Nat
    BY <1>1, <1>2
  <2>2. QED
    BY <2>1 DEF Gens
<1>4. Writing' = Writing
  <2>1. "add bug" \in Labels /\ "command" \in Why
    BY DEF Labels, Why
  <2> HIDE DEF g
  <2>2. QED
    BY <1>1, <1>2, <1>3, <2>1, WritingBecome, WritingReturn
<1>5. /\ streamer[g] = "none" /\ ~closing[g] /\ mutex[g] # Dead
      /\ streamer'[g] = "running" /\ pointer'[g]
      /\ \A k \in Gens : k # g => streamer'[k] = streamer[k] /\ pointer'[k] = pointer[k]
  <2> HIDE DEF g
  <2>1. QED
    BY <1>1, <1>2, <1>3 DEF Staged, TypeOK
<1>6. \E counted \in BOOLEAN : slot' = [slot EXCEPT ![g] = counted]
  <2> HIDE DEF g
  <2>1. slot[g] \in BOOLEAN /\ slot = [slot EXCEPT ![g] = slot[g]]
    BY <1>2, <1>3 DEF TypeOK
  <2>2. QED
    BY <1>1, <2>1
<1>7. started' = g /\ ~(g > started')
  <2>1. started' = g
    BY <1>1
  <2>2. g \in Nat
    BY <1>2
  <2> HIDE DEF g
  <2>3. QED
    BY <2>1, <2>2
<1> HIDE DEF g
<1>8. Staged'
  BY <1>1, <1>3, <1>5, <1>7 DEF Staged
<1>9. State[g] = "off" /\ State' = [State EXCEPT ![g] = "on"]
  <2>1. State[g] = "off" /\ State'[g] = "on" /\ \A k \in Gens : k # g => State'[k] = State[k]
    <3>1. closing' = closing /\ mutex' = mutex
      BY <1>1
    <3>2. State[g] = "off" /\ State'[g] = "on"
      BY <1>3, <1>5, <3>1, StateIs
    <3>3. \A k \in Gens : k # g => State'[k] = State[k]
      BY <1>5, <3>1, StateIs
    <3>4. QED
      BY <3>2, <3>3
  <2>2. QED
    BY <1>3, <2>1, StateMoves
<1>10. Promised!Open(g)
  BY <1>1, <1>4, <1>5, <1>6, <1>9 DEF Promised!Open, Promised!Moves
<1>11. QED
  BY <1>3, <1>8, <1>10

\* close_requested is set with the mutex held, so that no frame is written.
LEMMA ClaimImplements ==
    ASSUME Locks, Once, Staged, NEW t \in Threads, Claim(t)
    PROVE  Staged' /\ \E g \in Gens : Promised!Claim(g)
<1> DEFINE g == Gen(t)
<1>1. /\ At(t, "claim") /\ closing' = [closing EXCEPT ![g] = TRUE]
      /\ \E l \in {"remove", "finish"} : Goto(t, l)
      /\ UNCHANGED <<pointer, mutex, streamer, slot, started>>
  BY DEF Claim, counters
<1>2. TypeOK /\ "claim" \in Streamed /\ {"remove", "finish"} \subseteq Labels
  BY DEF Locks, Streamed, Labels
<1>3. g \in Gens /\ g <= started /\ started \in Nat /\ g \in Nat
  BY <1>1, <1>2, StreamAt, FramesAre DEF Gens
<1>4. ~closing[g] /\ mutex[g] = t
  <2>1. Has(stack[t], g, Claims) /\ Has(stack[t], g, Hold)
    BY <1>1, HasTop DEF Claims, Hold
  <2>2. ~closing[g] /\ mutex[g] # Dead
    BY <1>3, <2>1 DEF Once, OnceOf
  <2>3. QED
    BY <1>3, <2>1, <2>2 DEF Locks, Held
<1>5. g \notin Writing
  <2>1. SUFFICES ASSUME At(Media, "write"), Gen(Media) = g PROVE FALSE
    BY DEF Writing
  <2>2. Has(stack[Media], g, Writes)
    BY <2>1, HasTop, ThreadsAre DEF Writes
  <2>3. mutex[g] = Media
    BY <1>3, <2>2 DEF Locks, Live
  <2>4. QED
    BY <1>1, <1>4, <2>1, <2>3 DEF At
<1>6. Writing' = Writing
  BY <1>1, <1>2, WritingGoto
<1>7. closing'[g] /\ \A k \in Gens : k # g => closing'[k] = closing[k]
  BY <1>1, <1>2, <1>3 DEF TypeOK
<1>8. streamer[g] # "none" /\ mutex[g] # Dead
  BY <1>3, <1>4, ThreadsAre DEF Staged
<1> HIDE DEF g
<1>9. Staged'
  BY <1>1, <1>3, <1>7 DEF Staged
<1>10. State[g] = "on" /\ State' = [State EXCEPT ![g] = "claimed"]
  <2>1. State[g] = "on" /\ State'[g] = "claimed"
        /\ \A k \in Gens : k # g => State'[k] = State[k]
    BY <1>1, <1>3, <1>4, <1>7, <1>8, StateIs
  <2>2. QED
    BY <1>3, <2>1, StateMoves
<1>11. Promised!Claim(g)
  BY <1>1, <1>5, <1>6, <1>10 DEF Promised!Claim, Promised!Moves
<1>12. QED
  BY <1>3, <1>9, <1>11

\* A thread that tears a stream down has claimed it, and it is not gone.
LEMMA TearingIs ==
    ASSUME Locks, Once, NEW t \in Threads, NEW l0 \in Tear, At(t, l0)
    PROVE  LET g == Gen(t) IN
           /\ g \in Gens /\ g <= started /\ closing[g] /\ mutex[g] # Dead
           /\ State[g] = "claimed"
           /\ l0 \in Done => ~pointer[g]
<1> DEFINE g == Gen(t)
<1>1. l0 \in Streamed
  BY DEF Streamed, Tear
<1>2. g \in Gens /\ g <= started
  BY <1>1, StreamAt
<1>3. Has(stack[t], g, Tear) /\ (l0 \in Done => Has(stack[t], g, Done))
  BY HasTop
<1>4. closing[g] /\ mutex[g] # Dead /\ (l0 \in Done => ~pointer[g])
  BY <1>2, <1>3 DEF Once, OnceOf, Locks, Live
<1>5. QED
  BY <1>2, <1>4, StateIs

LEMMA FinishImplements ==
    ASSUME Locks, Once, Staged, NEW t \in Threads, Finish(t)
    PROVE  /\ Staged'
           /\ (\E g \in Gens : Promised!Unhook(g)) \/ UNCHANGED Promised!teardownVars
<1> DEFINE g == Gen(t)
<1>1. /\ At(t, "finish") /\ mutex' = Unlocked(t, g)
      /\ IF pointer[g] THEN /\ pointer' = [pointer EXCEPT ![g] = FALSE]
                            /\ streamer' = [streamer EXCEPT ![g] = "finishing"]
         ELSE pointer' = pointer /\ streamer' = streamer
      /\ \E l \in {"close bug", "destroy"} : Goto(t, l)
      /\ UNCHANGED <<closing, slot, started>>
  BY DEF Finish
<1>2. TypeOK /\ "finish" \in Tear /\ {"close bug", "destroy"} \subseteq Labels
  BY DEF Locks, Tear, Labels
<1>3. g \in Gens /\ g <= started /\ State[g] = "claimed"
      /\ started \in Nat /\ g \in Nat
  <2>1. At(t, "finish")
    BY <1>1
  <2>2. g \in Gens /\ g <= started /\ State[g] = "claimed"
    BY <1>2, <2>1, TearingIs
  <2>3. started \in Nat
    BY <1>2, FramesAre
  <2>4. g \in Nat
    BY <2>2 DEF Gens
  <2>5. QED
    BY <2>2, <2>3, <2>4
<1> HIDE DEF g
<1>4. Writing' = Writing
  BY <1>1, <1>2, WritingGoto
<1>5. \A k \in Gens : mutex'[k] = Dead <=> mutex[k] = Dead
  BY <1>1, <1>2, <1>3, UnlockedIs, Zenon
<1>6. CASE pointer[g]
  <2>1. streamer[g] = "running"
    BY <1>3, <1>6 DEF Locks, Live
  <2>2. /\ streamer'[g] = "finishing" /\ ~pointer'[g]
        /\ \A k \in Gens : k # g => streamer'[k] = streamer[k] /\ pointer'[k] = pointer[k]
    BY <1>1, <1>2, <1>3, <1>6 DEF TypeOK
  <2>3. Staged'
    <3>1. closing' = closing /\ started' = started /\ ~(g > started)
      <4>1. started \in Nat /\ g \in Nat /\ g <= started
        BY <1>3
      <4>2. ~(g > started)
        BY <4>1
      <4>3. QED
        BY <1>1, <4>2
    <3>2. \A k \in Gens : streamer'[k] = "running" => pointer'[k]
      BY <2>2 DEF Staged
    <3>3. \A k \in Gens : streamer'[k] = "none" <=> k > started
      BY <2>2, <3>1 DEF Staged
    <3>4. QED
      BY <1>5, <3>1, <3>2, <3>3 DEF Staged
  <2>4. State' = State
    <3>1. \A k \in Gens : State'[k] = State[k]
      <4>1. closing' = closing
        BY <1>1
      <4>2. \A k \in Gens : streamer'[k] = "none" <=> streamer[k] = "none"
        BY <2>1, <2>2
      <4>3. QED
        BY <1>5, <4>1, <4>2, StateIs
    <3>2. QED
      BY <3>1, StateStays
  <2>5. Promised!Unhook(g)
    BY <1>1, <1>3, <1>4, <1>6, <2>1, <2>4 DEF Promised!Unhook
  <2>6. QED
    BY <1>3, <2>3, <2>5
<1>7. CASE ~pointer[g]
  <2>1. Unseen
    BY <1>1, <1>4, <1>5, <1>7 DEF Unseen
  <2>2. QED
    BY <2>1, UnseenImplements
<1>8. QED
  BY <1>6, <1>7

\* When the mutex goes, finish() has unhooked the streamer.
LEMMA WipeImplements ==
    ASSUME Locks, Once, Staged, NEW t \in Threads, Wipe(t)
    PROVE  Staged' /\ \E g \in Gens : Promised!Release(g)
<1> DEFINE g == Gen(t)
<1>1. /\ \E l0 \in {"retry", "destroy"} : At(t, l0)
      /\ pointer' = [pointer EXCEPT ![g] = FALSE]
      /\ streamer' = [streamer EXCEPT ![g] = IF pointer[g] THEN "deleted" ELSE @]
      /\ mutex' = [mutex EXCEPT ![g] = Dead]
      /\ slot' = [slot EXCEPT ![g] = FALSE]
      /\ Return(t) /\ closing' = closing /\ started' = started
  BY DEF Wipe
<1>2. TypeOK /\ {"retry", "destroy"} \subseteq Tear /\ {"retry", "destroy"} \subseteq Done
  BY DEF Locks, Tear, Done
<1>3. g \in Gens /\ g <= started /\ State[g] = "claimed" /\ ~pointer[g]
      /\ started \in Nat /\ g \in Nat
  BY <1>1, <1>2, TearingIs, FramesAre DEF Gens
<1> HIDE DEF g
<1>4. Writing' = Writing
  BY <1>1, WritingReturn
<1>5. streamer' = streamer /\ pointer' = pointer
  BY <1>1, <1>2, <1>3 DEF TypeOK
<1>6. mutex'[g] = Dead /\ \A k \in Gens : k # g => mutex'[k] = mutex[k]
  BY <1>1, <1>2, <1>3 DEF TypeOK
<1>7. Staged'
  BY <1>1, <1>3, <1>5, <1>6 DEF Staged
<1>8. State' = [State EXCEPT ![g] = "gone"]
  <2>1. State'[g] = "gone" /\ \A k \in Gens : k # g => State'[k] = State[k]
    BY <1>1, <1>3, <1>5, <1>6, StateIs
  <2>2. QED
    BY <1>3, <2>1, StateMoves
<1>9. streamer[g] # "running"
  BY <1>3 DEF Staged
<1>10. Promised!Release(g)
  BY <1>1, <1>3, <1>4, <1>5, <1>8, <1>9 DEF Promised!Release, Promised!Moves
<1>11. QED
  BY <1>3, <1>7, <1>10

LEMMA DeleteImplements ==
    ASSUME Locks, Staged, NEW g \in Gens, Delete(g)
    PROVE  Staged' /\ Promised!Delete(g)
<1>1. /\ streamer[g] = "finishing" /\ streamer' = [streamer EXCEPT ![g] = "deleted"]
      /\ UNCHANGED <<stack, closing, pointer, mutex, slot, started>>
  BY DEF Delete
<1>2. streamer'[g] = "deleted" /\ \A k \in Gens : k # g => streamer'[k] = streamer[k]
  BY <1>1 DEF Locks, TypeOK
<1>3. Staged'
  BY <1>1, <1>2 DEF Staged
<1>4. State' = State
  <2>1. \A k \in Gens : State'[k] = State[k]
    BY <1>1, <1>2, StateIs
  <2>2. QED
    BY <2>1, StateStays
<1>5. Writing' = Writing
  BY <1>1 DEF Writing, At, Gen
<1>6. QED
  BY <1>1, <1>3, <1>4, <1>5 DEF Promised!Delete

\* Whoever gets the mutex of a stream that has its streamer finds it unclaimed.
LEMMA UnclaimedIs ==
    ASSUME Locks, Once, NEW g \in Gens, mutex[g] = Free, pointer[g]
    PROVE  ~closing[g]
<1>1. SUFFICES ASSUME closing[g] PROVE FALSE
  OBVIOUS
<1>2. PICK t \in Threads : Has(stack[t], g, Tear)
  BY <1>1, ThreadsAre DEF Once, OnceOf
<1>3. Has(stack[t], g, Hold) \/ Has(stack[t], g, Done)
  BY <1>2 DEF Has, Tear, Hold, Done
<1>4. ~Has(stack[t], g, Hold)
  BY ThreadsAre DEF Locks, Held
<1>5. ~Has(stack[t], g, Done)
  BY DEF Locks, Live
<1>6. QED
  BY <1>3, <1>4, <1>5

LEMMA FrameStartsImplements ==
    ASSUME Locks, Once, Staged, FrameStarts
    PROVE  /\ Staged'
           /\ (\E g \in Gens : Promised!BeginWrite(g)) \/ UNCHANGED Promised!teardownVars
<1> DEFINE g == Gen(Media)
<1>1. /\ At(Media, "frame lock") /\ mutex[g] = Free
      /\ UNCHANGED <<closing, pointer, streamer, slot, started>>
  BY DEF FrameStarts, counters
<1>2. TypeOK /\ Shape /\ "frame lock" \in Streamed /\ Media \in Threads
  BY ThreadsAre DEF Locks, Streamed
<1>3. g \in Gens
  BY <1>1, <1>2, StreamAt
<1>4. CASE pointer[g]
  <2>1. mutex' = [mutex EXCEPT ![g] = Media] /\ Goto(Media, "write")
    BY <1>4 DEF FrameStarts
  <2>2. \A k \in Gens : mutex'[k] = Dead <=> mutex[k] = Dead
    <3> HIDE DEF g
    <3>1. \A k \in Gens : mutex'[k] = IF k = g THEN Media ELSE mutex[k]
      BY <1>2, <1>3, <2>1 DEF TypeOK
    <3>2. QED
      BY <1>1, <3>1, ThreadsAre
  <2>3. Writing = {}
    BY <1>1 DEF Writing, At
  <2>4. Writing' = {g}
    <3> DEFINE h == Head(stack[Media])
               f == [h EXCEPT !.at = "write"]
               r == Tail(stack[Media])
    <3>1. stack[Media] # <<>>
      BY <1>1 DEF At
    <3>2. h \in FrameTypes /\ r \in Seq(FrameTypes)
      BY <1>2, <3>1, StackOf
    <3>3. stack'[Media] = <<f>> \o r
      BY <1>2, <2>1 DEF Goto, TypeOK
    <3>4. h.g = g
      BY DEF Gen
    <3> HIDE DEF h, r, g
    <3>5. f \in FrameTypes /\ f.at = "write" /\ f.g = g
      BY <3>2, <3>4 DEF FrameTypes, Labels
    <3> HIDE DEF f
    <3>6. stack'[Media] # <<>> /\ Head(stack'[Media]) = f
      BY <3>2, <3>3, <3>5, Cons
    <3>7. QED
      BY <3>5, <3>6 DEF Writing, At, Gen
  <2> HIDE DEF g
  <2>5. ~closing[g] /\ streamer[g] = "running"
    BY <1>1, <1>3, <1>4, UnclaimedIs DEF Locks, Live
  <2>6. State[g] = "on"
    BY <1>1, <1>3, <2>5, ThreadsAre, StateIs
  <2>7. State' = State
    <3>1. \A k \in Gens : State'[k] = State[k]
      BY <1>1, <2>2, StateIs
    <3>2. QED
      BY <3>1, StateStays
  <2>8. Staged'
    BY <1>1, <2>2 DEF Staged
  <2>9. Promised!BeginWrite(g)
    BY <1>1, <2>3, <2>4, <2>5, <2>6, <2>7 DEF Promised!BeginWrite
  <2>10. QED
    BY <1>3, <2>8, <2>9
<1>5. CASE ~pointer[g]
  <2>1. Return(Media) /\ mutex' = mutex
    BY <1>5 DEF FrameStarts
  <2>2. Writing' = Writing
    BY <1>1, <1>2, <2>1, WritingReturn
  <2>3. Unseen
    BY <1>1, <2>1, <2>2 DEF Unseen
  <2>4. QED
    BY <2>3, UnseenImplements
<1>6. QED
  BY <1>4, <1>5

LEMMA FrameWritesImplements ==
    ASSUME Locks, Staged, FrameWrites
    PROVE  Staged' /\ Promised!EndWrite
<1>1. /\ At(Media, "write") /\ mutex' = Unlocked(Media, Gen(Media)) /\ Return(Media)
      /\ UNCHANGED <<closing, pointer, streamer, slot, started>>
  BY DEF FrameWrites, counters
<1>2. TypeOK /\ Shape /\ "write" \in Streamed /\ Media \in Threads
  BY ThreadsAre DEF Locks, Streamed
<1>3. Gen(Media) \in Gens
  BY <1>1, <1>2, StreamAt
<1>4. \A k \in Gens : mutex'[k] = Dead <=> mutex[k] = Dead
  BY <1>1, <1>2, <1>3, UnlockedIs, Zenon
<1>5. Writing # {}
  BY <1>1 DEF Writing
<1>6. Writing' = {}
  <2>1. stack'[Media] = Tail(stack[Media]) /\ stack[Media] # <<>>
    BY <1>1, <1>2 DEF Return, TypeOK, At
  <2>2. Tail(stack[Media]) \in Seq(Resting)
    BY <1>2, <2>1, StackOf
  <2>3. ~WriteTop(stack'[Media])
    BY <2>1, <2>2, RestingTop
  <2>4. QED
    BY <2>3 DEF Writing, At, WriteTop
<1>7. State' = State
  <2>1. \A k \in Gens : State'[k] = State[k]
    BY <1>1, <1>4, StateIs
  <2>2. QED
    BY <2>1, StateStays
<1>8. Staged'
  BY <1>1, <1>4 DEF Staged
<1>9. QED
  BY <1>1, <1>5, <1>6, <1>7, <1>8 DEF Promised!EndWrite

-----------------------------------------------------------------------------
(* The refinement.                                                         *)

LEMMA InitPromised == Init => Staged /\ Promised!Init
<1> SUFFICES ASSUME Init PROVE Staged /\ Promised!Init
  OBVIOUS
<1>1. /\ \A g \in Gens : /\ mutex[g] = Free /\ ~closing[g] /\ streamer[g] = "none"
                         /\ ~pointer[g]
      /\ streamer = [g \in Gens |-> "none"] /\ slot = [g \in Gens |-> FALSE]
      /\ started = 0 /\ stack[Media] = <<>>
  BY ThreadsAre DEF Init
<1>2. \A g \in Gens : g > 0
  BY DEF Gens
<1>3. Staged
  BY <1>1, <1>2, ThreadsAre DEF Staged
<1>4. State = [g \in Gens |-> "off"]
  <2>1. \A g \in Gens : State[g] = "off"
    BY <1>1, ThreadsAre, StateIs
  <2>2. QED
    BY <2>1, StateIs
<1>5. Writing = {}
  BY <1>1 DEF Writing, At
<1>6. QED
  BY <1>1, <1>3, <1>4, <1>5 DEF Promised!Init

LEMMA StepPromised ==
    ASSUME Orderly, Staged, [Next]_vars
    PROVE  Staged' /\ [Promised!Next]_(Promised!teardownVars)
<1>1. Locks /\ Once
  BY DEF Orderly, IInv
<1>2. ASSUME Unseen PROVE Staged' /\ [Promised!Next]_(Promised!teardownVars)
  BY <1>2, UnseenImplements
<1>3. ASSUME NEW t \in Api, Command(t) \/ Running(t)
      PROVE  Staged' /\ [Promised!Next]_(Promised!teardownVars)
  <2>1. CASE Create(t)
    BY <1>1, <2>1, CreateImplements DEF Promised!Next
  <2>2. ~StoreFlags(t)
    BY <1>1, StoreFlagsStep DEF Orderly
  <2>3. QED
    BY <1>1, <1>2, <1>3, <2>1, <2>2, ApiUnseen DEF Running
<1>4. ASSUME NEW t \in Threads, Teardown(t)
      PROVE  Staged' /\ [Promised!Next]_(Promised!teardownVars)
  <2>1. CASE Claim(t)
    BY <1>1, <2>1, ClaimImplements DEF Promised!Next
  <2>2. CASE Finish(t)
    BY <1>1, <2>2, FinishImplements DEF Promised!Next
  <2>3. CASE Wipe(t)
    BY <1>1, <2>3, WipeImplements DEF Promised!Next
  <2>4. QED
    BY <1>1, <1>2, <1>4, <2>1, <2>2, <2>3, TeardownUnseen DEF Teardown
<1>5. ASSUME MediaThread
      PROVE  Staged' /\ [Promised!Next]_(Promised!teardownVars)
  <2>1. CASE FrameStarts
    BY <1>1, <2>1, FrameStartsImplements DEF Promised!Next
  <2>2. CASE FrameWrites
    BY <1>1, <2>2, FrameWritesImplements DEF Promised!Next
  <2>3. QED
    BY <1>1, <1>2, <1>5, <2>1, <2>2, OthersUnseen DEF MediaThread
<1>6. ASSUME Hangup \/ HangupCloses
      PROVE  Staged' /\ [Promised!Next]_(Promised!teardownVars)
  BY <1>1, <1>2, <1>6, OthersUnseen
<1>7. ASSUME NEW g \in Gens, WebSocketError(g) \/ Delete(g)
      PROVE  Staged' /\ [Promised!Next]_(Promised!teardownVars)
  <2>1. CASE WebSocketError(g)
    BY <1>1, <1>2, <2>1, OthersUnseen
  <2>2. CASE Delete(g)
    BY <1>1, <2>2, DeleteImplements DEF Promised!Next
  <2>3. QED
    BY <1>7, <2>1, <2>2
<1>8. ASSUME UNCHANGED vars
      PROVE  Staged' /\ [Promised!Next]_(Promised!teardownVars)
  <2>1. Unseen
    BY <1>8 DEF vars, Unseen, Writing, At, Gen
  <2>2. QED
    BY <1>2, <2>1
<1>9. QED
  BY <1>3, <1>4, <1>5, <1>6, <1>7, <1>8 DEF Next

\* Whoever ends a stream, by a stop, a hangup, a pruned bug or a websocket error, and however
\* these meet: what happens to the stream is a teardown as StreamTeardown promises it, in
\* which it is claimed once and not under a frame that is written, then unhooked, then
\* released with its slot, and what was unhooked is deleted once.
THEOREM TeardownImplemented == "pause" \notin Commands /\ Spec => ImplementsTeardown
<1>1. Init => Staged /\ Promised!Init
  BY InitPromised
<1>2. Orderly /\ Staged /\ [Next]_vars => Staged' /\ [Promised!Next]_(Promised!teardownVars)
  BY StepPromised
<1>3. QED
  BY <1>1, <1>2, OrderlyAlways, PTL DEF Spec, ImplementsTeardown, Promised!Spec
=============================================================================
