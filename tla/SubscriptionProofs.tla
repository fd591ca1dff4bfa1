------------------------- MODULE SubscriptionProofs -------------------------
(***************************************************************************)
(* Theorems about module Subscription, for every collection of root sets,  *)
(* every chunk size, snapshot limit and socket buffer, and every bound.    *)
(***************************************************************************)
EXTENDS Subscription, Foundations, SequenceTheorems, TLAPS

(***************************************************************************)
(* Chunks.                                                                 *)
(***************************************************************************)

\* The chunks cover the set and none but the last is short.
LEMMA ChunkCountFacts ==
  ASSUME NEW s \in Seq(Nat)
  PROVE  /\ ChunkCount(s) \in Nat \ {0}
         /\ (ChunkCount(s) - 1) * ChunkSize <= Len(s)
         /\ Len(s) <= ChunkCount(s) * ChunkSize
<1>1. ChunkSize \in Nat \ {0} /\ Len(s) \in Nat
  BY SubscriptionAssumption
<1>2. CASE s = <<>>
  BY <1>1, <1>2 DEF ChunkCount
<1>3. CASE s # <<>>
  <2>1. Len(s) > 0
    BY <1>3
  <2>. DEFINE L == Len(s)
              k == (L + ChunkSize - 1) \div ChunkSize
  <2>2. /\ k \in Int /\ k * ChunkSize <= L + ChunkSize - 1
        /\ L + ChunkSize - 1 < (k + 1) * ChunkSize
    BY <1>1
  <2>3. k > 0
    BY <1>1, <2>1, <2>2
  <2>. QED  BY <1>1, <1>3, <2>2, <2>3 DEF ChunkCount
<1>. QED  BY <1>2, <1>3

\* Where a chunk ends.
ChunkEnd(s, i) == IF i * ChunkSize < Len(s) THEN i * ChunkSize ELSE Len(s)
Chunk(s, i) == SubSeq(s, (i - 1) * ChunkSize + 1, ChunkEnd(s, i))

Frame == [reply : {"roots", "error"}, generation : Nat, roots : Seq(Nat),
          more : BOOLEAN]
Piece == [part : {"head", "tail"}, frame : Frame]

\* What send_roots writes: the chunks in order under one generation, all but
\* the last saying that more follows.
LEMMA FramesFacts ==
  ASSUME NEW s \in Seq(Nat), NEW g \in Nat
  PROVE  /\ Frames(g, s) \in Seq(Frame)
         /\ Len(Frames(g, s)) = ChunkCount(s)
         /\ DOMAIN Frames(g, s) = 1..ChunkCount(s)
         /\ \A i \in 1..ChunkCount(s) :
               Frames(g, s)[i] = RootsFrame(g, Chunk(s, i), i < ChunkCount(s))
<1>1. ChunkCount(s) \in Nat \ {0} /\ ChunkSize \in Nat \ {0} /\ Len(s) \in Nat
  BY ChunkCountFacts, SubscriptionAssumption
<1>2. \A i \in 1..ChunkCount(s) : Chunk(s, i) \in Seq(Nat)
  <2>1. SUFFICES ASSUME NEW i \in 1..ChunkCount(s) PROVE Chunk(s, i) \in Seq(Nat)
    OBVIOUS
  <2>2. (i - 1) * ChunkSize \in Nat /\ i * ChunkSize \in Nat
    BY <1>1
  <2>3. ChunkEnd(s, i) \in 0..Len(s)
    BY <1>1, <2>2 DEF ChunkEnd
  <2>. QED  BY <1>1, <2>2, <2>3, SubSeqProperties DEF Chunk
<1>3. Frames(g, s) = [i \in 1..ChunkCount(s) |->
                         RootsFrame(g, Chunk(s, i), i < ChunkCount(s))]
  BY DEF Frames, Chunk, ChunkEnd
<1>4. \A i \in 1..ChunkCount(s) :
         RootsFrame(g, Chunk(s, i), i < ChunkCount(s)) \in Frame
  BY <1>1, <1>2 DEF RootsFrame, Frame
<1>5. Frames(g, s) \in [1..ChunkCount(s) -> Frame]
  BY <1>3, <1>4
<1>6. /\ Frames(g, s) \in Seq(Frame) /\ Len(Frames(g, s)) = ChunkCount(s)
      /\ DOMAIN Frames(g, s) = 1..ChunkCount(s)
  BY <1>1, <1>5, FunctionIsSeq
<1>7. \A i \in 1..ChunkCount(s) :
         Frames(g, s)[i] = RootsFrame(g, Chunk(s, i), i < ChunkCount(s))
  BY <1>3
<1>. QED  BY <1>6, <1>7

\* Putting a chunk after the ones before it.
LEMMA ChunksJoin ==
  ASSUME NEW s \in Seq(Nat), NEW i \in 1..ChunkCount(s), i # 1
  PROVE  SubSeq(s, 1, ChunkEnd(s, i - 1)) \o Chunk(s, i) = SubSeq(s, 1, ChunkEnd(s, i))
<1>1. ChunkCount(s) \in Nat \ {0} /\ ChunkSize \in Nat \ {0} /\ Len(s) \in Nat
  BY ChunkCountFacts, SubscriptionAssumption
<1>2. (ChunkCount(s) - 1) * ChunkSize <= Len(s)
  BY ChunkCountFacts
<1>3. (i - 1) * ChunkSize <= (ChunkCount(s) - 1) * ChunkSize
  BY <1>1
<1>4. (i - 1) * ChunkSize \in Nat /\ i * ChunkSize \in Nat
      /\ (i - 1) * ChunkSize <= i * ChunkSize
  BY <1>1
<1>5. (i - 1) * ChunkSize <= Len(s)
  <2>1. (ChunkCount(s) - 1) * ChunkSize \in Nat
    BY <1>1
  <2>. QED  BY <1>1, <1>2, <1>3, <1>4, <2>1
<1>6. ChunkEnd(s, i - 1) = (i - 1) * ChunkSize
  BY <1>1, <1>4, <1>5 DEF ChunkEnd
<1>7. ChunkEnd(s, i) \in Nat /\ ChunkEnd(s, i) <= Len(s)
      /\ (i - 1) * ChunkSize <= ChunkEnd(s, i)
  BY <1>1, <1>4, <1>5 DEF ChunkEnd
<1>. DEFINE a == (i - 1) * ChunkSize
            b == ChunkEnd(s, i)
<1>8. SubSeq(s, 1, a) \o SubSeq(s, a + 1, b) = SubSeq(s, 1, b)
  <2>1. a \in Nat /\ b \in Nat /\ a <= b /\ b <= Len(s)
    BY <1>4, <1>7
  <2>. HIDE DEF a, b
  <2>. QED  BY <2>1, <1>1
<1>. QED  BY <1>6, <1>8 DEF Chunk

\* Reading the frames of a set back gives the set: the concatenation the
\* clients make undoes the cutting of send_roots, for every set and every
\* chunk size.
LEMMA FramesReadBack ==
  ASSUME NEW s \in Seq(Nat), NEW g \in Nat
  PROVE  RootsIn(Frames(g, s)) = s
<1>. DEFINE n == ChunkCount(s)
            q == [i \in 1..n |-> Chunk(s, i)]
            h == [i \in 1..n |-> SubSeq(s, 1, ChunkEnd(s, i))]
            Step(f) == [i \in 1..n |-> IF i = 1 THEN q[i] ELSE f[i - 1] \o q[i]]
<1>1. n \in Nat \ {0} /\ ChunkSize \in Nat \ {0} /\ Len(s) \in Nat
  BY ChunkCountFacts, SubscriptionAssumption
<1>2. [i \in DOMAIN Frames(g, s) |-> Frames(g, s)[i].roots] = q
  <2>1. DOMAIN Frames(g, s) = 1..n
    BY <1>1, FramesFacts
  <2>2. \A i \in 1..n : Frames(g, s)[i].roots = Chunk(s, i)
    <3>1. \A i \in 1..n : Frames(g, s)[i] = RootsFrame(g, Chunk(s, i), i < n)
      BY FramesFacts
    <3>2. \A i : RootsFrame(g, Chunk(s, i), i < n).roots = Chunk(s, i)
      BY DEF RootsFrame
    <3>. QED  BY <3>1, <3>2
  <2>. QED  BY <2>1, <2>2
<1>3. h = Step(h)
  <2>1. ASSUME NEW i \in 1..n
        PROVE  h[i] = IF i = 1 THEN q[i] ELSE h[i - 1] \o q[i]
    <3>1. CASE i = 1
      <4>1. (i - 1) * ChunkSize + 1 = 1
        BY <1>1, <3>1
      <4>2. Chunk(s, i) = SubSeq(s, 1, ChunkEnd(s, i))
        BY <4>1 DEF Chunk
      <4>. QED  BY <3>1, <4>2
    <3>2. CASE i # 1
      <4>1. i - 1 \in 1..n
        BY <1>1, <3>2
      <4>2. h[i - 1] = SubSeq(s, 1, ChunkEnd(s, i - 1)) /\ q[i] = Chunk(s, i)
            /\ h[i] = SubSeq(s, 1, ChunkEnd(s, i))
        BY <4>1
      <4>3. h[i - 1] \o q[i] = h[i]
        BY <3>2, <4>2, ChunksJoin
      <4>. HIDE DEF h, q
      <4>. QED  BY <3>2, <4>3
    <3>. QED  BY <3>1, <3>2
  <2>2. h = [i \in 1..n |-> h[i]]
    OBVIOUS
  <2>. HIDE DEF h, q, n
  <2>3. Step(h) = [i \in 1..n |-> h[i]]
    BY <2>1
  <2>. HIDE DEF Step
  <2>. QED  BY <2>2, <2>3
<1>4. \A f : f = Step(f) => f = h
  <2>1. SUFFICES ASSUME NEW f, f = Step(f), f # h PROVE FALSE
    OBVIOUS
  <2>. DEFINE T == {i \in 1..n : f[i] # h[i]}
  <2>2. T # {}
    BY <2>1
  <2>3. PICK x \in T : \A y \in T : x <= y
    <3>1. T \subseteq Nat
      BY <1>1
    <3>. HIDE DEF T
    <3>. QED  BY <2>2, <3>1, LeastNat
  <2>4. f[x] = IF x = 1 THEN q[x] ELSE f[x - 1] \o q[x]
    BY <2>1
  <2>5. h[x] = IF x = 1 THEN q[x] ELSE h[x - 1] \o q[x]
    BY <1>3
  <2>6. x # 1 => x - 1 \in 1..n /\ x - 1 \notin T
    <3>1. x \in 1..n
      OBVIOUS
    <3>. HIDE DEF T, n
    <3>. QED  BY <1>1, <2>3, <3>1
  <2>. HIDE DEF h, q
  <2>. QED  BY <2>3, <2>4, <2>5, <2>6
<1>5. FlattenSeq(q) = h[n]
  <2>1. Len(q) = n
    BY <1>1
  <2>. HIDE DEF h, q
  <2>. DEFINE flatten[i \in 1..Len(q)] ==
                IF i = 1 THEN q[i] ELSE flatten[i - 1] \o q[i]
  <2>2. \E f : f = Step(f)
    BY <1>3
  <2>3. flatten = Step(flatten)
    BY <2>1, <2>2
  <2>4. flatten = h
    <3>. HIDE DEF flatten, Step
    <3>. QED  BY <1>4, <2>3
  <2>5. FlattenSeq(q) = flatten[Len(q)]
    BY <1>1, <2>1 DEF FlattenSeq
  <2>. HIDE DEF flatten
  <2>. QED  BY <2>1, <2>4, <2>5
<1>6. h[n] = s
  <2>1. ChunkEnd(s, n) = Len(s)
    BY <1>1, ChunkCountFacts DEF ChunkEnd
  <2>2. SubSeq(s, 1, Len(s)) = s
    BY SubSeqFull
  <2>. QED  BY <1>1, <2>1, <2>2
<1>. HIDE DEF q, h
<1>. QED  BY <1>2, <1>5, <1>6 DEF RootsIn

-----------------------------------------------------------------------------
(***************************************************************************)
(* The inductive invariant: what is on its way to the client.              *)
(***************************************************************************)

\* The pieces the client has not taken as whole frames yet.
Stream == incoming \o (wire \o outbox)

\* A frame is the k-th of the set that history h has under generation g.
IsChunk(h, f, g, k) ==
    /\ g \in DOMAIN h
    /\ k \in 1..ChunkCount(h[g])
    /\ f = Frames(g, h[g])[k]

\* What may follow piece p, of a frame with number a, on the connection.
Follows(p, a, q, b) ==
    /\ p.part = "head" => q.part = "tail" /\ q.frame = p.frame /\ b = a
    /\ p.part = "tail" => q.part = "head"
    /\ p.part = "tail" /\ p.frame.more =>
          q.frame.generation = p.frame.generation /\ b = a + 1
    /\ p.part = "tail" /\ ~p.frame.more => b = 1

\* Numbers for the frames of a run of pieces that starts at a frame: an error
\* is on its own, a chunk has its place in its set, and they come in order.
Numbers(h, P, at) ==
    /\ \A i \in 1..Len(P) :
          /\ at[i] \in Nat
          /\ \/ P[i].frame = ErrorFrame /\ at[i] = 1
             \/ \E g \in Nat : IsChunk(h, P[i].frame, g, at[i])
    /\ \A i, j \in 1..Len(P) : j = i + 1 => Follows(P[i], at[i], P[j], at[j])
    /\ P # <<>> => P[1].part = "head"

\* Frames received so far: the first ones of a set, but not all of them.
Begun(h, received, g) ==
    /\ g \in DOMAIN h
    /\ Len(received) < ChunkCount(h[g])
    /\ \A i \in 1..Len(received) : received[i] = Frames(g, h[g])[i]

\* The run of pieces starts where the frames received so far stop.
Continues(h, received, P, at) ==
    /\ P # <<>> => at[1] = Len(received) + 1
    /\ received # <<>> =>
          \E g \in Nat : /\ Begun(h, received, g)
                         /\ P # <<>> => P[1].frame.generation = g

\* Nothing of a set is missing at the end.
EndsWhole(received, P) ==
    IF P = <<>> THEN received = <<>>
                ELSE P[Len(P)].part = "tail" /\ ~P[Len(P)].frame.more

StreamInv ==
    channel = "open" =>
        /\ \E at : Numbers(history, Stream, at) /\ Continues(history, pending, Stream, at)
        /\ held \in {"writing", "subscribed"} => EndsWhole(pending, Stream)

\* Where the two ends are.
EndsInv ==
    /\ calling => channel = "open"
    /\ held \in {"waiting", "subscribed", "closed"} => outbox = <<>>
    /\ held = "waiting" => wire = <<>> /\ incoming = <<>> /\ pending = <<>>

SeqInv ==
    /\ history \in Seq(RootSets)
    /\ outbox \in Seq(Piece) /\ wire \in Seq(Piece) /\ incoming \in Seq(Piece)
    /\ pending \in Seq(Frame)

SubscriptionInv == SeqInv /\ EndsInv /\ StreamInv /\ UpdatesAreWhole /\ NeverMixed

-----------------------------------------------------------------------------
(***************************************************************************)
(* Runs of pieces.                                                         *)
(***************************************************************************)

\* The sets of a history are sequences.
LEMMA HistoryFacts ==
  ASSUME NEW h \in Seq(RootSets)
  PROVE  /\ Len(h) \in Nat /\ DOMAIN h = 1..Len(h)
         /\ \A g \in DOMAIN h : g \in Nat \ {0} /\ h[g] \in RootSets /\ h[g] \in Seq(Nat)
<1>1. Len(h) \in Nat /\ DOMAIN h = 1..Len(h) /\ \A g \in DOMAIN h : h[g] \in RootSets
  OBVIOUS
<1>. QED  BY <1>1, SubscriptionAssumption

\* What a chunk of the history says about itself.
LEMMA ChunkFacts ==
  ASSUME NEW h \in Seq(RootSets), NEW f, NEW g, NEW k, IsChunk(h, f, g, k)
  PROVE  /\ f.reply = "roots" /\ f.generation = g
         /\ f.more <=> k < ChunkCount(h[g])
         /\ ChunkCount(h[g]) \in Nat \ {0} /\ k \in Nat
<1>1. g \in Nat \ {0} /\ h[g] \in Seq(Nat) /\ g \in DOMAIN h
  BY HistoryFacts DEF IsChunk
<1>2. f = RootsFrame(g, Chunk(h[g], k), k < ChunkCount(h[g]))
  BY <1>1, FramesFacts DEF IsChunk
<1>3. ChunkCount(h[g]) \in Nat \ {0} /\ k \in Nat
  BY <1>1, ChunkCountFacts DEF IsChunk
<1>4. f.reply = "roots" /\ f.generation = g /\ f.more = (k < ChunkCount(h[g]))
  BY <1>2 DEF RootsFrame
<1>. QED  BY <1>3, <1>4

\* A generation more leaves the chunks of the earlier ones as they are.
LEMMA HistoryGrows ==
  ASSUME NEW h \in Seq(RootSets), NEW s \in RootSets
  PROVE  /\ Append(h, s) \in Seq(RootSets)
         /\ Len(Append(h, s)) = Len(h) + 1 /\ Append(h, s)[Len(h) + 1] = s
         /\ \A g \in DOMAIN h : g \in DOMAIN Append(h, s) /\ Append(h, s)[g] = h[g]
         /\ \A f, g, k : IsChunk(h, f, g, k) => IsChunk(Append(h, s), f, g, k)
         /\ \A P, at : Numbers(h, P, at) => Numbers(Append(h, s), P, at)
         /\ \A r, P, at : Continues(h, r, P, at) => Continues(Append(h, s), r, P, at)
<1>. DEFINE e == Append(h, s)
<1>1. /\ e \in Seq(RootSets) /\ Len(e) = Len(h) + 1 /\ e[Len(h) + 1] = s
      /\ \A g \in DOMAIN h : g \in DOMAIN e /\ e[g] = h[g]
  OBVIOUS
<1>. HIDE DEF e
<1>2. \A f, g, k : IsChunk(h, f, g, k) => IsChunk(e, f, g, k)
  BY <1>1 DEF IsChunk
<1>3. \A P, at : Numbers(h, P, at) => Numbers(e, P, at)
  BY <1>2 DEF Numbers
<1>4. \A r, g : Begun(h, r, g) => Begun(e, r, g)
  BY <1>1 DEF Begun
<1>5. \A r, P, at : Continues(h, r, P, at) => Continues(e, r, P, at)
  BY <1>4 DEF Continues
<1>. QED  BY <1>1, <1>2, <1>3, <1>5 DEF e

\* A run that is cut off is a run.
LEMMA RunCut ==
  ASSUME NEW h, NEW P \in Seq(Piece), NEW Q \in Seq(Piece), NEW at, NEW r,
         Len(Q) <= Len(P), \A i \in 1..Len(Q) : Q[i] = P[i],
         Numbers(h, P, at), Continues(h, r, P, at)
  PROVE  Numbers(h, Q, at) /\ Continues(h, r, Q, at)
<1>1. Q # <<>> => P # <<>> /\ Q[1] = P[1]
  OBVIOUS
<1>2. \A i \in 1..Len(Q) : i \in 1..Len(P)
  OBVIOUS
<1>3. Numbers(h, Q, at)
  BY <1>1, <1>2 DEF Numbers
<1>4. Continues(h, r, Q, at)
  BY <1>1 DEF Continues
<1>. QED  BY <1>3, <1>4

\* A whole run may be followed by one that starts a set.
LEMMA RunJoin ==
  ASSUME NEW h, NEW P \in Seq(Piece), NEW R \in Seq(Piece), NEW at, NEW bt,
         Numbers(h, P, at), Numbers(h, R, bt), R # <<>>, bt[1] = 1,
         P # <<>> => P[Len(P)].part = "tail" /\ ~P[Len(P)].frame.more
  PROVE  LET ct == [i \in 1..Len(P \o R) |->
                       IF i <= Len(P) THEN at[i] ELSE bt[i - Len(P)]]
         IN  Numbers(h, P \o R, ct)
<1>. DEFINE m == Len(P)
            C == P \o R
            ct == [i \in 1..Len(C) |-> IF i <= m THEN at[i] ELSE bt[i - m]]
<1>1. m \in Nat /\ Len(R) \in Nat \ {0} /\ Len(C) = m + Len(R)
  OBVIOUS
<1>2. \A i \in 1..m : C[i] = P[i] /\ i \in 1..Len(C)
  OBVIOUS
<1>3. \A i \in 1..Len(C) : i > m => i - m \in 1..Len(R) /\ C[i] = R[i - m]
  OBVIOUS
<1>4. /\ \A i \in 1..m : ct[i] = at[i]
      /\ \A i \in 1..Len(C) : i > m => ct[i] = bt[i - m]
  BY <1>1
<1>5. ASSUME NEW i \in 1..Len(C)
      PROVE  /\ ct[i] \in Nat
             /\ \/ C[i].frame = ErrorFrame /\ ct[i] = 1
                \/ \E g \in Nat : IsChunk(h, C[i].frame, g, ct[i])
  <2>. HIDE DEF C, ct, m
  <2>1. CASE i <= m
    <3>1. i \in 1..m
      BY <1>1, <2>1
    <3>. QED  BY <1>2, <1>4, <3>1 DEF Numbers, m
  <2>2. CASE i > m
    BY <1>3, <1>4, <2>2 DEF Numbers
  <2>. QED  BY <1>1, <2>1, <2>2
<1>6. ASSUME NEW i \in 1..Len(C), NEW j \in 1..Len(C), j = i + 1
      PROVE  Follows(C[i], ct[i], C[j], ct[j])
  <2>. HIDE DEF C, ct
  <2>1. CASE j <= m
    <3>1. i \in 1..m /\ j \in 1..m
      BY <1>1, <1>6, <2>1
    <3>. QED  BY <1>2, <1>4, <1>6, <3>1 DEF Numbers
  <2>2. CASE i > m
    <3>1. i - m \in 1..Len(R) /\ j - m \in 1..Len(R) /\ j - m = (i - m) + 1
      BY <1>1, <1>3, <1>6, <2>2
    <3>2. C[i] = R[i - m] /\ C[j] = R[j - m] /\ ct[i] = bt[i - m] /\ ct[j] = bt[j - m]
      BY <1>1, <1>3, <1>4, <1>6, <2>2
    <3>. QED  BY <3>1, <3>2 DEF Numbers
  <2>3. CASE i = m
    <3>1. /\ C[i] = P[m] /\ P # <<>>
          /\ C[j] = R[1] /\ ct[j] = bt[1]
      BY <1>1, <1>2, <1>3, <1>4, <1>6, <2>3
    <3>2. R[1].part = "head"
      BY DEF Numbers
    <3>. QED  BY <3>1, <3>2 DEF Follows
  <2>. QED  BY <1>1, <1>6, <2>1, <2>2, <2>3
<1>7. C # <<>> => C[1].part = "head"
  <2>1. CASE P = <<>>
    BY <1>1, <1>3, <2>1 DEF Numbers
  <2>2. CASE P # <<>>
    BY <1>2, <2>2 DEF Numbers
  <2>. QED  BY <2>1, <2>2
<1>. HIDE DEF C, ct
<1>8. Numbers(h, C, ct)
  BY <1>5, <1>6, <1>7 DEF Numbers
<1>. QED  BY <1>8 DEF C, ct

\* A frame on the wire is its head and its tail.
LEMMA PiecesFacts ==
  ASSUME NEW fs \in Seq(Frame)
  PROVE  /\ Pieces(fs) \in Seq(Piece) /\ Len(Pieces(fs)) = 2 * Len(fs)
         /\ \A i \in 1..(2 * Len(fs)) :
               /\ (i + 1) \div 2 \in 1..Len(fs)
               /\ Pieces(fs)[i].part = (IF i % 2 = 1 THEN "head" ELSE "tail")
               /\ Pieces(fs)[i].frame = fs[(i + 1) \div 2]
<1>1. Len(fs) \in Nat
  OBVIOUS
<1>2. \A i \in 1..(2 * Len(fs)) : (i + 1) \div 2 \in 1..Len(fs)
  BY <1>1
<1>3. \A i \in 1..(2 * Len(fs)) : fs[(i + 1) \div 2] \in Frame
  BY <1>2
<1>4. Pieces(fs) \in [1..(2 * Len(fs)) -> Piece]
  BY <1>3 DEF Pieces, Piece
<1>5. 2 * Len(fs) \in Nat
  BY <1>1
<1>6. Pieces(fs) \in Seq(Piece) /\ Len(Pieces(fs)) = 2 * Len(fs)
  BY <1>4, <1>5, FunctionIsSeq
<1>7. \A i \in 1..(2 * Len(fs)) :
         /\ Pieces(fs)[i].part = (IF i % 2 = 1 THEN "head" ELSE "tail")
         /\ Pieces(fs)[i].frame = fs[(i + 1) \div 2]
  BY DEF Pieces
<1>. QED  BY <1>2, <1>6, <1>7

\* What send_roots writes for a set is a run from its first frame to its last.
LEMMA SetIsRun ==
  ASSUME NEW h \in Seq(RootSets), NEW g \in DOMAIN h
  PROVE  LET P == Pieces(Frames(g, h[g]))
             at == [i \in 1..Len(P) |-> (i + 1) \div 2]
         IN  /\ P \in Seq(Piece) /\ P # <<>>
             /\ Numbers(h, P, at) /\ at[1] = 1
             /\ P[Len(P)].part = "tail" /\ ~P[Len(P)].frame.more
<1>. DEFINE n == ChunkCount(h[g])
            F == Frames(g, h[g])
            P == Pieces(F)
            at == [i \in 1..Len(P) |-> (i + 1) \div 2]
<1>1. g \in Nat \ {0} /\ h[g] \in Seq(Nat)
  BY HistoryFacts
<1>2. n \in Nat \ {0} /\ F \in Seq(Frame) /\ Len(F) = n
  BY <1>1, ChunkCountFacts, FramesFacts
<1>3. /\ P \in Seq(Piece) /\ Len(P) = 2 * n
      /\ \A i \in 1..(2 * n) :
            /\ (i + 1) \div 2 \in 1..n
            /\ P[i].part = (IF i % 2 = 1 THEN "head" ELSE "tail")
            /\ P[i].frame = F[(i + 1) \div 2]
  <2>. HIDE DEF F, n
  <2>. QED  BY <1>2, PiecesFacts
<1>4. \A i \in 1..(2 * n) : at[i] = (i + 1) \div 2
  BY <1>3
<1>5. \A k \in 1..n : IsChunk(h, F[k], g, k)
  BY DEF IsChunk
<1>6. \A k \in 1..n : F[k].generation = g /\ (F[k].more <=> k < n)
  BY <1>5, ChunkFacts
<1>. HIDE DEF n, F, P, at
<1>7. \A i \in 1..Len(P) : at[i] \in Nat /\ IsChunk(h, P[i].frame, g, at[i])
  BY <1>2, <1>3, <1>4, <1>5
<1>8. ASSUME NEW i \in 1..Len(P), NEW j \in 1..Len(P), j = i + 1
      PROVE  Follows(P[i], at[i], P[j], at[j])
  <2>1. i \in 1..(2 * n) /\ j \in 1..(2 * n)
    BY <1>3
  <2>2. CASE i % 2 = 1
    <3>1. j % 2 = 0 /\ (j + 1) \div 2 = (i + 1) \div 2
      BY <1>8, <1>2, <2>1, <2>2
    <3>. QED  BY <1>3, <1>4, <2>1, <2>2, <3>1 DEF Follows
  <2>3. CASE i % 2 # 1
    <3>1. j % 2 = 1 /\ (j + 1) \div 2 = (i + 1) \div 2 + 1
      BY <1>8, <1>2, <2>1, <2>3
    <3>2. (j + 1) \div 2 \in 1..n /\ (i + 1) \div 2 \in 1..n
      BY <1>3, <2>1
    <3>3. (i + 1) \div 2 < n
      BY <1>2, <3>1, <3>2
    <3>4. P[i].frame.more /\ P[i].frame.generation = g /\ P[j].frame.generation = g
      BY <1>3, <1>6, <2>1, <3>2, <3>3
    <3>. QED  BY <1>3, <1>4, <2>1, <2>3, <3>1, <3>4 DEF Follows
  <2>. QED  BY <2>2, <2>3
<1>9. P # <<>> /\ P[1].part = "head" /\ at[1] = 1
  BY <1>2, <1>3, <1>4
<1>10. Numbers(h, P, at)
  BY <1>1, <1>7, <1>8, <1>9 DEF Numbers
<1>11. P[Len(P)].part = "tail" /\ ~P[Len(P)].frame.more
  <2>. DEFINE m == 2 * n
  <2>1. m \in 1..(2 * n) /\ m % 2 = 0 /\ (m + 1) \div 2 = n /\ n \in 1..n
    BY <1>2
  <2>2. Len(P) = m
    BY <1>3
  <2>. HIDE DEF m
  <2>3. P[m].part = "tail" /\ P[m].frame = F[n]
    BY <1>3, <2>1
  <2>. QED  BY <1>2, <1>6, <2>1, <2>2, <2>3
<1>. QED  BY <1>3, <1>9, <1>10, <1>11 DEF P, at, F

\* An error is a run of its own.
LEMMA ErrorIsRun ==
  ASSUME NEW h
  PROVE  LET P == Pieces(<<ErrorFrame>>)
             at == [i \in 1..Len(P) |-> 1]
         IN  P \in Seq(Piece) /\ P # <<>> /\ Numbers(h, P, at) /\ at[1] = 1
<1>. DEFINE P == Pieces(<<ErrorFrame>>)
            at == [i \in 1..Len(P) |-> 1]
<1>1. ErrorFrame \in Frame
  BY DEF ErrorFrame, Frame
<1>2. <<ErrorFrame>> \in Seq(Frame) /\ Len(<<ErrorFrame>>) = 1
  BY <1>1
<1>3. /\ P \in Seq(Piece) /\ Len(P) = 2
      /\ P[1].part = "head" /\ P[2].part = "tail"
      /\ P[1].frame = ErrorFrame /\ P[2].frame = ErrorFrame
  <2>1. /\ P \in Seq(Piece) /\ Len(P) = 2 * 1
        /\ \A i \in 1..(2 * 1) :
              /\ (i + 1) \div 2 \in 1..1
              /\ P[i].part = (IF i % 2 = 1 THEN "head" ELSE "tail")
              /\ P[i].frame = <<ErrorFrame>>[(i + 1) \div 2]
    BY <1>2, PiecesFacts
  <2>. HIDE DEF P
  <2>. QED  BY <2>1
<1>. HIDE DEF P
<1>4. \A i \in 1..Len(P) : i = 1 \/ i = 2
  BY <1>3
<1>5. at[1] = 1 /\ at[2] = 1
  BY <1>3
<1>. HIDE DEF at
<1>6. Numbers(h, P, at)
  BY <1>3, <1>4, <1>5 DEF Numbers, Follows
<1>. QED  BY <1>3, <1>5, <1>6 DEF P, at

\* Q is P without its first frame, which is two pieces.
Dropped(P, Q) == Len(P) = Len(Q) + 2 /\ \A i \in 1..Len(Q) : Q[i] = P[i + 2]

\* The numbers of what is left, and how it goes on from the frame dropped.
Remains(h, P, Q, at, bt) ==
    /\ Numbers(h, Q, bt)
    /\ P[2].part = "tail" /\ P[2].frame = P[1].frame /\ at[2] = at[1]
    /\ Q # <<>> => /\ P[2].frame.more =>
                         /\ Q[1].frame.generation = P[2].frame.generation
                         /\ bt[1] = at[1] + 1
                   /\ ~P[2].frame.more => bt[1] = 1

\* A frame is taken off a run.
LEMMA RunDrop ==
  ASSUME NEW h, NEW P \in Seq(Piece), NEW Q \in Seq(Piece), NEW at,
         Dropped(P, Q), Numbers(h, P, at)
  PROVE  Remains(h, P, Q, at, [i \in 1..Len(Q) |-> at[i + 2]])
<1>. DEFINE bt == [i \in 1..Len(Q) |-> at[i + 2]]
<1>1. Len(Q) \in Nat /\ P # <<>> /\ 1 \in 1..Len(P) /\ 2 \in 1..Len(P)
      /\ Len(P) = Len(Q) + 2 /\ \A i \in 1..Len(Q) : Q[i] = P[i + 2]
  BY DEF Dropped
<1>2. P[1].part = "head" /\ Follows(P[1], at[1], P[2], at[2])
  BY <1>1 DEF Numbers
<1>3. P[2].part = "tail" /\ P[2].frame = P[1].frame /\ at[2] = at[1]
  BY <1>2 DEF Follows
<1>4. \A i \in 1..Len(Q) : i + 2 \in 1..Len(P) /\ Q[i] = P[i + 2] /\ bt[i] = at[i + 2]
  BY <1>1
<1>. HIDE DEF bt
<1>5. Q # <<>> => 1 \in 1..Len(Q) /\ 3 \in 1..Len(P) /\ Q[1] = P[3] /\ bt[1] = at[3]
  BY <1>1, <1>4
<1>6. Q # <<>> => Follows(P[2], at[2], Q[1], bt[1])
  BY <1>1, <1>5 DEF Numbers
<1>7. \A i, j \in 1..Len(Q) : j = i + 1 => Follows(Q[i], bt[i], Q[j], bt[j])
  <2>1. SUFFICES ASSUME NEW i \in 1..Len(Q), NEW j \in 1..Len(Q), j = i + 1
                 PROVE  Follows(Q[i], bt[i], Q[j], bt[j])
    OBVIOUS
  <2>2. i + 2 \in 1..Len(P) /\ j + 2 \in 1..Len(P) /\ j + 2 = (i + 2) + 1
    BY <1>4, <2>1
  <2>. QED  BY <1>4, <2>2 DEF Numbers
<1>8. Numbers(h, Q, bt)
  <2>1. \A i \in 1..Len(Q) :
           /\ bt[i] \in Nat
           /\ \/ Q[i].frame = ErrorFrame /\ bt[i] = 1
              \/ \E g \in Nat : IsChunk(h, Q[i].frame, g, bt[i])
    BY <1>4 DEF Numbers
  <2>2. Q # <<>> => Q[1].part = "head"
    BY <1>3, <1>6 DEF Follows
  <2>. QED  BY <1>7, <2>1, <2>2 DEF Numbers
<1>9. Q # <<>> => /\ P[2].frame.more =>
                        /\ Q[1].frame.generation = P[2].frame.generation
                        /\ bt[1] = at[1] + 1
                  /\ ~P[2].frame.more => bt[1] = 1
  BY <1>3, <1>6 DEF Follows
<1>10. Remains(h, P, Q, at, bt)
  BY <1>3, <1>8, <1>9 DEF Remains
<1>. QED  BY <1>10 DEF bt

\* Frame f is the one that follows the frames r of a set of history h.
NextOfSet(h, r, f) ==
    \E g \in DOMAIN h :
       /\ f.generation = g
       /\ Len(r) + 1 \in 1..ChunkCount(h[g])
       /\ \A i \in 1..Len(r) : r[i] = Frames(g, h[g])[i]
       /\ f = Frames(g, h[g])[Len(r) + 1]
       /\ f.more <=> Len(r) + 1 < ChunkCount(h[g])

\* The frame the client has read is the next of the set it is receiving, and
\* is marked as the last exactly when it is.
LEMMA ReplyFacts ==
  ASSUME NEW h \in Seq(RootSets), NEW r \in Seq(Frame), NEW P \in Seq(Piece), NEW at,
         Numbers(h, P, at), Continues(h, r, P, at), Len(P) >= 2
  PROVE  P[2].frame.reply = "roots" => NextOfSet(h, r, P[2].frame)
<1>. DEFINE f == P[2].frame
            k == Len(r) + 1
<1>0. SUFFICES ASSUME f.reply = "roots" PROVE NextOfSet(h, r, f)
  OBVIOUS
<1>1. P # <<>> /\ 1 \in 1..Len(P) /\ 2 \in 1..Len(P) /\ Len(r) \in Nat
  OBVIOUS
<1>2. P[1].part = "head" /\ Follows(P[1], at[1], P[2], at[2])
  BY <1>1 DEF Numbers
<1>3. f = P[1].frame /\ at[1] = k
  BY <1>1, <1>2 DEF Follows, Continues
<1>4. f # ErrorFrame
  BY <1>0 DEF ErrorFrame
<1>5. PICK g \in Nat : IsChunk(h, f, g, k)
  <2>. HIDE DEF f, k
  <2>. QED  BY <1>1, <1>3, <1>4 DEF Numbers
<1>6. f.generation = g /\ (f.more <=> k < ChunkCount(h[g]))
  <2>. HIDE DEF f, k
  <2>. QED  BY <1>5, ChunkFacts
<1>7. \A i \in 1..Len(r) : r[i] = Frames(g, h[g])[i]
  <2>1. CASE r = <<>>
    BY <2>1
  <2>2. CASE r # <<>>
    <3>1. PICK b \in Nat : Begun(h, r, b) /\ (P # <<>> => P[1].frame.generation = b)
      BY <2>2 DEF Continues
    <3>2. b = g
      BY <1>1, <1>3, <1>6, <3>1
    <3>. QED  BY <3>1, <3>2 DEF Begun
  <2>. QED  BY <2>1, <2>2
<1>8. g \in DOMAIN h /\ k \in 1..ChunkCount(h[g]) /\ f = Frames(g, h[g])[k]
  BY <1>5 DEF IsChunk
<1>. HIDE DEF f
<1>. QED  BY <1>6, <1>7, <1>8 DEF NextOfSet

\* When the last frame of a set has been read, the frames are that set's:
\* one generation, in order, and they amount to the set.
LEMMA LastReply ==
  ASSUME NEW h \in Seq(RootSets), NEW r \in Seq(Frame), NEW f \in Frame,
         NEW g \in DOMAIN h, Len(r) + 1 = ChunkCount(h[g]),
         \A i \in 1..Len(r) : r[i] = Frames(g, h[g])[i],
         f = Frames(g, h[g])[Len(r) + 1]
  PROVE  /\ RootsIn(Append(r, f)) = h[g]
         /\ OneGeneration(Append(r, f)) /\ RootsOf(Append(r, f))
<1>. DEFINE n == ChunkCount(h[g])
            F == Frames(g, h[g])
            a == Append(r, f)
<1>1. g \in Nat /\ h[g] \in Seq(Nat)
  BY HistoryFacts
<1>2. n \in Nat \ {0} /\ F \in Seq(Frame) /\ Len(F) = n /\ DOMAIN F = 1..n
  BY <1>1, ChunkCountFacts, FramesFacts
<1>3. \A k \in 1..n : IsChunk(h, F[k], g, k)
  BY DEF IsChunk
<1>4. \A k \in 1..n : F[k].reply = "roots" /\ F[k].generation = g /\ (F[k].more <=> k < n)
  BY <1>3, ChunkFacts
<1>5. a = F
  <2>. HIDE DEF F, n
  <2>1. a \in Seq(Frame) /\ Len(a) = n
    BY DEF n
  <2>2. \A i \in 1..n : a[i] = F[i]
    BY DEF n, F
  <2>. HIDE DEF a
  <2>. QED  BY <1>2, <2>1, <2>2, SeqEqual
<1>. HIDE DEF a
<1>6. RootsIn(a) = h[g]
  BY <1>1, <1>5, FramesReadBack
<1>. HIDE DEF F, n
<1>7. OneGeneration(a) /\ RootsOf(a)
  BY <1>2, <1>4, <1>5 DEF OneGeneration, RootsOf
<1>. QED  BY <1>6, <1>7 DEF a

\* Buffers c and d are a and b with a piece moved from the second to the first.
Moved(S, a, b, c, d) ==
    /\ c \o d = a \o b
    /\ c \in Seq(S) /\ d \in Seq(S)
    /\ Len(c) = Len(a) + 1

\* A piece moves from one buffer to the next and the run stays the same.
LEMMA PieceMoves ==
  ASSUME NEW S, NEW a \in Seq(S), NEW b \in Seq(S), b # <<>>
  PROVE  Moved(S, a, b, Append(a, Head(b)), Tail(b))
<1>. DEFINE x == Append(a, Head(b)) \o Tail(b)
            y == a \o b
<1>1. x \in Seq(S) /\ y \in Seq(S) /\ Len(x) = Len(y)
  OBVIOUS
<1>2. \A i \in 1..Len(x) : x[i] = y[i]
  OBVIOUS
<1>3. x = y
  <2>. HIDE DEF x, y
  <2>. QED  BY <1>1, <1>2, SeqEqual
<1>4. /\ Append(a, Head(b)) \in Seq(S) /\ Tail(b) \in Seq(S)
      /\ Len(Append(a, Head(b))) = Len(a) + 1
  OBVIOUS
<1>. QED  BY <1>3, <1>4 DEF Moved

\* The buffers and the run through them.
LEMMA StreamFacts ==
  ASSUME SeqInv
  PROVE  /\ Stream \in Seq(Piece) /\ wire \o outbox \in Seq(Piece)
         /\ Stream = (incoming \o wire) \o outbox
         /\ Len(Stream) = Len(incoming) + Len(wire) + Len(outbox)
         /\ \A i \in 1..Len(incoming) : Stream[i] = incoming[i]
         /\ \A i \in 1..Len(incoming \o wire) : Stream[i] = (incoming \o wire)[i]
         /\ incoming \o wire \in Seq(Piece)
         /\ Len(incoming \o wire) = Len(incoming) + Len(wire)
<1>1. incoming \in Seq(Piece) /\ wire \in Seq(Piece) /\ outbox \in Seq(Piece)
  BY DEF SeqInv
<1>2. Stream = (incoming \o wire) \o outbox
  <2>1. Associate(incoming, wire, outbox)
    BY <1>1, Associative
  <2>. QED  BY <2>1, Zenon DEF Stream, Associate
<1>. QED  BY <1>1, <1>2 DEF Stream

-----------------------------------------------------------------------------
(***************************************************************************)
(* The invariant, one action at a time.                                    *)
(***************************************************************************)

\* A connection starts with nothing on its way.
LEMMA InitKeeps == Init => TypeOK /\ SubscriptionInv
<1>1. SUFFICES ASSUME Init PROVE TypeOK /\ SubscriptionInv
  OBVIOUS
<1>2. PICK s \in RootSets : history = <<s>>
  BY <1>1 DEF Init
<1>3. history \in Seq(RootSets) /\ Len(history) = 1 /\ DOMAIN history = 1..1
      /\ history[1] \in RootSets
  BY <1>2
<1>4. TypeOK
  <2>1. Len(history) \in 1..MaxGeneration /\ \A i \in DOMAIN history : history[i] \in RootSets
    BY <1>3, SubscriptionAssumption
  <2>2. Len(wire) <= Capacity /\ 0 \in 0..MaxTimeouts
    BY <1>1, SubscriptionAssumption DEF Init
  <2>3. Len(incoming) <= 2 /\ DOMAIN incoming = {}
    BY <1>1 DEF Init
  <2>. QED  BY <1>1, <2>1, <2>2, <2>3 DEF Init, TypeOK, Generation
<1>5. SeqInv /\ EndsInv
  BY <1>1, <1>3 DEF Init, SeqInv, EndsInv
<1>6. Stream = <<>>
  BY <1>1 DEF Init, Stream
<1>7. StreamInv
  <2>1. Numbers(history, <<>>, <<>>)
    BY DEF Numbers
  <2>2. Continues(history, pending, <<>>, <<>>)
    BY <1>1 DEF Init, Continues
  <2>. QED  BY <1>1, <1>6, <2>1, <2>2 DEF Init, StreamInv
<1>8. UpdatesAreWhole /\ NeverMixed
  BY <1>1 DEF Init, UpdatesAreWhole, NeverMixed
<1>. QED  BY <1>4, <1>5, <1>7, <1>8 DEF SubscriptionInv

\* The request is answered with a whole set, or with an error.
LEMMA AnswerKeeps ==
  ASSUME TypeOK, SubscriptionInv, Answer
  PROVE  TypeOK' /\ SubscriptionInv'
<1>1. /\ wire = <<>> /\ incoming = <<>> /\ pending = <<>> /\ held = "waiting"
      /\ history \in Seq(RootSets) /\ history' = history
      /\ UNCHANGED <<wire, incoming, pending, channel, calling, update, kind, timeouts>>
  BY DEF Answer, SubscriptionInv, EndsInv, SeqInv, clientVars
<1>2. Generation \in DOMAIN history
  <2>1. Len(history) \in Nat /\ DOMAIN history = 1..Len(history)
    BY <1>1, HistoryFacts
  <2>2. Len(history) \in 1..MaxGeneration
    BY DEF TypeOK, Generation
  <2>3. Len(history) >= 1
    BY <2>1, <2>2, SubscriptionAssumption
  <2>. QED  BY <2>1, <2>3 DEF Generation
<1>3. /\ outbox' \in Seq(Piece)
      /\ held' = "writing" \/ held' = "refusing"
      /\ \E at : Numbers(history, outbox', at) /\ at[1] = 1
      /\ held' = "writing" => EndsWhole(<<>>, outbox')
  <2>1. CASE outbox' = Pieces(Frames(Generation, Served)) /\ held' = "writing"
    <3>. DEFINE P == Pieces(Frames(Generation, history[Generation]))
                at == [i \in 1..Len(P) |-> (i + 1) \div 2]
    <3>1. /\ P \in Seq(Piece) /\ P # <<>>
          /\ Numbers(history, P, at) /\ at[1] = 1
          /\ P[Len(P)].part = "tail" /\ ~P[Len(P)].frame.more
      BY <1>1, <1>2, SetIsRun
    <3>2. outbox' = P
      BY <2>1 DEF Served
    <3>. HIDE DEF P, at
    <3>. QED  BY <2>1, <3>1, <3>2 DEF EndsWhole
  <2>2. CASE outbox' = Pieces(<<ErrorFrame>>) /\ held' = "refusing"
    <3>. DEFINE P == Pieces(<<ErrorFrame>>)
                at == [i \in 1..Len(P) |-> 1]
    <3>1. P \in Seq(Piece) /\ P # <<>> /\ Numbers(history, P, at) /\ at[1] = 1
      BY ErrorIsRun
    <3>. HIDE DEF P, at
    <3>. QED  BY <2>2, <3>1 DEF P
  <2>. QED  BY <2>1, <2>2 DEF Answer
<1>4. TypeOK'
  BY <1>1, <1>3 DEF TypeOK, Generation
<1>5. SeqInv' /\ EndsInv'
  BY <1>1, <1>3 DEF SubscriptionInv, SeqInv, EndsInv
<1>6. Stream' = outbox'
  BY <1>1, <1>3 DEF Stream
<1>7. StreamInv'
  <2>1. PICK at : Numbers(history, outbox', at) /\ at[1] = 1
    BY <1>3
  <2>2. Continues(history, <<>>, outbox', at)
    BY <2>1 DEF Continues
  <2>. QED  BY <1>1, <1>3, <1>6, <2>1, <2>2 DEF StreamInv
<1>8. UpdatesAreWhole' /\ NeverMixed'
  BY <1>1 DEF SubscriptionInv, UpdatesAreWhole, NeverMixed
<1>. QED  BY <1>4, <1>5, <1>7, <1>8 DEF SubscriptionInv

\* A piece goes into the socket.
LEMMA WriteKeeps ==
  ASSUME TypeOK, SubscriptionInv, Write
  PROVE  TypeOK' /\ SubscriptionInv'
<1>1. SeqInv
  BY DEF SubscriptionInv
<1>2. /\ wire' \o outbox' = wire \o outbox
      /\ wire' \in Seq(Piece) /\ outbox' \in Seq(Piece) /\ Len(wire') = Len(wire) + 1
  <2>1. wire \in Seq(Piece) /\ outbox \in Seq(Piece) /\ outbox # <<>>
    BY <1>1 DEF Write, SeqInv
  <2>2. Moved(Piece, wire, outbox, Append(wire, Head(outbox)), Tail(outbox))
    BY <2>1, PieceMoves
  <2>3. Moved(Piece, wire, outbox, wire', outbox')
    BY <2>2 DEF Write
  <2>. QED  BY <2>3 DEF Moved
<1>3. UNCHANGED <<history, held, incoming, pending, channel, calling, update, kind, timeouts>>
  BY DEF Write, clientVars
<1>4. Len(wire') <= Capacity
  BY <1>1, <1>2, SubscriptionAssumption DEF Write, SeqInv
<1>5. TypeOK'
  BY <1>3, <1>4 DEF TypeOK, Generation
<1>6. SeqInv' /\ EndsInv'
  BY <1>1, <1>2, <1>3 DEF SubscriptionInv, SeqInv, EndsInv, Write
<1>7. StreamInv'
  BY <1>2, <1>3 DEF SubscriptionInv, StreamInv, Stream
<1>8. UpdatesAreWhole' /\ NeverMixed'
  BY <1>3 DEF SubscriptionInv, UpdatesAreWhole, NeverMixed
<1>. QED  BY <1>5, <1>6, <1>7, <1>8 DEF SubscriptionInv

\* The daemon stops writing or dies: what is on its way is cut off and, the
\* connection being closed, nothing will follow it.
LEMMA CutKeeps ==
  ASSUME TypeOK, SubscriptionInv, GiveUp \/ Die
  PROVE  TypeOK' /\ SubscriptionInv'
<1>1. SeqInv
  BY DEF SubscriptionInv
<1>2. /\ held' = "closed" /\ outbox' = <<>>
      /\ UNCHANGED <<history, wire, incoming, pending, channel, calling, update, kind, timeouts>>
  BY DEF GiveUp, Die, clientVars
<1>3. TypeOK'
  BY <1>2 DEF TypeOK, Generation
<1>4. SeqInv' /\ EndsInv'
  BY <1>1, <1>2 DEF SubscriptionInv, SeqInv, EndsInv
<1>5. Stream' = incoming \o wire
  BY <1>1, <1>2 DEF Stream, SeqInv
<1>6. StreamInv'
  <2>1. SUFFICES ASSUME channel = "open"
                 PROVE  \E at : /\ Numbers(history, incoming \o wire, at)
                                /\ Continues(history, pending, incoming \o wire, at)
    BY <1>2, <1>5 DEF StreamInv
  <2>2. PICK at : Numbers(history, Stream, at) /\ Continues(history, pending, Stream, at)
    BY <2>1 DEF SubscriptionInv, StreamInv
  <2>3. /\ Len(incoming \o wire) <= Len(Stream)
        /\ \A i \in 1..Len(incoming \o wire) : (incoming \o wire)[i] = Stream[i]
        /\ incoming \o wire \in Seq(Piece) /\ Stream \in Seq(Piece)
    BY <1>1, StreamFacts DEF SeqInv
  <2>. QED  BY <2>2, <2>3, RunCut
<1>7. UpdatesAreWhole' /\ NeverMixed'
  BY <1>2 DEF SubscriptionInv, UpdatesAreWhole, NeverMixed
<1>. QED  BY <1>3, <1>4, <1>6, <1>7 DEF SubscriptionInv

\* The daemon's end changes hands when the reply is out, or is reaped.
LEMMA HeldKeeps ==
  ASSUME TypeOK, SubscriptionInv, Written \/ Reap
  PROVE  TypeOK' /\ SubscriptionInv'
<1>1. /\ outbox = <<>>
      /\ UNCHANGED <<history, outbox, wire, incoming, pending, channel, calling, update, kind,
                     timeouts>>
      /\ held' = "closed" \/ (held = "writing" /\ held' = "subscribed")
  BY DEF Written, Reap, SubscriptionInv, EndsInv, clientVars
<1>2. TypeOK'
  BY <1>1 DEF TypeOK, Generation
<1>3. SeqInv' /\ EndsInv'
  BY <1>1 DEF SubscriptionInv, SeqInv, EndsInv
<1>4. StreamInv'
  BY <1>1 DEF SubscriptionInv, StreamInv, Stream
<1>5. UpdatesAreWhole' /\ NeverMixed'
  BY <1>1 DEF SubscriptionInv, UpdatesAreWhole, NeverMixed
<1>. QED  BY <1>2, <1>3, <1>4, <1>5 DEF SubscriptionInv

\* A generation more: a subscriber, to whom everything so far was written, is
\* sent the whole of it.
LEMMA PublishKeeps ==
  ASSUME TypeOK, SubscriptionInv, Publish
  PROVE  TypeOK' /\ SubscriptionInv'
<1>1. SeqInv /\ Stream \in Seq(Piece)
  BY StreamFacts DEF SubscriptionInv
<1>2. PICK s \in RootSets :
         /\ history' = Append(history, s)
         /\ IF held = "subscribed"
            THEN held' = "writing" /\ outbox' = Pieces(Frames(Generation + 1, s))
            ELSE UNCHANGED <<held, outbox>>
  BY DEF Publish
<1>3. /\ UNCHANGED <<wire, incoming, pending, channel, calling, update, kind, timeouts>>
      /\ outbox = <<>> /\ held \notin {"writing", "refusing"}
  BY DEF Publish, SubscriptionInv, EndsInv, TypeOK, clientVars
<1>4. /\ history' \in Seq(RootSets) /\ Len(history') = Len(history) + 1
      /\ history'[Len(history) + 1] = s
      /\ \A g \in DOMAIN history : g \in DOMAIN history' /\ history'[g] = history[g]
      /\ \A P, at : Numbers(history, P, at) => Numbers(history', P, at)
      /\ \A r, P, at : Continues(history, r, P, at) => Continues(history', r, P, at)
  BY <1>1, <1>2, HistoryGrows DEF SeqInv
<1>5. Len(history) \in Nat /\ DOMAIN history' = 1..Len(history')
      /\ \A g \in DOMAIN history' : history'[g] \in RootSets
  BY <1>1, <1>4, HistoryFacts DEF SeqInv
<1>6. TypeOK'
  <2>1. Len(history') \in 1..MaxGeneration
    <3>1. Len(history) < MaxGeneration
      BY DEF Publish, Generation
    <3>. QED  BY <1>4, <1>5, <3>1, SubscriptionAssumption
  <2>2. held' \in {"waiting", "writing", "refusing", "subscribed", "closed"}
    BY <1>2 DEF TypeOK
  <2>. QED  BY <1>3, <1>5, <2>1, <2>2 DEF TypeOK, Generation
<1>7. UpdatesAreWhole' /\ NeverMixed'
  BY <1>3, <1>4 DEF SubscriptionInv, UpdatesAreWhole, NeverMixed
<1>8. CASE held # "subscribed"
  <2>1. UNCHANGED <<held, outbox, Stream>>
    BY <1>2, <1>3, <1>8 DEF Stream
  <2>2. SeqInv' /\ EndsInv'
    BY <1>1, <1>3, <1>4, <2>1 DEF SubscriptionInv, SeqInv, EndsInv
  <2>3. StreamInv'
    BY <1>3, <1>4, <2>1, <1>8 DEF SubscriptionInv, StreamInv
  <2>. QED  BY <1>6, <1>7, <2>2, <2>3 DEF SubscriptionInv
<1>9. CASE held = "subscribed"
  <2>. DEFINE g == Len(history) + 1
              R == Pieces(Frames(g, history'[g]))
              bt == [i \in 1..Len(R) |-> (i + 1) \div 2]
  <2>1. g \in DOMAIN history'
    BY <1>4, <1>5
  <2>2. /\ R \in Seq(Piece) /\ R # <<>>
        /\ Numbers(history', R, bt) /\ bt[1] = 1
        /\ R[Len(R)].part = "tail" /\ ~R[Len(R)].frame.more
    BY <1>4, <2>1, SetIsRun
  <2>3. outbox' = R /\ held' = "writing"
    BY <1>2, <1>4, <1>9 DEF Generation
  <2>. HIDE DEF R, bt
  <2>4. Stream = incoming \o wire
    BY <1>1, <1>3 DEF Stream, SeqInv
  <2>5. Stream' = Stream \o R
    <3>1. incoming \in Seq(Piece) /\ wire \in Seq(Piece)
      BY <1>1 DEF SeqInv
    <3>2. Associate(incoming, wire, R)
      BY <2>2, <3>1, Associative
    <3>3. Stream' = incoming \o (wire \o R)
      BY <1>3, <2>3 DEF Stream
    <3>. QED  BY <2>4, <3>2, <3>3, Zenon DEF Associate
  <2>6. SeqInv' /\ EndsInv'
    BY <1>1, <1>3, <1>4, <2>2, <2>3 DEF SubscriptionInv, SeqInv, EndsInv
  <2>7. StreamInv'
    <3>1. SUFFICES ASSUME channel = "open"
                   PROVE  /\ \E at : /\ Numbers(history', Stream \o R, at)
                                     /\ Continues(history', pending, Stream \o R, at)
                          /\ EndsWhole(pending, Stream \o R)
      BY <1>3, <2>5 DEF StreamInv
    <3>2. PICK at : Numbers(history, Stream, at) /\ Continues(history, pending, Stream, at)
      BY <3>1 DEF SubscriptionInv, StreamInv
    <3>3. EndsWhole(pending, Stream)
      BY <1>9, <3>1 DEF SubscriptionInv, StreamInv
    <3>4. Numbers(history', Stream, at) /\ Continues(history', pending, Stream, at)
      BY <1>4, <3>2
    <3>. DEFINE ct == [i \in 1..Len(Stream \o R) |->
                         IF i <= Len(Stream) THEN at[i] ELSE bt[i - Len(Stream)]]
    <3>5. Numbers(history', Stream \o R, ct)
      BY <1>1, <2>2, <3>3, <3>4, RunJoin DEF EndsWhole
    <3>6. /\ Len(Stream) \in Nat /\ Len(R) \in Nat \ {0}
          /\ Len(Stream \o R) = Len(Stream) + Len(R)
          /\ Stream \o R # <<>>
          /\ (Stream \o R)[Len(Stream \o R)] = R[Len(R)]
          /\ Stream # <<>> => (Stream \o R)[1] = Stream[1]
      BY <1>1, <2>2
    <3>7. ct[1] = IF Stream = <<>> THEN bt[1] ELSE at[1]
      BY <1>1, <3>6
    <3>8. EndsWhole(pending, Stream \o R)
      BY <2>2, <3>6 DEF EndsWhole
    <3>. HIDE DEF ct
    <3>9. Continues(history', pending, Stream \o R, ct)
      <4>1. CASE Stream = <<>>
        BY <2>2, <3>3, <3>7, <4>1 DEF EndsWhole, Continues
      <4>2. CASE Stream # <<>>
        BY <3>4, <3>6, <3>7, <4>2 DEF Continues
      <4>. QED  BY <4>1, <4>2
    <3>. QED  BY <3>5, <3>8, <3>9
  <2>. QED  BY <1>6, <1>7, <2>6, <2>7 DEF SubscriptionInv
<1>. QED  BY <1>8, <1>9

\* A call begins, or ends without an answer: what was received stays, or the
\* channel is given up.
LEMMA CallKeeps ==
  ASSUME TypeOK, SubscriptionInv, NextCall \/ ReadEnd \/ Timeout \/ Free
  PROVE  TypeOK' /\ SubscriptionInv'
<1>1. /\ UNCHANGED <<history, held, outbox, wire, incoming, update, kind, Stream>>
      /\ timeouts' \in 0..MaxTimeouts /\ calling' \in BOOLEAN
  <2>1. CASE NextCall
    BY <2>1 DEF NextCall, TypeOK, daemonVars, Stream
  <2>2. CASE ReadEnd
    BY <2>2 DEF ReadEnd, Close, TypeOK, daemonVars, Stream
  <2>3. CASE Timeout
    <3>1. timeouts' \in 0..MaxTimeouts
      <4>1. timeouts \in 0..MaxTimeouts
        BY DEF TypeOK
      <4>2. timeouts < MaxTimeouts /\ timeouts' = timeouts + 1
        BY <2>3 DEF Timeout
      <4>. QED  BY <4>1, <4>2, SubscriptionAssumption
    <3>2. calling' \in BOOLEAN
      BY <2>3 DEF Timeout, Close
    <3>. QED  BY <2>3, <3>1, <3>2 DEF Timeout, daemonVars, Stream
  <2>4. CASE Free
    BY <2>4 DEF Free, Close, TypeOK, daemonVars, Stream
  <2>. QED  BY <2>1, <2>2, <2>3, <2>4
<1>2. \/ channel' = channel /\ channel = "open" /\ pending' = pending
      \/ channel' \in {"ended", "timed out", "freed"} /\ pending' = <<>> /\ ~calling'
  BY DEF NextCall, ReadEnd, Timeout, Free, Close, SubscriptionInv, EndsInv
<1>3. TypeOK'
  BY <1>1, <1>2 DEF TypeOK, Generation
<1>4. SeqInv' /\ EndsInv'
  <2>1. SeqInv'
    <3>1. pending' = pending \/ pending' = <<>>
      BY <1>2
    <3>2. pending' \in Seq(Frame)
      <4>1. pending \in Seq(Frame)
        BY DEF SubscriptionInv, SeqInv
      <4>2. <<>> \in Seq(Frame)
        BY EmptySeq
      <4>. QED  BY <3>1, <4>1, <4>2
    <3>. QED  BY <1>1, <3>2 DEF SubscriptionInv, SeqInv
  <2>2. calling' => channel' = "open"
    BY <1>2
  <2>3. held = "waiting" => pending' = <<>>
    BY <1>2 DEF SubscriptionInv, EndsInv
  <2>. QED  BY <1>1, <2>1, <2>2, <2>3 DEF SubscriptionInv, EndsInv
<1>5. StreamInv'
  BY <1>1, <1>2 DEF SubscriptionInv, StreamInv
<1>6. UpdatesAreWhole' /\ NeverMixed'
  BY <1>1, <1>2 DEF SubscriptionInv, UpdatesAreWhole, NeverMixed
<1>. QED  BY <1>3, <1>4, <1>5, <1>6 DEF SubscriptionInv

\* A piece is read: never one of another frame than the one begun.
LEMMA ReadKeeps ==
  ASSUME TypeOK, SubscriptionInv, Read
  PROVE  TypeOK' /\ SubscriptionInv'
<1>1. SeqInv /\ Stream \in Seq(Piece) /\ channel = "open"
  BY StreamFacts DEF SubscriptionInv, EndsInv, Read
<1>2. /\ incoming' \o wire' = incoming \o wire
      /\ incoming' \in Seq(Piece) /\ wire' \in Seq(Piece)
      /\ Len(incoming') = Len(incoming) + 1
  <2>1. incoming \in Seq(Piece) /\ wire \in Seq(Piece) /\ wire # <<>>
    BY <1>1 DEF Read, SeqInv
  <2>2. Moved(Piece, incoming, wire, Append(incoming, Head(wire)), Tail(wire))
    BY <2>1, PieceMoves
  <2>3. Moved(Piece, incoming, wire, incoming', wire')
    BY <2>2 DEF Read
  <2>. QED  BY <2>3 DEF Moved
<1>3. UNCHANGED <<history, held, outbox, pending, channel, calling, update, kind, timeouts>>
  BY DEF Read, daemonVars
<1>4. SeqInv'
  BY <1>1, <1>2, <1>3 DEF SeqInv
<1>5. Stream' = Stream
  <2>1. Stream = (incoming \o wire) \o outbox
    BY <1>1, StreamFacts
  <2>2. Stream' = (incoming' \o wire') \o outbox'
    <3>1. Associate(incoming', wire', outbox')
      BY <1>4, Associative DEF SeqInv
    <3>. QED  BY <3>1, Zenon DEF Stream, Associate
  <2>. QED  BY <1>2, <1>3, <2>1, <2>2
<1>6. EndsInv'
  BY <1>1, <1>2, <1>3 DEF SubscriptionInv, EndsInv, Read
<1>7. StreamInv'
  BY <1>3, <1>5 DEF SubscriptionInv, StreamInv
<1>8. UpdatesAreWhole' /\ NeverMixed'
  BY <1>3 DEF SubscriptionInv, UpdatesAreWhole, NeverMixed
<1>9. TypeOK'
  <2>1. Len(incoming') \in 0..2 /\ DOMAIN incoming' = 1..Len(incoming')
    BY <1>1, <1>2 DEF Read, SeqInv
  <2>2. \A i \in 1..Len(incoming') : i \in 1..Len(Stream) /\ incoming'[i] = Stream[i]
    <3>1. wire' \o outbox' \in Seq(Piece)
      BY <1>4 DEF SeqInv
    <3>2. Stream' = incoming' \o (wire' \o outbox')
      BY DEF Stream
    <3>. QED  BY <1>2, <1>5, <3>1, <3>2
  <2>3. PICK at : Numbers(history, Stream, at)
    BY <1>1 DEF SubscriptionInv, StreamInv
  <2>4. ASSUME NEW i \in DOMAIN incoming'
        PROVE  /\ incoming'[i].part = IF i = 1 THEN "head" ELSE "tail"
               /\ incoming'[i].frame = incoming'[1].frame
    <3>1. Stream # <<>> /\ Stream[1].part = "head" /\ 1 \in 1..Len(Stream)
          /\ incoming'[1] = Stream[1]
      BY <1>1, <1>2, <2>1, <2>2, <2>3, <2>4 DEF Numbers
    <3>2. CASE i = 1
      BY <3>1, <3>2
    <3>3. CASE i = 2
      <4>1. 2 \in 1..Len(Stream) /\ incoming'[2] = Stream[2]
        BY <2>1, <2>2, <2>4, <3>3
      <4>2. Follows(Stream[1], at[1], Stream[2], at[2])
        BY <2>3, <3>1, <4>1 DEF Numbers
      <4>. QED  BY <3>1, <3>3, <4>1, <4>2 DEF Follows
    <3>. QED  BY <2>1, <3>2, <3>3
  <2>5. Len(wire') <= Capacity
    BY <1>1, SubscriptionAssumption DEF Read, SeqInv, TypeOK
  <2>6. Len(incoming') <= 2
    BY <2>1
  <2>. QED  BY <1>3, <2>4, <2>5, <2>6 DEF TypeOK, Generation
<1>. QED  BY <1>4, <1>6, <1>7, <1>8, <1>9 DEF SubscriptionInv

\* A frame is taken: the snapshot grows by the next chunk of its set, or is
\* that set, or the channel is given up.
LEMMA TakeKeeps ==
  ASSUME TypeOK, SubscriptionInv, Take
  PROVE  TypeOK' /\ SubscriptionInv'
<1>. DEFINE reply == incoming[2].frame
            replies == Append(pending, reply)
            whole == IF kind = "call" THEN RootsOf(replies) ELSE Assembled(replies)
            Q == wire \o outbox
<1>1. /\ SeqInv /\ Stream \in Seq(Piece) /\ Q \in Seq(Piece) /\ channel = "open"
      /\ Len(incoming) = 2 /\ Len(Stream) = Len(Q) + 2
      /\ \A i \in 1..Len(Q) : Stream[i + 2] = Q[i]
      /\ Stream[1] = incoming[1] /\ Stream[2] = incoming[2]
  <2>1. SeqInv /\ channel = "open" /\ Len(incoming) = 2
    BY DEF SubscriptionInv, EndsInv, Take
  <2>. QED  BY <2>1, StreamFacts DEF SeqInv, Stream
<1>2. /\ UNCHANGED <<history, held, outbox, wire, kind, timeouts>>
      /\ incoming' = <<>> /\ DOMAIN incoming' = {} /\ Len(incoming') <= 2
      /\ <<>> \in Seq(Piece) /\ <<>> \in Seq(Frame)
  <2>1. DOMAIN <<>> = {} /\ Len(<<>>) <= 2
    OBVIOUS
  <2>. QED  BY <2>1, EmptySeq DEF Take, daemonVars
<1>3. Stream' = Q
  BY <1>1, <1>2 DEF Stream, SeqInv
<1>4. PICK at : Numbers(history, Stream, at) /\ Continues(history, pending, Stream, at)
  BY <1>1 DEF SubscriptionInv, StreamInv
<1>5. /\ history \in Seq(RootSets) /\ pending \in Seq(Frame) /\ reply \in Frame
      /\ Len(pending) \in Nat
  <2>1. history \in Seq(RootSets) /\ pending \in Seq(Frame) /\ Len(pending) \in Nat
    BY <1>1 DEF SeqInv
  <2>2. incoming[2] \in Piece
    BY <1>1 DEF SeqInv
  <2>. QED  BY <2>1, <2>2 DEF Piece
<1>6. reply.reply = "roots" =>
        \E g \in DOMAIN history :
           /\ reply.generation = g
           /\ Len(pending) + 1 \in 1..ChunkCount(history[g])
           /\ \A i \in 1..Len(pending) : pending[i] = Frames(g, history[g])[i]
           /\ reply = Frames(g, history[g])[Len(pending) + 1]
           /\ reply.more <=> Len(pending) + 1 < ChunkCount(history[g])
  <2>1. reply = Stream[2].frame /\ Len(Stream) >= 2
    BY <1>1
  <2>. HIDE DEF reply
  <2>2. Stream[2].frame.reply = "roots" => NextOfSet(history, pending, Stream[2].frame)
    BY <1>1, <1>4, <1>5, <2>1, ReplyFacts
  <2>. QED  BY <2>1, <2>2 DEF NextOfSet
<1>. DEFINE bt == [i \in 1..Len(Q) |-> at[i + 2]]
<1>7. /\ Numbers(history, Q, bt)
      /\ Stream[2].part = "tail" /\ at[2] = at[1]
      /\ Q # <<>> => /\ reply.more => /\ Q[1].frame.generation = reply.generation
                                      /\ bt[1] = at[1] + 1
                     /\ ~reply.more => bt[1] = 1
  <2>1. reply = Stream[2].frame
    BY <1>1
  <2>2. /\ Q \in Seq(Piece) /\ Len(Stream) = Len(Q) + 2
        /\ \A i \in 1..Len(Q) : Q[i] = Stream[i + 2]
    BY <1>1
  <2>. HIDE DEF reply, Q
  <2>3. /\ Numbers(history, Q, bt)
        /\ Stream[2].part = "tail" /\ at[2] = at[1]
        /\ Q # <<>> =>
              /\ Stream[2].frame.more =>
                    /\ Q[1].frame.generation = Stream[2].frame.generation
                    /\ bt[1] = at[1] + 1
              /\ ~Stream[2].frame.more => bt[1] = 1
    <3>1. Stream \in Seq(Piece) /\ Numbers(history, Stream, at)
      BY <1>1, <1>4
    <3>2. Dropped(Stream, Q)
      BY <2>2 DEF Dropped
    <3>. HIDE DEF bt
    <3>3. Remains(history, Stream, Q, at, bt)
      BY <2>2, <3>1, <3>2, RunDrop DEF bt
    <3>. QED  BY <3>3 DEF Remains
  <2>. HIDE DEF bt
  <2>. QED  BY <2>1, <2>3
<1>8. Stream # <<>> /\ at[1] = Len(pending) + 1
  BY <1>1, <1>4 DEF Continues
<1>. HIDE DEF bt, Q
<1>9. held \in {"writing", "subscribed"} =>
         IF Q = <<>> THEN ~reply.more
                     ELSE Q[Len(Q)].part = "tail" /\ ~Q[Len(Q)].frame.more
  <2>1. SUFFICES ASSUME held \in {"writing", "subscribed"}
                 PROVE  IF Q = <<>> THEN ~reply.more
                        ELSE Q[Len(Q)].part = "tail" /\ ~Q[Len(Q)].frame.more
    OBVIOUS
  <2>2. Stream[Len(Stream)].part = "tail" /\ ~Stream[Len(Stream)].frame.more
    BY <1>1, <1>8, <2>1 DEF SubscriptionInv, StreamInv, EndsWhole
  <2>3. CASE Q = <<>>
    BY <1>1, <2>2, <2>3
  <2>4. CASE Q # <<>>
    <3>1. Len(Q) \in 1..Len(Q) /\ Stream[Len(Stream)] = Q[Len(Q)]
      BY <1>1, <2>4
    <3>. QED  BY <2>2, <2>4, <3>1
  <2>. QED  BY <2>3, <2>4
<1>. HIDE DEF reply, replies, whole
<1>10. CASE /\ channel' \in {"refused", "too large"}
            /\ calling' = FALSE /\ pending' = <<>> /\ update' = update
  <2>1. TypeOK'
    BY <1>2, <1>10 DEF TypeOK, Generation
  <2>2. SeqInv' /\ EndsInv'
    BY <1>1, <1>2, <1>10 DEF SubscriptionInv, SeqInv, EndsInv
  <2>3. StreamInv' /\ UpdatesAreWhole' /\ NeverMixed'
    BY <1>2, <1>10 DEF SubscriptionInv, StreamInv, UpdatesAreWhole, NeverMixed
  <2>. QED  BY <2>1, <2>2, <2>3 DEF SubscriptionInv
<1>11. CASE /\ reply.reply = "roots" /\ reply.more /\ pending' = replies
            /\ UNCHANGED <<channel, calling, update>>
  <2>1. PICK g \in DOMAIN history :
           /\ reply.generation = g
           /\ Len(pending) + 1 < ChunkCount(history[g])
           /\ \A i \in 1..Len(pending) : pending[i] = Frames(g, history[g])[i]
           /\ reply = Frames(g, history[g])[Len(pending) + 1]
    BY <1>6, <1>11
  <2>2. /\ pending' \in Seq(Frame) /\ Len(pending') = Len(pending) + 1
        /\ pending' # <<>> /\ pending'[Len(pending) + 1] = reply
        /\ \A i \in 1..Len(pending) : pending'[i] = pending[i]
    BY <1>5, <1>11 DEF replies
  <2>3. \A i \in 1..Len(pending') : pending'[i] = Frames(g, history[g])[i]
    BY <1>5, <2>1, <2>2
  <2>4. Begun(history, pending', g) /\ g \in Nat
    BY <1>5, <2>1, <2>2, <2>3, HistoryFacts DEF Begun
  <2>5. Continues(history, pending', Q, bt)
    BY <1>7, <1>8, <1>11, <2>1, <2>2, <2>4 DEF Continues
  <2>6. held \in {"writing", "subscribed"} => EndsWhole(pending', Q)
    BY <1>9, <1>11 DEF EndsWhole
  <2>7. TypeOK'
    BY <1>2, <1>11 DEF TypeOK, Generation
  <2>8. held # "waiting"
    <3>1. Len(incoming) = 2
      BY <1>1
    <3>2. incoming # <<>>
      BY <3>1
    <3>. QED  BY <3>2 DEF SubscriptionInv, EndsInv
  <2>9. SeqInv' /\ EndsInv'
    BY <1>1, <1>2, <1>11, <2>2, <2>8 DEF SubscriptionInv, SeqInv, EndsInv
  <2>10. StreamInv'
    BY <1>2, <1>3, <1>7, <2>5, <2>6 DEF StreamInv
  <2>11. UpdatesAreWhole' /\ NeverMixed'
    BY <1>2, <1>11 DEF SubscriptionInv, UpdatesAreWhole, NeverMixed
  <2>. QED  BY <2>7, <2>9, <2>10, <2>11 DEF SubscriptionInv
<1>12. CASE /\ reply.reply = "roots" /\ ~reply.more
            /\ IF whole
               THEN /\ update' = [generation |-> reply.generation, roots |-> RootsIn(replies)]
                    /\ Close(IF kind = "subscribe" THEN "open" ELSE "done")
               ELSE Close("mixed") /\ UNCHANGED update
  <2>1. PICK g \in DOMAIN history :
           /\ reply.generation = g
           /\ Len(pending) + 1 = ChunkCount(history[g])
           /\ \A i \in 1..Len(pending) : pending[i] = Frames(g, history[g])[i]
           /\ reply = Frames(g, history[g])[Len(pending) + 1]
    <3>1. PICK g \in DOMAIN history :
             /\ reply.generation = g
             /\ Len(pending) + 1 \in 1..ChunkCount(history[g])
             /\ \A i \in 1..Len(pending) : pending[i] = Frames(g, history[g])[i]
             /\ reply = Frames(g, history[g])[Len(pending) + 1]
             /\ reply.more <=> Len(pending) + 1 < ChunkCount(history[g])
      BY <1>6, <1>12
    <3>2. ChunkCount(history[g]) \in Nat
      BY <1>5, HistoryFacts, ChunkCountFacts
    <3>3. Len(pending) + 1 = ChunkCount(history[g])
      BY <1>5, <1>12, <3>1, <3>2
    <3>. QED  BY <3>1, <3>3
  <2>2. RootsIn(replies) = history[g] /\ whole
    BY <1>5, <2>1, LastReply DEF replies, whole, Assembled
  <2>3. /\ update' = [generation |-> g, roots |-> history[g]]
        /\ channel' \in {"open", "done"} /\ calling' = FALSE /\ pending' = <<>>
    BY <1>12, <2>1, <2>2 DEF Close
  <2>4. TypeOK'
    BY <1>2, <2>3 DEF TypeOK, Generation
  <2>5. SeqInv' /\ EndsInv'
    BY <1>1, <1>2, <2>3 DEF SubscriptionInv, SeqInv, EndsInv
  <2>6. Continues(history, <<>>, Q, bt)
    BY <1>7, <1>12 DEF Continues
  <2>7. held \in {"writing", "subscribed"} => EndsWhole(<<>>, Q)
    BY <1>9 DEF EndsWhole
  <2>8. StreamInv'
    BY <1>2, <1>3, <1>7, <2>3, <2>6, <2>7 DEF StreamInv
  <2>9. UpdatesAreWhole' /\ NeverMixed'
    BY <1>2, <2>3 DEF UpdatesAreWhole, NeverMixed
  <2>. QED  BY <2>4, <2>5, <2>8, <2>9 DEF SubscriptionInv
<1>. QED  BY <1>10, <1>11, <1>12 DEF Take, Close, reply, replies, whole

\* Every step keeps the invariant.
LEMMA NextKeeps == TypeOK /\ SubscriptionInv /\ [Next]_vars => TypeOK' /\ SubscriptionInv'
<1>1. SUFFICES ASSUME TypeOK, SubscriptionInv, [Next]_vars
               PROVE  TypeOK' /\ SubscriptionInv'
  OBVIOUS
<1>2. CASE UNCHANGED vars
  <2>1. UNCHANGED <<history, held, outbox, wire, kind, channel, calling, incoming,
                    pending, update, timeouts, Stream>>
    BY <1>2 DEF vars, daemonVars, clientVars, Stream
  <2>2. TypeOK'
    BY <1>1, <2>1 DEF TypeOK, Generation
  <2>3. SeqInv' /\ EndsInv' /\ StreamInv'
    BY <1>1, <2>1 DEF SubscriptionInv, SeqInv, EndsInv, StreamInv
  <2>4. UpdatesAreWhole' /\ NeverMixed'
    BY <1>1, <2>1 DEF SubscriptionInv, UpdatesAreWhole, NeverMixed
  <2>. QED  BY <2>2, <2>3, <2>4 DEF SubscriptionInv
<1>3. CASE Next
  BY <1>1, <1>3, AnswerKeeps, WriteKeeps, CutKeeps, HeldKeeps, PublishKeeps,
     CallKeeps,
     ReadKeeps, TakeKeeps DEF Next, Sending, Receiving
<1>. QED  BY <1>1, <1>2, <1>3

\* Every reachable state satisfies the invariant: what is on its way continues
\* what the client has received, and is whole unless the connection is over.
THEOREM SubscriptionInvariant == Spec => [](TypeOK /\ SubscriptionInv)
<1>. QED  BY InitKeeps, NextKeeps, PTL DEF Spec

\* A client is always at a frame's edge or inside one frame.
THEOREM TypeCorrect == Spec => []TypeOK
<1>. QED  BY SubscriptionInvariant, PTL

\* An update handed to the caller is exactly the set served under its
\* generation, for every set, every chunk size and every buffer.
THEOREM CompleteUpdates == Spec => []UpdatesAreWhole
<1>1. SubscriptionInv => UpdatesAreWhole
  BY DEF SubscriptionInv
<1>. QED  BY <1>1, SubscriptionInvariant, PTL

\* No snapshot ever holds chunks of two generations: the check that libtrust
\* and trust_core::roots_of make never fails against trustd.
THEOREM SnapshotsAreNeverMixed == Spec => []NeverMixed
<1>1. SubscriptionInv => NeverMixed
  BY DEF SubscriptionInv
<1>. QED  BY <1>1, SubscriptionInvariant, PTL
=============================================================================
