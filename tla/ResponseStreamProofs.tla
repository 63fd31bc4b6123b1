------------------------ MODULE ResponseStreamProofs ------------------------
(***************************************************************************)
(* What holds of ResponseStream for every value of its constants.  The     *)
(* inductive invariant says where each byte is while the response runs     *)
(* (Layout), and which of its flags occur together (Over, Running, Waiting).*)
(***************************************************************************)
EXTENDS ResponseStream, DataLemmas

-----------------------------------------------------------------------------
\* Five sequences cover the body up to g in this order: on the wire, held by
\* uWS, queued (n bytes), buffered by node, waiting in end().
Laid(w, h, q, n, f, e, g) ==
    \E a \in 0 .. g : Chain(w, 0, a) /\
    \E b \in 0 .. g : Chain(h, a, b) /\
    \E c \in 0 .. g : Chain(q, b, c) /\ n = c - b /\
    \E d \in 0 .. g : Chain(f, c, d) /\ Chain(e, d, g)

(* What each move of a piece does to Laid. *)

\* The witnesses of Laid, in the order they chain.
LEMMA LaidUse ==
  ASSUME NEW w, NEW h, NEW q, NEW n, NEW f, NEW e, NEW g \in Nat,
         Laid(w, h, q, n, f, e, g)
  PROVE  \E a, b, c, d \in Nat :
            /\ Chain(w, 0, a) /\ Chain(h, a, b) /\ Chain(q, b, c)
            /\ n = c - b /\ Chain(f, c, d) /\ Chain(e, d, g)
            /\ a <= g /\ b <= g /\ c <= g /\ d <= g
<1>1. PICK a \in 0 .. g : Chain(w, 0, a) /\
           \E b \in 0 .. g : Chain(h, a, b) /\
           \E c \in 0 .. g : Chain(q, b, c) /\ n = c - b /\
           \E d \in 0 .. g : Chain(f, c, d) /\ Chain(e, d, g)
  BY DEF Laid
<1>2. PICK b \in 0 .. g : Chain(h, a, b) /\
           \E c \in 0 .. g : Chain(q, b, c) /\ n = c - b /\
           \E d \in 0 .. g : Chain(f, c, d) /\ Chain(e, d, g)
  BY <1>1
<1>3. PICK c \in 0 .. g : Chain(q, b, c) /\ n = c - b /\
           \E d \in 0 .. g : Chain(f, c, d) /\ Chain(e, d, g)
  BY <1>2
<1>4. PICK d \in 0 .. g : Chain(f, c, d) /\ Chain(e, d, g)
  BY <1>3
<1> QED
  BY <1>1, <1>2, <1>3, <1>4

LEMMA LaidIntro ==
  ASSUME NEW w, NEW h, NEW q \in Seq(Piece), NEW f \in Seq(Piece),
         NEW e \in Seq(Piece), NEW g \in Nat,
         h \in Seq(Piece),
         NEW a \in Nat, NEW b \in Nat, NEW c \in Nat, NEW d \in Nat,
         Chain(w, 0, a), Chain(h, a, b), Chain(q, b, c),
         Chain(f, c, d), Chain(e, d, g), NEW n, n = c - b
  PROVE  Laid(w, h, q, n, f, e, g)
<1>1. a <= b /\ b <= c /\ c <= d /\ d <= g
  BY ChainOrdered
<1>2. a \in 0 .. g /\ b \in 0 .. g /\ c \in 0 .. g /\ d \in 0 .. g
  BY <1>1
<1> QED
  BY <1>2 DEF Laid

\* The five end to end are the body.
LEMMA LaidWhole ==
  ASSUME NEW w \in Seq(Piece), NEW h \in Seq(Piece), NEW q \in Seq(Piece),
         NEW f \in Seq(Piece), NEW e \in Seq(Piece), NEW n, NEW g \in Nat,
         Laid(w, h, q, n, f, e, g)
  PROVE  Chain(w \o h \o q \o f \o e, 0, g)
<1>1. PICK a, b, c, d \in Nat :
           /\ Chain(w, 0, a) /\ Chain(h, a, b) /\ Chain(q, b, c)
           /\ Chain(f, c, d) /\ Chain(e, d, g)
  BY LaidUse
<1>2. PICK s2 : s2 = w \o h
  OBVIOUS
<1>3. PICK s3 : s3 = s2 \o q
  OBVIOUS
<1>4. PICK s4 : s4 = s3 \o f
  OBVIOUS
<1>5. s2 \in Seq(Piece) /\ Chain(s2, 0, b)
  BY <1>1, <1>2, ChainConcat
<1>6. s3 \in Seq(Piece) /\ Chain(s3, 0, c)
  BY <1>1, <1>3, <1>5, ChainConcat
<1>7. s4 \in Seq(Piece) /\ Chain(s4, 0, d)
  BY <1>1, <1>4, <1>6, ChainConcat
<1>8. Chain(s4 \o e, 0, g)
  BY <1>1, <1>7, ChainConcat
<1> QED
  BY <1>2, <1>3, <1>4, <1>8

\* write() behind a piece node waits for: the new one is the last buffered.
LEMMA LaidBuffer ==
  ASSUME NEW w \in Seq(Piece), NEW h \in Seq(Piece), NEW q \in Seq(Piece),
         NEW f \in Seq(Piece), NEW n, NEW g \in Nat, NEW p \in Piece,
         p.from = g, Laid(w, h, q, n, f, <<>>, g)
  PROVE  Laid(w, h, q, n, Append(f, p), <<>>, p.upto)
<1>1. PICK a, b, c, d \in Nat :
           /\ Chain(w, 0, a) /\ Chain(h, a, b) /\ Chain(q, b, c)
           /\ n = c - b /\ Chain(f, c, d) /\ Chain(<<>>, d, g)
  BY LaidUse
<1>2. d = g
  BY <1>1 DEF Chain
<1>3. Chain(Append(f, p), c, p.upto) /\ Append(f, p) \in Seq(Piece)
  BY <1>1, <1>2, ChainAppend
<1>4. Chain(<<>>, p.upto, p.upto) /\ <<>> \in Seq(Piece) /\ p.upto \in Nat
  BY PieceFacts DEF Chain
<1> QED
  BY <1>1, <1>3, <1>4, LaidIntro

\* end() behind a held piece: the last piece waits.
LEMMA LaidDefer ==
  ASSUME NEW w \in Seq(Piece), NEW h \in Seq(Piece), NEW q \in Seq(Piece),
         NEW f \in Seq(Piece), NEW n, NEW g \in Nat, NEW p \in Piece,
         p.from = g, Laid(w, h, q, n, f, <<>>, g)
  PROVE  Laid(w, h, q, n, f, <<p>>, p.upto)
<1>1. PICK a, b, c, d \in Nat :
           /\ Chain(w, 0, a) /\ Chain(h, a, b) /\ Chain(q, b, c)
           /\ n = c - b /\ Chain(f, c, d) /\ Chain(<<>>, d, g)
  BY LaidUse
<1>2. d = g
  BY <1>1 DEF Chain
<1>3. Chain(<<p>>, d, p.upto) /\ <<p>> \in Seq(Piece) /\ p.upto \in Nat
  BY <1>2, ChainOne, PieceFacts
<1> QED
  BY <1>1, <1>3, LaidIntro

\* A queued piece, the first that was buffered.
LEMMA LaidGather ==
  ASSUME NEW w \in Seq(Piece), NEW q \in Seq(Piece), NEW f \in Seq(Piece),
         NEW e \in Seq(Piece), NEW n \in Nat, NEW g \in Nat,
         f # <<>>, Laid(w, <<>>, q, n, f, e, g)
  PROVE  /\ Append(q, f[1]) \in Seq(Piece) /\ Tail(f) \in Seq(Piece)
         /\ Laid(w, <<>>, Append(q, f[1]), n + Size(f[1]), Tail(f), e, g)
<1>1. PICK a, b, c, d \in Nat :
           /\ Chain(w, 0, a) /\ Chain(<<>>, a, b) /\ Chain(q, b, c)
           /\ n = c - b /\ Chain(f, c, d) /\ Chain(e, d, g)
           /\ a <= g /\ b <= g /\ c <= g /\ d <= g
  BY LaidUse
<1>2. /\ f[1] \in Piece /\ f[1].from = c /\ Tail(f) \in Seq(Piece)
      /\ Chain(Tail(f), f[1].upto, d)
  BY <1>1, ChainTail
<1>3. Chain(Append(q, f[1]), b, f[1].upto) /\ Append(q, f[1]) \in Seq(Piece)
  BY <1>1, <1>2, ChainAppend
<1>4. f[1].upto \in Nat /\ f[1].upto - b = n + Size(f[1])
  BY <1>1, <1>2, PieceFacts
<1>5. Laid(w, <<>>, Append(q, f[1]), f[1].upto - b, Tail(f), e, g)
  <2>1. <<>> \in Seq(Piece)
    OBVIOUS
  <2> QED
    BY <1>1, <1>2, <1>3, <1>4, <2>1, LaidIntro
<1> QED
  BY <1>2, <1>3, <1>4, <1>5

\* The queue goes to the wire.
LEMMA LaidFlush ==
  ASSUME NEW w \in Seq(Piece), NEW q \in Seq(Piece), NEW f \in Seq(Piece),
         NEW e \in Seq(Piece), NEW n \in Nat, NEW g \in Nat,
         Laid(w, <<>>, q, n, f, e, g)
  PROVE  w \o q \in Seq(Piece) /\ Laid(w \o q, <<>>, <<>>, 0, f, e, g)
<1>1. PICK a, b, c, d \in Nat :
           /\ Chain(w, 0, a) /\ Chain(<<>>, a, b) /\ Chain(q, b, c)
           /\ n = c - b /\ Chain(f, c, d) /\ Chain(e, d, g)
           /\ a <= g /\ b <= g /\ c <= g /\ d <= g
  BY LaidUse
<1>2. a = b
  BY <1>1 DEF Chain
<1>3. w \o q \in Seq(Piece) /\ Chain(w \o q, 0, c)
  BY <1>1, <1>2, ChainConcat
<1>4. Chain(<<>>, c, c) /\ <<>> \in Seq(Piece) /\ c - c = 0
  BY <1>1 DEF Chain
<1> QED
  BY <1>1, <1>3, <1>4, LaidIntro

\* An empty piece is dropped.
LEMMA LaidSkip ==
  ASSUME NEW w \in Seq(Piece), NEW q \in Seq(Piece), NEW f \in Seq(Piece),
         NEW e \in Seq(Piece), NEW n \in Nat, NEW g \in Nat,
         f # <<>>, Size(f[1]) = 0, Laid(w, <<>>, q, n, f, e, g)
  PROVE  Tail(f) \in Seq(Piece) /\ Laid(w, <<>>, q, n, Tail(f), e, g)
<1>1. PICK a, b, c, d \in Nat :
           /\ Chain(w, 0, a) /\ Chain(<<>>, a, b) /\ Chain(q, b, c)
           /\ n = c - b /\ Chain(f, c, d) /\ Chain(e, d, g)
           /\ a <= g /\ b <= g /\ c <= g /\ d <= g
  BY LaidUse
<1>2. /\ f[1] \in Piece /\ f[1].from = c /\ Tail(f) \in Seq(Piece)
      /\ Chain(Tail(f), f[1].upto, d)
  BY <1>1, ChainTail
<1>3. f[1].upto = c
  BY <1>1, <1>2, PieceFacts
<1>4. <<>> \in Seq(Piece) /\ Chain(Tail(f), c, d)
  BY <1>2, <1>3
<1> QED
  BY <1>1, <1>2, <1>4, LaidIntro

\* The first buffered piece is offered to the wire, which takes t of it and
\* may leave r.
LEMMA LaidOffer ==
  ASSUME NEW w \in Seq(Piece), NEW f \in Seq(Piece),
         NEW e \in Seq(Piece), NEW n \in Nat, NEW g \in Nat,
         f # <<>>, Laid(w, <<>>, <<>>, n, f, e, g),
         NEW t \in Piece, NEW r \in Piece, t.from = f[1].from,
         r.from = t.upto, r.upto = f[1].upto
  PROVE  /\ Append(w, t) \in Seq(Piece) /\ Tail(f) \in Seq(Piece)
         /\ Chain(Append(w, t), 0, t.upto) /\ t.upto <= g
         /\ Laid(Append(w, t), <<r>>, <<>>, 0, Tail(f), e, g)
         /\ t.upto = r.upto =>
               Laid(Append(w, t), <<>>, <<>>, 0, Tail(f), e, g)
<1>0. ASSUME NEW h, NEW q, Laid(w, h, q, n, f, e, g)
      PROVE  \E a, b, c, d \in Nat :
                /\ Chain(w, 0, a) /\ Chain(h, a, b) /\ Chain(q, b, c)
                /\ n = c - b /\ Chain(f, c, d) /\ Chain(e, d, g)
                /\ a <= g /\ b <= g /\ c <= g /\ d <= g
  BY <1>0, LaidUse
<1>1. PICK a, b, c, d \in Nat :
           /\ Chain(w, 0, a) /\ Chain(<<>>, a, b) /\ Chain(<<>>, b, c)
           /\ n = c - b /\ Chain(f, c, d) /\ Chain(e, d, g)
           /\ a <= g /\ b <= g /\ c <= g /\ d <= g
  BY <1>0
<1>2. a = b /\ b = c
  BY <1>1 DEF Chain
<1>3. /\ f[1] \in Piece /\ f[1].from = c /\ Tail(f) \in Seq(Piece)
      /\ f[1].upto <= d /\ Chain(Tail(f), f[1].upto, d)
  BY <1>1, ChainTail
<1>4. Append(w, t) \in Seq(Piece) /\ Chain(Append(w, t), 0, t.upto)
  BY <1>1, <1>2, <1>3, ChainAppend
<1>5. /\ t.upto \in Nat /\ r.upto \in Nat /\ t.upto <= r.upto
      /\ t.upto - t.upto = 0 /\ r.upto - r.upto = 0
  <2>1. t.upto \in Nat
    BY PieceFacts
  <2>2. r.from \in Nat /\ r.upto \in Nat /\ r.from <= r.upto
    BY PieceFacts
  <2> QED
    BY <2>1, <2>2
<1>6. /\ Chain(<<r>>, t.upto, r.upto) /\ <<r>> \in Seq(Piece)
      /\ Chain(<<>>, t.upto, t.upto) /\ Chain(<<>>, r.upto, r.upto)
      /\ <<>> \in Seq(Piece) /\ Chain(Tail(f), r.upto, d)
  BY <1>3, ChainOne DEF Chain
<1>7. Laid(Append(w, t), <<r>>, <<>>, 0, Tail(f), e, g)
  <2>1. /\ Append(w, t) \in Seq(Piece) /\ Tail(f) \in Seq(Piece)
        /\ Chain(Append(w, t), 0, t.upto) /\ Chain(<<r>>, t.upto, r.upto)
        /\ Chain(<<>>, r.upto, r.upto) /\ Chain(Tail(f), r.upto, d)
        /\ Chain(e, d, g) /\ 0 = r.upto - r.upto
    BY <1>1, <1>3, <1>4, <1>5, <1>6
  <2> QED
    BY <1>5, <1>6, <2>1, LaidIntro
<1>8. ASSUME t.upto = r.upto
      PROVE  Laid(Append(w, t), <<>>, <<>>, 0, Tail(f), e, g)
  <2>1. /\ Append(w, t) \in Seq(Piece) /\ Tail(f) \in Seq(Piece)
        /\ Chain(Append(w, t), 0, t.upto) /\ Chain(<<>>, t.upto, t.upto)
        /\ Chain(Tail(f), t.upto, d)
        /\ Chain(e, d, g) /\ 0 = t.upto - t.upto
    BY <1>1, <1>3, <1>4, <1>5, <1>6, <1>8
  <2> QED
    BY <1>5, <1>6, <2>1, LaidIntro
<1>9. t.upto <= g
  BY <1>1, <1>3, <1>5
<1> QED
  BY <1>3, <1>4, <1>7, <1>8, <1>9

\* The held piece is offered again.
LEMMA LaidAgain ==
  ASSUME NEW w \in Seq(Piece), NEW h \in Piece, NEW f \in Seq(Piece),
         NEW e \in Seq(Piece), NEW n \in Nat, NEW g \in Nat,
         Laid(w, <<h>>, <<>>, n, f, e, g),
         NEW t \in Piece, NEW r \in Piece, t.from = h.from,
         r.from = t.upto, r.upto = h.upto
  PROVE  /\ Append(w, t) \in Seq(Piece)
         /\ Chain(Append(w, t), 0, t.upto) /\ t.upto <= g
         /\ Laid(Append(w, t), <<r>>, <<>>, 0, f, e, g)
         /\ t.upto = r.upto => Laid(Append(w, t), <<>>, <<>>, 0, f, e, g)
<1>1. PICK a, b, c, d \in Nat :
           /\ Chain(w, 0, a) /\ Chain(<<h>>, a, b) /\ Chain(<<>>, b, c)
           /\ n = c - b /\ Chain(f, c, d) /\ Chain(e, d, g)
           /\ a <= g /\ b <= g /\ c <= g /\ d <= g
  BY LaidUse
<1>2. b = c /\ h.from = a /\ h.upto = b
  BY <1>1 DEF Chain
<1>3. Append(w, t) \in Seq(Piece) /\ Chain(Append(w, t), 0, t.upto)
  BY <1>1, <1>2, ChainAppend
<1>4. t.upto \in Nat /\ r.upto \in Nat /\ t.upto <= r.upto /\ b - b = 0
  BY <1>1, PieceFacts
<1>5. /\ Chain(<<r>>, t.upto, b) /\ <<r>> \in Seq(Piece)
      /\ Chain(<<>>, b, b) /\ <<>> \in Seq(Piece)
  BY <1>2, ChainOne DEF Chain
<1>6. Laid(Append(w, t), <<r>>, <<>>, 0, f, e, g)
  BY <1>1, <1>2, <1>3, <1>4, <1>5, LaidIntro
<1>7. ASSUME t.upto = r.upto
      PROVE  Laid(Append(w, t), <<>>, <<>>, 0, f, e, g)
  BY <1>1, <1>2, <1>3, <1>4, <1>5, <1>7, LaidIntro
<1> QED
  BY <1>1, <1>2, <1>3, <1>4, <1>6, <1>7

\* The last piece p goes out behind the queue, or is empty and does not.
LEMMA LaidFinish ==
  ASSUME NEW w \in Seq(Piece), NEW q \in Seq(Piece), NEW n \in Nat,
         NEW g \in Nat, NEW p \in Piece, Laid(w, <<>>, q, n, <<>>, <<p>>, g)
  PROVE  /\ (w \o q) \o <<p>> \in Seq(Piece) /\ Chain((w \o q) \o <<p>>, 0, g)
         /\ Size(p) = 0 => Chain(w \o q, 0, g)
<1>1. PICK a, b, c, d \in Nat :
           /\ Chain(w, 0, a) /\ Chain(<<>>, a, b) /\ Chain(q, b, c)
           /\ n = c - b /\ Chain(<<>>, c, d) /\ Chain(<<p>>, d, g)
           /\ a <= g /\ b <= g /\ c <= g /\ d <= g
  BY LaidUse
<1>2. a = b /\ c = d /\ p.from = d /\ p.upto = g
  BY <1>1 DEF Chain
<1>3. w \o q \in Seq(Piece) /\ Chain(w \o q, 0, c)
  BY <1>1, <1>2, ChainConcat
<1>4. <<p>> \in Seq(Piece)
  OBVIOUS
<1>5. PICK u : u = w \o q
  OBVIOUS
<1>6. PICK v : v = <<p>>
  OBVIOUS
<1>8. u \o v \in Seq(Piece) /\ Chain(u \o v, 0, g)
  <2>1. u \in Seq(Piece) /\ Chain(u, 0, c) /\ v \in Seq(Piece)
    BY <1>3, <1>4, <1>5, <1>6
  <2>2. Chain(v, c, g)
    BY <1>1, <1>2, <1>6
  <2> QED
    BY <1>1, <2>1, <2>2, ChainConcat
<1>7. Size(p) = 0 => c = g
  BY <1>2, PieceFacts
<1> QED
  BY <1>3, <1>5, <1>6, <1>7, <1>8

-----------------------------------------------------------------------------

\* Every byte given is in its place.
Layout ==
    ~finished => Laid(wire, held, queued, queuedBytes, buffered, deferredEnd,
                      given)

\* The response is over exactly when uWS's is, is armed only before, and its
\* stream is destroyed only after.
Over ==
    /\ finished <=> uws # "open"
    /\ armed => ~finished
    /\ destroyed => finished

\* What a running response keeps between two pieces of _write.
Running ==
    /\ writing = writingChunk
    /\ writing =>
          /\ queued = <<>> /\ full
          /\ \/ handler = "chunk" /\ pendingCallback /\ held = <<>>
             \/ handler = "tryEnd" /\ held # <<>>
    /\ ~writing => held = <<>>
    /\ chunked => held = <<>>
    /\ ~chunked => queued = <<>>
    /\ queued # <<>> => headOut

\* Nothing is buffered unless node waits or is being called back.
Waiting ==
    /\ writing => turn # "clear"
    /\ ~writing => buffered = <<>> \/ turn = "clear"
    /\ ~chunked => given <= length

Core ==
    /\ Over /\ Layout /\ CompleteBody
    /\ ends = 0 => deferredEnd = <<>>
    /\ ~finished => Running /\ Waiting

IInv == TypeOK /\ Core

-----------------------------------------------------------------------------
\* Where tryEnd cuts a piece.
LEMMA CutFacts ==
  ASSUME NEW p \in Piece, NEW k \in 0 .. Size(p)
  PROVE  /\ Taken(p, k) \in Piece /\ Rest(p, k) \in Piece
         /\ Taken(p, k).from = p.from /\ Taken(p, k).upto = p.from + k
         /\ Rest(p, k).from = p.from + k /\ Rest(p, k).upto = p.upto
  BY DEF Piece, Size, Taken, Rest

LEMMA NextPieceFacts ==
  ASSUME TypeOK, NEW n \in 0 .. MaxSize
  PROVE  /\ NextPiece(n) \in Piece
         /\ NextPiece(n).from = given /\ NextPiece(n).upto = given + n
         /\ given + n \in Nat /\ Size(NextPiece(n)) = n
  BY ResponseAssumption DEF TypeOK, AppTypeOK, NextPiece, Piece, Size

-----------------------------------------------------------------------------
(* Type correctness. *)

\* A group of variables that a step leaves alone keeps its types.
LEMMA Untouched ==
  ASSUME TypeOK
  PROVE  /\ UNCHANGED appVars => AppTypeOK'
         /\ UNCHANGED nodeVars => NodeTypeOK'
         /\ UNCHANGED queueVars => QueueTypeOK'
         /\ UNCHANGED overVars => OverTypeOK'
         /\ UNCHANGED sendVars => SendTypeOK'
         /\ UNCHANGED restVars => RestTypeOK'
<1>1. UNCHANGED appVars => AppTypeOK'
  BY DEF TypeOK, AppTypeOK, appVars
<1>2. UNCHANGED nodeVars => NodeTypeOK'
  BY DEF TypeOK, NodeTypeOK, nodeVars
<1>3. UNCHANGED queueVars => QueueTypeOK'
  BY DEF TypeOK, QueueTypeOK, queueVars
<1>4. UNCHANGED overVars => OverTypeOK'
  BY DEF TypeOK, OverTypeOK, overVars
<1>5. UNCHANGED sendVars => SendTypeOK'
  BY DEF TypeOK, SendTypeOK, sendVars
<1>6. UNCHANGED restVars => RestTypeOK'
  BY DEF TypeOK, RestTypeOK, restVars, turnVars
<1> QED
  BY <1>1, <1>2, <1>3, <1>4, <1>5, <1>6

LEMMA SinkType ==
  ASSUME TypeOK, NEW p \in Piece, Sink(p)
  PROVE  QueueTypeOK' /\ OverTypeOK' /\ SendTypeOK' /\ writing' \in BOOLEAN
<1>1. Size(p) \in Nat
  BY PieceFacts
<1>2. CASE RefuseWrite
  <2>1. UNCHANGED queueVars /\ UNCHANGED sendVars /\ writing' \in BOOLEAN
    BY <1>2 DEF RefuseWrite
  <2>2. OverTypeOK'
    BY <1>2 DEF RefuseWrite, StreamDestroy, TypeOK, OverTypeOK
  <2> QED
    BY <2>1, <2>2, Untouched
<1>3. CASE Gather(p)
  <2>1. QueueTypeOK'
    BY <1>1, <1>3 DEF Gather, TypeOK, QueueTypeOK
  <2>2. SendTypeOK'
    BY <1>3 DEF Gather, TypeOK, SendTypeOK
  <2>3. UNCHANGED overVars /\ writing' \in BOOLEAN
    BY <1>3 DEF Gather
  <2> QED
    BY <2>1, <2>2, <2>3, Untouched
<1>4. CASE FlushWith(p)
  <2>1. queued \in Seq(Piece) /\ wire \in Seq(Piece)
    BY DEF TypeOK, QueueTypeOK, SendTypeOK
  <2>2. Append(queued, p) \in Seq(Piece)
    BY <2>1
  <2>3. wire \o Append(queued, p) \in Seq(Piece)
    BY <2>1, <2>2
  <2>4. QueueTypeOK'
    BY <1>4 DEF FlushWith, TypeOK, QueueTypeOK
  <2>5. SendTypeOK' /\ writing' \in BOOLEAN
    BY <1>4, <2>3 DEF FlushWith, TypeOK, SendTypeOK, HandlerAfterFlush
  <2>6. UNCHANGED overVars
    BY <1>4 DEF FlushWith
  <2> QED
    BY <2>4, <2>5, <2>6, Untouched
<1>5. CASE SkipEmpty(p)
  <2>1. SendTypeOK'
    BY <1>5 DEF SkipEmpty, TypeOK, SendTypeOK
  <2>2. UNCHANGED queueVars /\ UNCHANGED overVars /\ writing' \in BOOLEAN
    BY <1>5 DEF SkipEmpty
  <2> QED
    BY <2>1, <2>2, Untouched
<1>6. CASE TryEnd(p)
  <2>1. PICK k \in 0 .. Size(p) :
          /\ wire' = Append(wire, Taken(p, k))
          /\ held' = IF k < Size(p) THEN <<Rest(p, k)>> ELSE <<>>
          /\ writing' = (k < Size(p))
          /\ writingChunk' = (k < Size(p))
          /\ full' = (k < Size(p))
          /\ handler' = IF k < Size(p) THEN "tryEnd" ELSE handler
          /\ IF DoneAfter(p, k)
             THEN UwsEnds /\ closeEvent' = "booked"
             ELSE UNCHANGED <<finished, uws, armed, closeEvent>>
    BY <1>6 DEF TryEnd
  <2>2. wire' \in Seq(Piece)
    BY <2>1, CutFacts DEF TypeOK, SendTypeOK
  <2>3. held' \in Seq(Piece) /\ Len(held') <= 1
    <3>1. <<Rest(p, k)>> \in Seq(Piece) /\ Len(<<Rest(p, k)>>) = 1
      BY CutFacts
    <3>2. <<>> \in Seq(Piece) /\ Len(<<>>) = 0
      OBVIOUS
    <3> QED
      BY <2>1, <3>1, <3>2
  <2>4. writing' \in BOOLEAN /\ writingChunk' \in BOOLEAN /\ full' \in BOOLEAN
    BY <2>1
  <2>5. handler' \in {"none", "chunk", "tryEnd"}
    BY <2>1 DEF TypeOK, SendTypeOK
  <2>6. headOut' \in BOOLEAN /\ pendingCallback' \in BOOLEAN
    BY <1>6 DEF TryEnd, TypeOK, SendTypeOK
  <2>7. SendTypeOK'
    BY <2>2, <2>3, <2>4, <2>5, <2>6 DEF SendTypeOK
  <2>8. UNCHANGED <<destroyed, aborted>> /\ UNCHANGED queueVars
    BY <1>6 DEF TryEnd
  <2>9. OverTypeOK'
    <3>1. CASE DoneAfter(p, k)
      BY <2>1, <2>8, <3>1 DEF UwsEnds, TypeOK, OverTypeOK
    <3>2. CASE ~DoneAfter(p, k)
      BY <2>1, <2>8, <3>2 DEF TypeOK, OverTypeOK
    <3> QED
      BY <3>1, <3>2
  <2> QED
    BY <2>4, <2>7, <2>8, <2>9, Untouched
<1> QED
  BY <1>2, <1>3, <1>4, <1>5, <1>6 DEF Sink

LEMMA FinishType ==
  ASSUME TypeOK, NEW p \in Piece, Finish(p)
  PROVE  QueueTypeOK' /\ OverTypeOK' /\ SendTypeOK' /\ linked' \in BOOLEAN
<1>1. /\ wire \in Seq(Piece) /\ queued \in Seq(Piece)
      /\ wire \o queued \in Seq(Piece)
  BY DEF TypeOK, SendTypeOK, QueueTypeOK
<1>2. PICK last : last = IF Size(p) = 0 THEN <<>> ELSE <<p>>
  OBVIOUS
<1>3. last \in Seq(Piece)
  <2>1. <<>> \in Seq(Piece) /\ <<p>> \in Seq(Piece)
    OBVIOUS
  <2> QED
    BY <1>2, <2>1
<1>4. wire \o last \in Seq(Piece) /\ QueueThen(last) \in Seq(Piece)
  BY <1>1, <1>3 DEF QueueThen
<1>5. wire' \in {wire, wire \o last, QueueThen(last)}
  BY <1>2 DEF Finish
<1>6. wire' \in Seq(Piece)
  BY <1>1, <1>4, <1>5
<1>7. QueueTypeOK'
  BY DEF Finish, TypeOK, QueueTypeOK
<1>8. OverTypeOK'
  BY DEF Finish, UwsEnds, TypeOK, OverTypeOK
<1>9. SendTypeOK' /\ linked' \in BOOLEAN
  BY <1>6 DEF Finish, TypeOK, SendTypeOK
<1> QED
  BY <1>7, <1>8, <1>9

LEMMA CloseType ==
  ASSUME TypeOK, CloseConnection
  PROVE  OverTypeOK'
BY DEF CloseConnection, NativeAborted, StreamDestroy, TypeOK, OverTypeOK

LEMMA TypeStep ==
  ASSUME TypeOK, [Next]_vars
  PROVE  TypeOK'
<1> USE Untouched
<1>1. ASSUME NEW n \in 0 .. MaxSize, Write(n)
      PROVE  TypeOK'
  <2>1. NextPiece(n) \in Piece /\ NextPiece(n).upto \in Nat
    BY NextPieceFacts
  <2>2. AppTypeOK'
    BY <1>1, <2>1 DEF Write, TypeOK, AppTypeOK
  <2>3. UNCHANGED restVars
    BY <1>1 DEF Write
  <2>4. CASE writing
    <3>1. NodeTypeOK'
      BY <1>1, <2>1, <2>4 DEF Write, TypeOK, NodeTypeOK
    <3>2. UNCHANGED queueVars /\ UNCHANGED overVars /\ UNCHANGED sendVars
      BY <1>1, <2>4 DEF Write
    <3> QED
      BY <2>2, <2>3, <3>1, <3>2 DEF TypeOK
  <2>5. CASE ~writing
    <3>1. /\ Sink(NextPiece(n)) /\ UNCHANGED buffered
          /\ needDrain' = (needDrain \/ n >= HighWaterMark)
      BY <1>1, <2>5 DEF Write
    <3>2. QueueTypeOK' /\ OverTypeOK' /\ SendTypeOK' /\ writing' \in BOOLEAN
      BY <2>1, <3>1, SinkType
    <3>3. NodeTypeOK'
      BY <3>1, <3>2 DEF TypeOK, NodeTypeOK
    <3> QED
      BY <2>2, <2>3, <3>2, <3>3 DEF TypeOK
  <2> QED
    BY <2>4, <2>5
<1>2. ASSUME NEW n \in 0 .. MaxSize, End(n)
      PROVE  TypeOK'
  <2>1. NextPiece(n) \in Piece /\ NextPiece(n).upto \in Nat
    BY NextPieceFacts
  <2>2. AppTypeOK'
    BY <1>2, <2>1 DEF End, TypeOK, AppTypeOK
  <2>3. UNCHANGED nodeVars /\ UNCHANGED turnVars
    BY <1>2 DEF End
  <2>4. CASE /\ deferredEnd' = <<NextPiece(n)>>
             /\ UNCHANGED <<queueVars, overVars, sendVars, linked>>
    <3>1. deferredEnd' \in Seq(Piece) /\ Len(deferredEnd') <= 1
      BY <2>1, <2>4
    <3>2. RestTypeOK'
      BY <2>3, <2>4, <3>1 DEF TypeOK, RestTypeOK, turnVars
    <3> QED
      BY <2>2, <2>3, <2>4, <3>2 DEF TypeOK
  <2>5. CASE UNCHANGED <<queueVars, overVars, sendVars, deferredEnd, linked>>
    BY <2>2, <2>3, <2>5 DEF TypeOK, restVars
  <2>6. CASE Finish(NextPiece(n)) /\ UNCHANGED deferredEnd
    <3>1. QueueTypeOK' /\ OverTypeOK' /\ SendTypeOK' /\ linked' \in BOOLEAN
      BY <2>1, <2>6, FinishType
    <3>2. RestTypeOK'
      BY <2>3, <2>6, <3>1 DEF TypeOK, RestTypeOK, turnVars
    <3> QED
      BY <2>2, <2>3, <3>1, <3>2 DEF TypeOK
  <2> QED
    BY <1>2, <2>4, <2>5, <2>6 DEF End
<1>3. CASE Destroy
  <2>1. NodeTypeOK'
    BY <1>3 DEF Destroy, TypeOK, NodeTypeOK
  <2>2. OverTypeOK'
    BY <1>3 DEF Destroy, StreamDestroy, TypeOK, OverTypeOK
  <2>3. UNCHANGED <<appVars, queueVars, sendVars, restVars>>
    BY <1>3 DEF Destroy
  <2> QED
    BY <2>1, <2>2, <2>3 DEF TypeOK
<1>4. CASE ErrorEvent
  <2>1. NodeTypeOK'
    BY <1>4 DEF ErrorEvent, TypeOK, NodeTypeOK
  <2>2. OverTypeOK'
    BY <1>4, CloseType DEF ErrorEvent
  <2>3. RestTypeOK'
    BY <1>4 DEF ErrorEvent, UnlinkOnError, TypeOK, RestTypeOK, turnVars
  <2>4. UNCHANGED <<appVars, queueVars, sendVars>>
    BY <1>4 DEF ErrorEvent
  <2> QED
    BY <2>1, <2>2, <2>3, <2>4 DEF TypeOK
<1>5. CASE SocketClose
  <2>1. NodeTypeOK'
    BY <1>5 DEF SocketClose, TypeOK, NodeTypeOK
  <2>2. OverTypeOK'
    BY <1>5, CloseType DEF SocketClose
  <2>3. UNCHANGED <<appVars, queueVars, sendVars, restVars>>
    BY <1>5 DEF SocketClose
  <2> QED
    BY <2>1, <2>2, <2>3 DEF TypeOK
<1>6. CASE LeaveHandler
  <2>1. OverTypeOK' /\ RestTypeOK'
    BY <1>6 DEF LeaveHandler, TypeOK, OverTypeOK, RestTypeOK
  <2>2. UNCHANGED <<appVars, nodeVars, queueVars, sendVars>>
    BY <1>6 DEF LeaveHandler
  <2> QED
    BY <2>1, <2>2 DEF TypeOK
<1>7. CASE ClientAbort
  <2>1. NodeTypeOK'
    BY <1>7 DEF ClientAbort, TypeOK, NodeTypeOK
  <2>2. OverTypeOK'
    BY <1>7 DEF ClientAbort, NativeAborted, StreamDestroy, TypeOK, OverTypeOK
  <2>3. UNCHANGED <<appVars, queueVars, sendVars, restVars>>
    BY <1>7 DEF ClientAbort
  <2> QED
    BY <2>1, <2>2, <2>3 DEF TypeOK
<1>8. CASE FlushTick
  <2>1. UNCHANGED <<appVars, overVars, restVars>>
    BY <1>8 DEF FlushTick
  <2>2. CASE FlushSkipped
    BY <1>8, <2>1, <2>2
      DEF FlushTick, TypeOK, NodeTypeOK, QueueTypeOK, SendTypeOK
  <2>3. CASE ~FlushSkipped
    <3>1. NodeTypeOK'
      BY <1>8, <2>3 DEF FlushTick, TypeOK, NodeTypeOK
    <3>2. QueueTypeOK'
      <4>1. queued' = <<>> /\ queuedBytes' = 0 /\ flushBooked' = FALSE
        BY <1>8, <2>3 DEF FlushTick
      <4>2. <<>> \in Seq(Piece)
        OBVIOUS
      <4> QED
        BY <4>1, <4>2 DEF QueueTypeOK
    <3>3. wire' \in Seq(Piece)
      <4>1. wire' = wire \o queued
        BY <1>8, <2>3 DEF FlushTick
      <4>2. wire \in Seq(Piece) /\ queued \in Seq(Piece)
        BY DEF TypeOK, QueueTypeOK, SendTypeOK
      <4> QED
        BY <4>1, <4>2
    <3>4. SendTypeOK'
      BY <1>8, <2>3, <3>3 DEF FlushTick, TypeOK, SendTypeOK
    <3> QED
      BY <2>1, <3>1, <3>2, <3>4 DEF TypeOK
  <2> QED
    BY <2>2, <2>3
<1>9. CASE DrainTick
  <2>1. NodeTypeOK'
    BY <1>9 DEF DrainTick, TypeOK, NodeTypeOK
  <2>2. UNCHANGED <<appVars, queueVars, overVars, sendVars, restVars>>
    BY <1>9 DEF DrainTick
  <2> QED
    BY <2>1, <2>2 DEF TypeOK
<1>10. CASE CloseTick
  <2>1. OverTypeOK'
    BY <1>10 DEF CloseTick, TypeOK, OverTypeOK
  <2>2. RestTypeOK'
    BY <1>10 DEF CloseTick, TypeOK, RestTypeOK, turnVars
  <2>3. UNCHANGED <<appVars, nodeVars, queueVars, sendVars>>
    BY <1>10 DEF CloseTick
  <2> QED
    BY <2>1, <2>2, <2>3 DEF TypeOK
<1>11. CASE DrainUnheard
  <2>1. SendTypeOK'
    BY <1>11 DEF DrainUnheard, TypeOK, SendTypeOK
  <2>2. UNCHANGED <<appVars, nodeVars, queueVars, overVars, restVars>>
    BY <1>11 DEF DrainUnheard
  <2> QED
    BY <2>1, <2>2 DEF TypeOK
<1>12. CASE DrainChunk
  <2>1. NodeTypeOK'
    BY <1>12 DEF DrainChunk, StillWriting, TypeOK, NodeTypeOK
  <2>2. SendTypeOK'
    BY <1>12 DEF DrainChunk, TypeOK, SendTypeOK
  <2>3. RestTypeOK'
    BY <1>12 DEF DrainChunk, TypeOK, RestTypeOK
  <2>4. UNCHANGED <<appVars, queueVars, overVars>>
    BY <1>12 DEF DrainChunk
  <2> QED
    BY <2>1, <2>2, <2>3, <2>4 DEF TypeOK
<1>13. CASE DrainTryEnd
  <2>1. held[1] \in Piece
    BY <1>13 DEF DrainTryEnd, TypeOK, SendTypeOK
  <2>2. PICK k \in 1 .. Size(held[1]) :
          /\ wire' = Append(wire, Taken(held[1], k))
          /\ held' = IF k = Size(held[1]) THEN <<>> ELSE <<Rest(held[1], k)>>
          /\ full' = (k # Size(held[1]))
          /\ writingChunk' = (k # Size(held[1]))
          /\ writing' = (k # Size(held[1]))
          /\ turn' = IF k = Size(held[1]) THEN "clear" ELSE "idle"
          /\ IF DoneAfter(held[1], k) THEN UwsEnds
             ELSE UNCHANGED <<finished, uws, armed>>
    BY <1>13 DEF DrainTryEnd
  <2>3. k \in 0 .. Size(held[1])
    BY <2>1, PieceFacts
  <2>4. Taken(held[1], k) \in Piece /\ Rest(held[1], k) \in Piece
    BY <2>1, <2>3, CutFacts
  <2>5. wire' \in Seq(Piece)
    BY <2>2, <2>4 DEF TypeOK, SendTypeOK
  <2>6. held' \in Seq(Piece) /\ Len(held') <= 1
    <3>1. PICK r \in Piece : r = Rest(held[1], k)
      BY <2>4
    <3>2. /\ <<r>> \in Seq(Piece) /\ Len(<<r>>) = 1
          /\ <<>> \in Seq(Piece) /\ Len(<<>>) = 0
      OBVIOUS
    <3>3. held' = <<>> \/ held' = <<r>>
      BY <2>2, <3>1
    <3>4. CASE held' = <<>>
      BY <3>2, <3>4
    <3>5. CASE held' = <<r>>
      BY <3>2, <3>5
    <3> QED
      BY <3>3, <3>4, <3>5
  <2>7. SendTypeOK'
    BY <1>13, <2>2, <2>5, <2>6 DEF DrainTryEnd, TypeOK, SendTypeOK
  <2>8. OverTypeOK'
    <3>1. UNCHANGED <<aborted, destroyed, closeEvent>>
      BY <1>13 DEF DrainTryEnd
    <3>2. CASE DoneAfter(held[1], k)
      BY <2>2, <3>1, <3>2 DEF UwsEnds, TypeOK, OverTypeOK
    <3>3. CASE ~DoneAfter(held[1], k)
      BY <2>2, <3>1, <3>3 DEF TypeOK, OverTypeOK
    <3> QED
      BY <3>2, <3>3
  <2>9. NodeTypeOK'
    BY <1>13, <2>2 DEF DrainTryEnd, TypeOK, NodeTypeOK
  <2>10. RestTypeOK'
    BY <1>13, <2>2 DEF DrainTryEnd, TypeOK, RestTypeOK
  <2>11. UNCHANGED <<appVars, queueVars>>
    BY <1>13 DEF DrainTryEnd
  <2> QED
    BY <2>7, <2>8, <2>9, <2>10, <2>11 DEF TypeOK
<1>14. CASE ClearBuffer
  <2>1. UNCHANGED <<appVars, needDrain, deferredEnd, linked, window>>
    BY <1>14 DEF ClearBuffer
  <2>2. CASE buffered = <<>>
    <3>1. /\ turn' = "after"
          /\ UNCHANGED <<buffered, writing, queueVars, overVars, sendVars>>
      BY <1>14, <2>2 DEF ClearBuffer
    <3>2. RestTypeOK'
      BY <2>1, <3>1 DEF TypeOK, RestTypeOK
    <3> QED
      BY <2>1, <3>1, <3>2 DEF TypeOK, nodeVars
  <2>3. CASE buffered # <<>>
    <3>1. Head(buffered) \in Piece /\ Tail(buffered) \in Seq(Piece)
      BY <2>3 DEF TypeOK, NodeTypeOK
    <3>2. /\ Sink(Head(buffered)) /\ (buffered' = <<>> \/ buffered' = Tail(buffered))
          /\ turn' \in {"clear", "after"}
      BY <1>14, <2>3 DEF ClearBuffer
    <3>3. QueueTypeOK' /\ OverTypeOK' /\ SendTypeOK' /\ writing' \in BOOLEAN
      BY <3>1, <3>2, SinkType
    <3>4. buffered' \in Seq(Piece)
      <4>1. <<>> \in Seq(Piece)
        OBVIOUS
      <4> QED
        BY <3>1, <3>2, <4>1
    <3>5. NodeTypeOK'
      BY <2>1, <3>3, <3>4 DEF TypeOK, NodeTypeOK
    <3>6. RestTypeOK'
      BY <2>1, <3>2 DEF TypeOK, RestTypeOK
    <3> QED
      BY <2>1, <3>3, <3>5, <3>6 DEF TypeOK
  <2> QED
    BY <2>2, <2>3
<1>15. CASE AfterPending
  <2>1. turn' = "idle" /\ UNCHANGED <<appVars, nodeVars, window>>
    BY <1>15 DEF AfterPending
  <2>2. CASE EndMayRun
    <3>1. deferredEnd' = <<>>
      BY <1>15, <2>2 DEF AfterPending
    <3>2. CASE finished
      <4>1. UNCHANGED <<queueVars, overVars, sendVars, linked>>
        BY <1>15, <2>2, <3>2 DEF AfterPending
      <4>2. RestTypeOK'
        BY <2>1, <3>1, <4>1 DEF TypeOK, RestTypeOK
      <4> QED
        BY <2>1, <4>1, <4>2 DEF TypeOK
    <3>3. CASE ~finished
      <4>1. Finish(deferredEnd[1])
        BY <1>15, <2>2, <3>3 DEF AfterPending
      <4>2. deferredEnd[1] \in Piece
        BY <2>2 DEF EndMayRun, TypeOK, RestTypeOK
      <4>3. QueueTypeOK' /\ OverTypeOK' /\ SendTypeOK' /\ linked' \in BOOLEAN
        BY <4>1, <4>2, FinishType
      <4>4. RestTypeOK'
        BY <2>1, <3>1, <4>3 DEF TypeOK, RestTypeOK
      <4> QED
        BY <2>1, <4>3, <4>4 DEF TypeOK
    <3> QED
      BY <3>2, <3>3
  <2>3. CASE ~EndMayRun
    <3>1. UNCHANGED <<queueVars, overVars, sendVars, deferredEnd, linked>>
      BY <1>15, <2>3 DEF AfterPending
    <3>2. RestTypeOK'
      BY <2>1, <3>1 DEF TypeOK, RestTypeOK
    <3> QED
      BY <2>1, <3>1, <3>2 DEF TypeOK
  <2> QED
    BY <2>2, <2>3
<1>16. CASE UNCHANGED vars
  BY <1>16 DEF vars, TypeOK
<1> QED
  BY <1>1, <1>2, <1>3, <1>4, <1>5, <1>6, <1>7, <1>8, <1>9, <1>10, <1>11,
     <1>12, <1>13, <1>14, <1>15, <1>16 DEF Next

LEMMA InitType == Init => TypeOK
<1> SUFFICES ASSUME Init
             PROVE  TypeOK
  OBVIOUS
<1>1. <<>> \in Seq(Piece) /\ Len(<<>>) = 0
  OBVIOUS
<1>2. AppTypeOK
  BY ResponseAssumption DEF Init, AppTypeOK
<1>3. NodeTypeOK /\ QueueTypeOK
  BY <1>1 DEF Init, NodeTypeOK, QueueTypeOK
<1>4. OverTypeOK
  BY DEF Init, OverTypeOK
<1>5. SendTypeOK
  <2>1. wire = <<>> /\ held = <<>> /\ Len(held) <= 1
    BY <1>1 DEF Init
  <2> QED
    BY <1>1, <2>1 DEF Init, SendTypeOK
<1>6. RestTypeOK
  BY <1>1 DEF Init, RestTypeOK
<1> QED
  BY <1>2, <1>3, <1>4, <1>5, <1>6 DEF TypeOK

\* Every variable keeps its type, whatever the order of calls and callbacks.
THEOREM TypeCorrect == Spec => []TypeOK
<1>1. TypeOK /\ [Next]_vars => TypeOK'
  BY TypeStep
<1> QED
  BY <1>1, InitType, PTL DEF Spec

-----------------------------------------------------------------------------
(* What one piece and the end do to the invariant. *)

LEMMA SinkRunning ==
  ASSUME TypeOK, Over, Running, ~finished, ~writing, NEW p \in Piece,
         length' = length, Sink(p)
  PROVE  Over' /\ (~finished' => Running')
<1>1. ~RefuseWrite
  BY DEF RefuseWrite
<1>2. CASE Gather(p)
  BY <1>2 DEF Gather, Over, overVars, Running, chunked
<1>3. CASE FlushWith(p)
  BY <1>3 DEF FlushWith, Over, overVars, Running, chunked, HandlerAfterFlush
<1>4. CASE SkipEmpty(p)
  BY <1>4 DEF SkipEmpty, Over, overVars, queueVars, Running, chunked
<1>5. CASE TryEnd(p)
  <2>1. PICK k \in 0 .. Size(p) :
          /\ held' = IF k < Size(p) THEN <<Rest(p, k)>> ELSE <<>>
          /\ writing' = (k < Size(p))
          /\ writingChunk' = (k < Size(p))
          /\ full' = (k < Size(p))
          /\ handler' = IF k < Size(p) THEN "tryEnd" ELSE handler
          /\ IF DoneAfter(p, k)
             THEN UwsEnds /\ closeEvent' = "booked"
             ELSE UNCHANGED <<finished, uws, armed, closeEvent>>
          /\ UNCHANGED destroyed
    BY <1>5 DEF TryEnd
  <2>2. Over'
    BY <2>1 DEF Over, UwsEnds
  <2>3. ~chunked /\ ~chunked' /\ queued' = queued /\ queued = <<>>
    BY <1>5 DEF TryEnd, Running, chunked, queueVars
  <2>4. CASE k < Size(p)
    BY <2>1, <2>2, <2>3, <2>4 DEF Running
  <2>5. CASE ~(k < Size(p))
    BY <2>1, <2>2, <2>3, <2>5 DEF Running
  <2> QED
    BY <2>2, <2>4, <2>5
<1> QED
  BY <1>1, <1>2, <1>3, <1>4, <1>5 DEF Sink

\* f is node's buffer, its first piece the one offered.
LEMMA SinkLaid ==
  ASSUME TypeOK, Running, ~finished, ~writing, uws = "open",
         NEW f \in Seq(Piece), f # <<>>, NEW e \in Seq(Piece), NEW g \in Nat,
         ~chunked => g <= length,
         Laid(wire, held, queued, queuedBytes, f, e, g), Sink(f[1])
  PROVE  /\ ~finished' =>
               Laid(wire', held', queued', queuedBytes', Tail(f), e, g)
         /\ uws' = "ended" => Chain(wire', 0, g)
<1>1. /\ f[1] \in Piece /\ wire \in Seq(Piece) /\ queued \in Seq(Piece)
      /\ queuedBytes \in Nat /\ held = <<>> /\ length \in Nat \cup {NoLength}
  BY DEF TypeOK, SendTypeOK, QueueTypeOK, AppTypeOK, Running
<1>2. Laid(wire, <<>>, queued, queuedBytes, f, e, g)
  BY <1>1
<1>3. ~RefuseWrite
  BY DEF RefuseWrite
<1>4. CASE Gather(f[1])
  <2>1. Laid(wire, <<>>, Append(queued, f[1]), queuedBytes + Size(f[1]),
             Tail(f), e, g)
    BY <1>1, <1>2, LaidGather
  <2> QED
    BY <1>1, <1>4, <2>1 DEF Gather, overVars
<1>5. CASE FlushWith(f[1])
  <2>1. PICK q : q = Append(queued, f[1])
    OBVIOUS
  <2>2. PICK n \in Nat : n = queuedBytes + Size(f[1])
    BY <1>1, PieceFacts
  <2>3. q \in Seq(Piece) /\ Tail(f) \in Seq(Piece)
        /\ Laid(wire, <<>>, q, n, Tail(f), e, g)
    BY <1>1, <1>2, <2>1, <2>2, LaidGather
  <2>4. Laid(wire \o q, <<>>, <<>>, 0, Tail(f), e, g)
    BY <1>1, <2>3, LaidFlush
  <2> QED
    BY <1>1, <1>5, <2>1, <2>4 DEF FlushWith, overVars
<1>6. CASE SkipEmpty(f[1])
  <2>1. Laid(wire, <<>>, queued, queuedBytes, Tail(f), e, g)
    BY <1>1, <1>2, <1>6, LaidSkip DEF SkipEmpty
  <2> QED
    BY <1>1, <1>6, <2>1 DEF SkipEmpty, overVars, queueVars
<1>7. CASE TryEnd(f[1])
  <2>1. PICK k \in 0 .. Size(f[1]) :
          /\ wire' = Append(wire, Taken(f[1], k))
          /\ held' = IF k < Size(f[1]) THEN <<Rest(f[1], k)>> ELSE <<>>
          /\ IF DoneAfter(f[1], k)
             THEN UwsEnds
             ELSE UNCHANGED <<finished, uws, armed>>
    BY <1>7 DEF TryEnd
  <2>2. PICK t \in Piece, r \in Piece :
          /\ t = Taken(f[1], k) /\ r = Rest(f[1], k)
          /\ t.from = f[1].from /\ t.upto = f[1].from + k
          /\ r.from = t.upto /\ r.upto = f[1].upto
    BY <1>1, CutFacts
  <2>3. queued = <<>> /\ queued' = <<>> /\ queuedBytes' = queuedBytes
    BY <1>7 DEF TryEnd, Running, queueVars
  <2>4. Laid(wire, <<>>, <<>>, queuedBytes, f, e, g)
    BY <1>2, <2>3
  <2>5. /\ Chain(Append(wire, t), 0, t.upto) /\ t.upto <= g
        /\ Laid(Append(wire, t), <<r>>, <<>>, 0, Tail(f), e, g)
        /\ t.upto = r.upto =>
              Laid(Append(wire, t), <<>>, <<>>, 0, Tail(f), e, g)
    BY <1>1, <2>2, <2>4, LaidOffer
  <2>6. queuedBytes = 0
    BY <1>1, <2>4, LaidUse DEF Chain
  <2>7. ~finished' =>
            Laid(wire', held', queued', queuedBytes', Tail(f), e, g)
    <3>1. CASE k < Size(f[1])
      BY <2>1, <2>2, <2>3, <2>5, <2>6, <3>1
    <3>2. CASE ~(k < Size(f[1]))
      <4>1. t.upto = r.upto
        BY <1>1, <2>2, <3>2, PieceFacts
      <4> QED
        BY <2>1, <2>2, <2>3, <2>5, <2>6, <3>2, <4>1
    <3> QED
      BY <3>1, <3>2
  <2>8. ASSUME uws' = "ended"
        PROVE  Chain(wire', 0, g)
    <3>1. DoneAfter(f[1], k)
      BY <2>1, <2>8
    <3>2. length \in Nat /\ g <= length /\ (Size(f[1]) > 0 \/ length = 0)
      BY <1>1, <1>7, PieceFacts DEF TryEnd, chunked
    <3>3. t.upto >= length
      BY <1>1, <2>2, <3>1, <3>2, PieceFacts DEF DoneAfter
    <3>4. t.upto = g
      <4>1. t.upto \in Nat
        BY PieceFacts
      <4> QED
        BY <2>5, <3>2, <3>3, <4>1
    <3> QED
      BY <2>1, <2>2, <2>5, <3>4
  <2> QED
    BY <2>7, <2>8
<1> QED
  BY <1>3, <1>4, <1>5, <1>6, <1>7 DEF Sink

LEMMA FinishComplete ==
  ASSUME TypeOK, Running, ~writing, NEW p \in Piece, NEW g \in Nat,
         Laid(wire, held, queued, queuedBytes, <<>>, <<p>>, g), Finish(p)
  PROVE  /\ finished' /\ uws' = "ended" /\ ~armed'
         /\ hasBody => Chain(wire', 0, g)
<1>1. finished' /\ uws' = "ended" /\ ~armed'
  BY DEF Finish, UwsEnds
<1>2. /\ wire \in Seq(Piece) /\ queued \in Seq(Piece) /\ queuedBytes \in Nat
      /\ held = <<>> /\ Laid(wire, <<>>, queued, queuedBytes, <<>>, <<p>>, g)
  BY DEF TypeOK, SendTypeOK, QueueTypeOK, Running
<1>3. /\ Chain((wire \o queued) \o <<p>>, 0, g)
      /\ Size(p) = 0 => Chain(wire \o queued, 0, g)
  BY <1>2, LaidFinish
<1>4. PICK s \in Seq(Piece) : s = wire \o queued
  <2>1. wire \o queued \in Seq(Piece)
    BY <1>2
  <2> QED
    BY <2>1
<1>5. ASSUME hasBody
      PROVE  Chain(wire', 0, g)
  <2>1. wire' = s \o (IF Size(p) = 0 THEN <<>> ELSE <<p>>)
    <3>1. CASE headOut /\ chunked
      BY <1>4, <3>1 DEF Finish, QueueThen
    <3>2. CASE ~(headOut /\ chunked)
      <4>1. queued = <<>>
        BY <3>2 DEF Running
      <4>2. s = wire
        BY <1>2, <1>4, <4>1
      <4> QED
        BY <1>5, <3>2, <4>2 DEF Finish
    <3> QED
      BY <3>1, <3>2
  <2>2. CASE Size(p) = 0
    <3>1. wire' = s
      BY <2>1, <2>2
    <3> QED
      BY <1>3, <1>4, <2>2, <3>1
  <2>3. CASE Size(p) # 0
    BY <1>3, <1>4, <2>1, <2>3
  <2> QED
    BY <2>2, <2>3
<1> QED
  BY <1>1, <1>5

\* A response that is over, or closed by this step, has no body to place.
LEMMA OverStep ==
  ASSUME Core, finished', Over', UNCHANGED hasBody,
         ends' = 0 => deferredEnd' = <<>>,
         uws' = "ended" => uws = "ended" /\ UNCHANGED <<wire, given>>
  PROVE  Core'
BY DEF Core, CompleteBody, Layout

\* A step that moves no byte.
LEMMA StillStep ==
  ASSUME Core,
         UNCHANGED <<wire, held, queued, queuedBytes, buffered, deferredEnd,
                     given, finished, uws, destroyed, hasBody, ends>>,
         armed' => ~finished',
         ~finished => Running' /\ Waiting'
  PROVE  Core'
BY DEF Core, Over, Layout, CompleteBody

\* The step of a piece that node offers: Write when nothing is out, and
\* ClearBuffer.
LEMMA OfferStep ==
  ASSUME TypeOK, Core, ~finished, ~writing,
         NEW f \in Seq(Piece), f # <<>>,
         given' \in Nat, ~chunked => given' <= length,
         UNCHANGED <<length, hasBody, deferredEnd>>,
         ends' = 0 => deferredEnd = <<>>,
         Laid(wire, held, queued, queuedBytes, f, deferredEnd, given'),
         Sink(f[1]),
         ~finished' => buffered' = Tail(f),
         writing' => turn' # "clear",
         ~writing' => Tail(f) = <<>> \/ turn' = "clear"
  PROVE  Core'
<1>1. f[1] \in Piece /\ uws = "open" /\ Running /\ deferredEnd \in Seq(Piece)
  BY DEF Core, Over, TypeOK, RestTypeOK
<1>2. Over' /\ (~finished' => Running')
  BY <1>1, SinkRunning DEF Core
<1>3. /\ ~finished' => Laid(wire', held', queued', queuedBytes', Tail(f),
                            deferredEnd, given')
      /\ uws' = "ended" => Chain(wire', 0, given')
  BY <1>1, SinkLaid
<1>4. Layout'
  BY <1>3 DEF Layout
<1>5. ~finished' => Waiting'
  BY DEF Waiting, chunked
<1> QED
  BY <1>2, <1>3, <1>4, <1>5 DEF Core, CompleteBody

LEMMA RefuseStep ==
  ASSUME finished, NEW p, Sink(p)
  PROVE  UNCHANGED <<finished, uws, armed, wire, held>>
BY DEF Sink, RefuseWrite, Gather, FlushWith, SkipEmpty, TryEnd, sendVars

LEMMA WriteStep ==
  ASSUME IInv, NEW n \in 0 .. MaxSize, Write(n)
  PROVE  Core'
<1>1. /\ TypeOK /\ Core /\ NextPiece(n) \in Piece
      /\ NextPiece(n).from = given /\ NextPiece(n).upto = given + n
      /\ given + n \in Nat /\ given \in Nat
  BY NextPieceFacts DEF IInv, TypeOK, AppTypeOK
<1>2. /\ ends = 0 /\ UNCHANGED <<ends, length, hasBody, deferredEnd, turn>>
      /\ deferredEnd = <<>> /\ turn = "idle"
      /\ given' = IF finished THEN given ELSE given + n
      /\ ~chunked => given + n <= length
  BY <1>1 DEF Write, restVars, turnVars, Core
<1>3. CASE finished
  <2>1. UNCHANGED <<finished, uws, armed, wire, given>>
    <3>1. CASE writing
      BY <1>2, <1>3, <3>1 DEF Write, overVars, sendVars
    <3>2. CASE ~writing
      BY <1>2, <1>3, <3>2, RefuseStep DEF Write
    <3> QED
      BY <3>1, <3>2
  <2>2. Over'
    BY <1>1, <1>3, <2>1 DEF Core, Over
  <2> QED
    BY <1>1, <1>2, <1>3, <2>1, <2>2, OverStep
<1>4. CASE ~finished
  <2>1. PICK f : f = Append(buffered, NextPiece(n))
    OBVIOUS
  <2>2. /\ wire \in Seq(Piece) /\ held \in Seq(Piece) /\ queued \in Seq(Piece)
        /\ buffered \in Seq(Piece)
    BY <1>1 DEF TypeOK, SendTypeOK, QueueTypeOK, NodeTypeOK
  <2>3. Laid(wire, held, queued, queuedBytes, buffered, <<>>, given)
    BY <1>1, <1>2, <1>4 DEF Core, Layout
  <2>4. Laid(wire, held, queued, queuedBytes, f, <<>>, given')
    BY <1>1, <1>2, <1>4, <2>1, <2>2, <2>3, LaidBuffer
  <2>5. CASE writing
    <3>1. /\ buffered' = f
          /\ UNCHANGED <<writing, queueVars, overVars, sendVars>>
      BY <1>4, <2>1, <2>5 DEF Write
    <3>2. Layout'
      BY <1>2, <2>4, <3>1 DEF Layout, queueVars, overVars, sendVars
    <3>3. Running' /\ Waiting'
      BY <1>1, <1>2, <1>4, <2>5, <3>1
        DEF Core, Running, Waiting, chunked, queueVars, sendVars
    <3>4. Over' /\ CompleteBody'
      BY <1>1, <1>4, <3>1 DEF Core, Over, CompleteBody, overVars
    <3> QED
      BY <1>2, <3>2, <3>3, <3>4 DEF Core
  <2>6. CASE ~writing
    <3>1. buffered = <<>> /\ Sink(NextPiece(n)) /\ UNCHANGED buffered
      BY <1>1, <1>2, <1>4, <2>6 DEF Write, Core, Waiting
    <3>2. /\ f \in Seq(Piece) /\ f # <<>> /\ f[1] = NextPiece(n)
          /\ Tail(f) = <<>>
      BY <1>1, <2>1, <3>1
    <3> QED
      BY <1>1, <1>2, <1>4, <2>4, <2>6, <3>1, <3>2, OfferStep
  <2> QED
    BY <2>5, <2>6
<1> QED
  BY <1>3, <1>4

LEMMA EndStep ==
  ASSUME MaxEnds <= 1, IInv, NEW n \in 0 .. MaxSize, End(n)
  PROVE  Core'
<1>1. /\ TypeOK /\ Core /\ NextPiece(n) \in Piece
      /\ NextPiece(n).from = given /\ NextPiece(n).upto = given + n
      /\ given + n \in Nat /\ given \in Nat
  BY NextPieceFacts DEF IInv, TypeOK, AppTypeOK
<1>2. /\ ends = 0 /\ ends' = 1 /\ deferredEnd = <<>> /\ turn = "idle"
      /\ UNCHANGED <<length, hasBody, buffered, writing, turn>>
      /\ given' = IF finished THEN given ELSE given + n
      /\ ~chunked => given + n <= length
  BY <1>1, ResponseAssumption
    DEF End, Core, TypeOK, AppTypeOK, nodeVars, turnVars
<1>3. CASE finished
  <2>1. UNCHANGED <<finished, uws, armed, wire, given>>
    BY <1>2, <1>3 DEF End, overVars, sendVars
  <2>2. Over'
    BY <1>1, <1>3, <2>1 DEF Core, Over
  <2> QED
    BY <1>1, <1>2, <1>3, <2>1, <2>2, OverStep
<1>4. CASE ~finished
  <2>1. PICK p \in Piece : p = NextPiece(n)
    BY <1>1
  <2>2. /\ wire \in Seq(Piece) /\ held \in Seq(Piece) /\ queued \in Seq(Piece)
        /\ buffered \in Seq(Piece) /\ Running /\ Waiting
    BY <1>1, <1>4 DEF TypeOK, SendTypeOK, QueueTypeOK, NodeTypeOK, Core
  <2>3. Laid(wire, held, queued, queuedBytes, buffered, <<>>, given)
    BY <1>1, <1>2, <1>4 DEF Core, Layout
  <2>4. Laid(wire, held, queued, queuedBytes, buffered, <<p>>, given')
    BY <1>1, <1>2, <1>4, <2>1, <2>2, <2>3, LaidDefer
  <2>5. CASE writingChunk
    <3>1. /\ deferredEnd' = <<p>>
          /\ UNCHANGED <<queueVars, overVars, sendVars, linked>>
      BY <1>4, <2>1, <2>5 DEF End
    <3>2. Layout'
      BY <1>2, <2>4, <3>1 DEF Layout, queueVars, overVars, sendVars
    <3>3. Running' /\ Waiting'
      BY <1>2, <1>4, <2>2, <2>5, <3>1
        DEF Running, Waiting, chunked, queueVars, sendVars
    <3>4. Over' /\ CompleteBody'
      BY <1>1, <1>4, <3>1 DEF Core, Over, CompleteBody, overVars
    <3> QED
      BY <1>2, <3>2, <3>3, <3>4 DEF Core
  <2>6. CASE ~writingChunk
    <3>1. Finish(p) /\ UNCHANGED deferredEnd
      BY <1>4, <2>1, <2>6 DEF End
    <3>2. ~writing /\ buffered = <<>>
      BY <1>2, <2>2, <2>6 DEF Running, Waiting
    <3>3. Laid(wire, held, queued, queuedBytes, <<>>, <<p>>, given')
      BY <2>4, <3>2
    <3>4. given' \in Nat
      BY <1>1, <1>2
    <3>5. /\ finished' /\ uws' = "ended" /\ ~armed'
          /\ hasBody => Chain(wire', 0, given')
      BY <1>1, <2>2, <3>1, <3>2, <3>3, <3>4, FinishComplete
    <3> QED
      BY <1>2, <3>1, <3>5 DEF Core, Over, Layout, CompleteBody
  <2> QED
    BY <2>5, <2>6
<1> QED
  BY <1>3, <1>4

LEMMA CloseOver ==
  ASSUME CloseConnection
  PROVE  finished' /\ uws' = "closed" /\ ~armed'
BY DEF CloseConnection

LEMMA DrainChunkStep ==
  ASSUME IInv, DrainChunk
  PROVE  Core'
<1>1. /\ TypeOK /\ Core /\ Running /\ Waiting /\ ~finished
      /\ turn = "idle" /\ handler = "chunk"
  BY DEF IInv, Core, DrainChunk
<1>2. /\ UNCHANGED <<appVars, buffered, queueVars, overVars, headOut, wire,
                     held, deferredEnd>>
      /\ writingChunk' = FALSE
      /\ turn' = IF pendingCallback THEN "clear" ELSE "after"
  BY DEF DrainChunk
<1>3. writing' = FALSE /\ (buffered = <<>> \/ turn' = "clear")
  <2>1. CASE pendingCallback
    BY <1>2, <2>1 DEF DrainChunk, StillWriting
  <2>2. CASE ~pendingCallback
    <3>1. ~writing
      BY <1>1, <2>2 DEF Running
    <3> QED
      BY <1>1, <3>1, <2>2 DEF DrainChunk, StillWriting, Waiting
  <2> QED
    BY <2>1, <2>2
<1>4. held = <<>>
  BY <1>1 DEF Running
<1>5. Running'
  BY <1>1, <1>2, <1>3, <1>4
    DEF Running, chunked, queueVars, appVars
<1>6. Waiting'
  BY <1>1, <1>2, <1>3 DEF Waiting, chunked, appVars
<1> QED
  BY <1>1, <1>2, <1>5, <1>6, StillStep
    DEF appVars, queueVars, overVars, Core, Over

LEMMA DrainTryEndStep ==
  ASSUME IInv, DrainTryEnd
  PROVE  Core'
<1>1. /\ TypeOK /\ Core /\ Running /\ Waiting /\ ~finished /\ uws = "open"
      /\ held # <<>> /\ turn = "idle"
  BY DEF IInv, Core, DrainTryEnd
<1>2. /\ held \in Seq(Piece) /\ wire \in Seq(Piece) /\ Len(held) <= 1
      /\ buffered \in Seq(Piece) /\ deferredEnd \in Seq(Piece)
      /\ queuedBytes \in Nat /\ given \in Nat /\ length \in Nat \cup {NoLength}
  BY <1>1 DEF TypeOK, SendTypeOK, NodeTypeOK, RestTypeOK, QueueTypeOK,
              AppTypeOK
<1>3. PICK h \in Piece : h = held[1] /\ held = <<h>>
  <2>1. held[1] \in Piece /\ held = <<held[1]>>
    BY <1>1, <1>2, Single
  <2> QED
    BY <2>1
<1>4. PICK k \in 1 .. Size(h) :
        /\ wire' = Append(wire, Taken(h, k))
        /\ held' = IF k = Size(h) THEN <<>> ELSE <<Rest(h, k)>>
        /\ full' = (k # Size(h))
        /\ writingChunk' = (k # Size(h))
        /\ writing' = (k # Size(h))
        /\ turn' = IF k = Size(h) THEN "clear" ELSE "idle"
        /\ IF DoneAfter(h, k) THEN UwsEnds
           ELSE UNCHANGED <<finished, uws, armed>>
  BY <1>3 DEF DrainTryEnd
<1>5. /\ UNCHANGED <<appVars, buffered, queueVars, handler, deferredEnd,
                     destroyed>>
      /\ handler = "tryEnd"
  BY DEF DrainTryEnd
<1>6. ~chunked /\ queued = <<>> /\ length \in Nat /\ given <= length
  BY <1>1, <1>2 DEF Running, Waiting, chunked
<1>7. k \in 0 .. Size(h) /\ k > 0
  BY <1>3, PieceFacts
<1>8. PICK t \in Piece, r \in Piece :
        /\ t = Taken(h, k) /\ r = Rest(h, k)
        /\ t.from = h.from /\ t.upto = h.from + k
        /\ r.from = t.upto /\ r.upto = h.upto
  BY <1>7, CutFacts
<1>9. Laid(wire, <<h>>, <<>>, queuedBytes, buffered, deferredEnd, given)
  BY <1>1, <1>3, <1>6 DEF Core, Layout
<1>10. /\ Chain(Append(wire, t), 0, t.upto) /\ t.upto <= given
       /\ Laid(Append(wire, t), <<r>>, <<>>, 0, buffered, deferredEnd, given)
       /\ t.upto = r.upto =>
             Laid(Append(wire, t), <<>>, <<>>, 0, buffered, deferredEnd, given)
  BY <1>2, <1>8, <1>9, LaidAgain
<1>11. queuedBytes = 0
  BY <1>2, <1>9, LaidUse DEF Chain
<1>12. Layout'
  <2>1. queued' = <<>> /\ queuedBytes' = 0 /\ given' = given
    BY <1>5, <1>6, <1>11 DEF appVars, queueVars
  <2>2. CASE k = Size(h)
    <3>1. t.upto = r.upto
      BY <1>8, <2>2, PieceFacts
    <3> QED
      BY <1>4, <1>5, <1>8, <1>10, <2>1, <2>2, <3>1 DEF Layout
  <2>3. CASE k # Size(h)
    BY <1>4, <1>5, <1>8, <1>10, <2>1, <2>3 DEF Layout
  <2> QED
    BY <2>2, <2>3
<1>13. Running' /\ Waiting'
  BY <1>1, <1>4, <1>5, <1>6 DEF Running, Waiting, chunked, appVars, queueVars
<1>14. CASE DoneAfter(h, k)
  <2>1. t.upto = given
    <3>1. t.upto \in Nat /\ t.upto >= length
      BY <1>6, <1>7, <1>8, <1>14, PieceFacts DEF DoneAfter
    <3> QED
      BY <1>2, <1>6, <1>10, <3>1
  <2> QED
    BY <1>1, <1>4, <1>5, <1>8, <1>10, <1>12, <1>14, <2>1
      DEF Core, Over, CompleteBody, UwsEnds, appVars
<1>15. CASE ~DoneAfter(h, k)
  BY <1>1, <1>4, <1>5, <1>12, <1>13, <1>15
    DEF Core, Over, CompleteBody, appVars
<1> QED
  BY <1>14, <1>15

LEMMA ClearStep ==
  ASSUME IInv, ClearBuffer
  PROVE  Core'
<1>1. /\ TypeOK /\ Core /\ turn = "clear" /\ buffered \in Seq(Piece)
      /\ UNCHANGED <<given, ends, length, hasBody, deferredEnd>>
      /\ given \in Nat
  BY DEF IInv, ClearBuffer, appVars, TypeOK, NodeTypeOK, AppTypeOK
<1>2. CASE buffered = <<>>
  <2>1. UNCHANGED <<buffered, writing, queueVars, overVars, sendVars>>
    BY <1>2 DEF ClearBuffer
  <2>2. ~finished => Running' /\ Waiting'
    BY <1>1, <1>2, <2>1
      DEF Core, Running, Waiting, chunked, queueVars, sendVars
  <2> QED
    BY <1>1, <2>1, <2>2, StillStep DEF queueVars, overVars, sendVars, Core, Over
<1>3. CASE buffered # <<>>
  <2>1. /\ Sink(Head(buffered)) /\ Head(buffered) = buffered[1]
        /\ buffered' = IF destroyed' THEN <<>> ELSE Tail(buffered)
        /\ turn' = IF writing' THEN "after" ELSE "clear"
    BY <1>3 DEF ClearBuffer
  <2>2. CASE finished
    <3>1. UNCHANGED <<finished, uws, armed, wire>>
      BY <2>1, <2>2, RefuseStep
    <3>2. Over'
      BY <1>1, <2>2, <3>1 DEF Core, Over
    <3>3. ends' = 0 => deferredEnd' = <<>>
      BY <1>1 DEF Core
    <3> QED
      BY <1>1, <2>2, <3>1, <3>2, <3>3, OverStep
  <2>3. CASE ~finished
    <3>1. Running /\ Waiting /\ ~writing
      BY <1>1, <2>3 DEF Core, Waiting
    <3>2. Laid(wire, held, queued, queuedBytes, buffered, deferredEnd, given)
      BY <1>1, <2>3 DEF Core, Layout
    <3>3. ~finished' => buffered' = Tail(buffered)
      <4>1. buffered[1] \in Piece
        BY <1>1, <1>3
      <4>2. Over'
        BY <1>1, <2>1, <2>3, <3>1, <4>1, SinkRunning DEF Core
      <4> QED
        BY <2>1, <4>2 DEF Over
    <3> QED
      BY <1>1, <1>3, <2>1, <2>3, <3>1, <3>2, <3>3, OfferStep DEF Core, Waiting
  <2> QED
    BY <2>2, <2>3
<1> QED
  BY <1>2, <1>3

LEMMA AfterStep ==
  ASSUME IInv, AfterPending
  PROVE  Core'
<1>1. /\ TypeOK /\ Core /\ turn = "after" /\ turn' = "idle"
      /\ UNCHANGED <<given, ends, length, hasBody, buffered, writing>>
      /\ given \in Nat
  BY DEF IInv, AfterPending, appVars, nodeVars, TypeOK, AppTypeOK
<1>2. CASE ~EndMayRun
  <2>1. UNCHANGED <<queueVars, overVars, sendVars, deferredEnd>>
    BY <1>2 DEF AfterPending
  <2>2. ~finished => Running' /\ Waiting'
    BY <1>1, <2>1 DEF Core, Running, Waiting, chunked, queueVars, sendVars
  <2> QED
    BY <1>1, <2>1, <2>2, StillStep DEF queueVars, overVars, sendVars, Core, Over
<1>3. CASE EndMayRun /\ finished
  <2>1. UNCHANGED <<overVars, sendVars>> /\ deferredEnd' = <<>>
    BY <1>3 DEF AfterPending
  <2>2. Over' /\ UNCHANGED <<finished, uws, wire>>
    BY <1>1, <2>1 DEF Core, Over, overVars, sendVars
  <2> QED
    BY <1>1, <1>3, <2>1, <2>2, OverStep
<1>4. CASE EndMayRun /\ ~finished
  <2>1. PICK p \in Piece : p = deferredEnd[1] /\ deferredEnd = <<p>>
    <3>1. deferredEnd[1] \in Piece /\ deferredEnd = <<deferredEnd[1]>>
      BY <1>1, <1>4, Single DEF EndMayRun, TypeOK, RestTypeOK
    <3> QED
      BY <3>1
  <2>2. Finish(p) /\ deferredEnd' = <<>>
    BY <1>4, <2>1 DEF AfterPending
  <2>3. Running /\ ~writing /\ buffered = <<>>
    BY <1>1, <1>4 DEF EndMayRun, Core, Running, Waiting
  <2>4. Laid(wire, held, queued, queuedBytes, <<>>, <<p>>, given)
    BY <1>1, <1>4, <2>1, <2>3 DEF Core, Layout
  <2>5. /\ finished' /\ uws' = "ended" /\ ~armed'
        /\ hasBody => Chain(wire', 0, given)
    BY <1>1, <2>2, <2>3, <2>4, FinishComplete
  <2> QED
    BY <1>1, <2>2, <2>5 DEF Core, Over, Layout, CompleteBody
<1> QED
  BY <1>2, <1>3, <1>4

LEMMA FlushTickStep ==
  ASSUME IInv, FlushTick
  PROVE  Core'
<1>1. /\ TypeOK /\ Core /\ turn = "idle"
      /\ UNCHANGED <<appVars, buffered, writing, overVars, headOut,
                     pendingCallback, held, handler, deferredEnd, turn>>
  BY DEF IInv, FlushTick, restVars, turnVars
<1>2. CASE FlushSkipped
  <2>1. UNCHANGED <<queued, queuedBytes, wire, full, writingChunk>>
    BY <1>2 DEF FlushTick
  <2>2. ~finished => Running' /\ Waiting'
    BY <1>1, <2>1 DEF Core, Running, Waiting, chunked, appVars
  <2> QED
    BY <1>1, <2>1, <2>2, StillStep DEF appVars, overVars, Core, Over
<1>3. CASE ~FlushSkipped
  <2>1. ~finished /\ queuedBytes # 0 /\ Running /\ Waiting
    BY <1>1, <1>3 DEF FlushSkipped, Core
  <2>2. /\ wire \in Seq(Piece) /\ queued \in Seq(Piece)
        /\ buffered \in Seq(Piece) /\ deferredEnd \in Seq(Piece)
        /\ queuedBytes \in Nat /\ given \in Nat
    BY <1>1 DEF TypeOK, SendTypeOK, QueueTypeOK, NodeTypeOK, RestTypeOK,
                AppTypeOK
  <2>3. Laid(wire, held, queued, queuedBytes, buffered, deferredEnd, given)
    BY <1>1, <2>1 DEF Core, Layout
  <2>4. queued # <<>>
    BY <2>1, <2>2, <2>3, LaidUse DEF Chain
  <2>5. writing = FALSE /\ held = <<>> /\ chunked /\ headOut
    BY <1>1, <2>1, <2>4 DEF Running, TypeOK, NodeTypeOK
  <2>6. /\ wire' = wire \o queued /\ queued' = <<>> /\ queuedBytes' = 0
        /\ writingChunk' = FALSE
    BY <1>3 DEF FlushTick
  <2>7. Laid(wire \o queued, <<>>, <<>>, 0, buffered, deferredEnd, given)
    BY <2>2, <2>3, <2>5, LaidFlush
  <2>8. Layout'
    BY <1>1, <2>5, <2>6, <2>7 DEF Layout, appVars
  <2>9. Running' /\ Waiting'
    BY <1>1, <2>1, <2>5, <2>6 DEF Running, Waiting, chunked, appVars
  <2>10. Over' /\ CompleteBody'
    BY <1>1, <2>1 DEF Core, Over, CompleteBody, overVars
  <2> QED
    BY <1>1, <2>8, <2>9, <2>10 DEF Core, appVars
<1> QED
  BY <1>2, <1>3

LEMMA Inductive ==
  ASSUME MaxEnds <= 1, IInv, [Next]_vars
  PROVE  IInv'
<1> SUFFICES Core'
  BY TypeStep DEF IInv
<1>1. Core
  BY DEF IInv
<1>2. ASSUME NEW n \in 0 .. MaxSize, Write(n) \/ End(n)
      PROVE  Core'
  BY <1>2, WriteStep, EndStep
<1>3. CASE Destroy
  <2>1. finished' /\ UNCHANGED <<hasBody, given, wire, ends, deferredEnd>>
    BY <1>3 DEF Destroy, appVars, sendVars, restVars
  <2>2. Over' /\ (uws' = "ended" => uws = "ended")
    BY <1>1, <1>3 DEF Destroy, Core, Over
  <2> QED
    BY <1>1, <2>1, <2>2, OverStep DEF Core
<1>4. CASE ErrorEvent \/ SocketClose
  <2>1. CloseConnection /\ UNCHANGED <<hasBody, ends, deferredEnd>>
    BY <1>4 DEF ErrorEvent, SocketClose, appVars, restVars
  <2>2. finished' /\ uws' = "closed" /\ Over'
    BY <2>1, CloseOver DEF Over
  <2> QED
    BY <1>1, <2>1, <2>2, OverStep DEF Core
<1>5. CASE LeaveHandler
  <2>1. /\ UNCHANGED <<appVars, nodeVars, queueVars, finished, uws, destroyed,
                       sendVars, deferredEnd, turn>>
        /\ armed' = ~finished
    BY <1>5 DEF LeaveHandler
  <2>2. ~finished => Running' /\ Waiting'
    BY <1>1, <2>1 DEF Core, Running, Waiting, chunked, appVars, nodeVars,
                      queueVars, sendVars
  <2> QED
    BY <1>1, <2>1, <2>2, StillStep DEF appVars, nodeVars, queueVars, sendVars
<1>6. CASE ClientAbort
  <2>1. /\ finished' /\ uws' = "closed" /\ ~armed'
        /\ UNCHANGED <<hasBody, ends, deferredEnd>>
    BY <1>6 DEF ClientAbort, NativeAborted, appVars, restVars
  <2>2. Over'
    BY <2>1 DEF Over
  <2> QED
    BY <1>1, <2>1, <2>2, OverStep DEF Core
<1>7. CASE FlushTick
  BY <1>7, FlushTickStep
<1>8. CASE DrainTick
  <2>1. UNCHANGED <<appVars, buffered, writing, queueVars, overVars, sendVars,
                    restVars>>
    BY <1>8 DEF DrainTick
  <2>2. ~finished => Running' /\ Waiting'
    BY <1>1, <2>1 DEF Core, Running, Waiting, chunked, appVars, queueVars,
                      sendVars, restVars, turnVars
  <2> QED
    BY <1>1, <2>1, <2>2, StillStep
      DEF appVars, queueVars, overVars, sendVars, restVars, Core, Over
<1>9. CASE CloseTick
  <2>1. UNCHANGED <<appVars, nodeVars, queueVars, finished, uws, armed,
                    destroyed, sendVars, deferredEnd, turnVars>>
    BY <1>9 DEF CloseTick
  <2>2. ~finished => Running' /\ Waiting'
    BY <1>1, <2>1 DEF Core, Running, Waiting, chunked, appVars, nodeVars,
                      queueVars, sendVars, turnVars
  <2> QED
    BY <1>1, <2>1, <2>2, StillStep
      DEF appVars, nodeVars, queueVars, sendVars, Core, Over
<1>10. CASE DrainUnheard
  <2>1. /\ UNCHANGED <<appVars, nodeVars, queueVars, overVars, headOut,
                       writingChunk, pendingCallback, wire, held, handler,
                       restVars>>
        /\ handler = "none" \/ (handler = "tryEnd" /\ held = <<>>)
    BY <1>10 DEF DrainUnheard
  <2>2. ~finished => Running' /\ Waiting'
    BY <1>1, <2>1 DEF Core, Running, Waiting, chunked, appVars, nodeVars,
                      queueVars, restVars, turnVars
  <2> QED
    BY <1>1, <2>1, <2>2, StillStep
      DEF appVars, nodeVars, queueVars, overVars, restVars, Core, Over
<1>11. CASE DrainChunk \/ DrainTryEnd
  BY <1>11, DrainChunkStep, DrainTryEndStep
<1>12. CASE ClearBuffer \/ AfterPending
  BY <1>12, ClearStep, AfterStep
<1>13. CASE UNCHANGED vars
  <2>1. UNCHANGED <<appVars, nodeVars, queueVars, overVars, sendVars, restVars>>
    BY <1>13 DEF vars
  <2>2. ~finished => Running' /\ Waiting'
    BY <1>1, <2>1 DEF Core, Running, Waiting, chunked, appVars, nodeVars,
                      queueVars, sendVars, restVars, turnVars
  <2> QED
    BY <1>1, <2>1, <2>2, StillStep
      DEF appVars, nodeVars, queueVars, overVars, sendVars, restVars, Core, Over
<1> QED
  BY <1>2, <1>3, <1>4, <1>5, <1>6, <1>7, <1>8, <1>9, <1>10, <1>11, <1>12,
     <1>13 DEF Next

LEMMA Initial == Init => IInv
<1> SUFFICES ASSUME Init
             PROVE  IInv
  OBVIOUS
<1>1. Layout
  BY DEF Init, Layout, Laid, Chain
<1>2. Over /\ CompleteBody /\ Running
  BY DEF Init, Over, CompleteBody, Running
<1>3. Waiting
  BY ResponseAssumption DEF Init, Waiting, chunked
<1>4. TypeOK
  BY InitType
<1> QED
  BY <1>1, <1>2, <1>3, <1>4 DEF IInv, Core, Init

LEMMA Invariance == ASSUME MaxEnds <= 1 PROVE Spec => []IInv
<1>1. IInv /\ [Next]_vars => IInv'
  BY Inductive
<1> QED
  BY <1>1, Initial, PTL DEF Spec

-----------------------------------------------------------------------------
(* The promises of the response, when end() is called at most once.          *)

\* No byte is lost, doubled or overtaken while the response runs.
THEOREM Safe_NothingLost == ASSUME MaxEnds <= 1 PROVE Spec => []NothingLost
<1>1. IInv => NothingLost
  <2> SUFFICES ASSUME IInv, ~finished
               PROVE  Chain(wire \o held \o queued \o buffered \o deferredEnd,
                            0, given)
    BY DEF NothingLost
  <2>1. /\ wire \in Seq(Piece) /\ held \in Seq(Piece) /\ queued \in Seq(Piece)
        /\ buffered \in Seq(Piece) /\ deferredEnd \in Seq(Piece)
        /\ given \in Nat
    BY DEF IInv, TypeOK, AppTypeOK, SendTypeOK, QueueTypeOK, NodeTypeOK,
           RestTypeOK
  <2>2. Laid(wire, held, queued, queuedBytes, buffered, deferredEnd, given)
    BY DEF IInv, Core, Layout
  <2> QED
    BY <2>1, <2>2, LaidWhole
<1> QED
  BY <1>1, Invariance, PTL

\* What was ended through uWS carries the whole body.
THEOREM Safe_CompleteBody == ASSUME MaxEnds <= 1 PROVE Spec => []CompleteBody
<1>1. IInv => CompleteBody
  BY DEF IInv, Core
<1> QED
  BY <1>1, Invariance, PTL

\* A piece node waits on can always be called back.
THEOREM Safe_HeldHasHandler ==
  ASSUME MaxEnds <= 1 PROVE Spec => []HeldHasHandler
<1>1. IInv => HeldHasHandler
  BY DEF IInv, Core, HeldHasHandler, Running
<1> QED
  BY <1>1, Invariance, PTL

-----------------------------------------------------------------------------
(* The write path implements BodyDelivery.                                   *)

\* What s gains is at its end.
Grows(s, t) ==
    /\ t \in Seq(Piece) /\ Len(t) >= Len(s)
    /\ \A i \in 1 .. Len(s) : t[i] = s[i]

LEMMA GrowsSame == \A s \in Seq(Piece) : Grows(s, s)
  BY DEF Grows

LEMMA GrowsAppend ==
  \A s \in Seq(Piece), p \in Piece : Grows(s, Append(s, p))
  BY DEF Grows

LEMMA GrowsConcat ==
  \A s \in Seq(Piece), t \in Seq(Piece) : Grows(s, s \o t)
  BY DEF Grows

LEMMA GrowsTwice ==
  ASSUME NEW s \in Seq(Piece), NEW t \in Seq(Piece), NEW u \in Seq(Piece)
  PROVE  Grows(s, (s \o t) \o u)
<1>1. PICK v : v = s \o t
  OBVIOUS
<1>2. v \in Seq(Piece) /\ Grows(s, v)
  BY <1>1, GrowsSame, GrowsAppend, GrowsConcat DEF Grows
<1>3. Grows(v, v \o u)
  BY <1>2, GrowsSame, GrowsAppend, GrowsConcat
<1>4. Grows(s, v \o u)
  BY <1>2, <1>3 DEF Grows
<1> QED
  BY <1>1, <1>4

LEMMA SinkGrows ==
  ASSUME TypeOK, NEW p \in Piece, Sink(p)
  PROVE  Grows(wire, wire') /\ (uws' = "closed" => uws = "closed")
<1>1. wire \in Seq(Piece) /\ queued \in Seq(Piece)
  BY DEF TypeOK, SendTypeOK, QueueTypeOK
<1>2. CASE RefuseWrite \/ Gather(p) \/ SkipEmpty(p)
  <2>1. wire' = wire /\ uws' = uws
    BY <1>2 DEF RefuseWrite, Gather, SkipEmpty, sendVars, overVars
  <2> QED
    BY <1>1, <2>1, GrowsSame, GrowsAppend, GrowsConcat
<1>3. CASE FlushWith(p)
  <2>1. Append(queued, p) \in Seq(Piece)
    BY <1>1
  <2>2. wire' = wire \o Append(queued, p) /\ uws' = uws
    BY <1>3 DEF FlushWith, overVars
  <2> QED
    BY <1>1, <2>1, <2>2, GrowsSame, GrowsAppend, GrowsConcat
<1>4. CASE TryEnd(p)
  <2>1. PICK k \in 0 .. Size(p) :
          /\ wire' = Append(wire, Taken(p, k))
          /\ IF DoneAfter(p, k) THEN UwsEnds
             ELSE UNCHANGED <<finished, uws, armed>>
    BY <1>4 DEF TryEnd
  <2>2. Taken(p, k) \in Piece
    BY CutFacts
  <2> QED
    BY <1>1, <2>1, <2>2, GrowsSame, GrowsAppend, GrowsConcat DEF UwsEnds
<1> QED
  BY <1>2, <1>3, <1>4 DEF Sink

LEMMA FinishGrows ==
  ASSUME TypeOK, NEW p \in Piece, Finish(p)
  PROVE  Grows(wire, wire') /\ uws' = "ended"
<1>1. wire \in Seq(Piece) /\ queued \in Seq(Piece)
  BY DEF TypeOK, SendTypeOK, QueueTypeOK
<1>2. PICK last : last = IF Size(p) = 0 THEN <<>> ELSE <<p>>
  OBVIOUS
<1>3. last \in Seq(Piece)
  <2>1. <<>> \in Seq(Piece) /\ <<p>> \in Seq(Piece)
    OBVIOUS
  <2> QED
    BY <1>2, <2>1
<1>4. \/ wire' = (wire \o queued) \o last
      \/ wire' = wire \o last
      \/ wire' = wire
  BY <1>2 DEF Finish, QueueThen
<1>5. /\ Grows(wire, (wire \o queued) \o last) /\ Grows(wire, wire \o last)
      /\ Grows(wire, wire)
  BY <1>1, <1>3, GrowsTwice, GrowsSame, GrowsAppend, GrowsConcat
<1>6. uws' = "ended"
  BY DEF Finish, UwsEnds
<1> QED
  BY <1>4, <1>5, <1>6

\* What every step does to the variables of BodyDelivery.
LEMMA DeliveryStep ==
  ASSUME TypeOK, Over, [Next]_vars
  PROVE  /\ Grows(wire, wire') /\ given' >= given /\ hasBody' = hasBody
         /\ uws # "open" => UNCHANGED <<wire, held, given, uws>>
         /\ uws = "open" /\ uws' = "closed" => UNCHANGED <<wire, given>>
<1>1. wire \in Seq(Piece) /\ queued \in Seq(Piece) /\ given \in Nat
  BY DEF TypeOK, SendTypeOK, QueueTypeOK, AppTypeOK
<1>2. Grows(wire, wire) /\ given >= given
  BY <1>1, GrowsSame, GrowsAppend, GrowsConcat
<1>3. ASSUME NEW n \in 0 .. MaxSize, Write(n)
      PROVE  /\ Grows(wire, wire') /\ given' >= given /\ hasBody' = hasBody
             /\ finished => UNCHANGED <<wire, held, given, uws>>
             /\ uws' = "closed" => uws = "closed"
  <2>1. NextPiece(n) \in Piece /\ NextPiece(n).upto >= given
    BY <1>1, NextPieceFacts
  <2>2. given' >= given /\ hasBody' = hasBody /\ (finished => given' = given)
    BY <1>1, <1>3, <2>1 DEF Write
  <2>3. CASE writing
    BY <1>2, <1>3, <2>2, <2>3 DEF Write, overVars, sendVars
  <2>4. CASE ~writing
    <3>1. Sink(NextPiece(n))
      BY <1>3, <2>4 DEF Write
    <3> QED
      BY <2>1, <2>2, <3>1, SinkGrows, RefuseStep
  <2> QED
    BY <2>3, <2>4
<1>4. ASSUME NEW n \in 0 .. MaxSize, End(n)
      PROVE  /\ Grows(wire, wire') /\ given' >= given /\ hasBody' = hasBody
             /\ finished => UNCHANGED <<wire, held, given, uws>>
             /\ uws' = "closed" => uws = "closed"
  <2>1. NextPiece(n) \in Piece /\ NextPiece(n).upto >= given
    BY <1>1, NextPieceFacts
  <2>2. given' >= given /\ hasBody' = hasBody /\ (finished => given' = given)
    BY <1>1, <1>4, <2>1 DEF End
  <2>3. CASE Finish(NextPiece(n)) /\ ~finished
    BY <2>1, <2>2, <2>3, FinishGrows
  <2>4. CASE UNCHANGED <<overVars, sendVars>>
    BY <1>2, <2>2, <2>4 DEF overVars, sendVars
  <2> QED
    BY <1>4, <2>3, <2>4 DEF End
<1>5. CASE Destroy \/ ErrorEvent \/ SocketClose
  <2>1. UNCHANGED <<appVars, sendVars>> /\ (finished => uws' = uws)
    BY <1>5 DEF Destroy, ErrorEvent, SocketClose
  <2> QED
    BY <1>2, <2>1 DEF appVars, sendVars, Over
<1>6. CASE LeaveHandler \/ DrainTick \/ CloseTick
  <2>1. UNCHANGED <<appVars, sendVars, uws>>
    BY <1>6 DEF LeaveHandler, DrainTick, CloseTick, overVars
  <2> QED
    BY <1>2, <2>1 DEF appVars, sendVars
<1>7. CASE ClientAbort
  <2>1. UNCHANGED <<appVars, sendVars>> /\ armed
    BY <1>7 DEF ClientAbort
  <2> QED
    BY <1>2, <2>1 DEF appVars, sendVars, Over
<1>8. CASE FlushTick
  <2>1. UNCHANGED <<appVars, overVars, held>>
    BY <1>8 DEF FlushTick
  <2>2. CASE FlushSkipped
    BY <1>2, <1>8, <2>1, <2>2 DEF FlushTick, appVars, overVars
  <2>3. CASE ~FlushSkipped
    <3>1. wire' = wire \o queued /\ ~finished
      BY <1>8, <2>3 DEF FlushTick, FlushSkipped
    <3> QED
      BY <1>1, <1>2, <2>1, <3>1, GrowsSame, GrowsAppend, GrowsConcat DEF appVars, overVars, Over
  <2> QED
    BY <2>2, <2>3
<1>9. CASE DrainUnheard \/ DrainChunk
  <2>1. UNCHANGED <<appVars, overVars, wire, held>>
    BY <1>9 DEF DrainUnheard, DrainChunk
  <2> QED
    BY <1>2, <2>1 DEF appVars, overVars
<1>10. CASE DrainTryEnd
  <2>1. held[1] \in Piece
    BY <1>10 DEF DrainTryEnd, TypeOK, SendTypeOK
  <2>2. PICK k \in 1 .. Size(held[1]) :
          /\ wire' = Append(wire, Taken(held[1], k))
          /\ IF DoneAfter(held[1], k) THEN UwsEnds
             ELSE UNCHANGED <<finished, uws, armed>>
    BY <1>10 DEF DrainTryEnd
  <2>3. Taken(held[1], k) \in Piece
    <3>1. k \in 0 .. Size(held[1])
      BY <2>1, PieceFacts
    <3> QED
      BY <2>1, <3>1, CutFacts
  <2>4. Grows(wire, wire')
    BY <1>1, <2>2, <2>3, GrowsSame, GrowsAppend, GrowsConcat
  <2>5. uws = "open" /\ uws' # "closed" /\ UNCHANGED appVars
    BY <1>10, <2>2 DEF DrainTryEnd, UwsEnds
  <2> QED
    BY <1>2, <2>4, <2>5 DEF appVars
<1>11. CASE ClearBuffer
  <2>1. UNCHANGED appVars
    BY <1>11 DEF ClearBuffer
  <2>2. CASE buffered = <<>>
    BY <1>2, <1>11, <2>1, <2>2 DEF ClearBuffer, overVars, sendVars, appVars
  <2>3. CASE buffered # <<>>
    <3>1. Sink(Head(buffered)) /\ Head(buffered) \in Piece
      BY <1>11, <2>3 DEF ClearBuffer, TypeOK, NodeTypeOK
    <3> QED
      BY <1>2, <2>1, <3>1, SinkGrows, RefuseStep DEF appVars, Over
  <2> QED
    BY <2>2, <2>3
<1>12. CASE AfterPending
  <2>1. UNCHANGED appVars
    BY <1>12 DEF AfterPending
  <2>2. CASE UNCHANGED <<overVars, sendVars>>
    BY <1>2, <2>1, <2>2 DEF overVars, sendVars, appVars
  <2>3. CASE EndMayRun /\ ~finished
    <3>1. deferredEnd[1] \in Piece /\ Finish(deferredEnd[1])
      BY <1>12, <2>3 DEF AfterPending, EndMayRun, TypeOK, RestTypeOK
    <3> QED
      BY <1>2, <2>1, <2>3, <3>1, FinishGrows DEF appVars, Over
  <2> QED
    BY <1>12, <2>2, <2>3 DEF AfterPending
<1>13. CASE UNCHANGED vars
  BY <1>2, <1>13 DEF vars, appVars, overVars, sendVars
<1> QED
  BY <1>3, <1>4, <1>5, <1>6, <1>7, <1>8, <1>9, <1>10, <1>11, <1>12, <1>13
    DEF Next, Over

\* No tick, drain, write or end touches uWS's response once it is over.
THEOREM Safe_UwsUntouched ==
  ASSUME MaxEnds <= 1 PROVE Spec => UwsUntouchedWhenOver
<1>1. IInv /\ [Next]_vars =>
          [uws # "open" => UNCHANGED <<wire, held, uws>>]_vars
  BY DeliveryStep DEF IInv, Core
<1> QED
  BY <1>1, Invariance, PTL DEF Spec, UwsUntouchedWhenOver

\* A response with a body delivers it as BodyDelivery says.
THEOREM Delivers ==
  ASSUME MaxEnds <= 1, Bodies \subseteq {TRUE}
  PROVE  Spec => DeliverySpec
<1>1. Init => Delivery!Init /\ hasBody
  BY DEF Init, Delivery!Init
<1>2. ASSUME IInv, IInv', hasBody, [Next]_vars
      PROVE  [Delivery!Next]_(Delivery!deliveryVars) /\ hasBody'
  <2>1. /\ Grows(wire, wire') /\ given' >= given /\ hasBody' = hasBody
        /\ uws # "open" => UNCHANGED <<wire, held, given, uws>>
        /\ uws = "open" /\ uws' = "closed" => UNCHANGED <<wire, given>>
    BY <1>2, DeliveryStep DEF IInv, Core
  <2>2. wire' \in Seq(Piece) /\ given' \in Nat
    BY <1>2 DEF IInv, TypeOK, AppTypeOK, SendTypeOK
  <2>3. CASE uws # "open"
    BY <1>2, <2>1, <2>3 DEF Delivery!deliveryVars
  <2>4. CASE uws = "open" /\ uws' = "closed"
    BY <1>2, <2>1, <2>4 DEF Delivery!Next, Delivery!Drop
  <2>5. CASE uws = "open" /\ uws' # "closed"
    <3>1. PICK a \in Nat : /\ Chain(wire', 0, a) /\ a <= given'
                           /\ uws' = "ended" => a = given'
      <4>1. CASE uws' = "ended"
        <5>1. Chain(wire', 0, given')
          BY <1>2, <2>1, <4>1 DEF IInv, Core, CompleteBody
        <5> QED
          BY <2>2, <5>1
      <4>2. CASE uws' # "ended"
        <5>1. ~finished'
          BY <1>2, <2>5, <4>2 DEF IInv, Core, Over, TypeOK, OverTypeOK
        <5>2. Laid(wire, held, queued, queuedBytes, buffered, deferredEnd,
                   given)'
          BY <1>2, <5>1 DEF IInv, Core, Layout
        <5> QED
          BY <2>2, <4>2, <5>2 DEF Laid
      <4> QED
        BY <4>1, <4>2
    <3>2. Upto(wire') = a
      BY <2>2, <3>1 DEF Upto, Chain
    <3>3. Delivery!Extends
      BY <2>1, <3>1, <3>2
        DEF Delivery!Extends, Delivery!Chain, Delivery!Upto, Chain, Upto, Grows
    <3>4. CASE uws' = "ended"
      BY <1>2, <2>1, <2>5, <3>1, <3>2, <3>3, <3>4
        DEF Delivery!Next, Delivery!Finish, Delivery!Upto, Upto
    <3>5. CASE uws' # "ended"
      <4>1. uws' = uws
        BY <1>2, <2>5, <3>5 DEF IInv, TypeOK, OverTypeOK
      <4> QED
        BY <1>2, <2>1, <2>5, <3>3, <4>1 DEF Delivery!Next, Delivery!Send
    <3> QED
      BY <3>4, <3>5
  <2> QED
    BY <2>3, <2>4, <2>5
<1> QED
  BY <1>1, <1>2, Invariance, PTL DEF Spec, DeliverySpec, Delivery!Spec
=============================================================================
