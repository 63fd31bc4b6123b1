-------------------------- MODULE UwsAnswerProofs --------------------------
(***************************************************************************)
(* What TLAPS proves of the answers on uWS's own response (UwsAnswer), for *)
(* every number of moves, pieces and middleware, whatever the program does:*)
(* a light route (LiteRoute) and a raw one with the utilities (UwsHandler) *)
(* give one answer and never touch the response once it is over, whoever   *)
(* listens to a light one hears once of it, and collect() gives the body   *)
(* that came.                                                              *)
(***************************************************************************)
EXTENDS LiteRoute, UwsHandler, DataLemmas

-----------------------------------------------------------------------------
(* The answer, and what the operators of UwsAnswer make of it.             *)

WireSet ==
    [heads : Nat, status : Nat, coded : BOOLEAN, pieces : Nat, last : {"none", "end", "cut"}]
StreamSet ==
    [phase : {"none", "open", "ended", "read", "failed", "destroyed"},
     left : Nat, paused : BOOLEAN, headed : BOOLEAN, done : BOOLEAN,
     status : Nat, coded : BOOLEAN, closing : BOOLEAN]
AnswerSet == [uws : UwsType, wire : WireSet, stream : StreamSet, pool : Nat]

LEMMA AnswerSame ==
  ASSUME NEW a \in AnswerSet, Becomes(a)
  PROVE  This' = a
  BY DEF Becomes, This, AnswerSet

\* A stream that may still have something to write.
Flowing(a) == a.stream.phase \in {"open", "ended", "failed"}

\* What the client got agrees with where the answer is: no head yet, or the one.
Written(a) ==
    /\ a.wire.heads <= 1
    /\ a.uws.over = "no" /\ ~a.stream.headed => a.wire.heads = 0
    /\ a.stream.headed => a.wire.heads = 1
    /\ a.wire.pieces > 0 \/ a.wire.last # "none" => a.wire.heads = 1
    /\ a.wire.last = "end" <=> a.uws.over = "ended"
    /\ a.wire.last = "cut" => a.uws.over = "closed"
    /\ a.stream.phase = "none" => ~a.stream.headed
    /\ a.pool # 0 => ~a.stream.headed

\* What nobody may have done; and whoever answers later hears of an abort.
Sound(a) ==
    /\ Written(a)
    /\ a.uws.faults = {}
    /\ Flowing(a) => /\ a.uws.over = "no" /\ a.uws.listener = "guard"
                     /\ a.uws.guarded /\ a.uws.hook
    /\ a.pool # 0 => /\ ~Flowing(a)
                     /\ a.uws.aborted \/ (a.uws.over = "no" /\ a.uws.listener = "guard")

\* As far along: what is heard of it is the same.
Steady(a, b) ==
    /\ b.uws.over = a.uws.over /\ b.uws.aborted = a.uws.aborted
    /\ b.uws.guarded = a.uws.guarded /\ b.pool = a.pool
    /\ b.stream.phase = a.stream.phase /\ b.stream.done = a.stream.done
    /\ b.stream.closing = a.stream.closing

\* Nothing of the answer is under way.
Idle(a) == a.stream.phase = "none" /\ ~a.stream.closing /\ a.pool = 0

LEMMA WrittenAs ==
  ASSUME NEW a \in AnswerSet, Written(a), NEW b \in AnswerSet, b.wire = a.wire,
         b.stream.headed = a.stream.headed,
         b.uws.over = a.uws.over \/ (a.uws.over = "no" /\ b.uws.over = "aborted"),
         b.stream.phase = "none" => ~b.stream.headed, b.pool # 0 => ~b.stream.headed
  PROVE  Written(b)
  BY DEF Written, AnswerSet, WireSet

LEMMA Untouched ==
  ASSUME NEW a \in AnswerSet, a.uws.over = "no"
  PROVE  Touched(a) = a
  BY DEF Touched

LEMMA Listened ==
  ASSUME NEW a \in AnswerSet, a.uws.over = "no", NEW l \in Listeners
  PROVE  /\ OnAborted(a, l) \in AnswerSet
         /\ OnAborted(a, l).uws = [a.uws EXCEPT !.listener = l]
         /\ OnAborted(a, l).stream = a.stream /\ OnAborted(a, l).pool = a.pool
         /\ OnAborted(a, l).wire = a.wire
  <1>1. OnAborted(a, l) = [a EXCEPT !.uws.listener = l]
    BY Untouched DEF OnAborted
  <1> QED BY <1>1 DEF AnswerSet, UwsType

LEMMA HeadWritten ==
  ASSUME NEW a \in AnswerSet, a.uws.over = "no", NEW status \in Nat, NEW coded \in BOOLEAN
  PROVE  LET w == WriteHead(a, status, coded) IN
         /\ w \in AnswerSet /\ w.uws = a.uws /\ w.stream = a.stream /\ w.pool = a.pool
         /\ w.wire.heads = a.wire.heads + 1 /\ w.wire.pieces = a.wire.pieces
         /\ w.wire.last = a.wire.last
  <1> DEFINE w == [a EXCEPT !.wire.heads = @ + 1, !.wire.status = status, !.wire.coded = coded]
  <1>1. WriteHead(a, status, coded) = w
    BY Untouched DEF WriteHead
  <1>2. w.uws = a.uws /\ w.stream = a.stream /\ w.pool = a.pool
    BY DEF AnswerSet
  <1>3. /\ w \in AnswerSet /\ w.wire.heads = a.wire.heads + 1
        /\ w.wire.pieces = a.wire.pieces /\ w.wire.last = a.wire.last
    <2>1. a.wire \in WireSet /\ a.wire.heads \in Nat /\ a.wire.heads + 1 \in Nat
      BY DEF AnswerSet, WireSet
    <2>2. PICK n \in Nat : n = a.wire.heads + 1
      BY <2>1
    <2>3. PICK v : v = [a.wire EXCEPT !.heads = n, !.status = status, !.coded = coded]
      OBVIOUS
    <2>4. v \in WireSet /\ v.heads = n /\ v.pieces = a.wire.pieces /\ v.last = a.wire.last
      BY <2>1, <2>3 DEF WireSet
    <2>5. w = [a EXCEPT !.wire = v]
      BY <2>2, <2>3 DEF AnswerSet
    <2> HIDE DEF w
    <2>6. w \in AnswerSet /\ w.wire = v
      BY <2>4, <2>5 DEF AnswerSet
    <2> QED BY <2>2, <2>4, <2>6
  <1> QED BY <1>1, <1>2, <1>3

LEMMA Ended ==
  ASSUME NEW a \in AnswerSet, a.uws.over = "no"
  PROVE  /\ End(a) \in AnswerSet
         /\ End(a).uws = [a.uws EXCEPT !.over = "ended", !.listener = "none"]
         /\ End(a).stream = a.stream /\ End(a).pool = a.pool
         /\ End(a).wire.heads = a.wire.heads /\ End(a).wire.last = "end"
  <1>1. End(a) = [a EXCEPT !.wire.last = "end", !.uws.over = "ended", !.uws.listener = "none"]
    BY Untouched DEF End
  <1>2. End(a).uws = [a.uws EXCEPT !.over = "ended", !.listener = "none"]
    BY <1>1 DEF AnswerSet
  <1>3. End(a).stream = a.stream /\ End(a).pool = a.pool
    BY <1>1 DEF AnswerSet
  <1>4. /\ End(a) \in AnswerSet
        /\ End(a).wire.heads = a.wire.heads /\ End(a).wire.last = "end"
    <2>1. End(a).wire = [a.wire EXCEPT !.last = "end"]
      BY <1>1 DEF AnswerSet
    <2>2. a.wire \in WireSet /\ a.uws \in UwsType
      BY DEF AnswerSet
    <2>3. /\ [a.wire EXCEPT !.last = "end"] \in WireSet
          /\ [a.wire EXCEPT !.last = "end"].heads = a.wire.heads
          /\ [a.wire EXCEPT !.last = "end"].last = "end"
      BY <2>2 DEF WireSet
    <2>4. [a.uws EXCEPT !.over = "ended", !.listener = "none"] \in UwsType
      BY <2>2 DEF UwsType, Listeners
    <2>5. End(a) = [uws |-> End(a).uws, wire |-> End(a).wire, stream |-> a.stream, pool |-> a.pool]
      BY <1>1 DEF AnswerSet
    <2> QED BY <1>2, <2>1, <2>3, <2>4, <2>5 DEF AnswerSet
  <1> QED BY <1>2, <1>3, <1>4

\* What an end() leaves of an answer.
IsEnd(a, w) ==
    /\ w \in AnswerSet
    /\ w.uws = [a.uws EXCEPT !.over = "ended", !.listener = "none"]
    /\ w.stream = a.stream /\ w.pool = a.pool
    /\ w.wire.heads = a.wire.heads + 1 /\ w.wire.last = "end"

LEMMA EndWritten ==
  ASSUME NEW a \in AnswerSet, Written(a), a.uws.over = "no", ~a.stream.headed,
         NEW w, IsEnd(a, w)
  PROVE  Written(w)
  <1>1. w.uws.over = "ended"
    BY DEF IsEnd, AnswerSet, UwsType
  <1> QED BY <1>1 DEF IsEnd, Written, AnswerSet, WireSet

\* The whole answer of a response that nobody has answered.
LEMMA AnswerSent ==
  ASSUME NEW a \in AnswerSet, Sound(a), Idle(a), a.uws.over = "no", NEW w, IsEnd(a, w)
  PROVE  w \in AnswerSet /\ Sound(w) /\ w.uws.stack = a.uws.stack
  <1>1. a.uws \in UwsType
    BY DEF AnswerSet
  <1>2. Written(w)
    BY EndWritten DEF Sound, Written, Idle
  <1> QED BY <1>1, <1>2 DEF IsEnd, Sound, Idle, Flowing, UwsType

LEMMA WholeSent ==
  ASSUME NEW a \in AnswerSet, a.uws.over = "no", NEW status \in Nat, NEW coded \in BOOLEAN,
         NEW corked \in BOOLEAN, corked => a.uws.stack
  PROVE  IsEnd(a, Whole(a, status, coded, corked))
  <1> DEFINE h == WriteHead(a, status, coded)
  <1>1. /\ h \in AnswerSet /\ h.uws = a.uws /\ h.stream = a.stream /\ h.pool = a.pool
        /\ h.wire.heads = a.wire.heads + 1
    BY HeadWritten
  <1>2. Whole(a, status, coded, corked) = End(h)
    BY Zenon DEF Whole
  <1> HIDE DEF h
  <1>3. /\ End(h) \in AnswerSet /\ End(h).stream = h.stream /\ End(h).pool = h.pool
        /\ End(h).uws = [h.uws EXCEPT !.over = "ended", !.listener = "none"]
        /\ End(h).wire.heads = h.wire.heads /\ End(h).wire.last = "end"
    BY <1>1, Ended
  <1> QED BY <1>1, <1>2, <1>3 DEF IsEnd

\* send(): whatever its status, of a response that is there or was told gone.
LEMMA Sent ==
  ASSUME NEW a \in AnswerSet, a.uws.over = "no" \/ a.uws.aborted, NEW status \in Nat
  PROVE  IF a.uws.aborted THEN Send(a, status) = a ELSE IsEnd(a, Send(a, status))
  <1>1. CASE a.uws.aborted
    BY <1>1 DEF Send
  <1>2. CASE ~a.uws.aborted
    <2> DEFINE w == Whole(a, status, FALSE, FALSE)
    <2>1. IsEnd(a, w)
      BY <1>2, WholeSent
    <2>2. Send(a, status) = w
      BY <1>2 DEF Send
    <2> HIDE DEF w
    <2> QED BY <1>2, <2>1, <2>2
  <1> QED BY <1>1, <1>2

LEMMA Guarded ==
  ASSUME NEW a \in AnswerSet, a.uws.guarded \/ a.uws.over = "no"
  PROVE  /\ Guard(a) \in AnswerSet
         /\ Guard(a).uws = IF a.uws.guarded THEN a.uws
                           ELSE [a.uws EXCEPT !.listener = "guard", !.guarded = TRUE]
         /\ Guard(a).stream = a.stream /\ Guard(a).pool = a.pool /\ Guard(a).wire = a.wire
  <1>1. CASE a.uws.guarded
    BY <1>1 DEF Guard
  <1>2. CASE ~a.uws.guarded
    <2> DEFINE o == OnAborted(a, "guard")
    <2>1. /\ o \in AnswerSet /\ o.uws = [a.uws EXCEPT !.listener = "guard"]
          /\ o.stream = a.stream /\ o.pool = a.pool /\ o.wire = a.wire
      BY <1>2, Listened DEF Listeners
    <2>2. Guard(a) = [o EXCEPT !.uws.guarded = TRUE]
      BY <1>2, Zenon DEF Guard
    <2> HIDE DEF o
    <2>3. [o EXCEPT !.uws.guarded = TRUE] \in AnswerSet
      BY <2>1 DEF AnswerSet, UwsType
    <2>4. /\ Guard(a).uws = [o.uws EXCEPT !.guarded = TRUE]
          /\ Guard(a).stream = o.stream /\ Guard(a).pool = o.pool /\ Guard(a).wire = o.wire
      BY <2>1, <2>2 DEF AnswerSet
    <2>5. [o.uws EXCEPT !.guarded = TRUE] = [a.uws EXCEPT !.listener = "guard", !.guarded = TRUE]
      BY <2>1 DEF AnswerSet, UwsType
    <2> QED BY <1>2, <2>1, <2>2, <2>3, <2>4, <2>5
  <1> QED BY <1>1, <1>2

With(a, u, v) == [a EXCEPT !.uws = u, !.stream = v]

LEMMA WithIs ==
  ASSUME NEW a \in AnswerSet, NEW u \in UwsType, NEW v \in StreamSet
  PROVE  /\ With(a, u, v) \in AnswerSet
         /\ With(a, u, v).uws = u /\ With(a, u, v).stream = v
         /\ With(a, u, v).pool = a.pool /\ With(a, u, v).wire = a.wire
  BY DEF AnswerSet, With

\* What sendStream() leaves of an answer.
IsBegun(a, b) ==
    /\ b \in AnswerSet
    /\ b.uws = [Guard(a).uws EXCEPT !.hook = TRUE]
    /\ b.stream.phase = "open" /\ ~b.stream.headed /\ b.pool = a.pool /\ b.wire = a.wire
    /\ ~b.stream.done /\ ~b.stream.closing

LEMMA StreamBegun ==
  ASSUME NEW a \in AnswerSet, a.uws.guarded \/ a.uws.over = "no",
         NEW status \in Nat, NEW coded \in BOOLEAN, NEW left \in Nat
  PROVE  IsBegun(a, SendStream(a, status, coded, left))
  <1> DEFINE g == Guard(a)
             v == [NoStream EXCEPT !.phase = "open", !.left = left, !.status = status,
                                   !.coded = coded]
             b == [g EXCEPT !.uws.hook = TRUE, !.stream = v]
  <1>1. g \in AnswerSet /\ g.pool = a.pool /\ g.wire = a.wire
    BY Guarded
  <1>2. v \in StreamSet /\ v.phase = "open" /\ ~v.headed /\ ~v.done /\ ~v.closing
    BY DEF StreamSet, NoStream
  <1>3. SendStream(a, status, coded, left) = b
    BY DEF SendStream
  <1> HIDE DEF g, v
  <1>4. g.uws \in UwsType /\ [g.uws EXCEPT !.hook = TRUE] \in UwsType
    BY <1>1 DEF AnswerSet, UwsType
  <1>5. b = With(g, [g.uws EXCEPT !.hook = TRUE], v)
    BY <1>1 DEF AnswerSet, With
  <1>6. /\ b \in AnswerSet /\ b.uws = [g.uws EXCEPT !.hook = TRUE]
        /\ b.stream = v /\ b.pool = g.pool /\ b.wire = g.wire
    BY <1>1, <1>2, <1>4, <1>5, WithIs
  <1> HIDE DEF b
  <1> QED BY <1>1, <1>2, <1>3, <1>6 DEF g, IsBegun

\* An answer that is out, or on its way.
IsOut(a, w) ==
    /\ w \in AnswerSet /\ Sound(w) /\ w.uws.stack = a.uws.stack
    /\ w.stream = a.stream /\ w.uws.aborted = a.uws.aborted
    /\ w.uws.over = "ended" \/ (w.uws.over = a.uws.over /\ w.uws.guarded /\ w.pool # 0)

LEMMA EndIsOut ==
  ASSUME NEW a \in AnswerSet, Sound(a), Idle(a), a.uws.over = "no", NEW w, IsEnd(a, w)
  PROVE  IsOut(a, w)
  <1>1. w \in AnswerSet /\ Sound(w) /\ w.uws.stack = a.uws.stack
    BY AnswerSent
  <1>2. w.uws.over = "ended" /\ w.uws.aborted = a.uws.aborted /\ w.stream = a.stream
    BY DEF IsEnd, AnswerSet, UwsType
  <1> QED BY <1>1, <1>2 DEF IsOut

\* A whole answer, or one the pool has, of a response that nobody answered.
LEMMA Delivered ==
  ASSUME NEW a \in AnswerSet, a.uws.over = "no", NEW status \in Nat \ {0}, NEW size \in Sizes,
         NEW encoding \in BOOLEAN, NEW corked \in BOOLEAN, corked => a.uws.stack,
         Sound(a), Idle(a), ~a.uws.guarded \/ a.uws.aborted \/ a.uws.listener = "guard"
  PROVE  LET w == Deliver(a, status, size, encoding, corked) IN
         IsOut(a, w)
  <1>1. CASE ~encoding \/ size = "small" \/ size = "large"
    <2>1. PICK coded \in BOOLEAN :
            Deliver(a, status, size, encoding, corked) = Whole(a, status, coded, corked)
      BY <1>1 DEF Deliver
    <2> DEFINE w == Whole(a, status, coded, corked)
    <2>2. IsEnd(a, w)
      BY WholeSent
    <2> HIDE DEF w
    <2>3. IsOut(a, w)
      BY <2>2, EndIsOut
    <2> QED BY <2>1, <2>3 DEF w
  <1>2. CASE ~(~encoding \/ size = "small" \/ size = "large")
    <2> DEFINE g == Guard(a)
    <2>1. /\ g \in AnswerSet /\ g.stream = a.stream /\ g.wire = a.wire
          /\ g.uws = IF a.uws.guarded THEN a.uws
                     ELSE [a.uws EXCEPT !.listener = "guard", !.guarded = TRUE]
      BY Guarded
    <2>2. Deliver(a, status, size, encoding, corked) = [g EXCEPT !.pool = status]
      BY <1>2 DEF Deliver, Sizes
    <2> HIDE DEF g
    <2> DEFINE w == [g EXCEPT !.pool = status]
    <2>3. /\ w \in AnswerSet /\ w.uws = g.uws /\ w.stream = g.stream /\ w.pool = status
          /\ w.wire = g.wire
      BY <2>1 DEF AnswerSet
    <2>4. a.uws \in UwsType
      BY DEF AnswerSet
    <2> HIDE DEF w
    <2>5. w.uws.stack = a.uws.stack /\ w.uws.faults = {}
      BY <2>1, <2>3, <2>4 DEF Sound, UwsType
    <2>6. a.uws.aborted \/ (w.uws.listener = "guard" /\ w.uws.over = "no")
      BY <2>1, <2>3, <2>4 DEF UwsType
    <2>7. a.uws.aborted => w.uws.aborted
      BY <2>1, <2>3, <2>4 DEF UwsType
    <2>8. ~Flowing(w)
      BY <2>1, <2>3 DEF Idle, Flowing
    <2>10. Written(w)
      <3>1. w.uws.over = a.uws.over
        BY <2>1, <2>3, <2>4 DEF UwsType
      <3>2. Written(a) /\ ~a.stream.headed
        BY DEF Sound, Written, Idle
      <3> QED BY <2>1, <2>3, <3>1, <3>2, WrittenAs
    <2>9. Sound(w)
      BY <2>5, <2>6, <2>7, <2>8, <2>10 DEF Sound
    <2>11. w.uws.guarded /\ w.uws.over = a.uws.over /\ w.uws.aborted = a.uws.aborted
      BY <2>1, <2>3, <2>4 DEF UwsType
    <2> QED BY <2>1, <2>2, <2>3, <2>5, <2>9, <2>11 DEF w, IsOut
  <1> QED BY <1>1, <1>2

\* A stream of which nothing more comes is not flowing, destroyed or not.
LEMMA Destroyed ==
  ASSUME NEW a \in AnswerSet, NEW phase \in {"failed", "destroyed"}
  PROVE  LET d == Destroy(a, phase) IN
         /\ d \in AnswerSet /\ d.uws = a.uws /\ d.pool = a.pool /\ d.wire = a.wire
         /\ d.stream.headed = a.stream.headed
         /\ d.stream.phase = "none" => a.stream.phase = "none"
         /\ Flowing(d) => Flowing(a) /\ (phase = "failed" \/ a.stream.phase = "failed")
         /\ Idle(a) => d = a
         /\ IF a.stream.phase \in {"open", "ended"}
            THEN d.stream = [a.stream EXCEPT !.phase = phase, !.closing = (phase = "destroyed")]
            ELSE d = a
  <1>1. CASE Over(a.stream)
    BY <1>1 DEF Destroy, Over, Flowing
  <1>2. CASE ~Over(a.stream)
    <2> DEFINE v == [a.stream EXCEPT !.phase = phase, !.closing = (phase = "destroyed")]
               d == [a EXCEPT !.stream.phase = phase, !.stream.closing = (phase = "destroyed")]
    <2>1. Destroy(a, phase) = d
      BY <1>2 DEF Destroy
    <2>2. a.stream \in StreamSet /\ a.uws \in UwsType
      BY DEF AnswerSet
    <2>3. v \in StreamSet /\ v.phase = phase /\ v.headed = a.stream.headed
      BY <2>2 DEF StreamSet
    <2>4. d = With(a, a.uws, v)
      BY DEF AnswerSet, With
    <2>5. a.stream.phase \in {"open", "ended"} /\ ~Idle(a)
      BY <1>2, <2>2 DEF Over, StreamSet, Idle
    <2> HIDE DEF v, d
    <2>6. /\ d \in AnswerSet /\ d.uws = a.uws /\ d.pool = a.pool /\ d.wire = a.wire
          /\ d.stream = v
      BY <2>2, <2>3, <2>4, WithIs
    <2> QED BY <2>1, <2>3, <2>5, <2>6 DEF Flowing, v
  <1> QED BY <1>1, <1>2

LEMMA HeadSent ==
  ASSUME NEW a \in AnswerSet, a.uws.over = "no"
  PROVE  LET h == HeadOnce(a) IN
         /\ h \in AnswerSet /\ h.uws = a.uws /\ h.pool = a.pool
         /\ h.stream = [a.stream EXCEPT !.headed = TRUE]
         /\ h.wire.heads = IF a.stream.headed THEN a.wire.heads ELSE a.wire.heads + 1
         /\ h.wire.last = a.wire.last
  <1>0. a.stream \in StreamSet /\ a.stream.status \in Nat /\ a.stream.coded \in BOOLEAN
    BY DEF AnswerSet, StreamSet
  <1>1. CASE a.stream.headed
    BY <1>0, <1>1 DEF HeadOnce, StreamSet
  <1>2. CASE ~a.stream.headed
    <2> DEFINE w == WriteHead(a, a.stream.status, a.stream.coded)
               v == [a.stream EXCEPT !.headed = TRUE]
    <2>1. /\ w \in AnswerSet /\ w.uws = a.uws /\ w.stream = a.stream /\ w.pool = a.pool
          /\ w.wire.heads = a.wire.heads + 1 /\ w.wire.last = a.wire.last
      BY <1>0, HeadWritten
    <2>2. HeadOnce(a) = [w EXCEPT !.stream.headed = TRUE]
      BY <1>2 DEF HeadOnce
    <2>3. v \in StreamSet
      BY <1>0 DEF StreamSet
    <2> HIDE DEF w, v
    <2>4. w.uws \in UwsType
      BY <2>1 DEF AnswerSet
    <2>5. HeadOnce(a) = With(w, w.uws, v)
      BY <2>1, <2>2 DEF AnswerSet, With, v
    <2>6. /\ HeadOnce(a) \in AnswerSet /\ HeadOnce(a).uws = w.uws /\ HeadOnce(a).stream = v
          /\ HeadOnce(a).pool = w.pool /\ HeadOnce(a).wire = w.wire
      BY <2>1, <2>3, <2>4, <2>5, WithIs
    <2> QED BY <1>2, <2>1, <2>6 DEF v
  <1> QED BY <1>1, <1>2

\* The client leaves: who is told, and what of the answer goes on.
LEMMA AbortTold ==
  ASSUME NEW a \in AnswerSet, a.uws.over = "no", Sound(a), a.stream.phase # "failed"
  PROVE  /\ Aborted(a) \in AnswerSet /\ Sound(Aborted(a))
         /\ Aborted(a).uws = [a.uws EXCEPT !.over = "aborted",
                                 !.aborted = (@ \/ a.uws.listener = "guard")]
         /\ Idle(a) => Idle(Aborted(a))
         /\ ~Flowing(Aborted(a)) /\ Aborted(a).pool = a.pool
         /\ IF Flowing(a) THEN Aborted(a).stream.closing /\ Aborted(a).stream.phase = "destroyed"
            ELSE Aborted(a).stream = a.stream
  <1> DEFINE u == [a.uws EXCEPT !.over = "aborted", !.aborted = (@ \/ a.uws.listener = "guard")]
             b == [a EXCEPT !.uws = u]
  <1>0. a.uws \in UwsType
    BY DEF AnswerSet
  <1>1. u \in UwsType /\ u.over = "aborted"
        /\ u.aborted = (a.uws.aborted \/ a.uws.listener = "guard")
        /\ u.faults = a.uws.faults /\ u.hook = a.uws.hook
    BY <1>0 DEF UwsType
  <1>2. /\ b \in AnswerSet /\ b.uws = u /\ b.stream = a.stream /\ b.pool = a.pool
        /\ b.wire = a.wire
    BY <1>1 DEF AnswerSet
  <1>3. Aborted(a) = IF a.uws.listener = "guard" /\ a.uws.hook THEN Destroy(b, "destroyed") ELSE b
    <2>1. CASE a.uws.listener # "guard"
      <3>1. Aborted(a) = [a EXCEPT !.uws.over = "aborted"]
        BY <2>1 DEF Aborted, AnswerSet
      <3>2. u = [a.uws EXCEPT !.over = "aborted"]
        BY <1>0, <2>1 DEF UwsType
      <3> QED BY <2>1, <3>1, <3>2 DEF AnswerSet
    <2>2. CASE a.uws.listener = "guard"
      <3> DEFINE t == [[a EXCEPT !.uws.over = "aborted"] EXCEPT !.uws.aborted = TRUE]
      <3>1. t = b
        <4>1. u = [a.uws EXCEPT !.over = "aborted", !.aborted = TRUE]
          BY <1>0, <2>2 DEF UwsType
        <4> QED BY <4>1 DEF AnswerSet
      <3>2. Aborted(a) = IF a.uws.hook THEN Destroy(t, "destroyed") ELSE t
        <4>1. [a EXCEPT !.uws.over = "aborted"].uws.listener = "guard"
          BY <2>2 DEF AnswerSet, UwsType
        <4> QED BY <2>2, <4>1, Zenon DEF Aborted
      <3> QED BY <2>2, <3>1, <3>2
    <2> QED BY <2>1, <2>2
  <1> HIDE DEF u, b
  <1>6. Written(a) /\ (a.stream.phase = "none" => ~a.stream.headed)
        /\ (a.pool # 0 => ~a.stream.headed)
    BY DEF Sound, Written
  <1>4. CASE a.uws.listener = "guard" /\ a.uws.hook
    <2> DEFINE d == Destroy(b, "destroyed")
    <2>1. /\ d \in AnswerSet /\ d.uws = b.uws /\ d.pool = b.pool
          /\ d.wire = b.wire /\ d.stream.headed = b.stream.headed
          /\ d.stream.phase = "none" => b.stream.phase = "none"
          /\ Flowing(d) => Flowing(b) /\ b.stream.phase = "failed"
          /\ Idle(b) => d = b
          /\ IF b.stream.phase \in {"open", "ended"}
             THEN d.stream = [b.stream EXCEPT !.phase = "destroyed", !.closing = TRUE]
             ELSE d = b
      BY <1>2, Destroyed
    <2>2. Aborted(a) = d
      BY <1>3, <1>4
    <2> HIDE DEF d
    <2>3. ~Flowing(d)
      BY <1>2, <2>1
    <2>6. Written(d)
      BY <1>1, <1>2, <1>6, <2>1, WrittenAs
    <2>4. Sound(d)
      BY <1>1, <1>2, <1>4, <2>1, <2>3, <2>6 DEF Sound
    <2>5. Idle(a) => Idle(d)
      BY <1>2, <2>1 DEF Idle
    <2>7. IF Flowing(a) THEN d.stream.closing /\ d.stream.phase = "destroyed"
          ELSE d.stream = a.stream
      <3>1. a.stream \in StreamSet
        BY DEF AnswerSet
      <3> QED BY <1>2, <2>1, <3>1 DEF Flowing, StreamSet
    <2> QED BY <1>2, <2>1, <2>2, <2>3, <2>4, <2>5, <2>7 DEF u
  <1>5. CASE ~(a.uws.listener = "guard" /\ a.uws.hook)
    <2>1. Aborted(a) = b
      BY <1>3, <1>5
    <2>2. ~Flowing(b)
      BY <1>2, <1>5 DEF Sound, Flowing
    <2>5. Written(b)
      BY <1>1, <1>2, <1>6, WrittenAs
    <2>3. Sound(b)
      BY <1>1, <1>2, <2>2, <2>5 DEF Sound
    <2>4. Idle(a) => Idle(b)
      BY <1>2 DEF Idle
    <2>6. ~Flowing(a)
      BY <1>2, <2>2 DEF Flowing
    <2> QED BY <1>2, <2>1, <2>2, <2>3, <2>4, <2>6 DEF u
  <1> QED BY <1>4, <1>5

-----------------------------------------------------------------------------
(* What happens to an answer by itself, of a light route's or of a raw's.  *)

Answers0 == This \in AnswerSet /\ Sound(This)

LEMMA ThisIs ==
  This.uws = uws /\ This.wire = wire /\ This.stream = stream /\ This.pool = pool
  BY DEF This

LEMMA SoundAnswered ==
  ASSUME This \in AnswerSet, Sound(This)
  PROVE  UwsAnsweredOnce
  BY ThisIs DEF Sound, Written, UwsAnsweredOnce, UwsLeftAlone, OneAnswer, AnswerSet, WireSet

\* The fields an answer has after a step.
LEMMA StepSound ==
  ASSUME NEW a \in AnswerSet, Becomes(a), Sound(a)
  PROVE  Answers0' /\ uws' = a.uws /\ stream' = a.stream /\ pool' = a.pool
  <1>1. This' = a
    BY AnswerSame
  <1>2. uws' = a.uws /\ stream' = a.stream /\ pool' = a.pool
    BY DEF Becomes
  <1> QED BY <1>1, <1>2 DEF Answers0, Sound, Flowing, Written

\* The cork is as it was, and an abort that was told is not forgotten.
Remembers == uws'.stack = uws.stack /\ (uws.aborted => uws'.aborted)

LEMMA DataSound ==
  ASSUME Answers0, NEW full \in BOOLEAN, StreamData(full)
  PROVE  Answers0' /\ Remembers /\ ~Idle(This) /\ Steady(This, This')
  <1>1. /\ stream.phase \in {"open", "ended"} /\ stream.left > 0
        /\ uws.over = "no" /\ uws \in UwsType /\ stream \in StreamSet
    BY ThisIs DEF StreamData, Answers0, Sound, Flowing, AnswerSet
  <1> DEFINE h == HeadOnce(This)
             w == [Touched(h) EXCEPT !.stream.left = @ - 1, !.wire.pieces = @ + 1]
             f == [w EXCEPT !.stream.paused = TRUE, !.uws.waits = TRUE]
  <1>2. /\ h \in AnswerSet /\ h.uws = uws /\ h.pool = pool
        /\ h.stream = [stream EXCEPT !.headed = TRUE]
        /\ h.wire.heads = IF stream.headed THEN wire.heads ELSE wire.heads + 1
        /\ h.wire.last = wire.last
    BY <1>1, HeadSent, ThisIs DEF Answers0
  <1>10. pool = 0 /\ h.wire.heads = 1 /\ h.wire.last = "none"
    <2>1. Written(This) /\ Flowing(This) /\ pool = 0 /\ wire \in WireSet
      BY <1>1, ThisIs DEF Answers0, Sound, Flowing, AnswerSet
    <2>2. (IF stream.headed THEN wire.heads ELSE wire.heads + 1) = 1 /\ wire.last = "none"
      BY <1>1, <2>1, ThisIs DEF Written, WireSet
    <2> HIDE DEF h
    <2> QED BY <1>2, <2>1, <2>2
  <1>3. Becomes(IF full THEN f ELSE w)
    BY DEF StreamData
  <1> HIDE DEF h
  <1>4. Touched(h) = h
    BY <1>1, <1>2, Untouched
  <1>5. /\ w \in AnswerSet /\ w.uws = uws /\ w.pool = pool
        /\ w.stream.phase = stream.phase /\ w.stream.headed
        /\ w.stream.done = stream.done /\ w.stream.closing = stream.closing
        /\ w.wire.heads = 1 /\ w.wire.last = "none"
    <2>1. h.stream \in StreamSet /\ h.stream.phase = stream.phase /\ h.stream.left = stream.left
          /\ h.wire \in WireSet /\ h.stream.headed
          /\ h.stream.done = stream.done /\ h.stream.closing = stream.closing
      BY <1>1, <1>2 DEF StreamSet, AnswerSet
    <2>2. stream.left - 1 \in Nat /\ h.wire.pieces + 1 \in Nat
      BY <1>1, <2>1 DEF StreamSet, WireSet
    <2>3. PICK n \in Nat : n = h.stream.left - 1
      BY <2>1, <2>2
    <2>4. PICK m \in Nat : m = h.wire.pieces + 1
      BY <2>2
    <2>5. PICK v : v = [h.stream EXCEPT !.left = n]
      OBVIOUS
    <2>6. PICK x : x = [h.wire EXCEPT !.pieces = m]
      OBVIOUS
    <2>7. /\ v \in StreamSet /\ v.phase = stream.phase /\ v.headed
          /\ x \in WireSet /\ x.heads = 1 /\ x.last = "none"
          /\ v.done = stream.done /\ v.closing = stream.closing
      BY <1>10, <2>1, <2>5, <2>6 DEF StreamSet, WireSet
    <2>8. w = [h EXCEPT !.stream = v, !.wire = x]
      BY <1>2, <1>4, <2>3, <2>4, <2>5, <2>6 DEF AnswerSet
    <2> HIDE DEF w
    <2> QED BY <1>2, <2>7, <2>8 DEF AnswerSet
  <1> HIDE DEF w
  <1>6. /\ f \in AnswerSet /\ f.uws = [uws EXCEPT !.waits = TRUE] /\ f.pool = pool
        /\ f.stream.phase = stream.phase /\ f.stream.headed
        /\ f.stream.done = stream.done /\ f.stream.closing = stream.closing
        /\ f.wire.heads = 1 /\ f.wire.last = "none"
    <2> DEFINE v == [w.stream EXCEPT !.paused = TRUE]
               u == [w.uws EXCEPT !.waits = TRUE]
    <2>1. w.stream \in StreamSet /\ w.uws \in UwsType
      BY <1>5 DEF AnswerSet
    <2>2. /\ v \in StreamSet /\ v.phase = stream.phase /\ v.headed /\ u \in UwsType
          /\ v.done = stream.done /\ v.closing = stream.closing
      BY <1>5, <2>1 DEF StreamSet, UwsType
    <2>3. f = With(w, u, v)
      BY <1>5 DEF AnswerSet, With
    <2>4. u = [uws EXCEPT !.waits = TRUE]
      BY <1>5
    <2> HIDE DEF u, v, f
    <2> QED BY <1>5, <2>2, <2>3, <2>4, WithIs
  <1> HIDE DEF f
  <1>7. PICK b \in {w, f} : Becomes(b)
    BY <1>3
  <1>8. /\ b \in AnswerSet /\ b.pool = pool /\ b.stream.phase = stream.phase
        /\ b.uws.faults = uws.faults /\ b.uws.over = uws.over /\ b.uws.listener = uws.listener
        /\ b.uws.guarded = uws.guarded /\ b.uws.hook = uws.hook /\ b.uws.stack = uws.stack
        /\ b.uws.aborted = uws.aborted
        /\ b.stream.headed /\ b.wire.heads = 1 /\ b.wire.last = "none"
        /\ b.stream.done = stream.done /\ b.stream.closing = stream.closing
    BY <1>1, <1>5, <1>6 DEF UwsType
  <1>11. Written(b)
    BY <1>1, <1>8, <1>10 DEF Written
  <1>9. Sound(b)
    BY <1>8, <1>11, ThisIs DEF Answers0, Sound, Flowing
  <1>12. Answers0' /\ This' = b
    BY <1>7, <1>8, <1>9, StepSound, AnswerSame
  <1>13. uws' = b.uws /\ stream' = b.stream /\ pool' = b.pool
    BY <1>7 DEF Becomes
  <1> QED BY <1>1, <1>8, <1>12, <1>13, ThisIs DEF Idle, Remembers, Steady

\* A stream that was read, or broke, closes: of an answer not over already, it is now.
IsLast(a, b) ==
    /\ b.stream.phase \in {"read", "destroyed"} /\ b.stream.closing
    /\ b.uws.guarded = a.uws.guarded
    /\ ~a.stream.done /\ ~a.uws.aborted =>
          b.uws.over # "no" /\ (b.stream.phase = "read" => b.uws.over = "ended")

LEMMA EndSound ==
  ASSUME Answers0, StreamEnd
  PROVE  Answers0' /\ Remembers /\ ~Idle(This) /\ IsLast(This, This')
  <1>1. /\ stream.phase = "ended" /\ uws.over = "no" /\ pool = 0 /\ uws.faults = {}
        /\ uws \in UwsType /\ stream \in StreamSet /\ wire \in WireSet
        /\ This \in AnswerSet /\ Written(This)
    BY ThisIs DEF StreamEnd, Answers0, Sound, Flowing, AnswerSet
  <1>10. (IF stream.headed THEN wire.heads ELSE wire.heads + 1) = 1
    BY <1>1, ThisIs DEF Written, WireSet
  <1> DEFINE a == [This EXCEPT !.stream.phase = "read", !.stream.closing = TRUE]
             d == [a EXCEPT !.stream.done = TRUE]
             h == HeadOnce(d)
  <1>2. /\ a \in AnswerSet /\ a.uws = uws /\ a.pool = 0 /\ a.stream.phase = "read"
        /\ a.wire = wire /\ a.stream.headed = stream.headed /\ a.stream.closing
    <2> DEFINE v == [stream EXCEPT !.phase = "read", !.closing = TRUE]
    <2>1. v \in StreamSet /\ v.phase = "read" /\ v.headed = stream.headed /\ v.closing
      BY <1>1 DEF StreamSet
    <2>2. a = With(This, uws, v)
      BY ThisIs DEF This, With
    <2> HIDE DEF v, a
    <2> QED BY <1>1, <2>1, <2>2, WithIs, ThisIs DEF Answers0
  <1>3. Becomes(IF stream.done \/ uws.aborted THEN a ELSE End(h))
    BY DEF StreamEnd
  <1> HIDE DEF a
  <1>4. /\ d \in AnswerSet /\ d.uws = uws /\ d.pool = 0 /\ d.stream.phase = "read"
        /\ d.wire = wire /\ d.stream.headed = stream.headed /\ d.stream.closing
    <2> DEFINE v == [a.stream EXCEPT !.done = TRUE]
    <2>1. /\ a.stream \in StreamSet /\ v \in StreamSet /\ v.phase = "read"
          /\ v.headed = stream.headed /\ v.closing
      BY <1>2 DEF AnswerSet, StreamSet
    <2>2. d = With(a, a.uws, v)
      BY <1>2 DEF AnswerSet, With
    <2> HIDE DEF v, d
    <2> QED BY <1>1, <1>2, <2>1, <2>2, WithIs
  <1> HIDE DEF d
  <1>5. /\ h \in AnswerSet /\ h.uws = uws /\ h.pool = 0 /\ h.stream.phase = "read"
        /\ h.stream.headed /\ h.wire.heads = 1 /\ h.stream.closing
    <2>1. /\ h \in AnswerSet /\ h.uws = d.uws /\ h.pool = d.pool
          /\ h.stream = [d.stream EXCEPT !.headed = TRUE]
          /\ h.wire.heads = IF d.stream.headed THEN d.wire.heads ELSE d.wire.heads + 1
      BY <1>1, <1>4, HeadSent
    <2>2. d.stream \in StreamSet
      BY <1>4 DEF AnswerSet
    <2> HIDE DEF h
    <2> QED BY <1>4, <1>10, <2>1, <2>2 DEF StreamSet
  <1> HIDE DEF h
  <1>6. /\ End(h) \in AnswerSet /\ End(h).stream = h.stream /\ End(h).pool = 0
        /\ End(h).uws = [uws EXCEPT !.over = "ended", !.listener = "none"]
        /\ End(h).wire.heads = h.wire.heads /\ End(h).wire.last = "end"
    BY <1>1, <1>5, Ended
  <1>7. PICK b : /\ b \in {a, End(h)} /\ Becomes(b)
                 /\ ~stream.done /\ ~uws.aborted => b = End(h)
    BY <1>3
  <1>8. /\ b \in AnswerSet /\ b.pool = 0 /\ b.stream.phase = "read"
        /\ b.uws.faults = {} /\ b.uws.stack = uws.stack /\ Written(b)
        /\ b.uws.aborted = uws.aborted
        /\ b.stream.closing /\ b.uws.guarded = uws.guarded
        /\ ~stream.done /\ ~uws.aborted => b.uws.over = "ended"
    <2>1. CASE b = a
      <3>1. Written(a)
        BY <1>1, <1>2, WrittenAs, ThisIs
      <3>2. ~stream.done /\ ~uws.aborted => End(h).uws.over = "ended"
        BY <1>1, <1>6 DEF UwsType
      <3> QED BY <1>1, <1>2, <1>7, <2>1, <3>1, <3>2
    <2>2. CASE b = End(h)
      <3>1. /\ End(h).uws.faults = {} /\ End(h).uws.stack = uws.stack
            /\ End(h).uws.over = "ended" /\ End(h).uws.aborted = uws.aborted
            /\ End(h).uws.guarded = uws.guarded
        BY <1>1, <1>6 DEF UwsType
      <3>2. /\ End(h) \in AnswerSet /\ End(h).pool = 0 /\ End(h).stream.phase = "read"
            /\ End(h).stream.headed /\ End(h).wire.heads = 1 /\ End(h).wire.last = "end"
            /\ End(h).stream.closing
        BY <1>5, <1>6
      <3>3. Written(End(h))
        BY <3>1, <3>2 DEF Written
      <3> QED BY <2>2, <3>1, <3>2, <3>3
    <2> QED BY <1>7, <2>1, <2>2
  <1>9. Sound(b)
    BY <1>8 DEF Sound, Flowing
  <1>11. Answers0' /\ This' = b
    BY <1>7, <1>8, <1>9, StepSound, AnswerSame
  <1>12. uws' = b.uws /\ stream' = b.stream /\ pool' = b.pool
    BY <1>7 DEF Becomes
  <1> QED BY <1>1, <1>8, <1>11, <1>12, ThisIs DEF Idle, Remembers, IsLast

LEMMA ErrorSound ==
  ASSUME Answers0, StreamError
  PROVE  Answers0' /\ Remembers /\ ~Idle(This) /\ IsLast(This, This')
  <1>1. /\ stream.phase = "failed" /\ uws.over = "no" /\ pool = 0 /\ uws.faults = {}
        /\ uws \in UwsType /\ stream \in StreamSet
        /\ This \in AnswerSet /\ Written(This)
    BY ThisIs DEF StreamError, Answers0, Sound, Flowing, AnswerSet
  <1> DEFINE a == [This EXCEPT !.stream.phase = "destroyed", !.stream.closing = TRUE]
             d == [a EXCEPT !.stream.done = TRUE]
  <1>2. /\ a \in AnswerSet /\ a.uws = uws /\ a.pool = 0 /\ a.stream.phase = "destroyed"
        /\ a.wire = wire /\ a.stream.headed = stream.headed /\ a.stream.closing
    <2> DEFINE v == [stream EXCEPT !.phase = "destroyed", !.closing = TRUE]
    <2>1. v \in StreamSet /\ v.phase = "destroyed" /\ v.headed = stream.headed /\ v.closing
      BY <1>1 DEF StreamSet
    <2>2. a = With(This, uws, v)
      BY ThisIs DEF This, With
    <2> HIDE DEF v, a
    <2> QED BY <1>1, <2>1, <2>2, WithIs, ThisIs DEF Answers0
  <1>3. Becomes(IF stream.done \/ uws.aborted THEN a
                ELSE IF stream.headed THEN Close(d) ELSE Send(d, 500))
    BY DEF StreamError
  <1> HIDE DEF a
  <1>4. /\ d \in AnswerSet /\ d.uws = uws /\ d.pool = 0 /\ d.stream.phase = "destroyed"
        /\ d.wire = wire /\ d.stream.headed = stream.headed /\ d.stream.closing
    <2> DEFINE v == [a.stream EXCEPT !.done = TRUE]
    <2>1. /\ a.stream \in StreamSet /\ v \in StreamSet /\ v.phase = "destroyed"
          /\ v.headed = stream.headed /\ v.closing
      BY <1>2 DEF AnswerSet, StreamSet
    <2>2. d = With(a, a.uws, v)
      BY <1>2 DEF AnswerSet, With
    <2> HIDE DEF v, d
    <2> QED BY <1>1, <1>2, <2>1, <2>2, WithIs
  <1> HIDE DEF d
  <1>10. Written(a) /\ Written(d)
    BY <1>1, <1>2, <1>4, WrittenAs, ThisIs
  <1>5. /\ Close(d) \in AnswerSet /\ Close(d).pool = 0 /\ Close(d).stream.phase = "destroyed"
        /\ Close(d).uws.faults = {} /\ Close(d).uws.stack = uws.stack
        /\ Close(d).uws.over = "closed" /\ Close(d).uws.guarded = uws.guarded
        /\ Close(d).stream.closing
        /\ stream.headed => Written(Close(d))
    <2>1. Close(d) = [d EXCEPT !.wire.last = "cut", !.uws.over = "closed",
                        !.uws.aborted = d.uws.guarded]
      BY <1>1, <1>4, Untouched DEF Close
    <2> DEFINE x == [d.wire EXCEPT !.last = "cut"]
               u == [d.uws EXCEPT !.over = "closed", !.aborted = d.uws.guarded]
    <2>2. d.wire \in WireSet /\ x \in WireSet /\ x.heads = wire.heads /\ x.last = "cut"
      BY <1>4 DEF AnswerSet, WireSet
    <2>3. u \in UwsType /\ u.faults = {} /\ u.stack = uws.stack /\ u.over = "closed"
          /\ u.guarded = uws.guarded
      BY <1>1, <1>4 DEF UwsType
    <2>4. Close(d) = [d EXCEPT !.wire = x, !.uws = u]
      BY <1>4, <2>1 DEF AnswerSet
    <2> HIDE DEF x, u
    <2>5. /\ Close(d) \in AnswerSet /\ Close(d).wire = x /\ Close(d).uws = u
          /\ Close(d).stream = d.stream /\ Close(d).pool = d.pool
      BY <1>4, <2>2, <2>3, <2>4 DEF AnswerSet
    <2>6. stream.headed => x.heads = 1
      BY <1>1, <2>2, ThisIs DEF Written
    <2>7. stream.headed => Written(Close(d))
      BY <1>4, <2>2, <2>3, <2>5, <2>6 DEF Written
    <2> QED BY <1>4, <2>3, <2>5, <2>7
  <1>6. /\ Send(d, 500) \in AnswerSet /\ Send(d, 500).pool = 0
        /\ Send(d, 500).stream.phase = "destroyed"
        /\ Send(d, 500).uws.faults = {} /\ Send(d, 500).uws.stack = uws.stack
        /\ Send(d, 500).uws.guarded = uws.guarded /\ Send(d, 500).stream.closing
        /\ ~uws.aborted => Send(d, 500).uws.over = "ended"
        /\ ~stream.headed => Written(Send(d, 500))
    <2> DEFINE w == Send(d, 500)
    <2>1. (w = d /\ uws.aborted) \/ IsEnd(d, w)
      BY <1>1, <1>4, Sent
    <2> HIDE DEF w
    <2>2. CASE w = d /\ uws.aborted
      BY <1>1, <1>4, <1>10, <2>2 DEF w
    <2>3. CASE IsEnd(d, w)
      <3>1. w.uws = [uws EXCEPT !.over = "ended", !.listener = "none"]
        BY <1>4, <2>3 DEF IsEnd
      <3>2. /\ w.uws.faults = {} /\ w.uws.stack = uws.stack /\ w.uws.over = "ended"
            /\ w.uws.guarded = uws.guarded
        BY <1>1, <3>1 DEF UwsType
      <3>3. w \in AnswerSet /\ w.pool = 0 /\ w.stream.phase = "destroyed" /\ w.stream.closing
        BY <1>4, <2>3 DEF IsEnd
      <3>4. ~stream.headed => Written(w)
        BY <1>1, <1>4, <1>10, <2>3, EndWritten
      <3> QED BY <3>2, <3>3, <3>4 DEF w
    <2> QED BY <2>1, <2>2, <2>3
  <1>7. PICK b : /\ b = a \/ (b = Close(d) /\ stream.headed)
                    \/ (b = Send(d, 500) /\ ~stream.headed)
                 /\ Becomes(b) /\ (uws.aborted => b = a)
                 /\ ~stream.done /\ ~uws.aborted =>
                       b = Close(d) \/ b = Send(d, 500)
    BY <1>3
  <1>8. /\ b \in AnswerSet /\ b.pool = 0 /\ b.stream.phase = "destroyed"
        /\ b.uws.faults = {} /\ b.uws.stack = uws.stack /\ Written(b)
        /\ b.stream.closing /\ b.uws.guarded = uws.guarded
    <2>1. CASE b = a
      BY <1>1, <1>2, <1>10, <2>1
    <2>2. CASE b = Close(d) /\ stream.headed
      BY <1>5, <2>2
    <2>3. CASE b = Send(d, 500) /\ ~stream.headed
      BY <1>6, <2>3
    <2> QED BY <1>7, <2>1, <2>2, <2>3
  <1>9. Sound(b)
    BY <1>8 DEF Sound, Flowing
  <1>11. uws.aborted => b.uws.aborted
    BY <1>2, <1>7
  <1>12. ~stream.done /\ ~uws.aborted => b.uws.over # "no"
    BY <1>5, <1>6, <1>7
  <1>13. Answers0' /\ This' = b
    BY <1>7, <1>8, <1>9, StepSound, AnswerSame
  <1>14. uws' = b.uws /\ stream' = b.stream /\ pool' = b.pool
    BY <1>7 DEF Becomes
  <1> QED BY <1>1, <1>8, <1>11, <1>12, <1>13, <1>14, ThisIs DEF Idle, Remembers, IsLast

LEMMA WritableSound ==
  ASSUME Answers0, Writable
  PROVE  /\ Answers0' /\ uws' = [uws EXCEPT !.waits = FALSE] /\ pool' = pool
         /\ stream'.phase = stream.phase /\ stream'.closing = stream.closing
         /\ Steady(This, This')
  <1>1. uws \in UwsType /\ stream \in StreamSet
    BY ThisIs DEF Answers0, AnswerSet
  <1> DEFINE b == [This EXCEPT !.uws.waits = FALSE, !.stream.paused = FALSE]
             u == [uws EXCEPT !.waits = FALSE]
             v == [stream EXCEPT !.paused = FALSE]
  <1>2. /\ u \in UwsType /\ v \in StreamSet
        /\ v.phase = stream.phase /\ v.closing = stream.closing /\ v.headed = stream.headed
        /\ v.done = stream.done
    BY <1>1 DEF UwsType, StreamSet
  <1>3. b = With(This, u, v)
    BY ThisIs DEF This, With
  <1>4. Becomes(b)
    BY DEF Writable
  <1>5. /\ u.faults = uws.faults /\ u.over = uws.over /\ u.listener = uws.listener
        /\ u.guarded = uws.guarded /\ u.hook = uws.hook /\ u.aborted = uws.aborted
    BY <1>1 DEF UwsType
  <1> HIDE DEF b, u, v
  <1>6. b \in AnswerSet /\ b.uws = u /\ b.stream = v /\ b.pool = pool /\ b.wire = wire
    BY <1>2, <1>3, WithIs, ThisIs DEF Answers0
  <1>8. Written(This) /\ This \in AnswerSet
    BY DEF Answers0, Sound
  <1>9. Written(b)
    BY <1>2, <1>5, <1>6, <1>8, ThisIs DEF Written
  <1>7. Sound(b)
    BY <1>2, <1>5, <1>6, <1>9, ThisIs DEF Answers0, Sound, Flowing
  <1>10. This' = b
    BY <1>4, <1>6, AnswerSame
  <1>11. Steady(This, b)
    BY <1>2, <1>5, <1>6, ThisIs DEF Steady
  <1> QED BY <1>2, <1>4, <1>6, <1>7, <1>10, <1>11, StepSound DEF u

LEMMA PoolSound ==
  ASSUME Answers0, PoolAnswers
  PROVE  /\ Answers0' /\ Remembers /\ ~Idle(This)
         /\ stream' = stream /\ uws'.guarded = uws.guarded
         /\ IF uws.aborted THEN uws' = uws ELSE uws'.over = "ended"
  <1>1. /\ pool # 0 /\ pool \in Nat /\ uws.faults = {} /\ ~Flowing(This)
        /\ uws.aborted \/ uws.over = "no"
        /\ uws \in UwsType
        /\ This \in AnswerSet /\ Written(This)
    BY ThisIs DEF PoolAnswers, Answers0, Sound, AnswerSet
  <1> DEFINE a == [This EXCEPT !.pool = 0]
  <1>2. /\ a \in AnswerSet /\ a.uws = uws /\ a.stream = stream /\ a.pool = 0 /\ a.wire = wire
    BY ThisIs DEF Answers0, AnswerSet
  <1>6. Written(a) /\ ~a.stream.headed
    <2>1. ~stream.headed
      BY <1>1, ThisIs DEF Written
    <2> QED BY <1>1, <1>2, <2>1, WrittenAs, ThisIs
  <1>3. \E failed \in BOOLEAN :
            Becomes(IF uws.aborted THEN a
                    ELSE IF failed THEN Send(a, 500) ELSE Whole(a, pool, TRUE, FALSE))
    BY DEF PoolAnswers
  <1> HIDE DEF a
  <1>4. CASE uws.aborted
    <2>1. Becomes(a)
      BY <1>3, <1>4
    <2>2. Sound(a)
      BY <1>1, <1>2, <1>6, ThisIs DEF Sound, Flowing
    <2> QED BY <1>1, <1>2, <1>4, <2>1, <2>2, StepSound, ThisIs DEF Idle, Remembers
  <1>5. CASE ~uws.aborted
    <2>1. IsEnd(a, Whole(a, pool, TRUE, FALSE))
      BY <1>1, <1>2, <1>5, WholeSent
    <2>2. IsEnd(a, Send(a, 500))
      BY <1>1, <1>2, <1>5, Sent
    <2>3. PICK b : IsEnd(a, b) /\ Becomes(b)
      BY <1>3, <1>5, <2>1, <2>2
    <2>4. /\ b \in AnswerSet /\ b.pool = 0 /\ b.stream = stream
          /\ b.uws.faults = {} /\ b.uws.stack = uws.stack
          /\ b.uws.over = "ended" /\ b.uws.guarded = uws.guarded
      BY <1>1, <1>2, <2>3 DEF IsEnd, UwsType
    <2>6. Written(b)
      BY <1>1, <1>2, <1>5, <1>6, <2>3, EndWritten
    <2>5. Sound(b)
      BY <1>1, <2>4, <2>6, ThisIs DEF Sound, Flowing
    <2> QED BY <1>1, <1>5, <2>3, <2>4, <2>5, StepSound, ThisIs DEF Idle, Remembers
  <1> QED BY <1>4, <1>5

\* uWS corks around its callbacks.
OnStack(a, on) == [a EXCEPT !.uws.stack = on]

LEMMA StackIs ==
  ASSUME NEW a \in AnswerSet, NEW on \in BOOLEAN
  PROVE  /\ OnStack(a, on) \in AnswerSet
         /\ OnStack(a, on).uws = [a.uws EXCEPT !.stack = on]
         /\ OnStack(a, on).stream = a.stream /\ OnStack(a, on).pool = a.pool
         /\ OnStack(a, on).wire = a.wire
         /\ Sound(a) => Sound(OnStack(a, on))
         /\ Idle(a) => Idle(OnStack(a, on))
  <1> DEFINE b == OnStack(a, on)
             u == [a.uws EXCEPT !.stack = on]
  <1>1. a.uws \in UwsType
    BY DEF AnswerSet
  <1>2. u \in UwsType /\ u.faults = a.uws.faults /\ u.over = a.uws.over
        /\ u.listener = a.uws.listener /\ u.guarded = a.uws.guarded /\ u.hook = a.uws.hook
        /\ u.aborted = a.uws.aborted
    BY <1>1 DEF UwsType
  <1>3. /\ b \in AnswerSet /\ b.uws = u /\ b.stream = a.stream /\ b.pool = a.pool
        /\ b.wire = a.wire
    BY <1>2 DEF AnswerSet, OnStack
  <1> HIDE DEF b, u
  <1>6. Written(a) => Written(b)
    BY <1>2, <1>3 DEF Written
  <1>4. Sound(a) => Sound(b)
    BY <1>2, <1>3, <1>6 DEF Sound, Flowing
  <1>5. Idle(a) => Idle(b)
    BY <1>3 DEF Idle
  <1> QED BY <1>3, <1>4, <1>5 DEF b, u

-----------------------------------------------------------------------------
(* A raw route with the utilities.                                         *)

Pending == {"runs", "waits", "calledBack"}

\* Until it answers nothing is under way, and uWS's response is there or guard()
\* has been told that it is not; who waits has called guard().
HandlerSafe ==
    /\ Answers0
    /\ handler \in [phase : {"new", "runs", "waits", "calledBack", "done"}, takes : BOOLEAN,
                    returned : BOOLEAN]
    /\ DOMAIN read = {"on", "kind", "limit", "length", "pieces", "finished", "given", "refused",
                      "lent"}
    /\ handler.phase = "new" =>
          /\ Idle(This) /\ uws.over = "no" /\ ~uws.guarded /\ ~uws.stack
          /\ ~handler.returned /\ ~read.on
    /\ handler.phase \in Pending =>
          /\ Idle(This) /\ (uws.over = "no" \/ uws.aborted)
          /\ uws.guarded => uws.aborted \/ uws.listener = "guard"
          /\ ~uws.guarded => handler.phase = "runs" /\ ~handler.returned /\ uws.over = "no"
    /\ read.on /\ ~read.finished => handler.phase = "waits"

LEMMA HandlerInitially == HandlerInit => HandlerSafe
  <1> SUFFICES ASSUME HandlerInit PROVE HandlerSafe
    OBVIOUS
  <1>1. /\ uws \in UwsType /\ uws.over = "no" /\ ~uws.guarded /\ ~uws.stack /\ uws.faults = {}
        /\ wire \in WireSet /\ stream \in StreamSet /\ stream.phase = "none" /\ pool = 0
        /\ ~stream.closing /\ ~stream.headed
        /\ wire.heads = 0 /\ wire.pieces = 0 /\ wire.last = "none"
    BY DEF HandlerInit, AnswerInit, UwsType, Listeners, WireSet, StreamSet, NoStream
  <1>3. Written(This)
    BY <1>1, ThisIs DEF Written
  <1>2. Answers0 /\ Idle(This)
    <2>1. This \in AnswerSet
      BY <1>1 DEF This, AnswerSet
    <2> QED BY <1>1, <1>3, <2>1, ThisIs DEF Answers0, Sound, Idle, Flowing
  <1> QED BY <1>1, <1>2 DEF HandlerInit, HandlerSafe, Pending

\* A step that leaves the answer idle and keeps what guard() was told.
LEMMA GuardedSteps ==
  ASSUME HandlerSafe, handler.phase = "runs", ~handler.returned, Becomes(Guard(This))
  PROVE  /\ Answers0' /\ Idle(This)' /\ uws'.guarded /\ Remembers
         /\ uws'.over = "no" \/ uws'.aborted
         /\ uws'.aborted \/ uws'.listener = "guard"
  <1>1. /\ Answers0 /\ Idle(This) /\ (uws.over = "no" \/ uws.aborted)
        /\ uws.guarded => uws.aborted \/ uws.listener = "guard"
        /\ ~uws.guarded => uws.over = "no"
    BY DEF HandlerSafe, Pending
  <1> DEFINE g == Guard(This)
  <1>2. /\ g \in AnswerSet /\ g.stream = stream /\ g.pool = pool /\ g.wire = wire
        /\ g.uws = IF uws.guarded THEN uws
                   ELSE [uws EXCEPT !.listener = "guard", !.guarded = TRUE]
    BY <1>1, Guarded, ThisIs DEF Answers0
  <1> HIDE DEF g
  <1>3. uws \in UwsType
    BY <1>1, ThisIs DEF Answers0, AnswerSet
  <1>4. /\ g.uws.faults = uws.faults /\ g.uws.guarded
        /\ g.uws.over = "no" \/ g.uws.aborted
        /\ g.uws.aborted \/ g.uws.listener = "guard"
        /\ g.uws.over = uws.over /\ g.uws.stack = uws.stack /\ g.uws.aborted = uws.aborted
    BY <1>1, <1>2, <1>3 DEF UwsType
  <1>8. Written(g)
    BY <1>1, <1>2, <1>4, ThisIs DEF Answers0, Sound, Written
  <1>5. Sound(g)
    BY <1>1, <1>2, <1>4, <1>8, ThisIs DEF Answers0, Sound, Idle, Flowing
  <1>6. Answers0' /\ uws' = g.uws /\ stream' = g.stream /\ pool' = g.pool
    BY <1>2, <1>5, StepSound DEF g
  <1>7. Idle(This)'
    BY <1>1, <1>2, <1>6, ThisIs DEF Idle, This
  <1> QED BY <1>4, <1>6, <1>7 DEF Remembers

LEMMA HandlerSafe_Data ==
  ASSUME HandlerSafe, Data
  PROVE  HandlerSafe' /\ uws'.stack /\ (uws.aborted => uws'.aborted)
  <1> DEFINE s == OnStack(This, TRUE)
  <1>1. /\ Answers0 /\ handler.returned /\ handler.phase # "new" /\ read.on
        /\ This \in AnswerSet /\ Sound(This) /\ uws \in UwsType
    BY ThisIs DEF HandlerSafe, Data, Answers0, AnswerSet
  <1>2. /\ s \in AnswerSet /\ s.uws = [uws EXCEPT !.stack = TRUE] /\ s.stream = stream
        /\ s.pool = pool /\ Sound(s) /\ (Idle(This) => Idle(s))
    BY <1>1, StackIs, ThisIs
  <1>3. /\ s.uws.over = uws.over /\ s.uws.aborted = uws.aborted /\ s.uws.guarded = uws.guarded
        /\ s.uws.listener = uws.listener /\ s.uws.stack
    <2>1. PICK u : u = [uws EXCEPT !.stack = TRUE]
      OBVIOUS
    <2>2. /\ u.over = uws.over /\ u.aborted = uws.aborted /\ u.guarded = uws.guarded
          /\ u.listener = uws.listener /\ u.stack
      BY <1>1, <2>1 DEF UwsType
    <2> HIDE DEF s
    <2> QED BY <1>2, <2>1, <2>2
  <1>4. s = [This EXCEPT !.uws.stack = TRUE]
    BY DEF OnStack
  <1>5. CASE read.finished \/ uws.aborted
    <2>1. Becomes(s) /\ UNCHANGED <<read, handler>>
      BY <1>4, <1>5 DEF Data
    <2> HIDE DEF s
    <2>2. Answers0' /\ uws' = s.uws /\ stream' = s.stream /\ pool' = s.pool
      BY <1>2, <2>1, StepSound
    <2>3. Idle(This) => Idle(This)'
      BY <1>2, <2>2, ThisIs DEF Idle, This
    <2> QED BY <1>1, <1>3, <2>1, <2>2, <2>3 DEF HandlerSafe, Pending
  <1>6. CASE ~(read.finished \/ uws.aborted)
    <2> DEFINE last == Len(coming) = 1
               length == read.length + Head(coming)
               fits == Fits(length)
               pieces == Append(read.pieces, Head(coming))
               calls(parses) == fits /\ last /\ parses
               Read1(parses) ==
                 [read EXCEPT !.length = length, !.pieces = pieces,
                    !.finished = ~fits \/ last,
                    !.refused = ~fits \/ (last /\ ~parses),
                    !.given = IF calls(parses) THEN Append(@, length) ELSE @,
                    !.lent = IF calls(parses) /\ Len(whole) = 1 THEN "good" ELSE @]
               t == [This EXCEPT !.uws.stack = TRUE]
    <2>0. PICK parses \in IF read.kind = "json" THEN BOOLEAN ELSE {TRUE} :
            /\ read' = Read1(parses)
            /\ handler' = [handler EXCEPT !.phase =
                             CASE calls(parses) -> "calledBack"
                               [] ~calls(parses) /\ (~fits \/ last) -> "done"
                               [] OTHER -> @]
            /\ Becomes(CASE ~fits -> Send(t, 413)
                         [] fits /\ last /\ ~parses -> Send(t, 400)
                         [] OTHER -> t)
      BY <1>6, Zenon DEF Data
    <2>1. /\ parses \in BOOLEAN /\ read' = Read1(parses)
          /\ handler' = [handler EXCEPT !.phase =
                           CASE calls(parses) -> "calledBack"
                             [] ~calls(parses) /\ (~fits \/ last) -> "done"
                             [] OTHER -> @]
          /\ Becomes(CASE ~fits -> Send(s, 413)
                       [] fits /\ last /\ ~parses -> Send(s, 400)
                       [] OTHER -> s)
      BY <1>4, <2>0
    <2> HIDE DEF s, t, last, fits, length, pieces
    <2>2. /\ DOMAIN read' = DOMAIN read /\ read'.on = read.on
          /\ read'.finished = (~fits \/ last)
      BY <2>1 DEF HandlerSafe
    <2>3. handler.phase = "waits" /\ uws.over = "no" /\ uws.guarded /\ Idle(This)
          /\ uws.listener = "guard"
      BY <1>1, <1>6 DEF HandlerSafe, Pending
    <2>4. /\ handler' \in [phase : {"new", "runs", "waits", "calledBack", "done"},
                          takes : BOOLEAN, returned : BOOLEAN]
          /\ handler'.returned = handler.returned
          /\ fits /\ last /\ parses => handler'.phase = "calledBack"
          /\ ~fits \/ (last /\ ~parses) => handler'.phase = "done"
          /\ fits /\ ~last => handler'.phase = "waits"
      BY <2>1, <2>3 DEF HandlerSafe
    <2>5. CASE ~fits \/ (last /\ ~parses)
      <3>1. PICK status \in Nat : Becomes(Send(s, status))
        BY <2>1, <2>5
      <3> DEFINE w == Send(s, status)
      <3>2. IsEnd(s, w)
        BY <1>2, <1>3, <1>6, <2>3, Sent
      <3> HIDE DEF w
      <3>3. w \in AnswerSet /\ Sound(w) /\ w.uws.stack
        BY <1>2, <1>3, <2>3, <3>2, AnswerSent
      <3>4. Answers0' /\ uws'.stack
        BY <3>1, <3>3, StepSound DEF w
      <3> QED BY <1>1, <1>6, <2>2, <2>4, <2>5, <3>4 DEF HandlerSafe, Pending
    <2>6. CASE fits /\ (last => parses)
      <3>1. Becomes(s)
        BY <2>1, <2>6
      <3>2. Answers0' /\ uws' = s.uws /\ stream' = s.stream /\ pool' = s.pool
        BY <1>2, <3>1, StepSound
      <3>3. Idle(This)'
        BY <1>2, <2>3, <3>2, ThisIs DEF Idle, This
      <3> QED BY <1>1, <1>3, <2>2, <2>3, <2>4, <2>6, <3>2, <3>3 DEF HandlerSafe, Pending
    <2> QED BY <2>5, <2>6
  <1> QED BY <1>5, <1>6

\* What goes on once the handler has answered leaves the rest as it is.
LEMMA HandlerSafe_After ==
  ASSUME HandlerSafe, ~Idle(This), Answers0', UNCHANGED handlerVars
  PROVE  HandlerSafe'
  BY DEF HandlerSafe, Pending, handlerVars

LEMMA HandlerSafe_Source ==
  ASSUME HandlerSafe, Gives \/ Ends \/ Fails
  PROVE  HandlerSafe' /\ Remembers
  <1>1. /\ Answers0 /\ This \in AnswerSet /\ Sound(This) /\ stream \in StreamSet /\ uws \in UwsType
        /\ stream.phase = "open" /\ ~Idle(This) /\ UNCHANGED handlerVars
    BY ThisIs DEF HandlerSafe, Answers0, AnswerSet, Gives, Ends, Fails, Source, Idle
  <1>2. PICK v : /\ Becomes(With(This, uws, v)) /\ v \in StreamSet
                 /\ v.headed = stream.headed /\ v.phase # "none"
    <2>1. CASE Gives
      <3> DEFINE v == [stream EXCEPT !.left = @ + 1]
      <3>1. stream.left + 1 \in Nat
        BY <1>1 DEF StreamSet
      <3>2. v \in StreamSet /\ v.headed = stream.headed /\ v.phase # "none"
        BY <1>1, <3>1 DEF StreamSet
      <3>3. [This EXCEPT !.stream.left = @ + 1] = With(This, uws, v)
        BY ThisIs DEF This, With
      <3> HIDE DEF v
      <3> QED BY <2>1, <3>2, <3>3 DEF Gives, Source
    <2>2. CASE Ends
      <3> DEFINE v == [stream EXCEPT !.phase = "ended"]
      <3>1. v \in StreamSet /\ v.headed = stream.headed /\ v.phase # "none"
        BY <1>1 DEF StreamSet
      <3>2. [This EXCEPT !.stream.phase = "ended"] = With(This, uws, v)
        BY ThisIs DEF This, With
      <3> HIDE DEF v
      <3> QED BY <2>2, <3>1, <3>2 DEF Ends, Source
    <2>3. CASE Fails
      <3> DEFINE v == [stream EXCEPT !.phase = "failed", !.closing = FALSE]
      <3>1. v \in StreamSet /\ v.headed = stream.headed /\ v.phase # "none"
        BY <1>1 DEF StreamSet
      <3>2. Destroy(This, "failed") = [This EXCEPT !.stream.phase = "failed",
                                         !.stream.closing = ("failed" = "destroyed")]
        BY <1>1, ThisIs DEF Destroy, Over
      <3>3. Destroy(This, "failed") = With(This, uws, v)
        BY <3>2, ThisIs DEF This, With
      <3> HIDE DEF v
      <3> QED BY <2>3, <3>1, <3>3 DEF Fails, Source
    <2> QED BY <2>1, <2>2, <2>3
  <1> DEFINE b == With(This, uws, v)
  <1>3. /\ b \in AnswerSet /\ b.uws = uws /\ b.pool = pool /\ b.wire = wire
        /\ b.stream.headed = stream.headed /\ b.stream.phase # "none"
    BY <1>1, <1>2, WithIs, ThisIs
  <1> HIDE DEF b
  <1>6. Written(b)
    BY <1>1, <1>3, ThisIs DEF Sound, Written
  <1>4. Sound(b)
    BY <1>1, <1>3, <1>6, ThisIs DEF Sound, Flowing
  <1>5. Answers0' /\ Remembers
    BY <1>2, <1>3, <1>4, StepSound DEF b, Remembers
  <1> QED BY <1>1, <1>5, HandlerSafe_After

LEMMA HandlerSafe_Leaves ==
  ASSUME HandlerSafe, ClientLeaves
  PROVE  HandlerSafe' /\ Remembers
  <1>1. /\ Answers0 /\ This \in AnswerSet /\ Sound(This) /\ uws.over = "no" /\ uws \in UwsType
        /\ stream.phase # "failed" /\ handler.returned /\ UNCHANGED handlerVars
    BY ThisIs DEF HandlerSafe, Answers0, AnswerSet, ClientLeaves, Due
  <1> DEFINE b == Aborted(This)
  <1>2. /\ b \in AnswerSet /\ Sound(b) /\ (Idle(This) => Idle(b))
        /\ b.uws = [uws EXCEPT !.over = "aborted",
                       !.aborted = (@ \/ uws.listener = "guard")]
    BY <1>1, AbortTold, ThisIs
  <1> HIDE DEF b
  <1>3. Answers0' /\ uws' = b.uws /\ stream' = b.stream /\ pool' = b.pool
    BY <1>2, StepSound DEF ClientLeaves, b
  <1>4. Idle(This) => Idle(This)'
    BY <1>2, <1>3, ThisIs DEF Idle, This
  <1>5. /\ uws'.guarded = uws.guarded
        /\ uws.aborted \/ uws.listener = "guard" => uws'.aborted
        /\ uws'.stack = uws.stack
    BY <1>1, <1>2, <1>3 DEF UwsType
  <1> QED BY <1>1, <1>3, <1>4, <1>5 DEF HandlerSafe, Pending, handlerVars, Remembers

LEMMA HandlerSafe_Answers ==
  ASSUME HandlerSafe, Answers \/ AnswersStream
  PROVE  HandlerSafe' /\ Remembers
  <1>1. /\ Answers0 /\ This \in AnswerSet /\ Sound(This) /\ uws \in UwsType /\ Idle(This)
        /\ uws.over = "no" \/ uws.aborted
        /\ uws.guarded => uws.aborted \/ uws.listener = "guard"
        /\ handler.phase # "waits" /\ handler.takes \in BOOLEAN
    BY ThisIs DEF HandlerSafe, Answers0, AnswerSet, Answers, AnswersStream, Answering, Pending
  <1>2. Answers0' /\ Remembers
    <2>1. CASE uws.aborted
      <3>1. Becomes(This)
        BY <2>1 DEF Answers, AnswersStream
      <3> QED BY <1>1, <3>1, StepSound, ThisIs DEF Remembers
    <2>2. CASE ~uws.aborted /\ Answers
      <3>1. PICK status \in {200, 204}, size \in Sizes, compressed \in BOOLEAN :
              Becomes(IF uws.aborted THEN This
                      ELSE IF compressed THEN Deliver(This, status, size, handler.takes, FALSE)
                      ELSE Send(This, status))
        BY <2>2, Zenon DEF Answers
      <3>2. status \in Nat \ {0}
        OBVIOUS
      <3>3. CASE compressed
        <4> DEFINE w == Deliver(This, status, size, handler.takes, FALSE)
        <4>1. IsOut(This, w)
          BY <1>1, <2>2, <3>2, Delivered, ThisIs
        <4> HIDE DEF w
        <4>2. Becomes(w)
          BY <2>2, <3>1, <3>3 DEF w
        <4> QED BY <2>2, <4>1, <4>2, StepSound, ThisIs DEF Remembers, IsOut
      <3>4. CASE ~compressed
        <4> DEFINE w == Send(This, status)
        <4>1. IsEnd(This, w)
          BY <1>1, <2>2, <3>2, Sent, ThisIs
        <4> HIDE DEF w
        <4>2. w \in AnswerSet /\ Sound(w) /\ w.uws.stack = uws.stack
          BY <1>1, <2>2, <4>1, AnswerSent, ThisIs
        <4>3. Becomes(w)
          BY <2>2, <3>1, <3>4 DEF w
        <4> QED BY <2>2, <4>2, <4>3, StepSound DEF Remembers
      <3> QED BY <3>3, <3>4
    <2>3. CASE ~uws.aborted /\ AnswersStream
      <3>1. PICK compressed \in BOOLEAN :
              Becomes(SendStream(This, 200, compressed /\ handler.takes, 0))
        BY <2>3, Zenon DEF AnswersStream
      <3>2. PICK coded \in BOOLEAN : coded = (compressed /\ handler.takes)
        OBVIOUS
      <3> DEFINE w == SendStream(This, 200, coded, 0)
                 g == Guard(This)
      <3>3. /\ g \in AnswerSet /\ g.uws = IF uws.guarded THEN uws
                           ELSE [uws EXCEPT !.listener = "guard", !.guarded = TRUE]
        BY <1>1, <2>3, Guarded, ThisIs
      <3>4. /\ w \in AnswerSet /\ w.uws = [g.uws EXCEPT !.hook = TRUE]
            /\ w.stream.phase = "open" /\ w.pool = pool /\ ~w.stream.headed /\ w.wire = wire
        <4>1. IsBegun(This, w)
          BY <1>1, <2>3, StreamBegun, ThisIs
        <4> QED BY <4>1, ThisIs DEF IsBegun
      <3>5. Becomes(w)
        BY <3>1, <3>2
      <3> HIDE DEF w, g
      <3>6. /\ w.uws.faults = {} /\ w.uws.over = "no" /\ w.uws.listener = "guard"
            /\ w.uws.guarded /\ w.uws.hook /\ w.uws.stack = uws.stack
        BY <1>1, <2>3, <3>3, <3>4, ThisIs DEF Sound, UwsType
      <3>8. Written(w)
        <4>1. Written(This) /\ ~stream.headed /\ uws.over = "no"
          BY <1>1, <2>3, ThisIs DEF Sound, Idle, Written
        <4> QED BY <1>1, <3>4, <3>6, <4>1, ThisIs DEF Written
      <3>7. Sound(w)
        BY <1>1, <3>4, <3>6, <3>8, ThisIs DEF Sound, Idle, Flowing
      <3> QED BY <2>3, <3>4, <3>5, <3>6, <3>7, StepSound DEF Remembers
    <2> QED BY <2>1, <2>2, <2>3
  <1>3. handler' = [handler EXCEPT !.phase = "done"] /\ read' = read
    BY DEF Answers, AnswersStream
  <1> QED BY <1>1, <1>2, <1>3 DEF HandlerSafe, Pending

LEMMA HandlerSafe_Program ==
  ASSUME HandlerSafe, HandlerReceives \/ Read \/ Wait \/ Continue \/ HandlerReturns
  PROVE  HandlerSafe'
  <1>1. /\ Answers0 /\ This \in AnswerSet /\ Sound(This) /\ uws \in UwsType
    BY ThisIs DEF HandlerSafe, Answers0, AnswerSet
  <1>2. ASSUME NEW on \in BOOLEAN, Becomes([This EXCEPT !.uws.stack = on])
        PROVE  /\ Answers0' /\ (Idle(This) => Idle(This)')
               /\ uws'.over = uws.over /\ uws'.aborted = uws.aborted
               /\ uws'.guarded = uws.guarded /\ uws'.listener = uws.listener
    <2> DEFINE b == OnStack(This, on)
    <2>1. /\ b \in AnswerSet /\ Sound(b) /\ (Idle(This) => Idle(b))
          /\ b.uws = [uws EXCEPT !.stack = on]
      BY <1>1, StackIs, ThisIs
    <2>2. Becomes(b)
      BY <1>2 DEF OnStack
    <2> HIDE DEF b
    <2>3. Answers0' /\ uws' = b.uws /\ stream' = b.stream /\ pool' = b.pool
      BY <2>1, <2>2, StepSound
    <2>4. Idle(This) => Idle(This)'
      BY <2>1, <2>3, ThisIs DEF Idle, This
    <2> QED BY <1>1, <2>1, <2>3, <2>4 DEF UwsType
  <1>3. CASE HandlerReceives
    <2>1. /\ Answers0' /\ Idle(This)' /\ uws'.over = "no" /\ ~uws'.guarded
      BY <1>2, <1>3 DEF HandlerReceives, HandlerSafe
    <2> QED BY <1>3, <2>1 DEF HandlerReceives, HandlerSafe, Pending
  <1>4. CASE Read \/ Wait
    <2>1. /\ Answers0' /\ Idle(This)' /\ uws'.guarded
          /\ uws'.over = "no" \/ uws'.aborted
          /\ uws'.aborted \/ uws'.listener = "guard"
      BY <1>4, GuardedSteps DEF Read, Wait
    <2>2. /\ handler' = [handler EXCEPT !.phase = "waits"] /\ DOMAIN read' = DOMAIN read
      BY <1>4 DEF Read, Wait
    <2> QED BY <2>1, <2>2 DEF HandlerSafe, Pending
  <1>5. CASE Continue
    <2>1. /\ Answers0' /\ (Idle(This) => Idle(This)') /\ uws' = uws /\ read' = read
          /\ handler' = [handler EXCEPT !.phase = "runs"] /\ handler.phase = "waits" /\ ~read.on
      BY <1>1, <1>5 DEF Continue, answerVars, Answers0, This, Idle, Sound, Flowing
    <2> QED BY <2>1 DEF HandlerSafe, Pending
  <1>6. CASE HandlerReturns
    <2>1. /\ Answers0' /\ (Idle(This) => Idle(This)')
          /\ uws'.over = uws.over /\ uws'.aborted = uws.aborted
          /\ uws'.guarded = uws.guarded /\ uws'.listener = uws.listener
      BY <1>2, <1>6 DEF HandlerReturns
    <2>2. /\ handler.phase \notin {"new", "runs"} /\ DOMAIN read' = DOMAIN read
          /\ read'.on = read.on /\ read'.finished = read.finished
      BY <1>6 DEF HandlerReturns, HandlerSafe
    <2>3. /\ handler' \in [phase : {"new", "runs", "waits", "calledBack", "done"},
                          takes : BOOLEAN, returned : BOOLEAN]
          /\ handler'.returned
          /\ handler'.phase = IF handler.phase = "calledBack" THEN "runs" ELSE handler.phase
      BY <1>6 DEF HandlerReturns, HandlerSafe
    <2> QED BY <2>1, <2>2, <2>3 DEF HandlerSafe, Pending
  <1> QED BY <1>3, <1>4, <1>5, <1>6

LEMMA HandlerSafe_Uws ==
  ASSUME HandlerSafe, StreamFlows \/ UwsCalls
  PROVE  HandlerSafe' /\ Remembers
  <1>1. Answers0 /\ UNCHANGED handlerVars
    BY DEF HandlerSafe, StreamFlows, UwsCalls
  <1>2. CASE StreamFlows \/ PoolAnswers
    <2>1. Answers0' /\ Remembers /\ ~Idle(This)
      BY <1>1, <1>2, DataSound, EndSound, ErrorSound, PoolSound DEF StreamFlows
    <2> QED BY <1>1, <2>1, HandlerSafe_After
  <1>3. CASE Writable
    <2>1. /\ Answers0' /\ uws' = [uws EXCEPT !.waits = FALSE] /\ pool' = pool
          /\ stream'.phase = stream.phase /\ stream'.closing = stream.closing
      BY <1>1, <1>3, WritableSound
    <2>2. uws \in UwsType
      BY <1>1, ThisIs DEF Answers0, AnswerSet
    <2>3. Idle(This) => Idle(This)'
      BY <2>1 DEF Idle, This
    <2> QED BY <1>1, <2>1, <2>2, <2>3 DEF HandlerSafe, Pending, handlerVars, UwsType, Remembers
  <1> QED BY <1>2, <1>3 DEF UwsCalls

LEMMA HandlerSafe_Step == HandlerSafe /\ [HandlerNext]_utilsVars => HandlerSafe'
  <1> SUFFICES ASSUME HandlerSafe, [HandlerNext]_utilsVars PROVE HandlerSafe'
    OBVIOUS
  <1>1. CASE UNCHANGED utilsVars
    BY <1>1 DEF utilsVars, answerVars, handlerVars, HandlerSafe, Pending, Answers0, This, Idle,
                Sound, Flowing
  <1>2. CASE HandlerNext
    BY <1>2, HandlerSafe_Data, HandlerSafe_Source, HandlerSafe_Leaves, HandlerSafe_Answers,
       HandlerSafe_Program, HandlerSafe_Uws DEF HandlerNext
  <1> QED BY <1>1, <1>2

\* A raw handler that calls guard() before it waits, and answers once, never has the
\* utilities touch uWS's response once it is over, and its client gets one head and an
\* end just when the answer is over (uws-utils.js guard, sendStream, collect).
THEOREM HandlerAnswersUwsOnce == HandlerSpec => []UwsAnsweredOnce
  <1>1. HandlerSafe => UwsAnsweredOnce
    BY SoundAnswered DEF HandlerSafe, Answers0
  <1> QED BY <1>1, HandlerInitially, HandlerSafe_Step, PTL DEF HandlerSpec

-----------------------------------------------------------------------------
(* collect(): the body it gives is the one that came.                      *)

ReadSet ==
    [on : BOOLEAN, kind : {"bytes", "json"}, limit : Nat, length : Nat, pieces : Seq(Nat),
     finished : BOOLEAN, given : Seq(Nat), refused : BOOLEAN, lent : {"no", "good", "gone"}]

\* The size of the first n pieces.
Came(n) == SumFunctionOnSet(whole, 1 .. n)
Ahead == Len(whole) - Len(coming)

Collecting ==
    /\ whole \in Seq(Nat) /\ coming \in Seq(Nat) /\ read \in ReadSet
    /\ Len(coming) <= Len(whole)
    /\ \A i \in 1 .. Len(coming) : coming[i] = whole[Ahead + i]
    /\ ~read.on => coming = whole /\ read.length = 0 /\ ~read.finished
    /\ ~read.finished => /\ ~uws.aborted => read.length = Came(Ahead)
                         /\ read.given = <<>> /\ ~read.refused
    /\ CollectedWhole

LEMMA CameMore ==
  ASSUME whole \in Seq(Nat), NEW n \in Nat, n < Len(whole)
  PROVE  Came(n) \in Nat /\ Came(n + 1) = Came(n) + whole[n + 1]
  <1> DEFINE S == 1 .. n + 1
  <1>0. IsFiniteSet(S) /\ IsFiniteSet(1 .. n)
    BY FS_Interval
  <1>1. n + 1 \in S /\ S \ {n + 1} = 1 .. n
    OBVIOUS
  <1>2. NatOn(whole, S) /\ NatOn(whole, 1 .. n)
    BY DEF NatOn
  <1> HIDE DEF S
  <1>3. SumFunctionOnSet(whole, S) = whole[n + 1] + SumFunctionOnSet(whole, S \ {n + 1})
    BY <1>0, <1>1, <1>2, SumRemove
  <1>4. Came(n) \in Nat /\ whole[n + 1] \in Nat
    BY <1>0, <1>2, SumNat DEF Came, S, NatOn
  <1>5. Came(n + 1) = whole[n + 1] + Came(n)
    BY <1>1, <1>3, Zenon DEF Came, S
  <1> QED BY <1>4, <1>5

\* What leaves the body alone.
LEMMA Collecting_Same ==
  ASSUME Collecting, Remembers, UNCHANGED <<coming, whole, read>>
  PROVE  Collecting'
  BY DEF Collecting, Remembers, CollectedWhole, Ahead, Came

LEMMA Collecting_Init ==
  ASSUME Bodies \subseteq Seq(Nat), HandlerInit
  PROVE  Collecting
  <1>1. whole \in Seq(Nat) /\ coming = whole /\ Ahead = 0
    BY DEF HandlerInit, Ahead
  <1>2. /\ read \in ReadSet /\ read.length = 0 /\ read.limit = 0 /\ ~read.refused
        /\ read.given = <<>> /\ ~read.finished /\ read.lent = "no"
    BY DEF HandlerInit, ReadSet
  <1>3. Came(0) = 0
    BY SumEmpty DEF Came
  <1>4. CollectedWhole
    BY <1>2 DEF CollectedWhole
  <1> QED BY <1>1, <1>2, <1>3, <1>4 DEF Collecting

\* The next piece of the body.
LEMMA Collecting_Data ==
  ASSUME Collecting, Data, HandlerSafe, uws'.stack, uws.aborted => uws'.aborted
  PROVE  Collecting'
  <1> DEFINE length == read.length + Head(coming)
             last == Len(coming) = 1
             fits == length <= read.limit
  <1>1. /\ coming # <<>> /\ coming' = Tail(coming) /\ whole' = whole /\ read.on
        /\ whole \in Seq(Nat) /\ coming \in Seq(Nat) /\ read \in ReadSet
    BY DEF Data, Collecting
  <1>2. /\ Len(coming) \in Nat \ {0} /\ Len(whole) \in Nat /\ Len(coming) <= Len(whole)
        /\ Tail(coming) \in Seq(Nat) /\ Len(Tail(coming)) = Len(coming) - 1
        /\ \A i \in 1 .. Len(coming) - 1 : Tail(coming)[i] = coming[i + 1]
        /\ Head(coming) = coming[1] /\ Head(coming) \in Nat
    BY <1>1, EmptySeq, HeadTailProperties DEF Collecting
  <1>3. Ahead \in Nat /\ Ahead < Len(whole) /\ Ahead' = Ahead + 1
    BY <1>1, <1>2 DEF Ahead
  <1>4. \A i \in 1 .. Len(coming') : coming'[i] = whole'[Ahead' + i]
    <2> SUFFICES ASSUME NEW i \in 1 .. Len(coming) - 1
                 PROVE  Tail(coming)[i] = whole[Ahead + 1 + i]
      BY <1>1, <1>2, <1>3
    <2>1. i + 1 \in 1 .. Len(coming) /\ Ahead + (i + 1) = Ahead + 1 + i
      BY <1>2, <1>3
    <2>2. coming[i + 1] = whole[Ahead + (i + 1)]
      BY <2>1 DEF Collecting
    <2> QED BY <1>2, <2>1, <2>2
  <1>5. CASE read.finished \/ uws.aborted
    <2>1. read' = read
      BY <1>5 DEF Data
    <2>2. CollectedWhole'
      BY <1>1, <2>1 DEF Collecting, CollectedWhole
    <2>3. ~read.finished => read.given = <<>> /\ ~read.refused
      BY DEF Collecting
    <2> QED BY <1>1, <1>2, <1>3, <1>4, <1>5, <2>1, <2>2, <2>3 DEF Collecting
  <1>6. CASE ~(read.finished \/ uws.aborted)
    <2>1. /\ length = Came(Ahead + 1) /\ length \in Nat
          /\ read.given = <<>> /\ ~read.refused
      <3>1. Came(Ahead) \in Nat /\ Came(Ahead + 1) = Came(Ahead) + whole[Ahead + 1]
        BY <1>1, <1>3, CameMore
      <3>2. coming[1] = whole[Ahead + 1] /\ read.length = Came(Ahead)
        BY <1>2, <1>6 DEF Collecting
      <3> QED BY <1>2, <1>6, <3>1, <3>2 DEF Collecting
    <2> HIDE DEF length
    <2>2. PICK parses \in BOOLEAN :
            read' = [read EXCEPT !.length = length, !.pieces = Append(read.pieces, Head(coming)),
                       !.finished = ~fits \/ last,
                       !.refused = ~fits \/ (last /\ ~parses),
                       !.given = IF fits /\ last /\ parses THEN Append(@, length) ELSE @,
                       !.lent = IF (fits /\ last /\ parses) /\ Len(whole) = 1 THEN "good" ELSE @]
      BY <1>6 DEF Data, Fits, length
    <2>3. Append(read.pieces, Head(coming)) \in Seq(Nat) /\ <<length>> \in Seq(Nat)
          /\ Append(read.given, length) = <<length>>
      BY <1>1, <1>2, <2>1 DEF ReadSet
    <2>4. /\ read' \in ReadSet /\ read'.on /\ read'.length = length /\ read'.limit = read.limit
          /\ read'.finished = (~fits \/ last) /\ read'.refused = (~fits \/ (last /\ ~parses))
          /\ read'.given = IF fits /\ last /\ parses THEN <<length>> ELSE <<>>
      BY <1>1, <2>1, <2>2, <2>3 DEF ReadSet
    <2>5. last => length = SumFunctionOnSet(whole, DOMAIN whole)
      BY <1>1, <1>2, <2>1 DEF Came, Ahead
    <2>6. CollectedWhole'
      <3> DEFINE g == <<length>>
      <3>1. g # <<>> /\ Len(g) = 1 /\ g[1] = length
        OBVIOUS
      <3>2. /\ Len(<<>>) = 0 /\ SumFunctionOnSet(whole, DOMAIN whole)'
                                   = SumFunctionOnSet(whole, DOMAIN whole)
        BY <1>1
      <3> HIDE DEF g, fits, last
      <3>3. CASE fits /\ last /\ parses
        <4>1. read'.given = g
          BY <2>4, <3>3 DEF g
        <4>2. length <= read.limit
          BY <3>3 DEF fits
        <4>3. ~read'.refused /\ read'.length = length /\ read'.limit = read.limit
          BY <2>4, <3>3
        <4>4. length = SumFunctionOnSet(whole, DOMAIN whole)'
          BY <2>5, <3>2, <3>3
        <4>5. Len(read'.given) <= 1 /\ read'.given[1] = length
          <5>1. Len(read'.given) = 1 /\ read'.given[1] = length
            BY <3>1, <4>1, Zenon
          <5> QED BY <5>1
        <4>6. (Len(read.given) <= 1)' /\ (read.given[1])' = length
          BY <4>5
        <4> QED BY <4>2, <4>3, <4>4, <4>6 DEF CollectedWhole
      <3>4. CASE ~(fits /\ last /\ parses)
        <4>1. read'.given = <<>>
          BY <2>4, <3>4
        <4>2. length <= read.limit \/ ~fits
          BY DEF fits
        <4>3. read'.refused \/ fits
          BY <2>4
        <4>4. read'.length = length /\ read'.limit = read.limit
          BY <2>4
        <4> QED BY <3>2, <4>1, <4>2, <4>3, <4>4 DEF CollectedWhole
      <3> QED BY <3>3, <3>4
    <2>7. Came(Ahead)' = length
      BY <1>1, <1>3, <2>1 DEF Came
    <2> QED BY <1>1, <1>2, <1>4, <2>4, <2>6, <2>7 DEF Collecting
  <1> QED BY <1>5, <1>6

LEMMA Collecting_Step ==
  ASSUME Limits \subseteq Nat, HandlerSafe, Collecting, [HandlerNext]_utilsVars
  PROVE  Collecting'
  <1>1. CASE UNCHANGED utilsVars
    BY <1>1, Collecting_Same DEF utilsVars, answerVars, handlerVars, Remembers
  <1>2. CASE Data
    BY <1>2, HandlerSafe_Data, Collecting_Data
  <1>3. CASE Gives \/ Ends \/ Fails \/ ClientLeaves \/ Answers \/ AnswersStream
             \/ StreamFlows \/ UwsCalls
    <2>1. Remembers
      BY <1>3, HandlerSafe_Source, HandlerSafe_Leaves, HandlerSafe_Answers, HandlerSafe_Uws
    <2>2. UNCHANGED <<coming, whole, read>>
      BY <1>3 DEF Gives, Ends, Fails, Source, ClientLeaves, Answers, AnswersStream, StreamFlows,
                  UwsCalls, handlerVars
    <2> QED BY <2>1, <2>2, Collecting_Same
  <1>4. CASE Wait \/ Continue
    <2>1. Remembers
      BY <1>4, GuardedSteps DEF Wait, Continue, answerVars, Remembers
    <2> QED BY <1>4, <2>1, Collecting_Same DEF Wait, Continue
  <1>5. CASE Read
    <2>1. Remembers
      BY <1>5, GuardedSteps DEF Read
    <2>2. PICK kind \in {"bytes", "json"}, limit \in Limits :
            read' = [read EXCEPT !.on = TRUE, !.kind = kind, !.limit = limit]
      BY <1>5 DEF Read
    <2>3. /\ read' \in ReadSet /\ read'.on /\ read'.length = 0 /\ ~read'.finished
          /\ read'.given = <<>> /\ ~read'.refused /\ read'.limit \in Nat
          /\ read'.lent = read.lent /\ read.length = 0 /\ ~read.finished
      BY <1>5, <2>2 DEF Read, Collecting, ReadSet
    <2>4. coming' = coming /\ whole' = whole
      BY <1>5 DEF Read
    <2>5. CollectedWhole'
      BY <2>1, <2>3, <2>4 DEF Collecting, CollectedWhole, Remembers
    <2> QED BY <2>1, <2>3, <2>4, <2>5 DEF Collecting, Remembers, Came, Ahead
  <1>6. CASE HandlerReceives \/ HandlerReturns
    <2>4. PICK on \in BOOLEAN : /\ uws' = OnStack(This, on).uws
                                /\ HandlerReceives => on
      BY <1>6 DEF HandlerReceives, HandlerReturns, Becomes, OnStack
    <2>5. uws' = [uws EXCEPT !.stack = on] /\ uws \in UwsType
      BY <2>4, StackIs, ThisIs DEF HandlerSafe, Answers0, AnswerSet
    <2>1. /\ uws'.aborted = uws.aborted /\ uws'.stack = on
          /\ coming' = coming /\ whole' = whole
      BY <1>6, <2>5 DEF HandlerReceives, HandlerReturns, UwsType
    <2>2. /\ read' \in ReadSet /\ read'.on = read.on /\ read'.length = read.length
          /\ read'.finished = read.finished /\ read'.given = read.given
          /\ read'.refused = read.refused /\ read'.limit = read.limit
          /\ read'.lent # "good" \/ (read'.lent = read.lent /\ uws'.stack)
      <3>1. CASE HandlerReceives
        BY <2>1, <2>4, <3>1 DEF HandlerReceives, Collecting
      <3>2. CASE HandlerReturns
        BY <3>2 DEF HandlerReturns, Collecting, ReadSet
      <3> QED BY <1>6, <3>1, <3>2
    <2>3. CollectedWhole'
      BY <2>1, <2>2 DEF Collecting, CollectedWhole
    <2> QED BY <2>1, <2>2, <2>3 DEF Collecting, Came, Ahead
  <1> QED BY <1>1, <1>2, <1>3, <1>4, <1>5, <1>6 DEF HandlerNext

\* Whatever a body's size, however it arrives and whoever leaves meanwhile, collect()
\* gives it once, whole, within the limit and never after it refused it
\* (uws-utils.js collect).
THEOREM HandlerCollectsWhole ==
  ASSUME Bodies \subseteq Seq(Nat), Limits \subseteq Nat
  PROVE  HandlerSpec => []CollectedWhole
  <1> DEFINE Inv == HandlerSafe /\ Collecting
  <1>1. HandlerInit => Inv
    BY HandlerInitially, Collecting_Init
  <1>2. Inv /\ [HandlerNext]_utilsVars => Inv'
    BY HandlerSafe_Step, Collecting_Step
  <1>3. Inv => CollectedWhole
    BY DEF Collecting
  <1> HIDE DEF Inv
  <1> QED BY <1>1, <1>2, <1>3, PTL DEF HandlerSpec

-----------------------------------------------------------------------------
(* A light route.  What a call of its code may find, and leave, of the     *)
(* state as one record.                                                    *)

Parts == {"answer", "response", "request", "chain", "later", "ticks", "heard"}
LiteResponses ==
    [phase : {"new", "collecting", "called", "returned"}, ANSWERED : BOOLEAN,
     ABORTED : BOOLEAN, LATE : BOOLEAN, bus : BOOLEAN, reopened : BOOLEAN]
Frames == [code : Nat, sync : BOOLEAN]

\* Without middleware there is no code but the handler's.
HandlerOnly(use, frames, code) ==
    use = <<>> => (\A i \in DOMAIN frames : frames[i].code = Handler) /\ code \subseteq {Handler}

\* Until the route answers, nothing of an answer is under way and uWS's response is not
\* guarded: the route listens itself.
Kept(s) ==
    /\ DOMAIN s = Parts
    /\ s.answer \in AnswerSet /\ s.response \in LiteResponses
    /\ {"held", "paused", "ended", "destroyed"} \subseteq DOMAIN s.request
    /\ "frames" \in DOMAIN s.chain /\ s.chain.frames \in Seq(Frames)
    /\ s.later \subseteq Nat
    /\ Sound(s.answer)
    /\ ~s.response.ANSWERED =>
          Idle(s.answer) /\ ~s.answer.uws.guarded /\ s.answer.uws.over # "ended"
    /\ HandlerOnly(route.use, s.chain.frames, s.later)

\* What is not answered yet may be: the response is there or the route knows that it is
\* not, and a cork of uWS is only counted on under one.
Answerable(s) ==
    /\ ~s.response.ANSWERED => s.response.ABORTED \/ s.answer.uws.over = "no"
    /\ s.response.LATE \/ s.answer.uws.stack

\* No code runs, and none goes on later.
Asleep(s) == s.chain.frames = <<>> /\ s.later = {}

\* Where the request is.
Phased(s) ==
    /\ s.response.phase \in {"new", "collecting"} =>
          /\ Asleep(s) /\ ~s.response.ANSWERED /\ ~s.response.ABORTED
          /\ s.answer.uws.listener # "lite" /\ ~s.request.paused
    /\ s.response.phase = "new" => s.answer.uws.over = "no"
    /\ s.response.phase = "called" =>
          /\ s.chain.frames # <<>> /\ s.answer.uws.stack
          /\ ~s.response.ANSWERED => s.answer.uws.over = "no"
          /\ route.use = <<>> => s.chain.frames = <<[code |-> Handler, sync |-> TRUE]>>
    /\ s.response.phase = "returned" =>
          /\ Asleep(s) \/ (s.response.LATE /\ ~s.request.held)
          /\ ~s.response.ANSWERED =>
                s.response.ABORTED \/ (s.answer.uws.over = "no" /\ s.answer.uws.listener = "lite")
          /\ route.use = <<>> => \A i \in DOMAIN s.chain.frames : ~s.chain.frames[i].sync

\* An answer that flows is not done, and one whose stream was read is out.
InStep(a) ==
    /\ a.uws.aborted => a.uws.over # "no"
    /\ Flowing(a) => ~a.stream.done /\ ~a.stream.closing
    /\ a.stream.phase = "read" => a.uws.over = "ended" /\ a.uws.guarded

\* What was told of the response, and what is still to be: nothing of one that flows, and
\* that it finished only when it is out, or with someone who hears of an abort.
HeardRight(s) ==
    /\ s.heard \in [finish : Nat, close : Nat] /\ s.heard.finish <= s.heard.close
    /\ s.ticks \in {<<>>, <<"finished">>}
    /\ s.ticks # <<>> => s.response.ANSWERED
    /\ s.ticks # <<>> \/ s.heard.finish > 0 => s.answer.uws.over = "ended" \/ s.answer.uws.guarded
    /\ ~s.response.reopened =>
          /\ s.heard.close <= 1
          /\ s.heard.close = 1 \/ s.ticks # <<>> =>
                ~s.answer.stream.closing /\ ~Flowing(s.answer)
          /\ s.heard.close = 1 => s.ticks = <<>> /\ (s.response.ANSWERED \/ s.response.ABORTED)

\* A body as a stream hears of a client that left: at once, when the answer's stream
\* closes, or not at all once the answer was whole.
Underway == {"called", "returned"}
BodyRight(s) ==
    route.body = "stream" /\ s.response.phase \in Underway
    /\ s.answer.uws.over \in {"aborted", "closed"} =>
        \/ s.request.ended \/ s.request.destroyed
        \/ s.answer.stream.closing
        \/ s.response.ANSWERED /\ s.answer.stream.phase = "none"

Told(s) ==
    /\ InStep(s.answer)
    /\ s.response.ANSWERED /\ s.answer.uws.over = "no" =>
          Flowing(s.answer) \/ (s.answer.pool # 0 /\ s.answer.stream.phase = "none")
    /\ ~s.response.ANSWERED /\ s.response.ABORTED => s.answer.uws.over # "no"
    /\ HeardRight(s) /\ BodyRight(s)

LiteSafe(s) == Kept(s) /\ Phased(s) /\ Told(s)

LiteInv == route \in RouteType /\ LiteSafe(Whole0)

\* What is told is the same.
Alike(s, w) ==
    /\ Steady(s.answer, w.answer)
    /\ w.response.ANSWERED = s.response.ANSWERED /\ w.response.ABORTED = s.response.ABORTED
    /\ w.response.reopened = s.response.reopened
    /\ w.response.phase \in Underway =>
          \/ s.response.phase \in Underway \/ s.answer.uws.over = "no"
          \/ s.response.ANSWERED /\ s.answer.stream.phase = "none"
    /\ s.request.ended \/ s.request.destroyed => w.request.ended \/ w.request.destroyed
    /\ w.ticks = s.ticks /\ w.heard = s.heard

LEMMA AlikeTold ==
  ASSUME NEW s, Told(s), NEW w, Alike(s, w)
  PROVE  Told(w)
  <1>1. InStep(w.answer) /\ (Flowing(w.answer) <=> Flowing(s.answer))
    BY DEF Told, Alike, Steady, InStep, Flowing
  <1>2. HeardRight(w)
    BY <1>1 DEF Told, Alike, Steady, HeardRight
  <1>3. BodyRight(w)
    BY DEF Told, Alike, Steady, BodyRight
  <1> QED BY <1>1, <1>2, <1>3 DEF Told, Alike, Steady

\* An answer that went out, or is on its way.
Settled(s, w) ==
    /\ Kept(w) /\ w.response = [s.response EXCEPT !.ANSWERED = TRUE]
    /\ w.request = s.request /\ w.later = s.later /\ w.chain.frames = s.chain.frames
    /\ w.answer.uws.stack = s.answer.uws.stack
    /\ Idle(s.answer) => w.answer.stream.phase = "none"
    /\ Told(s) => Told(w)

\* Code that was called.
Called(s, w) ==
    /\ Kept(w) /\ w.answer = s.answer /\ w.response = s.response
    /\ w.request = s.request /\ w.later = s.later
    /\ w.ticks = s.ticks /\ w.heard = s.heard
    /\ \E f \in Frames : w.chain.frames = Append(s.chain.frames, f)

LEMMA WholeIs ==
  /\ Whole0.answer = This /\ Whole0.response = response /\ Whole0.request = request
  /\ Whole0.chain = chain /\ Whole0.later = later /\ DOMAIN Whole0 = Parts
  /\ Whole0.ticks = ticks /\ Whole0.heard = heard
  BY DEF Whole0, Parts

LEMMA SettlesSafe ==
  ASSUME NEW s, LiteSafe(s), Settles(s), route \in RouteType
  PROVE  LiteInv'
  <1>1. This' = s.answer
    BY AnswerSame DEF LiteSafe, Kept, Settles
  <1>2. /\ Whole0'.answer = s.answer /\ Whole0'.response = s.response
        /\ Whole0'.request = s.request /\ Whole0'.chain = s.chain /\ Whole0'.later = s.later
        /\ DOMAIN Whole0' = Parts /\ route' = route
        /\ Whole0'.ticks = s.ticks /\ Whole0'.heard = s.heard
    BY <1>1 DEF Settles, Whole0, Parts
  <1>3. (route \in RouteType)'
    BY <1>2 DEF RouteType
  <1>4. Kept(Whole0)'
    BY <1>2 DEF LiteSafe, Kept, Handler, Sound, Flowing, Idle
  <1>5. Phased(Whole0)'
    BY <1>2 DEF LiteSafe, Phased, Asleep, Handler
  <1>6. Told(Whole0)'
    BY <1>2 DEF LiteSafe, Told, InStep, HeardRight, BodyRight, Flowing, Underway
  <1> QED BY <1>3, <1>4, <1>5, <1>6 DEF LiteInv, LiteSafe

LEMMA IsSettled ==
  ASSUME NEW s, Kept(s), NEW a \in AnswerSet, Sound(a), a.uws.stack = s.answer.uws.stack,
         NEW w, DOMAIN w = Parts, w.answer = a,
         w.response = [s.response EXCEPT !.ANSWERED = TRUE],
         w.request = s.request, w.chain = s.chain, w.later = s.later, Told(s) => Told(w),
         Idle(s.answer) => a.stream.phase = "none"
  PROVE  Settled(s, w)
  <1>1. w.response \in LiteResponses /\ w.response.ANSWERED
    BY DEF Kept, LiteResponses
  <1> QED BY <1>1 DEF Kept, Settled

\* What is told of a whole answer, or of one the pool has.
LEMMA FinishTold ==
  ASSUME NEW s, Kept(s), ~s.response.ANSWERED, Told(s),
         NEW w, w.response = [s.response EXCEPT !.ANSWERED = TRUE], w.request = s.request,
         w.heard = s.heard,
         IF s.response.ABORTED THEN w.answer = s.answer /\ w.ticks = s.ticks
         ELSE /\ IsOut(s.answer, w.answer)
              /\ w.ticks = IF s.response.bus THEN Append(s.ticks, "finished") ELSE s.ticks
  PROVE  Told(w)
  <1>1. /\ w.response.ANSWERED /\ w.response.ABORTED = s.response.ABORTED
        /\ w.response.reopened = s.response.reopened /\ w.response.phase = s.response.phase
        /\ Idle(s.answer) /\ ~s.answer.uws.guarded /\ s.answer.uws.over # "ended"
        /\ ~Flowing(s.answer) /\ w.answer.stream = s.answer.stream
    BY DEF Kept, LiteResponses, Idle, Flowing, IsOut
  <1>2. s.ticks = <<>> /\ s.heard.finish = 0 /\ s.heard \in [finish : Nat, close : Nat]
    BY <1>1 DEF Told, HeardRight
  <1>3. ~Flowing(w.answer) /\ ~w.answer.stream.closing /\ w.answer.stream.phase = "none"
    BY <1>1 DEF Flowing, Idle
  <1>4. BodyRight(w)
    BY <1>1, <1>3 DEF BodyRight
  <1>5. CASE s.response.ABORTED
    <2>1. InStep(w.answer) /\ w.answer.uws.over # "no"
      BY <1>5 DEF Told
    <2>2. HeardRight(w)
      BY <1>1, <1>2, <1>3, <1>5 DEF Told, HeardRight
    <2> QED BY <1>4, <2>1, <2>2 DEF Told
  <1>6. CASE ~s.response.ABORTED
    <2>1. w.ticks \in {<<>>, <<"finished">>}
      <3>1. Append(<<>>, "finished") = <<"finished">>
        OBVIOUS
      <3> QED BY <1>2, <1>6, <3>1
    <2>2. /\ w.answer.uws.aborted = s.answer.uws.aborted
          /\ \/ w.answer.uws.over = "ended"
             \/ w.answer.uws.over = s.answer.uws.over /\ w.answer.uws.guarded /\ w.answer.pool # 0
      BY <1>6 DEF IsOut
    <2>3. InStep(w.answer)
      BY <1>3, <2>2 DEF Told, InStep
    <2>4. ~s.response.reopened => s.heard.close = 0
      BY <1>2, <1>6 DEF Told, HeardRight
    <2>5. HeardRight(w)
      BY <1>1, <1>2, <1>3, <2>1, <2>2, <2>4 DEF HeardRight, Told
    <2> QED BY <1>1, <1>3, <1>4, <2>2, <2>3, <2>5 DEF Told
  <1> QED BY <1>5, <1>6

LEMMA FinishSettles ==
  ASSUME NEW s, Kept(s), Answerable(s), ~s.response.ANSWERED, route \in RouteType,
         NEW status \in Nat \ {0}, NEW size \in Sizes
  PROVE  Settled(s, Finish(s, status, size))
  <1> DEFINE a == s.answer
             corked == ~s.response.LATE
             r == [s EXCEPT !.response.ANSWERED = TRUE]
             out == IF status # 204 /\ route.compress
                    THEN Deliver(a, status, size, route.takes, corked)
                    ELSE Whole(a, status, FALSE, corked)
             w == [r EXCEPT !.answer = out,
                     !.ticks = IF s.response.bus THEN Append(@, "finished") ELSE @]
  <1>1. /\ a \in AnswerSet /\ a.uws \in UwsType /\ Sound(a) /\ Idle(a) /\ ~a.uws.guarded
        /\ corked \in BOOLEAN /\ (corked => a.uws.stack)
        /\ s.response.ABORTED \/ a.uws.over = "no"
        /\ DOMAIN s = Parts
    BY DEF Kept, Answerable, AnswerSet, LiteResponses
  <1>2. /\ DOMAIN r = Parts /\ r.answer = a /\ r.request = s.request /\ r.chain = s.chain
        /\ r.later = s.later /\ r.response = [s.response EXCEPT !.ANSWERED = TRUE]
        /\ r.ticks = s.ticks /\ r.heard = s.heard
    BY <1>1 DEF Parts
  <1>3. Finish(s, status, size) = IF s.response.ABORTED THEN r ELSE w
    BY DEF Finish
  <1>4. CASE s.response.ABORTED
    <2> HIDE DEF r, w
    <2>1. Told(s) => Told(r)
      BY <1>2, <1>4, FinishTold
    <2>2. Settled(s, r)
      BY <1>1, <1>2, <2>1, IsSettled DEF Idle
    <2> QED BY <1>3, <1>4, <2>2
  <1>5. CASE ~s.response.ABORTED
    <2>1. IsOut(a, out)
      <3>1. CASE status # 204 /\ route.compress
        <4> DEFINE d == Deliver(a, status, size, route.takes, corked)
        <4>1. route.takes \in BOOLEAN
          BY DEF RouteType
        <4> HIDE DEF corked
        <4>2. IsOut(a, d)
          BY <1>1, <1>5, <4>1, Delivered
        <4> QED BY <3>1, <4>2 DEF corked
      <3>2. CASE ~(status # 204 /\ route.compress)
        <4> DEFINE d == Whole(a, status, FALSE, corked)
        <4> HIDE DEF corked
        <4>1. IsEnd(a, d)
          BY <1>1, <1>5, WholeSent
        <4>2. out = d
          BY <3>2 DEF corked
        <4> HIDE DEF d
        <4>3. IsOut(a, d)
          BY <1>1, <1>5, <4>1, EndIsOut
        <4> QED BY <4>2, <4>3 DEF d
      <3> QED BY <3>1, <3>2
    <2> HIDE DEF r, out
    <2>2. /\ DOMAIN w = Parts /\ w.answer = out /\ w.request = r.request /\ w.chain = r.chain
          /\ w.later = r.later /\ w.response = r.response /\ w.heard = s.heard
          /\ w.ticks = IF s.response.bus THEN Append(s.ticks, "finished") ELSE s.ticks
      BY <1>2 DEF Parts
    <2> HIDE DEF w
    <2>3. Told(s) => Told(w)
      BY <1>2, <1>5, <2>1, <2>2, FinishTold
    <2>4. Settled(s, w)
      BY <1>1, <1>2, <2>1, <2>2, <2>3, IsSettled DEF IsOut, Idle
    <2> QED BY <1>3, <1>5, <2>4
  <1> QED BY <1>4, <1>5

\* A stream that breaks still has to say so.
LEMMA BrokenTold ==
  ASSUME NEW s, Kept(s), Told(s), NEW w, w.response = s.response, w.request = s.request,
         w.ticks = s.ticks, w.heard = s.heard,
         w.answer = s.answer \/ w.answer = Destroy(s.answer, "failed")
  PROVE  Told(w)
  <1> DEFINE d == Destroy(s.answer, "failed")
  <1>1. /\ d \in AnswerSet /\ d.uws = s.answer.uws /\ d.pool = s.answer.pool
        /\ IF s.answer.stream.phase \in {"open", "ended"}
           THEN d.stream = [s.answer.stream EXCEPT !.phase = "failed", !.closing = ("failed" = "destroyed")]
           ELSE d = s.answer
    BY Destroyed DEF Kept
  <1> HIDE DEF d
  <1>2. CASE w.answer = s.answer
    <2>1. Alike(s, w)
      BY <1>2 DEF Alike, Steady
    <2> QED BY <2>1, AlikeTold
  <1>3. CASE w.answer = d /\ s.answer.stream.phase \in {"open", "ended"}
    <2>1. s.answer.stream \in StreamSet /\ Flowing(s.answer) /\ s.answer.uws.over = "no"
      BY <1>3 DEF Kept, AnswerSet, Sound, Flowing
    <2>2. /\ d.stream.phase = "failed" /\ d.stream.done = s.answer.stream.done
          /\ ~d.stream.closing
      BY <1>1, <1>3, <2>1 DEF StreamSet
    <2>3. InStep(d) /\ Flowing(d)
      BY <1>1, <2>1, <2>2 DEF Told, InStep, Flowing
    <2>4. HeardRight(w)
      BY <1>1, <1>3, <2>1, <2>2, <2>3 DEF Told, HeardRight
    <2>5. BodyRight(w)
      BY <1>1, <1>3, <2>1 DEF BodyRight
    <2> QED BY <1>1, <1>3, <2>1, <2>3, <2>4, <2>5 DEF Told
  <1> QED BY <1>1, <1>2, <1>3 DEF d

LEMMA FailSettles ==
  ASSUME NEW s, Kept(s), Answerable(s), route \in RouteType
  PROVE  Settled(s, Fail(s))
  <1> DEFINE broken == [s EXCEPT !.answer = IF s.response.bus THEN Destroy(@, "failed") ELSE @]
             b == IF s.response.bus THEN Destroy(s.answer, "failed") ELSE s.answer
  <1>1. /\ s.answer \in AnswerSet /\ Sound(s.answer) /\ DOMAIN s = Parts
        /\ s.response \in LiteResponses
    BY DEF Kept
  <1>2. /\ b \in AnswerSet /\ b.uws = s.answer.uws /\ b.pool = s.answer.pool
        /\ b.wire = s.answer.wire /\ b.stream.headed = s.answer.stream.headed
        /\ b.stream.phase = "none" => s.answer.stream.phase = "none"
        /\ Flowing(b) => Flowing(s.answer)
        /\ Idle(s.answer) => b = s.answer
    BY <1>1, Destroyed
  <1>3. broken = [s EXCEPT !.answer = b]
    BY <1>1 DEF Parts
  <1> HIDE DEF b
  <1>9. Written(b)
    BY <1>1, <1>2 DEF Sound, Written
  <1>4. Sound(b)
    BY <1>1, <1>2, <1>9 DEF Sound
  <1>5. /\ DOMAIN broken = Parts /\ broken.answer = b /\ broken.response = s.response
        /\ broken.request = s.request /\ broken.chain = s.chain /\ broken.later = s.later
        /\ broken.ticks = s.ticks /\ broken.heard = s.heard
    BY <1>1, <1>3 DEF Parts
  <1>6. Fail(s) = IF s.response.ANSWERED THEN broken ELSE Finish(broken, 500, "small")
    BY DEF Fail, Refuse
  <1>10. Told(s) => Told(broken)
    <2>1. b = s.answer \/ b = Destroy(s.answer, "failed")
      BY DEF b
    <2> HIDE DEF broken
    <2> QED BY <1>5, <2>1, BrokenTold
  <1> HIDE DEF broken
  <1>7. CASE s.response.ANSWERED
    <2>1. broken.response = [s.response EXCEPT !.ANSWERED = TRUE]
      BY <1>1, <1>5, <1>7 DEF LiteResponses
    <2>2. Settled(s, broken)
      BY <1>2, <1>4, <1>5, <1>10, <2>1, IsSettled DEF Idle
    <2> QED BY <1>6, <1>7, <2>2
  <1>8. CASE ~s.response.ANSWERED
    <2>1. b = s.answer
      BY <1>2, <1>8 DEF Kept
    <2>2. Kept(broken) /\ Answerable(broken)
      BY <1>5, <2>1 DEF Kept, Answerable
    <2>3. Settled(broken, Finish(broken, 500, "small"))
      BY <1>5, <1>8, <2>2, FinishSettles DEF Sizes
    <2>4. Settled(s, Finish(broken, 500, "small"))
      BY <1>5, <1>10, <2>1, <2>3 DEF Settled
    <2> QED BY <1>6, <1>8, <2>4
  <1> QED BY <1>7, <1>8

LEMMA PushCalls ==
  ASSUME NEW s, Kept(s), NEW c \in Nat, NEW sync \in BOOLEAN, route.use = <<>> => c = Handler
  PROVE  /\ Called(s, Push(s, c, sync))
         /\ Push(s, c, sync).chain.frames = Append(s.chain.frames, [code |-> c, sync |-> sync])
  <1> DEFINE f == [code |-> c, sync |-> sync]
             frames == s.chain.frames
             w == Push(s, c, sync)
  <1>1. f \in Frames /\ frames \in Seq(Frames) /\ DOMAIN s = Parts
    BY DEF Frames, Kept
  <1>2. /\ DOMAIN w = Parts /\ w.answer = s.answer /\ w.response = s.response
        /\ w.request = s.request /\ w.later = s.later
        /\ w.ticks = s.ticks /\ w.heard = s.heard
        /\ DOMAIN w.chain = DOMAIN s.chain /\ w.chain.frames = Append(frames, f)
    BY <1>1 DEF Push, Parts, Kept
  <1> HIDE DEF w
  <1>3. Append(frames, f) \in Seq(Frames)
    BY <1>1
  <1>4. route.use = <<>> => \A i \in DOMAIN Append(frames, f) : Append(frames, f)[i].code = Handler
    <2> SUFFICES ASSUME route.use = <<>>, NEW i \in 1 .. Len(frames) + 1
                 PROVE  Append(frames, f)[i].code = Handler
      BY <1>1
    <2>1. f.code = Handler
      OBVIOUS
    <2> HIDE DEF f
    <2>2. CASE i = Len(frames) + 1
      BY <1>1, <2>1, <2>2
    <2>3. CASE i # Len(frames) + 1
      BY <1>1, <2>3 DEF Kept, HandlerOnly
    <2> QED BY <2>2, <2>3
  <1>5. Kept(w)
    BY <1>2, <1>3, <1>4 DEF Kept, HandlerOnly
  <1> QED BY <1>1, <1>2, <1>5 DEF Called, w

LEMMA CallNextCalls ==
  ASSUME NEW s, Kept(s), Answerable(s), route \in RouteType, Uses \subseteq Seq(STRING),
         NEW failing \in BOOLEAN, route.use # <<>>
  PROVE  LET w == CallNext(s, failing) IN
         IF s.response.ANSWERED \/ s.response.ABORTED THEN w = s
         ELSE Called(s, w) \/ (failing /\ Settled(s, w))
  <1> DEFINE w == CallNext(s, failing)
             kind == IF failing THEN "error" ELSE "plain"
             left == {i \in DOMAIN route.use : i >= s.chain.index /\ route.use[i] = kind}
             first == CHOOSE i \in left : \A j \in left : i <= j
             at(i) == [s EXCEPT !.chain.index = i]
             none == at(Len(route.use) + 1)
  <1>1. route.use \in Seq(STRING)
    BY DEF RouteType
  <1>2. w = IF s.response.ANSWERED \/ s.response.ABORTED THEN s
            ELSE IF left # {} THEN Push(at(first + 1), first, TRUE)
            ELSE IF failing THEN Fail(none) ELSE Push(none, Handler, TRUE)
    BY DEF CallNext
  <1>3. ASSUME NEW i
        PROVE  /\ Kept(at(i)) /\ at(i).answer = s.answer /\ at(i).response = s.response
               /\ at(i).request = s.request /\ at(i).later = s.later
               /\ at(i).chain.frames = s.chain.frames
               /\ at(i).ticks = s.ticks /\ at(i).heard = s.heard
    <2>1. DOMAIN s = Parts /\ "frames" \in DOMAIN s.chain
      BY DEF Kept
    <2>2. /\ DOMAIN at(i) = Parts /\ at(i).answer = s.answer /\ at(i).response = s.response
          /\ at(i).request = s.request /\ at(i).later = s.later
          /\ at(i).ticks = s.ticks /\ at(i).heard = s.heard
          /\ DOMAIN at(i).chain = DOMAIN s.chain /\ at(i).chain.frames = s.chain.frames
      BY <2>1 DEF Parts
    <2> HIDE DEF at
    <2> QED BY <2>2 DEF Kept
  <1>4. CASE s.response.ANSWERED \/ s.response.ABORTED
    BY <1>2, <1>4
  <1>5. CASE ~(s.response.ANSWERED \/ s.response.ABORTED)
    <2>1. CASE left # {}
      <3>1. left \subseteq Nat
        BY <1>1
      <3> HIDE DEF left
      <3>2. first \in Nat
        BY <2>1, <3>1, LeastOf
      <3>3. w = Push(at(first + 1), first, TRUE)
        BY <1>2, <1>5, <2>1
      <3> HIDE DEF first
      <3> DEFINE t == at(first + 1)
      <3>4. /\ Kept(t) /\ t.answer = s.answer /\ t.response = s.response
            /\ t.request = s.request /\ t.later = s.later /\ t.chain.frames = s.chain.frames
            /\ t.ticks = s.ticks /\ t.heard = s.heard
        BY <1>3
      <3> HIDE DEF w
      <3>5. w = Push(t, first, TRUE)
        BY <3>3
      <3> HIDE DEF t
      <3>6. Called(t, Push(t, first, TRUE))
        BY <3>2, <3>4, PushCalls
      <3>7. Called(s, w)
        BY <3>4, <3>5, <3>6 DEF Called
      <3> QED BY <1>5, <3>7 DEF w
    <2>2. CASE left = {} /\ failing
      <3>1. w = Fail(none)
        BY <1>2, <1>5, <2>2
      <3>2. /\ Kept(none) /\ none.answer = s.answer /\ none.response = s.response
            /\ none.request = s.request /\ none.later = s.later
            /\ none.chain.frames = s.chain.frames
            /\ none.ticks = s.ticks /\ none.heard = s.heard
        BY <1>3
      <3> HIDE DEF w, none
      <3>3. Settled(none, Fail(none))
        BY <3>2, FailSettles DEF Answerable
      <3>5. Told(s) => Told(none)
        BY <3>2, AlikeTold DEF Alike, Steady
      <3>4. Settled(s, w)
        BY <3>1, <3>2, <3>3, <3>5 DEF Settled
      <3> QED BY <1>5, <2>2, <3>4 DEF w
    <2>3. CASE left = {} /\ ~failing
      <3>1. w = Push(none, Handler, TRUE)
        BY <1>2, <1>5, <2>3
      <3>2. /\ Kept(none) /\ none.answer = s.answer /\ none.response = s.response
            /\ none.request = s.request /\ none.later = s.later
            /\ none.chain.frames = s.chain.frames
            /\ none.ticks = s.ticks /\ none.heard = s.heard
        BY <1>3
      <3> HIDE DEF w, none
      <3>3. Called(none, Push(none, Handler, TRUE))
        BY <3>2, PushCalls DEF Handler
      <3>4. Called(s, w)
        BY <3>1, <3>2, <3>3 DEF Called
      <3> QED BY <1>5, <3>4 DEF w
    <2> QED BY <2>1, <2>2, <2>3
  <1> QED BY <1>4, <1>5

LEMMA FramesShort ==
  ASSUME NEW frames \in Seq(Frames), frames # <<>>
  PROVE  LET g == SubSeq(frames, 1, Len(frames) - 1) IN
         /\ Len(frames) \in Nat /\ Len(frames) >= 1
         /\ frames[Len(frames)] \in Frames
         /\ g \in Seq(Frames) /\ Len(g) = Len(frames) - 1
         /\ g = <<>> <=> Len(frames) = 1
         /\ \A i \in DOMAIN g : i \in DOMAIN frames /\ g[i] = frames[i]
  <1> DEFINE g == SubSeq(frames, 1, Len(frames) - 1)
  <1>1. Len(frames) \in Nat /\ Len(frames) >= 1 /\ frames[Len(frames)] \in Frames
    BY EmptySeq
  <1>2. /\ g \in Seq(Frames) /\ Len(g) = Len(frames) - 1
        /\ \A i \in 1 .. Len(frames) - 1 : g[i] = frames[i]
    <2>1. PICK n \in Nat : n = Len(frames) - 1
      BY <1>1
    <2>2. \A i \in 1 .. n : frames[i] \in Frames
      BY <1>1, <2>1
    <2>3. /\ SubSeq(frames, 1, n) \in Seq(Frames)
          /\ Len(SubSeq(frames, 1, n)) = IF 1 <= n THEN n - 1 + 1 ELSE 0
          /\ \A i \in 1 .. n - 1 + 1 : SubSeq(frames, 1, n)[i] = frames[1 + i - 1]
      BY <2>2, SubSeqProperties
    <2>4. g = SubSeq(frames, 1, n)
      BY <2>1
    <2> HIDE DEF g
    <2>5. g \in Seq(Frames) /\ Len(g) = n
      BY <2>3, <2>4
    <2>6. \A i \in 1 .. n : g[i] = frames[i]
      BY <2>3, <2>4
    <2> QED BY <2>1, <2>5, <2>6
  <1> HIDE DEF g
  <1>3. g = <<>> <=> Len(frames) = 1
    BY <1>1, <1>2, EmptySeq
  <1>4. \A i \in DOMAIN g : i \in DOMAIN frames /\ g[i] = frames[i]
    BY <1>1, <1>2
  <1> QED BY <1>1, <1>2, <1>3, <1>4 DEF g

LEMMA ListensKeeps ==
  ASSUME NEW s, Kept(s), ~s.response.ANSWERED => s.answer.uws.over = "no"
  PROVE  LET w == Listens(s) IN
         /\ Kept(w) /\ w.response = s.response /\ w.request = s.request
         /\ w.chain = s.chain /\ w.later = s.later
         /\ ~s.response.ANSWERED =>
               w.answer.uws.over = "no" /\ w.answer.uws.listener = "lite"
         /\ Alike(s, w)
  <1>1. CASE s.response.ANSWERED
    BY <1>1 DEF Listens, Alike, Steady
  <1>2. CASE ~s.response.ANSWERED
    <2> DEFINE o == OnAborted(s.answer, "lite")
               w == [s EXCEPT !.answer = o]
    <2>1. s.answer \in AnswerSet /\ s.answer.uws \in UwsType /\ DOMAIN s = Parts
      BY DEF Kept, AnswerSet
    <2>2. /\ o \in AnswerSet /\ o.uws = [s.answer.uws EXCEPT !.listener = "lite"]
          /\ o.stream = s.answer.stream /\ o.pool = s.answer.pool
          /\ o.wire = s.answer.wire
      BY <1>2, <2>1, Listened DEF Listeners
    <2>3. Listens(s) = w
      BY <1>2, <2>1 DEF Listens, Parts
    <2> HIDE DEF o
    <2>4. /\ DOMAIN w = Parts /\ w.answer = o /\ w.response = s.response
          /\ w.request = s.request /\ w.chain = s.chain /\ w.later = s.later
          /\ w.ticks = s.ticks /\ w.heard = s.heard
      BY <2>1 DEF Parts
    <2> HIDE DEF w
    <2>5. /\ o.uws.over = "no" /\ o.uws.listener = "lite" /\ o.uws.faults = s.answer.uws.faults
          /\ o.uws.guarded = s.answer.uws.guarded /\ o.uws.aborted = s.answer.uws.aborted
      BY <1>2, <2>1, <2>2 DEF UwsType
    <2>9. Alike(s, w)
      BY <1>2, <2>2, <2>4, <2>5 DEF Alike, Steady
    <2>8. Written(o)
      BY <1>2, <2>2, <2>5 DEF Kept, Sound, Written
    <2>6. Sound(o) /\ Idle(o)
      BY <1>2, <2>2, <2>5, <2>8 DEF Kept, Sound, Idle, Flowing
    <2>7. Kept(w)
      BY <1>2, <2>2, <2>4, <2>5, <2>6 DEF Kept
    <2> QED BY <1>2, <2>3, <2>4, <2>5, <2>7, <2>9
  <1> QED BY <1>1, <1>2

\* The run of the handler, or of the chain, is over: what is answered now is late.
IsReturned(s, w) ==
    /\ Kept(w) /\ w.answer = s.answer /\ w.response.LATE /\ ~w.request.held
    /\ w.chain = s.chain /\ w.later = s.later
    /\ w.response.phase = s.response.phase /\ w.response.ANSWERED = s.response.ANSWERED
    /\ w.response.ABORTED = s.response.ABORTED /\ Alike(s, w)

LEMMA ReturnedKeeps ==
  ASSUME NEW s, Kept(s)
  PROVE  IsReturned(s, Returned(s))
  <1> DEFINE w == Returned(s)
  <1>1. s.response \in LiteResponses /\ DOMAIN s = Parts /\ {"held", "paused", "ended", "destroyed"} \subseteq DOMAIN s.request
    BY DEF Kept
  <1>2. /\ DOMAIN w = Parts /\ w.answer = s.answer /\ w.chain = s.chain /\ w.later = s.later
        /\ w.response = [s.response EXCEPT !.LATE = TRUE]
        /\ w.request = [s.request EXCEPT !.held = FALSE]
        /\ w.ticks = s.ticks /\ w.heard = s.heard
    BY <1>1 DEF Returned, Parts
  <1> HIDE DEF w
  <1>3. /\ w.response \in LiteResponses /\ w.response.LATE
        /\ w.response.phase = s.response.phase /\ w.response.ANSWERED = s.response.ANSWERED
        /\ w.response.ABORTED = s.response.ABORTED
        /\ w.response.reopened = s.response.reopened
    BY <1>1, <1>2 DEF LiteResponses
  <1>4. /\ {"held", "paused", "ended", "destroyed"} \subseteq DOMAIN w.request /\ ~w.request.held
        /\ w.request.ended = s.request.ended /\ w.request.destroyed = s.request.destroyed
    BY <1>1, <1>2
  <1>6. Alike(s, w)
    BY <1>2, <1>3, <1>4 DEF Alike, Steady
  <1>5. Kept(w)
    <2>1. DOMAIN w = Parts /\ w.answer = s.answer /\ w.chain = s.chain /\ w.later = s.later
      BY <1>2
    <2> QED BY <1>3, <1>4, <2>1 DEF Kept
  <1> QED BY <1>2, <1>3, <1>4, <1>5, <1>6 DEF IsReturned, w

\* uWS's callback is over, and nothing of the code runs.
LEMMA CallbackOver ==
  ASSUME NEW t, Kept(t), Told(t), t.chain.frames = <<>>,
         \/ t.response.phase \in Underway \/ t.answer.uws.over = "no"
         \/ t.response.ANSWERED /\ t.answer.stream.phase = "none",
         ~t.response.ANSWERED =>
            t.response.ABORTED \/ (t.answer.uws.over = "no" /\ t.answer.uws.listener = "lite"),
         Asleep(t) \/ (t.response.LATE /\ ~t.request.held)
  PROVE  LiteSafe([t EXCEPT !.response.phase = "returned", !.answer.uws.stack = FALSE])
  <1> DEFINE w == [t EXCEPT !.response.phase = "returned", !.answer.uws.stack = FALSE]
             a == OnStack(t.answer, FALSE)
             r == [t.response EXCEPT !.phase = "returned"]
  <1>1. t.answer \in AnswerSet /\ t.answer.uws \in UwsType /\ t.response \in LiteResponses
        /\ DOMAIN t = Parts
    BY DEF Kept, AnswerSet
  <1>2. /\ a \in AnswerSet /\ a.uws = [t.answer.uws EXCEPT !.stack = FALSE]
        /\ Sound(t.answer) => Sound(a)
        /\ Idle(t.answer) => Idle(a)
    BY <1>1, StackIs
  <1>3. /\ r \in LiteResponses /\ r.phase = "returned" /\ r.ANSWERED = t.response.ANSWERED
        /\ r.ABORTED = t.response.ABORTED /\ r.LATE = t.response.LATE
        /\ r.reopened = t.response.reopened
    BY <1>1 DEF LiteResponses
  <1>4. a.uws.over = t.answer.uws.over /\ a.uws.listener = t.answer.uws.listener
        /\ a.uws.guarded = t.answer.uws.guarded /\ a.uws.aborted = t.answer.uws.aborted
    BY <1>1, <1>2 DEF UwsType
  <1>5. /\ DOMAIN w = Parts /\ w.answer = a /\ w.response = r /\ w.request = t.request
        /\ w.chain = t.chain /\ w.later = t.later /\ w.ticks = t.ticks /\ w.heard = t.heard
    BY <1>1 DEF Parts, OnStack
  <1>8. a.stream = t.answer.stream /\ a.pool = t.answer.pool
    BY <1>1, StackIs
  <1> HIDE DEF w, a, r
  <1>6. Kept(w)
    BY <1>2, <1>3, <1>4, <1>5 DEF Kept
  <1>7. Phased(w)
    BY <1>3, <1>4, <1>5 DEF Phased, Asleep
  <1>9. Told(w)
    BY <1>3, <1>4, <1>5, <1>8, AlikeTold DEF Alike, Steady
  <1> QED BY <1>6, <1>7, <1>9 DEF LiteSafe, w

LEMMA PopSafe ==
  ASSUME NEW s, LiteSafe(s), s.chain.frames # <<>>
  PROVE  LiteSafe(Pop(s))
  <1> DEFINE frames == s.chain.frames
             frame == frames[Len(frames)]
             g == SubSeq(frames, 1, Len(frames) - 1)
             popped == [s EXCEPT !.chain.frames = g]
             ends == frame.code = Handler /\ frame.sync
             ran == IF ends THEN Returned(popped) ELSE popped
             heardOf == IF ends /\ route.use = <<>> THEN Listens(ran) ELSE ran
             called == IF route.use = <<>> THEN heardOf ELSE Returned(Listens(heardOf))
             w == Pop(s)
  <1>1. /\ Kept(s) /\ Phased(s) /\ Told(s) /\ DOMAIN s = Parts /\ "frames" \in DOMAIN s.chain
        /\ frames \in Seq(Frames) /\ s.response.phase \in {"called", "returned"}
        /\ s.response \in LiteResponses
    BY DEF LiteSafe, Kept, Phased, Asleep, LiteResponses
  <1>2. /\ Len(frames) \in Nat /\ Len(frames) >= 1 /\ frame \in Frames
        /\ g \in Seq(Frames) /\ Len(g) = Len(frames) - 1
        /\ g = <<>> <=> Len(frames) = 1
        /\ \A i \in DOMAIN g : i \in DOMAIN frames /\ g[i] = frames[i]
    BY <1>1, FramesShort
  <1>3. w = IF Len(frames) > 1 \/ s.response.phase # "called" THEN heardOf
            ELSE [called EXCEPT !.response.phase = "returned", !.answer.uws.stack = FALSE]
    <2>1. popped.response = s.response
      BY <1>1 DEF Parts
    <2> QED BY <2>1 DEF Pop
  <1>4. /\ Kept(popped) /\ popped.answer = s.answer /\ popped.response = s.response
        /\ popped.request = s.request /\ popped.later = s.later /\ popped.chain.frames = g
        /\ Told(popped)
    <2>1. /\ DOMAIN popped = Parts /\ popped.answer = s.answer /\ popped.response = s.response
          /\ popped.request = s.request /\ popped.later = s.later
          /\ popped.chain.frames = g /\ "frames" \in DOMAIN popped.chain
          /\ popped.ticks = s.ticks /\ popped.heard = s.heard
      BY <1>1 DEF Parts
    <2> HIDE DEF popped, g
    <2>2. Told(popped)
      BY <1>1, <2>1, AlikeTold DEF Alike, Steady
    <2>3. Kept(popped)
      BY <1>1, <1>2, <2>1 DEF Kept, HandlerOnly
    <2> QED BY <2>1, <2>2, <2>3
  <1>5. /\ Kept(ran) /\ ran.answer = s.answer /\ ran.later = s.later /\ ran.chain.frames = g
        /\ ran.response.phase = s.response.phase /\ ran.response.ANSWERED = s.response.ANSWERED
        /\ ran.response.ABORTED = s.response.ABORTED
        /\ s.response.LATE /\ ~s.request.held => ran.response.LATE /\ ~ran.request.held
        /\ ends => ran.response.LATE /\ ~ran.request.held
        /\ Told(ran)
    <2>1. ran = IF ends THEN Returned(popped) ELSE popped
      OBVIOUS
    <2> HIDE DEF popped, g, ran, ends
    <2>2. CASE ends
      <3>1. ran = Returned(popped)
        BY <2>1, <2>2
      <3>2. IsReturned(popped, Returned(popped))
        BY <1>4, ReturnedKeeps
      <3> QED BY <1>4, <3>1, <3>2, AlikeTold DEF IsReturned
    <2>3. CASE ~ends
      BY <1>4, <2>1, <2>3
    <2> QED BY <2>2, <2>3
  <1>6. frames = <<[code |-> Handler, sync |-> TRUE]>> => ends
    OBVIOUS
  <1>7. CASE s.response.phase = "returned"
    <2>1. route.use = <<>> => ~ends
      BY <1>1, <1>2, <1>7 DEF Phased
    <2>2. w = ran
      BY <1>3, <1>7, <2>1
    <2> HIDE DEF ran, w, g
    <2>3. route.use = <<>> => \A i \in DOMAIN g : ~g[i].sync
      BY <1>1, <1>2, <1>7 DEF Phased
    <2>4. Phased(ran)
      BY <1>1, <1>5, <1>7, <2>3 DEF Phased, Asleep
    <2> QED BY <1>5, <2>2, <2>4 DEF LiteSafe, w
  <1>8. CASE s.response.phase = "called" /\ route.use = <<>>
    <2>0. frames = <<[code |-> Handler, sync |-> TRUE]>>
      BY <1>1, <1>8 DEF Phased
    <2>1. Len(frames) = 1 /\ ends /\ g = <<>>
      <3>1. ends
        BY <1>6, <2>0
      <3>2. Len(frames) = 1
        BY <2>0
      <3> HIDE DEF ends, g
      <3> QED BY <1>2, <3>1, <3>2
    <2>2. /\ heardOf = Listens(ran)
          /\ w = [heardOf EXCEPT !.response.phase = "returned", !.answer.uws.stack = FALSE]
      BY <1>3, <1>8, <2>1
    <2> HIDE DEF ran, w, g, ends
    <2> DEFINE t == Listens(ran)
    <2>3. /\ Kept(t) /\ t.response = ran.response /\ t.request = ran.request
          /\ t.chain = ran.chain /\ t.later = ran.later
          /\ ~ran.response.ANSWERED => t.answer.uws.over = "no" /\ t.answer.uws.listener = "lite"
          /\ Told(t)
      <3>1. ~ran.response.ANSWERED => ran.answer.uws.over = "no"
        BY <1>1, <1>5, <1>8 DEF Phased
      <3> QED BY <1>5, <3>1, ListensKeeps, AlikeTold
    <2>4. w = [t EXCEPT !.response.phase = "returned", !.answer.uws.stack = FALSE]
      BY <2>2
    <2> HIDE DEF t
    <2>5. LiteSafe(w)
      BY <1>1, <1>5, <2>1, <2>3, <2>4, CallbackOver DEF Underway
    <2> QED BY <2>5 DEF w
  <1>9. CASE s.response.phase = "called" /\ route.use # <<>> /\ Len(frames) > 1
    <2>1. w = ran
      BY <1>3, <1>9
    <2> HIDE DEF ran, w, g
    <2>2. Phased(ran)
      BY <1>1, <1>2, <1>5, <1>9 DEF Phased
    <2> QED BY <1>5, <2>1, <2>2 DEF LiteSafe, w
  <1>10. CASE s.response.phase = "called" /\ route.use # <<>> /\ ~(Len(frames) > 1)
    <2> DEFINE l == Listens(ran)
               t == Returned(l)
    <2>0. heardOf = ran
      BY <1>10
    <2>1. w = [t EXCEPT !.response.phase = "returned", !.answer.uws.stack = FALSE]
      <3>1. called = t
        BY <1>10, <2>0
      <3> HIDE DEF called, t
      <3> QED BY <1>3, <1>10, <3>1
    <2>5. g = <<>>
      <3> HIDE DEF g
      <3>1. Len(frames) = 1
        BY <1>2, <1>10
      <3> QED BY <1>2, <3>1
    <2> HIDE DEF ran, w, g
    <2>2. /\ Kept(l) /\ l.response = ran.response /\ l.request = ran.request
          /\ l.chain = ran.chain /\ l.later = ran.later
          /\ ~ran.response.ANSWERED => l.answer.uws.over = "no" /\ l.answer.uws.listener = "lite"
          /\ Told(l)
      <3>1. ~ran.response.ANSWERED => ran.answer.uws.over = "no"
        BY <1>1, <1>5, <1>10 DEF Phased
      <3> QED BY <1>5, <3>1, ListensKeeps, AlikeTold
    <2> HIDE DEF l
    <2>3. /\ Kept(t) /\ t.answer = l.answer /\ t.response.LATE /\ ~t.request.held
          /\ t.chain = l.chain /\ t.response.ANSWERED = l.response.ANSWERED
          /\ t.response.phase = l.response.phase /\ Told(t)
      BY <2>2, ReturnedKeeps, AlikeTold DEF IsReturned
    <2> HIDE DEF t
    <2>6. /\ t.chain.frames = <<>> /\ t.response.phase \in Underway
          /\ ~t.response.ANSWERED => t.answer.uws.over = "no" /\ t.answer.uws.listener = "lite"
      BY <1>1, <1>5, <2>2, <2>3, <2>5 DEF Underway
    <2>7. LiteSafe([t EXCEPT !.response.phase = "returned", !.answer.uws.stack = FALSE])
      BY <2>3, <2>6, CallbackOver
    <2>4. LiteSafe(w)
      BY <2>1, <2>7
    <2> QED BY <2>4 DEF w
  <1> QED BY <1>1, <1>7, <1>8, <1>9, <1>10

-----------------------------------------------------------------------------
(* The steps of a light route.                                             *)

LEMMA RunningIs ==
  ASSUME NEW s, LiteSafe(s), s.chain.frames # <<>>
  PROVE  Answerable(s) /\ s.response.phase \in {"called", "returned"}
  BY DEF LiteSafe, Kept, Phased, Asleep, Answerable, LiteResponses

LEMMA SettledSafe ==
  ASSUME NEW s, LiteSafe(s), s.chain.frames # <<>>, NEW w, Settled(s, w)
  PROVE  LiteSafe(w) /\ w.chain.frames # <<>>
  <1>1. /\ w.response.phase = s.response.phase /\ w.response.ANSWERED
        /\ w.response.LATE = s.response.LATE /\ s.response.phase \in {"called", "returned"}
    BY RunningIs DEF LiteSafe, Kept, Settled, LiteResponses
  <1>2. Phased(w)
    BY <1>1 DEF LiteSafe, Phased, Asleep, Settled
  <1> QED BY <1>2 DEF LiteSafe, Settled

LEMMA CalledSafe ==
  ASSUME NEW s, LiteSafe(s), s.chain.frames # <<>>, NEW w, Called(s, w), route.use # <<>>
  PROVE  LiteSafe(w)
  <1>1. PICK f \in Frames : w.chain.frames = Append(s.chain.frames, f)
    BY DEF Called
  <1>2. w.chain.frames # <<>>
    BY <1>1 DEF LiteSafe, Kept
  <1>3. s.response.phase \in {"called", "returned"}
    BY RunningIs
  <1>4. Phased(w)
    BY <1>2, <1>3 DEF LiteSafe, Phased, Asleep, Called
  <1>5. Told(w)
    BY AlikeTold DEF LiteSafe, Called, Alike, Steady
  <1> QED BY <1>4, <1>5 DEF LiteSafe, Called

LEMMA Lite_Answer == ASSUME LiteInv, Answer PROVE LiteInv'
  <1>1. /\ LiteSafe(Whole0) /\ route \in RouteType /\ chain.frames # <<>> /\ ~response.ANSWERED
    BY DEF LiteInv, Answer, Running
  <1>2. PICK status \in {200, 204}, size \in Sizes : Settles(Finish(Whole0, status, size))
    BY DEF Answer
  <1>3. Settled(Whole0, Finish(Whole0, status, size))
    <2>1. Kept(Whole0) /\ Answerable(Whole0) /\ ~Whole0.response.ANSWERED
      BY <1>1, RunningIs, WholeIs DEF LiteSafe
    <2>2. status \in Nat \ {0} /\ size \in Sizes
      OBVIOUS
    <2> QED BY <1>1, <2>1, <2>2, FinishSettles
  <1>4. LiteSafe(Finish(Whole0, status, size))
    BY <1>1, <1>3, SettledSafe, WholeIs
  <1> QED BY <1>1, <1>2, <1>4, SettlesSafe

\* The handler is the only code of a route with no middleware.
LEMMA CurrentIs ==
  ASSUME LiteInv, Running
  PROVE  /\ Current \in Frames /\ Current.code \in Nat
         /\ route.use = <<>> => Current.code = Handler
  <1>1. /\ chain.frames \in Seq(Frames) /\ chain.frames # <<>>
        /\ route.use = <<>> => \A i \in DOMAIN chain.frames : chain.frames[i].code = Handler
    BY WholeIs DEF LiteInv, LiteSafe, Kept, Running, HandlerOnly
  <1>2. Len(chain.frames) \in DOMAIN chain.frames /\ Current \in Frames
    BY <1>1, EmptySeq DEF Current
  <1> QED BY <1>1, <1>2 DEF Current, Frames

LEMMA NextSafe ==
  ASSUME NEW s, LiteSafe(s), s.chain.frames # <<>>, route \in RouteType, route.use # <<>>,
         Uses \subseteq Seq(STRING), NEW failing \in BOOLEAN
  PROVE  LiteSafe(CallNext(s, failing))
  <1> DEFINE w == CallNext(s, failing)
  <1>1. Kept(s) /\ Answerable(s)
    BY RunningIs DEF LiteSafe
  <1>2. w = s \/ Called(s, w) \/ Settled(s, w)
    BY <1>1, CallNextCalls
  <1> HIDE DEF w
  <1>3. LiteSafe(w)
    BY <1>2, CalledSafe, SettledSafe
  <1> QED BY <1>3 DEF w

LEMMA Lite_Next ==
  ASSUME LiteInv, Next1, Uses \subseteq Seq(STRING)
  PROVE  LiteInv'
  <1>1. /\ LiteSafe(Whole0) /\ route \in RouteType /\ chain.frames # <<>> /\ route.use # <<>>
    BY CurrentIs DEF LiteInv, Next1, Running
  <1>2. PICK failing \in BOOLEAN : Settles(CallNext(Whole0, failing))
    BY DEF Next1
  <1>3. LiteSafe(CallNext(Whole0, failing))
    BY <1>1, NextSafe, WholeIs
  <1> QED BY <1>1, <1>2, <1>3, SettlesSafe

LEMMA Lite_Return == ASSUME LiteInv, Return PROVE LiteInv'
  <1>1. /\ LiteSafe(Whole0) /\ route \in RouteType /\ chain.frames # <<>>
    BY DEF LiteInv, Return, Running
  <1> DEFINE w == [Whole0 EXCEPT !.later = @ \cup {Current.code}]
  <1>2. PICK b \in {Whole0, w} : Settles(Pop(b))
    BY DEF Return
  <1>3. LiteSafe(w) /\ w.chain.frames # <<>>
    <2>1. /\ DOMAIN w = Parts /\ w.answer = This /\ w.response = response /\ w.request = request
          /\ w.chain = chain /\ w.later = later \cup {Current.code}
          /\ w.ticks = ticks /\ w.heard = heard
      BY WholeIs DEF Parts
    <2>2. Current.code \in Nat /\ (route.use = <<>> => Current.code = Handler)
      BY CurrentIs DEF Return
    <2> HIDE DEF w
    <2>3. Kept(w)
      BY <1>1, <2>1, <2>2, WholeIs DEF LiteSafe, Kept, HandlerOnly
    <2>4. Phased(w)
      <3>1. response.phase \in {"called", "returned"}
        BY <1>1, RunningIs, WholeIs
      <3> QED BY <1>1, <2>1, <3>1, WholeIs DEF LiteSafe, Phased, Asleep
    <2>5. Told(w)
      BY <1>1, <2>1, WholeIs, AlikeTold DEF LiteSafe, Alike, Steady
    <2> QED BY <1>1, <2>1, <2>3, <2>4, <2>5, WholeIs DEF LiteSafe
  <1> HIDE DEF w
  <1>4. LiteSafe(Pop(b))
    BY <1>1, <1>2, <1>3, PopSafe, WholeIs
  <1> QED BY <1>1, <1>2, <1>4, SettlesSafe

\* What the code throws: the chain's next() when it is a middleware's.
LEMMA Lite_Throw ==
  ASSUME LiteInv, Throw, Uses \subseteq Seq(STRING)
  PROVE  LiteInv'
  <1>1. /\ LiteSafe(Whole0) /\ route \in RouteType /\ chain.frames # <<>>
        /\ Kept(Whole0) /\ Answerable(Whole0)
    BY RunningIs, WholeIs DEF LiteInv, LiteSafe, Throw, Running
  <1>2. CASE Current.code = Handler
    <2>1. Settles(Pop(Fail(Whole0)))
      BY <1>2 DEF Throw
    <2>2. Settled(Whole0, Fail(Whole0))
      BY <1>1, FailSettles
    <2>3. LiteSafe(Fail(Whole0)) /\ Fail(Whole0).chain.frames # <<>>
      BY <1>1, <2>2, SettledSafe, WholeIs
    <2>4. LiteSafe(Pop(Fail(Whole0)))
      BY <2>3, PopSafe
    <2> QED BY <1>1, <2>1, <2>4, SettlesSafe
  <1>3. CASE Current.code # Handler
    <2> DEFINE frames == chain.frames
               g == SubSeq(frames, 1, Len(frames) - 1)
               p == [Whole0 EXCEPT !.chain.frames = g]
               caught == CallNext(p, TRUE)
               back == [caught EXCEPT !.chain.frames = frames]
    <2>1. route.use # <<>>
      BY <1>3, CurrentIs DEF Throw
    <2>2. Settles(IF caught.chain.frames # g THEN caught ELSE Pop(back))
      BY <1>3 DEF Throw
    <2>3. /\ frames \in Seq(Frames) /\ "frames" \in DOMAIN chain
      BY <1>1, WholeIs DEF Kept
    <2>4. g \in Seq(Frames) /\ Len(g) \in Nat
      BY <1>1, <2>3, FramesShort
    <2>5. /\ DOMAIN p = Parts /\ p.answer = This /\ p.response = response /\ p.request = request
          /\ p.later = later /\ p.chain.frames = g /\ "frames" \in DOMAIN p.chain
          /\ p.ticks = ticks /\ p.heard = heard
      BY <2>3, WholeIs DEF Parts
    <2> HIDE DEF p, g
    <2>6. Kept(p) /\ Answerable(p)
      BY <1>1, <2>1, <2>4, <2>5, WholeIs DEF Kept, Answerable, HandlerOnly
    <2>7. caught = p \/ Called(p, caught) \/ Settled(p, caught)
      BY <1>1, <2>1, <2>6, CallNextCalls
    <2> HIDE DEF caught
    <2>8. response.phase \in {"called", "returned"} /\ response \in LiteResponses
      BY <1>1, RunningIs, WholeIs DEF Kept
    <2>11. Told(p)
      BY <1>1, <2>5, WholeIs, AlikeTold DEF LiteSafe, Alike, Steady
    <2>9. CASE caught.chain.frames # g
      <3>1. Called(p, caught)
        BY <2>5, <2>7, <2>9 DEF Settled
      <3>2. caught.chain.frames # <<>>
        BY <2>4, <2>5, <3>1 DEF Called
      <3>3. Phased(caught)
        BY <1>1, <2>1, <2>5, <2>8, <3>1, <3>2, WholeIs DEF Called, LiteSafe, Phased, Asleep
      <3>5. Told(caught)
        BY <2>11, <3>1, AlikeTold DEF Called, Alike, Steady
      <3>4. LiteSafe(caught)
        BY <3>1, <3>3, <3>5 DEF LiteSafe, Called
      <3> QED BY <1>1, <2>2, <2>9, <3>4, SettlesSafe
    <2>10. CASE caught.chain.frames = g
      <3>1. caught = p \/ Settled(p, caught)
        <4>1. ASSUME NEW f \in Frames PROVE Append(g, f) # g
          BY <2>4
        <4> QED BY <2>5, <2>7, <2>10, <4>1 DEF Called
      <3>2. Kept(caught) /\ caught.request = request /\ caught.later = later
        BY <2>5, <2>6, <3>1 DEF Settled
      <3>3. caught.response = response \/ caught.response = [response EXCEPT !.ANSWERED = TRUE]
        BY <2>5, <3>1 DEF Settled
      <3>4. caught.response = response => caught.answer = This \/ response.ANSWERED
        BY <2>5, <2>8, <3>1 DEF Settled, LiteResponses
      <3>5. caught.answer.uws.stack = uws.stack
        BY <2>5, <3>1, ThisIs DEF Settled
      <3>6. /\ DOMAIN back = Parts /\ back.answer = caught.answer /\ back.later = later
            /\ back.response = caught.response /\ back.request = request
            /\ back.chain.frames = frames /\ "frames" \in DOMAIN back.chain
            /\ back.ticks = caught.ticks /\ back.heard = caught.heard
        BY <3>2 DEF Kept, Parts
      <3> HIDE DEF back
      <3>7. Kept(back)
        BY <2>1, <2>3, <3>2, <3>6 DEF Kept, HandlerOnly
      <3>8. /\ back.response.phase = response.phase /\ back.response.LATE = response.LATE
            /\ back.response.ANSWERED \/ (back.response = response /\ back.answer = This)
        BY <2>8, <3>3, <3>4, <3>6 DEF LiteResponses
      <3>9. Phased(back)
        BY <1>1, <2>1, <2>8, <3>5, <3>6, <3>8, WholeIs, ThisIs DEF LiteSafe, Phased, Asleep
      <3>11. Told(back)
        <4>1. Told(caught)
          BY <2>11, <3>1 DEF Settled
        <4>2. Alike(caught, back)
          BY <3>2, <3>6 DEF Alike, Steady
        <4> QED BY <4>1, <4>2, AlikeTold
      <3>10. LiteSafe(Pop(back))
        BY <1>1, <3>6, <3>7, <3>9, <3>11, PopSafe DEF LiteSafe
      <3> QED BY <1>1, <2>2, <2>10, <3>10, SettlesSafe
    <2> QED BY <2>9, <2>10
  <1> QED BY <1>2, <1>3

LEMMA Lite_Resume == ASSUME LiteInv, Resume PROVE LiteInv'
  <1>1. /\ LiteSafe(Whole0) /\ Kept(Whole0) /\ route \in RouteType /\ chain.frames = <<>>
        /\ response.phase = "returned"
    BY DEF LiteInv, LiteSafe, Resume, Quiet
  <1>2. PICK c \in later : Settles(Push([Whole0 EXCEPT !.later = @ \ {c}], c, FALSE))
    BY DEF Resume
  <1> DEFINE t == [Whole0 EXCEPT !.later = @ \ {c}]
             w == Push(t, c, FALSE)
  <1>3. /\ DOMAIN t = Parts /\ t.answer = This /\ t.response = response /\ t.request = request
        /\ t.chain = chain /\ t.later = later \ {c} /\ t.ticks = ticks /\ t.heard = heard
    BY WholeIs DEF Parts
  <1>4. c \in Nat /\ (route.use = <<>> => c = Handler)
    BY <1>1, WholeIs DEF Kept, HandlerOnly
  <1> HIDE DEF t
  <1>5. Kept(t)
    BY <1>1, <1>3, WholeIs DEF Kept, HandlerOnly
  <1>6. Called(t, w) /\ w.chain.frames = Append(<<>>, [code |-> c, sync |-> FALSE])
    BY <1>1, <1>3, <1>4, <1>5, PushCalls
  <1>7. response.LATE /\ ~request.held
    BY <1>1, WholeIs DEF LiteSafe, Phased, Asleep
  <1> HIDE DEF w
  <1>8. \A i \in DOMAIN w.chain.frames : ~w.chain.frames[i].sync
    <2> DEFINE f == [code |-> c, sync |-> FALSE]
    <2>1. ~f.sync
      OBVIOUS
    <2> HIDE DEF f
    <2>2. \A i \in DOMAIN Append(<<>>, f) : Append(<<>>, f)[i] = f
      OBVIOUS
    <2> QED BY <1>6, <2>1, <2>2 DEF f
  <1>9. Phased(w)
    BY <1>1, <1>3, <1>6, <1>7, <1>8, WholeIs DEF Called, LiteSafe, Phased
  <1>10. Told(w)
    BY <1>1, <1>3, <1>6, WholeIs, AlikeTold DEF LiteSafe, Called, Alike, Steady
  <1> QED BY <1>1, <1>2, <1>6, <1>9, <1>10, SettlesSafe DEF w, t, Called, LiteSafe

\* What does not matter to uWS's response.
LEMMA AlikeSafe ==
  ASSUME NEW s, Kept(s), Phased(s), NEW w, DOMAIN w = Parts, w.answer = s.answer,
         w.response \in LiteResponses, w.response.phase = s.response.phase,
         w.response.ANSWERED = s.response.ANSWERED, w.response.ABORTED = s.response.ABORTED,
         w.response.LATE = s.response.LATE,
         {"held", "paused", "ended", "destroyed"} \subseteq DOMAIN w.request, w.request.held = s.request.held,
         w.request.paused = s.request.paused, w.chain = s.chain, w.later = s.later
  PROVE  Kept(w) /\ Phased(w)
  <1>1. Kept(w)
    BY DEF Kept
  <1>2. Phased(w)
    BY DEF Phased, Asleep
  <1> QED BY <1>1, <1>2

LEMMA Lite_Quiet == ASSUME LiteInv, Listen \/ Tick PROVE LiteInv'
  <1>1. /\ LiteSafe(Whole0) /\ route \in RouteType /\ response \in LiteResponses
        /\ {"held", "paused", "ended", "destroyed"} \subseteq DOMAIN request
    BY WholeIs DEF LiteInv, LiteSafe, Kept
  <1>2. CASE Listen
    <2> DEFINE w == [Whole0 EXCEPT !.response.bus = TRUE]
               r == [response EXCEPT !.bus = TRUE]
    <2>1. /\ DOMAIN w = Parts /\ w.answer = This /\ w.response = r /\ w.request = request
          /\ w.chain = chain /\ w.later = later /\ w.ticks = ticks /\ w.heard = heard
      BY WholeIs DEF Parts
    <2>2. /\ r \in LiteResponses /\ r.phase = response.phase /\ r.LATE = response.LATE
          /\ r.ANSWERED = response.ANSWERED /\ r.ABORTED = response.ABORTED
          /\ r.reopened = response.reopened
      BY <1>1 DEF LiteResponses
    <2>3. Settles(w)
      BY <1>2 DEF Listen
    <2> HIDE DEF w, r
    <2>5. Told(w)
      BY <1>1, <2>1, <2>2, WholeIs, AlikeTold DEF LiteSafe, Alike, Steady
    <2>4. LiteSafe(w)
      BY <1>1, <2>1, <2>2, <2>5, AlikeSafe, WholeIs DEF LiteSafe
    <2> QED BY <1>1, <2>3, <2>4, SettlesSafe
  <1>3. CASE Tick
    <2> DEFINE w == [Whole0 EXCEPT !.ticks = Tail(@), !.heard.finish = @ + 1, !.heard.close = @ + 1]
    <2>1. /\ DOMAIN w = Parts /\ w.answer = This /\ w.response = response /\ w.request = request
          /\ w.chain = chain /\ w.later = later /\ w.ticks = Tail(ticks)
          /\ w.heard = [[heard EXCEPT !.finish = @ + 1] EXCEPT !.close = @ + 1]
      BY WholeIs DEF Parts
    <2>2. Settles(w)
      BY <1>3 DEF Tick
    <2> HIDE DEF w
    <2>4. Told(w)
      <3>1. /\ HeardRight(Whole0) /\ heard \in [finish : Nat, close : Nat]
            /\ ticks = <<"finished">> /\ response.ANSWERED
            /\ InStep(This) /\ BodyRight(Whole0)
        BY <1>1, <1>3, WholeIs DEF Tick, LiteSafe, Told, HeardRight
      <3>3. heard.close \in Nat /\ heard.finish \in Nat
        BY <3>1
      <3>6. PICK h : h = [heard EXCEPT !.finish = @ + 1]
        OBVIOUS
      <3>7. /\ h \in [finish : Nat, close : Nat] /\ h.finish = heard.finish + 1
            /\ h.close = heard.close
        BY <3>1, <3>3, <3>6
      <3>8. w.heard = [h EXCEPT !.close = @ + 1]
        BY <2>1, <3>6
      <3>2. /\ w.heard \in [finish : Nat, close : Nat] /\ w.heard.finish = heard.finish + 1
            /\ w.heard.close = heard.close + 1 /\ w.ticks = <<>>
        BY <2>1, <3>1, <3>3, <3>7, <3>8
      <3>4. HeardRight(w)
        BY <2>1, <3>1, <3>2, <3>3, WholeIs DEF HeardRight
      <3>5. BodyRight(w)
        BY <2>1, <3>1, WholeIs DEF BodyRight
      <3> QED BY <1>1, <2>1, <3>4, <3>5, WholeIs DEF LiteSafe, Told
    <2>3. LiteSafe(w)
      BY <1>1, <2>1, <2>4, AlikeSafe, WholeIs DEF LiteSafe
    <2> QED BY <1>1, <2>2, <2>3, SettlesSafe
  <1> QED BY <1>2, <1>3

\* The program reads what uWS had only while the route holds it.
LEMMA Lite_ReadRequest == ASSUME LiteInv, ReadRequest PROVE LiteInv'
  <1>1. /\ LiteSafe(Whole0) /\ route \in RouteType /\ chain.frames # <<>>
    BY DEF LiteInv, ReadRequest, Running
  <1>2. response.phase \in {"called", "returned"}
    BY <1>1, RunningIs, WholeIs
  <1>3. ~(request.held /\ ~uws.stack)
    BY <1>1, <1>2, WholeIs, ThisIs DEF LiteSafe, Phased, Asleep
  <1>4. Settles(Whole0)
    BY <1>3 DEF ReadRequest
  <1> QED BY <1>1, <1>4, SettlesSafe

\* A stream that is written to, or ended, flows as before.
LEMMA StreamOnly ==
  ASSUME NEW s, LiteSafe(s), NEW v \in StreamSet, s.answer.stream.phase \in {"open", "ended"},
         v.phase \in {"open", "ended"}, v.headed = s.answer.stream.headed,
         v.done = s.answer.stream.done, v.closing = s.answer.stream.closing,
         NEW w, DOMAIN w = Parts, w.answer = With(s.answer, s.answer.uws, v),
         w.response = s.response, w.request = s.request, w.chain = s.chain, w.later = s.later,
         w.ticks = s.ticks, w.heard = s.heard
  PROVE  LiteSafe(w)
  <1>1. s.answer \in AnswerSet /\ s.answer.uws \in UwsType /\ Sound(s.answer)
    BY DEF LiteSafe, Kept, AnswerSet
  <1>2. /\ w.answer \in AnswerSet /\ w.answer.uws = s.answer.uws /\ w.answer.stream = v
        /\ w.answer.pool = s.answer.pool /\ w.answer.wire = s.answer.wire
    BY <1>1, WithIs
  <1>7. Written(w.answer)
    BY <1>1, <1>2 DEF Sound, Written
  <1>3. Sound(w.answer)
    BY <1>1, <1>2, <1>7 DEF Sound, Flowing
  <1>4. s.response.ANSWERED
    BY DEF LiteSafe, Kept, Idle
  <1>5. Kept(w)
    BY <1>2, <1>3, <1>4 DEF LiteSafe, Kept
  <1>6. Phased(w)
    BY <1>2 DEF LiteSafe, Phased, Asleep
  <1>8. /\ InStep(w.answer) /\ Flowing(w.answer) /\ Flowing(s.answer)
        /\ ~w.answer.stream.closing /\ ~s.answer.stream.closing
    BY <1>2 DEF LiteSafe, Told, InStep, Flowing
  <1>9. HeardRight(w)
    BY <1>2, <1>8 DEF LiteSafe, Told, HeardRight
  <1>10. BodyRight(w)
    BY <1>2, <1>8 DEF LiteSafe, Told, BodyRight
  <1>11. Told(w)
    BY <1>2, <1>4, <1>8, <1>9, <1>10 DEF Told
  <1> QED BY <1>5, <1>6, <1>11 DEF LiteSafe

LEMMA Lite_EndStream == ASSUME LiteInv, EndStream PROVE LiteInv'
  <1>1. /\ LiteSafe(Whole0) /\ route \in RouteType /\ stream.phase = "open"
        /\ stream \in StreamSet
    BY WholeIs, ThisIs DEF LiteInv, LiteSafe, Kept, AnswerSet, EndStream
  <1> DEFINE w == [Whole0 EXCEPT !.answer.stream.phase = "ended"]
             v == [stream EXCEPT !.phase = "ended"]
  <1>2. /\ v \in StreamSet /\ v.phase = "ended" /\ v.headed = stream.headed
        /\ v.done = stream.done /\ v.closing = stream.closing
    BY <1>1 DEF StreamSet
  <1>3. /\ DOMAIN w = Parts /\ w.answer = With(This, uws, v) /\ w.response = response
        /\ w.request = request /\ w.chain = chain /\ w.later = later
        /\ w.ticks = ticks /\ w.heard = heard
    BY WholeIs, ThisIs DEF Parts, With, This
  <1>4. Settles(w)
    BY DEF EndStream
  <1> HIDE DEF w, v
  <1>5. LiteSafe(w)
    BY <1>1, <1>2, <1>3, StreamOnly, WholeIs, ThisIs
  <1> QED BY <1>1, <1>4, <1>5, SettlesSafe

LEMMA Lite_Write == ASSUME LiteInv, Write PROVE LiteInv'
  <1>1. /\ LiteSafe(Whole0) /\ Kept(Whole0) /\ Phased(Whole0) /\ route \in RouteType
        /\ chain.frames # <<>> /\ This \in AnswerSet /\ stream \in StreamSet /\ uws \in UwsType
        /\ Sound(This) /\ response \in LiteResponses /\ Told(Whole0)
    BY WholeIs, ThisIs DEF LiteInv, LiteSafe, Kept, AnswerSet, Write, Running
  <1>2. CASE stream.phase # "none"
    <2> DEFINE w == [Whole0 EXCEPT !.answer.stream.left = @ + 1]
               v == [stream EXCEPT !.left = @ + 1]
    <2>1. /\ v \in StreamSet /\ v.phase = "open" /\ stream.phase = "open"
          /\ v.headed = stream.headed /\ v.done = stream.done /\ v.closing = stream.closing
      BY <1>1, <1>2 DEF StreamSet, Write
    <2>2. /\ DOMAIN w = Parts /\ w.answer = With(This, uws, v) /\ w.response = response
          /\ w.request = request /\ w.chain = chain /\ w.later = later
          /\ w.ticks = ticks /\ w.heard = heard
      BY WholeIs, ThisIs DEF Parts, With, This
    <2>3. Settles(w)
      BY <1>2 DEF Write
    <2> HIDE DEF w, v
    <2>4. LiteSafe(w)
      BY <1>1, <2>1, <2>2, StreamOnly, WholeIs, ThisIs
    <2> QED BY <1>1, <2>3, <2>4, SettlesSafe
  <1>3. CASE stream.phase = "none"
    <2> DEFINE s == [Whole0 EXCEPT !.response.bus = TRUE, !.response.ANSWERED = TRUE]
               v == [NoStream EXCEPT !.phase = "destroyed", !.closing = TRUE]
               gone == [s EXCEPT !.response.reopened = TRUE, !.answer.stream = v]
               a == SendStream(This, 200, route.compress /\ route.takes, 1)
               sent == [s EXCEPT !.answer = a]
    <2>1. ~response.ANSWERED /\ Settles(IF response.ABORTED THEN gone ELSE [s EXCEPT !.answer =
                SendStream(@, 200, route.compress /\ route.takes, 1)])
      BY <1>3 DEF Write
    <2>2. /\ DOMAIN s = Parts /\ s.answer = This /\ s.request = request /\ s.chain = chain
          /\ s.later = later /\ s.ticks = ticks /\ s.heard = heard
          /\ s.response = [response EXCEPT !.bus = TRUE, !.ANSWERED = TRUE]
      BY WholeIs DEF Parts
    <2>7. ticks = <<>> /\ heard \in [finish : Nat, close : Nat] /\ heard.finish <= heard.close
      BY <1>1, <2>1, WholeIs DEF Told, HeardRight
    <2>3. Idle(This) /\ ~uws.guarded /\ Answerable(Whole0)
      BY <1>1, <2>1, RunningIs, WholeIs, ThisIs DEF Kept
    <2> HIDE DEF s
    <2>6. Written(This) /\ ~stream.headed /\ pool = 0
      BY <1>1, <2>3, ThisIs DEF Sound, Written, Idle
    <2>4. CASE response.ABORTED
      <3> DEFINE b == With(This, uws, v)
                 r == [s.response EXCEPT !.reopened = TRUE]
      <3>1. v \in StreamSet /\ v.phase = "destroyed" /\ ~v.headed /\ v.closing
        BY DEF StreamSet, NoStream
      <3>2. /\ DOMAIN gone = Parts /\ gone.answer = b /\ gone.response = r
            /\ gone.request = request /\ gone.chain = chain /\ gone.later = later
            /\ gone.ticks = ticks /\ gone.heard = heard
        BY <2>2, ThisIs DEF Parts, With, This
      <3>3. Settles(gone)
        BY <2>1, <2>4
      <3>4. /\ r \in LiteResponses /\ r.ANSWERED /\ r.phase = response.phase
            /\ r.LATE = response.LATE /\ r.reopened /\ r.ABORTED = response.ABORTED
        BY <1>1, <2>2 DEF LiteResponses
      <3> HIDE DEF v, gone, r
      <3>5. /\ b \in AnswerSet /\ b.uws = uws /\ b.stream = v /\ b.pool = pool /\ b.wire = wire
        BY <1>1, <3>1, WithIs, ThisIs
      <3> HIDE DEF b
      <3>9. Written(b)
        BY <1>1, <2>6, <3>1, <3>5, ThisIs DEF Written
      <3>6. Sound(b)
        BY <1>1, <2>3, <3>1, <3>5, <3>9, ThisIs DEF Sound, Idle, Flowing
      <3>7. Kept(gone)
        BY <1>1, <3>2, <3>4, <3>5, <3>6, WholeIs DEF Kept
      <3>8. Phased(gone)
        <4>1. response.phase \in {"called", "returned"}
          BY <1>1, RunningIs, WholeIs
        <4> QED BY <1>1, <3>2, <3>4, <3>5, <4>1, WholeIs, ThisIs DEF Phased, Asleep
      <3>10. Told(gone)
        <4>1. uws.over # "no" /\ (heard.finish > 0 => uws.over = "ended" \/ uws.guarded)
          BY <1>1, <2>1, <2>4, WholeIs, ThisIs DEF Told, HeardRight
        <4>2. InStep(b) /\ ~Flowing(b)
          BY <3>1, <3>5, <4>1 DEF InStep, Flowing
        <4>3. HeardRight(gone)
          BY <2>7, <3>2, <3>4, <3>5, <4>1 DEF HeardRight
        <4>4. BodyRight(gone)
          BY <3>1, <3>2, <3>5 DEF BodyRight
        <4> QED BY <3>2, <3>4, <3>5, <4>1, <4>2, <4>3, <4>4 DEF Told
      <3> QED BY <1>1, <3>3, <3>7, <3>8, <3>10, SettlesSafe DEF LiteSafe
    <2>5. CASE ~response.ABORTED
      <3>1. Settles(sent)
        BY <2>1, <2>2, <2>5
      <3>2. PICK coded \in BOOLEAN : coded = (route.compress /\ route.takes)
        OBVIOUS
      <3>3. /\ DOMAIN sent = Parts /\ sent.answer = a /\ sent.response = s.response
            /\ sent.request = request /\ sent.chain = chain /\ sent.later = later
            /\ sent.ticks = ticks /\ sent.heard = heard
        BY <2>2 DEF Parts
      <3>4. /\ s.response \in LiteResponses /\ s.response.ANSWERED
            /\ s.response.phase = response.phase /\ s.response.LATE = response.LATE
            /\ s.response.reopened = response.reopened
            /\ s.response.ABORTED = response.ABORTED
        BY <1>1, <2>2 DEF LiteResponses
      <3>5. uws.over = "no"
        BY <2>1, <2>3, <2>5, WholeIs, ThisIs DEF Answerable
      <3> DEFINE c == SendStream(This, 200, coded, 1)
                 h == Guard(This)
      <3>6. /\ h \in AnswerSet /\ h.uws = [uws EXCEPT !.listener = "guard", !.guarded = TRUE]
        BY <1>1, <2>3, <3>5, Guarded, ThisIs
      <3>7. /\ c \in AnswerSet /\ c.uws = [h.uws EXCEPT !.hook = TRUE]
            /\ c.stream.phase = "open" /\ c.pool = pool /\ ~c.stream.headed /\ c.wire = wire
            /\ ~c.stream.done /\ ~c.stream.closing
        <4>1. IsBegun(This, c)
          BY <1>1, <3>5, StreamBegun, ThisIs
        <4> QED BY <4>1, ThisIs DEF IsBegun
      <3>8. a = c
        BY <3>2
      <3> HIDE DEF a, c, h, sent
      <3>9. /\ c.uws.over = "no" /\ c.uws.listener = "guard" /\ c.uws.guarded /\ c.uws.hook
            /\ c.uws.faults = {} /\ c.uws.stack = uws.stack /\ c.uws.aborted = uws.aborted
        BY <1>1, <3>5, <3>6, <3>7, ThisIs DEF UwsType, Sound
      <3>13. Written(c)
        BY <1>1, <2>6, <3>5, <3>7, <3>9, ThisIs DEF Written
      <3>10. Sound(c)
        BY <2>3, <3>7, <3>9, <3>13, ThisIs DEF Sound, Flowing, Idle
      <3>11. Kept(sent)
        BY <1>1, <3>3, <3>4, <3>7, <3>8, <3>10, WholeIs DEF Kept
      <3>12. Phased(sent)
        <4>1. response.phase \in {"called", "returned"}
          BY <1>1, RunningIs, WholeIs
        <4> QED BY <1>1, <3>3, <3>4, <3>8, <3>9, <4>1, WholeIs, ThisIs DEF Phased, Asleep
      <3>14. Told(sent)
        <4>1. ~uws.aborted /\ (~response.reopened => heard.close = 0)
          BY <1>1, <2>1, <2>5, <2>7, <3>5, WholeIs, ThisIs DEF Told, HeardRight, InStep
        <4>2. InStep(c) /\ Flowing(c)
          BY <3>7, <3>9, <4>1 DEF InStep, Flowing
        <4>3. HeardRight(sent)
          BY <2>7, <3>3, <3>4, <3>8, <3>9, <4>1 DEF HeardRight
        <4>4. BodyRight(sent)
          BY <3>3, <3>8, <3>9 DEF BodyRight
        <4> QED BY <3>3, <3>4, <3>8, <4>2, <4>3, <4>4 DEF Told
      <3> QED BY <1>1, <3>1, <3>11, <3>12, <3>14, SettlesSafe DEF LiteSafe
    <2> QED BY <2>4, <2>5
  <1> QED BY <1>2, <1>3

\* What the answer does by itself, once the route answered.
LEMMA AnsweredFlows ==
  ASSUME LiteInv, ~Running, Answers0', UNCHANGED liteVars, ~Idle(This),
         \/ Steady(This, This')
         \/ Flowing(This) /\ ticks = <<>> /\ IsLast(This, This')
         \/ /\ pool # 0 /\ ~Flowing(This) /\ stream' = stream /\ uws'.guarded = uws.guarded
            /\ IF uws.aborted THEN uws' = uws ELSE uws'.over = "ended"
  PROVE  LiteInv'
  <1>1. /\ Kept(Whole0) /\ Phased(Whole0) /\ chain.frames = <<>> /\ response.ANSWERED
        /\ response.phase = "returned" /\ route \in RouteType
    <2>1. /\ Kept(Whole0) /\ Phased(Whole0) /\ chain.frames = <<>> /\ route \in RouteType
          /\ response \in LiteResponses
      BY WholeIs DEF LiteInv, LiteSafe, Kept, Running
    <2>2. response.ANSWERED
      BY <2>1, WholeIs DEF Kept
    <2>3. response.phase = "returned"
      BY <2>1, <2>2, WholeIs DEF Phased, LiteResponses
    <2> QED BY <2>1, <2>2, <2>3
  <1>2. /\ Whole0'.answer = This' /\ Whole0'.response = response /\ Whole0'.request = request
        /\ Whole0'.chain = chain /\ Whole0'.later = later /\ DOMAIN Whole0' = Parts
        /\ route' = route /\ Whole0'.ticks = ticks /\ Whole0'.heard = heard
    BY DEF liteVars, Whole0, Parts
  <1>3. This' \in AnswerSet /\ Sound(This')
    BY DEF Answers0, Sound, Flowing
  <1>4. Kept(Whole0)'
    BY <1>1, <1>2, <1>3, WholeIs DEF Kept, Handler, Sound, Flowing, Idle
  <1>5. Phased(Whole0)'
    BY <1>1, <1>2, WholeIs DEF Phased, Asleep, Handler
  <1>6. (route \in RouteType)'
    BY <1>1, <1>2 DEF RouteType
  <1>7. PICK w : w = Whole0'
    OBVIOUS
  <1>8. /\ w.answer = This' /\ w.response = response /\ w.request = request
        /\ w.ticks = ticks /\ w.heard = heard
    BY <1>2, <1>7
  <1>9. Told(Whole0) /\ Sound(This)
    BY WholeIs DEF LiteInv, LiteSafe, Kept
  <1>10. Told(w)
    <2>1. CASE Steady(This, This')
      BY <1>8, <1>9, <2>1, WholeIs, AlikeTold DEF Alike
    <2>2. CASE Flowing(This) /\ ticks = <<>> /\ IsLast(This, This')
      <3>1. /\ uws.over = "no" /\ uws.guarded /\ ~stream.done /\ ~uws.aborted
            /\ ~response.reopened => heard.close # 1
        BY <1>9, <2>2, WholeIs, ThisIs DEF Sound, Told, InStep, HeardRight
      <3>2. /\ This'.uws.over # "no" /\ This'.uws.guarded /\ This'.stream.closing
            /\ ~Flowing(This') /\ (This'.stream.phase = "read" => This'.uws.over = "ended")
        BY <2>2, <3>1, ThisIs DEF IsLast, Flowing
      <3>3. InStep(This')
        BY <3>2 DEF InStep
      <3>4. HeardRight(w)
        BY <1>8, <1>9, <2>2, <3>1, <3>2, WholeIs DEF Told, HeardRight
      <3>5. BodyRight(w)
        BY <1>8, <3>2 DEF BodyRight
      <3> QED BY <1>1, <1>8, <3>2, <3>3, <3>4, <3>5 DEF Told
    <2>3. CASE /\ pool # 0 /\ ~Flowing(This) /\ stream' = stream /\ uws'.guarded = uws.guarded
               /\ IF uws.aborted THEN uws' = uws ELSE uws'.over = "ended"
      <3>1. /\ This'.stream = stream /\ This'.uws = uws' /\ This.stream = stream /\ This.uws = uws
        BY <2>3 DEF This
      <3>2. InStep(This) /\ HeardRight(Whole0) /\ BodyRight(Whole0)
        BY <1>9, WholeIs DEF Told
      <3>3. InStep(This') /\ ~Flowing(This') /\ This'.uws.over # "no"
        BY <2>3, <3>1, <3>2 DEF InStep, Flowing
      <3>4. HeardRight(w)
        BY <1>8, <2>3, <3>1, <3>2, <3>3, WholeIs DEF HeardRight
      <3>5. BodyRight(w)
        BY <1>8, <2>3, <3>1, <3>2, WholeIs DEF BodyRight
      <3> QED BY <1>1, <1>8, <3>3, <3>4, <3>5 DEF Told
    <2> QED BY <2>1, <2>2, <2>3
  <1>11. Told(Whole0)'
    BY <1>2, <1>7, <1>8, <1>10 DEF Told, InStep, HeardRight, BodyRight, Flowing, Underway
  <1> QED BY <1>4, <1>5, <1>6, <1>11 DEF LiteInv, LiteSafe

LEMMA Lite_Flow == ASSUME LiteInv, Flow \/ Native PROVE LiteInv'
  <1>1. Answers0 /\ ~Running /\ UNCHANGED liteVars
    BY WholeIs DEF LiteInv, LiteSafe, Kept, Flow, Native, Quiet, Running, Answers0
  <1>2. CASE Flow
    <2>1. CASE \E full \in BOOLEAN : StreamData(full)
      <3>1. Answers0' /\ ~Idle(This) /\ Steady(This, This')
        BY <1>1, <2>1, DataSound
      <3> QED BY <1>1, <3>1, AnsweredFlows
    <2>2. CASE StreamEnd \/ StreamError
      <3>1. Answers0' /\ ~Idle(This) /\ IsLast(This, This')
        BY <1>1, <2>2, EndSound, ErrorSound
      <3>2. Flowing(This) /\ ticks = <<>>
        BY <1>2, <2>2, ThisIs DEF Flow, StreamEnd, StreamError, Flowing
      <3> QED BY <1>1, <3>1, <3>2, AnsweredFlows
    <2> QED BY <1>2, <2>1, <2>2 DEF Flow
  <1>3. CASE Native /\ PoolAnswers
    <2>1. /\ Answers0' /\ ~Idle(This) /\ stream' = stream /\ uws'.guarded = uws.guarded
          /\ IF uws.aborted THEN uws' = uws ELSE uws'.over = "ended"
      BY <1>1, <1>3, PoolSound
    <2>2. pool # 0 /\ ~Flowing(This)
      BY <1>1, <1>3, ThisIs DEF PoolAnswers, Answers0, Sound
    <2> QED BY <1>1, <2>1, <2>2, AnsweredFlows
  <1>4. CASE Native /\ Writable
    <2>1. /\ Answers0' /\ uws' = [uws EXCEPT !.waits = FALSE] /\ pool' = pool
          /\ stream'.phase = stream.phase /\ stream'.closing = stream.closing
          /\ Steady(This, This')
      BY <1>1, <1>4, WritableSound
    <2>2. /\ uws \in UwsType /\ Kept(Whole0) /\ Phased(Whole0) /\ route \in RouteType
      BY <1>1, ThisIs DEF Answers0, AnswerSet, LiteInv, LiteSafe
    <2>3. /\ uws'.over = uws.over /\ uws'.listener = uws.listener /\ uws'.guarded = uws.guarded
          /\ uws'.stack = uws.stack
      BY <2>1, <2>2 DEF UwsType
    <2>4. /\ Whole0'.answer = This' /\ Whole0'.response = response /\ Whole0'.request = request
          /\ Whole0'.chain = chain /\ Whole0'.later = later /\ DOMAIN Whole0' = Parts
          /\ route' = route /\ Whole0'.ticks = ticks /\ Whole0'.heard = heard
      BY <1>1 DEF liteVars, Whole0, Parts
    <2>5. /\ This' \in AnswerSet /\ Sound(This') /\ This'.uws = uws' /\ (Idle(This) => Idle(This'))
      BY <2>1 DEF Answers0, Sound, Flowing, Idle, This
    <2>6. Kept(Whole0)'
      BY <2>2, <2>3, <2>4, <2>5, WholeIs, ThisIs DEF Kept, Handler, Sound, Flowing, Idle
    <2>7. Phased(Whole0)'
      BY <2>2, <2>3, <2>4, <2>5, WholeIs, ThisIs DEF Phased, Asleep, Handler
    <2>8. (route \in RouteType)'
      BY <2>2, <2>4 DEF RouteType
    <2>9. PICK w : w = Whole0'
      OBVIOUS
    <2>10. Told(w)
      <3>1. /\ w.answer = This' /\ w.response = response /\ w.request = request
            /\ w.ticks = ticks /\ w.heard = heard
        BY <2>4, <2>9
      <3>2. Told(Whole0)
        BY DEF LiteInv, LiteSafe
      <3> QED BY <2>1, <3>1, <3>2, WholeIs, AlikeTold DEF Alike
    <2>11. Told(Whole0)'
      BY <2>4, <2>9, <2>10 DEF Told, InStep, HeardRight, BodyRight, Flowing, Underway
    <2> QED BY <2>6, <2>7, <2>8, <2>11 DEF LiteInv, LiteSafe
  <1> QED BY <1>2, <1>3, <1>4 DEF Native

\* dropBody().
LEMMA DropSafe ==
  ASSUME NEW s, Kept(s), Phased(s)
  PROVE  LET w == Drop(s) IN
         /\ Kept(w) /\ Phased(w) /\ w.answer = s.answer /\ w.response = s.response
         /\ w.ticks = s.ticks /\ w.heard = s.heard
         /\ route.body = "stream" => w.request.ended \/ w.request.destroyed
  <1>1. /\ DOMAIN s = Parts /\ s.response \in LiteResponses
        /\ {"held", "paused", "ended", "destroyed"} \subseteq DOMAIN s.request
    BY DEF Kept
  <1> DEFINE w == Drop(s)
             on == s.request.destroyed \/ (route.body = "stream" /\ ~s.request.ended)
  <1>2. w = [s EXCEPT !.request = [s.request EXCEPT !.destroyed = on]]
    BY <1>1 DEF Drop, Parts
  <1> HIDE DEF on
  <1>3. /\ DOMAIN w = Parts /\ w.answer = s.answer /\ w.response = s.response
        /\ w.chain = s.chain /\ w.later = s.later /\ w.ticks = s.ticks /\ w.heard = s.heard
        /\ w.request = [s.request EXCEPT !.destroyed = on]
    BY <1>1, <1>2 DEF Parts
  <1> HIDE DEF w
  <1>4. /\ {"held", "paused", "ended", "destroyed"} \subseteq DOMAIN w.request /\ w.request.held = s.request.held
        /\ w.request.paused = s.request.paused
        /\ w.request.ended = s.request.ended /\ w.request.destroyed = on
    BY <1>1, <1>3
  <1>5. Kept(w) /\ Phased(w)
    BY <1>1, <1>3, <1>4, AlikeSafe
  <1>6. route.body = "stream" => w.request.ended \/ w.request.destroyed
    BY <1>4 DEF on
  <1> QED BY <1>3, <1>5, <1>6 DEF w

\* A client that is known to have left.
LEMMA LeftSafe ==
  ASSUME NEW s, Kept(s), Phased(s), s.response.phase \notin {"new", "collecting"},
         NEW w, DOMAIN w = Parts, w.answer = s.answer,
         w.response = [s.response EXCEPT !.ABORTED = TRUE],
         w.request = s.request, w.chain = s.chain, w.later = s.later
  PROVE  Kept(w) /\ Phased(w)
  <1>1. /\ w.response \in LiteResponses /\ w.response.ABORTED
        /\ w.response.phase = s.response.phase /\ w.response.ANSWERED = s.response.ANSWERED
        /\ w.response.LATE = s.response.LATE
    BY DEF Kept, LiteResponses
  <1>2. Kept(w)
    BY <1>1 DEF Kept
  <1>3. Phased(w)
    BY <1>1 DEF Phased, Asleep
  <1> QED BY <1>2, <1>3

LEMMA Lite_StreamClosed == ASSUME LiteInv, StreamClosed PROVE LiteInv'
  <1>1. /\ LiteSafe(Whole0) /\ Kept(Whole0) /\ Phased(Whole0) /\ route \in RouteType
        /\ chain.frames = <<>> /\ stream.closing /\ This \in AnswerSet /\ Sound(This)
        /\ stream \in StreamSet /\ uws \in UwsType /\ response \in LiteResponses
        /\ Told(Whole0) /\ ticks = <<>>
    BY WholeIs, ThisIs DEF LiteInv, LiteSafe, Kept, AnswerSet, StreamClosed, Running
  <1>2. response.ANSWERED /\ response.phase = "returned"
    <2>1. response.ANSWERED
      BY <1>1, WholeIs, ThisIs DEF Kept, Idle
    <2> QED BY <1>1, <2>1, WholeIs DEF Phased, LiteResponses
  <1> DEFINE s == [Whole0 EXCEPT !.answer.stream.closing = FALSE, !.heard.close = @ + 1]
             v == [stream EXCEPT !.closing = FALSE]
             b == With(This, uws, v)
             taken == [s EXCEPT !.heard.finish = @ + 1]
             left == [s EXCEPT !.response.ABORTED = TRUE]
  <1>3. /\ v \in StreamSet /\ v.phase = stream.phase /\ v.headed = stream.headed
        /\ v.done = stream.done /\ ~v.closing
    BY <1>1 DEF StreamSet
  <1>12. PICK h : h = [heard EXCEPT !.close = @ + 1]
    OBVIOUS
  <1>4. /\ DOMAIN s = Parts /\ s.answer = b /\ s.response = response /\ s.request = request
        /\ s.chain = chain /\ s.later = later /\ s.ticks = <<>>
        /\ s.heard = [heard EXCEPT !.close = @ + 1]
    BY <1>1, WholeIs, ThisIs DEF Parts, With, This
  <1>5. Settles(IF stream.phase = "read" THEN taken ELSE Drop(left))
    BY DEF StreamClosed
  <1> HIDE DEF s, v
  <1>6. b \in AnswerSet /\ b.uws = uws /\ b.stream = v /\ b.pool = pool /\ b.wire = wire
    BY <1>1, <1>3, WithIs, ThisIs
  <1> HIDE DEF b
  <1>11. Written(b)
    BY <1>1, <1>3, <1>6, ThisIs DEF Sound, Written
  <1>7. Sound(b)
    BY <1>1, <1>3, <1>6, <1>11, ThisIs DEF Sound, Flowing
  <1>8. Kept(s) /\ Phased(s)
    <2>1. Kept(s)
      BY <1>1, <1>2, <1>4, <1>6, <1>7, WholeIs DEF Kept
    <2>2. Phased(s)
      BY <1>1, <1>2, <1>4, WholeIs DEF Phased, Asleep
    <2> QED BY <2>1, <2>2
  <1>13. /\ ~Flowing(b) /\ ~b.stream.closing /\ b.stream.phase = stream.phase /\ InStep(b)
         /\ stream.phase = "read" => uws.over = "ended"
         /\ ~response.reopened => heard.close = 0
         /\ heard \in [finish : Nat, close : Nat] /\ heard.finish <= heard.close
         /\ heard.finish > 0 => uws.over = "ended" \/ uws.guarded
    BY <1>1, <1>3, <1>6, WholeIs, ThisIs DEF Told, InStep, HeardRight, Flowing
  <1>14. h \in [finish : Nat, close : Nat] /\ h.close = heard.close + 1 /\ h.finish = heard.finish
    BY <1>12, <1>13
  <1>15. uws.over = "no" => pool # 0 /\ stream.phase = "none"
    BY <1>1, <1>2, <1>3, <1>6, <1>13, WholeIs, ThisIs DEF Told, Flowing
  <1>9. stream.phase = "read" => LiteSafe(taken)
    <2>1. /\ DOMAIN taken = Parts /\ taken.answer = s.answer /\ taken.response = s.response
          /\ taken.request = s.request /\ taken.chain = s.chain /\ taken.later = s.later
          /\ taken.ticks = s.ticks /\ taken.heard = [s.heard EXCEPT !.finish = @ + 1]
      BY <1>4 DEF Parts
    <2> HIDE DEF taken
    <2>2. Kept(taken) /\ Phased(taken)
      BY <1>4, <1>8, <2>1, AlikeSafe DEF Kept
    <2>3. SUFFICES ASSUME stream.phase = "read" PROVE Told(taken)
      BY <2>2 DEF LiteSafe
    <2>4. taken.heard = [h EXCEPT !.finish = @ + 1]
      BY <1>4, <1>12, <2>1
    <2>5. /\ taken.heard \in [finish : Nat, close : Nat]
          /\ taken.heard.close = heard.close + 1 /\ taken.heard.finish = heard.finish + 1
          /\ heard.close \in Nat /\ heard.finish \in Nat
      BY <1>13, <1>14, <2>4
    <2>6. HeardRight(taken)
      BY <1>2, <1>4, <1>6, <1>13, <2>1, <2>3, <2>5 DEF HeardRight
    <2>7. BodyRight(taken)
      BY <1>4, <1>6, <1>13, <2>1, <2>3 DEF BodyRight
    <2> QED BY <1>2, <1>4, <1>6, <1>13, <2>1, <2>3, <2>6, <2>7 DEF Told
  <1>10. LiteSafe(Drop(left))
    <2>1. /\ DOMAIN left = Parts /\ left.answer = s.answer
          /\ left.response = [s.response EXCEPT !.ABORTED = TRUE]
          /\ left.request = s.request /\ left.chain = s.chain /\ left.later = s.later
          /\ left.ticks = s.ticks /\ left.heard = s.heard
      BY <1>4 DEF Parts
    <2> HIDE DEF left
    <2>2. Kept(left) /\ Phased(left)
      BY <1>2, <1>4, <1>8, <2>1, LeftSafe
    <2> DEFINE w == Drop(left)
    <2>3. /\ Kept(w) /\ Phased(w) /\ w.answer = b /\ w.response = left.response
          /\ w.ticks = <<>> /\ w.heard = h
          /\ route.body = "stream" => w.request.ended \/ w.request.destroyed
      BY <1>4, <1>12, <2>1, <2>2, DropSafe
    <2> HIDE DEF w
    <2>4. w.response.ANSWERED /\ w.response.ABORTED /\ w.response.reopened = response.reopened
      BY <1>1, <1>2, <1>4, <2>1, <2>3 DEF LiteResponses
    <2>5. HeardRight(w)
      BY <1>6, <1>13, <1>14, <2>3, <2>4 DEF HeardRight
    <2>6. BodyRight(w)
      BY <2>3 DEF BodyRight
    <2>7. Told(w)
      BY <1>6, <1>13, <1>15, <2>3, <2>4, <2>5, <2>6 DEF Told
    <2> QED BY <2>3, <2>7 DEF LiteSafe, w
  <1> QED BY <1>1, <1>5, <1>9, <1>10, SettlesSafe

LEMMA Lite_Abort == ASSUME LiteInv, Abort PROVE LiteInv'
  <1>1. /\ LiteSafe(Whole0) /\ Kept(Whole0) /\ Phased(Whole0) /\ route \in RouteType
        /\ chain.frames = <<>> /\ This \in AnswerSet /\ Sound(This) /\ uws \in UwsType
        /\ response \in LiteResponses /\ response.phase # "new" /\ uws.over = "no"
        /\ stream.phase # "failed" /\ ticks = <<>> /\ ~stream.closing /\ Told(Whole0)
    BY WholeIs, ThisIs DEF LiteInv, LiteSafe, Kept, AnswerSet, Abort, Quiet
  <1> DEFINE a == Aborted(This)
             s == [Whole0 EXCEPT !.answer = a]
             left == [s EXCEPT !.response.ABORTED = TRUE,
                         !.heard.close = IF response.bus THEN @ + 1 ELSE @]
  <1>2. /\ a \in AnswerSet /\ Sound(a) /\ (Idle(This) => Idle(a))
        /\ a.uws = [uws EXCEPT !.over = "aborted", !.aborted = (@ \/ uws.listener = "guard")]
        /\ ~Flowing(a) /\ a.pool = pool
        /\ IF Flowing(This) THEN a.stream.closing /\ a.stream.phase = "destroyed"
           ELSE a.stream = stream
    BY <1>1, AbortTold, ThisIs
  <1>3. Settles(IF uws.listener = "lite" THEN Drop(left) ELSE s)
    BY WholeIs DEF Abort
  <1> HIDE DEF a
  <1>4. /\ DOMAIN s = Parts /\ s.answer = a /\ s.response = response /\ s.request = request
        /\ s.chain = chain /\ s.later = later /\ s.ticks = <<>> /\ s.heard = heard
    BY <1>1, WholeIs DEF Parts
  <1>5. /\ DOMAIN left = Parts /\ left.answer = a /\ left.request = request
        /\ left.chain = chain /\ left.later = later
        /\ left.response = [response EXCEPT !.ABORTED = TRUE] /\ left.ticks = <<>>
        /\ left.heard = [heard EXCEPT !.close = IF response.bus THEN @ + 1 ELSE @]
    BY <1>4 DEF Parts
  <1> HIDE DEF s, left
  <1>6. /\ a.uws.over = "aborted" /\ a.uws.listener = uws.listener
        /\ a.uws.guarded = uws.guarded /\ a.uws.stack = uws.stack
    BY <1>1, <1>2 DEF UwsType
  <1>9. ~response.ANSWERED => Idle(a) /\ ~a.uws.guarded /\ a.uws.over # "ended"
    <2>1. ~response.ANSWERED => Idle(This) /\ ~uws.guarded
      BY <1>1, WholeIs, ThisIs DEF Kept
    <2> QED BY <1>2, <1>6, <2>1
  <1>10. a \in AnswerSet /\ Sound(a)
    BY <1>2
  <1>11. /\ {"held", "paused", "ended", "destroyed"} \subseteq DOMAIN request
         /\ "frames" \in DOMAIN chain /\ chain.frames \in Seq(Frames) /\ later \subseteq Nat
         /\ HandlerOnly(route.use, chain.frames, later)
    BY <1>1, WholeIs DEF Kept
  <1>12. InStep(a)
    BY <1>1, <1>2, <1>6, WholeIs, ThisIs DEF Told, InStep
  <1>13. /\ heard \in [finish : Nat, close : Nat] /\ heard.finish <= heard.close
         /\ heard.finish > 0 => uws.guarded
         /\ response.ANSWERED => Flowing(This) \/ (pool # 0 /\ stream.phase = "none")
         /\ ~response.ANSWERED => ~response.ABORTED
         /\ ~response.reopened => /\ heard.close \in {0, 1}
                                  /\ heard.close = 1 => ~Flowing(This)
                                  /\ heard.close = 1 => response.ANSWERED \/ response.ABORTED
    BY <1>1, WholeIs, ThisIs DEF Told, HeardRight
  <1>7. CASE uws.listener # "lite"
    <2>1. Kept(s)
      BY <1>1, <1>4, <1>9, <1>10, <1>11 DEF Kept
    <2>2. Phased(s)
      BY <1>1, <1>4, <1>6, <1>7, WholeIs, ThisIs DEF Phased, Asleep
    <2>6. ~response.reopened => heard.close <= 1 /\ (heard.close = 1 => ~a.stream.closing)
      BY <1>1, <1>2, <1>13
    <2>3. HeardRight(s)
      BY <1>2, <1>4, <1>6, <1>13, <2>6 DEF HeardRight
    <2>4. BodyRight(s)
      <3>1. response.phase \in Underway => response.ANSWERED
        BY <1>1, <1>7, <1>13, WholeIs, ThisIs DEF Phased, Underway
      <3> QED BY <1>2, <1>4, <1>13, <3>1 DEF BodyRight, Flowing
    <2>5. Told(s)
      BY <1>4, <1>6, <1>12, <2>3, <2>4 DEF Told
    <2> QED BY <1>1, <1>3, <1>7, <2>1, <2>2, <2>5, SettlesSafe DEF LiteSafe
  <1>8. CASE uws.listener = "lite"
    <2>1. /\ left.response \in LiteResponses /\ left.response.ABORTED
          /\ left.response.phase = response.phase /\ left.response.LATE = response.LATE
          /\ left.response.ANSWERED = response.ANSWERED
          /\ left.response.reopened = response.reopened
      BY <1>1, <1>5 DEF LiteResponses
    <2>2. Kept(left)
      BY <1>5, <1>9, <1>10, <1>11, <2>1 DEF Kept
    <2>3. response.phase = "returned"
      BY <1>1, <1>8, WholeIs, ThisIs DEF Phased, LiteResponses
    <2>4. Phased(left)
      BY <1>1, <1>5, <2>1, <2>3, WholeIs DEF Phased, Asleep
    <2> DEFINE w == Drop(left)
    <2>6. /\ Kept(w) /\ Phased(w) /\ w.answer = a /\ w.response = left.response
          /\ w.ticks = <<>> /\ w.heard = left.heard
          /\ route.body = "stream" => w.request.ended \/ w.request.destroyed
      BY <1>5, <2>2, <2>4, DropSafe
    <2> HIDE DEF w
    <2>7. ~response.ANSWERED
      <3>1. ~uws.aborted
        BY <1>1, WholeIs, ThisIs DEF Told, InStep
      <3> QED BY <1>1, <1>8, <1>13, <3>1, ThisIs DEF Sound
    <2>8. a.stream = stream /\ ~Flowing(a)
      BY <1>1, <1>2, <2>7, WholeIs DEF Kept, Idle, Flowing
    <2>9. /\ w.heard \in [finish : Nat, close : Nat] /\ w.heard.finish = heard.finish
          /\ w.heard.close \in {heard.close, heard.close + 1} /\ heard.close \in Nat
      <3>1. PICK n \in Nat : n = IF response.bus THEN heard.close + 1 ELSE heard.close
        BY <1>13
      <3>2. w.heard = [heard EXCEPT !.close = n]
        BY <1>5, <1>13, <2>6, <3>1
      <3> QED BY <1>13, <3>1, <3>2
    <2>10. HeardRight(w)
      BY <1>1, <1>6, <1>13, <2>1, <2>6, <2>7, <2>8, <2>9 DEF HeardRight
    <2>11. BodyRight(w)
      BY <2>6 DEF BodyRight
    <2>12. Told(w)
      BY <1>6, <1>12, <2>6, <2>10, <2>11 DEF Told
    <2>5. LiteSafe(Drop(left))
      BY <2>6, <2>12 DEF LiteSafe, w
    <2> QED BY <1>1, <1>3, <1>8, <2>5, SettlesSafe
  <1> QED BY <1>7, <1>8

\* The middleware, or the handler, is called in uWS's callback.
LEMMA StartSafe ==
  ASSUME NEW s, Kept(s), s.chain.frames = <<>>, ~s.response.ANSWERED, ~s.response.ABORTED,
         s.answer.uws.over = "no", s.answer.uws.stack, Told(s), route \in RouteType,
         Uses \subseteq Seq(STRING)
  PROVE  LiteSafe(Start(s))
  <1> DEFINE t == [s EXCEPT !.response.phase = "called"]
             r == [s.response EXCEPT !.phase = "called"]
             w == Start(s)
  <1>1. /\ DOMAIN s = Parts /\ s.response \in LiteResponses
    BY DEF Kept
  <1>2. /\ DOMAIN t = Parts /\ t.answer = s.answer /\ t.response = r /\ t.request = s.request
        /\ t.chain = s.chain /\ t.later = s.later
        /\ t.ticks = s.ticks /\ t.heard = s.heard
    BY <1>1 DEF Parts
  <1>3. /\ r \in LiteResponses /\ r.phase = "called" /\ ~r.ANSWERED /\ ~r.ABORTED
        /\ r.reopened = s.response.reopened /\ r.ANSWERED = s.response.ANSWERED
        /\ r.ABORTED = s.response.ABORTED
    BY <1>1 DEF LiteResponses
  <1>4. w = IF route.use = <<>> THEN Push(t, Handler, TRUE) ELSE CallNext(t, FALSE)
    BY DEF Start
  <1> HIDE DEF t, r
  <1>5. Kept(t) /\ Answerable(t)
    BY <1>2, <1>3 DEF Kept, Answerable
  <1>6. Called(t, w) /\ (route.use = <<>> => w.chain.frames = <<[code |-> Handler, sync |-> TRUE]>>)
    <2>1. CASE route.use = <<>>
      <3> DEFINE f == [code |-> Handler, sync |-> TRUE]
      <3>1. w = Push(t, Handler, TRUE)
        BY <1>4, <2>1
      <3> HIDE DEF w
      <3>2. Called(t, w) /\ w.chain.frames = Append(t.chain.frames, f)
        BY <1>5, <3>1, PushCalls DEF Handler
      <3>3. Append(<<>>, f) = <<f>>
        OBVIOUS
      <3> QED BY <1>2, <3>2, <3>3
    <2>2. CASE route.use # <<>>
      <3>1. w = CallNext(t, FALSE)
        BY <1>4, <2>2
      <3> HIDE DEF w
      <3> QED BY <1>2, <1>3, <1>5, <2>2, <3>1, CallNextCalls
    <2> QED BY <2>1, <2>2
  <1> HIDE DEF w
  <1>7. PICK f \in Frames : w.chain.frames = Append(<<>>, f)
    BY <1>2, <1>6 DEF Called
  <1>8. w.chain.frames # <<>>
    BY <1>7
  <1>9. Phased(w)
    BY <1>2, <1>3, <1>6, <1>8 DEF Phased, Called
  <1>10. Told(w)
    <2>1. Alike(s, w)
      BY <1>2, <1>3, <1>6 DEF Called, Alike, Steady
    <2> QED BY <2>1, AlikeTold
  <1> QED BY <1>6, <1>9, <1>10 DEF LiteSafe, Called, w

\* A refusal before the route's code is called.
LEMMA RefuseSafe ==
  ASSUME NEW s, Kept(s), Asleep(s), ~s.response.ANSWERED,
         s.answer.uws.over = "no", s.answer.uws.stack, Told(s), route \in RouteType,
         NEW status \in Nat \ {0}
  PROVE  LiteSafe(Bare(Refuse(s, status)))
  <1> DEFINE t == Refuse(s, status)
  <1>1. Settled(s, t)
    BY FinishSettles DEF Refuse, Answerable, Sizes
  <1> HIDE DEF t
  <1>2. /\ Kept(t) /\ Asleep(t) /\ t.response.ANSWERED /\ t.chain.frames = <<>>
        /\ Told(t) /\ t.answer.stream.phase = "none"
    BY <1>1 DEF Settled, Asleep, Kept, LiteResponses
  <1>3. Bare(t) = [t EXCEPT !.response.phase = "returned", !.answer.uws.stack = FALSE]
    BY <1>2 DEF Bare
  <1>4. LiteSafe(Bare(t))
    BY <1>2, <1>3, CallbackOver
  <1> QED BY <1>4 DEF t

LEMMA Lite_Receive ==
  ASSUME LiteInv, Receive, Uses \subseteq Seq(STRING)
  PROVE  LiteInv'
  <1>1. /\ Kept(Whole0) /\ Asleep(Whole0) /\ route \in RouteType /\ ~response.ANSWERED
        /\ ~response.ABORTED /\ uws.over = "no" /\ This \in AnswerSet /\ Sound(This)
        /\ uws \in UwsType /\ response \in LiteResponses /\ ~request.paused
        /\ {"held", "paused", "ended", "destroyed"} \subseteq DOMAIN request /\ Idle(This) /\ ~uws.guarded
        /\ Told(Whole0)
    BY WholeIs, ThisIs DEF LiteInv, LiteSafe, Kept, Phased, Receive, AnswerSet
  <1> DEFINE s == [Whole0 EXCEPT !.answer.uws.stack = TRUE, !.request.held = TRUE]
             a == OnStack(This, TRUE)
             q == [request EXCEPT !.held = TRUE]
             json == [s EXCEPT !.request.held = FALSE, !.response.phase = "collecting",
                         !.answer = OnAborted([@ EXCEPT !.uws.stack = FALSE], "ignored")]
  <1>2. \E decodes \in BOOLEAN :
           Settles(CASE ~decodes -> Bare(Refuse(s, 400))
                     [] decodes /\ route.body = "json" -> json
                     [] OTHER -> Start(s))
    BY DEF Receive
  <1>3. /\ DOMAIN s = Parts /\ s.answer = a /\ s.response = response /\ s.request = q
        /\ s.chain = chain /\ s.later = later /\ s.ticks = ticks /\ s.heard = heard
    BY WholeIs DEF Parts, OnStack
  <1>4. Settles(Bare(Refuse(s, 400))) \/ Settles(json) \/ Settles(Start(s))
    <2>1. PICK decodes \in BOOLEAN :
           Settles(CASE ~decodes -> Bare(Refuse(s, 400))
                     [] decodes /\ route.body = "json" -> json
                     [] OTHER -> Start(s))
      BY <1>2
    <2> HIDE DEF s, json
    <2> QED BY <2>1
  <1>5. /\ a \in AnswerSet /\ a.uws = [uws EXCEPT !.stack = TRUE] /\ Sound(a) /\ Idle(a)
    BY <1>1, StackIs, ThisIs
  <1>6. /\ {"held", "paused", "ended", "destroyed"} \subseteq DOMAIN q /\ q.paused = request.paused
        /\ q.ended = request.ended /\ q.destroyed = request.destroyed
    BY <1>1
  <1>12. a.stream = stream /\ a.pool = pool
    BY <1>1, StackIs, ThisIs
  <1> HIDE DEF s, a, q
  <1>7. /\ a.uws \in UwsType /\ a.uws.over = "no" /\ a.uws.stack /\ ~a.uws.guarded
        /\ a.uws.aborted = uws.aborted /\ a.uws.guarded = uws.guarded
    BY <1>1, <1>5 DEF UwsType
  <1>13. Steady(This, a) /\ Told(s)
    <2>1. Steady(This, a)
      BY <1>1, <1>7, <1>12, ThisIs DEF Steady
    <2> QED BY <1>1, <1>3, <1>6, <2>1, WholeIs, ThisIs, AlikeTold DEF Alike
  <1>8. Kept(s) /\ Asleep(s)
    BY <1>1, <1>3, <1>5, <1>6, <1>7, WholeIs DEF Kept, Asleep
  <1>9. LiteSafe(Bare(Refuse(s, 400)))
    BY <1>1, <1>3, <1>7, <1>8, <1>13, RefuseSafe
  <1>10. LiteSafe(Start(s))
    BY <1>1, <1>3, <1>7, <1>8, <1>13, StartSafe DEF Asleep
  <1>11. LiteSafe(json)
    <2> DEFINE b == OnStack(a, FALSE)
               o == OnAborted(b, "ignored")
               r == [response EXCEPT !.phase = "collecting"]
               p == [q EXCEPT !.held = FALSE]
    <2>1. /\ DOMAIN json = Parts /\ json.answer = o /\ json.response = r /\ json.request = p
          /\ json.chain = chain /\ json.later = later
          /\ json.ticks = ticks /\ json.heard = heard
      BY <1>3 DEF Parts, OnStack
    <2>2. /\ b \in AnswerSet /\ b.uws = [a.uws EXCEPT !.stack = FALSE] /\ Sound(b) /\ Idle(b)
          /\ b.stream = stream /\ b.pool = pool
      BY <1>5, <1>12, StackIs
    <2> HIDE DEF b, json
    <2>3. /\ b.uws \in UwsType /\ b.uws.over = "no" /\ ~b.uws.guarded
          /\ b.uws.aborted = uws.aborted /\ b.uws.guarded = uws.guarded
      BY <1>7, <2>2 DEF UwsType
    <2>4. /\ o \in AnswerSet /\ o.uws = [b.uws EXCEPT !.listener = "ignored"]
          /\ o.stream = b.stream /\ o.pool = b.pool /\ o.wire = b.wire
      BY <2>2, <2>3, Listened DEF Listeners
    <2> HIDE DEF o
    <2>5. /\ o.uws.over = "no" /\ ~o.uws.guarded /\ o.uws.listener = "ignored"
          /\ o.uws.faults = b.uws.faults /\ o.uws.aborted = uws.aborted
          /\ o.uws.guarded = uws.guarded
      BY <2>3, <2>4 DEF UwsType
    <2>11. Written(o)
      BY <2>2, <2>3, <2>4, <2>5 DEF Sound, Written
    <2>6. Sound(o) /\ Idle(o)
      BY <2>2, <2>4, <2>5, <2>11 DEF Sound, Idle, Flowing
    <2>7. r \in LiteResponses /\ r.phase = "collecting" /\ ~r.ANSWERED /\ ~r.ABORTED
          /\ r.reopened = response.reopened /\ r.ANSWERED = response.ANSWERED
          /\ r.ABORTED = response.ABORTED
      BY <1>1 DEF LiteResponses
    <2>8. /\ {"held", "paused", "ended", "destroyed"} \subseteq DOMAIN p /\ ~p.paused
          /\ p.ended = request.ended /\ p.destroyed = request.destroyed
      BY <1>1, <1>6
    <2> HIDE DEF r, p
    <2>9. Kept(json)
      BY <1>1, <2>1, <2>4, <2>5, <2>6, <2>7, <2>8, WholeIs DEF Kept
    <2>10. Phased(json)
      BY <1>1, <2>1, <2>5, <2>7, <2>8, WholeIs DEF Phased, Asleep
    <2>12. Told(json)
      <3>1. Steady(This, o)
        BY <1>1, <2>2, <2>4, <2>5, ThisIs DEF Steady
      <3>2. Alike(Whole0, json)
        BY <1>1, <2>1, <2>7, <2>8, <3>1, WholeIs, ThisIs DEF Alike
      <3> QED BY <1>1, <3>2, AlikeTold
    <2> QED BY <2>9, <2>10, <2>12 DEF LiteSafe
  <1> HIDE DEF json
  <1> QED BY <1>1, <1>4, <1>9, <1>10, <1>11, SettlesSafe

LEMMA Lite_Body ==
  ASSUME LiteInv, Body, Uses \subseteq Seq(STRING)
  PROVE  LiteInv'
  <1>1. /\ Kept(Whole0) /\ Asleep(Whole0) /\ route \in RouteType /\ ~response.ANSWERED
        /\ ~response.ABORTED /\ uws.over = "no" /\ This \in AnswerSet /\ Sound(This)
        /\ uws \in UwsType /\ Idle(This) /\ ~uws.guarded /\ Told(Whole0)
    BY WholeIs, ThisIs DEF LiteInv, LiteSafe, Kept, Phased, Body, AnswerSet
  <1> DEFINE s == [Whole0 EXCEPT !.answer.uws.stack = TRUE]
             a == OnStack(This, TRUE)
  <1>2. PICK code \in {200, 413, 400} :
          Settles(IF code = 200 THEN Start(s) ELSE Bare(Refuse(s, code)))
    BY DEF Body
  <1>3. /\ DOMAIN s = Parts /\ s.answer = a /\ s.response = response /\ s.request = request
        /\ s.chain = chain /\ s.later = later /\ s.ticks = ticks /\ s.heard = heard
    BY WholeIs DEF Parts, OnStack
  <1>4. /\ a \in AnswerSet /\ a.uws = [uws EXCEPT !.stack = TRUE] /\ Sound(a) /\ Idle(a)
        /\ a.stream = stream /\ a.pool = pool
    BY <1>1, StackIs, ThisIs
  <1> HIDE DEF s, a
  <1>5. /\ a.uws.over = "no" /\ a.uws.stack /\ ~a.uws.guarded
        /\ a.uws.aborted = uws.aborted
    BY <1>1, <1>4 DEF UwsType
  <1>9. Told(s)
    <2>1. Steady(This, a)
      BY <1>1, <1>4, <1>5, ThisIs DEF Steady
    <2> QED BY <1>1, <1>3, <2>1, WholeIs, ThisIs, AlikeTold DEF Alike
  <1>6. Kept(s) /\ Asleep(s)
    <2>1. a \in AnswerSet /\ Sound(a) /\ Idle(a)
      BY <1>4
    <2>2. Kept(s)
      BY <1>1, <1>3, <1>5, <2>1, WholeIs DEF Kept
    <2>3. Asleep(s)
      BY <1>1, <1>3, WholeIs DEF Asleep
    <2> QED BY <2>2, <2>3
  <1>7. LiteSafe(Bare(Refuse(s, code)))
    BY <1>1, <1>2, <1>3, <1>5, <1>6, <1>9, RefuseSafe
  <1>8. LiteSafe(Start(s))
    BY <1>1, <1>3, <1>5, <1>6, <1>9, StartSafe DEF Asleep
  <1> QED BY <1>1, <1>2, <1>7, <1>8, SettlesSafe

\* The body as a stream: uWS is told to stop, or to go on, only while it is there.
LEMMA StillThere ==
  ASSUME LiteInv, ~Gone, response.phase = "returned"
  PROVE  uws.over = "no"
  <1>1. /\ Kept(Whole0) /\ Phased(Whole0) /\ This \in AnswerSet /\ Sound(This)
        /\ stream \in StreamSet
    BY WholeIs, ThisIs DEF LiteInv, LiteSafe, Kept, AnswerSet
  <1>2. CASE response.ANSWERED
    <2>1. stream.phase \in {"open", "ended"}
      BY <1>1, <1>2 DEF Gone, StreamSet
    <2> QED BY <1>1, <2>1, ThisIs DEF Sound, Flowing
  <1>3. CASE ~response.ANSWERED
    BY <1>1, <1>3, WholeIs, ThisIs DEF Gone, Phased
  <1> QED BY <1>2, <1>3

\* A step that changes what is held of a request's body, and nothing else.
LEMMA BodyOnly ==
  ASSUME LiteInv, NEW q, {"held", "paused", "ended", "destroyed"} \subseteq DOMAIN q, q.held = request.held,
         q.paused => response.phase = "returned",
         request.ended \/ request.destroyed => q.ended \/ q.destroyed,
         NEW w, DOMAIN w = Parts, w.answer = This, w.response = response, w.request = q,
         w.chain = chain, w.later = later, w.ticks = ticks, w.heard = heard, Settles(w)
  PROVE  LiteInv'
  <1>1. LiteSafe(Whole0) /\ route \in RouteType
    BY DEF LiteInv
  <1>2. Kept(w)
    BY <1>1, WholeIs DEF LiteSafe, Kept
  <1>3. Phased(w)
    BY <1>1, WholeIs DEF LiteSafe, Phased, Asleep
  <1>4. Told(w)
    BY <1>1, WholeIs, AlikeTold DEF LiteSafe, Alike, Steady
  <1> QED BY <1>1, <1>2, <1>3, <1>4, SettlesSafe DEF LiteSafe

LEMMA Lite_BodyPiece == ASSUME LiteInv, BodyPiece PROVE LiteInv'
  <1>1. /\ {"held", "paused", "ended", "destroyed"} \subseteq DOMAIN request /\ response.phase = "returned"
        /\ This \in AnswerSet
    BY WholeIs DEF LiteInv, LiteSafe, Kept, BodyPiece
  <1> DEFINE last == request.coming = 1
             pause(accepted) == ~accepted /\ ~last /\ ~Gone
             s(accepted) == [Whole0 EXCEPT !.request.coming = @ - 1,
                       !.request.buffered = IF request.destroyed THEN @ ELSE @ + 1,
                       !.request.ended = @ \/ (last /\ ~request.destroyed),
                       !.request.paused = pause(accepted)]
  <1>2. PICK accepted \in BOOLEAN :
          Settles(IF pause(accepted) THEN [s(accepted) EXCEPT !.answer = Touched(@)]
                  ELSE s(accepted))
    BY DEF BodyPiece
  <1> DEFINE w == s(accepted)
             q == w.request
             touched == [w EXCEPT !.answer = Touched(This)]
  <1>3. /\ DOMAIN w = Parts /\ w.answer = This /\ w.response = response
        /\ w.chain = chain /\ w.later = later /\ w.ticks = ticks /\ w.heard = heard
        /\ {"held", "paused", "ended", "destroyed"} \subseteq DOMAIN q /\ q.held = request.held
        /\ request.ended \/ request.destroyed => q.ended \/ q.destroyed
    BY <1>1, WholeIs DEF Parts
  <1>4. Settles(IF pause(accepted) THEN touched ELSE w)
    <2>1. [w EXCEPT !.answer = Touched(@)] = touched
      BY <1>3 DEF Parts
    <2> QED BY <1>2, <2>1
  <1>5. pause(accepted) => Touched(This) = This
    BY <1>1, StillThere, Untouched, ThisIs
  <1> HIDE DEF s, pause
  <1>6. Settles(w)
    <2>1. pause(accepted) => touched = w
      <3> SUFFICES ASSUME pause(accepted) PROVE touched = w
        OBVIOUS
      <3>1. w.answer = Touched(This)
        BY <1>3, <1>5
      <3>2. touched = [x \in DOMAIN w |-> w[x]]
        BY <1>3, <3>1 DEF Parts
      <3>3. w = [x \in DOMAIN w |-> w[x]]
        BY DEF s
      <3> QED BY <3>2, <3>3
    <2> QED BY <1>4, <2>1
  <1> HIDE DEF w
  <1> QED BY <1>1, <1>3, <1>6, BodyOnly

LEMMA Lite_BodyRead == ASSUME LiteInv, BodyRead PROVE LiteInv'
  <1>1. /\ {"held", "paused", "ended", "destroyed"} \subseteq DOMAIN request /\ This \in AnswerSet
        /\ request.paused => response.phase = "returned"
    <2>1. /\ Kept(Whole0) /\ Phased(Whole0) /\ chain.frames = <<>> /\ response \in LiteResponses
      BY WholeIs DEF LiteInv, LiteSafe, Kept, BodyRead, Quiet
    <2> QED BY <2>1, WholeIs DEF Kept, Phased, LiteResponses
  <1> DEFINE s == [Whole0 EXCEPT !.request.buffered = @ - 1]
             resumes == request.paused /\ ~Gone
             on == [s EXCEPT !.request.paused = FALSE, !.answer = Touched(@)]
  <1>2. Settles(IF resumes THEN on ELSE s)
    BY DEF BodyRead
  <1>3. /\ DOMAIN s = Parts /\ s.answer = This /\ s.response = response
        /\ s.chain = chain /\ s.later = later /\ s.ticks = ticks /\ s.heard = heard
        /\ {"held", "paused", "ended", "destroyed"} \subseteq DOMAIN s.request /\ s.request.held = request.held
        /\ s.request.paused = request.paused
        /\ s.request.ended = request.ended /\ s.request.destroyed = request.destroyed
    BY <1>1, WholeIs DEF Parts
  <1> HIDE DEF s
  <1>4. CASE ~resumes
    <2>1. Settles(s)
      BY <1>2, <1>4
    <2> QED BY <1>1, <1>3, <2>1, BodyOnly
  <1>5. CASE resumes
    <2>1. Settles(on)
      BY <1>2, <1>5
    <2>2. Touched(This) = This
      BY <1>1, <1>5, StillThere, Untouched, ThisIs
    <2>3. /\ DOMAIN on = Parts /\ on.answer = This /\ on.response = response
          /\ on.chain = chain /\ on.later = later /\ on.ticks = ticks /\ on.heard = heard
          /\ {"held", "paused", "ended", "destroyed"} \subseteq DOMAIN on.request /\ on.request.held = request.held
          /\ ~on.request.paused
          /\ on.request.ended = request.ended /\ on.request.destroyed = request.destroyed
      BY <1>3, <2>2 DEF Parts
    <2> HIDE DEF on
    <2> QED BY <2>1, <2>3, BodyOnly
  <1> QED BY <1>4, <1>5

LEMMA Lite_Init == Init => LiteInv
  <1> SUFFICES ASSUME Init PROVE LiteInv
    OBVIOUS
  <1>1. /\ uws \in UwsType /\ uws.over = "no" /\ ~uws.guarded /\ uws.faults = {}
        /\ uws.listener = "none"
        /\ wire \in WireSet /\ stream \in StreamSet /\ stream.phase = "none" /\ pool = 0
        /\ ~stream.closing /\ ~stream.headed
        /\ wire.heads = 0 /\ wire.pieces = 0 /\ wire.last = "none"
    BY DEF Init, AnswerInit, UwsType, Listeners, WireSet, StreamSet, NoStream
  <1>8. Written(This)
    BY <1>1, ThisIs DEF Written
  <1>9. This \in AnswerSet
    BY <1>1 DEF This, AnswerSet
  <1>2. This \in AnswerSet /\ Sound(This) /\ Idle(This)
    BY <1>1, <1>8, <1>9, ThisIs DEF Sound, Idle, Flowing
  <1>3. /\ response \in LiteResponses /\ response.phase = "new" /\ ~response.ANSWERED
        /\ ~response.ABORTED
    BY DEF Init, LiteResponses
  <1>4. {"held", "paused", "ended", "destroyed"} \subseteq DOMAIN request /\ ~request.paused
    BY DEF Init
  <1>5. /\ "frames" \in DOMAIN chain /\ chain.frames = <<>> /\ later = {}
    BY DEF Init
  <1>6. Kept(Whole0)
    <2>1. <<>> \in Seq(Frames) /\ DOMAIN chain.frames = {}
      BY <1>5, EmptySeq
    <2> QED BY <1>1, <1>2, <1>3, <1>4, <1>5, <2>1, WholeIs, ThisIs DEF Kept, HandlerOnly
  <1>7. Phased(Whole0)
    BY <1>1, <1>3, <1>4, <1>5, WholeIs, ThisIs DEF Phased, Asleep
  <1>10. Told(Whole0)
    <2>1. ~uws.aborted /\ ticks = <<>> /\ heard = [finish |-> 0, close |-> 0]
      BY DEF Init, AnswerInit
    <2>2. InStep(This) /\ ~Flowing(This)
      BY <1>1, <2>1, ThisIs DEF InStep, Flowing
    <2>3. HeardRight(Whole0)
      BY <1>1, <1>3, <2>1, <2>2, WholeIs, ThisIs DEF HeardRight
    <2>4. BodyRight(Whole0)
      BY <1>1, WholeIs, ThisIs DEF BodyRight
    <2> QED BY <1>1, <1>3, <2>2, <2>3, <2>4, WholeIs, ThisIs DEF Told
  <1> QED BY <1>6, <1>7, <1>10 DEF Init, LiteInv, LiteSafe

LEMMA Lite_Step ==
  ASSUME Uses \subseteq Seq(STRING), LiteInv, [Next]_vars
  PROVE  LiteInv'
  <1>1. CASE UNCHANGED vars
    BY <1>1 DEF vars, answerVars, liteVars, LiteInv, LiteSafe, Kept, Phased, Asleep, Whole0, This,
                RouteType, Sound, Idle, Flowing, Handler, Told, InStep, HeardRight, BodyRight,
                Underway
  <1>2. CASE Next
    BY <1>2, Lite_Receive, Lite_Body, Lite_BodyPiece, Lite_BodyRead, Lite_Abort, Lite_Resume,
       Lite_Return, Lite_Throw, Lite_Next, Lite_Quiet, Lite_Answer, Lite_Write, Lite_EndStream,
       Lite_ReadRequest, Lite_StreamClosed, Lite_Flow DEF Next
  <1> QED BY <1>1, <1>2

\* A light route never touches uWS's response once it is over, nor writes without a cork
\* where it counts on one, nor reads uWS's request after its callback, and its client
\* gets one head and an end just when the answer is over (uws-lite.js): whatever its
\* middleware and handler do, and whenever the client leaves.
THEOREM LiteAnswersUwsOnce ==
  ASSUME Uses \subseteq Seq(STRING)
  PROVE  Spec => []UwsAnsweredOnce
  <1>1. LiteInv => UwsAnsweredOnce
    BY SoundAnswered, WholeIs DEF LiteInv, LiteSafe, Kept
  <1>2. LiteInv /\ [Next]_vars => LiteInv'
    BY Lite_Step
  <1> QED BY <1>1, <1>2, Lite_Init, PTL DEF Spec

\* A listener on a light response hears once that it is over, and never that one cut off
\* was finished; a body read as a stream ends or is destroyed (uws-lite.js streamClosed,
\* onAborted, dropBody): whatever the code does, and however many tell of it.
THEOREM LiteToldOnce ==
  ASSUME Uses \subseteq Seq(STRING)
  PROVE  Spec => []ToldOnce
  <1>1. LiteInv => ToldOnce
    <2> SUFFICES ASSUME LiteInv PROVE ToldOnce
      OBVIOUS
    <2>1. HeardRight(Whole0) /\ BodyRight(Whole0)
      BY DEF LiteInv, LiteSafe, Told
    <2>2. OverOnce
      BY <2>1, WholeIs, ThisIs DEF HeardRight, OverOnce
    <2>3. BodyTold
      BY <2>1, WholeIs, ThisIs DEF BodyRight, BodyTold, Quiet, Underway
    <2> QED BY <2>2, <2>3 DEF ToldOnce
  <1>2. LiteInv /\ [Next]_vars => LiteInv'
    BY Lite_Step
  <1> QED BY <1>1, <1>2, Lite_Init, PTL DEF Spec
=============================================================================
