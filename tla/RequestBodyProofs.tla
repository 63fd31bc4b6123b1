------------------------- MODULE RequestBodyProofs -------------------------
(***************************************************************************)
(* The body of a request reaches its parser whole, in order and within its *)
(* limit, and the parser answers once: for every program of parsers,       *)
(* listeners and awaits, every length, framing and coding, over uWS and    *)
(* over node.                                                              *)
(*                                                                         *)
(* The bytes are followed by the places they have come to: `sent` by the   *)
(* client, `Handed` by the transport to whoever registered, `Away` by the  *)
(* Readable to its listeners.  Each sequence of pieces lies between two of *)
(* these places, and a parser that began off a stream knows which byte it  *)
(* missed.                                                                 *)
(***************************************************************************)
EXTENDS RequestBody, DataLemmas

\* Where the transport, and then the Readable, has got to.
Handed == IF held = <<>> THEN sent ELSE held[1].from
Away == IF buffered = <<>> THEN Handed ELSE buffered[1].from

\* A parser is given what comes, and has not answered.
Feeding == handler \in {"parser", "collect"} \/ "parser" \in listeners
Reads == Feeding /\ ~reading.over

\* The bytes that were sent and those the shim holds back.
WireInv ==
    /\ sent <= request.len
    /\ held # <<>> => Len(held) = 1 /\ held[1].upto = sent
    /\ last => sent = request.len /\ held = <<>>
    /\ transport = "uws" \/ handler = "collect" => held = <<>>

\* How a response is over.
OverInv ==
    /\ aborted <=> destroyed
    /\ aborted => finished
    /\ finished => aborted \/ status = "done"

\* Who has the body.
ClaimInv ==
    /\ Declared /\ ~sync /\ ~bodyClaimed => finished
    /\ handler # "none" => bodyClaimed /\ Declared
    /\ bodyClaimed /\ handler = "none" => bodyRead
    /\ Declared /\ bodyRead => bodyClaimed
    /\ Declared /\ receivedData => handler = "stream"
    /\ "parser" \in listeners => Declared /\ receivedData
    /\ Feeding => bodyRead
    /\ ~bodyRead => gathered = <<>> /\ reading = NoReading
    /\ ~receivedData /\ ~bodyRead /\ status # "done" => Handed = 0
    /\ ~receivedData \/ ~Declared => buffered = <<>> /\ heard = <<>>

\* The end of the Readable is the end of the body.
EndInv ==
    /\ emptyBody => ~Declared
    /\ ended /\ Declared => last
    /\ flow # "off" => listeners # {}

\* The Readable's buffer lies between what it gave away and what it was given;
\* what it gave away the program heard, until a parser listens too.
StreamInv ==
    status # "done" /\ handler = "stream" =>
        /\ Chain(buffered, Away, Handed)
        /\ "parser" \notin listeners => Chain(heard, 0, Away)

\* What a reader has kept of the bytes up to n.
Keeps(r, n) ==
    IF Inflates
    THEN r.missed = 0 =>
            Chain(r.kept, 0, Upto(r.kept)) /\ Upto(r.kept) <= n * Expansion
    ELSE Chain(r.kept, r.missed, n)

KeptInv ==
    /\ handler = "collect" =>
          ~Inflates /\ reading.missed = 0 /\ Chain(gathered, 0, sent)
    /\ handler = "parser" =>
          Inflates /\ reading.missed = 0 /\ Keeps(reading, Handed)
    /\ handler = "stream" => Keeps(reading, Away)

\* The parser that reads is the step the program is at; what it has lies within
\* its limit and lacks only what the program heard.
ReadInv ==
    /\ Reads => status = "collecting" /\ reading.at = pc /\ KeptInv
    /\ handler = "collect" => ~reading.over
    /\ reading.at # 0 =>
          /\ reading.at \in 1 .. Len(program) /\ program[reading.at].do = "parse"
          /\ SumSizes(reading.kept) <= program[reading.at].limit
          /\ SumSizes(gathered) <= program[reading.at].limit
    /\ reading.missed > 0 => \E j \in 1 .. Len(heard) : heard[j].upto = reading.missed

\* The body, or what of it the program did not hear before.
WholeOf(got) ==
    \/ Chain(got, 0, Decoded)
    \/ /\ request.framing = "chunked" /\ heard # <<>>
       /\ got # <<>> => Chain(got, got[1].from, Decoded)
       /\ \E j \in 1 .. Len(heard) :
             heard[j].upto = IF got = <<>> THEN Decoded ELSE got[1].from

Right(a) ==
    /\ a.at \in 1 .. Len(program) /\ program[a.at].do = "parse"
    /\ a.is = "parsed" => WholeOf(a.got) /\ SumSizes(a.got) <= program[a.at].limit
    /\ a.is = "413" => Decoded > program[a.at].limit

\* Whether the step the program is at is still to answer.
Owes == status \in {"running", "collecting", "waiting"}

AnswerInv ==
    /\ \A i \in 1 .. Len(answers) :
          Right(answers[i]) /\ answers[i].at <= pc /\ (Owes => answers[i].at < pc)
    /\ AnsweredOnce

\* The types, by what the variables are about.
ReadingType == [at : Nat, kept : Seq(Piece), over : BOOLEAN, missed : Nat]
AnswerType == [is : Verdict, at : Nat, got : Seq(Piece)]

ProgramType ==
    /\ transport \in Transports /\ request \in Requests /\ program \in Programs
    /\ pc \in Nat \ {0}
    /\ status \in {"running", "collecting", "waiting", "refused", "done"}
    /\ answers \in Seq(AnswerType)
    /\ sync \in BOOLEAN /\ finished \in BOOLEAN /\ aborted \in BOOLEAN

FieldType ==
    /\ receivedData \in BOOLEAN /\ complete \in BOOLEAN /\ readable \in BOOLEAN
    /\ bodyRead \in BOOLEAN /\ bodyClaimed \in BOOLEAN /\ emptyBody \in BOOLEAN

StreamType ==
    /\ buffered \in Seq(Piece) /\ heard \in Seq(Piece)
    /\ ended \in BOOLEAN /\ endEmitted \in BOOLEAN /\ destroyed \in BOOLEAN
    /\ flow \in {"off", "booked", "on"} /\ listeners \subseteq {"app", "parser"}

WireType ==
    /\ sent \in Nat /\ last \in BOOLEAN /\ paused \in BOOLEAN
    /\ handler \in {"none", "stream", "parser", "collect"}
    /\ held \in Seq(Piece)

ReaderType == gathered \in Seq(Piece) /\ reading \in ReadingType

Inv ==
    /\ ProgramType /\ FieldType /\ StreamType /\ WireType /\ ReaderType
    /\ WireInv /\ OverInv /\ ClaimInv /\ EndInv
    /\ StreamInv /\ ReadInv /\ AnswerInv

-----------------------------------------------------------------------------
(* The bytes of a sequence of pieces.                                        *)

Sizes(s) == [i \in DOMAIN s |-> Size(s[i])]

LEMMA SizesAre ==
  ASSUME NEW s \in Seq(Piece)
  PROVE  /\ DOMAIN s = 1 .. Len(s) /\ IsFiniteSet(DOMAIN s)
         /\ NatOn(Sizes(s), DOMAIN s)
         /\ SumSizes(s) = SumFunctionOnSet(Sizes(s), DOMAIN s)
         /\ SumSizes(s) \in Nat
  <1>1. DOMAIN s = 1 .. Len(s) /\ IsFiniteSet(DOMAIN s)
    BY FS_Interval
  <1>2. NatOn(Sizes(s), DOMAIN s)
    <2>1. ASSUME NEW i \in DOMAIN s PROVE Sizes(s)[i] \in Nat
      <3>1. s[i] \in Piece
        BY <1>1
      <3> QED BY <3>1, PieceFacts DEF Sizes
    <2> QED BY <2>1 DEF NatOn
  <1>3. SumSizes(s) = SumFunctionOnSet(Sizes(s), DOMAIN s)
    BY DEF SumSizes, Sizes
  <1> QED BY <1>1, <1>2, <1>3, SumNat

LEMMA SumSizesEmpty == SumSizes(<<>>) = 0
  <1>1. DOMAIN <<>> = {}
    OBVIOUS
  <1>2. SumSizes(<<>>) = SumFunctionOnSet(Sizes(<<>>), {})
    BY <1>1, Zenon DEF SumSizes, Sizes
  <1> QED BY <1>2, SumEmpty

\* The sum and its last piece.
LEMMA SumSizesLast ==
  ASSUME NEW t \in Seq(Piece), t # <<>>, NEW s \in Seq(Piece),
         Len(s) = Len(t) - 1, \A i \in 1 .. Len(s) : s[i] = t[i]
  PROVE  SumSizes(t) = SumSizes(s) + Size(t[Len(t)])
  <1>1. PICK n \in Nat : n = Len(t) /\ n >= 1
    <2>1. Len(t) \in Nat \ {0}
      BY EmptySeq
    <2> QED BY <2>1
  <1>2. DOMAIN t = 1 .. n /\ DOMAIN s = 1 .. n - 1
    BY <1>1
  <1>3. (DOMAIN t) \ {n} = DOMAIN s /\ n \in DOMAIN t
    BY <1>1, <1>2
  <1>4. \A i \in DOMAIN s : Sizes(t)[i] = Sizes(s)[i]
    BY <1>1, <1>2 DEF Sizes
  <1>5. Sizes(t)[n] = Size(t[n])
    BY <1>3 DEF Sizes
  <1>6. SumSizes(t) = SumFunctionOnSet(Sizes(t), DOMAIN t)
    BY SizesAre
  <1>7. SumFunctionOnSet(Sizes(t), DOMAIN t)
          = Sizes(t)[n] + SumFunctionOnSet(Sizes(t), DOMAIN s)
    <2>1. NatOn(Sizes(t), DOMAIN t) /\ IsFiniteSet(DOMAIN t)
      BY SizesAre
    <2>2. SumFunctionOnSet(Sizes(t), DOMAIN t)
            = Sizes(t)[n] + SumFunctionOnSet(Sizes(t), (DOMAIN t) \ {n})
      BY <1>3, <2>1, SumRemove
    <2> QED BY <1>3, <2>2
  <1>8. SumFunctionOnSet(Sizes(t), DOMAIN s) = SumFunctionOnSet(Sizes(s), DOMAIN s)
    BY <1>4, SizesAre, SumSame
  <1>9. SumSizes(s) = SumFunctionOnSet(Sizes(s), DOMAIN s) /\ SumSizes(s) \in Nat
    BY SizesAre
  <1>10. t[n] \in Piece
    BY <1>1, <1>2
  <1>11. Size(t[n]) \in Nat
    BY <1>10, PieceFacts
  <1> QED BY <1>1, <1>5, <1>6, <1>7, <1>8, <1>9, <1>11

\* A chain holds as many bytes as it covers.
Spans(s) == \A a, b \in Nat : Chain(s, a, b) => SumSizes(s) = b - a

LEMMA ChainSum == \A s \in Seq(Piece) : Spans(s)
  <1> DEFINE N == {n \in Nat : \A s \in Seq(Piece) : Len(s) = n => Spans(s)}
  <1>1. 0 \in N
    <2>1. ASSUME NEW s \in Seq(Piece), Len(s) = 0 PROVE Spans(s)
      <3>1. s = <<>>
        BY <2>1
      <3> QED BY <3>1, SumSizesEmpty, ChainEmpty DEF Spans
    <2> QED BY <2>1
  <1>2. ASSUME NEW n \in Nat, n \in N PROVE n + 1 \in N
    <2> SUFFICES ASSUME NEW t \in Seq(Piece), Len(t) = n + 1,
                        NEW a \in Nat, NEW b \in Nat, Chain(t, a, b)
                 PROVE  SumSizes(t) = b - a
      BY DEF Spans
    <2>1. PICK s : s = [i \in 1 .. n |-> t[i]]
      OBVIOUS
    <2>2. s \in Seq(Piece) /\ Len(s) = n /\ \A i \in 1 .. n : s[i] = t[i]
      BY <2>1
    <2>3. t # <<>> /\ t[n + 1] \in Piece
      OBVIOUS
    <2>4. PICK p \in Piece : p = t[n + 1]
      BY <2>3
    <2>5. p.upto = b /\ t[1].from = a
      BY <2>3, <2>4 DEF Chain
    <2>6. SumSizes(t) = SumSizes(s) + Size(p)
      BY <2>2, <2>3, <2>4, SumSizesLast
    <2>7. Chain(s, a, p.from)
      <3>1. CASE n = 0
        <4>1. s = <<>>
          BY <2>2, <3>1
        <4>2. p.from = a
          BY <2>4, <2>5, <3>1
        <4> QED BY <4>1, <4>2, ChainEmpty
      <3>2. CASE n # 0
        <4>1. s # <<>> /\ s[1].from = a
          BY <2>2, <2>5, <3>2
        <4>2. \A i \in 1 .. n : t[i].upto = t[i + 1].from
          BY <2>3 DEF Chain
        <4>3. s[n].upto = p.from
          BY <2>2, <2>4, <3>2, <4>2
        <4>4. \A i \in 1 .. n - 1 : s[i].upto = s[i + 1].from
          <5> SUFFICES ASSUME NEW i \in 1 .. n - 1 PROVE s[i].upto = s[i + 1].from
            OBVIOUS
          <5>1. i \in 1 .. n /\ i + 1 \in 1 .. n
            OBVIOUS
          <5>2. t[i].upto = t[i + 1].from
            BY <5>1, <4>2
          <5> QED BY <2>2, <5>1, <5>2
        <4>5. \A i \in 1 .. n : s[i].upto <= p.from
          <5> DEFINE M == {m \in Nat : m < n => s[n - m].upto <= p.from}
          <5>1. 0 \in M
            BY <4>3, PieceFacts
          <5>2. ASSUME NEW m \in Nat, m \in M PROVE m + 1 \in M
            <6> SUFFICES ASSUME m + 1 < n PROVE s[n - (m + 1)].upto <= p.from
              OBVIOUS
            <6>1. PICK k \in 1 .. n - 1 : k = n - (m + 1) /\ k + 1 = n - m
              OBVIOUS
            <6>2. s[k] \in Piece /\ s[k + 1] \in Piece
              BY <2>2
            <6>3. s[k].upto = s[k + 1].from /\ s[k + 1].upto <= p.from
              BY <4>4, <5>2, <6>1
            <6>4. s[k + 1].from <= s[k + 1].upto
              BY <6>2, PieceFacts
            <6>5. s[k + 1].from \in Nat /\ s[k + 1].upto \in Nat /\ p.from \in Nat
              BY <6>2, PieceFacts
            <6>6. s[k].upto <= p.from
              <7> DEFINE x == s[k].upto
                         y == s[k + 1].from
                         z == s[k + 1].upto
              <7>1. x = y /\ y <= z /\ z <= p.from /\ y \in Nat /\ z \in Nat /\ p.from \in Nat
                BY <6>3, <6>4, <6>5
              <7> HIDE DEF x, y, z
              <7>2. x <= p.from
                BY <7>1
              <7> QED BY <7>2 DEF x
            <6> QED BY <6>1, <6>6
          <5> HIDE DEF M
          <5>3. Nat \subseteq M
            BY <5>1, <5>2, SetInduction
          <5> SUFFICES ASSUME NEW i \in 1 .. n PROVE s[i].upto <= p.from
            OBVIOUS
          <5>4. PICK m \in Nat : m = n - i /\ m < n /\ n - m = i
            OBVIOUS
          <5>5. m \in M
            BY <5>3
          <5> QED BY <5>4, <5>5 DEF M
        <4> QED BY <2>2, <4>1, <4>3, <4>4, <4>5 DEF Chain
      <3> QED BY <3>1, <3>2
    <2>8. SumSizes(s) = p.from - a
      <3>1. Spans(s)
        BY <1>2, <2>2
      <3>2. p.from \in Nat
        BY PieceFacts
      <3> QED BY <2>7, <3>1, <3>2 DEF Spans
    <2>9. p.from \in Nat /\ p.upto = p.from + Size(p) /\ Size(p) \in Nat
      BY PieceFacts
    <2> HIDE DEF N
    <2> QED BY <2>5, <2>6, <2>8, <2>9
  <1> HIDE DEF N
  <1>3. \A s \in Seq(Piece) : Len(s) \in N
    BY <1>1, <1>2, SetInduction
  <1> QED BY <1>3 DEF N

-----------------------------------------------------------------------------
(* A reader: what it does with a piece, and with the end.                    *)

\* A reader of this request, within its limit.
Sound(r) ==
    /\ request \in RequestType /\ r \in ReadingType
    /\ r.at \in 1 .. Len(program) /\ program[r.at].do = "parse"
    /\ program[r.at].limit \in Nat
    /\ SumSizes(r.kept) <= program[r.at].limit

Told(s, r) == \E a \in AnswerType : s = <<a>> /\ a.at = r.at /\ Right(a)

\* It goes on being one; it says nothing, or one right answer and no more.
Outcome(o, r) ==
    /\ o.reading \in ReadingType
    /\ o.reading.at = r.at /\ o.reading.missed = r.missed
    /\ SumSizes(o.reading.kept) <= program[r.at].limit
    /\ o.says = <<>> \/ (Told(o.says, r) /\ o.reading.over)

LEMMA StepFacts ==
  ASSUME NEW p \in StepType, p.do = "parse"
  PROVE  /\ p.limit \in Nat
         /\ p.parser \in {"json", "raw", "text", "form", "multipart"}
  BY DEF StepType

LEMMA RequestFacts ==
  ASSUME request \in RequestType
  PROVE  request.len \in Nat /\ Expansion \in Nat \ {0} /\ Decoded \in Nat
  BY BodyAssumption DEF RequestType, Decoded

\* More bytes inflate to more.
LEMMA Inflate ==
  ASSUME NEW n \in Nat, NEW m \in Nat, n <= m
  PROVE  n * Expansion \in Nat /\ n * Expansion <= m * Expansion /\ n <= n * Expansion
  <1>1. PICK d \in Nat : m = n + d
    BY m - n \in Nat
  <1>2. Expansion \in Nat \ {0}
    BY BodyAssumption
  <1>3. m * Expansion = n * Expansion + d * Expansion
    BY <1>1, <1>2
  <1>4. n * Expansion \in Nat /\ d * Expansion \in Nat
    BY <1>2
  <1>5. n * Expansion = n + n * (Expansion - 1) /\ n * (Expansion - 1) \in Nat
    BY <1>2
  <1> QED BY <1>3, <1>4, <1>5

\* The fields of a reader.
LEMMA ReadingFields ==
  ASSUME NEW r \in ReadingType
  PROVE  r.kept \in Seq(Piece) /\ r.at \in Nat /\ r.missed \in Nat /\ r.over \in BOOLEAN
  BY DEF ReadingType

\* Those of one whose chunks were replaced, ended, or both.
LEMMA ReadingKept ==
  ASSUME NEW r \in ReadingType, NEW k \in Seq(Piece), NEW q, q = [r EXCEPT !.kept = k]
  PROVE  /\ q \in ReadingType /\ q.at = r.at /\ q.missed = r.missed
         /\ q.over = r.over /\ q.kept = k
  BY DEF ReadingType

LEMMA ReadingOver ==
  ASSUME NEW r \in ReadingType, NEW q, q = [r EXCEPT !.over = TRUE]
  PROVE  /\ q \in ReadingType /\ q.at = r.at /\ q.missed = r.missed
         /\ q.over = TRUE /\ q.kept = r.kept
  BY DEF ReadingType

LEMMA ReadingBoth ==
  ASSUME NEW r \in ReadingType, NEW k \in Seq(Piece), NEW q,
         q = [r EXCEPT !.over = TRUE, !.kept = k]
  PROVE  /\ q \in ReadingType /\ q.at = r.at /\ q.missed = r.missed
         /\ q.over = TRUE /\ q.kept = k
  BY DEF ReadingType

LEMMA ReadingDropped ==
  ASSUME NEW r \in ReadingType
  PROVE  \A q : q = [r EXCEPT !.over = TRUE, !.kept = <<>>]
             => /\ q \in ReadingType /\ q.at = r.at /\ q.missed = r.missed
                /\ q.over = TRUE /\ q.kept = <<>>
  <1>0. <<>> \in Seq(Piece)
    OBVIOUS
  <1>1. PICK k \in Seq(Piece) : k = <<>>
    BY <1>0, Zenon
  <1>2. \A q : q = [r EXCEPT !.over = TRUE, !.kept = k]
             => /\ q \in ReadingType /\ q.at = r.at /\ q.missed = r.missed
                /\ q.over = TRUE /\ q.kept = k
    BY ReadingBoth
  <1> QED BY <1>1, <1>2, Zenon

\* A verdict that needs no more said of it.
LEMMA Refusal ==
  ASSUME NEW r, Sound(r), NEW is \in Verdict \ {"parsed"},
         is = "413" => Decoded > program[r.at].limit
  PROVE  Told(<<Answer(is, r.at, <<>>)>>, r)
  <1> DEFINE a == Answer(is, r.at, <<>>)
  <1>1. r.at \in Nat
    BY ReadingFields DEF Sound
  <1>2. a \in AnswerType /\ a.at = r.at /\ a.is = is
    BY <1>1 DEF Answer, AnswerType
  <1>3. Right(a)
    BY <1>2 DEF Right, Sound
  <1> QED BY <1>2, <1>3 DEF Told

\* An outcome, taken apart.
LEMMA OutcomeSilent ==
  ASSUME NEW r, NEW q \in ReadingType, q.at = r.at, q.missed = r.missed,
         SumSizes(q.kept) <= program[r.at].limit,
         NEW o, o = [reading |-> q, says |-> <<>>]
  PROVE  Outcome(o, r) /\ o.reading = q /\ o.says = <<>>
  <1>1. o.reading = q /\ o.says = <<>>
    OBVIOUS
  <1> QED BY <1>1, Zenon DEF Outcome

LEMMA OutcomeTold ==
  ASSUME NEW r, NEW q \in ReadingType, q.at = r.at, q.missed = r.missed, q.over,
         SumSizes(q.kept) <= program[r.at].limit,
         NEW says, Told(says, r), NEW o, o = [reading |-> q, says |-> says]
  PROVE  Outcome(o, r) /\ o.reading = q /\ o.says = says /\ says # <<>>
  <1>1. o.reading = q /\ o.says = says
    OBVIOUS
  <1>2. PICK a : says = <<a>>
    BY DEF Told
  <1>3. says # <<>>
    BY <1>2
  <1> QED BY <1>1, <1>3, Zenon DEF Outcome

\* A chunk more is kept, or is over the limit.
LEMMA KeepRight ==
  ASSUME NEW r, Sound(r), NEW piece \in Piece,
         SumSizes(Append(r.kept, piece)) <= Decoded,
         NEW o, o = KeepChunk(program[r.at], r, piece)
  PROVE  /\ Outcome(o, r)
         /\ o.says = <<>> => o.reading.over = r.over /\ o.reading.kept = Append(r.kept, piece)
  <1>1. PICK k : k = Append(r.kept, piece)
    OBVIOUS
  <1>2. r \in ReadingType /\ request \in RequestType /\ program[r.at].limit \in Nat
    BY DEF Sound
  <1>3. k \in Seq(Piece)
    BY <1>1, <1>2, ReadingFields
  <1>4. SumSizes(k) \in Nat /\ SumSizes(<<>>) = 0 /\ <<>> \in Seq(Piece)
    BY <1>3, SizesAre, SumSizesEmpty
  <1>5. CASE SumSizes(k) > program[r.at].limit
    <2>1. PICK q : q = [r EXCEPT !.over = TRUE, !.kept = <<>>]
      OBVIOUS
    <2>2. q \in ReadingType /\ q.at = r.at /\ q.missed = r.missed /\ q.over /\ q.kept = <<>>
      BY <1>2, <2>1, ReadingDropped
    <2>3. o = [reading |-> q, says |-> <<Answer("413", r.at, <<>>)>>]
      BY <1>1, <1>5, <2>1 DEF KeepChunk
    <2>4. Decoded > program[r.at].limit
      BY <1>1, <1>2, <1>4, <1>5, RequestFacts
    <2>5. Told(<<Answer("413", r.at, <<>>)>>, r)
      <3>1. "413" \in Verdict \ {"parsed"}
        BY DEF Verdict
      <3> QED BY <2>4, <3>1, Refusal
    <2>6. SumSizes(q.kept) <= program[r.at].limit
      BY <1>2, <1>4, <2>2
    <2>7. Outcome(o, r) /\ o.says # <<>>
      BY <2>2, <2>3, <2>5, <2>6, OutcomeTold
    <2> QED BY <2>7
  <1>6. CASE ~(SumSizes(k) > program[r.at].limit)
    <2>1. PICK q : q = [r EXCEPT !.kept = k]
      OBVIOUS
    <2>2. q \in ReadingType /\ q.at = r.at /\ q.missed = r.missed /\ q.over = r.over /\ q.kept = k
      BY <1>2, <1>3, <2>1, ReadingKept
    <2>3. o = [reading |-> q, says |-> <<>>]
      BY <1>1, <1>6, <2>1 DEF KeepChunk
    <2>4. SumSizes(k) <= program[r.at].limit
      BY <1>2, <1>4, <1>6
    <2>5. Outcome(o, r) /\ o.reading = q
      BY <2>2, <2>3, <2>4, <1>2, OutcomeSilent
    <2> QED BY <1>1, <2>2, <2>5
  <1> QED BY <1>5, <1>6

\* Bytes that do not inflate, or a part of a body that was missed, are refused.
LEMMA FailRight ==
  ASSUME NEW r, Sound(r), NEW o, o = FailInflate(r)
  PROVE  Outcome(o, r) /\ o.says # <<>> /\ o.reading.over
  <1>1. r \in ReadingType /\ program[r.at].limit \in Nat
    BY DEF Sound
  <1>2. SumSizes(<<>>) = 0 /\ <<>> \in Seq(Piece)
    BY SumSizesEmpty
  <1>3. PICK q : q = [r EXCEPT !.over = TRUE, !.kept = <<>>]
    OBVIOUS
  <1>4. q \in ReadingType /\ q.at = r.at /\ q.missed = r.missed /\ q.over /\ q.kept = <<>>
    BY <1>1, <1>3, ReadingDropped
  <1>5. o = [reading |-> q, says |-> <<Answer("400 inflate", r.at, <<>>)>>]
    BY <1>3 DEF FailInflate
  <1>6. Told(<<Answer("400 inflate", r.at, <<>>)>>, r)
    <2>1. "400 inflate" \in Verdict \ {"parsed"} /\ "400 inflate" # "413"
      BY DEF Verdict
    <2> QED BY <2>1, Refusal
  <1>7. SumSizes(q.kept) <= program[r.at].limit
    BY <1>1, <1>2, <1>4
  <1>8. PICK says : says = <<Answer("400 inflate", r.at, <<>>)>>
    OBVIOUS
  <1>9. Told(says, r) /\ o = [reading |-> q, says |-> says]
    BY <1>5, <1>6, <1>8
  <1>10. Outcome(o, r) /\ o.reading = q /\ o.says # <<>>
    BY <1>4, <1>7, <1>9, OutcomeTold
  <1> QED BY <1>4, <1>10

\* A piece more of what a reader keeps, as it came: still a chain from where it
\* began, and no longer than the body.
LEMMA GrownChain ==
  ASSUME NEW s \in Seq(Piece), NEW a \in Nat, NEW piece \in Piece, NEW n \in Nat,
         piece.upto <= n, Chain(s, a, piece.from)
  PROVE  /\ Append(s, piece) \in Seq(Piece)
         /\ Chain(Append(s, piece), a, piece.upto)
         /\ SumSizes(Append(s, piece)) <= n
         /\ a <= piece.upto
  <1>1. piece.from \in Nat /\ piece.upto \in Nat
    BY PieceFacts
  <1>2. PICK t : t = Append(s, piece)
    OBVIOUS
  <1>3. t \in Seq(Piece) /\ Chain(t, a, piece.upto)
    BY <1>1, <1>2, ChainAppend
  <1>4. SumSizes(t) = piece.upto - a
    BY <1>1, <1>3, ChainSum DEF Spans
  <1>5. a <= piece.upto
    BY <1>1, <1>3, ChainOrdered
  <1> QED BY <1>1, <1>2, <1>3, <1>4, <1>5

\* What follows the last of a sequence of pieces.
LEMMA UptoFacts ==
  ASSUME NEW s \in Seq(Piece)
  PROVE  /\ Upto(s) \in Nat
         /\ \A p \in Piece : Upto(Append(s, p)) = p.upto
  <1>1. Upto(s) \in Nat
    <2>1. CASE s = <<>>
      BY <2>1 DEF Upto
    <2>2. CASE s # <<>>
      <3>1. s[Len(s)] \in Piece
        BY <2>2, EmptySeq
      <3> QED BY <2>2, <3>1, PieceFacts DEF Upto
    <2> QED BY <2>1, <2>2
  <1>2. ASSUME NEW p \in Piece PROVE Upto(Append(s, p)) = p.upto
    <2>1. PICK t : t = Append(s, p)
      OBVIOUS
    <2>2. t # <<>> /\ t[Len(t)] = p
      BY <2>1
    <2> QED BY <2>1, <2>2 DEF Upto
  <1> QED BY <1>1, <1>2

\* A piece that follows what was kept: it is kept too, or the answer is right.
LEMMA OnDataRight ==
  ASSUME NEW r, Sound(r), ~r.over, NEW piece \in Piece, piece.upto <= request.len,
         Keeps(r, piece.from), NEW o \in OnData(program[r.at], r, piece)
  PROVE  /\ Outcome(o, r)
         /\ ~o.reading.over => Keeps(o.reading, piece.upto)
         /\ o.says = <<>> => ~o.reading.over
  <1>1. /\ r \in ReadingType /\ request \in RequestType
        /\ piece.from \in Nat /\ piece.upto \in Nat /\ piece.from <= piece.upto
    BY PieceFacts DEF Sound
  <1>2. r.kept \in Seq(Piece) /\ r.missed \in Nat /\ r.over \in BOOLEAN
    BY <1>1, ReadingFields
  <1>3. request.len \in Nat /\ Decoded \in Nat
    BY <1>1, RequestFacts
  <1>4. CASE ~Inflates
    <2>1. o = KeepChunk(program[r.at], r, piece)
      BY <1>4 DEF OnData
    <2>2. Chain(r.kept, r.missed, piece.from) /\ Decoded = request.len
      BY <1>4 DEF Keeps, Decoded
    <2>3. /\ Chain(Append(r.kept, piece), r.missed, piece.upto)
          /\ SumSizes(Append(r.kept, piece)) <= Decoded
      BY <1>1, <1>2, <1>3, <2>2, GrownChain
    <2>4. Outcome(o, r)
          /\ (o.says = <<>> => o.reading.over = r.over /\ o.reading.kept = Append(r.kept, piece))
      BY <2>1, <2>3, KeepRight
    <2>5. ASSUME ~o.reading.over PROVE Keeps(o.reading, piece.upto)
      <3>1. o.says = <<>> /\ o.reading.missed = r.missed
        BY <2>4, <2>5 DEF Outcome
      <3> QED BY <1>4, <2>3, <2>4, <3>1 DEF Keeps
    <2> QED BY <2>4, <2>5
  <1>5. CASE Inflates /\ o = FailInflate(r)
    BY <1>5, FailRight
  <1>6. CASE Inflates /\ o # FailInflate(r)
    <2>1. PICK at : at = Upto(r.kept)
      OBVIOUS
    <2>2. r.missed = 0
      <3>1. r.missed > 0 => OnData(program[r.at], r, piece) = {FailInflate(r)}
        BY <1>6 DEF OnData
      <3> QED BY <1>2, <1>6, <3>1
    <2>3. PICK b \in at .. piece.upto * Expansion :
              o = KeepChunk(program[r.at], r, [from |-> at, upto |-> b])
      BY <1>6, <2>1, <2>2 DEF OnData
    <2>4. PICK n : n = piece.upto * Expansion
      OBVIOUS
    <2>5. n \in Nat /\ n <= Decoded
      BY <1>1, <1>3, <1>6, <2>4, Inflate DEF Decoded
    <2>6. at \in Nat /\ b \in Nat /\ at <= b /\ b <= n
      BY <1>2, <2>1, <2>3, <2>4, <2>5, UptoFacts
    <2>7. PICK q : q = [from |-> at, upto |-> b]
      OBVIOUS
    <2>8. q \in Piece /\ q.from = at /\ q.upto = b
      BY <2>6, <2>7 DEF Piece
    <2>9. Chain(r.kept, 0, q.from)
      BY <1>6, <2>1, <2>2, <2>8 DEF Keeps
    <2>10. PICK t : t = Append(r.kept, q)
      OBVIOUS
    <2>11. t \in Seq(Piece) /\ Chain(t, 0, b) /\ SumSizes(t) <= Decoded
      BY <1>2, <1>3, <2>5, <2>6, <2>8, <2>9, <2>10, GrownChain
    <2>12. Upto(t) = b
      BY <1>2, <2>8, <2>10, UptoFacts
    <2>13. o = KeepChunk(program[r.at], r, q)
      BY <2>3, <2>7
    <2>14. Outcome(o, r)
           /\ (o.says = <<>> => o.reading.over = r.over /\ o.reading.kept = t)
      BY <2>8, <2>10, <2>11, <2>13, KeepRight
    <2>15. ASSUME ~o.reading.over PROVE Keeps(o.reading, piece.upto)
      <3>1. o.says = <<>>
        BY <2>14, <2>15 DEF Outcome
      <3>2. o.reading.kept = t
        BY <2>14, <3>1
      <3> QED BY <1>6, <2>4, <2>6, <2>11, <2>12, <3>2 DEF Keeps
    <2> QED BY <2>14, <2>15
  <1> QED BY <1>4, <1>5, <1>6

-----------------------------------------------------------------------------
\* What the parsers answer, and what they never do.
LEMMA ReturnFacts ==
  ASSUME NEW p, p.parser \in {"json", "raw", "text", "form", "multipart"}, NEW empty \in BOOLEAN
  PROVE  Return(p, empty) \in Verdict \ {"413"}
  <1>1. JsonReturn(p, empty) \in {"malformed", "parsed"}
    BY DEF JsonReturn
  <1>2. FormReturn(p) \in {"413 parameters", "400 depth", "parsed"}
    BY DEF FormReturn
  <1>3. MultipartReturn \in {"malformed", "parsed"}
    BY DEF MultipartReturn
  <1>4. Return(p, empty) \in
            {"malformed", "413 parameters", "400 depth", "parsed"}
    BY <1>1, <1>2, <1>3 DEF Return
  <1> QED BY <1>4 DEF Verdict

\* A body of the right size, of which nothing is lacking, is answered right.
LEMMA BeforeReturnRight ==
  ASSUME NEW r, Sound(r), WholeOf(r.kept),
         program[r.at].parser \in {"json", "raw", "text", "form", "multipart"}
  PROVE  Told(<<BeforeReturn(program[r.at], r.at, r.kept)>>, r)
  <1>1. PICK is : is = IF RunVerify(program[r.at])
                       THEN Return(program[r.at], SumSizes(r.kept) = 0) ELSE "403"
    OBVIOUS
  <1>2. is \in Verdict \ {"413"}
    <2>1. \A empty \in BOOLEAN : Return(program[r.at], empty) \in Verdict \ {"413"}
      BY ReturnFacts
    <2>3. (SumSizes(r.kept) = 0) \in BOOLEAN
      OBVIOUS
    <2>2. "403" \in Verdict \ {"413"}
      BY DEF Verdict
    <2>4. Return(program[r.at], SumSizes(r.kept) = 0) \in Verdict \ {"413"}
      BY <2>1, <2>3, Zenon
    <2> QED BY <1>1, <2>2, <2>4, Zenon
  <1>3. PICK a : a = BeforeReturn(program[r.at], r.at, r.kept)
    OBVIOUS
  <1>4. a = [is |-> is, at |-> r.at, got |-> r.kept]
    BY <1>1, <1>3 DEF BeforeReturn, Answer
  <1>5. r.at \in Nat /\ r.kept \in Seq(Piece)
    BY ReadingFields DEF Sound
  <1>6. a \in AnswerType /\ a.at = r.at /\ a.got = r.kept /\ a.is = is
    BY <1>2, <1>4, <1>5 DEF AnswerType
  <1>7. Right(a)
    BY <1>2, <1>6 DEF Right, Sound
  <1> QED BY <1>3, <1>6, <1>7 DEF Told

LEMMA AssembleRight ==
  ASSUME NEW r, Sound(r),
         program[r.at].parser \in {"json", "raw", "text", "form", "multipart"},
         WholeOf(r.kept) \/ (~Inflates /\ request.framing = "length"
                               /\ SumSizes(r.kept) # request.len)
  PROVE  Told(<<Assemble(program[r.at], r)>>, r)
  <1>1. CASE ~Inflates /\ request.framing = "length" /\ SumSizes(r.kept) # request.len
    <2>1. Assemble(program[r.at], r) = Answer("400 size", r.at, <<>>)
      BY <1>1 DEF Assemble
    <2>2. "400 size" \in Verdict \ {"parsed"} /\ "400 size" # "413"
      BY DEF Verdict
    <2> QED BY <2>1, <2>2, Refusal
  <1>2. CASE ~(~Inflates /\ request.framing = "length" /\ SumSizes(r.kept) # request.len)
    <2>1. Assemble(program[r.at], r) = BeforeReturn(program[r.at], r.at, r.kept)
      BY <1>2, Zenon DEF Assemble
    <2> QED BY <1>2, <2>1, BeforeReturnRight
  <1> QED BY <1>1, <1>2

\* At the end a reader of the bytes as they came has the body, but for what the
\* program heard, or the size tells it has not.
LEMMA PlainWhole ==
  ASSUME NEW r, Sound(r), ~Inflates, Declared, Chain(r.kept, r.missed, request.len),
         heard \in Seq(Piece),
         r.missed > 0 => \E j \in 1 .. Len(heard) : heard[j].upto = r.missed
  PROVE  WholeOf(r.kept) \/ (~Inflates /\ request.framing = "length"
                               /\ SumSizes(r.kept) # request.len)
  <1>1. PICK n : n = request.len
    OBVIOUS
  <1>2. PICK k : k = r.kept
    OBVIOUS
  <1>3. PICK m : m = r.missed
    OBVIOUS
  <1>4. n \in Nat /\ k \in Seq(Piece) /\ m \in Nat /\ Decoded = n
    BY <1>1, <1>2, <1>3, ReadingFields, RequestFacts DEF Sound, Decoded
  <1>5. Chain(k, m, n)
    BY <1>1, <1>2, <1>3
  <1>6. CASE m = 0
    BY <1>2, <1>4, <1>5, <1>6 DEF WholeOf
  <1>7. CASE m > 0 /\ request.framing = "length"
    <2>1. SumSizes(k) = n - m
      BY <1>4, <1>5, ChainSum DEF Spans
    <2>2. SumSizes(k) # n
      BY <1>4, <1>7, <2>1
    <2> QED BY <1>1, <1>2, <1>7, <2>2
  <1>8. CASE m > 0 /\ request.framing # "length"
    <2>1. request.framing = "chunked"
      BY <1>8 DEF Declared, Sound, RequestType
    <2>2. PICK j \in 1 .. Len(heard) : heard[j].upto = m
      BY <1>3, <1>8
    <2>3. heard # <<>>
      BY <2>2
    <2>4. CASE k = <<>>
      <3>1. m = n
        BY <1>5, <2>4, ChainEmpty
      <3> QED BY <1>2, <1>4, <2>1, <2>2, <2>3, <2>4, <3>1 DEF WholeOf
    <2>5. CASE k # <<>>
      <3>1. k[1].from = m
        BY <1>4, <1>5, <2>5, ChainEnds
      <3> QED BY <1>2, <1>4, <1>5, <2>1, <2>2, <2>3, <2>5, <3>1 DEF WholeOf
    <2> QED BY <2>4, <2>5
  <1> QED BY <1>4, <1>6, <1>7, <1>8

\* What holds of a reader holds of it once it is over.
LEMMA SoundOver ==
  ASSUME NEW r, Sound(r), NEW q, q = [r EXCEPT !.over = TRUE]
  PROVE  /\ Sound(q) /\ q \in ReadingType /\ q.at = r.at /\ q.missed = r.missed
         /\ q.over = TRUE /\ q.kept = r.kept
  <1>1. r \in ReadingType
    BY DEF Sound
  <1>2. /\ q \in ReadingType /\ q.at = r.at /\ q.missed = r.missed
        /\ q.over = TRUE /\ q.kept = r.kept
    BY <1>1, ReadingOver
  <1> QED BY <1>2 DEF Sound

LEMMA KeepRecord ==
  ASSUME NEW p, NEW r, NEW piece, NEW k, k = KeepChunk(p, r, piece)
  PROVE  k = [reading |-> k.reading, says |-> k.says]
  BY DEF KeepChunk

\* The end: one answer, and it is right.
LEMMA OnEndRight ==
  ASSUME NEW r, Sound(r), ~r.over, Declared, Keeps(r, request.len), heard \in Seq(Piece),
         program[r.at].parser \in {"json", "raw", "text", "form", "multipart"},
         r.missed > 0 => \E j \in 1 .. Len(heard) : heard[j].upto = r.missed,
         NEW o, o = OnEnd(program[r.at], r)
  PROVE  Outcome(o, r) /\ o.reading.over /\ o.says # <<>>
  <1>1. PICK q : q = [r EXCEPT !.over = TRUE]
    OBVIOUS
  <1>2. /\ Sound(q) /\ q \in ReadingType /\ q.at = r.at /\ q.missed = r.missed
        /\ q.over = TRUE /\ q.kept = r.kept
    BY <1>1, SoundOver
  <1>3. request \in RequestType /\ r.kept \in Seq(Piece) /\ r.missed \in Nat
    BY ReadingFields DEF Sound
  <1>4. SumSizes(q.kept) <= program[r.at].limit
    BY <1>2 DEF Sound
  <1>5. PICK at : at = Upto(r.kept)
    OBVIOUS
  <1>6. CASE ~Inflates
    <2>1. o = [reading |-> q, says |-> <<Assemble(program[r.at], r)>>]
      BY <1>1, <1>6 DEF OnEnd
    <2>2. WholeOf(r.kept) \/ (~Inflates /\ request.framing = "length"
                                /\ SumSizes(r.kept) # request.len)
      BY <1>6, PlainWhole DEF Keeps
    <2>3. Told(<<Assemble(program[r.at], r)>>, r)
      BY <2>2, AssembleRight
    <2>4. Outcome(o, r) /\ o.reading = q /\ o.says # <<>>
      BY <1>2, <1>4, <2>1, <2>3, OutcomeTold
    <2> QED BY <1>2, <2>4
  <1>7. CASE Inflates /\ ~Finishes(r)
    <2>1. o = FailInflate(r)
      BY <1>7 DEF OnEnd
    <2> QED BY <2>1, FailRight
  <1>8. CASE Inflates /\ Finishes(r) /\ at = Decoded
    <2>1. o = [reading |-> q, says |-> <<Assemble(program[r.at], q)>>]
      BY <1>1, <1>5, <1>8 DEF OnEnd
    <2>2. Chain(q.kept, 0, Decoded)
      BY <1>2, <1>5, <1>8 DEF Keeps, Finishes
    <2>3. Told(<<Assemble(program[q.at], q)>>, q)
      <3>1. WholeOf(q.kept)
        BY <2>2 DEF WholeOf
      <3> QED BY <1>2, <3>1, AssembleRight
    <2>4. Told(<<Assemble(program[r.at], q)>>, r)
      BY <1>2, <2>3 DEF Told
    <2>5. Outcome(o, r) /\ o.reading = q /\ o.says # <<>>
      BY <1>2, <1>4, <2>1, <2>4, OutcomeTold
    <2> QED BY <1>2, <2>5
  <1>9. CASE Inflates /\ Finishes(r) /\ at # Decoded
    <2>1. PICK c : c = [from |-> at, upto |-> Decoded]
      OBVIOUS
    <2>2. PICK k : k = KeepChunk(program[r.at], q, c)
      OBVIOUS
    <2>3. o = IF k.says # <<>> THEN k
              ELSE [k EXCEPT !.says = <<Assemble(program[r.at], k.reading)>>]
      BY <1>1, <1>5, <1>9, <2>1, <2>2 DEF OnEnd
    <2>4. Chain(r.kept, 0, at) /\ at <= Decoded /\ at \in Nat /\ Decoded \in Nat
      BY <1>3, <1>5, <1>9, RequestFacts, UptoFacts DEF Keeps, Finishes, Decoded
    <2>5. c \in Piece /\ c.from = at /\ c.upto = Decoded
      BY <2>1, <2>4 DEF Piece
    <2>6. PICK t : t = Append(r.kept, c)
      OBVIOUS
    <2>7. t \in Seq(Piece) /\ Chain(t, 0, Decoded) /\ SumSizes(t) <= Decoded
      BY <1>3, <2>4, <2>5, <2>6, GrownChain
    <2>8. Outcome(k, q)
          /\ (k.says = <<>> => k.reading.over = q.over /\ k.reading.kept = t)
      <3>1. k = KeepChunk(program[q.at], q, c) /\ Append(q.kept, c) = t
        BY <1>2, <2>2, <2>6
      <3>2. SumSizes(Append(q.kept, c)) <= Decoded
        BY <2>7, <3>1
      <3> QED BY <1>2, <2>5, <3>1, <3>2, KeepRight
    <2>9. CASE k.says # <<>>
      <3>1. o = k /\ k.reading.over
        BY <2>3, <2>8, <2>9 DEF Outcome
      <3> QED BY <1>2, <2>8, <2>9, <3>1 DEF Outcome, Told
    <2>10. CASE k.says = <<>>
      <3>1. PICK s : s = k.reading
        OBVIOUS
      <3>2. /\ s \in ReadingType /\ s.at = r.at /\ s.missed = r.missed
            /\ SumSizes(s.kept) <= program[r.at].limit
        BY <1>2, <2>8, <3>1 DEF Outcome
      <3>3. s.over = TRUE /\ s.kept = t
        BY <1>2, <2>8, <2>10, <3>1
      <3>4. Sound(s)
        BY <3>2 DEF Sound
      <3>5. Told(<<Assemble(program[s.at], s)>>, s)
        <4>1. WholeOf(s.kept)
          BY <2>7, <3>3 DEF WholeOf
        <4> QED BY <3>2, <3>4, <4>1, AssembleRight
      <3>6. PICK says : says = <<Assemble(program[r.at], s)>>
        OBVIOUS
      <3>7. Told(says, r)
        BY <3>2, <3>5, <3>6 DEF Told
      <3>8. o = [reading |-> s, says |-> says]
        <4>1. k = [reading |-> k.reading, says |-> k.says]
          BY <2>2, KeepRecord
        <4>2. o = [k EXCEPT !.says = says]
          BY <2>3, <2>10, <3>1, <3>6
        <4> QED BY <3>1, <4>1, <4>2
      <3>9. Outcome(o, r) /\ o.reading = s /\ o.says = says /\ says # <<>>
        <4>1. s.over
          BY <3>3, Zenon
        <4>2. o.reading = s /\ o.says = says
          BY <3>8
        <4>3. says # <<>>
          BY <3>7 DEF Told
        <4> QED BY <3>2, <3>7, <4>1, <4>2, <4>3, Zenon DEF Outcome
      <3> QED BY <3>3, <3>9
    <2> QED BY <2>9, <2>10
  <1> QED BY <1>6, <1>7, <1>8, <1>9

-----------------------------------------------------------------------------
(* What is said, and what reads, in a step.                                  *)

Hears == heard' = heard \/ \E p \in Piece : heard' = Append(heard, p)

Spoke ==
    \/ UNCHANGED <<answers, pc, status>>
    \/ /\ status \in {"running", "collecting"}
       /\ \E a \in AnswerType : Right(a) /\ a.at = pc /\ Says(<<a>>)

\* What was heard stays heard.
LEMMA HeardStays ==
  ASSUME heard \in Seq(Piece), Hears
  PROVE  /\ heard' \in Seq(Piece) /\ (heard # <<>> => heard' # <<>>)
         /\ \A x : (\E j \in 1 .. Len(heard) : heard[j].upto = x)
                   => \E j \in 1 .. Len(heard') : heard'[j].upto = x
  <1>1. CASE heard' = heard
    BY <1>1
  <1>2. CASE \E p \in Piece : heard' = Append(heard, p)
    <2>1. PICK p \in Piece : heard' = Append(heard, p)
      BY <1>2
    <2>2. heard' \in Seq(Piece) /\ heard' # <<>> /\ Len(heard') = Len(heard) + 1
          /\ \A j \in 1 .. Len(heard) : heard'[j] = heard[j]
      BY <2>1
    <2>3. ASSUME NEW x, NEW j \in 1 .. Len(heard), heard[j].upto = x
          PROVE  j \in 1 .. Len(heard') /\ heard'[j].upto = x
      BY <2>2, <2>3
    <2> QED BY <2>2, <2>3
  <1> QED BY <1>1, <1>2 DEF Hears

\* An answer that was right stays right.
LEMMA RightStays ==
  ASSUME heard \in Seq(Piece), Hears, UNCHANGED <<program, request>>, NEW a, Right(a)
  PROVE  Right(a)'
  <1>1. /\ heard' \in Seq(Piece) /\ (heard # <<>> => heard' # <<>>)
        /\ \A x : (\E j \in 1 .. Len(heard) : heard[j].upto = x)
                   => \E j \in 1 .. Len(heard') : heard'[j].upto = x
    BY HeardStays
  <1>2. Decoded' = Decoded
    BY DEF Decoded, Inflates
  <1>3. ASSUME WholeOf(a.got) PROVE WholeOf(a.got)'
    <2>1. CASE Chain(a.got, 0, Decoded)
      BY <1>2, <2>1 DEF WholeOf
    <2>2. CASE ~Chain(a.got, 0, Decoded)
      <3>1. /\ request.framing = "chunked" /\ heard # <<>>
            /\ a.got # <<>> => Chain(a.got, a.got[1].from, Decoded)
            /\ \E j \in 1 .. Len(heard) :
                  heard[j].upto = IF a.got = <<>> THEN Decoded ELSE a.got[1].from
        BY <1>3, <2>2, Zenon DEF WholeOf
      <3>2. \E j \in 1 .. Len(heard') :
               heard'[j].upto = IF a.got = <<>> THEN Decoded' ELSE a.got[1].from
        BY <1>1, <1>2, <3>1
      <3>3. /\ request'.framing = "chunked" /\ heard' # <<>>
            /\ a.got # <<>> => Chain(a.got, a.got[1].from, Decoded')
        BY <1>1, <1>2, <3>1
      <3> QED BY <3>2, <3>3, Zenon DEF WholeOf
    <2> QED BY <2>1, <2>2
  <1> QED BY <1>2, <1>3 DEF Right

\* The verdicts stay right and stay one for each step of the program, whatever
\* is said by the step the program is at.
LEMMA SpokeStep ==
  ASSUME ProgramType, AnswerInv, heard \in Seq(Piece), Hears, Spoke,
         UNCHANGED <<program, request>>
  PROVE  /\ answers' \in Seq(AnswerType) /\ pc' \in Nat \ {0}
         /\ status' \in {"running", "collecting", "waiting", "refused", "done"}
         /\ \/ status' = status
            \/ status \in {"running", "collecting"} /\ status' \in {"running", "refused"}
         /\ AnswerInv'
  <1>1. \A a : Right(a) => Right(a)'
    BY RightStays
  <1>2. /\ answers \in Seq(AnswerType) /\ pc \in Nat \ {0}
        /\ status \in {"running", "collecting", "waiting", "refused", "done"}
    BY DEF ProgramType
  <1>3. CASE UNCHANGED <<answers, pc, status>>
    BY <1>1, <1>2, <1>3 DEF AnswerInv, Owes, AnsweredOnce
  <1>4. CASE ~UNCHANGED <<answers, pc, status>>
    <2>1. status \in {"running", "collecting"}
      BY <1>4 DEF Spoke
    <2>2. PICK a \in AnswerType : Right(a) /\ a.at = pc /\ Says(<<a>>)
      BY <1>4, Zenon DEF Spoke
    <2>3. answers' = Append(answers, a)
          /\ \/ pc' = pc + 1 /\ status' = "running"
             \/ pc' = pc /\ status' = "refused"
      BY <1>2, <2>2 DEF Says
    <2>4. PICK n \in Nat : n = Len(answers)
      BY <1>2
    <2>5. /\ answers' \in Seq(AnswerType) /\ Len(answers') = n + 1 /\ answers'[n + 1] = a
          /\ \A i \in 1 .. n : answers'[i] = answers[i]
      BY <1>2, <2>3, <2>4
    <2>6. \A i \in 1 .. n : Right(answers[i]) /\ answers[i].at < pc
      BY <2>1, <2>4 DEF AnswerInv, Owes
    <2>7. \A i \in 1 .. n : answers[i] \in AnswerType /\ answers[i].at \in Nat
      <3>1. \A i \in 1 .. n : answers[i] \in AnswerType
        BY <1>2, <2>4
      <3> QED BY <3>1 DEF AnswerType
    <2>8. \A i \in 1 .. n + 1 : Right(answers[i])'
      <3> SUFFICES ASSUME NEW i \in 1 .. n + 1 PROVE Right(answers[i])'
        OBVIOUS
      <3>1. CASE i = n + 1
        <4>1. Right(a)' /\ answers'[i] = a
          BY <1>1, <2>2, <2>5, <3>1
        <4> QED BY <4>1
      <3>2. CASE i \in 1 .. n
        <4>1. PICK b : b = answers[i]
          OBVIOUS
        <4>2. Right(b)' /\ answers'[i] = b
          BY <1>1, <2>5, <2>6, <3>2, <4>1
        <4> QED BY <4>2
      <3> QED BY <2>4, <3>1, <3>2
    <2>9. \A i \in 1 .. n + 1 : answers'[i].at <= pc' /\ (Owes' => answers'[i].at < pc')
      BY <1>2, <2>2, <2>3, <2>5, <2>6, <2>7 DEF Owes
    <2>10. \A i, j \in 1 .. n + 1 : i # j => answers'[i].at # answers'[j].at
      <3>1. \A i, j \in 1 .. n : i # j => answers[i].at # answers[j].at
        BY <2>4 DEF AnswerInv, AnsweredOnce
      <3>2. \A i \in 1 .. n : answers'[i].at # answers'[n + 1].at
        <4> SUFFICES ASSUME NEW i \in 1 .. n PROVE answers'[i].at # answers'[n + 1].at
          OBVIOUS
        <4>1. answers[i].at < pc /\ answers[i].at \in Nat
          BY <2>6, <2>7
        <4>2. answers'[i].at = answers[i].at /\ answers'[n + 1].at = pc
          BY <2>2, <2>5
        <4> QED BY <1>2, <4>1, <4>2
      <3>3. \A i, j \in 1 .. n : i # j => answers'[i].at # answers'[j].at
        BY <2>5, <3>1
      <3> SUFFICES ASSUME NEW i \in 1 .. n + 1, NEW j \in 1 .. n + 1, i # j
                   PROVE  answers'[i].at # answers'[j].at
        OBVIOUS
      <3>4. i \in 1 .. n \/ i = n + 1
        BY <2>4
      <3>5. j \in 1 .. n \/ j = n + 1
        BY <2>4
      <3> QED BY <3>2, <3>3, <3>4, <3>5, Zenon
    <2>11. AnswerInv'
      <3>1. Len(answers') = n + 1
        BY <2>5
      <3> QED BY <2>8, <2>9, <2>10, <3>1, Zenon DEF AnswerInv, AnsweredOnce
    <2> QED BY <1>2, <2>1, <2>3, <2>5, <2>11
  <1> QED BY <1>3, <1>4

\* A reader goes on, or answers and is over; one that was over stays as it was.
ReadStep ==
    /\ Spoke
    /\ reading' \in ReadingType
    /\ reading'.at = reading.at /\ reading'.missed = reading.missed
    /\ reading.at # 0 => SumSizes(reading'.kept) <= program[reading.at].limit
    /\ reading.over => UNCHANGED <<reading, answers, pc, status>>
    /\ ~reading'.over => ~reading.over /\ UNCHANGED <<answers, pc, status>>

LEMMA ProgramFacts ==
  ASSUME ProgramType
  PROVE  /\ request \in RequestType /\ pc \in Nat \ {0}
         /\ program \in Seq(StepType)
         /\ \A i \in 1 .. Len(program) : program[i] \in StepType
  BY BodyAssumption DEF ProgramType

LEMMA ReaderSound ==
  ASSUME Inv, Reads
  PROVE  /\ Sound(reading) /\ ~reading.over /\ reading \in ReadingType
         /\ program[reading.at].parser \in {"json", "raw", "text", "form", "multipart"}
         /\ status = "collecting" /\ reading.at = pc /\ KeptInv
  <1>1. ProgramType /\ reading \in ReadingType
    BY DEF Inv, ReaderType
  <1>2. /\ status = "collecting" /\ reading.at = pc /\ KeptInv
        /\ reading.at # 0 =>
              /\ reading.at \in 1 .. Len(program) /\ program[reading.at].do = "parse"
              /\ SumSizes(reading.kept) <= program[reading.at].limit
    BY DEF Inv, ReadInv
  <1>3. pc # 0 /\ request \in RequestType
        /\ \A i \in 1 .. Len(program) : program[i] \in StepType
    BY <1>1, ProgramFacts
  <1>4. /\ reading.at \in 1 .. Len(program) /\ program[reading.at].do = "parse"
        /\ program[reading.at] \in StepType
    BY <1>2, <1>3
  <1>5. /\ program[reading.at].limit \in Nat
        /\ program[reading.at].parser \in {"json", "raw", "text", "form", "multipart"}
    BY <1>4, StepFacts
  <1>6. ~reading.over
    BY DEF Reads
  <1> QED BY <1>1, <1>2, <1>3, <1>4, <1>5, <1>6 DEF Sound

\* What a reader does with what it is given.
LEMMA FeedStep ==
  ASSUME Inv, Reads, NEW o, Outcome(o, reading), reading' = o.reading, Says(o.says)
  PROVE  ReadStep
  <1>1. /\ status = "collecting" /\ reading.at = pc /\ ~reading.over
    BY ReaderSound
  <1>2. /\ o.reading \in ReadingType
        /\ o.reading.at = reading.at /\ o.reading.missed = reading.missed
        /\ SumSizes(o.reading.kept) <= program[reading.at].limit
        /\ o.says = <<>> \/ (Told(o.says, reading) /\ o.reading.over)
    BY Zenon DEF Outcome
  <1>3. CASE o.says = <<>>
    <2>1. UNCHANGED <<answers, pc, status>>
      BY <1>3 DEF Says
    <2> QED BY <1>1, <1>2, <2>1 DEF ReadStep, Spoke
  <1>4. CASE Told(o.says, reading) /\ o.reading.over
    <2>1. PICK a \in AnswerType : o.says = <<a>> /\ a.at = reading.at /\ Right(a)
      BY <1>4 DEF Told
    <2>2. Spoke
      <3>1. Says(<<a>>) /\ a.at = pc /\ status \in {"running", "collecting"}
        BY <1>1, <2>1
      <3> QED BY <2>1, <3>1, Zenon DEF Spoke
    <2>3. reading'.over
      BY <1>4
    <2> QED BY <1>1, <1>2, <2>2, <2>3 DEF ReadStep
  <1> QED BY <1>2, <1>3, <1>4

LEMMA QuietStep ==
  ASSUME Inv, UNCHANGED <<reading, answers, pc, status>>
  PROVE  ReadStep
  <1>1. /\ reading \in ReadingType
        /\ reading.at # 0 => SumSizes(reading.kept) <= program[reading.at].limit
    BY DEF Inv, ReaderType, ReadInv
  <1> QED BY <1>1 DEF ReadStep, Spoke

\* Those on the stream get the piece that follows what they were given.
LEMMA EmitStep ==
  ASSUME Inv, handler = "stream", NEW piece \in Piece, Emit(piece),
         piece.from = Away, piece.upto <= request.len
  PROVE  /\ ReadStep /\ Hears
         /\ heard' = IF "app" \in listeners THEN Append(heard, piece) ELSE heard
         /\ ~reading'.over /\ "parser" \in listeners => Keeps(reading', piece.upto)
  <1>1. /\ heard' = IF "app" \in listeners THEN Append(heard, piece) ELSE heard
        /\ Hears
    BY DEF Emit, Hears
  <1>2. CASE "parser" \notin listeners
    <2>1. UNCHANGED <<reading, answers, pc, status>>
      BY <1>2 DEF Emit
    <2> QED BY <1>1, <1>2, <2>1, QuietStep
  <1>3. CASE "parser" \in listeners
    <2>1. PICK o \in OnData(program[reading.at], reading, piece) :
                reading' = o.reading /\ Says(o.says)
      BY <1>3, Zenon DEF Emit
    <2>2. CASE reading.over
      <3>1. o.reading = reading /\ o.says = <<>>
        BY <2>2 DEF OnData, Silent
      <3>2. UNCHANGED <<reading, answers, pc, status>>
        BY <2>1, <3>1 DEF Says
      <3> QED BY <1>1, <2>2, <3>2, QuietStep
    <2>3. CASE ~reading.over
      <3>1. Reads
        BY <1>3, <2>3 DEF Reads, Feeding
      <3>2. Sound(reading) /\ Keeps(reading, piece.from)
        <4>1. KeptInv
          BY <3>1, ReaderSound
        <4> QED BY <3>1, <4>1, ReaderSound DEF KeptInv
      <3>3. Outcome(o, reading) /\ (~o.reading.over => Keeps(o.reading, piece.upto))
        BY <2>3, <3>2, OnDataRight
      <3>4. ReadStep
        BY <2>1, <3>1, <3>3, FeedStep
      <3> QED BY <1>1, <2>1, <3>3, <3>4
    <2> QED BY <2>2, <2>3
  <1> QED BY <1>2, <1>3

-----------------------------------------------------------------------------
(* What a step in which pieces move leaves true.                             *)

\* Whoever had the body has it, or is done collecting it.
SameReaders ==
    /\ UNCHANGED listeners
    /\ handler' = handler \/ (handler = "collect" /\ handler' = "none")

LEMMA ReadKept ==
  ASSUME Inv, ReadStep, Hears, SameReaders, UNCHANGED <<request, program>>,
         reading.at # 0 => SumSizes(gathered') <= program[reading.at].limit,
         handler' = "collect" => reading' = reading,
         Reads' => KeptInv'
  PROVE  ReadInv'
  <1>1. ReadInv /\ heard \in Seq(Piece)
    BY DEF Inv, StreamType
  <1>2. ASSUME Reads' PROVE status' = "collecting" /\ reading'.at = pc'
    <2>1. Reads
      BY <1>2 DEF Reads, Feeding, SameReaders, ReadStep
    <2> QED BY <1>1, <1>2, <2>1 DEF ReadStep, Reads, ReadInv
  <1>3. handler' = "collect" => ~reading'.over
    BY <1>1 DEF SameReaders, ReadInv
  <1>4. reading'.at # 0 =>
          /\ reading'.at \in 1 .. Len(program') /\ program'[reading'.at].do = "parse"
          /\ SumSizes(reading'.kept) <= program'[reading'.at].limit
          /\ SumSizes(gathered') <= program'[reading'.at].limit
    BY <1>1 DEF ReadStep, ReadInv
  <1>5. reading'.missed > 0 => \E j \in 1 .. Len(heard') : heard'[j].upto = reading'.missed
    BY <1>1, HeardStays DEF ReadStep, ReadInv
  <1> QED BY <1>2, <1>3, <1>4, <1>5 DEF ReadInv

LEMMA OverKept ==
  ASSUME OverInv, UNCHANGED <<aborted, destroyed, finished>>,
         \/ status' = status
         \/ status \in {"running", "collecting"} /\ status' \in {"running", "refused"}
  PROVE  OverInv'
  BY DEF OverInv

\* Bytes move, and the Readable has had the first of them or somebody else has.
LEMMA ClaimKept ==
  ASSUME Inv, ReadStep, SameReaders,
         UNCHANGED <<request, sync, bodyClaimed, finished, bodyRead>>,
         status = "done" => status' = "done",
         gathered' = gathered \/ handler = "collect",
         \/ UNCHANGED <<receivedData, heard, buffered>>
         \/ receivedData' = TRUE /\ handler = "stream",
         ~receivedData' /\ ~bodyRead /\ status # "done" => Handed' = 0
  PROVE  ClaimInv'
  <1>1. ClaimInv /\ FieldType /\ WireType
    BY DEF Inv
  <1>2. Declared' = Declared
    BY DEF Declared
  <1>3. Feeding' => Feeding
    BY DEF Feeding, SameReaders
  <1>4. reading = NoReading => reading' = NoReading
    BY DEF ReadStep, NoReading
  <1>5. /\ Declared' /\ ~sync' /\ ~bodyClaimed' => finished'
        /\ handler' # "none" => bodyClaimed' /\ Declared'
        /\ Declared' /\ bodyRead' => bodyClaimed'
    BY <1>1, <1>2 DEF ClaimInv, SameReaders
  <1>6. bodyClaimed' /\ handler' = "none" => bodyRead'
    BY <1>1 DEF ClaimInv, SameReaders, Feeding
  <1>7. Declared' /\ receivedData' => handler' = "stream"
    BY <1>1, <1>2 DEF ClaimInv, SameReaders
  <1>8. "parser" \in listeners' => Declared' /\ receivedData'
    BY <1>1, <1>2 DEF ClaimInv, SameReaders
  <1>9. Feeding' => bodyRead'
    BY <1>1, <1>3 DEF ClaimInv
  <1>10. ~bodyRead' => gathered' = <<>> /\ reading' = NoReading
    BY <1>1, <1>4 DEF ClaimInv, Feeding
  <1>11. ~receivedData' /\ ~bodyRead' /\ status' # "done" => Handed' = 0
    OBVIOUS
  <1>12. ~receivedData' \/ ~Declared' => buffered' = <<>> /\ heard' = <<>>
    <2>1. handler = "stream" => Declared
      BY <1>1 DEF ClaimInv
    <2> QED BY <1>1, <1>2, <2>1 DEF ClaimInv
  <1> QED BY <1>5, <1>6, <1>7, <1>8, <1>9, <1>10, <1>11, <1>12, Zenon DEF ClaimInv

-----------------------------------------------------------------------------
(* The transport hands on the piece that follows.                            *)

Passes(piece, isLast) ==
    /\ piece \in Piece /\ piece.from = Handed /\ piece.upto <= request.len
    /\ Handed' = piece.upto /\ isLast \in BOOLEAN
    /\ isLast => piece.upto = request.len /\ last'
    /\ ~last /\ ~aborted /\ ~sync /\ Declared
    /\ UNCHANGED <<transport, request, program, sync, responseVars, bodyRead,
                   bodyClaimed, emptyBody, flow, endEmitted, destroyed, listeners>>

LEMMA PlaceTypes ==
  ASSUME Inv
  PROVE  Handed \in Nat /\ Away \in Nat
  <1>1. sent \in Nat /\ held \in Seq(Piece) /\ buffered \in Seq(Piece)
    BY DEF Inv, WireType, StreamType
  <1>2. Handed \in Nat
    <2>1. CASE held = <<>>
      BY <1>1, <2>1 DEF Handed
    <2>2. CASE held # <<>>
      <3>1. held[1] \in Piece
        BY <1>1, <2>2
      <3> QED BY <2>2, <3>1, PieceFacts DEF Handed
    <2> QED BY <2>1, <2>2
  <1>3. Away \in Nat
    <2>1. CASE buffered = <<>>
      BY <1>2, <2>1 DEF Away
    <2>2. CASE buffered # <<>>
      <3>1. buffered[1] \in Piece
        BY <1>1, <2>2
      <3> QED BY <2>2, <3>1, PieceFacts DEF Away
    <2> QED BY <2>1, <2>2
  <1> QED BY <1>2, <1>3

\* What a piece that was handed on changed.
Passed ==
    /\ ReadStep /\ Hears /\ SameReaders
    /\ receivedData' \in BOOLEAN /\ paused' \in BOOLEAN /\ complete' \in BOOLEAN
    /\ readable' \in BOOLEAN /\ ended' \in BOOLEAN
    /\ buffered' \in Seq(Piece) /\ gathered' \in Seq(Piece)
    /\ gathered' = gathered \/ handler = "collect"
    /\ IF handler = "stream" THEN receivedData' = TRUE
                             ELSE UNCHANGED <<receivedData, heard, buffered>>
    /\ reading.at # 0 => SumSizes(gathered') <= program[reading.at].limit
    /\ handler' = "collect" => reading' = reading
    /\ Reads' => KeptInv'

\* To the Readable: straight to the listeners.
LEMMA StreamEmits ==
  ASSUME Inv, NEW piece, NEW isLast, Passes(piece, isLast), handler = "stream",
         buffered = <<>>, flow # "off", Emit(piece), UNCHANGED <<handler, buffered>>
  PROVE  /\ ReadStep /\ Hears /\ StreamInv'
         /\ Reads' => KeptInv'
  <1>1. /\ piece \in Piece /\ piece.from = Away /\ piece.upto <= request.len
        /\ Handed' = piece.upto /\ Away' = piece.upto /\ piece.upto \in Nat
    BY PieceFacts DEF Passes, Away
  <1>2. /\ ReadStep /\ Hears
        /\ heard' = IF "app" \in listeners THEN Append(heard, piece) ELSE heard
        /\ ~reading'.over /\ "parser" \in listeners => Keeps(reading', piece.upto)
    BY <1>1, EmitStep
  <1>3. /\ handler' = handler /\ listeners' = listeners /\ buffered' = <<>>
        /\ request' = request
    BY DEF Passes
  <1>4. StreamInv'
    <2>1. Chain(buffered', Away', Handed')
      BY <1>1, <1>3, ChainEmpty
    <2>2. ASSUME status' # "done", "parser" \notin listeners
          PROVE  Chain(heard', 0, Away')
      <3>1. status # "done"
        BY <1>2, <2>2 DEF ReadStep, Spoke
      <3>2. Chain(heard, 0, Away) /\ heard \in Seq(Piece) /\ Away \in Nat
        BY <2>2, <3>1, PlaceTypes DEF Inv, StreamInv, StreamType
      <3>3. "app" \in listeners
        BY <2>2 DEF Inv, EndInv, StreamType
      <3>4. Chain(Append(heard, piece), 0, piece.upto)
        BY <1>1, <3>2, ChainAppend
      <3> QED BY <1>1, <1>2, <3>3, <3>4
    <2> QED BY <1>3, <2>1, <2>2 DEF StreamInv
  <1>5. ASSUME Reads' PROVE KeptInv'
    <2>1. ~reading'.over /\ "parser" \in listeners
      BY <1>3, <1>5 DEF Reads, Feeding
    <2>2. Keeps(reading', piece.upto)
      BY <1>2, <2>1
    <2>3. Keeps(reading, Away)'
      BY <1>1, <1>3, <2>2 DEF Keeps, Inflates
    <2> QED BY <1>3, <2>3 DEF KeptInv
  <1> QED BY <1>2, <1>4, <1>5

\* To the Readable: into its buffer.
LEMMA StreamBuffers ==
  ASSUME Inv, NEW piece, NEW isLast, Passes(piece, isLast), handler = "stream",
         buffered' = IF Size(piece) = 0 THEN buffered ELSE Append(buffered, piece),
         UNCHANGED <<handler, heard, reading, answers, pc, status>>
  PROVE  /\ ReadStep /\ Hears /\ StreamInv'
         /\ Reads' => KeptInv'
         /\ buffered' \in Seq(Piece)
  <1>1. /\ piece \in Piece /\ piece.from = Handed /\ Handed' = piece.upto
        /\ piece.upto \in Nat /\ Handed \in Nat /\ Away \in Nat
        /\ piece.upto = piece.from + Size(piece) /\ Size(piece) \in Nat
    BY PieceFacts, PlaceTypes DEF Passes
  <1>2. ReadStep /\ Hears
    BY QuietStep DEF Hears
  <1>3. /\ handler' = handler /\ listeners' = listeners /\ request' = request
        /\ buffered \in Seq(Piece)
    BY DEF Passes, Inv, StreamType
  <1>4. buffered' \in Seq(Piece) /\ Away' = Away
    <2>1. CASE Size(piece) = 0
      BY <1>1, <1>3, <2>1 DEF Away
    <2>2. CASE Size(piece) # 0 /\ buffered = <<>>
      <3>1. PICK t : t = Append(buffered, piece)
        OBVIOUS
      <3>2. t # <<>> /\ t[1] = piece /\ t \in Seq(Piece)
        BY <1>1, <1>3, <2>2, <3>1
      <3>3. buffered' = t
        BY <2>2, <3>1
      <3> QED BY <1>1, <2>2, <3>2, <3>3 DEF Away
    <2>3. CASE Size(piece) # 0 /\ buffered # <<>>
      <3>1. buffered' # <<>> /\ buffered'[1] = buffered[1] /\ buffered' \in Seq(Piece)
        BY <1>1, <1>3, <2>3
      <3> QED BY <2>3, <3>1 DEF Away
    <2> QED BY <2>1, <2>2, <2>3
  <1>5. StreamInv'
    <2>1. ASSUME status # "done"
          PROVE  Chain(buffered', Away', Handed')
                 /\ ("parser" \notin listeners' => Chain(heard', 0, Away'))
      <3>1. /\ Chain(buffered, Away, Handed)
            /\ "parser" \notin listeners => Chain(heard, 0, Away)
        BY <2>1 DEF Inv, StreamInv
      <3>2. CASE Size(piece) = 0
        BY <1>1, <1>3, <1>4, <3>1, <3>2
      <3>3. CASE Size(piece) # 0
        <4>1. Chain(Append(buffered, piece), Away, piece.upto)
          BY <1>1, <1>3, <3>1, ChainAppend
        <4> QED BY <1>1, <1>3, <1>4, <3>1, <3>3, <4>1
      <3> QED BY <3>2, <3>3
    <2> QED BY <2>1 DEF StreamInv
  <1>6. ASSUME Reads' PROVE KeptInv'
    <2>1. Reads
      BY <1>3, <1>6 DEF Reads, Feeding
    <2>2. Keeps(reading, Away)
      BY <2>1, ReaderSound DEF KeptInv
    <2>3. Keeps(reading, Away)'
      BY <1>3, <1>4, <2>2 DEF Keeps, Inflates
    <2> QED BY <1>3, <2>3 DEF KeptInv
  <1> QED BY <1>2, <1>4, <1>5, <1>6

LEMMA StreamPass ==
  ASSUME Inv, NEW piece, NEW isLast, Passes(piece, isLast), handler = "stream",
         StreamData(piece, isLast), UNCHANGED <<handler, gathered, readable>>
  PROVE  Passed /\ StreamInv' /\ EndInv'
  <1>1. /\ FieldType /\ StreamType /\ WireType /\ ReaderType
        /\ OverInv /\ EndInv /\ ReadInv /\ isLast \in BOOLEAN
    BY DEF Inv, Passes
  <1>2. /\ ReadStep /\ Hears /\ StreamInv'
        /\ Reads' => KeptInv'
        /\ buffered' \in Seq(Piece)
    <2>1. CASE Over \/ destroyed
      <3>1. UNCHANGED <<buffered, heard, reading, answers, pc, status, listeners>>
        BY <2>1, Zenon DEF StreamData, Passes
      <3>2. status = "done"
        BY <1>1, <2>1 DEF OverInv, Over, Passes
      <3>3. ~Reads'
        BY <1>1, <3>1, <3>2 DEF ReadInv, Reads, Feeding
      <3>4. StreamInv'
        BY <3>1, <3>2 DEF StreamInv
      <3> QED BY <1>1, <3>1, <3>3, <3>4, QuietStep DEF Hears, StreamType
    <2>2. CASE ~(Over \/ destroyed) /\ flow # "off" /\ buffered = <<>>
      <3>1. Emit(piece) /\ UNCHANGED buffered
        BY <2>2, Zenon DEF StreamData
      <3>2. buffered' \in Seq(Piece)
        BY <1>1, <3>1 DEF StreamType
      <3> QED BY <2>2, <3>1, <3>2, StreamEmits
    <2>3. CASE ~(Over \/ destroyed) /\ ~(flow # "off" /\ buffered = <<>>)
      <3>1. /\ buffered' = IF Size(piece) = 0 THEN buffered ELSE Append(buffered, piece)
            /\ UNCHANGED <<heard, reading, answers, pc, status>>
        BY <2>3, Zenon DEF StreamData
      <3> QED BY <3>1, StreamBuffers
    <2> QED BY <2>1, <2>2, <2>3, Zenon
  <1>3. /\ receivedData' = TRUE
        /\ paused' \in BOOLEAN /\ complete' \in BOOLEAN /\ ended' \in BOOLEAN
        /\ ended' => ended \/ isLast
    <2>1. CASE Over \/ destroyed
      BY <1>1, <2>1 DEF StreamData, FieldType, WireType, StreamType
    <2>2. CASE ~(Over \/ destroyed)
      <3>1. /\ complete' = (complete \/ isLast) /\ ended' = (ended \/ isLast)
            /\ paused' = (paused \/ (~isLast /\ SumSizes(buffered') >= HighWaterMark))
            /\ receivedData' = TRUE
        BY <2>2, Zenon DEF StreamData
      <3> QED BY <1>1, <3>1, Zenon DEF FieldType, WireType, StreamType
    <2> QED BY <2>1, <2>2
  <1>4. EndInv'
    <2>1. /\ emptyBody' => ~Declared'
          /\ flow' # "off" => listeners' # {}
      BY <1>1 DEF EndInv, Passes, Declared
    <2>2. ended' /\ Declared' => last'
      BY <1>1, <1>3 DEF EndInv, Passes, Declared
    <2> QED BY <2>1, <2>2 DEF EndInv
  <1>5. /\ SameReaders /\ readable' \in BOOLEAN /\ gathered' \in Seq(Piece)
        /\ reading.at # 0 => SumSizes(gathered') <= program[reading.at].limit
    BY <1>1 DEF SameReaders, Passes, FieldType, ReaderType, ReadInv
  <1> QED BY <1>2, <1>3, <1>4, <1>5 DEF Passed

\* What a piece that does not go to the Readable leaves of it.
LEMMA ElsewhereStep ==
  ASSUME Inv, NEW piece, NEW isLast, Passes(piece, isLast), handler # "stream",
         handler' # "stream", UNCHANGED ended
  PROVE  StreamInv' /\ EndInv'
  <1>1. StreamInv'
    BY DEF StreamInv
  <1>2. EndInv'
    BY DEF Inv, EndInv, Passes, Declared
  <1> QED BY <1>1, <1>2

\* A parser is not on the stream when it is fed by the transport.
LEMMA OneReader ==
  ASSUME Inv, handler # "stream"
  PROVE  "parser" \notin listeners
  BY DEF Inv, ClaimInv

\* What an outcome is of, besides the record itself.
LEMMA OutcomeSame ==
  ASSUME NEW q, NEW x, Outcome(x, q), NEW r, q.at = r.at, q.missed = r.missed,
         NEW e, e.reading = x.reading, e.says = x.says
  PROVE  Outcome(e, r)
  BY DEF Outcome, Told

LEMMA OnEndRecord ==
  ASSUME NEW p, NEW r, NEW x, x = OnEnd(p, r)
  PROVE  x = [reading |-> x.reading, says |-> x.says]
  <1>1. CASE r.over
    BY <1>1 DEF OnEnd, Silent
  <1>2. CASE ~r.over /\ Inflates /\ Finishes(r) /\ Upto(r.kept) # Decoded
    <2>a. PICK q : q = [r EXCEPT !.over = TRUE]
      OBVIOUS
    <2>b. PICK c : c = [from |-> Upto(r.kept), upto |-> Decoded]
      OBVIOUS
    <2>1. PICK k : k = KeepChunk(p, q, c)
      OBVIOUS
    <2>2. k = [reading |-> k.reading, says |-> k.says]
      BY <2>1, KeepRecord
    <2>3. x = IF k.says # <<>> THEN k
              ELSE [k EXCEPT !.says = <<Assemble(p, k.reading)>>]
      BY <1>2, <2>a, <2>b, <2>1 DEF OnEnd
    <2> QED BY <2>2, <2>3
  <1>3. CASE ~r.over /\ ~(Inflates /\ Finishes(r) /\ Upto(r.kept) # Decoded)
    BY <1>3 DEF OnEnd, FailInflate
  <1> QED BY <1>1, <1>2, <1>3

\* A last piece, then the end.
Ends(e, d, p) ==
    LET x == OnEnd(p, d.reading)
    IN  e.reading = x.reading /\ e.says = d.says \o x.says

LEMMA LastPiece ==
  ASSUME NEW p, NEW r, NEW piece, NEW isLast, isLast,
         NEW e \in OnDataLast(p, r, piece, isLast)
  PROVE  \E d \in OnData(p, r, piece) : Ends(e, d, p)
  <1>1. PICK d \in OnData(p, r, piece) :
           e = LET x == OnEnd(p, d.reading) IN [x EXCEPT !.says = d.says \o @]
    BY DEF OnDataLast
  <1>2. PICK x : x = OnEnd(p, d.reading)
    OBVIOUS
  <1>3. e = [x EXCEPT !.says = d.says \o @]
    BY <1>1, <1>2
  <1>4. x = [reading |-> x.reading, says |-> x.says]
    BY <1>2, OnEndRecord
  <1>5. e.reading = x.reading /\ e.says = d.says \o x.says
    BY <1>3, <1>4
  <1> QED BY <1>2, <1>5 DEF Ends

\* To the parser's onData; the last piece ends it.
LEMMA ParserPass ==
  ASSUME Inv, NEW piece, NEW isLast, Passes(piece, isLast), handler = "parser",
         ParserData(program[reading.at], piece, isLast),
         UNCHANGED <<receivedData, paused, ended, buffered, heard, handler, gathered>>
  PROVE  Passed
  <1>1. /\ FieldType /\ StreamType /\ WireType /\ ReaderType /\ ReadInv
        /\ isLast \in BOOLEAN /\ heard \in Seq(Piece)
    BY DEF Inv, Passes, StreamType
  <1>2. PICK e \in OnDataLast(program[reading.at], reading, piece, isLast) :
              reading' = e.reading /\ Says(e.says)
    BY Zenon DEF ParserData
  <1>3. complete' \in BOOLEAN /\ readable' \in BOOLEAN
    BY <1>1 DEF ParserData, FieldType
  <1>4. ReadStep /\ (~reading'.over => ~isLast /\ Keeps(reading', piece.upto))
    <2>1. CASE reading.over
      <3>1. OnData(program[reading.at], reading, piece) = {Silent(reading)}
        BY <2>1 DEF OnData
      <3>2. e.reading = reading /\ e.says = <<>>
        <4>1. CASE ~isLast
          BY <1>2, <3>1, <4>1 DEF OnDataLast, Silent
        <4>2. CASE isLast
          <5>2. PICK d \in OnData(program[reading.at], reading, piece) :
                      Ends(e, d, program[reading.at])
            BY <1>2, <4>2, LastPiece
          <5>3. d.reading = reading /\ d.says = <<>>
            BY <3>1 DEF Silent
          <5>4. OnEnd(program[reading.at], d.reading) = Silent(reading)
            BY <2>1, <5>3 DEF OnEnd
          <5> QED BY <5>2, <5>3, <5>4 DEF Silent, Ends
        <4> QED BY <1>1, <4>1, <4>2
      <3>3. UNCHANGED <<reading, answers, pc, status>>
        BY <1>2, <3>2 DEF Says
      <3> QED BY <2>1, <3>3, QuietStep
    <2>2. CASE ~reading.over
      <3>1. Reads
        BY <2>2 DEF Reads, Feeding
      <3>2. Sound(reading) /\ Keeps(reading, piece.from) /\ reading.missed = 0
            /\ program[reading.at].parser \in {"json", "raw", "text", "form", "multipart"}
            /\ piece \in Piece /\ piece.upto <= request.len
            /\ (isLast => piece.upto = request.len) /\ Declared
        <4>1. KeptInv
          BY <3>1, ReaderSound
        <4> QED BY <3>1, <4>1, ReaderSound DEF KeptInv, Passes
      <3>3. CASE ~isLast
        <4>1. e \in OnData(program[reading.at], reading, piece)
          BY <1>2, <3>3 DEF OnDataLast
        <4>2. Outcome(e, reading) /\ (~e.reading.over => Keeps(e.reading, piece.upto))
          BY <2>2, <3>2, <4>1, OnDataRight
        <4> QED BY <1>2, <3>1, <3>3, <4>2, FeedStep
      <3>4. CASE isLast
        <4>1. PICK d \in OnData(program[reading.at], reading, piece) :
                    Ends(e, d, program[reading.at])
          BY <1>2, <3>4, LastPiece
        <4>2. PICK x :
                 /\ x = OnEnd(program[reading.at], d.reading)
                 /\ e.reading = x.reading /\ e.says = d.says \o x.says
          BY <4>1 DEF Ends
        <4>3. /\ Outcome(d, reading)
              /\ ~d.reading.over => Keeps(d.reading, piece.upto)
              /\ d.says = <<>> => ~d.reading.over
          BY <2>2, <3>2, OnDataRight
        <4>4. /\ d.reading \in ReadingType /\ d.reading.at = reading.at
              /\ d.reading.missed = reading.missed
              /\ SumSizes(d.reading.kept) <= program[reading.at].limit
              /\ d.says = <<>> \/ (Told(d.says, reading) /\ d.reading.over)
          BY <4>3, Zenon DEF Outcome
        <4>5. Outcome(e, reading) /\ e.reading.over
          <5>1. CASE d.says # <<>>
            <6>1. x = Silent(d.reading)
              BY <4>2, <4>4, <5>1 DEF OnEnd
            <6>2. PICK a : d.says = <<a>>
              BY <4>4, <5>1 DEF Told
            <6>3. e.reading = d.reading /\ e.says = d.says
              BY <4>2, <6>1, <6>2 DEF Silent
            <6> QED BY <4>3, <4>4, <5>1, <6>3, OutcomeSame
          <5>2. CASE d.says = <<>>
            <6>1. Sound(d.reading)
              BY <3>2, <4>4 DEF Sound
            <6>2. /\ ~d.reading.over /\ Keeps(d.reading, request.len)
                  /\ d.reading.missed = 0
              BY <3>2, <3>4, <4>3, <4>4, <5>2
            <6>3. x = OnEnd(program[d.reading.at], d.reading)
              BY <4>2, <4>4
            <6>4. Outcome(x, d.reading) /\ x.reading.over /\ x.says # <<>>
              BY <1>1, <3>2, <4>4, <6>1, <6>2, <6>3, OnEndRight
            <6>5. PICK a : x.says = <<a>>
              BY <6>4 DEF Outcome, Told
            <6>6. e.says = x.says /\ e.reading = x.reading
              BY <4>2, <5>2, <6>5
            <6> QED BY <4>4, <6>4, <6>6, OutcomeSame
          <5> QED BY <5>1, <5>2
        <4> QED BY <1>2, <3>1, <4>5, FeedStep
      <3> QED BY <1>1, <3>3, <3>4
    <2> QED BY <2>1, <2>2
  <1>5. Reads' => KeptInv'
    <2>1. ASSUME Reads' PROVE KeptInv'
      <3>1. ~reading'.over /\ ~reading.over
        BY <1>4, <2>1 DEF Reads, ReadStep
      <3>2. Reads
        BY <3>1 DEF Reads, Feeding
      <3>3. KeptInv
        BY <3>2, ReaderSound
      <3>4. Inflates' /\ reading'.missed = 0
        BY <1>4, <3>3 DEF KeptInv, ReadStep, Passes, Inflates
      <3>5. Keeps(reading', piece.upto)
        BY <1>4, <3>1
      <3>6. Keeps(reading, Handed)'
        BY <3>5 DEF Keeps, Passes, Inflates
      <3> QED BY <3>4, <3>6 DEF KeptInv
    <2> QED BY <2>1
  <1>6. /\ SameReaders /\ Hears
        /\ reading.at # 0 => SumSizes(gathered') <= program[reading.at].limit
    BY <1>1 DEF SameReaders, Passes, ReadInv, Hears
  <1>7. /\ receivedData' \in BOOLEAN /\ paused' \in BOOLEAN /\ ended' \in BOOLEAN
        /\ buffered' \in Seq(Piece) /\ gathered' \in Seq(Piece) /\ gathered' = gathered
        /\ UNCHANGED <<receivedData, heard, buffered>> /\ handler' # "collect"
    BY <1>1 DEF FieldType, StreamType, WireType, ReaderType
  <1> QED BY <1>3, <1>4, <1>5, <1>6, <1>7 DEF Passed

\* The whole in one callback, natively: past the limit the rest is dropped.
LEMMA CollectPass ==
  ASSUME Inv, NEW piece, NEW isLast, Passes(piece, isLast), handler = "collect",
         CollectData(program[reading.at], piece, isLast), sent' = piece.upto,
         UNCHANGED <<receivedData, paused, ended, buffered, heard, complete, readable>>
  PROVE  Passed /\ handler' # "stream"
  <1>1. /\ FieldType /\ StreamType /\ WireType /\ ReaderType /\ ReadInv
        /\ gathered \in Seq(Piece) /\ isLast \in BOOLEAN
    BY DEF Inv, Passes, ReaderType
  <1>2. "parser" \notin listeners /\ listeners' = listeners
    BY OneReader DEF Passes
  <1>3. Reads
    BY <1>1 DEF ReadInv, Reads, Feeding
  <1>4. /\ Sound(reading) /\ ~reading.over /\ reading \in ReadingType
        /\ ~Inflates /\ reading.missed = 0 /\ Chain(gathered, 0, sent)
        /\ program[reading.at].parser \in {"json", "raw", "text", "form", "multipart"}
    BY <1>3, ReaderSound DEF KeptInv
  <1>5. /\ piece \in Piece /\ piece.from = sent /\ piece.upto <= request.len
        /\ piece.from \in Nat /\ piece.upto \in Nat
        /\ piece.upto = piece.from + Size(piece)
        /\ (isLast => piece.upto = request.len)
    <2>1. held = <<>>
      BY DEF Inv, WireInv
    <2>2. Handed = sent
      BY <2>1 DEF Handed
    <2> QED BY <2>2, PieceFacts DEF Passes
  <1>6. request.len \in Nat /\ Decoded = request.len /\ program[reading.at].limit \in Nat
    BY <1>4, RequestFacts DEF Sound, Decoded
  <1>7. PICK all : all = IF Size(piece) = 0 THEN gathered ELSE Append(gathered, piece)
    OBVIOUS
  <1>8. all \in Seq(Piece) /\ Chain(all, 0, piece.upto)
    <2>1. CASE Size(piece) = 0
      BY <1>1, <1>4, <1>5, <1>7, <2>1
    <2>2. CASE Size(piece) # 0
      <3>1. Chain(Append(gathered, piece), 0, piece.upto) /\ Append(gathered, piece) \in Seq(Piece)
        BY <1>1, <1>4, <1>5, ChainAppend
      <3> QED BY <1>7, <2>2, <3>1
    <2> QED BY <2>1, <2>2
  <1>9. SumSizes(all) = piece.upto
    BY <1>5, <1>8, ChainSum DEF Spans
  <1>10. PICK q : q = [reading EXCEPT !.over = TRUE]
    OBVIOUS
  <1>11. /\ Sound(q) /\ q \in ReadingType /\ q.at = reading.at /\ q.missed = reading.missed
         /\ q.over = TRUE /\ q.kept = reading.kept
         /\ SumSizes(q.kept) <= program[reading.at].limit
    BY <1>4, <1>10, SoundOver DEF Sound
  <1>12. /\ receivedData' \in BOOLEAN /\ paused' \in BOOLEAN /\ complete' \in BOOLEAN
         /\ readable' \in BOOLEAN /\ ended' \in BOOLEAN /\ buffered' \in Seq(Piece)
         /\ UNCHANGED <<receivedData, heard, buffered>> /\ Hears
    BY <1>1 DEF FieldType, StreamType, WireType, Hears
  <1>13. CASE SumSizes(all) > program[reading.at].limit
    <2>1. /\ handler' = "none" /\ gathered' = <<>> /\ reading' = q
          /\ Says(<<Answer("413", reading.at, <<>>)>>)
      BY <1>7, <1>10, <1>13, Zenon DEF CollectData
    <2>2. Told(<<Answer("413", reading.at, <<>>)>>, reading)
      <3>1. "413" \in Verdict \ {"parsed"}
        BY DEF Verdict
      <3>2. Decoded > program[reading.at].limit
        BY <1>5, <1>6, <1>9, <1>13
      <3> QED BY <1>4, <3>1, <3>2, Refusal
    <2>3. PICK o : o = [reading |-> q, says |-> <<Answer("413", reading.at, <<>>)>>]
      OBVIOUS
    <2>4. Outcome(o, reading) /\ o.reading = q /\ o.says = <<Answer("413", reading.at, <<>>)>>
      BY <1>11, <2>2, <2>3, OutcomeTold
    <2>5. ReadStep
      BY <1>3, <2>1, <2>4, FeedStep
    <2>6. SameReaders /\ ~Reads' /\ gathered' \in Seq(Piece)
      BY <1>2, <2>1 DEF SameReaders, Reads, Feeding
    <2>7. reading.at # 0 => SumSizes(gathered') <= program[reading.at].limit
      BY <1>6, <2>1, SumSizesEmpty
    <2> QED BY <1>12, <2>1, <2>5, <2>6, <2>7 DEF Passed
  <1>14. CASE ~(SumSizes(all) > program[reading.at].limit) /\ ~isLast
    <2>1. gathered' = all /\ UNCHANGED <<handler, reading, answers, pc, status>>
      BY <1>7, <1>14, Zenon DEF CollectData
    <2>2. ReadStep
      BY <2>1, QuietStep
    <2>3. KeptInv'
      <3>1. Chain(gathered', 0, sent') /\ ~Inflates' /\ reading'.missed = 0
        BY <1>4, <1>8, <2>1 DEF Passes, Inflates
      <3> QED BY <2>1, <3>1 DEF KeptInv
    <2>4. SameReaders
      BY <1>2, <2>1 DEF SameReaders
    <2>5. SumSizes(gathered') <= program[reading.at].limit
      BY <1>5, <1>6, <1>9, <1>14, <2>1
    <2> QED BY <1>8, <1>12, <2>1, <2>2, <2>3, <2>4, <2>5 DEF Passed
  <1>15. CASE ~(SumSizes(all) > program[reading.at].limit) /\ isLast
    <2>1. PICK r : r = [reading EXCEPT !.kept = all]
      OBVIOUS
    <2>2. /\ gathered' = all /\ handler' = "none" /\ reading' = q
          /\ Says(<<Assemble(program[reading.at], r)>>)
      BY <1>7, <1>10, <1>15, <2>1, Zenon DEF CollectData
    <2>3. /\ r \in ReadingType /\ r.at = reading.at /\ r.missed = reading.missed
          /\ r.kept = all
      BY <1>4, <1>8, <2>1, ReadingKept
    <2>4. SumSizes(all) <= program[reading.at].limit
      BY <1>5, <1>6, <1>9, <1>15
    <2>5. Sound(r)
      BY <1>4, <2>3, <2>4 DEF Sound
    <2>6. WholeOf(r.kept)
      BY <1>5, <1>6, <1>8, <1>15, <2>3 DEF WholeOf
    <2>7. Told(<<Assemble(program[r.at], r)>>, r)
      BY <1>4, <2>3, <2>5, <2>6, AssembleRight
    <2>8. PICK says : says = <<Assemble(program[reading.at], r)>>
      OBVIOUS
    <2>9. Told(says, reading)
      BY <2>3, <2>7, <2>8 DEF Told
    <2>10. PICK o : o = [reading |-> q, says |-> says]
      OBVIOUS
    <2>11. Outcome(o, reading) /\ o.reading = q /\ o.says = says
      BY <1>11, <2>9, <2>10, OutcomeTold
    <2>12. ReadStep
      BY <1>3, <2>2, <2>8, <2>11, FeedStep
    <2>13. SameReaders /\ ~Reads'
      BY <1>2, <2>2 DEF SameReaders, Reads, Feeding
    <2> QED BY <1>8, <1>12, <2>2, <2>4, <2>12, <2>13 DEF Passed
  <1> QED BY <1>13, <1>14, <1>15

\* To whoever registered last, or to nobody.
LEMMA HandPass ==
  ASSUME Inv, NEW piece, NEW isLast, Passes(piece, isLast), Hand(piece, isLast),
         handler = "collect" => sent' = piece.upto
  PROVE  Passed /\ StreamInv' /\ EndInv'
  <1>1. CASE handler = "stream"
    <2>1. StreamData(piece, isLast) /\ UNCHANGED <<handler, gathered, readable>>
      BY <1>1, Zenon DEF Hand
    <2> QED BY <1>1, <2>1, StreamPass
  <1>2. CASE handler = "parser"
    <2>1. /\ ParserData(program[reading.at], piece, isLast)
          /\ UNCHANGED <<receivedData, paused, ended, buffered, heard, handler, gathered>>
      BY <1>2 DEF Hand
    <2>2. handler # "stream" /\ handler' # "stream"
      BY <1>2, <2>1
    <2> QED BY <1>2, <2>1, <2>2, ParserPass, ElsewhereStep
  <1>3. CASE handler = "collect"
    <2>1. /\ CollectData(program[reading.at], piece, isLast)
          /\ UNCHANGED <<receivedData, paused, ended, buffered, heard, complete, readable>>
      BY <1>3 DEF Hand
    <2>2. Passed /\ handler' # "stream"
      BY <1>3, <2>1, CollectPass
    <2> QED BY <1>3, <2>1, <2>2, ElsewhereStep
  <1>4. CASE handler = "none"
    <2>1. UNCHANGED <<receivedData, paused, ended, buffered, heard, handler,
                      gathered, complete, readable, reading, answers, pc, status>>
      BY <1>4 DEF Hand
    <2>2. StreamInv' /\ EndInv'
      BY <1>4, <2>1, ElsewhereStep
    <2>3. ReadStep
      BY <2>1, QuietStep
    <2>4. "parser" \notin listeners /\ listeners' = listeners
      BY <1>4, OneReader DEF Passes
    <2>5. SameReaders /\ Hears /\ ~Reads'
      BY <1>4, <2>1, <2>4 DEF SameReaders, Hears, Reads, Feeding
    <2>6. /\ FieldType /\ StreamType /\ WireType /\ ReaderType /\ ReadInv
      BY DEF Inv
    <2> QED BY <1>4, <2>1, <2>2, <2>3, <2>5, <2>6
            DEF Passed, FieldType, StreamType, WireType, ReaderType, ReadInv
  <1> QED BY <1>1, <1>2, <1>3, <1>4 DEF Inv, WireType

\* The transport's own part, and the whole step.
LEMMA PassInv ==
  ASSUME Inv, NEW piece, NEW isLast, Passes(piece, isLast), Hand(piece, isLast),
         handler = "collect" => sent' = piece.upto,
         sent' \in Nat, last' \in BOOLEAN, held' \in Seq(Piece),
         handler' \in {handler, "none"} => WireInv'
  PROVE  Inv'
  <1>1. Passed /\ StreamInv' /\ EndInv'
    BY HandPass
  <1>2. /\ ReadStep /\ Hears /\ SameReaders /\ ProgramType /\ AnswerInv /\ OverInv
        /\ heard \in Seq(Piece) /\ UNCHANGED <<program, request>>
    BY <1>1 DEF Passed, Inv, StreamType, Passes
  <1>3. /\ answers' \in Seq(AnswerType) /\ pc' \in Nat \ {0}
        /\ status' \in {"running", "collecting", "waiting", "refused", "done"}
        /\ \/ status' = status
           \/ status \in {"running", "collecting"} /\ status' \in {"running", "refused"}
        /\ AnswerInv'
    BY <1>2, SpokeStep DEF ReadStep
  <1>4. OverInv'
    BY <1>2, <1>3, OverKept DEF Passes, responseVars
  <1>5. ReadInv'
    BY <1>1, <1>2, ReadKept DEF Passed
  <1>6. ClaimInv'
    <2>1. ~(~receivedData' /\ ~bodyRead /\ status # "done")
      BY <1>1, <1>2 DEF Passed, Inv, ClaimInv, OverInv, Passes, Feeding, WireType
    <2>2. gathered' = gathered \/ handler = "collect"
      BY <1>1 DEF Passed
    <2>3. \/ UNCHANGED <<receivedData, heard, buffered>>
          \/ receivedData' = TRUE /\ handler = "stream"
      BY <1>1 DEF Passed
    <2>4. UNCHANGED <<request, sync, bodyClaimed, finished, bodyRead>>
      BY DEF Passes, responseVars
    <2>5. status = "done" => status' = "done"
      BY <1>3
    <2> QED BY <1>2, <2>1, <2>2, <2>3, <2>4, <2>5, ClaimKept
  <1>7. ProgramType'
    BY <1>2, <1>3 DEF ProgramType, Passes, responseVars
  <1>8. FieldType'
    BY <1>1 DEF Inv, FieldType, Passed, Passes
  <1>9. StreamType'
    BY <1>1, <1>2, HeardStays DEF Inv, StreamType, Passed, Passes
  <1>10. handler' \in {handler, "none"}
    BY <1>2 DEF SameReaders
  <1>11. WireType'
    BY <1>1, <1>10 DEF Inv, WireType, Passed
  <1>12. ReaderType'
    BY <1>1, <1>2 DEF ReaderType, Passed, ReadStep
  <1> QED BY <1>1, <1>3, <1>4, <1>5, <1>6, <1>7, <1>8, <1>9, <1>10, <1>11, <1>12 DEF Inv

LEMMA UwsPieceStep == ASSUME Inv, UwsPiece PROVE Inv'
  <1>1. /\ ProgramType /\ WireType /\ WireInv /\ request.len \in Nat
        /\ transport = "uws" /\ held = <<>> /\ sent \in Nat /\ sent <= request.len
    BY ProgramFacts, RequestFacts DEF Inv, WireInv, WireType, UwsPiece
  <1>2. PICK n \in 0 .. request.len - sent, isLast \in BOOLEAN :
            /\ isLast = (sent + n = request.len /\ (n = 0 \/ request.framing = "length"))
            /\ sent' = sent + n /\ last' = isLast /\ UNCHANGED held
            /\ Hand([from |-> sent, upto |-> sent + n], isLast)
    BY DEF UwsPiece
  <1>3. PICK piece : piece = [from |-> sent, upto |-> sent + n]
    OBVIOUS
  <1>4. /\ piece \in Piece /\ piece.from = sent /\ piece.upto = sent + n
        /\ piece.upto <= request.len /\ sent + n \in Nat
    BY <1>1, <1>2, <1>3 DEF Piece
  <1>5. Hand(piece, isLast)
    BY <1>2, <1>3
  <1>6. Passes(piece, isLast)
    <2>1. Handed = sent /\ Handed' = sent'
      BY <1>1, <1>2 DEF Handed
    <2>2. isLast => piece.upto = request.len /\ last'
      BY <1>2, <1>4
    <2> QED BY <1>2, <1>4, <1>5, <2>1, <2>2 DEF Passes, UwsPiece, Brings, Hand
  <1>7. ASSUME handler' \in {handler, "none"} PROVE WireInv'
    <2>1. transport' = transport /\ request' = request
      BY <1>6 DEF Passes
    <2>2. last' => sent' = request.len
      BY <1>2
    <2> QED BY <1>1, <1>2, <1>4, <2>1, <2>2 DEF WireInv
  <1>8. held' \in Seq(Piece)
    BY <1>1, <1>2
  <1> QED BY <1>2, <1>4, <1>5, <1>6, <1>7, <1>8, PassInv

\* A chunk that waits for the next to tell whether it is the last moves nothing.
LEMMA HoldStep ==
  ASSUME Inv, handler # "collect", held = <<>>, NEW piece \in Piece, piece.from = sent,
         sent' = piece.upto, piece.upto <= request.len, held' = <<piece>>,
         transport = "shim", ~last, UNCHANGED last,
         UNCHANGED <<programVars, responseVars, fieldVars, streamVars, handler, gathered,
                     paused, reading>>
  PROVE  Inv'
  <1>1. PICK t : t = <<piece>>
    OBVIOUS
  <1>2. t \in Seq(Piece) /\ t # <<>> /\ Len(t) = 1 /\ t[1] = piece /\ held' = t
    BY <1>1
  <1>3. piece.upto \in Nat /\ Handed = sent /\ Handed' = sent
    BY <1>2, PieceFacts DEF Handed
  <1>4. Away' = Away
    BY <1>3 DEF Away, streamVars
  <1>5. UNCHANGED <<transport, request, program, pc, status, sync, answers, finished, aborted>>
    BY DEF programVars, responseVars
  <1>6. UNCHANGED <<receivedData, complete, readable, bodyRead, bodyClaimed, emptyBody>>
    BY DEF fieldVars
  <1>7. UNCHANGED <<buffered, ended, flow, endEmitted, destroyed, listeners, heard>>
    BY DEF streamVars
  <1>8. ProgramType' /\ FieldType' /\ StreamType' /\ ReaderType'
    BY <1>5, <1>6, <1>7 DEF Inv, ProgramType, FieldType, StreamType, ReaderType
  <1>9. WireType' /\ WireInv'
    BY <1>2, <1>3, <1>5 DEF Inv, WireType, WireInv
  <1>10. OverInv' /\ EndInv'
    BY <1>5, <1>6, <1>7 DEF Inv, OverInv, EndInv, Declared
  <1>11. ClaimInv'
    BY <1>3, <1>5, <1>6, <1>7 DEF Inv, ClaimInv, Declared, Feeding
  <1>12. StreamInv'
    BY <1>3, <1>4, <1>5, <1>7 DEF Inv, StreamInv
  <1>13. Reads' = Reads
    BY <1>7 DEF Reads, Feeding
  <1>14. ASSUME Reads PROVE KeptInv'
    <2>1. KeptInv
      BY <1>14 DEF Inv, ReadInv
    <2> QED BY <1>3, <1>4, <1>5, <2>1 DEF KeptInv, Keeps, Inflates
  <1>15. ReadInv'
    BY <1>5, <1>7, <1>13, <1>14 DEF Inv, ReadInv
  <1>16. AnswerInv'
    BY <1>5, <1>7 DEF Inv, AnswerInv, Right, WholeOf, Decoded, Inflates, Owes, AnsweredOnce
  <1> QED BY <1>8, <1>9, <1>10, <1>11, <1>12, <1>15, <1>16 DEF Inv

\* The chunk that was held.
LEMMA HeldFacts ==
  ASSUME Inv, held # <<>>
  PROVE  /\ held[1] \in Piece /\ held[1].from = Handed /\ held[1].upto = sent
         /\ held[1].upto <= request.len /\ handler # "collect"
  <1>1. held \in Seq(Piece) /\ WireInv
    BY DEF Inv, WireType
  <1>2. Len(held) = 1 /\ held[1].upto = sent /\ sent <= request.len /\ handler # "collect"
    BY <1>1 DEF WireInv
  <1>3. held[1] \in Piece
    BY <1>1, <1>2
  <1> QED BY <1>2, <1>3 DEF Handed

LEMMA ShimPieceStep == ASSUME Inv, ShimPiece PROVE Inv'
  <1>1. /\ WireType /\ WireInv /\ request.len \in Nat
        /\ transport = "shim" /\ sent \in Nat /\ sent <= request.len
        /\ ~last /\ Brings /\ last \in BOOLEAN
    BY ProgramFacts, RequestFacts DEF Inv, WireInv, WireType, ShimPiece, Brings
  <1>2. PICK n, piece :
          /\ n \in 1 .. request.len - sent
          /\ piece = [from |-> sent, upto |-> sent + n]
          /\ sent' = sent + n /\ UNCHANGED last
          /\ IF handler = "collect"
             THEN UNCHANGED held /\ Hand(piece, FALSE)
             ELSE /\ held' = <<piece>>
                  /\ IF held # <<>> THEN Hand(held[1], FALSE)
                     ELSE UNCHANGED <<programVars, responseVars, fieldVars,
                                      streamVars, handler, gathered, paused,
                                      reading>>
    BY DEF ShimPiece
  <1>3. /\ piece \in Piece /\ piece.from = sent /\ piece.upto = sent + n
        /\ piece.upto <= request.len /\ sent' \in Nat /\ sent' <= request.len
    BY <1>1, <1>2 DEF Piece
  <1>4. CASE handler = "collect"
    <2>1. held = <<>> /\ held' = <<>> /\ Hand(piece, FALSE)
      BY <1>1, <1>2, <1>4 DEF WireInv
    <2>2. Passes(piece, FALSE)
      <3>1. Handed = sent /\ Handed' = sent'
        BY <2>1 DEF Handed
      <3> QED BY <1>1, <1>2, <1>3, <2>1, <3>1 DEF Passes, Brings, Hand
    <2>3. WireInv'
      BY <1>1, <1>2, <1>3, <2>1, <2>2 DEF WireInv, Passes
    <2>4. last' \in BOOLEAN /\ held' \in Seq(Piece)
      BY <1>1, <1>2, <2>1
    <2> QED BY <1>2, <1>3, <2>1, <2>2, <2>3, <2>4, PassInv
  <1>5. CASE handler # "collect" /\ held # <<>>
    <2>1. held' = <<piece>> /\ Hand(held[1], FALSE)
      BY <1>2, <1>5
    <2>2. PICK t : t = <<piece>>
      OBVIOUS
    <2>3. t \in Seq(Piece) /\ t # <<>> /\ Len(t) = 1 /\ t[1] = piece /\ held' = t
      BY <1>3, <2>1, <2>2
    <2>4. Passes(held[1], FALSE)
      <3>1. Handed' = sent
        BY <1>3, <2>3 DEF Handed
      <3> QED BY <1>1, <1>2, <1>5, <2>1, <3>1, HeldFacts DEF Passes, Brings, Hand
    <2>5. ASSUME handler' \in {handler, "none"} PROVE WireInv'
      BY <1>1, <1>2, <1>3, <1>5, <2>3, <2>4, <2>5 DEF WireInv, Passes
    <2>6. last' \in BOOLEAN /\ held' \in Seq(Piece)
      BY <1>1, <1>2, <2>3
    <2> QED BY <1>3, <1>5, <2>1, <2>4, <2>5, <2>6, PassInv
  <1>6. CASE handler # "collect" /\ held = <<>>
    <2>1. held' = <<piece>>
          /\ UNCHANGED <<programVars, responseVars, fieldVars,
                         streamVars, handler, gathered, paused, reading>>
      BY <1>2, <1>6
    <2> QED BY <1>1, <1>2, <1>3, <1>6, <2>1, HoldStep
  <1> QED BY <1>4, <1>5, <1>6

LEMMA ShimEndStep == ASSUME Inv, ShimEnd PROVE Inv'
  <1>1. /\ WireType /\ WireInv /\ request.len \in Nat
        /\ transport = "shim" /\ sent \in Nat /\ sent = request.len
        /\ ~last /\ Brings /\ last' = TRUE /\ held' = <<>> /\ sent' = sent
    BY ProgramFacts, RequestFacts DEF Inv, WireInv, WireType, ShimEnd, Brings
  <1>2. PICK piece : piece = IF held # <<>> THEN held[1] ELSE [from |-> sent, upto |-> sent]
    OBVIOUS
  <1>3. Hand(piece, TRUE)
    BY <1>2 DEF ShimEnd
  <1>4. piece \in Piece /\ piece.from = Handed /\ piece.upto = sent
    <2>1. CASE held # <<>>
      BY <1>2, <2>1, HeldFacts
    <2>2. CASE held = <<>>
      BY <1>1, <1>2, <2>2 DEF Piece, Handed
    <2> QED BY <2>1, <2>2
  <1>5. Handed' = sent
    BY <1>1 DEF Handed
  <1>6. Passes(piece, TRUE)
    BY <1>1, <1>3, <1>4, <1>5 DEF Passes, Brings, Hand
  <1>7. WireInv'
    BY <1>1, <1>6 DEF WireInv, Passes
  <1>8. held' \in Seq(Piece)
    BY <1>1
  <1> QED BY <1>1, <1>3, <1>4, <1>6, <1>7, <1>8, PassInv

-----------------------------------------------------------------------------
(* The Readable empties itself.                                              *)

\* What a step leaves true that moves no byte on the wire.
LEMMA WireStays ==
  ASSUME Inv, UNCHANGED <<sent, last, held, transport, request, handler>>
  PROVE  WireInv' /\ Handed' = Handed
  BY DEF Inv, WireInv, Handed

LEMMA FlowStep == ASSUME Inv, Flow PROVE Inv'
  <1>1. /\ ProgramType /\ FieldType /\ StreamType /\ WireType /\ ReaderType
        /\ OverInv /\ ClaimInv /\ EndInv /\ StreamInv /\ ReadInv /\ AnswerInv
        /\ ~destroyed /\ flow' = "on" /\ flow # "off"
        /\ UNCHANGED <<transport, request, program, sync, finished, aborted,
                   receivedData, complete, readable, bodyRead, bodyClaimed,
                   endEmitted, destroyed, listeners, sent, last, handler, held,
                   gathered>>
    BY DEF Inv, Flow, responseVars
  <1>2. WireInv' /\ Handed' = Handed
    BY <1>1, WireStays
  <1>3. Read => /\ emptyBody' \in BOOLEAN /\ ended' \in BOOLEAN /\ paused' \in BOOLEAN
                /\ emptyBody' => emptyBody
                /\ ended' => ended \/ emptyBody
    BY <1>1 DEF Read, FieldType, StreamType, WireType
  <1>4. /\ emptyBody' \in BOOLEAN /\ ended' \in BOOLEAN /\ paused' \in BOOLEAN
        /\ emptyBody' => emptyBody
        /\ ended' => ended \/ emptyBody
    BY <1>1, <1>3 DEF Flow, FieldType, StreamType, WireType
  <1>5. EndInv'
    BY <1>1, <1>4 DEF EndInv, Declared
  <1>6. /\ ReadStep /\ Hears /\ buffered' \in Seq(Piece)
        /\ StreamInv' /\ (Reads' => KeptInv')
        /\ \/ UNCHANGED <<heard, buffered, reading>>
           \/ receivedData' = TRUE /\ handler = "stream"
    <2>1. CASE buffered = <<>>
      <3>1. UNCHANGED <<buffered, heard, reading, answers, pc, status>>
        BY <2>1 DEF Flow
      <3>2. Away' = Away /\ Reads' = Reads
        BY <1>1, <1>2, <3>1 DEF Away, Reads, Feeding
      <3>3. StreamInv' /\ (Reads' => KeptInv')
        BY <1>1, <1>2, <3>1, <3>2 DEF StreamInv, ReadInv, KeptInv, Keeps, Inflates
      <3> QED BY <1>1, <3>1, <3>3, QuietStep DEF Hears, StreamType
    <2>2. CASE buffered # <<>>
      <3>1. buffered' = Tail(buffered) /\ Emit(Head(buffered))
        BY <2>2 DEF Flow
      <3>2. PICK piece : piece = buffered[1]
        OBVIOUS
      <3>3. Emit(piece) /\ piece \in Piece /\ Tail(buffered) \in Seq(Piece)
            /\ piece.from = Away /\ piece.upto \in Nat
        <4>1. buffered[1] \in Piece /\ Tail(buffered) \in Seq(Piece) /\ Head(buffered) = buffered[1]
          BY <1>1, <2>2 DEF StreamType
        <4> QED BY <2>2, <3>1, <3>2, <4>1, PieceFacts DEF Away
      <3>4. /\ handler = "stream" /\ receivedData' = TRUE
        BY <1>1, <2>2 DEF ClaimInv, FieldType
      <3>5. CASE status = "done"
        <4>1. ~Reads
          BY <1>1, <3>5 DEF ReadInv
        <4>2. UNCHANGED <<reading, answers, pc, status>> /\ Hears
          <5>1. CASE "parser" \notin listeners
            BY <3>3, <5>1 DEF Emit, Hears
          <5>2. CASE "parser" \in listeners
            <6>1. reading.over
              BY <4>1, <5>2 DEF Reads, Feeding
            <6>2. OnData(program[reading.at], reading, piece) = {Silent(reading)}
              BY <6>1 DEF OnData
            <6> QED BY <3>3, <5>2, <6>2 DEF Emit, Silent, Says, Hears
          <5> QED BY <5>1, <5>2
        <4>3. ~Reads' /\ StreamInv'
          BY <1>1, <3>5, <4>1, <4>2 DEF Reads, Feeding, StreamInv
        <4> QED BY <3>1, <3>3, <3>4, <4>2, <4>3, QuietStep
      <3>6. CASE status # "done"
        <4>1. Chain(buffered, Away, Handed) /\ Handed \in Nat /\ Away \in Nat
              /\ ("parser" \notin listeners => Chain(heard, 0, Away))
          BY <1>1, <3>4, <3>6, PlaceTypes DEF StreamInv
        <4>2. piece.upto <= Handed /\ Chain(Tail(buffered), piece.upto, Handed)
          BY <1>1, <2>2, <3>2, <4>1, ChainTail DEF StreamType
        <4>3. Handed <= request.len
          <5>1. CASE held = <<>>
            BY <5>1 DEF Inv, WireInv, Handed
          <5>2. CASE held # <<>>
            <6>1. held[1].from <= held[1].upto
              BY <5>2, HeldFacts, PieceFacts
            <6>2. request.len \in Nat
              BY <1>1, ProgramFacts, RequestFacts
            <6> QED BY <4>1, <5>2, <6>1, <6>2, HeldFacts, PieceFacts
          <5> QED BY <5>1, <5>2
        <4>4. piece.upto <= request.len
          BY <1>1, <3>3, <4>1, <4>2, <4>3, ProgramFacts, RequestFacts
        <4>5. /\ ReadStep /\ Hears
              /\ heard' = IF "app" \in listeners THEN Append(heard, piece) ELSE heard
              /\ ~reading'.over /\ "parser" \in listeners => Keeps(reading', piece.upto)
          BY <3>3, <3>4, <4>4, EmitStep
        <4>6. Away' = piece.upto
          <5>1. CASE Tail(buffered) = <<>>
            <6>1. piece.upto = Handed
              BY <4>2, <5>1, ChainEmpty
            <6> QED BY <1>2, <3>1, <5>1, <6>1 DEF Away
          <5>2. CASE Tail(buffered) # <<>>
            <6>1. Tail(buffered)[1].from = piece.upto
              BY <3>3, <4>2, <5>2, ChainEnds
            <6> QED BY <3>1, <5>2, <6>1 DEF Away
          <5> QED BY <5>1, <5>2
        <4>7. StreamInv'
          <5>1. Chain(buffered', Away', Handed')
            BY <1>2, <3>1, <4>2, <4>6
          <5>2. ASSUME "parser" \notin listeners PROVE Chain(heard', 0, Away')
            <6>1. "app" \in listeners
              BY <1>1, <5>2 DEF EndInv, StreamType
            <6>2. Chain(Append(heard, piece), 0, piece.upto)
              BY <1>1, <3>3, <4>1, <5>2, ChainAppend DEF StreamType
            <6> QED BY <4>5, <4>6, <6>1, <6>2
          <5> QED BY <1>1, <5>1, <5>2 DEF StreamInv
        <4>8. ASSUME Reads' PROVE KeptInv'
          <5>1. ~reading'.over /\ "parser" \in listeners
            BY <1>1, <3>4, <4>8 DEF Reads, Feeding
          <5>2. Keeps(reading, Away)'
            BY <1>1, <4>5, <4>6, <5>1 DEF Keeps, Inflates
          <5> QED BY <1>1, <3>4, <5>2 DEF KeptInv
        <4> QED BY <3>1, <3>3, <3>4, <4>5, <4>7, <4>8
      <3> QED BY <3>5, <3>6
    <2> QED BY <2>1, <2>2
  <1>7. /\ answers' \in Seq(AnswerType) /\ pc' \in Nat \ {0}
        /\ status' \in {"running", "collecting", "waiting", "refused", "done"}
        /\ \/ status' = status
           \/ status \in {"running", "collecting"} /\ status' \in {"running", "refused"}
        /\ AnswerInv'
    BY <1>1, <1>6, SpokeStep DEF ReadStep, StreamType
  <1>8. OverInv'
    BY <1>1, <1>7, OverKept
  <1>9. SameReaders
    BY <1>1 DEF SameReaders
  <1>10. ReadInv'
    <2>1. reading.at # 0 => SumSizes(gathered') <= program[reading.at].limit
      BY <1>1 DEF ReadInv
    <2>2. handler' = "collect" => reading' = reading
      BY <1>1, <1>6
    <2> QED BY <1>1, <1>6, <1>9, <2>1, <2>2, ReadKept
  <1>11. ClaimInv'
    <2>1. ~receivedData' /\ ~bodyRead /\ status # "done" => Handed' = 0
      BY <1>1, <1>2 DEF ClaimInv
    <2>2. \/ UNCHANGED <<receivedData, heard, buffered>>
          \/ receivedData' = TRUE /\ handler = "stream"
      BY <1>1, <1>6
    <2>3. status = "done" => status' = "done"
      BY <1>7
    <2> QED BY <1>1, <1>6, <1>9, <2>1, <2>2, <2>3, ClaimKept
  <1>12. ProgramType' /\ FieldType' /\ WireType' /\ ReaderType'
    BY <1>1, <1>4, <1>6, <1>7
       DEF ProgramType, FieldType, WireType, ReaderType, ReadStep
  <1>13. StreamType'
    BY <1>1, <1>4, <1>6, HeardStays DEF StreamType
  <1> QED BY <1>2, <1>5, <1>6, <1>7, <1>8, <1>10, <1>11, <1>12, <1>13 DEF Inv

\* The end of the Readable: whoever reads it has had all of the body.
LEMMA EmitEndStep == ASSUME Inv, EmitEnd PROVE Inv'
  <1>1. /\ ProgramType /\ FieldType /\ StreamType /\ WireType /\ ReaderType
        /\ OverInv /\ ClaimInv /\ EndInv /\ StreamInv /\ ReadInv /\ AnswerInv
        /\ endEmitted' = TRUE /\ ended /\ buffered = <<>>
        /\ UNCHANGED <<transport, request, program, sync, finished, aborted,
                   receivedData, complete, readable, bodyRead, bodyClaimed, emptyBody,
                   buffered, ended, flow, destroyed, listeners, heard,
                   sent, last, handler, held, gathered, paused>>
    BY DEF Inv, EmitEnd, responseVars, fieldVars, wireVars
  <1>2. WireInv' /\ Handed' = Handed /\ Away' = Away
    BY <1>1, WireStays DEF Away
  <1>3. ReadStep /\ (Reads' => KeptInv') /\ (reading' = reading \/ handler = "stream")
    <2>1. CASE "parser" \notin listeners
      <3>1. UNCHANGED <<reading, answers, pc, status>>
        BY <2>1 DEF EmitEnd, Silent, Says
      <3>2. Reads' = Reads /\ (KeptInv => KeptInv')
        BY <1>1, <1>2, <3>1 DEF Reads, Feeding, KeptInv, Keeps, Inflates
      <3> QED BY <1>1, <3>1, <3>2, QuietStep DEF ReadInv
    <2>2. CASE "parser" \in listeners /\ reading.over
      <3>1. OnEnd(program[reading.at], reading) = Silent(reading)
        BY <2>2 DEF OnEnd
      <3>2. UNCHANGED <<reading, answers, pc, status>>
        BY <2>2, <3>1 DEF EmitEnd, Silent, Says
      <3>3. ~Reads'
        BY <2>2, <3>2 DEF Reads
      <3> QED BY <3>2, <3>3, QuietStep
    <2>3. CASE "parser" \in listeners /\ ~reading.over
      <3>1. Reads /\ handler = "stream" /\ Declared
        BY <1>1, <2>3 DEF Reads, Feeding, ClaimInv
      <3>2. Away = request.len
        <4>1. held = <<>> /\ sent = request.len
          BY <1>1, <3>1 DEF EndInv, Inv, WireInv
        <4> QED BY <1>1, <4>1 DEF Away, Handed
      <3>3. /\ Sound(reading) /\ Keeps(reading, request.len)
            /\ program[reading.at].parser \in {"json", "raw", "text", "form", "multipart"}
        BY <3>1, <3>2, ReaderSound DEF KeptInv
      <3>4. PICK o : o = OnEnd(program[reading.at], reading)
        OBVIOUS
      <3>5. reading' = o.reading /\ Says(o.says)
        BY <2>3, <3>4 DEF EmitEnd
      <3>6. heard \in Seq(Piece)
            /\ (reading.missed > 0 => \E j \in 1 .. Len(heard) : heard[j].upto = reading.missed)
        BY <1>1 DEF StreamType, ReadInv
      <3>7. Outcome(o, reading) /\ o.reading.over
        BY <2>3, <3>1, <3>3, <3>4, <3>6, OnEndRight
      <3>8. ReadStep
        BY <3>1, <3>5, <3>7, FeedStep
      <3>9. ~Reads'
        BY <3>5, <3>7 DEF Reads
      <3> QED BY <3>1, <3>8, <3>9
    <2> QED BY <2>1, <2>2, <2>3
  <1>4. Hears /\ SameReaders
    BY <1>1 DEF Hears, SameReaders
  <1>5. /\ answers' \in Seq(AnswerType) /\ pc' \in Nat \ {0}
        /\ status' \in {"running", "collecting", "waiting", "refused", "done"}
        /\ \/ status' = status
           \/ status \in {"running", "collecting"} /\ status' \in {"running", "refused"}
        /\ AnswerInv'
    BY <1>1, <1>3, <1>4, SpokeStep DEF ReadStep, StreamType
  <1>6. OverInv' /\ EndInv'
    BY <1>1, <1>5, OverKept DEF EndInv, Declared
  <1>7. ReadInv'
    <2>1. reading.at # 0 => SumSizes(gathered') <= program[reading.at].limit
      BY <1>1 DEF ReadInv
    <2>2. handler' = "collect" => reading' = reading
      BY <1>1, <1>3
    <2> QED BY <1>1, <1>3, <1>4, <2>1, <2>2, ReadKept
  <1>8. ClaimInv'
    <2>1. ~receivedData' /\ ~bodyRead /\ status # "done" => Handed' = 0
      BY <1>1, <1>2 DEF ClaimInv
    <2>2. status = "done" => status' = "done"
      BY <1>5
    <2> QED BY <1>1, <1>3, <1>4, <2>1, <2>2, ClaimKept
  <1>9. StreamInv'
    BY <1>1, <1>2, <1>5 DEF StreamInv
  <1>10. ProgramType' /\ FieldType' /\ WireType' /\ ReaderType' /\ StreamType'
    BY <1>1, <1>3, <1>5
       DEF ProgramType, FieldType, WireType, ReaderType, StreamType, ReadStep
  <1> QED BY <1>2, <1>5, <1>6, <1>7, <1>8, <1>9, <1>10 DEF Inv

-----------------------------------------------------------------------------
(* The program's steps, and the client's leaving: no byte moves.             *)

\* What the answers were is what they are, if the program goes no way back.
LEMMA AnswersStay ==
  ASSUME ProgramType, AnswerInv, pc' \in Nat, pc <= pc', Owes' => Owes \/ pc < pc',
         UNCHANGED <<answers, program, request, heard>>
  PROVE  AnswerInv'
  <1>1. \A a : Right(a)' = Right(a)
    BY DEF Right, WholeOf, Decoded, Inflates
  <1>2. pc \in Nat /\ answers \in Seq(AnswerType)
    BY DEF ProgramType
  <1>3. \A i \in 1 .. Len(answers) : answers[i].at \in Nat
    <2>1. \A i \in 1 .. Len(answers) : answers[i] \in AnswerType
      BY <1>2
    <2> QED BY <2>1 DEF AnswerType
  <1>4. \A i \in 1 .. Len(answers) :
           Right(answers[i])' /\ answers[i].at <= pc' /\ (Owes' => answers[i].at < pc')
    BY <1>1, <1>2, <1>3 DEF AnswerInv
  <1>5. AnsweredOnce'
    BY DEF AnswerInv, AnsweredOnce
  <1> QED BY <1>4, <1>5 DEF AnswerInv

\* Nobody reads while the program runs, waits or is refused.
LEMMA NobodyReads == ASSUME Inv, status # "collecting" PROVE ~Reads
  BY DEF Inv, ReadInv

\* Where the bytes are does not depend on the program.
BodyStays ==
    UNCHANGED <<transport, request, program, answers, receivedData, bodyRead, emptyBody,
                buffered, ended, heard, sent, last, held, gathered, reading>>

LEMMA BodyStaysStep ==
  ASSUME Inv, BodyStays, status # "collecting", "parser" \in listeners' => "parser" \in listeners,
         handler' \in {handler, "stream"}
  PROVE  /\ WireInv' /\ ReadInv' /\ Handed' = Handed /\ Away' = Away /\ ReaderType'
         /\ (Feeding' => Feeding)
  <1>1. Handed' = Handed /\ Away' = Away /\ (Feeding' => Feeding)
    BY DEF BodyStays, Handed, Away, Feeding
  <1>2. ~Reads'
    BY <1>1, NobodyReads DEF Reads, BodyStays
  <1>3. WireInv'
    BY DEF Inv, WireInv, BodyStays
  <1>4. ReadInv'
    BY <1>2 DEF Inv, ReadInv, BodyStays
  <1> QED BY <1>1, <1>3, <1>4 DEF Inv, ReaderType, BodyStays

LEMMA WakeStep == ASSUME Inv, Wake PROVE Inv'
  <1>1. /\ ProgramType /\ FieldType /\ StreamType /\ WireType
        /\ OverInv /\ ClaimInv /\ EndInv /\ StreamInv /\ AnswerInv
        /\ status = "waiting" /\ status' = "running"
        /\ UNCHANGED <<transport, request, program, pc, sync, answers, finished, aborted,
                   receivedData, complete, readable, bodyRead, bodyClaimed, emptyBody,
                   buffered, ended, flow, endEmitted, destroyed, listeners, heard,
                   sent, last, handler, held, gathered, paused, reading>>
    BY DEF Inv, Wake, responseVars, fieldVars, wireVars, streamVars
  <1>2. WireInv' /\ ReadInv' /\ Handed' = Handed /\ Away' = Away /\ ReaderType'
    BY <1>1, BodyStaysStep DEF BodyStays
  <1>3. AnswerInv'
    BY <1>1, AnswersStay DEF ProgramType, Owes
  <1>4. OverInv' /\ ClaimInv' /\ EndInv' /\ StreamInv'
    BY <1>1, <1>2 DEF OverInv, ClaimInv, EndInv, StreamInv, Declared, Feeding
  <1>5. ProgramType' /\ FieldType' /\ StreamType' /\ WireType'
    BY <1>1 DEF ProgramType, FieldType, StreamType, WireType
  <1> QED BY <1>2, <1>3, <1>4, <1>5 DEF Inv

LEMMA AwaitStep == ASSUME Inv, Await PROVE Inv'
  <1>1. /\ ProgramType /\ FieldType /\ StreamType /\ WireType
        /\ OverInv /\ ClaimInv /\ EndInv /\ StreamInv /\ AnswerInv
        /\ status = "running" /\ status' = "waiting" /\ pc' = pc + 1
        /\ UNCHANGED <<transport, request, program, sync, answers, finished, aborted,
                   receivedData, complete, readable, bodyRead, bodyClaimed, emptyBody,
                   buffered, ended, flow, endEmitted, destroyed, listeners, heard,
                   sent, last, handler, held, gathered, paused, reading>>
    BY DEF Inv, Await, Running, responseVars, fieldVars, wireVars, streamVars
  <1>2. WireInv' /\ ReadInv' /\ Handed' = Handed /\ Away' = Away /\ ReaderType'
    BY <1>1, BodyStaysStep DEF BodyStays
  <1>3. AnswerInv'
    BY <1>1, AnswersStay DEF ProgramType, Owes
  <1>4. OverInv' /\ ClaimInv' /\ EndInv' /\ StreamInv'
    BY <1>1, <1>2 DEF OverInv, ClaimInv, EndInv, StreamInv, Declared, Feeding
  <1>5. ProgramType' /\ FieldType' /\ StreamType' /\ WireType'
    BY <1>1 DEF ProgramType, FieldType, StreamType, WireType
  <1> QED BY <1>2, <1>3, <1>4, <1>5 DEF Inv

LEMMA ListenStep == ASSUME Inv, Listen PROVE Inv'
  <1>1. /\ ProgramType /\ FieldType /\ StreamType /\ WireType
        /\ OverInv /\ ClaimInv /\ EndInv /\ StreamInv /\ AnswerInv
        /\ status = "running" /\ pc' = pc + 1
        /\ listeners' = listeners \cup {"app"} /\ flow' \in {flow, "booked"}
        /\ UNCHANGED <<transport, request, program, sync, status, answers, finished, aborted,
                   receivedData, complete, readable, bodyRead, bodyClaimed, emptyBody,
                   buffered, ended, endEmitted, destroyed, heard,
                   sent, last, handler, held, gathered, paused, reading>>
    BY DEF Inv, Listen, Listens, Running, responseVars, fieldVars, wireVars
  <1>2. /\ WireInv' /\ ReadInv' /\ Handed' = Handed /\ Away' = Away /\ ReaderType'
        /\ (Feeding' => Feeding)
    BY <1>1, BodyStaysStep DEF BodyStays
  <1>3. AnswerInv'
    BY <1>1, AnswersStay DEF ProgramType, Owes
  <1>4. OverInv' /\ ClaimInv' /\ EndInv' /\ StreamInv'
    BY <1>1, <1>2 DEF OverInv, ClaimInv, EndInv, StreamInv, Declared
  <1>5. ProgramType' /\ FieldType' /\ StreamType' /\ WireType'
    BY <1>1 DEF ProgramType, FieldType, StreamType, WireType
  <1> QED BY <1>2, <1>3, <1>4, <1>5 DEF Inv

LEMMA EndStep == ASSUME Inv, End PROVE Inv'
  <1>1. /\ ProgramType /\ FieldType /\ StreamType /\ WireType
        /\ OverInv /\ ClaimInv /\ EndInv /\ StreamInv /\ AnswerInv
        /\ status \in {"running", "refused"} /\ status' = "done" /\ finished' = TRUE
        /\ UNCHANGED <<transport, request, program, pc, sync, answers, aborted,
                   receivedData, complete, readable, bodyRead, bodyClaimed, emptyBody,
                   buffered, ended, flow, endEmitted, destroyed, listeners, heard,
                   sent, last, handler, held, gathered, paused, reading>>
    BY DEF Inv, End, fieldVars, wireVars, streamVars
  <1>2. WireInv' /\ ReadInv' /\ Handed' = Handed /\ Away' = Away /\ ReaderType'
    BY <1>1, BodyStaysStep DEF BodyStays
  <1>3. AnswerInv'
    BY <1>1, AnswersStay DEF ProgramType, Owes
  <1>4. OverInv' /\ ClaimInv' /\ EndInv' /\ StreamInv'
    BY <1>1, <1>2 DEF OverInv, ClaimInv, EndInv, StreamInv, Declared, Feeding
  <1>5. ProgramType' /\ FieldType' /\ StreamType' /\ WireType'
    BY <1>1 DEF ProgramType, FieldType, StreamType, WireType
  <1> QED BY <1>2, <1>3, <1>4, <1>5 DEF Inv

\* The client leaves: also while a parser collects.
LEMMA AbortStep == ASSUME Inv, Abort PROVE Inv'
  <1>1. /\ ProgramType /\ FieldType /\ StreamType /\ WireType /\ ReaderType
        /\ OverInv /\ ClaimInv /\ EndInv /\ StreamInv /\ AnswerInv /\ WireInv /\ ReadInv
        /\ finished' = TRUE /\ aborted' = TRUE /\ destroyed' = TRUE
        /\ UNCHANGED <<transport, request, program, pc, status, sync, answers,
                   receivedData, complete, readable, bodyRead, bodyClaimed, emptyBody,
                   buffered, ended, flow, endEmitted, listeners, heard,
                   sent, last, handler, held, gathered, paused, reading>>
    BY DEF Inv, Abort, programVars, fieldVars, wireVars
  <1>2. Handed' = Handed /\ Away' = Away /\ WireInv' /\ Reads' = Reads
    BY <1>1 DEF Handed, Away, WireInv, Reads, Feeding
  <1>3. ReadInv'
    BY <1>1, <1>2 DEF ReadInv, KeptInv, Keeps, Inflates
  <1>4. AnswerInv'
    BY <1>1, AnswersStay DEF ProgramType, Owes
  <1>5. OverInv' /\ ClaimInv' /\ EndInv' /\ StreamInv'
    BY <1>1, <1>2 DEF OverInv, ClaimInv, EndInv, StreamInv, Declared, Feeding
  <1>6. ProgramType' /\ FieldType' /\ StreamType' /\ WireType' /\ ReaderType'
    BY <1>1 DEF ProgramType, FieldType, StreamType, WireType, ReaderType
  <1> QED BY <1>2, <1>3, <1>4, <1>5, <1>6 DEF Inv

\* The delivering callback returns: the stream takes a body nobody has.
LEMMA SettleStep == ASSUME Inv, Settle PROVE Inv'
  <1>1. /\ ProgramType /\ FieldType /\ StreamType /\ WireType /\ ReaderType
        /\ OverInv /\ ClaimInv /\ EndInv /\ StreamInv /\ AnswerInv /\ WireInv /\ ReadInv
        /\ sync' = FALSE
        /\ UNCHANGED <<transport, request, program, pc, status, answers, finished, aborted,
                   receivedData, complete, readable, bodyRead, emptyBody,
                   buffered, ended, flow, endEmitted, destroyed, listeners, heard,
                   sent, last, held, gathered, paused, reading>>
    BY DEF Inv, Settle, responseVars, streamVars
  <1>2. Handed' = Handed /\ Away' = Away
    BY <1>1 DEF Handed, Away
  <1>3. AnswerInv'
    BY <1>1, AnswersStay DEF ProgramType, Owes
  <1>4. OverInv' /\ EndInv' /\ ProgramType' /\ FieldType' /\ StreamType' /\ WireType' /\ ReaderType'
    <2>1. bodyClaimed' \in BOOLEAN /\ handler' \in {"none", "stream", "parser", "collect"}
      BY <1>1 DEF Settle, SubscribeBody, FieldType, WireType
    <2>2. OverInv' /\ EndInv'
      BY <1>1 DEF OverInv, EndInv, Declared
    <2>3. ProgramType' /\ FieldType'
      BY <1>1, <2>1 DEF ProgramType, FieldType
    <2>4. StreamType' /\ WireType' /\ ReaderType'
      BY <1>1, <2>1 DEF StreamType, WireType, ReaderType
    <2> QED BY <2>2, <2>3, <2>4
  <1>5. CASE Declared /\ ~bodyClaimed /\ ~Over
    <2>1. bodyClaimed' = TRUE /\ handler' = "stream"
      BY <1>5 DEF Settle, SubscribeBody
    <2>2. /\ ~receivedData /\ ~bodyRead /\ buffered = <<>> /\ heard = <<>>
          /\ "parser" \notin listeners /\ (status # "done" => Handed = 0)
      BY <1>1, <1>5 DEF ClaimInv, FieldType
    <2>3. ~Feeding' /\ ~Reads'
      BY <1>1, <2>1, <2>2 DEF Feeding, Reads
    <2>4. WireInv'
      BY <1>1, <2>1 DEF WireInv
    <2>5. ReadInv'
      BY <1>1, <2>1, <2>3 DEF ReadInv
    <2>6. ClaimInv'
      BY <1>1, <1>2, <1>5, <2>1, <2>2, <2>3 DEF ClaimInv, Declared
    <2>7. StreamInv'
      <3>1. status # "done" => Chain(buffered, Away, Handed) /\ Chain(heard, 0, Away)
        BY <2>2, ChainEmpty DEF Away
      <3> QED BY <1>1, <1>2, <3>1 DEF StreamInv
    <2> QED BY <1>3, <1>4, <2>4, <2>5, <2>6, <2>7 DEF Inv
  <1>6. CASE ~(Declared /\ ~bodyClaimed /\ ~Over)
    <2>1. UNCHANGED <<bodyClaimed, handler>>
      BY <1>6 DEF Settle, SubscribeBody
    <2>2. WireInv' /\ Reads' = Reads
      BY <1>1, <2>1 DEF WireInv, Reads, Feeding
    <2>3. ReadInv'
      BY <1>1, <1>2, <2>1, <2>2 DEF ReadInv, KeptInv, Keeps, Inflates
    <2>4. ClaimInv' /\ StreamInv'
      BY <1>1, <1>2, <1>6, <2>1 DEF ClaimInv, StreamInv, OverInv, Over, Declared, Feeding
    <2> QED BY <1>3, <1>4, <2>2, <2>3, <2>4 DEF Inv
  <1> QED BY <1>5, <1>6

-----------------------------------------------------------------------------
(* A body parser is reached.                                                 *)

\* The step the program is at.
LEMMA ParseFacts ==
  ASSUME Inv, Running("parse")
  PROVE  /\ status = "running" /\ pc \in 1 .. Len(program) /\ Step.do = "parse"
         /\ Step = program[pc] /\ Step.limit \in Nat
         /\ Step.parser \in {"json", "raw", "text", "form", "multipart"}
         /\ request \in RequestType /\ request.len \in Nat /\ Decoded \in Nat
         /\ UNCHANGED <<transport, request, program, sync, finished, aborted>>
  <1>1. /\ ProgramType /\ status = "running" /\ pc <= Len(program) /\ Step.do = "parse"
        /\ UNCHANGED <<transport, request, program, sync, finished, aborted>>
    BY DEF Inv, Running, responseVars
  <1>2. /\ request \in RequestType /\ pc \in Nat \ {0}
        /\ \A i \in 1 .. Len(program) : program[i] \in StepType
        /\ Len(program) \in Nat
    BY <1>1, ProgramFacts
  <1>3. pc \in 1 .. Len(program) /\ Step = program[pc] /\ Step \in StepType
    BY <1>1, <1>2 DEF Step
  <1> QED BY <1>1, <1>2, <1>3, StepFacts, RequestFacts

\* It answers before it reads a byte.
LEMMA SaysNow ==
  ASSUME Inv, Running("parse"), NEW is \in Verdict,
         is = "parsed" => Decoded = 0,
         is = "413" => Decoded > Step.limit,
         Says(<<Answer(is, pc, <<>>)>>)
  PROVE  Spoke
  <1> DEFINE a == Answer(is, pc, <<>>)
  <1>1. /\ status = "running" /\ pc \in 1 .. Len(program) /\ program[pc].do = "parse"
        /\ Step = program[pc] /\ Step.limit \in Nat
    BY ParseFacts
  <1>2. a \in AnswerType /\ a.at = pc /\ a.is = is /\ a.got = <<>>
    BY <1>1 DEF Answer, AnswerType
  <1>3. is = "parsed" => WholeOf(<<>>) /\ SumSizes(<<>>) <= Step.limit
    BY <1>1, ChainEmpty, SumSizesEmpty DEF WholeOf
  <1>4. Right(a)
    BY <1>1, <1>2, <1>3 DEF Right
  <1> QED BY <1>1, <1>2, <1>4 DEF Spoke

\* What every way through a parser's entry leaves true.
LEMMA ParseKept ==
  ASSUME Inv, Running("parse"), Spoke \/ (UNCHANGED <<answers, pc>> /\ status' = "collecting"),
         UNCHANGED <<destroyed, heard>>
  PROVE  /\ AnswerInv' /\ OverInv' /\ ProgramType'
         /\ status' \in {"running", "refused", "collecting"}
  <1>1. /\ ProgramType /\ AnswerInv /\ OverInv /\ status = "running"
        /\ heard \in Seq(Piece)
        /\ UNCHANGED <<transport, request, program, sync, finished, aborted>>
    BY ParseFacts DEF Inv, StreamType
  <1>2. CASE Spoke
    <2>1. Hears
      BY DEF Hears
    <2>2. /\ answers' \in Seq(AnswerType) /\ pc' \in Nat \ {0}
          /\ status' \in {"running", "collecting", "waiting", "refused", "done"}
          /\ \/ status' = status
             \/ status \in {"running", "collecting"} /\ status' \in {"running", "refused"}
          /\ AnswerInv'
      BY <1>1, <1>2, <2>1, SpokeStep
    <2>3. OverInv'
      BY <1>1, <2>2, OverKept
    <2>4. ProgramType'
      BY <1>1, <2>2 DEF ProgramType
    <2> QED BY <1>1, <2>2, <2>3, <2>4
  <1>3. CASE UNCHANGED <<answers, pc>> /\ status' = "collecting"
    <2>1. AnswerInv'
      BY <1>1, <1>3, AnswersStay DEF ProgramType, Owes
    <2>2. OverInv' /\ ProgramType'
      BY <1>1, <1>3 DEF OverInv, ProgramType
    <2> QED BY <1>3, <2>1, <2>2
  <1> QED BY <1>2, <1>3

\* Answered, and nothing else but that a parser was here.
LEMMA EntryStep ==
  ASSUME Inv, Running("parse"), Spoke,
         bodyRead' \in BOOLEAN, bodyRead => bodyRead',
         bodyRead' # bodyRead => ~Declared,
         UNCHANGED <<receivedData, complete, readable, bodyClaimed,
                     emptyBody, streamVars, wireVars, reading>>
  PROVE  Inv'
  <1>1. /\ ProgramType /\ FieldType /\ StreamType /\ WireType /\ ReaderType
        /\ ClaimInv /\ EndInv /\ StreamInv /\ WireInv /\ ReadInv
        /\ status = "running"
        /\ UNCHANGED <<transport, request, program, sync, finished, aborted>>
    BY ParseFacts DEF Inv
  <1>2. UNCHANGED <<buffered, ended, flow, endEmitted, destroyed, listeners, heard,
                    sent, last, handler, held, gathered, paused>>
    BY DEF streamVars, wireVars
  <1>3. AnswerInv' /\ OverInv' /\ ProgramType' /\ status' \in {"running", "refused", "collecting"}
    BY <1>2, ParseKept
  <1>4. Handed' = Handed /\ Away' = Away /\ ~Reads'
    <2>1. ~Reads
      BY <1>1, NobodyReads
    <2> QED BY <1>2, <2>1 DEF Handed, Away, Reads, Feeding
  <1>5. WireInv' /\ EndInv' /\ ReadInv'
    BY <1>1, <1>2, <1>4 DEF WireInv, EndInv, ReadInv, Declared
  <1>6. StreamInv'
    BY <1>1, <1>2, <1>3, <1>4 DEF StreamInv
  <1>7. ClaimInv'
    BY <1>1, <1>2, <1>3, <1>4 DEF ClaimInv, Declared, Feeding, FieldType
  <1>8. FieldType' /\ StreamType' /\ WireType' /\ ReaderType'
    BY <1>1, <1>2 DEF FieldType, StreamType, WireType, ReaderType
  <1> QED BY <1>3, <1>5, <1>6, <1>7, <1>8 DEF Inv

\* A parser that collects is the first to read a body that is there.
LEMMA CollectEntry ==
  ASSUME Inv, Running("parse"), Entry(Step) = "collect"
  PROVE  /\ ~bodyRead /\ Declared /\ gathered = <<>> /\ reading = NoReading
         /\ handler \in {"none", "stream"} /\ "parser" \notin listeners
         /\ ~receivedData => Handed = 0 /\ buffered = <<>> /\ heard = <<>>
         /\ receivedData => handler = "stream" /\ bodyClaimed
  <1>1. ClaimInv /\ FieldType /\ WireType /\ status = "running"
    BY ParseFacts DEF Inv
  <1>2. ~TakenOrGone /\ Claims(Step) /\ ~(request.framing = "length" /\ request.len = 0)
    BY DEF Entry
  <1>3. ~bodyRead /\ Declared
    BY <1>1, <1>2 DEF TakenOrGone, Claims, Declared, FieldType
  <1> QED BY <1>1, <1>3 DEF ClaimInv, Feeding, WireType

\* What the entry turns on.
LEMMA EntryFacts ==
  ASSUME Inv, Running("parse")
  PROVE  /\ Entry(Step) \in {"skip", "415", "empty", "413", "collect"}
         /\ Entry(Step) = "413" => Decoded > Step.limit
         /\ Entry(Step) = "empty" => ~Declared /\ Decoded = 0
  <1>1. /\ Step.limit \in Nat /\ request.len \in Nat
        /\ Expansion \in Nat \ {0}
    BY ParseFacts, BodyAssumption
  <1>2. Entry(Step) \in {"skip", "415", "empty", "413", "collect"}
    BY DEF Entry
  <1>3. ASSUME Entry(Step) = "413" PROVE Decoded > Step.limit
    <2>1. ~Inflates /\ request.framing = "length" /\ request.len > Step.limit
      BY <1>1, <1>3 DEF Entry
    <2> QED BY <2>1 DEF Decoded
  <1>4. ASSUME Entry(Step) = "empty" PROVE ~Declared /\ Decoded = 0
    <2>1. request.framing = "length" /\ request.len = 0
      BY <1>1, <1>4 DEF Entry
    <2> QED BY <1>1, <2>1 DEF Declared, Decoded
  <1> QED BY <1>2, <1>3, <1>4

\* Skipped or refused by its head.
LEMMA ParseRefused ==
  ASSUME Inv, Parse, Entry(Step) \in {"skip", "415", "413"}
  PROVE  Inv'
  <1>1. Running("parse")
    BY DEF Parse
  <1>2. PICK is : is = Entry(Step)
    OBVIOUS
  <1>3. /\ Says(<<Answer(is, pc, <<>>)>>)
        /\ UNCHANGED <<fieldVars, streamVars, wireVars, reading>>
    BY <1>2 DEF Parse
  <1>4. is \in Verdict /\ is # "parsed"
    BY <1>2 DEF Verdict
  <1>5. is = "413" => Decoded > Step.limit
    BY <1>1, <1>2, EntryFacts
  <1>6. Spoke
    BY <1>1, <1>3, <1>4, <1>5, SaysNow
  <1>7. UNCHANGED <<receivedData, complete, readable, bodyRead, bodyClaimed, emptyBody>>
    BY <1>3 DEF fieldVars
  <1>8. bodyRead \in BOOLEAN
    BY DEF Inv, FieldType
  <1> QED BY <1>1, <1>3, <1>6, <1>7, <1>8, EntryStep

\* Nothing to read.
LEMMA ParseEmpty ==
  ASSUME Inv, Parse, Entry(Step) = "empty"
  PROVE  Inv'
  <1>1. Running("parse")
    BY DEF Parse
  <1>2. PICK is : is = IF Inflates THEN "400 inflate"
                       ELSE IF RunVerify(Step) THEN Return(Step, SumSizes(<<>>) = 0)
                       ELSE "403"
    OBVIOUS
  <1>3. /\ bodyRead' = TRUE
        /\ Says(<<IF Inflates THEN Answer("400 inflate", pc, <<>>)
                  ELSE BeforeReturn(Step, pc, <<>>)>>)
        /\ UNCHANGED <<receivedData, complete, readable, bodyClaimed,
                       emptyBody, streamVars, wireVars, reading>>
    BY DEF Parse
  <1>4. (IF Inflates THEN Answer("400 inflate", pc, <<>>) ELSE BeforeReturn(Step, pc, <<>>))
          = Answer(is, pc, <<>>)
    BY <1>2, Zenon DEF BeforeReturn
  <1>5. Says(<<Answer(is, pc, <<>>)>>)
    BY <1>3, <1>4, Zenon
  <1>6. is \in Verdict \ {"413"}
    <2>1. Step.parser \in {"json", "raw", "text", "form", "multipart"}
      BY <1>1, ParseFacts
    <2>2. \A empty \in BOOLEAN : Return(Step, empty) \in Verdict \ {"413"}
      BY <2>1, ReturnFacts
    <2>3. (SumSizes(<<>>) = 0) \in BOOLEAN
      OBVIOUS
    <2>4. Return(Step, SumSizes(<<>>) = 0) \in Verdict \ {"413"}
      BY <2>2, <2>3, Zenon
    <2>5. {"400 inflate", "403"} \subseteq Verdict \ {"413"}
      BY DEF Verdict
    <2> QED BY <1>2, <2>4, <2>5, Zenon
  <1>7. ~Declared /\ Decoded = 0
    BY <1>1, EntryFacts
  <1>8. Spoke
    <2>1. is \in Verdict /\ (is = "413" => Decoded > Step.limit) /\ (is = "parsed" => Decoded = 0)
      BY <1>6, <1>7
    <2> QED BY <1>1, <1>5, <2>1, SaysNow
  <1> QED BY <1>1, <1>3, <1>7, <1>8, EntryStep

\* What the shim holds back lies between where it has got to and what was sent.
LEMMA HeldChain ==
  ASSUME Inv
  PROVE  /\ Handed \in Nat /\ sent \in Nat /\ Handed <= sent /\ sent <= request.len
         /\ Chain(held, Handed, sent) /\ SumSizes(held) = sent - Handed
  <1>1. /\ held \in Seq(Piece) /\ sent \in Nat /\ WireInv
    BY DEF Inv, WireType
  <1>2. CASE held = <<>>
    <2>1. Handed = sent
      BY <1>2 DEF Handed
    <2>2. Chain(held, Handed, sent) /\ SumSizes(held) = 0
      BY <1>2, <2>1, ChainEmpty, SumSizesEmpty
    <2> QED BY <1>1, <2>1, <2>2 DEF WireInv
  <1>3. CASE held # <<>>
    <2>1. Len(held) <= 1
      <3>1. Len(held) = 1
        BY <1>1, <1>3, Zenon DEF WireInv
      <3> QED BY <3>1
    <2>2. held[1] \in Piece /\ held = <<held[1]>>
      BY <1>1, <1>3, <2>1, Single
    <2>3. held[1].from = Handed /\ held[1].upto = sent
      BY <1>3, HeldFacts
    <2>4. Chain(held, Handed, sent)
      <3>1. Chain(<<held[1]>>, held[1].from, held[1].upto)
        BY <2>2, ChainOne
      <3> QED BY <2>2, <2>3, <3>1, Zenon
    <2>5. Handed \in Nat /\ Handed <= sent
      BY <2>2, <2>3, PieceFacts
    <2>6. SumSizes(held) = sent - Handed
      <3>1. Spans(held)
        BY <1>1, ChainSum
      <3> QED BY <1>1, <2>4, <2>5, <3>1 DEF Spans
    <2> QED BY <1>1, <2>4, <2>5, <2>6 DEF WireInv
  <1> QED BY <1>2, <1>3

\* A parser that begins.
LEMMA NewReadingIs ==
  ASSUME NEW n \in Nat, pc \in Nat
  PROVE  /\ NewReading(n) \in ReadingType /\ NewReading(n).at = pc
         /\ NewReading(n).kept = <<>> /\ NewReading(n).missed = n
         /\ NewReading(n).over = FALSE
  <1>1. <<>> \in Seq(Piece)
    OBVIOUS
  <1>2. PICK k \in Seq(Piece) : k = <<>>
    BY <1>1, Zenon
  <1>3. PICK o \in BOOLEAN : o = FALSE
    OBVIOUS
  <1>4. PICK r : r = [at |-> pc, kept |-> k, over |-> o, missed |-> n]
    OBVIOUS
  <1>5. r \in ReadingType /\ r.at = pc /\ r.kept = k /\ r.missed = n /\ r.over = o
    BY <1>4 DEF ReadingType
  <1>6. r = NewReading(n)
    BY <1>2, <1>3, <1>4, Zenon DEF NewReading
  <1> QED BY <1>2, <1>3, <1>5, <1>6, Zenon

\* It has kept nothing, and of what came it lacks what it missed.
LEMMA KeepsNothing ==
  ASSUME NEW r, r.kept = <<>>, NEW n \in Nat, r.missed = n, NEW m \in Nat, m = n \/ Inflates,
         request \in RequestType
  PROVE  Keeps(r, m)
  <1>1. Upto(<<>>) = 0 /\ Chain(<<>>, 0, 0)
    BY ChainEmpty DEF Upto
  <1>2. CASE Inflates
    <2>1. 0 <= m * Expansion
      BY RequestFacts
    <2>2. Chain(r.kept, 0, Upto(r.kept)) /\ Upto(r.kept) <= m * Expansion
      BY <1>1, <2>1, Zenon
    <2> QED BY <1>2, <2>2 DEF Keeps
  <1>3. CASE ~Inflates
    <2>1. Chain(<<>>, n, m)
      BY <1>3, ChainEmpty
    <2> QED BY <1>3, <2>1, Zenon DEF Keeps
  <1> QED BY <1>2, <1>3

\* Where the Readable has got to, as the parser works it out.
LEMMA GivenAwayIs ==
  ASSUME Inv
  PROVE  GivenAway = Away /\ Away \in Nat
  BY HeldChain, PlaceTypes DEF GivenAway, Away

\* Off a stream that has begun: it listens, from what was given away on.
LEMMA ParseStream ==
  ASSUME Inv, Parse, Entry(Step) = "collect", receivedData
  PROVE  Inv'
  <1>1. Running("parse")
    BY DEF Parse
  <1>2. /\ ProgramType /\ FieldType /\ StreamType /\ WireType /\ ReaderType
        /\ ClaimInv /\ EndInv /\ StreamInv /\ WireInv /\ ReadInv
        /\ status = "running" /\ pc \in 1 .. Len(program) /\ program[pc].do = "parse"
        /\ Step = program[pc] /\ Step.limit \in Nat /\ request \in RequestType
        /\ UNCHANGED <<transport, request, program, sync, finished, aborted>>
    BY <1>1, ParseFacts DEF Inv
  <1>3. /\ ~bodyRead /\ Declared /\ gathered = <<>> /\ reading = NoReading
        /\ handler = "stream" /\ "parser" \notin listeners /\ bodyClaimed
    BY <1>1, CollectEntry
  <1>4. CollectStreamedBody
    BY DEF Parse
  <1>5. /\ bodyRead' = TRUE /\ listeners' = listeners \cup {"parser"}
        /\ flow' \in {flow, "booked"} /\ reading' = NewReading(GivenAway)
        /\ status' = "collecting"
        /\ UNCHANGED <<bodyClaimed, handler, answers, pc, buffered, ended, endEmitted,
                       destroyed, heard, receivedData, complete, readable, emptyBody, sent,
                       last, held, gathered, paused>>
    BY <1>4 DEF CollectStreamedBody, Listens
  <1>6. Handed' = Handed /\ Away' = Away /\ GivenAway = Away /\ Away \in Nat
    <2>1. Handed' = Handed
      BY <1>5 DEF Handed
    <2> QED BY <1>5, <2>1, GivenAwayIs DEF Away
  <1>7. /\ reading' \in ReadingType /\ reading'.at = pc /\ reading'.kept = <<>>
        /\ reading'.missed = Away
    <2>1. pc \in Nat
      BY <1>2, ProgramFacts
    <2>2. reading' = NewReading(Away)
      BY <1>5, <1>6, Zenon
    <2>3. /\ NewReading(Away) \in ReadingType /\ NewReading(Away).at = pc
          /\ NewReading(Away).kept = <<>> /\ NewReading(Away).missed = Away
      BY <1>6, <2>1, NewReadingIs
    <2> QED BY <2>2, <2>3, Zenon
  <1>8. AnswerInv' /\ OverInv' /\ ProgramType'
    BY <1>1, <1>5, ParseKept
  <1>9. WireInv' /\ EndInv'
    BY <1>2, <1>3, <1>5 DEF WireInv, EndInv, Declared
  <1>10. ClaimInv'
    BY <1>2, <1>3, <1>5, <1>6 DEF ClaimInv, Declared, Feeding
  <1>11. StreamInv'
    BY <1>2, <1>3, <1>5, <1>6 DEF StreamInv
  <1>12. Keeps(reading', Away)
    BY <1>2, <1>6, <1>7, KeepsNothing
  <1>13. Keeps(reading, Away)'
    BY <1>2, <1>5, <1>6, <1>12 DEF Keeps, Inflates
  <1>14. KeptInv'
    BY <1>3, <1>5, <1>13 DEF KeptInv
  <1>15. SumSizes(reading'.kept) <= Step.limit /\ SumSizes(gathered') <= Step.limit
    <2>1. SumSizes(<<>>) <= Step.limit
      BY <1>2, SumSizesEmpty
    <2> QED BY <1>3, <1>5, <1>7, <2>1
  <1>16. Away > 0 => \E j \in 1 .. Len(heard) : heard[j].upto = Away
    <2> SUFFICES ASSUME Away > 0 PROVE \E j \in 1 .. Len(heard) : heard[j].upto = Away
      OBVIOUS
    <2>1. Chain(heard, 0, Away)
      BY <1>2, <1>3 DEF StreamInv
    <2>2. heard # <<>>
      BY <1>6, <2>1, ChainEmpty
    <2>3. heard \in Seq(Piece)
      BY <1>2 DEF StreamType
    <2> QED BY <2>1, <2>2, <2>3, ChainEnds
  <1>17. ReadInv'
    BY <1>2, <1>3, <1>5, <1>7, <1>14, <1>15, <1>16 DEF ReadInv
  <1>18. FieldType' /\ StreamType' /\ WireType' /\ ReaderType'
    BY <1>2, <1>5, <1>7 DEF FieldType, StreamType, WireType, ReaderType
  <1> QED BY <1>8, <1>9, <1>10, <1>11, <1>17, <1>18 DEF Inv

\* uWS throws: the parser is answered with that, whatever it has set.
LEMMA ParseThrows ==
  ASSUME Inv, Running("parse"), Entry(Step) = "collect", ~receivedData,
         Says(<<Answer("throws", pc, <<>>)>>),
         bodyRead' = TRUE, bodyClaimed' = TRUE,
         complete' \in BOOLEAN, readable' \in BOOLEAN,
         UNCHANGED <<receivedData, emptyBody, streamVars, wireVars, reading>>
  PROVE  Inv'
  <1>1. /\ ProgramType /\ FieldType /\ StreamType /\ WireType /\ ReaderType
        /\ ClaimInv /\ EndInv /\ StreamInv /\ WireInv /\ ReadInv /\ status = "running"
        /\ UNCHANGED <<transport, request, program, sync, finished, aborted>>
    BY ParseFacts DEF Inv
  <1>2. UNCHANGED <<buffered, ended, flow, endEmitted, destroyed, listeners, heard,
                    sent, last, handler, held, gathered, paused>>
    BY DEF streamVars, wireVars
  <1>3. Declared /\ ~Feeding /\ buffered = <<>> /\ heard = <<>>
    BY CollectEntry DEF Feeding
  <1>4. Spoke
    <2>1. "throws" \in Verdict
      BY DEF Verdict
    <2> QED BY <2>1, SaysNow
  <1>5. AnswerInv' /\ OverInv' /\ ProgramType' /\ status' \in {"running", "refused", "collecting"}
    BY <1>2, <1>4, ParseKept
  <1>6. Handed' = Handed /\ Away' = Away /\ ~Feeding' /\ ~Reads'
    BY <1>2, <1>3 DEF Handed, Away, Reads, Feeding
  <1>7. WireInv' /\ EndInv' /\ ReadInv'
    BY <1>1, <1>2, <1>6 DEF WireInv, EndInv, ReadInv, Declared
  <1>8. StreamInv'
    BY <1>1, <1>2, <1>5, <1>6 DEF StreamInv
  <1>9. ClaimInv'
    BY <1>1, <1>2, <1>3, <1>6 DEF ClaimInv, Declared
  <1>10. FieldType' /\ StreamType' /\ WireType' /\ ReaderType'
    BY <1>1, <1>2 DEF FieldType, StreamType, WireType, ReaderType
  <1> QED BY <1>5, <1>7, <1>8, <1>9, <1>10 DEF Inv

\* A compressed body, straight from the transport.
LEMMA ParseDecode ==
  ASSUME Inv, Parse, Entry(Step) = "collect", ~receivedData, Inflates
  PROVE  Inv'
  <1>1. Running("parse")
    BY DEF Parse
  <1>2. CollectStreamedBody
    BY DEF Parse
  <1>3. /\ bodyRead' = TRUE /\ bodyClaimed' = TRUE
        /\ UNCHANGED <<streamVars, receivedData, complete, readable, emptyBody, sent, last,
                       held, gathered, paused>>
    BY <1>2 DEF CollectStreamedBody
  <1>4. CASE UwsThrows
    <2>1. Says(<<Answer("throws", pc, <<>>)>>) /\ UNCHANGED <<handler, reading>>
      BY <1>2, <1>4 DEF CollectStreamedBody
    <2>2. complete \in BOOLEAN /\ readable \in BOOLEAN
      BY DEF Inv, FieldType
    <2>3. UNCHANGED wireVars
      BY <1>3, <2>1 DEF wireVars
    <2> QED BY <1>1, <1>3, <2>1, <2>2, <2>3, ParseThrows
  <1>5. CASE ~UwsThrows
    <2>1. /\ ProgramType /\ FieldType /\ StreamType /\ WireType /\ ReaderType
          /\ ClaimInv /\ EndInv /\ StreamInv /\ WireInv /\ ReadInv
          /\ status = "running" /\ pc \in 1 .. Len(program) /\ program[pc].do = "parse"
          /\ Step = program[pc] /\ Step.limit \in Nat /\ request \in RequestType
          /\ UNCHANGED <<transport, request, program, sync, finished, aborted>>
      BY <1>1, ParseFacts DEF Inv
    <2>2. /\ ~bodyRead /\ Declared /\ gathered = <<>> /\ "parser" \notin listeners
          /\ handler \in {"none", "stream"}
          /\ Handed = 0 /\ buffered = <<>> /\ heard = <<>>
      BY <1>1, CollectEntry
    <2>3. /\ handler' = "parser" /\ reading' = NewReading(0) /\ status' = "collecting"
          /\ UNCHANGED <<answers, pc>>
      BY <1>2, <1>5 DEF CollectStreamedBody
    <2>4. /\ UNCHANGED <<buffered, ended, flow, endEmitted, destroyed, listeners, heard>>
          /\ Handed' = Handed
      BY <1>3 DEF streamVars, Handed
    <2>5. /\ reading' \in ReadingType /\ reading'.at = pc /\ reading'.kept = <<>>
          /\ reading'.missed = 0
      <3>1. pc \in Nat /\ 0 \in Nat
        BY <2>1, ProgramFacts
      <3>2. /\ NewReading(0) \in ReadingType /\ NewReading(0).at = pc
            /\ NewReading(0).kept = <<>> /\ NewReading(0).missed = 0
        BY <3>1, NewReadingIs
      <3> QED BY <2>3, <3>2, Zenon
    <2>6. AnswerInv' /\ OverInv' /\ ProgramType'
      BY <1>1, <2>3, <2>4, ParseKept
    <2>7. WireInv' /\ EndInv' /\ StreamInv'
      BY <1>3, <2>1, <2>2, <2>3, <2>4 DEF WireInv, EndInv, StreamInv, Declared
    <2>8. ClaimInv'
      BY <1>3, <2>1, <2>2, <2>3, <2>4 DEF ClaimInv, Declared
    <2>9. Keeps(reading', 0)
      BY <2>1, <2>5, KeepsNothing
    <2>10. KeptInv'
      <3>1. Keeps(reading, Handed)'
        BY <2>1, <2>2, <2>4, <2>9 DEF Keeps, Inflates
      <3>2. Inflates'
        BY <2>1 DEF Inflates
      <3> QED BY <2>3, <2>5, <3>1, <3>2 DEF KeptInv
    <2>11. SumSizes(reading'.kept) <= Step.limit /\ SumSizes(gathered') <= Step.limit
      <3>1. SumSizes(<<>>) <= Step.limit
        BY <2>1, SumSizesEmpty
      <3> QED BY <1>3, <2>2, <2>5, <3>1
    <2>12. ReadInv'
      BY <1>3, <2>1, <2>3, <2>5, <2>10, <2>11 DEF ReadInv
    <2>13. FieldType' /\ StreamType' /\ WireType' /\ ReaderType'
      BY <1>3, <2>1, <2>3, <2>4, <2>5 DEF FieldType, StreamType, WireType, ReaderType
    <2> QED BY <2>6, <2>7, <2>8, <2>12, <2>13 DEF Inv
  <1> QED BY <1>4, <1>5

\* The whole body in one callback: what the shim held back is the first of it.
LEMMA ParseNative ==
  ASSUME Inv, Parse, Entry(Step) = "collect", ~receivedData, ~Inflates
  PROVE  Inv'
  <1>1. Running("parse")
    BY DEF Parse
  <1>2. CollectNativeBody(Step)
    BY DEF Parse
  <1>3. /\ bodyRead' = TRUE /\ bodyClaimed' = TRUE /\ complete' = TRUE /\ readable' = FALSE
        /\ UNCHANGED <<receivedData, emptyBody, streamVars, sent, last, paused>>
    BY <1>2 DEF CollectNativeBody
  <1>4. CASE UwsThrows
    <2>1. /\ Says(<<Answer("throws", pc, <<>>)>>)
          /\ UNCHANGED <<handler, held, gathered, reading>>
      BY <1>2, <1>4 DEF CollectNativeBody
    <2>2. complete' \in BOOLEAN /\ readable' \in BOOLEAN
      BY <1>3
    <2>3. UNCHANGED wireVars
      BY <1>3, <2>1 DEF wireVars
    <2> QED BY <1>1, <1>3, <2>1, <2>2, <2>3, ParseThrows
  <1>5. CASE ~UwsThrows
    <2>1. /\ ProgramType /\ FieldType /\ StreamType /\ WireType /\ ReaderType
          /\ ClaimInv /\ EndInv /\ StreamInv /\ WireInv /\ ReadInv
          /\ status = "running" /\ pc \in 1 .. Len(program) /\ program[pc].do = "parse"
          /\ Step = program[pc] /\ Step.limit \in Nat /\ request \in RequestType
          /\ request.len \in Nat
          /\ UNCHANGED <<transport, request, program, sync, finished, aborted>>
      BY <1>1, ParseFacts DEF Inv
    <2>2. /\ ~bodyRead /\ Declared /\ gathered = <<>> /\ "parser" \notin listeners
          /\ handler \in {"none", "stream"}
          /\ Handed = 0 /\ buffered = <<>> /\ heard = <<>>
      BY <1>1, CollectEntry
    <2>3. held' = <<>> /\ reading' = NewReading(0)
      BY <1>2, <1>5 DEF CollectNativeBody
    <2>4. UNCHANGED <<buffered, ended, flow, endEmitted, destroyed, listeners, heard>>
      BY <1>3 DEF streamVars
    <2>5. /\ reading' \in ReadingType /\ reading'.at = pc /\ reading'.kept = <<>>
          /\ reading'.missed = 0 /\ reading'.over = FALSE
      <3>1. pc \in Nat /\ 0 \in Nat
        BY <2>1, ProgramFacts
      <3>2. /\ NewReading(0) \in ReadingType /\ NewReading(0).at = pc
            /\ NewReading(0).kept = <<>> /\ NewReading(0).missed = 0
            /\ NewReading(0).over = FALSE
        BY <3>1, NewReadingIs
      <3> QED BY <2>3, <3>2, Zenon
    <2>6. /\ sent \in Nat /\ sent <= request.len /\ Chain(held, 0, sent)
          /\ SumSizes(held) = sent
      BY <2>2, HeldChain
    <2>7. \/ /\ SumSizes(held) > Step.limit
             /\ Says(<<Answer("413", pc, <<>>)>>)
             /\ handler' = "none" /\ gathered' = <<>>
          \/ /\ SumSizes(held) <= Step.limit
             /\ handler' = "collect" /\ gathered' = held
             /\ status' = "collecting" /\ UNCHANGED <<answers, pc>>
      BY <1>2, <1>5, <2>1, <2>6 DEF CollectNativeBody
    <2>8. Spoke \/ (UNCHANGED <<answers, pc>> /\ status' = "collecting")
      <3>1. CASE SumSizes(held) > Step.limit
        <4>1. Says(<<Answer("413", pc, <<>>)>>)
          BY <2>1, <2>6, <2>7, <3>1
        <4>2. "413" \in Verdict /\ Decoded > Step.limit
          BY <2>1, <2>6, <3>1 DEF Verdict, Decoded
        <4> QED BY <1>1, <4>1, <4>2, SaysNow
      <3>2. CASE SumSizes(held) <= Step.limit
        BY <2>1, <2>6, <2>7, <3>2
      <3> QED BY <2>1, <2>6, <3>1, <3>2
    <2>9. AnswerInv' /\ OverInv' /\ ProgramType'
      BY <1>1, <2>4, <2>8, ParseKept
    <2>10. handler' \in {"none", "collect"} /\ gathered' \in Seq(Piece)
      <3>1. <<>> \in Seq(Piece) /\ held \in Seq(Piece)
        BY <2>1 DEF WireType
      <3>2. handler' \in {"none", "collect"} /\ gathered' \in {<<>>, held}
        BY <2>7
      <3> QED BY <3>1, <3>2, Zenon
    <2>11. WireInv' /\ EndInv' /\ StreamInv'
      BY <1>3, <2>1, <2>3, <2>4, <2>10 DEF WireInv, EndInv, StreamInv, Declared
    <2>12. ClaimInv'
      BY <1>3, <2>1, <2>2, <2>4, <2>10 DEF ClaimInv, Declared
    <2>13. SumSizes(<<>>) <= Step.limit
      BY <2>1, SumSizesEmpty
    <2>14. SumSizes(reading'.kept) <= Step.limit /\ SumSizes(gathered') <= Step.limit
      BY <2>5, <2>7, <2>13
    <2>15. Reads' => handler' = "collect"
      BY <2>2, <2>4, <2>10 DEF Reads, Feeding
    <2>16. ASSUME handler' = "collect" PROVE KeptInv' /\ status' = "collecting"
      <3>1. gathered' = held /\ status' = "collecting"
        BY <2>7, <2>16
      <3>2. Chain(gathered', 0, sent')
        BY <1>3, <2>6, <3>1
      <3>3. ~Inflates'
        BY <2>1 DEF Inflates
      <3> QED BY <2>5, <2>16, <3>1, <3>2, <3>3 DEF KeptInv
    <2>17. handler' = "collect" => pc' = pc
      BY <2>7
    <2>18. ReadInv'
      BY <2>1, <2>5, <2>14, <2>15, <2>16, <2>17 DEF ReadInv
    <2>19. FieldType' /\ StreamType' /\ WireType' /\ ReaderType'
      <3>1. held' \in Seq(Piece)
        BY <2>3
      <3> QED BY <1>3, <2>1, <2>4, <2>5, <2>10, <3>1
              DEF FieldType, StreamType, WireType, ReaderType
    <2> QED BY <2>9, <2>11, <2>12, <2>18, <2>19 DEF Inv
  <1> QED BY <1>4, <1>5

LEMMA ParseStep == ASSUME Inv, Parse PROVE Inv'
  <1>1. Entry(Step) \in {"skip", "415", "empty", "413", "collect"}
    <2>1. Running("parse")
      BY DEF Parse
    <2> QED BY <2>1, EntryFacts
  <1> QED BY <1>1, ParseRefused, ParseEmpty, ParseStream, ParseDecode, ParseNative

-----------------------------------------------------------------------------
(* The invariant holds, and with it what is promised of a body.              *)

LEMMA Initial == ASSUME Init PROVE Inv
  <1>1. /\ transport \in Transports /\ request \in Requests /\ program \in Programs
        /\ pc = 1 /\ status = "running" /\ sync = TRUE
        /\ answers = <<>> /\ heard = <<>> /\ finished = FALSE /\ aborted = FALSE
    BY DEF Init
  <1>2. /\ receivedData = ~Declared /\ complete = ~Declared /\ emptyBody = ~Declared
        /\ readable = TRUE /\ bodyRead = FALSE /\ bodyClaimed = FALSE
        /\ buffered = <<>> /\ ended = FALSE /\ flow = "off"
        /\ endEmitted = FALSE /\ destroyed = FALSE /\ listeners = {}
    BY DEF Init
  <1>3. /\ sent = 0 /\ last = FALSE /\ handler = "none" /\ held = <<>>
        /\ gathered = <<>> /\ paused = FALSE /\ reading = NoReading
    BY DEF Init
  <1>4. <<>> \in Seq(Piece) /\ <<>> \in Seq(AnswerType) /\ Len(<<>>) = 0
    OBVIOUS
  <1>5. reading.at = 0 /\ reading.missed = 0 /\ reading \in ReadingType
    <2>1. PICK k \in Seq(Piece) : k = <<>>
      BY <1>4, Zenon
    <2>2. PICK o \in BOOLEAN : o = TRUE
      OBVIOUS
    <2>3. PICK r : r = [at |-> 0, kept |-> k, over |-> o, missed |-> 0]
      OBVIOUS
    <2>4. r.at = 0 /\ r.missed = 0 /\ r \in ReadingType
      BY <2>3 DEF ReadingType
    <2>5. r = reading
      BY <1>3, <2>1, <2>2, <2>3, Zenon DEF NoReading
    <2> QED BY <2>4, <2>5, Zenon
  <1>6. request.len \in Nat
    BY <1>1, BodyAssumption, RequestFacts
  <1>7. Handed = 0 /\ ~Feeding /\ ~Reads
    BY <1>2, <1>3 DEF Handed, Feeding, Reads
  <1>8. ProgramType
    <2>1. sync \in BOOLEAN /\ finished \in BOOLEAN /\ aborted \in BOOLEAN
      BY <1>1, Zenon
    <2>3. pc \in Nat \ {0}
      <3>1. pc = 1
        BY <1>1
      <3> QED BY <3>1
    <2>2. answers \in Seq(AnswerType)
      BY <1>1, <1>4, Zenon
    <2> QED BY <1>1, <2>1, <2>2, <2>3 DEF ProgramType
  <1>9. FieldType
    BY <1>2 DEF FieldType, Declared
  <1>10. StreamType
    <2>1. buffered \in Seq(Piece) /\ heard \in Seq(Piece)
      BY <1>1, <1>2, <1>4, Zenon
    <2> QED BY <1>2, <2>1 DEF StreamType
  <1>11. WireType /\ ReaderType
    <2>1. held \in Seq(Piece) /\ gathered \in Seq(Piece)
      BY <1>3, <1>4, Zenon
    <2> QED BY <1>3, <1>5, <2>1 DEF WireType, ReaderType
  <1>12. WireInv /\ OverInv /\ EndInv
    <2>1. WireInv
      <3>1. sent = 0 /\ ~last /\ held = <<>>
        BY <1>3
      <3> QED BY <1>6, <3>1 DEF WireInv
    <2>2. OverInv
      BY <1>1, <1>2 DEF OverInv
    <2>3. EndInv
      BY <1>2 DEF EndInv, Declared
    <2> QED BY <2>1, <2>2, <2>3
  <1>13. ClaimInv
    BY <1>1, <1>2, <1>3, <1>7 DEF ClaimInv
  <1>14. StreamInv
    BY <1>3 DEF StreamInv
  <1>15. ReadInv
    BY <1>3, <1>5, <1>7 DEF ReadInv
  <1>16. AnswerInv
    <2>1. Len(answers) = 0
      BY <1>1, <1>4
    <2> QED BY <2>1 DEF AnswerInv, AnsweredOnce
  <1> QED BY <1>8, <1>9, <1>10, <1>11, <1>12, <1>13, <1>14, <1>15, <1>16 DEF Inv

\* Every step keeps it.
LEMMA NextStep == ASSUME Inv, [Next]_vars PROVE Inv'
  <1>1. CASE UNCHANGED vars
    <2>1. /\ UNCHANGED <<transport, request, program, pc, status, sync, answers, finished,
                         aborted, receivedData, complete, readable, bodyRead, bodyClaimed,
                         emptyBody>>
          /\ UNCHANGED <<buffered, ended, flow, endEmitted, destroyed, listeners, heard,
                         sent, last, handler, held, gathered, paused, reading>>
      BY <1>1 DEF vars, programVars, responseVars, fieldVars, streamVars, wireVars
    <2>2. Handed' = Handed /\ Away' = Away /\ Reads' = Reads /\ Feeding' = Feeding
      BY <2>1 DEF Handed, Away, Reads, Feeding
    <2>3. ProgramType' /\ FieldType' /\ StreamType' /\ WireType' /\ ReaderType'
      BY <2>1 DEF Inv, ProgramType, FieldType, StreamType, WireType, ReaderType
    <2>4. WireInv' /\ OverInv' /\ EndInv' /\ ClaimInv' /\ StreamInv'
      BY <2>1, <2>2
         DEF Inv, WireInv, OverInv, EndInv, ClaimInv, StreamInv, Declared
    <2>5. ReadInv'
      BY <2>1, <2>2 DEF Inv, ReadInv, KeptInv, Keeps, Inflates
    <2>6. AnswerInv'
      <3>1. ProgramType /\ AnswerInv /\ pc \in Nat
        BY DEF Inv, ProgramType
      <3> QED BY <2>1, <3>1, AnswersStay DEF Owes
    <2> QED BY <2>3, <2>4, <2>5, <2>6 DEF Inv
  <1>2. CASE Next
    BY <1>2, ParseStep, ListenStep, AwaitStep, WakeStep, EndStep, SettleStep, FlowStep,
       EmitEndStep, UwsPieceStep, ShimPieceStep, ShimEndStep, AbortStep DEF Next
  <1> QED BY <1>1, <1>2

LEMMA InvImplies == ASSUME Inv PROVE BodyWhole
  <1>1. TypeOK
    BY DEF Inv, ProgramType, FieldType, StreamType, WireType, ReaderType, TypeOK,
           ReadingType, AnswerType
  <1>2. AnsweredOnce
    BY DEF Inv, AnswerInv
  <1>3. ParsedIsWhole
    BY DEF Inv, AnswerInv, Right, WholeOf, ParsedIsWhole
  <1>4. LimitHolds
    <2>1. /\ pc \in Nat \ {0} /\ ReadInv
          /\ \A i \in 1 .. Len(answers) : Right(answers[i])
      BY DEF Inv, ProgramType, AnswerInv
    <2>2. ASSUME reading.at = pc, Step.do = "parse"
          PROVE  SumSizes(reading.kept) <= Step.limit /\ SumSizes(gathered) <= Step.limit
      BY <2>1, <2>2 DEF ReadInv, Step
    <2>3. ASSUME NEW i \in 1 .. Len(answers)
          PROVE  /\ answers[i].is = "parsed" =>
                       SumSizes(answers[i].got) <= program[answers[i].at].limit
                 /\ answers[i].is = "413" => Decoded > program[answers[i].at].limit
      BY <2>1 DEF Right
    <2> QED BY <2>2, <2>3 DEF LimitHolds
  <1> QED BY <1>1, <1>2, <1>3, <1>4 DEF BodyWhole

\* Whatever the program, the request, the transport and the order in which
\* pieces, ticks, awaits and the client's departure come: a body parser
\* (src/body-parser.js) calls next() once, the value it makes is of the whole
\* body, decoded and in order, or of what no listener of the program's had been
\* given before, and it keeps no more than its limit, for which it refuses only
\* a body that is over it.
THEOREM BodyReadWhole == Spec => []BodyWhole
  <1>1. Init => Inv
    BY Initial
  <1>2. Inv /\ [Next]_vars => Inv'
    BY NextStep
  <1>3. Inv => BodyWhole
    BY InvImplies
  <1> QED BY <1>1, <1>2, <1>3, PTL DEF Spec
==============================================================================
