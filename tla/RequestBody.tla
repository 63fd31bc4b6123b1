---------------------------- MODULE RequestBody ----------------------------
(***************************************************************************)
(* The body of one request: who takes it, and how it reaches them.  The    *)
(* request is a lazy Readable (src/request.js, lazy-readable.js); a body   *)
(* parser (src/body-parser.js) takes the body from the transport natively, *)
(* chunk by chunk, or off that Readable; the transport is uWS, or node     *)
(* behind src/node-shim.js.                                                *)
(*                                                                         *)
(* The program that handles the request is a sequence of steps: a parser,  *)
(* a listener of its own on the stream, an await (of a tick, or of the     *)
(* stream's end), the answer.  It runs to its next pause before the        *)
(* transport speaks again.  Up to the first one it is inside the callback  *)
(* that delivered the request.                                             *)
(***************************************************************************)
EXTENDS Pieces, Functions, SequencesExt

CONSTANTS
    Transports,     \* "uws", "shim": what is under the request
    Requests,       \* the requests explored, see RequestType
    Programs,       \* sequences of steps, see StepType
    HighWaterMark,  \* of the Readable, in bytes
    Expansion       \* bytes a compressed byte inflates to

StepType ==
    [do : {"listen", "await", "hear", "answer"}]
      \cup [do : {"parse"}, claims : SUBSET STRING, policy : SUBSET STRING,
            inflate : BOOLEAN, limit : Nat, verify : {"none", "ok", "throws"},
            parser : {"json", "raw", "text", "form", "multipart"},
            strict : BOOLEAN, extended : BOOLEAN, parameterLimit : Nat]

RequestType ==
    [len : Nat, framing : {"none", "length", "chunked"}, type : STRING,
     charset : STRING, known : BOOLEAN, coding : {"identity", "gzip", "odd"},
     coded : {"fine", "truncated", "corrupt"}, carries : BOOLEAN,
     value : {"object", "scalar", "broken", "deep"}, ampersands : Nat]

ASSUME BodyAssumption ==
    /\ Transports \subseteq {"uws", "shim"}
    /\ Requests \subseteq RequestType /\ Programs \subseteq Seq(StepType)
    /\ HighWaterMark \in Nat \ {0} /\ Expansion \in Nat \ {0}

VARIABLES
    transport, request, program,
    \* the program, and what it was answered
    pc, status, sync,
    answers,        \* what each parser called next() with
    heard,          \* pieces its own listener got
    \* the response
    finished, aborted,
    \* fields of the request
    receivedData, complete, readable, bodyRead, bodyClaimed, emptyBody,
    \* its Readable
    buffered,       \* chunks pushed and not read
    ended,          \* null was pushed
    flow,           \* "off", "booked" for a tick, "on"
    endEmitted, destroyed,
    listeners,      \* of its 'data' and 'end': "app", "parser"
    \* the transport
    sent, last,     \* bytes the client's side has handed over, and the end
    handler,        \* "none", "stream", "parser" by onData; "collect"
    held,           \* shim: the chunk that may be the last
    gathered,       \* what collectBody has of the body
    paused,         \* the request asked for a pause (RequestExtras.paused)
    \* the parser that is collecting
    reading         \* its closure

programVars == <<transport, request, program, pc, status, sync, answers>>
responseVars == <<finished, aborted>>
fieldVars == <<receivedData, complete, readable, bodyRead, bodyClaimed,
               emptyBody>>
streamVars == <<buffered, ended, flow, endEmitted, destroyed, listeners,
                heard>>
wireVars == <<sent, last, handler, held, gathered, paused>>
vars == <<programVars, responseVars, fieldVars, streamVars, wireVars, reading>>

-----------------------------------------------------------------------------
Step == program[pc]
Over == finished \/ aborted         \* #responseEnded
Inflates == request.coding = "gzip"
Declared == request.framing # "none"
                /\ ~(request.framing = "length" /\ request.len = 0)

\* The length of the body as a parser counts it.
Decoded == IF Inflates THEN request.len * Expansion ELSE request.len

SumSizes(s) == SumFunctionOnSet([i \in DOMAIN s |-> Size(s[i])], DOMAIN s)

NoReading ==
    [at |-> 0, kept |-> <<>>, over |-> TRUE, missed |-> 0]

\* The constructor: only a declared body is awaited.
Init ==
    /\ transport \in Transports /\ request \in Requests
    /\ program \in Programs
    /\ pc = 1 /\ status = "running" /\ sync = TRUE
    /\ answers = <<>> /\ heard = <<>>
    /\ finished = FALSE /\ aborted = FALSE
    /\ receivedData = ~Declared /\ complete = ~Declared
    /\ emptyBody = ~Declared
    /\ readable = TRUE /\ bodyRead = FALSE /\ bodyClaimed = FALSE
    /\ buffered = <<>> /\ ended = FALSE /\ flow = "off"
    /\ endEmitted = FALSE /\ destroyed = FALSE /\ listeners = {}
    /\ sent = 0 /\ last = FALSE /\ handler = "none" /\ held = <<>>
    /\ gathered = <<>> /\ paused = FALSE
    /\ reading = NoReading

-----------------------------------------------------------------------------
(* What a parser answers.  An error goes to the error handlers, which end  *)
(* the response; anything else continues the program.                      *)

Answer(is, at, got) == [is |-> is, at |-> at, got |-> got]

Goes(is) == is \in {"skip", "parsed"}

\* What was said to next() takes effect: the program goes on or is refused.
Says(s) ==
    IF s = <<>> THEN UNCHANGED <<answers, pc, status>>
    ELSE /\ answers' = answers \o s
         /\ IF Goes(Head(s).is) THEN pc' = pc + 1 /\ status' = "running"
                                ELSE UNCHANGED pc /\ status' = "refused"

\* What each parser makes of the bytes, once there are some.
JsonReturn(p, empty) ==
    IF ~empty /\ (request.value = "broken" \/ (request.value = "scalar" /\ p.strict))
    THEN "malformed" ELSE "parsed"

ParameterCountOver(p) == request.ampersands >= p.parameterLimit

FormReturn(p) ==
    IF ParameterCountOver(p) THEN "413 parameters"
    ELSE IF p.extended /\ request.value = "deep" THEN "400 depth" ELSE "parsed"

MultipartReturn == IF request.value = "broken" THEN "malformed" ELSE "parsed"

RunVerify(p) == p.verify # "throws"

Return(p, empty) ==
    CASE p.parser = "json" -> JsonReturn(p, empty)
      [] p.parser = "form" -> FormReturn(p)
      [] p.parser = "multipart" -> MultipartReturn
      [] OTHER -> "parsed"

\* The verify hook, then the parser.
BeforeReturn(p, at, got) ==
    Answer(IF RunVerify(p) THEN Return(p, SumSizes(got) = 0) ELSE "403", at, got)

\* A body that is there to be read, and is this parser's to read.
TakenOrGone == bodyRead \/ (complete /\ ~(readable /\ ~endEmitted /\ ~destroyed))
Claims(p) == request.framing # "none" /\ request.type \in p.claims

\* A charset or a coding it does not take.
Unsupported(p) ==
    \/ p.policy # {} /\ (request.charset \notin p.policy \/ ~request.known)
    \/ ~p.inflate /\ request.coding # "identity"
    \/ request.coding = "odd"

\* What the parser does with this request before any byte of it.
Entry(p) ==
    LET length == IF request.framing = "length" THEN request.len ELSE -1 IN
    IF TakenOrGone \/ ~Claims(p) THEN "skip"
    ELSE IF Unsupported(p) THEN "415"
    ELSE IF length = 0 THEN "empty"
    ELSE IF ~Inflates /\ length > p.limit THEN "413"
    ELSE IF ~request.carries THEN "skip" ELSE "collect"

-----------------------------------------------------------------------------
(* The parser's closures: chunks in, one answer out.                       *)

\* A chunk counted against the limit and kept, or the limit answers.
KeepChunk(p, r, piece) ==
    LET kept == Append(r.kept, piece) IN
    IF SumSizes(kept) > p.limit
    THEN [reading |-> [r EXCEPT !.over = TRUE, !.kept = <<>>],
          says |-> <<Answer("413", r.at, <<>>)>>]
    ELSE [reading |-> [r EXCEPT !.kept = kept], says |-> <<>>]

FailInflate(r) ==
    [reading |-> [r EXCEPT !.over = TRUE, !.kept = <<>>],
     says |-> <<Answer("400 inflate", r.at, <<>>)>>]

Silent(r) == [reading |-> r, says |-> <<>>]

\* A decoder gives back what it likes of what it could by now.
OnData(p, r, piece) ==
    IF r.over THEN {Silent(r)}
    ELSE IF ~Inflates THEN {KeepChunk(p, r, piece)}
    ELSE IF r.missed > 0 THEN {FailInflate(r)}
    ELSE LET at == Upto(r.kept) IN
         {KeepChunk(p, r, [from |-> at, upto |-> b]) :
                b \in at .. piece.upto * Expansion}
           \cup (IF request.coded = "corrupt" THEN {FailInflate(r)} ELSE {})

\* The body is whole: the size promised, then the hook and the parser.
Assemble(p, r) ==
    IF /\ ~Inflates /\ request.framing = "length"
       /\ SumSizes(r.kept) # request.len
    THEN Answer("400 size", r.at, <<>>)
    ELSE BeforeReturn(p, r.at, r.kept)

\* The finish pass of a decoder that was given no byte of a body, or not the
\* first of them, finds it cut short.
Finishes(r) == request.coded = "fine" /\ r.missed = 0 /\ request.len > 0

OnEnd(p, r) ==
    IF r.over THEN Silent(r)
    ELSE LET over == [r EXCEPT !.over = TRUE]
             at == Upto(r.kept)
         IN  IF ~Inflates
             THEN [reading |-> over, says |-> <<Assemble(p, r)>>]
             ELSE IF ~Finishes(r) THEN FailInflate(r)
             ELSE IF at = Decoded
             THEN [reading |-> over, says |-> <<Assemble(p, over)>>]
             ELSE LET k == KeepChunk(p, over, [from |-> at, upto |-> Decoded])
                  IN  IF k.says # <<>> THEN k
                      ELSE [k EXCEPT !.says = <<Assemble(p, k.reading)>>]

\* Data, then the end if this was the last of it.
OnDataLast(p, r, piece, isLast) ==
    IF ~isLast THEN OnData(p, r, piece)
    ELSE {LET e == OnEnd(p, d.reading) IN [e EXCEPT !.says = d.says \o @]
            : d \in OnData(p, r, piece)}

-----------------------------------------------------------------------------
(* The Readable.  A push to a stream that flows and holds nothing goes     *)
(* straight to the listeners.                                              *)

\* Those on the stream get a piece; a parser among them may answer.
Emit(piece) ==
    /\ heard' = IF "app" \in listeners THEN Append(heard, piece) ELSE heard
    /\ IF "parser" \in listeners
       THEN \E o \in OnData(program[reading.at], reading, piece) :
                reading' = o.reading /\ Says(o.says)
       ELSE UNCHANGED <<reading, answers, pc, status>>

\* The handler of _subscribeBody: pushed on, and a full queue asks for a pause.
StreamData(piece, isLast) ==
    /\ receivedData' = TRUE
    /\ IF Over \/ destroyed
       THEN UNCHANGED <<paused, complete, ended, buffered, heard, reading,
                        answers, pc, status>>
       ELSE /\ IF flow # "off" /\ buffered = <<>>
               THEN Emit(piece) /\ UNCHANGED buffered
               ELSE /\ buffered' = IF Size(piece) = 0 THEN buffered
                                   ELSE Append(buffered, piece)
                    /\ UNCHANGED <<heard, reading, answers, pc, status>>
            /\ paused' = (paused \/ (~isLast
                                     /\ SumSizes(buffered') >= HighWaterMark))
            /\ complete' = (complete \/ isLast) /\ ended' = (ended \/ isLast)

\* _read(): the empty end of a bodyless request, or the pause is lifted.
Read ==
    IF emptyBody
    THEN emptyBody' = FALSE /\ ended' = TRUE /\ UNCHANGED paused
    ELSE /\ paused' = (paused /\ Over)
         /\ UNCHANGED <<emptyBody, ended>>

\* One read of the loop that empties a flowing stream.
Flow ==
    /\ status # "running" /\ ~sync /\ ~destroyed
    /\ flow = "booked" \/ (flow = "on" /\ buffered # <<>>)
    /\ flow' = "on"
    /\ IF buffered = <<>>
       THEN Read /\ UNCHANGED <<buffered, heard, reading, answers, pc, status>>
       ELSE /\ buffered' = Tail(buffered)
            /\ IF SumSizes(buffered') < HighWaterMark /\ ~ended
               THEN Read ELSE UNCHANGED <<emptyBody, ended, paused>>
            /\ Emit(Head(buffered))
    /\ UNCHANGED <<transport, request, program, sync, responseVars,
                   receivedData, complete, readable, bodyRead, bodyClaimed,
                   endEmitted, destroyed, listeners, sent, last, handler, held,
                   gathered>>

\* 'end', a tick after the last piece was read.
EmitEnd ==
    /\ status # "running" /\ ~sync /\ ~destroyed
    /\ ended /\ buffered = <<>> /\ flow = "on" /\ ~endEmitted
    /\ endEmitted' = TRUE
    /\ LET o == IF "parser" \in listeners
                THEN OnEnd(program[reading.at], reading) ELSE Silent(reading)
       IN  reading' = o.reading /\ Says(o.says)
    /\ UNCHANGED <<transport, request, program, sync, responseVars, fieldVars,
                   buffered, ended, flow, destroyed, listeners, heard, wireVars>>

-----------------------------------------------------------------------------
(* The program.  While it runs nothing else does.                          *)

\* uWS throws on a response that is over; the shim does not.
UwsThrows == transport = "uws" /\ Over

Running(do) ==
    /\ status = "running" /\ pc <= Len(program) /\ Step.do = do
    /\ UNCHANGED <<transport, request, program, sync, responseVars>>

\* req.on("data"): the stream starts to flow on the next tick.
Listens(who) ==
    /\ listeners' = listeners \cup {who}
    /\ flow' = IF flow = "off" THEN "booked" ELSE flow
    /\ UNCHANGED <<buffered, ended, endEmitted, destroyed, heard>>

NewReading(missed) == [at |-> pc, kept |-> <<>>, over |-> FALSE,
                       missed |-> missed]

\* What the stream has already given away.
GivenAway == IF buffered # <<>> THEN buffered[1].from ELSE sent - SumSizes(held)

\* Natively: one callback with the whole body.  The shim counts the chunk that
\* onData held back as the first.
CollectNativeBody(p) ==
    /\ bodyRead' = TRUE /\ bodyClaimed' = TRUE
    /\ complete' = TRUE /\ readable' = FALSE
    /\ IF UwsThrows
       THEN /\ Says(<<Answer("throws", pc, <<>>)>>)
            /\ UNCHANGED <<handler, held, gathered, reading>>
       ELSE /\ held' = <<>>
            /\ reading' = NewReading(0)
            /\ IF SumSizes(held) > p.limit
               THEN /\ Says(<<Answer("413", pc, <<>>)>>)
                    /\ handler' = "none" /\ gathered' = <<>>
               ELSE /\ handler' = "collect" /\ gathered' = held
                    /\ status' = "collecting" /\ UNCHANGED <<answers, pc>>
    /\ UNCHANGED <<receivedData, emptyBody, streamVars, sent, last, paused>>

\* Chunk by chunk: straight from the transport, or off a stream already begun.
CollectStreamedBody ==
    /\ bodyRead' = TRUE
    /\ IF receivedData
       THEN /\ Listens("parser") /\ reading' = NewReading(GivenAway)
            /\ status' = "collecting"
            /\ UNCHANGED <<bodyClaimed, handler, answers, pc>>
       ELSE /\ bodyClaimed' = TRUE /\ UNCHANGED streamVars
            /\ IF UwsThrows
               THEN /\ Says(<<Answer("throws", pc, <<>>)>>)
                    /\ UNCHANGED <<handler, reading>>
               ELSE /\ handler' = "parser" /\ reading' = NewReading(0)
                    /\ status' = "collecting" /\ UNCHANGED <<answers, pc>>
    /\ UNCHANGED <<receivedData, complete, readable, emptyBody, sent, last,
                   held, gathered, paused>>

\* A body parser is reached.
Parse ==
    /\ Running("parse")
    /\ LET does == Entry(Step) IN
       CASE does = "collect" ->
               IF receivedData \/ Inflates THEN CollectStreamedBody
                                           ELSE CollectNativeBody(Step)
         [] does = "empty" ->
               /\ bodyRead' = TRUE
               /\ Says(<<IF Inflates THEN Answer("400 inflate", pc, <<>>)
                         ELSE BeforeReturn(Step, pc, <<>>)>>)
               /\ UNCHANGED <<receivedData, complete, readable, bodyClaimed,
                              emptyBody, streamVars, wireVars, reading>>
         [] OTHER ->
               /\ Says(<<Answer(does, pc, <<>>)>>)
               /\ UNCHANGED <<fieldVars, streamVars, wireVars, reading>>

\* The program listens to the request itself.
Listen ==
    /\ Running("listen")
    /\ Listens("app") /\ pc' = pc + 1
    /\ UNCHANGED <<status, answers, fieldVars, wireVars, reading>>

\* An await of a tick, or of the listener's 'end'.
Await ==
    /\ Running("await") \/ Running("hear")
    /\ status' = "waiting" /\ pc' = pc + 1
    /\ UNCHANGED <<answers, fieldVars, streamVars, wireVars, reading>>

Wake ==
    /\ status = "waiting" /\ ~sync
    /\ program[pc - 1].do = "hear" => endEmitted
    /\ status' = "running"
    /\ UNCHANGED <<transport, request, program, pc, sync, answers, responseVars,
                   fieldVars, streamVars, wireVars, reading>>

\* The program answers, or has no more to say; or an error handler answers.
End ==
    /\ \/ status = "refused"
       \/ /\ status = "running"
          /\ IF pc > Len(program) THEN TRUE ELSE Step.do = "answer"
    /\ finished' = TRUE /\ status' = "done"
    /\ UNCHANGED <<transport, request, program, pc, sync, answers, aborted,
                   fieldVars, streamVars, wireVars, reading>>

\* A bug: the body is taken only while somebody listens already.
SubscribeIfHeard ==
    IF Declared /\ ~bodyClaimed /\ ~Over /\ listeners # {}
    THEN bodyClaimed' = TRUE /\ handler' = "stream"
    ELSE UNCHANGED <<bodyClaimed, handler>>

\* Takes the body for the stream when nobody else has.
SubscribeBody ==
    IF Declared /\ ~bodyClaimed /\ ~Over
    THEN bodyClaimed' = TRUE /\ handler' = "stream"
    ELSE UNCHANGED <<bodyClaimed, handler>>

\* The callback that delivered the request returns: _settleBody.
Settle ==
    /\ sync /\ status # "running"
    /\ sync' = FALSE
    /\ SubscribeBody
    /\ UNCHANGED <<transport, request, program, pc, status, answers,
                   responseVars, receivedData, complete, readable, bodyRead,
                   emptyBody, streamVars, sent, last, held, gathered, paused,
                   reading>>

-----------------------------------------------------------------------------
(* The transport hands a piece to whoever registered last.                 *)

\* collectBody: null past the limit, and the rest is dropped; or the whole.
CollectData(p, piece, isLast) ==
    LET all == IF Size(piece) = 0 THEN gathered ELSE Append(gathered, piece)
    IN  IF SumSizes(all) > p.limit
        THEN /\ handler' = "none" /\ gathered' = <<>>
             /\ reading' = [reading EXCEPT !.over = TRUE]
             /\ Says(<<Answer("413", reading.at, <<>>)>>)
        ELSE /\ gathered' = all
             /\ IF isLast
                THEN /\ handler' = "none"
                     /\ reading' = [reading EXCEPT !.over = TRUE]
                     /\ Says(<<Assemble(p, [reading EXCEPT !.kept = all])>>)
                ELSE UNCHANGED <<handler, reading, answers, pc, status>>

\* The parser's own onData; on the last piece the request is complete.
ParserData(p, piece, isLast) ==
    /\ \E o \in OnDataLast(p, reading, piece, isLast) :
            reading' = o.reading /\ Says(o.says)
    /\ IF isLast THEN complete' = TRUE /\ readable' = FALSE
                 ELSE UNCHANGED <<complete, readable>>

Hand(piece, isLast) ==
    /\ CASE handler = "stream" ->
              /\ StreamData(piece, isLast)
              /\ UNCHANGED <<handler, gathered, readable>>
         [] handler = "parser" ->
              /\ ParserData(program[reading.at], piece, isLast)
              /\ UNCHANGED <<receivedData, paused, ended, buffered, heard,
                             handler, gathered>>
         [] handler = "collect" ->
              /\ CollectData(program[reading.at], piece, isLast)
              /\ UNCHANGED <<receivedData, paused, ended, buffered, heard,
                             complete, readable>>
         [] handler = "none" ->
              UNCHANGED <<receivedData, paused, ended, buffered, heard, handler,
                          gathered, complete, readable, reading, answers, pc,
                          status>>
    /\ UNCHANGED <<transport, request, program, sync, responseVars, bodyRead,
                   bodyClaimed, emptyBody, flow, endEmitted, destroyed,
                   listeners>>

\* What the transport may bring now.
Brings ==
    /\ Declared /\ ~sync /\ status # "running" /\ ~aborted /\ ~paused /\ ~last
    /\ ~(flow = "on" /\ buffered # <<>>)

\* uWS marks the last piece; a chunked body ends on an empty one.
UwsPiece ==
    /\ transport = "uws" /\ Brings
    /\ \E n \in 0 .. request.len - sent :
          LET isLast == sent + n = request.len
                            /\ (n = 0 \/ request.framing = "length")
          IN  /\ n > 0 \/ isLast
              /\ sent' = sent + n /\ last' = isLast /\ UNCHANGED held
              /\ Hand([from |-> sent, upto |-> sent + n], isLast)

\* A bug: the chunk held back is replaced and not handed on.
ShimForgetsHeld ==
    /\ transport = "shim" /\ Brings /\ handler # "none"
    /\ \E n \in 1 .. request.len - sent :
          LET piece == [from |-> sent, upto |-> sent + n] IN
          /\ sent' = sent + n /\ UNCHANGED last
          /\ IF handler = "collect"
             THEN UNCHANGED held /\ Hand(piece, FALSE)
             ELSE /\ held' = <<piece>>
                  /\ UNCHANGED <<programVars, responseVars, fieldVars,
                                 streamVars, handler, gathered, paused, reading>>

\* The shim holds a chunk back until the next one, or the end, says what it is.
ShimPiece ==
    /\ transport = "shim" /\ Brings /\ handler # "none"
    /\ \E n \in 1 .. request.len - sent :
          LET piece == [from |-> sent, upto |-> sent + n] IN
          /\ sent' = sent + n /\ UNCHANGED last
          /\ IF handler = "collect"
             THEN UNCHANGED held /\ Hand(piece, FALSE)
             ELSE /\ held' = <<piece>>
                  /\ IF held # <<>> THEN Hand(held[1], FALSE)
                     ELSE UNCHANGED <<programVars, responseVars, fieldVars,
                                      streamVars, handler, gathered, paused,
                                      reading>>

ShimEnd ==
    /\ transport = "shim" /\ Brings /\ handler # "none" /\ sent = request.len
    /\ last' = TRUE /\ held' = <<>> /\ UNCHANGED sent
    /\ Hand(IF held # <<>> THEN held[1] ELSE [from |-> sent, upto |-> sent],
            TRUE)

\* onNativeAborted: the client left; the request is destroyed with the response.
Abort ==
    /\ ~sync /\ status # "running" /\ ~finished
    /\ aborted' = TRUE /\ finished' = TRUE /\ destroyed' = TRUE
    /\ UNCHANGED <<programVars, fieldVars, buffered, ended, flow, endEmitted,
                   listeners, heard, wireVars, reading>>

Next ==
    \/ Parse \/ Listen \/ Await \/ Wake \/ End \/ Settle
    \/ Flow \/ EmitEnd
    \/ UwsPiece \/ ShimPiece \/ ShimEnd \/ Abort

Spec == Init /\ [][Next]_vars

Fairness ==
    /\ WF_vars(Parse \/ Listen \/ Await \/ Wake \/ End \/ Settle)
    /\ WF_vars(Flow) /\ WF_vars(EmitEnd)
    /\ WF_vars(UwsPiece \/ ShimPiece \/ ShimEnd)

FairSpec == Spec /\ Fairness

-----------------------------------------------------------------------------
Verdict ==
    {"skip", "parsed", "malformed", "400 inflate", "400 size", "400 depth", "403", "413",
     "413 parameters", "415", "throws"}

\* Every variable has its type.
TypeOK ==
    /\ transport \in Transports /\ request \in Requests /\ program \in Programs
    /\ pc \in Nat \ {0}
    /\ status \in {"running", "collecting", "waiting", "refused", "done"}
    /\ answers \in Seq([is : Verdict, at : Nat, got : Seq(Piece)])
    /\ sync \in BOOLEAN /\ finished \in BOOLEAN /\ aborted \in BOOLEAN
    /\ receivedData \in BOOLEAN /\ complete \in BOOLEAN /\ readable \in BOOLEAN
    /\ bodyRead \in BOOLEAN /\ bodyClaimed \in BOOLEAN /\ emptyBody \in BOOLEAN
    /\ buffered \in Seq(Piece) /\ heard \in Seq(Piece)
    /\ ended \in BOOLEAN /\ endEmitted \in BOOLEAN /\ destroyed \in BOOLEAN
    /\ flow \in {"off", "booked", "on"} /\ listeners \subseteq {"app", "parser"}
    /\ sent \in Nat /\ last \in BOOLEAN /\ paused \in BOOLEAN
    /\ handler \in {"none", "stream", "parser", "collect"}
    /\ held \in Seq(Piece) /\ gathered \in Seq(Piece)
    /\ reading \in [at : Nat, kept : Seq(Piece), over : BOOLEAN, missed : Nat]

\* A parser calls next() once, whichever of the chunk, the limit, the decoder
\* and the end comes first, and however many chunks follow.
AnsweredOnce ==
    \A i, j \in 1 .. Len(answers) : i # j => answers[i].at # answers[j].at

\* What a parser makes its value of is the whole body, decoded and in order;
\* short of it only by what a listener of the program's had been given before,
\* and never short of a declared length.
ParsedIsWhole ==
    \A i \in 1 .. Len(answers) : answers[i].is = "parsed" =>
        LET got == answers[i].got IN
        \/ Chain(got, 0, Decoded)
        \/ /\ request.framing = "chunked" /\ heard # <<>>
           /\ got # <<>> => Chain(got, got[1].from, Decoded)
           /\ \E j \in 1 .. Len(heard) :
                 heard[j].upto = IF got = <<>> THEN Decoded ELSE got[1].from

\* No more than the limit is ever kept, and only a body over it is refused.
LimitHolds ==
    /\ pc <= Len(program) /\ reading.at = pc /\ Step.do = "parse"
         => SumSizes(reading.kept) <= Step.limit
              /\ SumSizes(gathered) <= Step.limit
    /\ \A i \in 1 .. Len(answers) :
          LET a == answers[i] IN
          /\ a.is = "parsed" => SumSizes(a.got) <= program[a.at].limit
          /\ a.is = "413" => Decoded > program[a.at].limit

\* A body parser answers once (body-parser.js), what it reads is the whole body,
\* and no more of it than its limit is kept.
BodyWhole == TypeOK /\ AnsweredOnce /\ ParsedIsWhole /\ LimitHolds

\* A parser that took the body answers, unless the response is over first.
CollectorAnswers == status = "collecting" ~> status # "collecting" \/ Over

\* A program that listens, and leaves the body to itself, hears all of it.
ListenerHears ==
    "app" \in listeners /\ ~bodyRead
        ~> bodyRead \/ Over \/ (endEmitted /\ Chain(heard, 0, request.len))

\* Whoever reads a body, a parser or a listener, hears it out: no pause, early
\* claim or chunk that came before the listener leaves it waiting.
ReadersHear == CollectorAnswers /\ ListenerHears
=============================================================================
