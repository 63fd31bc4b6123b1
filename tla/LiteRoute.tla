------------------------------ MODULE LiteRoute ------------------------------
(***************************************************************************)
(* One request of an app.uwsLite() route (src/uws-lite.js): the middleware  *)
(* and the handler over the two light objects, in the callback uWS made and *)
(* after it returned.  What the program's code does is chosen: it calls     *)
(* next, answers, throws, returns and goes on later.                        *)
(***************************************************************************)
EXTENDS UwsAnswer, Sequences

CONSTANTS
    Uses,           \* the middleware a route may have, sequences of "plain" and "error"
    MaxMoves        \* what the program's code does, all told

VARIABLES
    route,      \* the options
    response,   \* LiteResponse's flags and its bus
    request,    \* LiteRequest: whether it holds uWS's, and the body as a stream
    chain,      \* the next middleware, and the code that is running, innermost last
    later,      \* the code that goes on later
    ticks,      \* process.nextTick
    heard,      \* what the listeners of the response heard
    moves

liteVars == <<route, response, request, chain, later, ticks, heard, moves>>
vars == <<answerVars, liteVars>>

\* takes: the client takes a coding; keeps: the route keeps what req.get() is asked for later.
RouteType ==
    [body : {"none", "json", "stream"}, use : Uses, compress : BOOLEAN, takes : BOOLEAN,
     keeps : BOOLEAN]

Handler == 0
Code == 0 .. 2

TypeOK ==
    /\ AnswerTypeOK
    /\ route \in RouteType
    /\ response \in [phase : {"new", "collecting", "called", "returned"}, ANSWERED : BOOLEAN,
                     ABORTED : BOOLEAN, LATE : BOOLEAN, bus : BOOLEAN, reopened : BOOLEAN]
    /\ request \in [held : BOOLEAN, coming : 0 .. 2, buffered : 0 .. 2, ended : BOOLEAN,
                    destroyed : BOOLEAN, paused : BOOLEAN]
    /\ chain.index \in 1 .. 3 /\ Len(chain.frames) <= 4
    /\ later \subseteq Code
    /\ moves \in 0 .. MaxMoves

Init ==
    /\ AnswerInit
    /\ route \in RouteType
    /\ route.use # <<>> => route.keeps
    /\ route.takes => route.compress
    /\ response = [phase |-> "new", ANSWERED |-> FALSE, ABORTED |-> FALSE, LATE |-> FALSE,
                   bus |-> FALSE, reopened |-> FALSE]
    /\ request = [held |-> FALSE, coming |-> IF route.body = "stream" THEN 2 ELSE 0,
                  buffered |-> 0, ended |-> FALSE, destroyed |-> FALSE, paused |-> FALSE]
    /\ chain = [index |-> 1, frames |-> <<>>]
    /\ later = {} /\ ticks = <<>>
    /\ heard = [finish |-> 0, close |-> 0]
    /\ moves = 0

-----------------------------------------------------------------------------
(* The whole state as one record: a call of the code runs many of these.   *)
Whole0 ==
    [answer |-> This, response |-> response, request |-> request, chain |-> chain,
     later |-> later, ticks |-> ticks, heard |-> heard]
Settles(s) ==
    /\ Becomes(s.answer)
    /\ response' = s.response /\ request' = s.request /\ chain' = s.chain
    /\ later' = s.later /\ ticks' = s.ticks /\ heard' = s.heard
    /\ UNCHANGED route

\* A bug: an answer for a client that left is told like one that went out.
FinishAborted(s, status, size) ==
    LET r == [s EXCEPT !.response.ANSWERED = TRUE]
        out == IF s.response.ABORTED THEN s.answer ELSE Whole(s.answer, status, FALSE, ~s.response.LATE)
    IN  [r EXCEPT !.answer = out,
            !.ticks = IF s.response.bus THEN Append(@, "finished") ELSE @]

\* _finish(): of a client that left, only that it was answered.
Finish(s, status, size) ==
    LET r == [s EXCEPT !.response.ANSWERED = TRUE]
        corked == ~s.response.LATE
        out == IF status # 204 /\ route.compress
               THEN Deliver(s.answer, status, size, route.takes, corked)
               ELSE Whole(s.answer, status, FALSE, corked)
    IN  IF s.response.ABORTED THEN r
        ELSE [r EXCEPT !.answer = out,
                 !.ticks = IF s.response.bus THEN Append(@, "finished") ELSE @]

Refuse(s, status) == Finish(s, status, "small")

\* fail(): the stream breaks, and what was not answered is refused.
Fail(s) ==
    LET broken == [s EXCEPT !.answer = IF s.response.bus THEN Destroy(@, "failed") ELSE @] IN
    IF s.response.ANSWERED THEN broken ELSE Refuse(broken, 500)

\* dropBody().
Drop(s) == [s EXCEPT !.request.destroyed = @ \/ (route.body = "stream" /\ ~s.request.ended)]

Push(s, code, sync) == [s EXCEPT !.chain.frames = Append(@, [code |-> code, sync |-> sync])]

\* next(): the middleware of its kind that is left, then the handler or fail().
CallNext(s, failing) ==
    LET kind == IF failing THEN "error" ELSE "plain"
        left == {i \in DOMAIN route.use : i >= s.chain.index /\ route.use[i] = kind}
        first == CHOOSE i \in left : \A j \in left : i <= j
        none == [s EXCEPT !.chain.index = Len(route.use) + 1]
    IN  IF s.response.ANSWERED \/ s.response.ABORTED THEN s
        ELSE IF left # {} THEN Push([s EXCEPT !.chain.index = first + 1], first, TRUE)
        ELSE IF failing THEN Fail(none) ELSE Push(none, Handler, TRUE)

\* start(): run() when there is no middleware.
Start(s) ==
    LET called == [s EXCEPT !.response.phase = "called"] IN
    IF route.use = <<>> THEN Push(called, Handler, TRUE) ELSE CallNext(called, FALSE)

Listens(s) ==
    IF s.response.ANSWERED THEN s ELSE [s EXCEPT !.answer = OnAborted(@, "lite")]
Returned(s) == [s EXCEPT !.response.LATE = TRUE, !.request.held = FALSE]

\* What follows the code that returned: run()'s end when it was the handler run
\* called, then chain()'s when nothing of it is left, and uWS's callback is over.
Pop(s) ==
    LET frames == s.chain.frames
        frame == frames[Len(frames)]
        popped == [s EXCEPT !.chain.frames = SubSeq(frames, 1, Len(frames) - 1)]
        ran == IF frame.code = Handler /\ frame.sync THEN Returned(popped) ELSE popped
        heardOf == IF frame.code = Handler /\ frame.sync /\ route.use = <<>> THEN Listens(ran) ELSE ran
    IN  IF Len(frames) > 1 \/ s.response.phase # "called" THEN heardOf
        ELSE [(IF route.use = <<>> THEN heardOf ELSE Returned(Listens(heardOf)))
                EXCEPT !.response.phase = "returned", !.answer.uws.stack = FALSE]

\* A callback with no code to run returns at once.
Bare(s) ==
    IF s.chain.frames # <<>> THEN s
    ELSE [s EXCEPT !.response.phase = "returned", !.answer.uws.stack = FALSE]

-----------------------------------------------------------------------------
(* uWS's calls: none while the program's code runs or a tick is due.       *)
Quiet == chain.frames = <<>> /\ ticks = <<>> /\ ~stream.closing /\ stream.phase # "failed"

\* The route's callback: a parameter that does not decode is a 400.
Receive ==
    /\ response.phase = "new"
    /\ \E decodes \in BOOLEAN :
          LET s == [Whole0 EXCEPT !.answer.uws.stack = TRUE, !.request.held = TRUE] IN
          Settles(CASE ~decodes -> Bare(Refuse(s, 400))
                    [] decodes /\ route.body = "json" ->
                          [s EXCEPT !.request.held = FALSE, !.response.phase = "collecting",
                                    !.answer = OnAborted([@ EXCEPT !.uws.stack = FALSE], "ignored")]
                    [] OTHER -> Start(s))
    /\ UNCHANGED moves

\* onBody(): over the limit, not JSON, or the body.
Body ==
    /\ response.phase = "collecting" /\ uws.over = "no"
    /\ \E read \in {200, 413, 400} :
          LET s == [Whole0 EXCEPT !.answer.uws.stack = TRUE] IN
          Settles(IF read = 200 THEN Start(s) ELSE Bare(Refuse(s, read)))
    /\ UNCHANGED moves

\* A bug: an answer that is out is not what stops the body.
GoneAborted == response.ABORTED

\* gone().
Gone ==
    \/ response.ABORTED
    \/ response.ANSWERED /\ stream.phase \in {"none", "read", "failed", "destroyed"}

\* onData of a body as a stream, which may have room or not.
BodyPiece ==
    /\ Quiet /\ response.phase = "returned" /\ route.body = "stream"
    /\ request.coming > 0 /\ ~request.paused /\ uws.over \in {"no", "ended"}
    /\ \E accepted \in BOOLEAN :
          LET last == request.coming = 1
              pause == ~accepted /\ ~last /\ ~Gone
              s == [Whole0 EXCEPT !.request.coming = @ - 1,
                       !.request.buffered = IF request.destroyed THEN @ ELSE @ + 1,
                       !.request.ended = @ \/ (last /\ ~request.destroyed),
                       !.request.paused = pause]
          IN  Settles(IF pause THEN [s EXCEPT !.answer = Touched(@)] ELSE s)
    /\ UNCHANGED moves

\* The program reads the body: uWS goes on, if it is still there.
BodyRead ==
    /\ Quiet /\ request.buffered > 0 /\ ~request.destroyed
    /\ LET s == [Whole0 EXCEPT !.request.buffered = @ - 1]
           resumes == request.paused /\ ~Gone
       IN  Settles(IF resumes THEN [s EXCEPT !.request.paused = FALSE, !.answer = Touched(@)] ELSE s)
    /\ UNCHANGED moves

\* The client leaves; onAborted() is told when it was the last to register.
Abort ==
    /\ Quiet /\ response.phase # "new" /\ uws.over = "no"
    /\ LET s == [Whole0 EXCEPT !.answer = Aborted(@)] IN
       Settles(IF uws.listener = "lite"
               THEN Drop([s EXCEPT !.response.ABORTED = TRUE,
                             !.heard.close = IF response.bus THEN @ + 1 ELSE @])
               ELSE s)
    /\ UNCHANGED moves

-----------------------------------------------------------------------------
(* The program's code: the innermost of what runs, or what goes on later.  *)
Running == chain.frames # <<>>
Current == chain.frames[Len(chain.frames)]

Moves == moves < MaxMoves /\ moves' = moves + 1

\* Code that returned goes on.
Resume ==
    /\ Quiet /\ response.phase = "returned" /\ Moves
    /\ \E code \in later :
          Settles(Push([Whole0 EXCEPT !.later = @ \ {code}], code, FALSE))

\* It returns, with or without more to do later.
Return ==
    /\ Running
    /\ \E goesOn \in BOOLEAN :
          /\ goesOn => moves < MaxMoves
          /\ Settles(Pop(IF goesOn THEN [Whole0 EXCEPT !.later = @ \cup {Current.code}] ELSE Whole0))
    /\ UNCHANGED moves

\* It throws, or rejects: next() of a middleware, fail() of the handler.  What the
\* catch calls is still inside what the frame returns to.
Throw ==
    /\ Running /\ Moves
    /\ IF Current.code = Handler
       THEN Settles(Pop(Fail(Whole0)))
       ELSE LET frames == chain.frames
                caught == CallNext([Whole0 EXCEPT !.chain.frames = SubSeq(frames, 1, Len(frames) - 1)], TRUE)
            IN  Settles(IF caught.chain.frames # SubSeq(frames, 1, Len(frames) - 1) THEN caught
                        ELSE Pop([caught EXCEPT !.chain.frames = frames]))

Next1 ==
    /\ Running /\ Current.code # Handler /\ Moves
    /\ \E failing \in BOOLEAN : Settles(CallNext(Whole0, failing))

\* res.on().
Listen == Running /\ ~response.bus /\ Moves /\ Settles([Whole0 EXCEPT !.response.bus = TRUE])

\* send(), json(), end(), sendStatus().  What was answered already throws.
Answer ==
    /\ Running /\ ~response.ANSWERED /\ Moves
    /\ \E status \in {200, 204}, size \in Sizes : Settles(Finish(Whole0, status, size))

\* write(): _open() on the first, and the bytes wait in the PassThrough.
Write ==
    /\ Running /\ Moves
    /\ IF stream.phase # "none"
       THEN /\ stream.phase = "open" /\ stream.left < MaxPieces
            /\ Settles([Whole0 EXCEPT !.answer.stream.left = @ + 1])
       ELSE /\ ~response.ANSWERED
            /\ LET s == [Whole0 EXCEPT !.response.bus = TRUE, !.response.ANSWERED = TRUE] IN
               Settles(IF response.ABORTED
                       THEN [s EXCEPT !.response.reopened = TRUE,
                                 !.answer.stream = [NoStream EXCEPT !.phase = "destroyed", !.closing = TRUE]]
                       ELSE [s EXCEPT !.answer = SendStream(@, 200, route.compress /\ route.takes, 1)])

\* end() of a stream.
EndStream ==
    /\ Running /\ stream.phase = "open" /\ Moves
    /\ Settles([Whole0 EXCEPT !.answer.stream.phase = "ended"])

\* req.get(): uWS's while it is held.
ReadRequest ==
    /\ Running /\ Moves
    /\ request.held \/ route.keeps
    /\ Settles(IF request.held /\ ~uws.stack THEN [Whole0 EXCEPT !.answer = Fault(@, "read")] ELSE Whole0)

-----------------------------------------------------------------------------
(* What Node runs once the code is done.                                   *)
Tick ==
    /\ ~Running /\ ticks # <<>>
    /\ Settles([Whole0 EXCEPT !.ticks = Tail(@), !.heard.finish = @ + 1, !.heard.close = @ + 1])
    /\ UNCHANGED moves

\* streamClosed(): out closes once it is over.
StreamClosed ==
    /\ ~Running /\ ticks = <<>> /\ stream.closing
    /\ LET s == [Whole0 EXCEPT !.answer.stream.closing = FALSE, !.heard.close = @ + 1] IN
       Settles(IF stream.phase = "read" THEN [s EXCEPT !.heard.finish = @ + 1]
               ELSE Drop([s EXCEPT !.response.ABORTED = TRUE]))
    /\ UNCHANGED moves

Flow ==
    /\ ~Running /\ ticks = <<>> /\ ~stream.closing
    /\ \/ \E full \in BOOLEAN : StreamData(full)
       \/ StreamEnd \/ StreamError
    /\ UNCHANGED liteVars

Native == Quiet /\ (Writable \/ PoolAnswers) /\ UNCHANGED liteVars

Next ==
    \/ Receive \/ Body \/ BodyPiece \/ BodyRead \/ Abort
    \/ Resume \/ Return \/ Throw \/ Next1 \/ Listen \/ Answer \/ Write \/ EndStream
    \/ ReadRequest \/ Tick \/ StreamClosed \/ Flow \/ Native

Spec == Init /\ [][Next]_vars

\* Node runs what is due, uWS and the pool answer, and code that runs returns.
Fairness ==
    /\ WF_vars(Tick) /\ WF_vars(StreamClosed) /\ WF_vars(Flow) /\ WF_vars(Native)
    /\ WF_vars(Return)

FairSpec == Spec /\ Fairness

-----------------------------------------------------------------------------
\* A response is told over once, and finished only if it went out or is with the
\* pool.  Not so when it was opened by a write() after the client had left.
OverOnce ==
    /\ ~response.reopened => heard.close <= 1
    /\ heard.finish <= heard.close
    /\ heard.finish > 0 => uws.over = "ended" \/ uws.guarded

\* A body as a stream ends, or is destroyed when the client leaves before the
\* answer is out.  Not so while the pool has the answer.
BodyTold ==
    /\ Quiet /\ uws.over \in {"aborted", "closed"} /\ route.body = "stream"
    /\ response.phase = "returned" /\ ~(response.ANSWERED /\ stream.phase = "none")
    => request.ended \/ request.destroyed

\* A listener hears once that the response is over, and never that a body cut off was
\* finished; a body read as a stream ends or is destroyed (uws-lite.js streamClosed,
\* onAborted, dropBody).
ToldOnce == OverOnce /\ BodyTold

\* What was answered, and ended when it was a stream, goes out.
LightAnswers ==
    (response.ANSWERED /\ stream.phase # "open") ~> (uws.over # "no")
=============================================================================
