------------------------------ MODULE UwsHandler ------------------------------
(***************************************************************************)
(* One request of an app.uws() route whose handler uses express.uwsUtils    *)
(* (src/uws-utils.js): it reads the body or waits for something else, and   *)
(* answers once, in uWS's callback or after it.  It keeps to what the docs  *)
(* ask of it: guard() before it returns with nothing answered.              *)
(***************************************************************************)
EXTENDS UwsAnswer, Sequences, Functions

CONSTANTS
    Bodies,         \* the pieces a body may arrive in, by their sizes
    Limits          \* limitOf(), of the options or the default

VARIABLES
    handler,    \* what the handler is at
    coming,     \* the pieces of the body that are to come
    whole,      \* the body, as it was sent
    read        \* collect(): what it holds and what became of it

handlerVars == <<handler, coming, whole, read>>
utilsVars == <<answerVars, handlerVars>>

\* takes: what negotiate() chose, or that there is no compressor.
HandlerTypeOK ==
    /\ AnswerTypeOK
    /\ handler \in [phase : {"new", "runs", "waits", "calledBack", "done"}, takes : BOOLEAN,
                    returned : BOOLEAN]
    /\ read \in [on : BOOLEAN, kind : {"bytes", "json"}, limit : Limits \cup {0}, length : Nat,
                 pieces : Seq(Nat), finished : BOOLEAN, given : Seq(Nat), refused : BOOLEAN,
                 lent : {"no", "good", "gone"}]

HandlerInit ==
    /\ AnswerInit
    /\ handler \in [phase : {"new"}, takes : BOOLEAN, returned : {FALSE}]
    /\ whole \in Bodies /\ coming = whole
    /\ read = [on |-> FALSE, kind |-> "bytes", limit |-> 0, length |-> 0, pieces |-> <<>>,
               finished |-> FALSE, given |-> <<>>, refused |-> FALSE, lent |-> "no"]

-----------------------------------------------------------------------------
Answering == handler.phase \in {"runs", "calledBack"}
\* Of a response guard() says is gone, or that is still to be answered.
Unanswered == uws.over # "ended" /\ stream = NoStream /\ pool = 0

HandlerReceives ==
    /\ handler.phase = "new"
    /\ Becomes([This EXCEPT !.uws.stack = TRUE])
    /\ handler' = [handler EXCEPT !.phase = "runs"]
    /\ UNCHANGED <<coming, whole, read>>

\* readBuffer(), readText(), readForm() and readJson().
Read ==
    /\ handler.phase = "runs" /\ ~handler.returned /\ ~read.on
    /\ \E kind \in {"bytes", "json"}, limit \in Limits :
          read' = [read EXCEPT !.on = TRUE, !.kind = kind, !.limit = limit]
    /\ Becomes(Guard(This))
    /\ handler' = [handler EXCEPT !.phase = "waits"]
    /\ UNCHANGED <<coming, whole>>

\* The handler waits for something else.
Wait ==
    /\ handler.phase = "runs" /\ ~handler.returned
    /\ Becomes(Guard(This))
    /\ handler' = [handler EXCEPT !.phase = "waits"]
    /\ UNCHANGED <<coming, whole, read>>
Continue ==
    /\ handler.phase = "waits" /\ handler.returned /\ ~read.on
    /\ handler' = [handler EXCEPT !.phase = "runs"]
    /\ UNCHANGED <<answerVars, coming, whole, read>>

\* A callback of uWS is over, and the memory it lent.
HandlerReturns ==
    /\ uws.stack /\ handler.phase # "runs"
    /\ Becomes([This EXCEPT !.uws.stack = FALSE])
    /\ handler' = [handler EXCEPT !.returned = TRUE,
                     !.phase = IF @ = "calledBack" THEN "runs" ELSE @]
    /\ read' = [read EXCEPT !.lent = IF @ = "good" THEN "gone" ELSE @]
    /\ UNCHANGED <<coming, whole>>

-----------------------------------------------------------------------------

\* limitOf() of the body so far.
Fits(length) == length <= read.limit

\* onData of collect(): over the limit is a 413, and the whole body is given once.
Data ==
    /\ ~uws.stack /\ handler.returned /\ read.on /\ coming # <<>>
    /\ uws.over \in {"no", "ended"}
    /\ LET last == Len(coming) = 1
           length == read.length + Head(coming)
           fits == Fits(length)
           pieces == Append(read.pieces, Head(coming))
           s == [This EXCEPT !.uws.stack = TRUE]
           calls(parses) == fits /\ last /\ parses
       IN  /\ coming' = Tail(coming)
           /\ IF read.finished \/ uws.aborted
              THEN Becomes(s) /\ UNCHANGED <<read, handler>>
              ELSE \E parses \in IF read.kind = "json" THEN BOOLEAN ELSE {TRUE} :
                     /\ read' = [read EXCEPT !.length = length, !.pieces = pieces,
                                   !.finished = ~fits \/ last,
                                   !.refused = ~fits \/ (last /\ ~parses),
                                   !.given = IF calls(parses) THEN Append(@, length) ELSE @,
                                   !.lent = IF calls(parses) /\ Len(whole) = 1 THEN "good" ELSE @]
                     /\ handler' = [handler EXCEPT !.phase = CASE calls(parses) -> "calledBack"
                                                               [] ~calls(parses) /\ (~fits \/ last) -> "done"
                                                               [] OTHER -> @]
                     /\ Becomes(CASE ~fits -> Send(s, 413)
                                  [] fits /\ last /\ ~parses -> Send(s, 400)
                                  [] OTHER -> s)
    /\ UNCHANGED whole

-----------------------------------------------------------------------------
\* send() of the utils or of a compressor, with a whole body.
Answers ==
    /\ Answering /\ Unanswered
    /\ \E status \in {200, 204}, size \in Sizes, compressed \in BOOLEAN :
          Becomes(IF uws.aborted THEN This
                  ELSE IF compressed THEN Deliver(This, status, size, handler.takes, FALSE)
                  ELSE Send(This, status))
    /\ handler' = [handler EXCEPT !.phase = "done"]
    /\ UNCHANGED <<coming, whole, read>>

\* send() of a Readable, which gives its pieces as it has them.
AnswersStream ==
    /\ Answering /\ Unanswered
    /\ \E compressed \in BOOLEAN :
          Becomes(IF uws.aborted THEN This
                  ELSE SendStream(This, 200, compressed /\ handler.takes, 0))
    /\ handler' = [handler EXCEPT !.phase = "done"]
    /\ UNCHANGED <<coming, whole, read>>

Source(a) == ~uws.stack /\ stream.phase = "open" /\ Becomes(a) /\ UNCHANGED handlerVars
Gives == stream.left + wire.pieces < MaxPieces /\ Source([This EXCEPT !.stream.left = @ + 1])
Ends == Source([This EXCEPT !.stream.phase = "ended"])
Fails == Source(Destroy(This, "failed"))

Due == ~uws.stack /\ stream.phase # "failed"
ClientLeaves == Due /\ handler.returned /\ uws.over = "no" /\ Becomes(Aborted(This)) /\ UNCHANGED handlerVars

StreamFlows == ~uws.stack /\ ((\E full \in BOOLEAN : StreamData(full)) \/ StreamEnd \/ StreamError) /\ UNCHANGED handlerVars
UwsCalls == Due /\ (Writable \/ PoolAnswers) /\ UNCHANGED handlerVars

HandlerNext ==
    \/ HandlerReceives \/ Read \/ Wait \/ Continue \/ HandlerReturns \/ Data \/ Answers \/ AnswersStream
    \/ Gives \/ Ends \/ Fails \/ ClientLeaves \/ StreamFlows \/ UwsCalls

HandlerSpec == HandlerInit /\ [][HandlerNext]_utilsVars

\* uWS's callbacks return and go on, and a handler that has begun answers.
HandlerFairness ==
    /\ WF_utilsVars(HandlerReturns) /\ WF_utilsVars(Data) /\ WF_utilsVars(Continue)
    /\ WF_utilsVars(Answers \/ AnswersStream) /\ WF_utilsVars(Ends \/ Fails) /\ WF_utilsVars(StreamFlows) /\ WF_utilsVars(UwsCalls)

HandlerFairSpec == HandlerSpec /\ HandlerFairness

-----------------------------------------------------------------------------
\* The reader gives the body once and whole, when it is within the limit, and a
\* body it refused is given to nobody.
CollectedWhole ==
    /\ Len(read.given) <= 1
    /\ read.given # <<>> =>
          /\ ~read.refused
          /\ read.given[1] = SumFunctionOnSet(whole, DOMAIN whole)
          /\ read.given[1] <= read.limit
    /\ read.length <= read.limit \/ read.refused
    \* uWS's memory is only ever given while its callback runs
    /\ read.lent = "good" => uws.stack

\* A handler that keeps to the rules has its request answered, or its client gone.
HandlerAnswers == (handler.phase = "runs") ~> (uws.over # "no")
=============================================================================
