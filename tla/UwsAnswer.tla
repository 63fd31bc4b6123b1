------------------------------ MODULE UwsAnswer ------------------------------
(***************************************************************************)
(* How a light route answers (src/uws-utils.js): over uWS's own response,   *)
(* with no Response in between.  uWS throws for a response that is over,    *)
(* the client gone or the answer out, and tells of a client that leaves     *)
(* only whoever registered for it last.                                     *)
(***************************************************************************)
EXTENDS Naturals

CONSTANT MaxPieces      \* the pieces a stream gives

VARIABLES
    uws,        \* uWS's response, and what the route left on it
    wire,       \* what the client gets
    stream,     \* the Readable answered with, as sendStream() holds it
    pool        \* a compression on the thread pool: its status, 0 for none

answerVars == <<uws, wire, stream, pool>>

Listeners == {"none", "ignored", "lite", "guard"}
Sizes == {"small", "large", "huge"}

UwsType ==
    [over : {"no", "ended", "closed", "aborted"},
     stack : BOOLEAN,           \* under the cork uWS holds around its callback
     listener : Listeners,      \* the onAborted that counts
     guarded : BOOLEAN, aborted : BOOLEAN,      \* res.aborted, once guard() put it there
     hook : BOOLEAN,            \* res._abortHook
     waits : BOOLEAN,           \* onWritable
     faults : SUBSET {"touched", "uncorked", "read"}]

WireType ==
    [heads : 0 .. 3, status : {0, 200, 204, 400, 413, 500}, coded : BOOLEAN,
     pieces : 0 .. MaxPieces + 1, last : {"none", "end", "cut"}]

StreamType ==
    [phase : {"none", "open", "ended", "read", "failed", "destroyed"},
     left : 0 .. MaxPieces, paused : BOOLEAN, headed : BOOLEAN, done : BOOLEAN,
     status : {0, 200, 204}, coded : BOOLEAN, closing : BOOLEAN]

AnswerTypeOK ==
    /\ uws \in UwsType /\ wire \in WireType /\ stream \in StreamType
    /\ pool \in {0, 200, 204}

NoStream ==
    [phase |-> "none", left |-> 0, paused |-> FALSE, headed |-> FALSE, done |-> FALSE,
     status |-> 0, coded |-> FALSE, closing |-> FALSE]

AnswerInit ==
    /\ uws = [over |-> "no", stack |-> FALSE, listener |-> "none", guarded |-> FALSE,
              aborted |-> FALSE, hook |-> FALSE, waits |-> FALSE, faults |-> {}]
    /\ wire = [heads |-> 0, status |-> 0, coded |-> FALSE, pieces |-> 0, last |-> "none"]
    /\ stream = NoStream
    /\ pool = 0

-----------------------------------------------------------------------------
(* A state of the answer as one record, so that a call is an operator.     *)
This == [uws |-> uws, wire |-> wire, stream |-> stream, pool |-> pool]
Becomes(a) ==
    uws' = a.uws /\ wire' = a.wire /\ stream' = a.stream /\ pool' = a.pool

Fault(a, kind) == [a EXCEPT !.uws.faults = @ \cup {kind}]
Touched(a) == IF a.uws.over = "no" THEN a ELSE Fault(a, "touched")

OnAborted(a, listener) == [Touched(a) EXCEPT !.uws.listener = listener]

\* guard(): once per response.
Guard(a) ==
    IF a.uws.guarded THEN a ELSE [OnAborted(a, "guard") EXCEPT !.uws.guarded = TRUE]

\* writeHead(), as the first bytes of an answer.
WriteHead(a, status, coded) ==
    [Touched(a) EXCEPT !.wire.heads = @ + 1, !.wire.status = status, !.wire.coded = coded]

\* uWS forgets who listens once an answer is out.
End(a) == [Touched(a) EXCEPT !.wire.last = "end", !.uws.over = "ended", !.uws.listener = "none"]

\* writeWhole(), under a cork of its own or, `corked`, under uWS's.
Whole(a, status, coded, corked) ==
    LET w == End(WriteHead(a, status, coded)) IN
    IF corked /\ ~a.uws.stack THEN Fault(w, "uncorked") ELSE w

\* send() and refuse(): nothing after an abort guard() told of.
Send(a, status) == IF a.uws.aborted THEN a ELSE Whole(a, status, FALSE, FALSE)

\* sendStream(): guarded, and an abort destroys the stream.
SendStream(a, status, coded, left) ==
    [Guard(a) EXCEPT !.uws.hook = TRUE,
        !.stream = [NoStream EXCEPT !.phase = "open", !.left = left, !.status = status,
                                    !.coded = coded]]

\* deliver(): compressed on the spot, or handed to the pool when it is large.
Deliver(a, status, size, encoding, corked) ==
    IF ~encoding \/ size = "small" THEN Whole(a, status, FALSE, corked)
    ELSE IF size = "large" THEN Whole(a, status, TRUE, corked)
    ELSE [Guard(a) EXCEPT !.pool = status]

-----------------------------------------------------------------------------
(* A stream's destroy(), and what its listeners do.                        *)
Over(s) == s.phase \in {"none", "read", "failed", "destroyed"}

Destroy(a, phase) ==
    IF Over(a.stream) THEN a
    ELSE [a EXCEPT !.stream.phase = phase, !.stream.closing = (phase = "destroyed")]

HeadOnce(a) ==
    IF a.stream.headed THEN a
    ELSE [WriteHead(a, a.stream.status, a.stream.coded) EXCEPT !.stream.headed = TRUE]

\* 'data': a write that does not fit stops the stream until uWS has room.
StreamData(full) ==
    /\ stream.phase \in {"open", "ended"} /\ stream.left > 0 /\ ~stream.paused
    /\ LET a == HeadOnce(This)
           w == [Touched(a) EXCEPT !.stream.left = @ - 1, !.wire.pieces = @ + 1]
       IN  Becomes(IF full THEN [w EXCEPT !.stream.paused = TRUE, !.uws.waits = TRUE] ELSE w)

\* onWritable.
Writable ==
    /\ uws.waits /\ uws.over = "no"
    /\ Becomes([This EXCEPT !.uws.waits = FALSE, !.stream.paused = FALSE])

\* 'end', once all was read; a head that waited for a piece goes with an empty one.
StreamEnd ==
    /\ stream.phase = "ended" /\ stream.left = 0 /\ ~stream.paused
    /\ LET a == [This EXCEPT !.stream.phase = "read", !.stream.closing = TRUE] IN
       Becomes(IF stream.done \/ uws.aborted THEN a
               ELSE End(HeadOnce([a EXCEPT !.stream.done = TRUE])))

\* res.close() tells the abort listener before it returns.
Close(a) ==
    [Touched(a) EXCEPT !.wire.last = "cut", !.uws.over = "closed", !.uws.aborted = a.uws.guarded]

\* 'error': a broken response when the head is gone, a 500 when it is not.
StreamError ==
    /\ stream.phase = "failed"
    /\ LET a == [This EXCEPT !.stream.phase = "destroyed", !.stream.closing = TRUE]
           b == [a EXCEPT !.stream.done = TRUE]
       IN  Becomes(IF stream.done \/ uws.aborted THEN a
                   ELSE IF stream.headed THEN Close(b) ELSE Send(b, 500))

\* The pool answers, if the client is there.
PoolAnswers ==
    /\ pool # 0
    /\ \E failed \in BOOLEAN :
          LET a == [This EXCEPT !.pool = 0] IN
          Becomes(IF uws.aborted THEN a
                  ELSE IF failed THEN Send(a, 500) ELSE Whole(a, pool, TRUE, FALSE))

\* The client leaves: guard()'s listener marks it and destroys the stream.
Aborted(a) ==
    LET gone == [a EXCEPT !.uws.over = "aborted"] IN
    IF a.uws.listener # "guard" THEN gone
    ELSE LET told == [gone EXCEPT !.uws.aborted = TRUE] IN
         IF a.uws.hook THEN Destroy(told, "destroyed") ELSE told

-----------------------------------------------------------------------------
\* uWS's response is not touched once it is over, nor written without a cork.
UwsLeftAlone == uws.faults = {}

\* One head, a cut only behind one, and an end only of an answer that is over.
OneAnswer ==
    /\ wire.heads <= 1
    /\ wire.pieces > 0 => wire.heads = 1
    /\ wire.last # "none" => wire.heads = 1
    /\ wire.last = "end" <=> uws.over = "ended"
    /\ wire.last = "cut" => uws.over = "closed"

\* A raw response is answered once, in one piece, and let go: no call reaches it once it
\* is over or without the cork it needs, and the client got one head, what followed it,
\* and an end just when the answer is over (uws-utils.js: guard, writeWhole, sendStream).
UwsAnsweredOnce == UwsLeftAlone /\ OneAnswer
=============================================================================
