--------------------------- MODULE ResponseStream ---------------------------
(***************************************************************************)
(* One response whose body goes out in pieces: res.write(), res.end(),     *)
(* destroy() and the socket stand-in, over node's Writable and over uWS's  *)
(* HttpResponse (src/response.js, src/socket.js, with the arming of the    *)
(* abort handler from src/application.js and router.js).                   *)
(*                                                                         *)
(* JavaScript runs each callback to completion.  A callback that has more  *)
(* than one uWS answer in it (a held piece went through and node pushes    *)
(* the buffered ones) is several steps, and "turn" keeps everything else   *)
(* out until the last of them.                                             *)
(***************************************************************************)
EXTENDS Pieces

CONSTANTS
    MaxWrites,      \* bound: how many times the application calls write()
    MaxEnds,        \* bound: how many times the application calls end()
    MaxSize,        \* bound: the largest piece, in bytes
    CoalesceBelow,  \* a piece from here up is not gathered
    CoalesceLimit,  \* a gathered queue from here up is flushed at once
    HighWaterMark,  \* node's: from here up write() answers false
    Lengths,        \* the Content-Lengths explored, beside NoLength for chunked
    Bodies,         \* the values of _hasBody explored, FALSE for a HEAD
    Calls           \* what the application and the client do beside write

NoLength == -1

ASSUME ResponseAssumption ==
    /\ MaxWrites \in Nat /\ MaxEnds \in Nat /\ MaxSize \in Nat
    /\ CoalesceBelow \in Nat \ {0} /\ CoalesceLimit \in Nat \ {0}
    /\ HighWaterMark \in Nat
    /\ Lengths \subseteq Nat
    /\ Bodies \subseteq BOOLEAN
    /\ Calls \subseteq {"end", "destroy", "error", "socketClose", "abort"}

VARIABLES
    \* the application
    given,           \* bytes handed over so far, by write() and the first end()
    writes, ends,    \* how many times each was called
    length,          \* the Content-Length header, or NoLength
    hasBody,
    \* node's Writable
    buffered,        \* pieces waiting for the callback of the one in _write
    writing,         \* a _write is out, its callback not called yet
    needDrain,       \* write() answered false and 'drain' was not emitted
    destroyed,
    closeEvent,      \* 'close': "none", "booked" for a tick, "emitted"
    \* the response's own fields
    headOut, writingChunk, finished, aborted,
    queued, queuedBytes, flushBooked, pendingCallback, deferredEnd,
    linked,          \* in the application's pending list
    \* uWS's response
    wire,            \* pieces it took, in the order it took them
    held,            \* what tryEnd did not take, at most one piece
    full,            \* backpressure: the last write did not fit
    handler,         \* which onWritable is registered
    uws,             \* "open", "ended" by us, or "closed"
    armed,           \* onAborted is registered
    \* the JavaScript turn
    window,          \* "sync" while uWS is inside the route handler
    turn             \* "idle", or what the running callback still has to do

appVars == <<given, writes, ends, length, hasBody>>
queueVars == <<queued, queuedBytes, flushBooked>>
overVars == <<finished, aborted, uws, armed, destroyed, closeEvent>>
sendVars == <<headOut, writingChunk, pendingCallback, wire, held, full,
              handler>>
nodeVars == <<buffered, writing, needDrain>>
turnVars == <<window, turn>>
restVars == <<deferredEnd, linked, turnVars>>
vars == <<appVars, nodeVars, queueVars, overVars, sendVars, restVars>>

-----------------------------------------------------------------------------
\* The next piece the application hands over, n bytes long.
NextPiece(n) == [from |-> given, upto |-> given + n]

chunked == length = NoLength

-----------------------------------------------------------------------------
AppTypeOK ==
    /\ given \in Nat /\ writes \in Nat /\ ends \in Nat
    /\ length \in Nat \cup {NoLength} /\ hasBody \in BOOLEAN

NodeTypeOK ==
    /\ buffered \in Seq(Piece)
    /\ writing \in BOOLEAN /\ needDrain \in BOOLEAN

QueueTypeOK ==
    /\ queued \in Seq(Piece) /\ queuedBytes \in Nat
    /\ flushBooked \in BOOLEAN

OverTypeOK ==
    /\ finished \in BOOLEAN /\ aborted \in BOOLEAN /\ destroyed \in BOOLEAN
    /\ uws \in {"open", "ended", "closed"} /\ armed \in BOOLEAN
    /\ closeEvent \in {"none", "booked", "emitted"}

SendTypeOK ==
    /\ headOut \in BOOLEAN /\ writingChunk \in BOOLEAN
    /\ pendingCallback \in BOOLEAN
    /\ wire \in Seq(Piece) /\ held \in Seq(Piece) /\ Len(held) <= 1
    /\ full \in BOOLEAN /\ handler \in {"none", "chunk", "tryEnd"}

RestTypeOK ==
    /\ deferredEnd \in Seq(Piece) /\ Len(deferredEnd) <= 1
    /\ linked \in BOOLEAN
    /\ window \in {"sync", "async"} /\ turn \in {"idle", "clear", "after"}

TypeOK ==
    /\ AppTypeOK /\ NodeTypeOK /\ QueueTypeOK
    /\ OverTypeOK /\ SendTypeOK /\ RestTypeOK

Init ==
    /\ given = 0 /\ writes = 0 /\ ends = 0
    /\ length \in Lengths \cup {NoLength} /\ hasBody \in Bodies
    /\ buffered = <<>> /\ writing = FALSE /\ needDrain = FALSE
    /\ destroyed = FALSE /\ closeEvent = "none"
    /\ headOut = FALSE /\ writingChunk = FALSE
    /\ finished = FALSE /\ aborted = FALSE
    /\ queued = <<>> /\ queuedBytes = 0 /\ flushBooked = FALSE
    /\ pendingCallback = FALSE /\ deferredEnd = <<>> /\ linked = TRUE
    /\ wire = <<>> /\ held = <<>> /\ full = FALSE /\ handler = "none"
    /\ uws = "open" /\ armed = FALSE
    /\ window = "sync" /\ turn = "idle"

-----------------------------------------------------------------------------
(* Tearing the response down. *)

\* Writable.destroy(): 'close' follows on a tick, buffered pieces are dropped.
StreamDestroy ==
    /\ destroyed' = TRUE
    /\ closeEvent' = IF closeEvent = "none" THEN "booked" ELSE closeEvent

\* onNativeAborted, called by uWS when the connection goes with it armed.
NativeAborted ==
    /\ aborted' = TRUE
    /\ finished' = TRUE
    /\ StreamDestroy

\* res.close(), with finished set by the caller before or after it: the
\* connection goes, and uWS calls the abort handler from inside the call.
CloseConnection ==
    /\ uws' = "closed"
    /\ armed' = FALSE
    /\ finished' = TRUE
    /\ IF armed THEN NativeAborted
       ELSE UNCHANGED <<aborted, destroyed, closeEvent>>

-----------------------------------------------------------------------------
(* _write: node hands over one piece, and is called back once uWS took it. *)

\* The response is over: the write destroys the stream, no callback.
RefuseWrite ==
    /\ finished
    /\ StreamDestroy
    /\ writing' = TRUE
    /\ UNCHANGED <<queueVars, sendVars, finished, aborted, uws, armed>>

\* A small piece waits for the flush booked for the end of this turn.
Gather(p) ==
    /\ ~finished /\ chunked
    /\ Size(p) < CoalesceBelow
    /\ queuedBytes + Size(p) < CoalesceLimit
    /\ queued' = Append(queued, p)
    /\ queuedBytes' = queuedBytes + Size(p)
    /\ flushBooked' = TRUE
    /\ headOut' = TRUE
    /\ writingChunk' = FALSE
    /\ writing' = FALSE
    /\ UNCHANGED <<overVars, pendingCallback, wire, held, full, handler>>

\* The onWritable left registered by a flush that has a callback to call.
HandlerAfterFlush(ok) == IF ok THEN handler ELSE "chunk"

\* The queue and this piece go to uWS as one write.  uWS takes them whatever
\* it answers; after a "no" the callback waits for the socket to drain.
FlushWith(p) ==
    /\ ~finished /\ chunked
    /\ \/ Size(p) >= CoalesceBelow
       \/ queuedBytes + Size(p) >= CoalesceLimit
    /\ wire' = wire \o Append(queued, p)
    /\ queued' = <<>>
    /\ queuedBytes' = 0
    /\ headOut' = TRUE
    /\ \E ok \in BOOLEAN :
          /\ ok => ~full
          /\ writing' = ~ok
          /\ writingChunk' = ~ok
          /\ full' = ~ok
          /\ pendingCallback' = ~ok
          /\ handler' = HandlerAfterFlush(ok)
    /\ UNCHANGED <<overVars, flushBooked, held>>

\* With a Content-Length an empty piece is not shown to uWS, which would
\* report the response done.
SkipEmpty(p) ==
    /\ ~finished /\ ~chunked
    /\ Size(p) = 0 /\ length > 0
    /\ headOut' = TRUE
    /\ writingChunk' = FALSE
    /\ writing' = FALSE
    /\ UNCHANGED <<overVars, queueVars, pendingCallback, wire, held, full,
                   handler>>

\* uWS's tryEnd takes the first k bytes of p, and is done at the declared
\* length or when it is given nothing.
Taken(p, k) == [p EXCEPT !.upto = p.from + k]
RestUnsliced(p, k) == p  \* a bug
Rest(p, k) == [p EXCEPT !.from = p.from + k]
DoneAfter(p, k) == p.from + k >= length \/ Size(p) = 0

\* The response ends inside uWS, which forgets the abort handler.
UwsEnds ==
    /\ finished' = TRUE
    /\ uws' = "ended"
    /\ armed' = FALSE

TryEnd(p) ==
    /\ ~finished /\ ~chunked
    /\ ~(Size(p) = 0 /\ length > 0)
    /\ headOut' = TRUE
    /\ \E k \in 0 .. Size(p) :
          /\ wire' = Append(wire, Taken(p, k))
          /\ held' = IF k < Size(p) THEN <<Rest(p, k)>> ELSE <<>>
          /\ writing' = (k < Size(p))
          /\ writingChunk' = (k < Size(p))
          /\ full' = (k < Size(p))
          /\ handler' = IF k < Size(p) THEN "tryEnd" ELSE handler
          /\ IF DoneAfter(p, k)
             THEN UwsEnds /\ closeEvent' = "booked"  \* super.end()
             ELSE UNCHANGED <<finished, uws, armed, closeEvent>>
    /\ UNCHANGED <<destroyed, queueVars, aborted, pendingCallback>>

Sink(p) ==
    \/ RefuseWrite
    \/ Gather(p)
    \/ FlushWith(p)
    \/ SkipEmpty(p)
    \/ TryEnd(p)

-----------------------------------------------------------------------------
(* What the application calls.  It writes nothing after its first end() and  *)
(* no more than the Content-Length it declared.                              *)

Write(n) ==
    /\ turn = "idle" /\ writes < MaxWrites /\ ends = 0 /\ ~destroyed
    /\ chunked \/ given + n <= length
    /\ writes' = writes + 1
    /\ LET p == NextPiece(n) IN
       /\ given' = IF finished THEN given ELSE p.upto
       /\ IF writing
          THEN
            /\ buffered' = Append(buffered, p)
            \* the pieces before it may already reach the mark
            /\ \E told \in BOOLEAN :
                  /\ n >= HighWaterMark => told
                  /\ needDrain' = (needDrain \/ told)
            /\ UNCHANGED <<writing, queueVars, overVars, sendVars>>
          ELSE
            /\ Sink(p)
            /\ needDrain' = (needDrain \/ n >= HighWaterMark)
            /\ UNCHANGED buffered
    /\ UNCHANGED <<ends, length, hasBody, restVars>>

\* The queue first, then the last piece.
QueueForgotten(last) == wire \o last  \* a bug
QueueThen(last) == (wire \o queued) \o last

\* _finish with the last piece p, possibly empty.  The head decides the
\* framing: chunked bytes go out even for a HEAD.
Finish(p) ==
    LET streamed == headOut /\ chunked
        last == IF Size(p) = 0 THEN <<>> ELSE <<p>>
    IN  /\ wire' = IF streamed THEN QueueThen(last)
                   ELSE IF hasBody THEN wire \o last ELSE wire
        /\ queued' = IF streamed THEN <<>> ELSE queued
        /\ queuedBytes' = IF streamed THEN 0 ELSE queuedBytes
        /\ headOut' = TRUE
        /\ UwsEnds
        /\ closeEvent' = "emitted"
        /\ linked' = FALSE
        /\ UNCHANGED <<flushBooked, aborted, destroyed, writingChunk,
                       pendingCallback, held, full, handler>>

\* end(): behind a piece uWS still holds it waits, and a second one takes
\* its place.
End(n) ==
    /\ "end" \in Calls /\ turn = "idle" /\ ends < MaxEnds
    /\ ends = 0 => chunked \/ given + n <= length
    /\ ends' = ends + 1
    /\ LET p == NextPiece(n) IN
       /\ given' = IF ends = 0 /\ ~finished THEN p.upto ELSE given
       /\ \/ /\ writingChunk
             /\ deferredEnd' = <<p>>
             /\ UNCHANGED <<queueVars, overVars, sendVars, linked>>
          \/ /\ ~writingChunk /\ finished
             /\ UNCHANGED <<queueVars, overVars, sendVars, deferredEnd,
                            linked>>
          \/ /\ ~writingChunk /\ ~finished
             /\ Finish(p)
             /\ UNCHANGED deferredEnd
    /\ UNCHANGED <<writes, length, hasBody, nodeVars, turnVars>>

\* res.destroy(): the connection goes unless the response is over already.
Destroy ==
    /\ "destroy" \in Calls /\ turn = "idle" /\ ~destroyed
    /\ IF finished THEN UNCHANGED <<finished, aborted, uws, armed>>
       ELSE /\ uws' = "closed"
            /\ armed' = FALSE
            /\ finished' = TRUE
            /\ aborted' = armed
    /\ StreamDestroy
    /\ buffered' = <<>>
    /\ UNCHANGED <<appVars, writing, needDrain, queueVars, sendVars, restVars>>

\* No 'close' is emitted on an error, so the unlink is by hand.
UnlinkOnError == FALSE

\* An 'error' on the response, _onAbortError.
ErrorEvent ==
    /\ "error" \in Calls /\ turn = "idle" /\ ~finished
    /\ CloseConnection
    /\ buffered' = IF armed THEN <<>> ELSE buffered
    /\ linked' = UnlinkOnError
    /\ UNCHANGED <<appVars, writing, needDrain, queueVars, sendVars,
                   deferredEnd, turnVars>>

\* res.socket.destroy(), Socket.close().
SocketClose ==
    /\ "socketClose" \in Calls /\ turn = "idle" /\ ~finished
    /\ CloseConnection
    /\ buffered' = IF armed THEN <<>> ELSE buffered
    /\ UNCHANGED <<appVars, writing, needDrain, queueVars, sendVars, restVars>>

-----------------------------------------------------------------------------
(* What the event loop, uWS and the client do. *)

\* The route handler returns: the abort handler is armed if needed.
LeaveHandler ==
    /\ window = "sync" /\ turn = "idle"
    /\ window' = "async"
    /\ armed' = ~finished
    /\ UNCHANGED <<appVars, nodeVars, queueVars, finished, aborted, uws,
                   destroyed, closeEvent, sendVars, deferredEnd, linked, turn>>

\* The client goes away.
ClientAbort ==
    /\ "abort" \in Calls /\ window = "async" /\ turn = "idle"
    /\ armed
    /\ uws' = "closed"
    /\ armed' = FALSE
    /\ NativeAborted
    /\ buffered' = <<>>
    /\ UNCHANGED <<appVars, writing, needDrain, queueVars, sendVars, restVars>>

\* The booked flush may come after the response is over.
FlushUnchecked == queuedBytes = 0  \* a bug
FlushSkipped == aborted \/ finished \/ queuedBytes = 0

\* The booked flush, #flushOnTick: no callback waits on this one.
FlushTick ==
    /\ window = "async" /\ turn = "idle" /\ flushBooked
    /\ flushBooked' = FALSE
    /\ IF FlushSkipped
       THEN UNCHANGED <<queued, queuedBytes, wire, full, needDrain,
                        writingChunk>>
       ELSE /\ wire' = wire \o queued
            /\ queued' = <<>>
            /\ queuedBytes' = 0
            /\ writingChunk' = FALSE
            /\ \E ok \in BOOLEAN :
                  /\ ok => ~full
                  /\ full' = ~ok
                  /\ needDrain' = (needDrain /\ ~ok)
    /\ UNCHANGED <<appVars, buffered, writing, overVars, headOut,
                   pendingCallback, held, handler, restVars>>

\* node's afterWrite: 'drain' once nothing is outstanding.
DrainTick ==
    /\ window = "async" /\ turn = "idle"
    /\ needDrain /\ ~writing /\ ~destroyed
    /\ needDrain' = FALSE
    /\ UNCHANGED <<appVars, buffered, writing, queueVars, overVars, sendVars,
                   restVars>>

\* 'close': the response leaves the pending list.
CloseTick ==
    /\ window = "async" /\ turn = "idle" /\ closeEvent = "booked"
    /\ closeEvent' = "emitted"
    /\ linked' = FALSE
    /\ UNCHANGED <<appVars, nodeVars, queueVars, finished, aborted, uws, armed,
                   destroyed, sendVars, deferredEnd, turnVars>>

\* The client reads, with no onWritable interested in it.
DrainUnheard ==
    /\ window = "async" /\ turn = "idle" /\ uws = "open" /\ full
    /\ \/ handler = "none"
       \/ handler = "tryEnd" /\ held = <<>>
    /\ full' = FALSE
    /\ UNCHANGED <<appVars, nodeVars, queueVars, overVars, headOut,
                   writingChunk, pendingCallback, wire, held, handler,
                   restVars>>

\* Whether node still waits after the drained write was called back.
StillWriting == writing /\ ~pendingCallback

\* The client reads, and the write that was told "no" is called back.
DrainChunk ==
    /\ window = "async" /\ turn = "idle" /\ uws = "open" /\ full
    /\ handler = "chunk" /\ ~aborted /\ ~finished
    /\ full' = FALSE
    /\ pendingCallback' = FALSE
    /\ writingChunk' = FALSE
    /\ writing' = StillWriting
    /\ turn' = IF pendingCallback THEN "clear" ELSE "after"
    /\ UNCHANGED <<appVars, buffered, needDrain, queueVars, overVars, headOut,
                   wire, held, handler, deferredEnd, linked, window>>

\* The client reads, and uWS takes k more bytes of the held piece.  Done
\* here, the response is finished without super.end().
DrainTryEnd ==
    /\ window = "async" /\ turn = "idle" /\ uws = "open" /\ full
    /\ handler = "tryEnd" /\ held # <<>> /\ ~finished
    /\ \E k \in 1 .. Size(held[1]) :
          LET p == held[1]
              all == k = Size(p)
          IN  /\ wire' = Append(wire, Taken(p, k))
              /\ held' = IF all THEN <<>> ELSE <<Rest(p, k)>>
              /\ full' = ~all
              /\ writingChunk' = ~all
              /\ writing' = ~all
              /\ turn' = IF all THEN "clear" ELSE "idle"
              /\ IF DoneAfter(p, k) THEN UwsEnds
                 ELSE UNCHANGED <<finished, uws, armed>>
    /\ UNCHANGED <<appVars, buffered, needDrain, queueVars, aborted, destroyed,
                   closeEvent, headOut, pendingCallback, handler, deferredEnd,
                   linked, window>>

\* node's clearBuffer, inside the callback: the buffered pieces in order,
\* until one is held back or none is left.
ClearBuffer ==
    /\ turn = "clear"
    /\ IF buffered = <<>>
       THEN /\ turn' = "after"
            /\ UNCHANGED <<buffered, writing, queueVars, overVars, sendVars>>
       ELSE /\ Sink(Head(buffered))
            /\ buffered' = IF destroyed' THEN <<>> ELSE Tail(buffered)
            /\ turn' = IF writing' THEN "after" ELSE "clear"
    /\ UNCHANGED <<appVars, needDrain, deferredEnd, linked, window>>

\* Waiting for 'drain' instead would leave an end() behind a small piece.
EndWaitsForDrain == deferredEnd # <<>> /\ ~writingChunk /\ needDrain  \* a bug
EndMayRun == deferredEnd # <<>> /\ ~writingChunk

\* #afterPending: the end() that waited runs unless a piece is held again.
AfterPending ==
    /\ turn = "after"
    /\ turn' = "idle"
    /\ IF EndMayRun
       THEN /\ deferredEnd' = <<>>
            /\ IF finished THEN UNCHANGED <<queueVars, overVars, sendVars,
                                            linked>>
               ELSE Finish(deferredEnd[1])
       ELSE UNCHANGED <<queueVars, overVars, sendVars, deferredEnd, linked>>
    /\ UNCHANGED <<appVars, nodeVars, window>>

-----------------------------------------------------------------------------
Next ==
    \/ \E n \in 0 .. MaxSize : Write(n) \/ End(n)
    \/ Destroy \/ ErrorEvent \/ SocketClose
    \/ LeaveHandler \/ ClientAbort
    \/ FlushTick \/ DrainTick \/ CloseTick
    \/ DrainUnheard \/ DrainChunk \/ DrainTryEnd
    \/ ClearBuffer \/ AfterPending

Spec == Init /\ [][Next]_vars

\* Ticks and callbacks run, and a client that stays goes on reading.
Fairness ==
    /\ WF_vars(LeaveHandler)
    /\ WF_vars(FlushTick) /\ WF_vars(DrainTick) /\ WF_vars(CloseTick)
    /\ WF_vars(DrainUnheard) /\ WF_vars(DrainChunk) /\ WF_vars(DrainTryEnd)
    /\ WF_vars(ClearBuffer) /\ WF_vars(AfterPending)

FairSpec == Spec /\ Fairness

-----------------------------------------------------------------------------
(* Properties. *)

\* Whatever the order of writes, ticks, drains and the end: until the
\* response is over, the pieces uWS took, the one it holds, the queue, node's
\* buffer and the waiting end() laid end to end are the body, so no byte is
\* lost, doubled or overtaken (#flushQueued, #writeChunk, #afterPending).
NothingLost ==
    ~finished =>
        Chain(wire \o held \o queued \o buffered \o deferredEnd, 0, given)

\* A response ended through uWS carries every byte the application gave it,
\* in order (_finish after the queue, the deferred end() after the drain).
CompleteBody == uws = "ended" /\ hasBody => Chain(wire, 0, given)

\* A piece node is still waiting on always has a registered onWritable and a
\* full socket behind it: nothing else would ever call node back, and the
\* end() parked behind the piece would never run.
HeldHasHandler ==
    writing /\ ~finished =>
        /\ full
        /\ \/ handler = "chunk" /\ pendingCallback /\ held = <<>>
           \/ handler = "tryEnd" /\ held # <<>>

\* A response to a HEAD carries no body bytes (_hasBody).
NoBodyOnHead == ~hasBody => \A i \in 1 .. Len(wire) : Size(wire[i]) = 0

\* uWS frees its response when it ends or the connection goes: from then on
\* no tick, drain, write or end touches it (the aborted and finished checks).
UwsUntouchedWhenOver == [][uws # "open" => UNCHANGED <<wire, held, uws>>]_vars

\* An end() is always carried out, also behind a held piece on a slow client
\* (deferredEnd: "a stream ending on a small piece was never closed").
EndIsAnswered == ends > 0 ~> finished

\* A producer whose write() answered false hears 'drain', or the response is
\* over (the emit in #flushQueued and node's own).
WriterIsWoken == needDrain ~> (~needDrain \/ finished)

\* When ticks run and the client reads, an end() behind a held piece is carried
\* out and a writer that was told to wait is woken (response.js).
CallersHear == EndIsAnswered /\ WriterIsWoken

\* A response that is over leaves the application's pending list on its own
\* (the 'close' listener, _onAbortError's unlink).
FinishedUnlinks == finished ~> ~linked

\* The whole write path delivers a body as BodyDelivery promises it, for a
\* response that carries one.
Delivery == INSTANCE BodyDelivery WITH state <- uws
DeliverySpec == Delivery!Spec

=============================================================================
