---------------------------- MODULE AppLifecycle ----------------------------
(***************************************************************************)
(* The life of an application that serves on uWS: listen(), the intrusive  *)
(* list of the responses in flight, and the graceful close() that waits    *)
(* for that list to empty (src/application.js, src/response.js).           *)
(*                                                                         *)
(* JavaScript runs to completion: a call of the program, a callback of     *)
(* process.nextTick and a turn of close()'s timer are each atomic, and the *)
(* queue of ticks is emptied before the loop hands over another event.     *)
(* The timer's walk over the list is one step per response, nothing else   *)
(* running while `sweeping`, so that the pointers are followed as the code *)
(* follows them.                                                           *)
(***************************************************************************)
EXTENDS Integers, Sequences

CONSTANTS
    Responses,      \* the responses served, each one once
    Connections,    \* the connections clients may open
    Null,           \* the null of the list's pointers
    MaxListens,     \* calls of listen()
    MaxCloses,      \* calls of close()
    Ends            \* the ways a response comes to its end

EveryEnd == {"end", "quiet", "error", "abort"}

ASSUME LifecycleAssumption ==
    /\ Null \notin Responses
    /\ MaxListens \in Nat /\ MaxCloses \in Nat
    /\ Ends \subseteq EveryEnd

VARIABLES
    listening, listenCalled, draining,  \* fields of the application
    listenSocket,   \* _listenSocket: the last socket bound, 0 for none
    listens,        \* calls of listen() so far, which number the sockets
    closes,         \* calls of close() so far
    callback,       \* what became of the callback of each close()
    ticks,          \* the process.nextTick queue
    sweeps,         \* close()'s interval timers still armed
    sweeping,       \* one of them is walking the list
    cursor,         \* the response it has come to
    head, next, prev, linked,   \* _pending and the responses' three slots
    phase,          \* what became of each response
    out,            \* where the bytes of each answer are
    via,            \* the connection each response is answered on
    bound,          \* listen sockets uWS holds open
    connected       \* connections uWS holds open

appVars == <<listening, listenCalled, draining, listenSocket, listens>>
closeVars == <<closes, callback>>
sweepVars == <<sweeps, sweeping, cursor>>
listVars == <<head, next, prev, linked>>
wireVars == <<phase, out, via, bound, connected>>
vars == <<appVars, closeVars, ticks, sweepVars, listVars, wireVars>>

ListeningTick == [do |-> "listening"]
RefusedTick == [do |-> "refused"]
EmitCloseTick == [do |-> "emitClose"]
FinishTick == [do |-> "finish"]
ClosedTick(r) == [do |-> "closed", of |-> r]
Tick == {ListeningTick, RefusedTick, EmitCloseTick, FinishTick}
          \cup {ClosedTick(r) : r \in Responses}

Phase == {"unused", "serving", "finished", "quiet", "aborted", "killed"}
Answer == {"none", "waiting", "waitingError", "ok", "error"}

Init ==
    /\ listening = FALSE /\ listenCalled = FALSE /\ draining = FALSE
    /\ listenSocket = 0 /\ listens = 0 /\ closes = 0
    /\ callback = [k \in 1 .. MaxCloses |-> "none"]
    /\ ticks = <<>>
    /\ sweeps = 0 /\ sweeping = FALSE /\ cursor = Null
    /\ head = Null /\ linked = {}
    /\ next = [r \in Responses |-> Null]
    /\ prev = [r \in Responses |-> Null]
    /\ phase = [r \in Responses |-> "unused"]
    /\ out = [r \in Responses |-> "none"]
    /\ via = [r \in Responses |-> {}]
    /\ bound = {} /\ connected = {}

-----------------------------------------------------------------------------
\* The list of responses in flight.

\* handleRequest: the new response goes in front.
Link(r) ==
    /\ linked' = linked \cup {r}
    /\ next' = [next EXCEPT ![r] = head]
    /\ prev' = [s \in Responses |-> IF s = r THEN Null
                                    ELSE IF s = head THEN r ELSE prev[s]]
    /\ head' = r

\* A slot without r: r's own is cleared, and the one that led to r, `from`,
\* leads to what followed it.
OnlyCleared(slot, r, from, to) == [slot EXCEPT ![r] = Null]  \* a bug
Bypassed(slot, r, from, to) ==
    [s \in Responses |-> IF s = r THEN Null
                         ELSE IF s = from THEN to ELSE slot[s]]

\* _unlinkPending, a no-op the second time.
Unlink(r) ==
    /\ linked' = linked \ {r}
    /\ IF r \in linked
         THEN /\ next' = Bypassed(next, r, prev[r], next[r])
              /\ prev' = Bypassed(prev, r, next[r], prev[r])
              /\ head' = IF prev[r] = Null /\ head = r THEN next[r]
                         ELSE head
         ELSE UNCHANGED <<next, prev, head>>

\* _onCloseCleanup, on the response's 'close'.
NotCleaned(r) == UNCHANGED listVars  \* a bug
OnCloseCleanup(r) == Unlink(r)

\* What close()'s timer takes out of the list: `finished || aborted`.
OverByEnd(r) == phase[r] = "finished"  \* a bug
Over(r) == phase[r] \in {"finished", "quiet", "aborted", "killed"}

-----------------------------------------------------------------------------
\* Between two pieces of JavaScript, and between two events of the loop.
Runs == ~sweeping
Idle == Runs /\ ticks = <<>>

\* listen(): uWS calls onListen back inside its own listen(); the caller hears
\* of it on a tick.
Listen ==
    /\ Runs /\ listens < MaxListens
    /\ listens' = listens + 1
    /\ listenCalled' = TRUE
    /\ \/ /\ listening' = TRUE
          /\ listenSocket' = listens + 1
          /\ bound' = bound \cup {listens + 1}
          /\ ticks' = Append(ticks, ListeningTick)
       \/ /\ ticks' = Append(ticks, RefusedTick)
          /\ UNCHANGED <<listening, listenSocket, bound>>
    /\ UNCHANGED <<draining, closeVars, sweepVars, listVars,
                   phase, out, via, connected>>

\* close() of a server that does not listen: during a drain it only waits for
\* the 'close' the drain ends in.
AlwaysEmits == FALSE  \* a bug
DrainWillEmit == draining
CloseStopped ==
    /\ ~(listenCalled /\ listening)
    /\ ticks' = IF DrainWillEmit THEN ticks
                ELSE Append(ticks, EmitCloseTick)
    /\ UNCHANGED <<draining, listenSocket, bound, sweeps>>

\* close() of one that does: no more connections, and the drain.
NeverWaits == TRUE  \* a bug
NothingPending == head = Null
CloseListening ==
    /\ listenCalled /\ listening
    /\ listenSocket' = 0
    /\ bound' = bound \ {listenSocket}
    /\ draining' = TRUE
    /\ IF NothingPending
         THEN /\ ticks' = Append(ticks, FinishTick)
              /\ UNCHANGED sweeps
         ELSE /\ sweeps' = sweeps + 1
              /\ UNCHANGED ticks

Close ==
    /\ Runs /\ closes < MaxCloses
    /\ closes' = closes + 1
    /\ listening' = FALSE
    /\ callback' = [callback EXCEPT ![closes + 1] =
                       IF listening THEN "waiting" ELSE "waitingError"]
    /\ CloseStopped \/ CloseListening
    /\ UNCHANGED <<listenCalled, listens, sweeping, cursor, listVars,
                   phase, out, via, connected>>

-----------------------------------------------------------------------------
\* emit("close"): every callback that waits is called, once.
EmitClose ==
    callback' = [k \in 1 .. MaxCloses |->
                    CASE callback[k] = "waiting" -> "ok"
                      [] callback[k] = "waitingError" -> "error"
                      [] OTHER -> callback[k]]

\* uWS's close() drops every socket it holds, listen sockets included, with
\* the bytes it still buffers; a response in flight is aborted.
UwsClose ==
    /\ bound' = {} /\ connected' = {}
    /\ phase' = [r \in Responses |->
                    IF phase[r] = "serving" THEN "killed" ELSE phase[r]]
    /\ out' = [r \in Responses |->
                    IF out[r] = "buffered" THEN "cut" ELSE out[r]]
    /\ UNCHANGED via

\* close()'s inner finish().
Finish ==
    /\ draining' = FALSE
    /\ UwsClose /\ EmitClose
    /\ UNCHANGED <<listening, listenCalled, listenSocket, listens, closes>>

\* The callbacks of process.nextTick. The program's own 'listening' and bind
\* error handlers may call anything: that is another step.
RunReport ==
    /\ Head(ticks) \in {ListeningTick, RefusedTick}
    /\ UNCHANGED <<appVars, closeVars, sweepVars, listVars, wireVars>>
RunEmitClose ==
    /\ Head(ticks) = EmitCloseTick
    /\ EmitClose
    /\ UNCHANGED <<appVars, closes, sweepVars, listVars, wireVars>>
TimersAfterFinish == sweeps
RunFinish ==
    /\ Head(ticks) = FinishTick
    /\ Finish
    /\ sweeps' = TimersAfterFinish
    /\ UNCHANGED <<sweeping, cursor, listVars>>
\* 'close' of a destroyed response reaches _onCloseCleanup.
RunClosed ==
    /\ \E r \in Responses : Head(ticks) = ClosedTick(r) /\ OnCloseCleanup(r)
    /\ UNCHANGED <<appVars, closeVars, sweepVars, wireVars>>

RunTick ==
    /\ Runs /\ ticks # <<>>
    /\ ticks' = Tail(ticks)
    /\ RunReport \/ RunEmitClose \/ RunFinish \/ RunClosed

\* close()'s timer: setInterval(..., 10).
SweepBegin ==
    /\ Idle /\ sweeps > 0
    /\ sweeping' = TRUE
    /\ cursor' = head
    /\ UNCHANGED <<appVars, closeVars, ticks, sweeps, listVars, wireVars>>

SweepOne ==
    /\ sweeping /\ cursor # Null
    /\ cursor' = next[cursor]
    /\ IF Over(cursor) THEN Unlink(cursor) ELSE UNCHANGED listVars
    /\ UNCHANGED <<appVars, closeVars, ticks, sweeps, sweeping, wireVars>>

\* The walk is over: finish(), or wait for the next turn.
TimersAfterWalk == IF head = Null THEN sweeps - 1 ELSE sweeps
SweepEnd ==
    /\ sweeping /\ cursor = Null
    /\ sweeping' = FALSE
    /\ sweeps' = TimersAfterWalk
    /\ IF head = Null THEN Finish
                      ELSE UNCHANGED <<appVars, closeVars, wireVars>>
    /\ UNCHANGED <<ticks, cursor, listVars>>

-----------------------------------------------------------------------------
\* uWS and the clients.

\* One request at a time on a connection, and the answer before it gone.
Free(c) ==
    \A r \in Responses : via[r] = {c} =>
        phase[r] # "serving" /\ out[r] # "buffered"

Connect(c) ==
    /\ Idle /\ bound # {} /\ c \notin connected
    /\ connected' = connected \cup {c}
    /\ UNCHANGED <<appVars, closeVars, ticks, sweepVars, listVars,
                   phase, out, via, bound>>

\* A request comes in: handleRequest.
HandleRequest(r, c) ==
    /\ Idle /\ phase[r] = "unused" /\ c \in connected /\ Free(c)
    /\ phase' = [phase EXCEPT ![r] = "serving"]
    /\ via' = [via EXCEPT ![r] = {c}]
    /\ Link(r)
    /\ UNCHANGED <<appVars, closeVars, ticks, sweepVars,
                   out, bound, connected>>

\* The handler answers: _finish ends in _onCloseCleanup. The kernel may take
\* every byte at once, or uWS keeps the rest.
End(r) ==
    /\ "end" \in Ends /\ Runs /\ phase[r] = "serving"
    /\ phase' = [phase EXCEPT ![r] = "finished"]
    /\ \E where \in {"buffered", "sent"} : out' = [out EXCEPT ![r] = where]
    /\ OnCloseCleanup(r)
    /\ UNCHANGED <<appVars, closeVars, ticks, sweepVars,
                   via, bound, connected>>

\* The two ends that leave the response in the list (see ResponseStream): a
\* fixed length completed by onWritable, and a socket destroyed in the
\* synchronous handler.
EndQuietly(r) ==
    /\ "quiet" \in Ends /\ Idle /\ phase[r] = "serving"
    /\ phase' = [phase EXCEPT ![r] = "quiet"]
    /\ out' = [out EXCEPT ![r] = "sent"]
    /\ UNCHANGED <<appVars, closeVars, ticks, sweepVars, listVars,
                   via, bound, connected>>

\* An 'error' on the response: _onAbortError drops the connection and unlinks.
EndOnError(r) ==
    /\ "error" \in Ends /\ Runs /\ phase[r] = "serving"
    /\ phase' = [phase EXCEPT ![r] = "finished"]
    /\ connected' = connected \ via[r]
    /\ Unlink(r)
    /\ UNCHANGED <<appVars, closeVars, ticks, sweepVars, out, via, bound>>

\* destroy(), or the client leaving: 'close' is emitted on a tick.
Abort(r) ==
    /\ "abort" \in Ends /\ Runs /\ phase[r] = "serving"
    /\ phase' = [phase EXCEPT ![r] = "aborted"]
    /\ connected' = connected \ via[r]
    /\ ticks' = Append(ticks, ClosedTick(r))
    /\ UNCHANGED <<appVars, closeVars, sweepVars, listVars, out, via, bound>>

Settle(r) == End(r) \/ EndQuietly(r) \/ EndOnError(r) \/ Abort(r)

\* The kernel takes the rest of an answer.
Deliver(r) ==
    /\ Idle /\ out[r] = "buffered"
    /\ out' = [out EXCEPT ![r] = "sent"]
    /\ UNCHANGED <<appVars, closeVars, ticks, sweepVars, listVars,
                   phase, via, bound, connected>>

\* The client leaves with no request in flight.
Disconnect(c) ==
    /\ Idle /\ c \in connected
    /\ \A r \in Responses : via[r] = {c} => phase[r] # "serving"
    /\ connected' = connected \ {c}
    /\ out' = [r \in Responses |-> IF via[r] = {c} /\ out[r] = "buffered"
                                     THEN "left" ELSE out[r]]
    /\ UNCHANGED <<appVars, closeVars, ticks, sweepVars, listVars,
                   phase, via, bound>>

-----------------------------------------------------------------------------
Next ==
    \/ Listen \/ Close
    \/ RunTick
    \/ SweepBegin \/ SweepOne \/ SweepEnd
    \/ \E c \in Connections : Connect(c) \/ Disconnect(c)
    \/ \E r \in Responses, c \in Connections : HandleRequest(r, c)
    \/ \E r \in Responses : Settle(r) \/ Deliver(r)

Spec == Init /\ [][Next]_vars

\* Node empties the tick queue and runs a timer that is due; the program ends
\* every response it was given, or the client leaves (strong fairness: the
\* timer's turns come in between again and again, and the loop starves nobody).
Fairness ==
    /\ WF_vars(RunTick)
    /\ WF_vars(SweepBegin) /\ WF_vars(SweepOne) /\ WF_vars(SweepEnd)
    /\ \A r \in Responses : SF_vars(Settle(r))

FairSpec == Spec /\ Fairness

-----------------------------------------------------------------------------
FlagTypeOK ==
    /\ listening \in BOOLEAN /\ listenCalled \in BOOLEAN
    /\ draining \in BOOLEAN /\ sweeping \in BOOLEAN

CallTypeOK ==
    /\ listens \in 0 .. MaxListens /\ listenSocket \in 0 .. MaxListens
    /\ closes \in 0 .. MaxCloses
    /\ callback \in [1 .. MaxCloses -> Answer]
    /\ sweeps \in Nat
    /\ cursor \in Responses \cup {Null}

ListTypeOK ==
    /\ head \in Responses \cup {Null}
    /\ next \in [Responses -> Responses \cup {Null}]
    /\ prev \in [Responses -> Responses \cup {Null}]
    /\ linked \subseteq Responses

WireTypeOK ==
    /\ phase \in [Responses -> Phase]
    /\ out \in [Responses -> {"none", "buffered", "sent", "left", "cut"}]
    /\ via \in [Responses -> SUBSET Connections]
    /\ bound \subseteq 1 .. MaxListens
    /\ connected \subseteq Connections

\* Every variable has its type: in particular close() clears no timer it did
\* not arm, and the list's slots hold responses.
TypeOK ==
    /\ FlagTypeOK /\ CallTypeOK /\ ListTypeOK /\ WireTypeOK
    /\ ticks \in Seq(Tick)

\* The pointers of the list mirror each other, and a response out of the list
\* keeps none: whatever order responses end in, while a timer walks or not.
PointersMirror ==
    /\ \A r \in Responses \ linked : next[r] = Null /\ prev[r] = Null
    /\ \A r \in linked :
          /\ next[r] # Null => next[r] \in linked /\ prev[next[r]] = r
          /\ prev[r] # Null => prev[r] \in linked /\ next[prev[r]] = r
          /\ prev[r] = Null <=> head = r
    /\ head # Null => head \in linked

\* The responses a walk from the head comes to: those in every set that holds the
\* head and, with a response, the one after it.
LeftByNoStep(S) == head \in S \cup {Null} /\ \A r \in S : next[r] \in S \cup {Null}
Walked == {r \in Responses : \A S \in SUBSET Responses : LeftByNoStep(S) => r \in S}

\* What getConnections() and the timer count is what is in the list, and that
\* is every response being served and, between events, no other but those that
\* ended quietly.
WalkFindsServing ==
    /\ Walked = linked
    /\ \A r \in Responses : phase[r] = "serving" => r \in linked
    /\ Idle => \A r \in linked : phase[r] \in {"serving", "quiet"}

\* The close of uWS never takes a response that is still being served with it,
\* however often and from wherever close() and listen() are called.
NoneKilled == \A r \in Responses : phase[r] # "killed"

Queued(tick) == \E i \in 1 .. Len(ticks) : ticks[i] = tick

\* A drain has something left that will end it.
DrainHasEnd == draining => sweeps > 0 \/ Queued(FinishTick)

\* A close() that found the server listening calls back with no error only
\* when no request is being served.
OkMeansQuiet ==
    [][\A k \in 1 .. MaxCloses :
          callback[k] = "waiting" /\ callback'[k] = "ok" =>
              \A r \in Responses : phase'[r] # "serving"]_vars

\* Every close() calls back.
CloseAnswers ==
    \A k \in 1 .. MaxCloses :
        callback[k] \in {"waiting", "waitingError"}
            ~> callback[k] \in {"ok", "error"}

\* application.js:793: address() is null when the server does not listen.
AddressMeansBound == listening => bound # {}

\* application.js:923: close() stops accepting connections.
DrainAcceptsNone == draining /\ ~listening => bound = {}

\* application.js:923: close() lets the requests in flight finish: the answer
\* of none is cut.
AnswersArrive == \A r \in Responses : out[r] # "cut"
=============================================================================
