------------------------------ MODULE Tracing -------------------------------
(***************************************************************************)
(* What a tracer is told of one request (tracing.js, and where walk.js     *)
(* calls it): express.router.request, a channel on which every layer has a *)
(* start and an end around the synchronous part of its call, an asyncStart *)
(* and an asyncEnd once its promise settled, and an error once, on the     *)
(* layer that raised it.  A layer called by next() runs inside the one     *)
(* that called it.                                                         *)
(***************************************************************************)
EXTENDS Naturals, Sequences, FiniteSetsExt, SequencesExt

CONSTANTS
    Programs,       \* the layers of an application, a mounted router's between
                    \* "mount" and "back"
    None

VARIABLES
    program,
    error,          \* req._error: the layer that raised it
    stack,          \* the calls on JavaScript's stack, [layer, phase]
    handsBack,      \* the end of the mounted router that ran out, a microtask
    passed,         \* the layers that called next(), threw or rejected
    promise,        \* of each layer: "none", "pending", "settled"
    given,          \* the error each error handler was called with
    seen,           \* the errors reported of this request
    events          \* what was published, in order: [what, layer, error]

vars == <<program, error, stack, handsBack, passed, promise, given, seen, events>>

Layer == 1 .. Len(program)
Event(what, i) == [what |-> what, layer |-> i, error |-> None]

\* The programs are of these layers, with one mounted router at most.
TracingAssumption ==
    \A p \in Programs :
        /\ \A i \in DOMAIN p : p[i] \in {"handler", "undecodable", "error", "mount", "back"}
        /\ \A i, j \in DOMAIN p : p[i] = p[j] /\ p[i] \in {"mount", "back"} => i = j
        /\ \A i \in DOMAIN p : p[i] = "mount" => \E j \in DOMAIN p : j > i /\ p[j] = "back"

Init ==
    /\ program \in Programs
    /\ error = None /\ stack = <<>> /\ handsBack = None
    /\ passed = {} /\ promise = [i \in 1 .. Len(program) |-> "none"]
    /\ given = [i \in 1 .. Len(program) |-> None]
    /\ seen = {} /\ events = <<>>

-----------------------------------------------------------------------------
(* The walk                                                                *)

BackOf(m) == CHOOSE k \in Layer : k > m /\ program[k] = "back"

\* An error is given to error handlers, and steps over a mounted router whole.
Called(k, err) ==
    program[k] \in IF err = None THEN {"handler", "undecodable", "mount", "back"}
                                 ELSE {"error", "back"}
Inside(k, from) ==
    \E m \in Layer : program[m] = "mount" /\ from <= m /\ m < k /\ k <= BackOf(m)
NextLayer(from, err) ==
    Min({k \in Layer : k >= from /\ Called(k, err) /\ (err # None => ~Inside(k, from))}
            \cup {Len(program) + 1})

\* A parameter that does not decode raises its error with no layer called.
Reach(from, err) ==
    LET k == NextLayer(from, err) IN
    IF k \in Layer /\ program[k] = "undecodable"
    THEN [at |-> NextLayer(k + 1, k), error |-> k] ELSE [at |-> k, error |-> err]

\* step(): the layer is started, on the stack of who called, or its router is out
\* of layers.
Step(from, err, calls, said) ==
    LET r == Reach(from, err)
        runs == r.at \in Layer /\ program[r.at] # "back"
    IN  /\ error' = r.error
        /\ handsBack' = IF r.at \in Layer /\ ~runs THEN r.at ELSE None
        /\ stack' = IF runs THEN Append(calls, [layer |-> r.at, phase |-> "runs"]) ELSE calls
        /\ events' = IF runs THEN Append(said, Event("start", r.at)) ELSE said
        /\ given' = IF runs THEN [given EXCEPT ![r.at] = r.error] ELSE given

-----------------------------------------------------------------------------
(* What is published                                                       *)

\* A bug: an error is reported by each layer it goes through.
ReportsAny(err) == err # None

\* Not again as it goes up through the outer layers.
Reports(err) == err # None /\ err \notin seen

\* report().
Report(i, err) ==
    IF Reports(err) THEN Append(events, [Event("error", i) EXCEPT !.error = err]) ELSE events

Seen(err) == seen' = IF err = None THEN seen ELSE seen \cup {err}

Settlement(i) == <<Event("asyncStart", i), Event("asyncEnd", i)>>

-----------------------------------------------------------------------------
Top == Last(stack)
OnTop(phase) == stack # <<>> /\ Top.phase = phase
Becomes(phase) == [stack EXCEPT ![Len(stack)].phase = phase]
IsMount(i) == program[i] = "mount"

\* What a layer may call next() with: nothing, an error of its own, the one it
\* was given.
Passes(i) == {None, i, given[i]}

Arrive ==
    /\ events = <<>> /\ passed = {} /\ error = None /\ handsBack = None
    /\ Step(1, None, <<>>, <<>>)
    /\ UNCHANGED <<program, passed, promise, seen>>

\* traceMount: the router's first layer runs on its stack, the rest of it and what
\* comes after only where nothing waits.
EnterMount ==
    /\ OnTop("runs") /\ IsMount(Top.layer)
    /\ Step(Top.layer + 1, None, Becomes("entered"), events)
    /\ UNCHANGED <<program, passed, promise, seen>>

LeaveMount ==
    /\ OnTop("entered")
    /\ stack' = Front(stack) /\ events' = Append(events, Event("end", Top.layer))
    /\ UNCHANGED <<program, error, handsBack, passed, promise, given, seen>>

\* next() of traceHandler and of traceErrorHandler, on the stack or from a timer.
CallNext(i, err) ==
    /\ i \notin passed /\ passed' = passed \cup {i}
    /\ Seen(err) /\ Step(i + 1, err, stack, Report(i, err))
    /\ UNCHANGED <<program, promise>>

CallsNext(i) ==
    /\ OnTop("runs") /\ i = Top.layer /\ ~IsMount(i)
    /\ \E err \in Passes(i) : CallNext(i, err)

Later(i) ==
    /\ stack = <<>> /\ Event("end", i) \in Range(events) /\ ~IsMount(i)
    /\ promise[i] # "settled"
    /\ \E err \in Passes(i) : CallNext(i, err)

\* The catch: reported, the walk on, and the end behind it.
Throw ==
    /\ OnTop("runs") /\ ~IsMount(Top.layer) /\ Top.layer \notin passed
    /\ LET i == Top.layer IN
       /\ passed' = passed \cup {i}
       /\ Seen(i) /\ Step(i + 1, i, Becomes("threw"), Report(i, i))
    /\ UNCHANGED <<program, promise>>

Return ==
    /\ OnTop("runs") \/ OnTop("threw")
    /\ ~IsMount(Top.layer)
    /\ stack' = Front(stack) /\ events' = Append(events, Event("end", Top.layer))
    /\ \/ OnTop("runs") /\ promise' = [promise EXCEPT ![Top.layer] = "pending"]
       \/ UNCHANGED promise
    /\ UNCHANGED <<program, error, handsBack, passed, given, seen>>

\* A promise fulfilled.
Fulfil(i) ==
    /\ stack = <<>> /\ promise[i] = "pending"
    /\ promise' = [promise EXCEPT ![i] = "settled"] /\ events' = events \o Settlement(i)
    /\ UNCHANGED <<program, error, stack, handsBack, passed, given, seen>>

\* Rejected: reported, the walk on, and settled() behind it.
Reject(i) ==
    /\ stack = <<>> /\ promise[i] = "pending" /\ i \notin passed
    /\ promise' = [promise EXCEPT ![i] = "settled"] /\ passed' = passed \cup {i}
    /\ Seen(i) /\ Step(i + 1, i, <<[layer |-> i, phase |-> "rejected"]>>, Report(i, i))
    /\ UNCHANGED program

Settled ==
    /\ OnTop("rejected")
    /\ stack' = Front(stack) /\ events' = events \o Settlement(Top.layer)
    /\ UNCHANGED <<program, error, handsBack, passed, promise, given, seen>>

\* enterMount's then: what the router hands back is reported on its own layer,
\* unless one inside did.
HandBack ==
    /\ stack = <<>> /\ handsBack # None
    /\ LET m == CHOOSE k \in Layer : IsMount(k) IN
       Seen(error) /\ Step(handsBack + 1, error, <<>>, Report(m, error))
    /\ UNCHANGED <<program, passed, promise>>

Next ==
    \/ Arrive \/ EnterMount \/ LeaveMount \/ Throw \/ Return \/ Settled \/ HandBack
    \/ \E i \in Layer : CallsNext(i) \/ Later(i) \/ Fulfil(i) \/ Reject(i)

Spec == Init /\ [][Next]_vars

-----------------------------------------------------------------------------
At(what, i) == {k \in DOMAIN events : events[k].what = what /\ events[k].layer = i}
Before(S, T) == \A t \in T : \E s \in S : s < t
Once(S) == \A s, t \in S : s = t

\* Every layer's span is one, closed when the stack it ran on is left, around the
\* spans of the layers it called; a promise settles once, behind it.
SpansNest ==
    /\ \A i \in Layer :
          /\ \A what \in {"start", "end", "asyncStart", "asyncEnd"} : Once(At(what, i))
          /\ Before(At("start", i), At("end", i)) /\ Before(At("end", i), At("asyncStart", i))
          /\ Before(At("asyncStart", i), At("asyncEnd", i))
          /\ stack = <<>> /\ At("start", i) # {} => At("end", i) # {}
    /\ \A i, j \in Layer :
          Before(At("start", i), At("start", j)) /\ Before(At("start", j), At("end", i))
            /\ At("end", i) # {} /\ At("start", j) # {}
            /\ ~Before(At("end", i), At("start", j)) =>
                At("end", j) # {} /\ Before(At("end", j), At("end", i))

\* An error is published once, on the layer that raised it, and before anything
\* outside the router it was raised in is called with it.
ErrorsOnce ==
    LET raised == {k \in DOMAIN events : events[k].what = "error"} IN
    /\ \A j, k \in raised : events[j].error = events[k].error => j = k
    /\ \A k \in raised :
          program[events[k].error] # "undecodable" => events[k].layer = events[k].error
    /\ \A i \in Layer : \A k \in At("start", i) :
          LET err == given[i] IN
          err # None /\ (program[err] # "undecodable"
                            \/ \E b \in Layer : program[b] = "back" /\ err < b /\ b < i
                                                /\ \E m \in Layer : IsMount(m) /\ m < err) =>
            \E j \in raised : events[j].error = err /\ j < k

TracedAsRun == SpansNest /\ ErrorsOnce
=============================================================================
