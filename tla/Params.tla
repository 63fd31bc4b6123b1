------------------------------- MODULE Params -------------------------------
(***************************************************************************)
(* What a layer needs before its handlers run: req.params, with those of the *)
(* mounts above where its router asks for them, and the param() callbacks of *)
(* its router, once per value. One request walks down mounts and back up.   *)
(*                                                                         *)
(* req.params is what was captured by name and what an application's RegExp *)
(* captured by number. A callback may take its time, rewrite its parameter, *)
(* fail or leave the route, and calls next() once.                          *)
(***************************************************************************)
EXTENDS Integers, Sequences, SequencesExt, Functions

CONSTANTS
    Name, Value,
    Routers,        \* the routers, a request enters the first
    Merges,         \* those made with mergeParams
    Callbacks,      \* [Routers -> [Name -> Nat]], how many param() callbacks each has
    Bad,            \* a value that will not decode
    MaxVisits,      \* the layers one request visits
    None

VARIABLES
    pc,             \* "walk", "param", "callback", "ready" or "skipped"
    inside,         \* the routers entered, the innermost last, and what each found
    params,         \* req.params
    paramStack,     \* req._paramStack
    called,         \* req._paramCalled: what each router's callbacks made of a name
    layer,          \* the layer at hand
    job,            \* the locals of _runParamCallbacks
    error,          \* req._error
    starts,         \* history: the values each router's callbacks were started for,
                    \* what they left and how they ended
    visits

vars == <<pc, inside, params, paramStack, called, layer, job, error, starts, visits>>

Nothing == [named |-> [n \in {} |-> None], numbered |-> <<>>]
Leaves == "route"           \* next("route")
Fault == "error"

\* What the constants must be.
ParamsAssumption ==
    /\ Routers # {} /\ Merges \subseteq Routers
    /\ Callbacks \in [Routers -> [Name -> Nat]]
    /\ Bad \notin Value /\ None \notin Value \cup {Leaves, Fault}
    /\ MaxVisits \in Nat

-----------------------------------------------------------------------------
(* Merging                                                                 *)

Over(f, g) == [x \in DOMAIN f \cup DOMAIN g |-> IF x \in DOMAIN g THEN g[x] ELSE f[x]]
Assign(under, over) ==
    [named |-> Over(under.named, over.named), numbered |-> Over(under.numbered, over.numbered)]

\* mergeParams: the mounts, the outermost first, then the layer's own, whose
\* numbers come after those of the mounts.
MergeParams(own, stack) ==
    LET mounts == FoldLeft(Assign, Nothing, stack) IN
    [named |-> Over(mounts.named, own.named), numbered |-> mounts.numbered \o own.numbered]

\* express's: the parameters of the layer its router was entered from.
ExpressMerge(own, above) ==
    [named |-> Over(above.named, own.named), numbered |-> above.numbered \o own.numbered]

-----------------------------------------------------------------------------
Router == Last(inside).router
MergesParams == Router \in Merges

\* The parameters a layer of the innermost router is given.
ParamsOf(own) ==
    IF MergesParams /\ paramStack # <<>> THEN MergeParams(own, paramStack) ELSE own
ExpressParamsOf(own) ==
    IF MergesParams THEN ExpressMerge(own, Last(inside).above) ELSE own

\* ownParamNames, of those a callback waits for: not what the mounts captured.
Names(own) == {n \in DOMAIN own.named : Callbacks[Router][n] > 0}

NoEntry == [match |-> None, value |-> None, error |-> None]
NoJob == [todo |-> {}, name |-> None, fn |-> 0]
NoLayer == [own |-> Nothing, use |-> FALSE, counted |-> FALSE]

TypeOK ==
    /\ pc \in {"walk", "param", "callback", "ready", "skipped"}
    /\ DOMAIN params.named \subseteq Name
    /\ Len(paramStack) < Len(inside) \/ paramStack = <<>>
    /\ called \in [Routers -> [Name -> [match : Value \cup {None}, value : Value \cup {None},
                                        error : {None, Leaves, Fault}]]]
    /\ error \in {None, Fault, Bad}
    /\ visits \in 0 .. MaxVisits

Init ==
    /\ pc = "walk"
    /\ \E r \in Routers \ Merges : inside = <<[router |-> r, above |-> Nothing, pushed |-> FALSE, back |-> Nothing]>>
    /\ params = Nothing
    /\ paramStack = <<>>
    /\ called = [r \in Routers |-> [n \in Name |-> NoEntry]]
    /\ layer = NoLayer
    /\ job = NoJob
    /\ error = None
    /\ starts = [r \in Routers |-> [n \in Name |-> <<>>]]
    /\ visits = 0

-----------------------------------------------------------------------------
\* raise and raiseDecodeFailure: what is already being reported stays.
Raised(err) == IF error = None THEN err ELSE error

\* _preprocessRequest: a layer whose path matched. `counted` for a route an
\* OPTIONS reaches only to count its verb.
Visit(own, use, counted) ==
    /\ pc = "walk" /\ visits < MaxVisits
    /\ visits' = visits + 1
    /\ layer' = [own |-> own, use |-> use, counted |-> counted]
    /\ params' = ParamsOf(own)
    /\ IF Names(own) # {} /\ ~counted
       THEN pc' = "param" /\ job' = [NoJob EXCEPT !.todo = Names(own)]
       ELSE pc' = "ready" /\ UNCHANGED job
    /\ UNCHANGED <<inside, paramStack, called, error, starts>>

\* A layer whose parameters do not decode is left at once.
Undecodable ==
    /\ pc = "walk" /\ visits < MaxVisits
    /\ visits' = visits + 1
    /\ error' = Raised(Bad)
    /\ pc' = "skipped"
    /\ UNCHANGED <<inside, params, paramStack, called, layer, job, starts>>

\* nextParam's end: the error it was given, or nothing more to do.
EndsWith(err) ==
    /\ pc' = "skipped"
    /\ error' = IF err = Fault THEN Raised(Fault) ELSE error

\* A bug: a name whose callback failed is asked again for another value.
RememberedValue(entry, value) == entry # NoEntry /\ entry.match = value

\* The same value again, or a name that already failed.
Remembered(entry, value) ==
    entry # NoEntry /\ (entry.match = value \/ entry.error = Fault)

\* nextParam: the next name; a value already seen restores what was made of it.
NextParam ==
    /\ pc = "param"
    /\ IF job.todo = {} THEN pc' = "ready" /\ UNCHANGED <<params, called, job, error, starts>>
       ELSE \E n \in job.todo :
            LET value == params.named[n]
                entry == called[Router][n] IN
            IF Remembered(entry, value)
            THEN /\ params' = [params EXCEPT !.named[n] = entry.value]
                 /\ job' = [job EXCEPT !.todo = @ \ {n}]
                 /\ IF entry.error # None THEN EndsWith(entry.error) ELSE UNCHANGED <<pc, error>>
                 /\ UNCHANGED <<called, starts>>
            ELSE /\ called' = [called EXCEPT ![Router][n] =
                        [match |-> value, value |-> value, error |-> None]]
                 /\ job' = [todo |-> job.todo \ {n}, name |-> n, fn |-> 1]
                 /\ pc' = "callback"
                 /\ starts' = [starts EXCEPT ![Router][n] =
                        Append(@, [value |-> value, left |-> value, err |-> None])]
                 /\ UNCHANGED <<params, error>>
    /\ UNCHANGED <<inside, paramStack, layer, visits>>

\* nextCallback: the callback called next(), perhaps after it rewrote the parameter.
Callback(err, value) ==
    /\ pc = "callback"
    /\ LET n == job.name IN
       /\ params' = [params EXCEPT !.named[n] = value]
       /\ called' = [called EXCEPT ![Router][n].value = value, ![Router][n].error = err]
       /\ starts' = [starts EXCEPT ![Router][n] =
              Append(Front(@), [Last(@) EXCEPT !.left = value, !.err = err])]
       /\ IF err # None THEN EndsWith(err) /\ UNCHANGED job
          ELSE IF job.fn < Callbacks[Router][n]
          THEN job' = [job EXCEPT !.fn = @ + 1] /\ UNCHANGED <<pc, error>>
          ELSE pc' = "param" /\ UNCHANGED <<job, error>>
    /\ UNCHANGED <<inside, paramStack, layer, visits>>

\* The layer's handler calls next(), or the layer is left without it.
NextLayer ==
    /\ pc \in {"ready", "skipped"}
    /\ pc' = "walk"
    /\ layer' = NoLayer /\ job' = NoJob
    /\ UNCHANGED <<inside, params, paramStack, called, error, starts, visits>>

\* enterMount: the handler is a router, which pushes where it merges.
EnterMount(router) ==
    /\ pc = "ready" /\ layer.use
    /\ router \notin {inside[i].router : i \in DOMAIN inside}
    /\ pc' = "walk"
    /\ layer' = NoLayer /\ job' = NoJob
    /\ paramStack' = IF router \in Merges THEN Append(paramStack, params) ELSE paramStack
    /\ inside' = Append(inside, [router |-> router, above |-> params,
                                 pushed |-> router \in Merges, back |-> params])
    /\ UNCHANGED <<params, called, error, starts, visits>>

\* The router hands back: the parameters of the mount, and its own entry popped.
LeaveMount ==
    /\ pc = "walk" /\ Len(inside) > 1
    /\ params' = Last(inside).back
    /\ paramStack' = IF Last(inside).pushed THEN Front(paramStack) ELSE paramStack
    /\ inside' = Front(inside)
    /\ UNCHANGED <<pc, called, layer, job, error, starts, visits>>

\* An error handler takes the error and calls next().
Handled ==
    /\ pc = "walk" /\ error # None
    /\ error' = None
    /\ UNCHANGED <<pc, inside, params, paramStack, called, layer, job, starts, visits>>
-----------------------------------------------------------------------------
\* Where a layer is about to run, req.params are those express would hand it: its
\* own, the mounts' where its router asks for them, and what the callbacks left
\* for their values; a plain router between two that merge keeps what is above it
\* to itself (router-utils.js ownParamNames, mergesParams; walk.js enterMount).
Rewritten(own) ==
    [n \in DOMAIN own.named |->
        IF n \in Names(own) /\ ~layer.counted THEN Last(starts[Router][n]).left ELSE own.named[n]]
ParamsAsExpress ==
    pc = "ready" =>
        params = [ExpressParamsOf(layer.own) EXCEPT !.named = Over(@, Rewritten(layer.own))]

\* The same where no plain router stands between two that merge.
PlainBetween ==
    \E i, j \in DOMAIN inside :
        i < j /\ inside[i].pushed /\ inside[j].router \notin Merges /\ MergesParams
ParamsAreThoseOfTheMounts == ~PlainBetween => ParamsAsExpress

\* The callbacks of a name are not started again for the value they were started
\* for last, nor after one of them failed, and a layer whose parameter they
\* refused does not run (router.js _runParamCallbacks).
OncePerValue ==
    \A r \in Routers, n \in Name :
        \A i \in 1 .. Len(starts[r][n]) - 1 :
            /\ starts[r][n][i].value # starts[r][n][i + 1].value
            /\ starts[r][n][i].err # Fault
VerdictKept ==
    pc = "ready" /\ ~layer.counted =>
        \A n \in Names(layer.own) : starts[Router][n] # <<>> /\ Last(starts[Router][n]).err = None

=============================================================================
