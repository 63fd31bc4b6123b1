-------------------------------- MODULE Walk --------------------------------
(***************************************************************************)
(* The dispatch of one request: the walk over a router's layers, the walks *)
(* of the routers mounted in it, errors, req.url assigned on the way, and  *)
(* the compiled chain a natively matched request starts on (src/walk.js,   *)
(* with what it calls in router.js, router-utils.js and request.js); and   *)
(* the compilation at listen (src/optimizer.js): which routes are handed   *)
(* to uWS's own router, each with the chain of layers a request for it      *)
(* starts on, and which of them uWS gives a request to.                    *)
(*                                                                         *)
(* Nothing else runs between two hops, so a hop is the code's own function *)
(* call: `todo` names the one that comes next. A path is a sequence of     *)
(* segments, a handler a name whose outcome is chosen when it first runs.  *)
(* The request is a GET; parameters, HEAD and OPTIONS are left out, and of *)
(* paths the regular expressions, wildcards, optional groups, the trailing *)
(* slash and the case of letters.                                          *)
(***************************************************************************)
EXTENDS Integers, Sequences, FiniteSets, SequencesExt, FiniteSetsExt

CONSTANTS
    Segment,        \* the segments of paths
    Router, App,    \* the names of routers, and of those that are applications
    Top,            \* the application that listens
    Handler,        \* the names of handlers
    None,
    Cases,          \* what is served: a program, a request and how it enters
    May,            \* what each handler may do, on a chain (TRUE) or not
    RewriteTo       \* the path a handler that rewrites assigns to req.url

-----------------------------------------------------------------------------
(* The entries of a router's table and the paths they are written for.       *)

Param == ":"
Path == Seq(Segment)

Callback == [kind : {"plain", "error", "router"}, name : Handler \cup Router]

\* A RouteEntry: `key` is its routeKey, the order of registration in the process.
Layer == [key : Nat, use : BOOLEAN, path : Seq(Segment \cup {Param}),
          method : {"ALL", "GET", "POST"}, callbacks : Seq(Callback),
          keepMount : BOOLEAN, mountApp : App \cup {None}]

ASSUME RouteTableAssumption ==
    /\ App \subseteq Router /\ Top \in App
    /\ Param \notin Segment
    /\ None \notin Handler \cup Router \cup Layer \cup Path

-----------------------------------------------------------------------------
Below(path, n) == SubSeq(path, n + 1, Len(path))

SegmentsMatch(pattern, path) ==
    \A i \in 1 .. Len(pattern) : pattern[i] \in {Param, path[i]}

\* _pathMatches: a mount matches where its path begins.
PathMatches(layer, path) ==
    /\ IF layer.use THEN Len(layer.path) <= Len(path)
                    ELSE Len(layer.path) = Len(path)
    /\ SegmentsMatch(layer.path, path)

\* Whether one path could match what both patterns are written for.
PathsCanOverlap(a, b, aIsPrefix) ==
    /\ IF aIsPrefix THEN Len(a) <= Len(b) ELSE Len(a) = Len(b)
    /\ \A i \in 1 .. Len(a) : a[i] = b[i] \/ Param \in {a[i], b[i]}

\* Whether uWS takes `earlier` for every path both match.
UwsPrefersEarlier(earlier, later) ==
    /\ Len(earlier) = Len(later)
    /\ \A i \in 1 .. Len(earlier) :
          earlier[i] # later[i] => earlier[i] # Param /\ later[i] = Param

-----------------------------------------------------------------------------
(* The compilation at listen.                                                *)

IsLiteral(path) == Param \notin Range(path)
HasRouter(layer) ==
    \E i \in 1 .. Len(layer.callbacks) : layer.callbacks[i].kind = "router"
SameMethod(r, route) == r.method \in {"ALL", route.method}
Earlier(table, route) == SelectSeq(table, LAMBDA r : r.key < route.key)

-----------------------------------------------------------------------------
\* optimizeRoute. An earlier layer whose pattern matches the written path goes
\* ahead of the route in its chain.
Ahead(r, route) ==
    /\ SameMethod(r, route)
    /\ \/ PathMatches(r, route.path) /\ (r.use \/ IsLiteral(route.path))
       \/ ~r.use /\ ~route.use /\ r.path = route.path

\* One that answers only some of the route's paths keeps it off the chain,
\* unless uWS gives those paths to the earlier one, registered already.
Blocks(r, route, registered) ==
    \/ /\ route.use /\ PathMatches(r, route.path)
       /\ ~r.use \/ ~SameMethod(r, route)
    \/ Ahead(r, route) /\ HasRouter(r)
    \/ /\ SameMethod(r, route) /\ ~Ahead(r, route) /\ ~IsLiteral(route.path)
       /\ PathsCanOverlap(r.path, route.path, r.use)
       /\ \/ r.use \/ r.key \notin registered
          \/ ~UwsPrefersEarlier(r.path, route.path)

CanBeReached(table, route, registered) ==
    \A r \in Range(Earlier(table, route)) : ~Blocks(r, route, registered)
ChainTo(table, route) ==
    SelectSeq(Earlier(table, route), LAMBDA r : Ahead(r, route))

-----------------------------------------------------------------------------
\* What was written before a mount and is not in its chain.
GuardsInside(table, mount, prefix, inherited) ==
    inherited \cup
        {[path |-> prefix \o r.path, use |-> r.use, method |-> r.method] :
            r \in Range(Earlier(table, mount)) \ Range(ChainTo(table, mount))}

ShadowsLeaf(guard, path, leaf) ==
    /\ guard.method \in {"ALL", leaf.method}
    /\ PathsCanOverlap(guard.path, path, guard.use)

IsFollowedByAnOverlap(table, route) ==
    \E later \in Range(table) :
        /\ later.key > route.key
        /\ \/ later.use
           \/ SameMethod(later, route) /\ PathsCanOverlap(route.path, later.path, FALSE)

\* An earlier parameter route of the chain would take this literal path.
ShadowedByParameter(ahead, route) ==
    /\ ahead # <<>>
    /\ LET shadow == Last(ahead) IN
       /\ ~shadow.use /\ shadow.method = route.method
       /\ shadow.path # route.path /\ ~IsLiteral(shadow.path)

-----------------------------------------------------------------------------
\* compileOptimizedRoutes, at one router of the tree: `at` is the router, the
\* path and the chain that lead to it, the guards written before it and the
\* routers it is inside of. `given` is what uWS was given so far.
Mounted(route) == route.callbacks[1].name

Registered(given) == {given[i].key : i \in 1 .. Len(given)}

WalksInto(table, route, at, given) ==
    /\ Len(route.callbacks) = 1 /\ route.callbacks[1].kind = "router"
    /\ IsLiteral(route.path)
    /\ Mounted(route) \notin at.inside
    /\ CanBeReached(table, route, Registered(given))

Inside(table, route, at) ==
    [router |-> Mounted(route),
     prefix |-> at.prefix \o route.path,
     chain |-> at.chain \o ChainTo(table, route) \o
        <<[route EXCEPT !.callbacks = <<>>, !.keepMount = TRUE,
              !.mountApp = IF Mounted(route) \in App THEN Mounted(route) ELSE None]>>,
     guards |-> GuardsInside(table, route, at.prefix, at.guards),
     inside |-> at.inside \cup {Mounted(route)}]

IsNative(table, route, at, given) ==
    /\ route.method # "ALL"
    /\ at.prefix = <<>> \/ ~IsFollowedByAnOverlap(table, route)
    /\ \A guard \in at.guards : ~ShadowsLeaf(guard, at.prefix \o route.path, route)
    /\ CanBeReached(table, route, Registered(given))
    /\ ~ShadowedByParameter(ChainTo(table, route), route)

\* The root of a mounted router is registered with a slash at its end.
Registration(table, route, at) ==
    [key |-> route.key, method |-> route.method, path |-> at.prefix \o route.path,
     slash |-> at.prefix # <<>> /\ route.path = <<>>,
     chain |-> at.chain \o ChainTo(table, route) \o <<route>>]

RECURSIVE CompileFrom(_, _, _, _)
CompileFrom(routes, at, i, given) ==
    LET table == routes[at.router]
        route == table[i]
        more ==
            IF route.use
              THEN IF WalksInto(table, route, at, given)
                     THEN CompileFrom(routes, Inside(table, route, at), 1, given)
                     ELSE given
              ELSE IF IsNative(table, route, at, given)
                     THEN Append(given, Registration(table, route, at))
                     ELSE given
    IN IF i > Len(table) THEN given ELSE CompileFrom(routes, at, i + 1, more)

CompileOptimizedRoutes(routes) ==
    CompileFrom(routes, [router |-> Top, prefix |-> <<>>, chain |-> <<>>,
                         guards |-> {}, inside |-> {Top}], 1, <<>>)

-----------------------------------------------------------------------------
\* uWS, of which src/ relies on this: a literal segment before a parameter, and
\* of one pattern the last registration.
Precedes(p, q) ==
    \E n \in 1 .. Len(p) : /\ p[n] # Param /\ q[n] = Param
                           /\ \A m \in 1 .. n - 1 : p[m] = q[m]

UwsMatches(given, path) ==
    {i \in 1 .. Len(given) :
        /\ given[i].method = "GET" /\ ~given[i].slash
        /\ Len(given[i].path) = Len(path) /\ SegmentsMatch(given[i].path, path)}

\* The chain a GET of this path starts on, empty when uWS has no route for it.
UwsRoutes(given, path) ==
    LET matches == UwsMatches(given, path)
        Better(i, j) == \/ Precedes(given[i].path, given[j].path)
                        \/ given[i].path = given[j].path /\ i > j
    IN IF matches = {} THEN <<>>
       ELSE given[CHOOSE i \in matches : \A j \in matches \ {i} : Better(i, j)].chain

-----------------------------------------------------------------------------
(* What is served.                                                           *)

Outcome == {"answer", "next", "route", "router", "fail", "reject", "rewrite"}

\* `chain` is what uWS dispatches the request to, empty for the ordinary walk.
Case == [routes : [Router -> Seq(Layer)], path : Path, chain : Seq(Layer)]

ASSUME WalkAssumption ==
    /\ Cases \subseteq Case /\ RewriteTo \in Path
    /\ May \in [BOOLEAN -> [Handler -> SUBSET Outcome]]

VARIABLES
    case, does,     \* what is served, and what each handler has been seen to do
    walks,          \* the Walk objects, in the order they were made
    todo,           \* the call that comes next
    original,       \* _originalPath
    consumed,       \* _consumed, in segments
    stack,          \* _stack
    assigned,       \* what was assigned to req.url and not taken yet, or None
    error, errorKey,
    app, appStack,  \* req.app, and _appStack
    nextOf,         \* the walk whose next is req.next
    ran,            \* the handlers run, each with req.app and req.path
    outcome

progVars == <<case, does>>
pathVars == <<original, consumed, stack, assigned>>
errorVars == <<error, errorKey>>
appVars == <<app, appStack>>
endVars == <<ran, outcome>>
vars == <<progVars, walks, todo, pathVars, errorVars, appVars, nextOf, endVars>>

Idle == [op |-> "idle"]
Dispatch(w, i) == [op |-> "dispatch", walk |-> w, from |-> i]
RunRoute(w) == [op |-> "runRoute", walk |-> w]
Step(w, arg) == [op |-> "step", walk |-> w, arg |-> arg]

-----------------------------------------------------------------------------
\* The path the current router matches: what the mounts left, or what a handler
\* assigned.
opPath == Below(original, consumed)
Url == IF assigned = None THEN opPath ELSE assigned

\* The gates of _scanFrom, for a GET.
Enters(layer, path) ==
    layer.method \in {"ALL", "GET"} /\ PathMatches(layer, path)

-----------------------------------------------------------------------------
\* A walk over a router's table, or over a compiled chain.
NewWalk(router, routes, chain, skipUntil, parent, mount) ==
    [router |-> router, routes |-> routes, skipCheck |-> chain,
     skipUntil |-> skipUntil, route |-> 1, callback |-> 1,
     parent |-> parent, mount |-> mount, settled |-> FALSE]

Route(w) == walks[w].routes[walks[w].route]
KeyOf(layer) == IF layer = None THEN -1 ELSE layer.key

\* registerUwsRoute: where ordinary routing resumes when the chain runs out.
SkipUntilLeaf(chain) == chain[Len(chain)]  \* a bug
SkipUntil(chain) ==
    LET mounts == {i \in 1 .. Len(chain) : chain[i].keepMount}
    IN IF mounts # {} THEN chain[Min(mounts)] ELSE chain[Len(chain)]

Init ==
    /\ case \in Cases
    /\ does = [h \in Handler |-> "unknown"]
    /\ walks = <<IF case.chain = <<>>
                   THEN NewWalk(Top, case.routes[Top], FALSE, None, 0, None)
                   ELSE NewWalk(Top, case.chain, TRUE, SkipUntil(case.chain),
                                0, None)>>
    /\ todo = Dispatch(1, 1)
    /\ original = case.path /\ consumed = 0 /\ stack = <<>> /\ assigned = None
    /\ error = None /\ errorKey = -1
    /\ app = Top /\ appStack = <<>>
    /\ nextOf = 0
    /\ ran = <<>> /\ outcome = "running"

-----------------------------------------------------------------------------
\* leaveChain: the path is made whole, and the router's own table walked.
OnTable(walk) ==
    [walk EXCEPT !.routes = case.routes[walk.router], !.skipCheck = FALSE]
LeaveStackKept == UNCHANGED <<stack, consumed>>  \* a bug
LeaveStack == stack' = <<>> /\ consumed' = 0

\* dispatch, with a req.url assigned: the new path is taken, and a chain gives
\* way to the table from the top, without the layers up to the one that ran.
Absorbed == SubSeq(original, 1, consumed) \o assigned
RerouteFrom(walk, i) ==
    [OnTable(walk) EXCEPT !.skipUntil = IF i > 1 THEN walk.routes[i - 1] ELSE None]
TakeUrlRewrite ==
    /\ todo.op = "dispatch" /\ assigned # None
    /\ original' = Absorbed /\ assigned' = None
    /\ LET w == todo.walk IN
       IF walks[w].skipCheck
         THEN /\ walks' = [walks EXCEPT ![w] = RerouteFrom(@, todo.from)]
              /\ todo' = Dispatch(w, 1)
              /\ LeaveStack
         ELSE UNCHANGED <<walks, todo, consumed, stack>>
    /\ UNCHANGED <<progVars, errorVars, appVars, nextOf, endVars>>

\* dispatch: the layers that can be entered from here on.
Found(walk, i) ==
    {j \in i .. Len(walk.routes) :
        walk.skipCheck \/ Enters(walk.routes[j], opPath)}

DispatchRoute ==
    /\ todo.op = "dispatch" /\ assigned = None
    /\ LET w == todo.walk
           found == Found(walks[w], todo.from)
       IN /\ found # {}
          /\ walks' = [walks EXCEPT ![w].route = Min(found), ![w].callback = 1]
          /\ todo' = RunRoute(w)
    /\ UNCHANGED <<progVars, pathVars, errorVars, appVars, nextOf, endVars>>

\* A chain ran out: ordinary routing from the top, and an error raised in a
\* mount counts as the mount's.
ErrorKeyOutside(until) ==
    IF error # None /\ until.keepMount /\ until.key > errorKey /\ errorKey >= 0
      THEN until.key ELSE errorKey
ChainEnds ==
    /\ todo.op = "dispatch" /\ assigned = None
    /\ LET w == todo.walk
           until == walks[w].skipUntil
       IN /\ walks[w].skipCheck /\ Found(walks[w], todo.from) = {}
          /\ app' = walks[w].router
          /\ errorKey' = ErrorKeyOutside(until)
          /\ walks' = [walks EXCEPT ![w] = OnTable(@)]
          /\ todo' = Dispatch(w, 1)
    /\ LeaveStack
    /\ UNCHANGED <<progVars, original, assigned, error, appStack, nextOf, endVars>>

-----------------------------------------------------------------------------
\* resolve(false). Of the first walk it is nativeDone, whose microtask ends the
\* request; of a mounted one, what enterMount waits for. A promise is resolved
\* once.
Resolve(w) ==
    /\ walks' = [walks EXCEPT ![w].settled = TRUE]
    /\ IF walks[w].settled
         THEN todo' = Idle /\ UNCHANGED <<outcome, errorKey>>
       ELSE IF walks[w].parent = 0
         THEN /\ outcome' = IF error # None THEN "error" ELSE "notFound"
              /\ todo' = Idle
              /\ UNCHANGED errorKey
         ELSE /\ errorKey' = IF error # None THEN walks[w].mount.key ELSE errorKey
              /\ todo' = Step(walks[w].parent, "none")
              /\ UNCHANGED outcome

TableEnds ==
    /\ todo.op = "dispatch" /\ assigned = None
    /\ ~walks[todo.walk].skipCheck /\ Found(walks[todo.walk], todo.from) = {}
    /\ Resolve(todo.walk)
    /\ UNCHANGED <<progVars, pathVars, error, appVars, nextOf, ran>>

-----------------------------------------------------------------------------
\* runRoute: a mount takes its piece of the path on the way in.
EnterRoute ==
    /\ todo.op = "runRoute"
    /\ LET w == todo.walk
           route == Route(w)
       IN IF route.keepMount /\ error # None
            THEN /\ todo' = Dispatch(w, Len(walks[w].routes) + 1)
                 /\ UNCHANGED <<consumed, stack, app, nextOf>>
            ELSE /\ todo' = Step(w, "none")
                 /\ nextOf' = w
                 /\ IF route.use
                      THEN /\ stack' = Append(stack, Len(route.path))
                           /\ consumed' = consumed + Len(route.path)
                           /\ app' = IF route.mountApp # None THEN route.mountApp
                                                              ELSE app
                      ELSE UNCHANGED <<consumed, stack, app>>
    /\ UNCHANGED <<progVars, walks, original, assigned, errorVars, appStack, endVars>>

-----------------------------------------------------------------------------
GiveBack == stack' = Front(stack) /\ consumed' = consumed - Last(stack)

\* leaveHop: the mount's piece goes back, a req.url assigned inside is taken
\* first, and the application that was current comes back.
Pop(route) ==
    IF route.use /\ ~route.keepMount
      THEN /\ GiveBack
           /\ original' = IF assigned = None THEN original ELSE Absorbed
           /\ assigned' = None
           /\ IF appStack # <<>> /\ Last(appStack).key = route.key
                THEN app' = Last(appStack).app /\ appStack' = Front(appStack)
                ELSE UNCHANGED appVars
      ELSE UNCHANGED <<pathVars, appVars>>

\* The hop to the next layer.
LeaveRoute ==
    /\ todo.op = "step"
    /\ LET w == todo.walk
           route == Route(w)
       IN /\ \/ todo.arg = "route" /\ ~route.use
             \/ todo.arg # "router"
                  /\ walks[w].callback > Len(route.callbacks)
          /\ Pop(route)
          /\ todo' = Dispatch(w, walks[w].route + 1)
    /\ UNCHANGED <<progVars, walks, errorVars, nextOf, endVars>>

\* next("router"): the router hands back, or a chain with a mount in it runs out.
LeaveRouter ==
    /\ todo.op = "step" /\ todo.arg = "router"
    /\ LET w == todo.walk
       IN /\ Pop(Route(w))
          /\ IF walks[w].skipCheck /\ walks[w].skipUntil.keepMount
               THEN /\ todo' = Dispatch(w, Len(walks[w].routes) + 1)
                    /\ UNCHANGED <<walks, outcome, errorKey>>
               ELSE Resolve(w)
    /\ UNCHANGED <<progVars, error, nextOf, ran>>

-----------------------------------------------------------------------------
\* step comes to a callback.
AtCallback ==
    /\ todo.op = "step"
    /\ LET route == Route(todo.walk) IN
       /\ todo.arg = "none" \/ (todo.arg = "route" /\ route.use)
       /\ walks[todo.walk].callback <= Len(route.callbacks)
TheCallback == Route(todo.walk).callbacks[walks[todo.walk].callback]
Advanced(w) == [walks EXCEPT ![w].callback = @ + 1]

\* The layers a compiled chain already ran.
Skipped(w) ==
    ~walks[w].skipCheck /\ KeyOf(walks[w].skipUntil) >= Route(w).key

\* A handler inside a route is only given what that route raised.
Reachable(route) ==
    IF route.use THEN errorKey >= 0 /\ route.key >= errorKey
                 ELSE route.key = errorKey

Runs(callback) ==
    IF callback.kind = "error"
      THEN error # None /\ Reachable(Route(todo.walk))
      ELSE error = None

StepOver ==
    /\ AtCallback
    /\ Skipped(todo.walk) \/ ~Runs(TheCallback)
    /\ walks' = Advanced(todo.walk)
    /\ todo' = Step(todo.walk, "none")
    /\ UNCHANGED <<progVars, pathVars, errorVars, appVars, nextOf, endVars>>

\* enterMount, with rememberApp.
Remembers(walk, route, child) ==
    /\ child \in App /\ walk.router \in App
    /\ route.callbacks[1].name \in App
EnterMount ==
    /\ AtCallback /\ ~Skipped(todo.walk)
    /\ TheCallback.kind = "router" /\ Runs(TheCallback)
    /\ LET w == todo.walk
           child == TheCallback.name
       IN /\ walks' = Append(Advanced(w),
                        NewWalk(child, case.routes[child], FALSE, None, w, Route(w)))
          /\ todo' = Dispatch(Len(walks) + 1, 1)
          /\ app' = IF child \in App THEN child ELSE app
          /\ appStack' = IF Remembers(walks[w], Route(w), child)
                           THEN Append(appStack, [key |-> Route(w).key, app |-> app])
                           ELSE appStack
    /\ UNCHANGED <<progVars, pathVars, errorVars, nextOf, endVars>>

-----------------------------------------------------------------------------
\* A handler runs, and does what it does each time it runs. Bound: with all of
\* the path taken by mounts, req.url is not assigned (the rejoin then drops a
\* character, which paths of segments cannot show).
MayDo(h) == IF does[h] = "unknown" THEN May[case.chain # <<>>][h] ELSE {does[h]}

Call(h, did, given) ==
    /\ did \in MayDo(h)
    /\ did = "rewrite" => opPath # <<>>
    /\ does' = [does EXCEPT ![h] = did]
    /\ ran' = Append(ran, [handler |-> h, app |-> app, path |-> Url,
                           error |-> given])
    /\ walks' = Advanced(todo.walk)
    /\ outcome' = IF did = "answer" THEN "answered" ELSE outcome
    /\ assigned' = IF did = "rewrite" THEN RewriteTo ELSE assigned
    /\ UNCHANGED <<case, original, consumed, stack, appVars, nextOf>>

\* What a handler's next() does to walk w. raise: an error in flight, and the
\* layer it came from; its value is the handler that raised it.
Continue(w, h, did) ==
    /\ todo' = CASE did = "answer" -> Idle
                 [] did \in {"route", "router"} -> Step(w, did)
                 [] OTHER -> Step(w, "none")
    /\ IF did \in {"fail", "reject"}
         THEN error' = h /\ errorKey' = Route(w).key
       ELSE IF did = "answer" THEN UNCHANGED errorVars
       ELSE error' = None /\ errorKey' = IF error = None THEN errorKey ELSE -1

RunHandler ==
    /\ AtCallback /\ ~Skipped(todo.walk)
    /\ TheCallback.kind = "plain" /\ Runs(TheCallback)
    /\ \E did \in Outcome :
          /\ Call(TheCallback.name, did, None)
          /\ Continue(todo.walk, TheCallback.name, did)

\* errorHop and _handleError: the next() an error handler is given clears the
\* error and calls req.next, the walk that entered a layer last; a rejected
\* promise is the walk's own.
NextOfTheLast(w) == Len(walks)  \* a bug
NextGiven(w) == nextOf
RunErrorHandler ==
    /\ AtCallback /\ ~Skipped(todo.walk)
    /\ TheCallback.kind = "error" /\ Runs(TheCallback)
    /\ \E did \in Outcome :
          /\ Call(TheCallback.name, did, error)
          /\ Continue(IF did = "reject" THEN todo.walk ELSE NextGiven(todo.walk),
                      TheCallback.name, did)

-----------------------------------------------------------------------------
Next ==
    \/ TakeUrlRewrite \/ DispatchRoute \/ ChainEnds \/ TableEnds
    \/ EnterRoute \/ LeaveRoute \/ LeaveRouter
    \/ StepOver \/ EnterMount
    \/ RunHandler \/ RunErrorHandler

WalkObject == [router : Router, routes : Seq(Layer), skipCheck : BOOLEAN,
         skipUntil : Layer \cup {None}, route : Nat, callback : Nat,
         parent : Nat, mount : Layer \cup {None}, settled : BOOLEAN]

Hop ==
    {Idle} \cup [op : {"dispatch"}, walk : Nat \ {0}, from : Nat \ {0}]
           \cup [op : {"runRoute"}, walk : Nat \ {0}]
           \cup [op : {"step"}, walk : Nat \ {0}, arg : {"none", "route", "router"}]

\* The shape of a request's state.
TypeOK ==
    /\ case \in Case /\ does \in [Handler -> Outcome \cup {"unknown"}]
    /\ walks \in Seq(WalkObject) /\ walks # <<>>
    /\ todo \in Hop /\ (todo # Idle => todo.walk <= Len(walks))
    /\ original \in Path /\ consumed \in Nat /\ stack \in Seq(Nat)
    /\ assigned \in Path \cup {None}
    /\ error \in Handler \cup {None} /\ errorKey \in Nat \cup {-1}
    /\ app \in App /\ appStack \in Seq([key : Nat, app : App])
    /\ nextOf \in 0 .. Len(walks)
    /\ ran \in Seq([handler : Handler, app : App, path : Path,
                    error : Handler \cup {None}])
    /\ outcome \in {"running", "answered", "notFound", "error"}

Spec == Init /\ [][Next]_vars

\* Handlers call next() or answer, and what is queued runs.
FairSpec == Spec /\ WF_vars(Next)

-----------------------------------------------------------------------------
\* Every variable has its type, and what a mount takes of the path is given back:
\* what is consumed is what the entries of _stack add up to, never more than there
\* is, and a request that no handler answered is left with its whole path and the
\* application it came to (runRoute, leaveHop, leaveChain, restoreApp).
PathGivenBack ==
    /\ TypeOK
    /\ consumed = FoldLeft(+, 0, stack) /\ consumed <= Len(original)
    /\ outcome \in {"notFound", "error"} =>
          stack = <<>> /\ consumed = 0 /\ app = Top /\ appStack = <<>>

\* Every request ends: as long as handlers answer or call next(), no hop is
\* lost between walks (nativeDone, enterMount).
RequestEnds == <>(outcome # "running")
=============================================================================
