----------------------------- MODULE MCMatching -----------------------------
(***************************************************************************)
(* Routing seen from the table: the patterns (Patterns), the scan of a      *)
(* router's layers (RouteScan), what a layer is given (Params), a route     *)
(* driven by hand (StandaloneRoute), the end of a request nobody answered   *)
(* (RequestEnd) and what a tracer is told of it (Tracing). A behaviour is   *)
(* of one part, the others rest.                                            *)
(***************************************************************************)
EXTENDS Integers, Sequences, FiniteSets

CONSTANTS None, Bad, MaxTokens, PathLength, MaxRoutes, MaxVisits, MaxStack, Explored

VARIABLES
    part,
    pattern, isPrefix, strict,
    settings, parent, flags, routes, withParams, index,
    pc, inside, params, paramStack, called, layer, job, error, starts, visits,
    stack, method, at, sync, standing, err, depth, ran, done,
    isOptions, walk, task, thrown, failed, matched, response, reply,
    program, raised, calls, handsBack, passed, promise, given, seen, events

patternVars == <<pattern, isPrefix, strict>>
scanVars == <<settings, parent, flags, routes, withParams, index>>
paramsVars == <<pc, inside, params, paramStack, called, layer, job, error, starts, visits>>
routeVars == <<stack, method, at, sync, standing, err, depth, ran, done>>
endVars == <<isOptions, walk, task, thrown, failed, matched, response, reply>>
traceVars == <<program, raised, calls, handsBack, passed, promise, given, seen, events>>
vars == <<part, patternVars, scanVars, paramsVars, routeVars, endVars, traceVars>>

Char == {"/", "a", "."}
Lower == [c \in {"/", "a", "A", "%"} |-> IF c = "A" THEN "a" ELSE c]
Names == {"x", "y", "z", "w", "v", "u"}

Pattern == INSTANCE Patterns WITH Name <- Names
Scanning == INSTANCE RouteScan WITH
    Char <- {"/", "a", "A", "%"}, params <- withParams

Capture(names, value, numbered) == [named |-> [n \in names |-> value], numbered |-> numbered]
Captures ==
    {Capture({}, "1", <<>>), Capture({"id"}, "1", <<>>), Capture({"id"}, "2", <<>>),
     Capture({"of"}, "1", <<"1">>)}
MCCallbacks ==
    [r \in {"app", "merging", "inner", "plain"} |->
        [n \in {"id", "of"} |-> IF n = "of" THEN 0 ELSE IF r = "merging" THEN 2 ELSE 1]]
Asked == INSTANCE Params WITH
    Name <- {"id", "of"}, Value <- {"1", "2"},
    Routers <- {"app", "merging", "inner", "plain"}, Merges <- {"merging", "inner"},
    Callbacks <- MCCallbacks
Alone == INSTANCE StandaloneRoute WITH
    Methods <- {"all", "get", "head"}, SyncLimit <- 2, index <- at, pc <- standing
End == INSTANCE RequestEnd WITH
    Verb <- {"GET", "POST"}, Status <- {200, 204, 400, 416}, MaxDepth <- 3, error <- failed

\* Two layers, or three of which some are a mounted router's.
MCKinds == {"handler", "undecodable", "error"}
Mounting(p, i, j) ==
    SubSeq(p, 1, i) \o <<"mount">> \o SubSeq(p, i + 1, j) \o <<"back">> \o SubSeq(p, j + 1, Len(p))
MCPrograms ==
    UNION {[1 .. n -> MCKinds] : n \in 1 .. 2}
        \cup {Mounting(p, i, j) : p \in [1 .. 3 -> MCKinds], i \in 0 .. 1, j \in 2 .. 3}
Traced == INSTANCE Tracing WITH Programs <- MCPrograms, error <- raised, stack <- calls

ASSUME MatchingAssumption ==
    /\ Pattern!PatternsAssumption /\ Scanning!RouteScanAssumption /\ Asked!ParamsAssumption
    /\ Alone!StandaloneRouteAssumption /\ End!RequestEndAssumption
    /\ Traced!TracingAssumption

\* The name a new parameter is given.
NextName ==
    <<"x", "y", "z", "w", "v", "u">>[1 + Cardinality(
        {i \in DOMAIN Pattern!Raw(pattern) : Pattern!Raw(pattern)[i] \in {":", "*"}})]
Tokens ==
    LET n == NextName IN
    {Pattern!Text(c) : c \in Char}
    \cup {Pattern!Param(n), Pattern!Splat(n), Pattern!OptionalSplat(n),
          Pattern!Group(<<Pattern!Text("/"), Pattern!Text("a")>>),
          Pattern!Group(<<Pattern!Text("."), Pattern!Param(n)>>),
          Pattern!Group(<<Pattern!Text("/"), Pattern!Param(n)>>)}
Paths == {<<"/">> \o p : p \in UNION {[1 .. k -> Char] : k \in 0 .. PathLength}}

PatternNext ==
    \E token \in Tokens : Pattern!Write(token) /\ ~Pattern!IsOptional(pattern[Len(pattern)])

\* The paths written and asked for: literals of either case, with and without the
\* slash, and one parameter.
Slash == Pattern!Text("/")
Small == Pattern!Text("a")
Large == Pattern!Text("A")
RoutePaths == {<<Slash, Small>>, <<Slash, Large, Slash>>, <<Slash, Pattern!Param("x")>>, <<Slash>>}
MountPaths == {<<>>, <<Slash, Small>>}
AskedPaths ==
    {<<"/">>, <<"/", "a">>, <<"/", "A">>, <<"/", "a", "/">>, <<"/", "A", "/", "/">>, <<"/", "%">>}
ScanNext ==
    \/ \E f \in {"strict", "case"} : index = None /\ settings[f] = None /\ Scanning!Set(f, TRUE)
    \/ index = None /\ parent = None /\ Scanning!Mount([strict |-> TRUE, case |-> TRUE])
    \/ \E m \in {"ALL", "GET", "POST"}, p \in RoutePaths :
          /\ m = "POST" => p = <<Slash, Pattern!Param("x")>>
          /\ m = "ALL" => p = <<Slash, Small>>
          /\ Scanning!CreateRoute(m, p, FALSE, FALSE)
    \/ \E p \in MountPaths, parser \in BOOLEAN :
          (parser => p = <<>>) /\ Scanning!CreateRoute("ALL", p, TRUE, parser)
    \/ ~withParams /\ index = None /\ Scanning!Param
    \/ Scanning!Scan

ParamsNext ==
    \/ \E c \in Captures, use, counted \in BOOLEAN :
          (use => ~counted) /\ Asked!Visit(c, use, counted)
    \/ Asked!Undecodable
    \/ Asked!NextParam
    \/ \E e \in {None, "route", "error"}, v \in {"1", "2"} : Asked!Callback(e, v)
    \/ Asked!NextLayer
    \/ \E r \in {"merging", "inner", "plain"} : Asked!EnterMount(r)
    \/ Asked!LeaveMount
    \/ Asked!Handled

RouteNext ==
    \/ \E m \in {"all", "get", "head"}, e \in BOOLEAN : Alone!Add(m, e)
    \/ \E m \in {"get", "head"} : Alone!Dispatch(m)
    \/ Alone!Step
    \/ \E s \in {None, "route", "router", "fault"} : Alone!Calls(s)
    \/ Alone!Returns
    \/ \E s \in {None, "route", "fault"} : Alone!CallsLate(s)
    \/ Alone!Immediate

SomeErrors == {[status |-> None, headers |-> TRUE], [status |-> 416, headers |-> TRUE],
               [status |-> 200, headers |-> FALSE]}
EndNext ==
    \/ \E v \in {"GET", "POST"} : End!Count(v)
    \/ \E e \in SomeErrors : End!Raise(e) \/ End!Rejected(e)
    \/ End!Handled
    \/ End!Enter
    \/ End!HandBack
    \/ End!Unmatched
    \/ End!Epilogue
    \/ \E s \in {204, 400}, stale \in BOOLEAN : End!Prepare(s, stale)
    \/ \E ends \in BOOLEAN : End!Write(ends)
    \/ End!Abort

Init ==
    /\ part \in Explored
    /\ Pattern!Init /\ Scanning!Init /\ Asked!Init /\ Alone!Init /\ End!Init
    /\ part # "pattern" => ~isPrefix /\ ~strict
    /\ part # "end" => ~isOptions
    /\ Traced!Init /\ (part # "trace" => program = <<"handler">>)

Next ==
    \/ part = "pattern" /\ PatternNext /\ UNCHANGED <<part, scanVars, paramsVars, routeVars, endVars, traceVars>>
    \/ part = "scan" /\ ScanNext /\ UNCHANGED <<part, patternVars, paramsVars, routeVars, endVars, traceVars>>
    \/ part = "params" /\ ParamsNext /\ UNCHANGED <<part, patternVars, scanVars, routeVars, endVars, traceVars>>
    \/ part = "route" /\ RouteNext /\ UNCHANGED <<part, patternVars, scanVars, paramsVars, endVars, traceVars>>
    \/ part = "end" /\ EndNext /\ UNCHANGED <<part, patternVars, scanVars, paramsVars, routeVars, traceVars>>
    \/ part = "trace" /\ Traced!Next
       /\ UNCHANGED <<part, patternVars, scanVars, paramsVars, routeVars, endVars>>

Spec == Init /\ [][Next]_vars /\ WF_endVars(part = "end" /\ End!Epilogue /\ UNCHANGED <<part, patternVars, scanVars, paramsVars, routeVars, traceVars>>)
-----------------------------------------------------------------------------
\* Every path is matched by a pattern, and read into the same parameters, as
\* express's path-to-regexp does (utils.js patternToRegex).
PatternsAsExpress ==
    part = "pattern" => Pattern!TypeOK /\ \A path \in Paths : Pattern!AsExpress(path)

\* Two patterns that match one path are never told apart (utils.js pathsCanOverlap).
Segments == {Pattern!Text("a"), Pattern!Text("."), Pattern!Param("x")}
Leaves ==
    {<<Slash>>} \cup {<<Slash, s>> : s \in Segments} \cup {<<Slash, s, Slash, r>> : s, r \in Segments}
    \cup {<<Slash, s, Slash, r, Slash, Small>> : s, r \in Segments}
OverlapIsSeen == part = "pattern" => \A leaf \in Leaves, path \in Paths : Pattern!Seen(leaf, path)
OverlapIsSeenWhateverItIs ==
    part = "pattern" => \A leaf \in Leaves, path \in Paths : Pattern!SeenWhatever(leaf, path)

\* The layer a request is given through the index is the one express's loop would
\* give something to do, wherever the scan resumes, and what a layer matches never
\* changes, whatever is set or mounted after (router.js _scanFrom,
\* _freezeRoutingFlags).
IndexAsLoop ==
    part = "scan" =>
        /\ Scanning!TypeOK
        /\ \A path \in AskedPaths :
              /\ index # None => Scanning!ScanAsExpress(path)
              /\ Scanning!MatchesAsRegistered(path)

\* A handler is given the parameters of its own layer and of the mounts it merges,
\* and a parameter's callbacks run once for a value, with their verdict kept for
\* the layers after (router.js _preprocessRequest).
ParamsAreThoseOfTheMounts ==
    part = "params" =>
        Asked!TypeOK /\ Asked!ParamsAreThoseOfTheMounts /\ Asked!OncePerValue /\ Asked!VerdictKept
ParamsAsExpress == part = "params" => Asked!ParamsAsExpress

\* The handlers of a hand-built route run in turn, each once (route.js); what the
\* router answers of its own is complete, and a walk that settled is answered for
\* (router.js, router-utils.js nativeDone).
RouterAnswers ==
    /\ [](part = "route" => Alone!TypeOK /\ Alone!HandlersInTurn)
    /\ [](part = "end" => End!TypeOK)
    /\ End!RouterAnswers
    /\ part = "end" => End!SettledEnds

\* Every layer a request goes through has one span, around those of the layers it
\* called, and every error is told once, by the layer that raised it (tracing.js).
TracedAsRun == part = "trace" => Traced!TracedAsRun
=============================================================================
