------------------------------ MODULE UwsRoutes ------------------------------
(***************************************************************************)
(* The routes of app.uws() next to the Express ones (src/uws-route.js):     *)
(* collected with their mounts at listen, handed to uWS behind the catch-   *)
(* all, and an Express route one of them could meet kept off uWS's table.   *)
(* uWS calls the most specific pattern it has, whoever registered first.    *)
(*                                                                         *)
(* A path is its segments, "" an empty one; ":" is a parameter and "*" the  *)
(* rest of the path.                                                        *)
(***************************************************************************)
EXTENDS Integers, Sequences, FiniteSets, SequencesExt

CONSTANTS
    Router,         \* of them App
    App,
    UwsPath, ExpressPath, MountPath,
    Path,           \* the paths of requests
    MaxRoutes, MaxMounts,
    None            \* a mount uWS cannot match

VARIABLES
    uwsRoutes,      \* of every router, in the order written
    express,        \* of every router, and whether it is strict
    mounts,         \* [from, path, to]
    table,          \* what uWS was handed, in order
    state           \* "writing", "listening" or "threw"

vars == <<uwsRoutes, express, mounts, table, state>>

\* What the constants must be.
UwsRoutesAssumption == App \in Router /\ None \notin Router

Methods == {"GET", "HEAD", "POST"}
UwsMethods == Methods \cup {"ANY"}
ExpressMethods == {"GET", "POST", "ALL"}

Chars(segment) == IF segment = ":" THEN <<":", "x">> ELSE IF segment = "" THEN <<>> ELSE <<segment>>
Raw(path) == FlattenSeq([i \in DOMAIN path |-> <<"/">> \o Chars(path[i])])
P == INSTANCE Patterns WITH Char <- {"/"}, Name <- {}, MaxTokens <- 1,
                            pattern <- None, isPrefix <- FALSE, strict <- FALSE

Root == <<"">>
\* joinPaths.
JoinPaths(prefix, path) ==
    IF prefix \in {<<>>, Root} THEN path ELSE IF path \in {<<>>, Root} THEN prefix ELSE prefix \o path

\* What is written in the lists of the routers reachable from this one, a router
\* in its own tree left alone; None under a mount uWS cannot match.
RECURSIVE Collected(_, _, _)
Collected(router, prefix, inside) ==
    IF router \in inside THEN {}
    ELSE {[method |-> r.method, path |-> IF prefix = <<None>> THEN prefix ELSE JoinPaths(prefix, r.path)] :
              r \in ToSet(uwsRoutes[router])}
         \cup UNION {Collected(m.to, IF prefix = <<None>> \/ m.path = <<None>> THEN <<None>>
                                     ELSE JoinPaths(prefix, m.path),
                               inside \cup {router}) : m \in {n \in mounts : n.from = router}}
UwsRouteSet == Collected(App, <<>>, {})

\* methodsMeet.
MethodsMeet(uwsMethod, method) ==
    \/ uwsMethod = "ANY" \/ method = "ALL" \/ uwsMethod = method
    \/ uwsMethod = "HEAD" /\ method = "GET"

Twin(path, strict) == IF ~strict /\ Last(path) # "" THEN {path, Append(path, "")} ELSE {path}

\* uwsRouteTakes.
UwsRouteTakes(routes, method, path, strict) ==
    \E u \in routes :
        /\ MethodsMeet(u.method, method)
        /\ \E p \in Twin(path, strict) : P!PathsCanOverlap(Raw(u.path), Raw(p), FALSE)

-----------------------------------------------------------------------------
\* Every route reachable over literal mounts is handed to uWS, under a HEAD of its
\* own for a GET and a twin with a slash where it is not strict.
IsLiteral(path) == {":", "*", None} \cap ToSet(path) = {}
Under(prefix, path) == IF path = Root THEN prefix \o Root ELSE prefix \o path
RECURSIVE Reachable(_, _, _)
Reachable(router, prefix, inside) ==
    IF router \in inside THEN {}
    ELSE {[method |-> r.method, path |-> Under(prefix, r.path), strict |-> r.strict] :
              r \in ToSet(express[router])}
         \cup UNION {Reachable(m.to, prefix \o m.path, inside \cup {router}) :
                        m \in {n \in mounts : n.from = router /\ IsLiteral(n.path)}}

Row(kind, method, path) == [kind |-> kind, method |-> method, path |-> path]
Native(routes) ==
    UNION {LET methods == CASE r.method = "GET" -> {"GET", "HEAD"}
                            [] r.method = "ALL" -> {"ANY"}
                            [] OTHER -> {r.method}
           IN  {Row("native", m, p) : m \in methods, p \in Twin(r.path, r.strict)} :
           r \in {r \in Reachable(App, <<>>, {}) : ~UwsRouteTakes(routes, r.method, r.path, r.strict)}}

CatchAll == Row("all", "ANY", <<"*">>)
Rows(routes) == SetToSeq({Row("uws", r.method, r.path) : r \in routes})

\* A bug: the raw routes are handed over before the catch-all.
ListenCatchAllLast ==
    /\ state = "writing"
    /\ state' = "listening"
    /\ table' = SetToSeq(Native(UwsRouteSet)) \o Append(Rows(UwsRouteSet), CatchAll)
    /\ UNCHANGED <<uwsRoutes, express, mounts>>

\* listen(): throws for a route under a mount uWS cannot match, since nothing
\* would fall back to it.
Listen ==
    /\ state = "writing"
    /\ IF \E r \in UwsRouteSet : r.path = <<None>>
       THEN state' = "threw" /\ UNCHANGED table
       ELSE /\ state' = "listening"
            /\ table' = SetToSeq(Native(UwsRouteSet)) \o <<CatchAll>> \o Rows(UwsRouteSet)
    /\ UNCHANGED <<uwsRoutes, express, mounts>>

-----------------------------------------------------------------------------
Sizes(lists) == FoldLeft(LAMBDA n, r : n + Len(lists[r]), 0, SetToSeq(Router))

TypeOK ==
    /\ \A r \in Router :
          /\ uwsRoutes[r] \in Seq([method : UwsMethods, path : UwsPath])
          /\ express[r] \in Seq([method : ExpressMethods, path : ExpressPath, strict : BOOLEAN])
    /\ mounts \subseteq [from : Router, path : MountPath, to : Router]
    /\ state \in {"writing", "listening", "threw"}

Init ==
    /\ uwsRoutes = [r \in Router |-> <<>>] /\ express = [r \in Router |-> <<>>]
    /\ mounts = {} /\ table = <<>> /\ state = "writing"

\* app.uws(): once listening the application's go straight to uWS.
AddUws ==
    /\ state # "threw" /\ Sizes(uwsRoutes) < MaxRoutes
    /\ \E router \in Router, method \in UwsMethods, path \in UwsPath :
          /\ uwsRoutes' = [uwsRoutes EXCEPT ![router] = Append(@, [method |-> method, path |-> path])]
          /\ table' = IF state = "listening" /\ router = App
                      THEN Append(table, Row("late", method, path)) ELSE table
    /\ UNCHANGED <<express, mounts, state>>

\* app.get() and the rest; app.uwsLite() writes one too, on its own path.
AddExpress ==
    /\ state = "writing" /\ Sizes(express) < MaxRoutes
    /\ \E router \in Router, method \in ExpressMethods, path \in ExpressPath, strict \in BOOLEAN :
          express' = [express EXCEPT ![router] =
                        Append(@, [method |-> method, path |-> path, strict |-> strict])]
    /\ UNCHANGED <<uwsRoutes, mounts, table, state>>

Mount ==
    /\ state = "writing" /\ Cardinality(mounts) < MaxMounts
    /\ \E from, to \in Router, path \in MountPath :
          mounts' = mounts \cup {[from |-> from, path |-> path, to |-> to]}
    /\ UNCHANGED <<uwsRoutes, express, table, state>>

Next == Listen \/ AddUws \/ AddExpress \/ Mount
Spec == Init /\ [][Next]_vars

-----------------------------------------------------------------------------
(* uWS's router: the tree of the method first, then the one of any.        *)
SegmentMatches(pattern, path, i) ==
    CASE pattern[i] = ":" -> path[i] # ""
      [] pattern[i] = "*" -> TRUE
      [] OTHER -> pattern[i] = path[i]
PatternMatches(pattern, path) ==
    /\ IF Last(pattern) = "*" THEN Len(path) >= Len(pattern) ELSE Len(path) = Len(pattern)
    /\ \A i \in DOMAIN pattern : SegmentMatches(pattern, path, i)

Kind(segment) == IF segment = ":" THEN 1 ELSE IF segment = "*" THEN 2 ELSE 0
MoreSpecific(a, b) ==
    \E i \in DOMAIN a \cap DOMAIN b :
        /\ Kind(a[i]) < Kind(b[i])
        /\ \A j \in 1 .. i - 1 : Kind(a[j]) = Kind(b[j])
Beats(i, j) ==
    LET a == table[i].path
        b == table[j].path
    IN  MoreSpecific(a, b) \/ (~MoreSpecific(b, a) /\ i > j)

Candidates(method, path) ==
    {i \in DOMAIN table : table[i].method = method /\ PatternMatches(table[i].path, path)}
Called(method, path) ==
    LET own == Candidates(method, path)
        all == IF own # {} THEN own ELSE Candidates("ANY", path)
    IN  CHOOSE i \in all : \A j \in all : i = j \/ Beats(i, j)

-----------------------------------------------------------------------------
\* A raw route answers every request its pattern takes, wherever it was written
\* (docs/uws-routes.md "Which route answers").
RawAnswers ==
    state = "listening" =>
        \A method \in Methods, path \in Path :
            (\E i \in DOMAIN table :
                /\ table[i].kind = "uws" /\ table[i].method \in {method, "ANY"}
                /\ PatternMatches(table[i].path, path))
            => table[Called(method, path)].kind \in {"uws", "late"}
=============================================================================
