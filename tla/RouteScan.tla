----------------------------- MODULE RouteScan -----------------------------
(***************************************************************************)
(* A router's own table: createRoute, which normalises a path and freezes   *)
(* the routing flags at the first registration, the index of the literal    *)
(* paths that is rebuilt after one, and the scan for the next layer of a    *)
(* request, next to the loop of express's router over the same layers.      *)
(*                                                                         *)
(* Paths are the token sequences of Patterns, and lower case stands for     *)
(* both where the flags say so. Regular expressions of the application are  *)
(* left out, as are the names of parameters.                                *)
(***************************************************************************)
EXTENDS Integers, Sequences, SequencesExt, FiniteSets

CONSTANTS
    Char,           \* the characters of paths, "/" among them
    Lower,          \* a function on Char: toLowerCase
    MaxRoutes,      \* the layers of the table
    None

VARIABLES
    settings,       \* the flags set on this router itself, or None
    parent,         \* the flags its parent answers, None before it is mounted
    flags,          \* _strictFlag and _caseFlag, None until they are frozen
    routes,         \* _routes
    params,         \* whether it has param() callbacks
    index           \* _literalIndex, or None

vars == <<settings, parent, flags, routes, params, index>>

Flag == {"strict", "case"}
Flags == [Flag -> BOOLEAN]
Percent == "%"

LOCAL P(isPrefix, strict) ==
    INSTANCE Patterns WITH Name <- {"x"}, MaxTokens <- 9, pattern <- <<>>

\* What the constants must be.
RouteScanAssumption ==
    /\ "/" \in Char /\ Percent \in Char
    /\ Lower \in [Char -> Char] /\ Lower["/"] = "/"
    /\ {"GET", "HEAD", "OPTIONS"} \cap {"ALL"} = {}
    /\ MaxRoutes \in Nat

-----------------------------------------------------------------------------
(* The flags                                                               *)

\* _routingFlag: what this router was given, else what its parent answers.
RoutingFlag(f) ==
    IF settings[f] # None THEN settings[f]
    ELSE IF parent # None THEN parent[f] ELSE FALSE

Frozen == IF flags # None THEN flags ELSE [f \in Flag |-> RoutingFlag(f)]

-----------------------------------------------------------------------------
(* The table                                                               *)

IsText(token) == token.t = "text"
IsSlash(token) == IsText(token) /\ token.s = <<"/">>
\* needsConversionToRegex
IsLiteral(path) == \A i \in DOMAIN path : IsText(path[i])
TextOf(path) == FlattenSeq([i \in DOMAIN path |-> path[i].s])

\* Every slash that ends it goes, but for the root's.
LastKept(path) ==
    LET kept == {i \in DOMAIN path : ~IsSlash(path[i])} IN
    IF kept = {} THEN 0 ELSE CHOOSE i \in kept : \A j \in kept : j <= i
Normal(path, use) ==
    IF (use \/ ~Frozen["strict"]) /\ Len(path) > 1 THEN SubSeq(path, 1, LastKept(path)) ELSE path

\* A layer: `literal` when its pattern is a string, `parser` for a body parser alone,
\* `by` the flags it was registered under, which only MatchingIsKept looks at.
Layer(method, path, use, parser) ==
    [method |-> method, path |-> Normal(path, use), use |-> use, parser |-> parser,
     by |-> Frozen, literal |-> ~use /\ IsLiteral(Normal(path, use))]

All(layer) == layer.use \/ layer.method = "ALL"
Gettable(layer) == layer.method \in {"GET", "HEAD"}
Complex(layer) == ~IsLiteral(layer.path)

Fold(text) == [i \in DOMAIN text |-> Lower[text[i]]]
FoldToken(token) == [token EXCEPT !.s = Fold(@)]
Folded(path) == [i \in DOMAIN path |-> FoldToken(path[i])]

\* _pathMatches under given flags, text against text or the compiled pattern.
LiteralMatches(layer, path, by) ==
    LET pattern == IF by["case"] THEN TextOf(layer.path) ELSE Fold(TextOf(layer.path))
        asked == IF by["case"] THEN path ELSE Fold(path)
    IN  \/ pattern = asked
        \/ ~by["strict"] /\ asked = Append(pattern, "/")
Exec(layer, path, by) ==
    IF by["case"] THEN P(layer.use, by["strict"])!Exec(layer.path, path)
    ELSE P(layer.use, by["strict"])!Exec(Folded(layer.path), Fold(path))
Matches(layer, path, by) ==
    IF layer.literal THEN LiteralMatches(layer, path, by)
    ELSE layer.path = <<>> \/ Exec(layer, path, by).end # 0
PathMatches(layer, path) == Matches(layer, path, Frozen)

\* _paramsFailToDecode: a parameter took a percent sign that begins no escape.
ParamsFailToDecode(layer, path) ==
    /\ Complex(layer)
    /\ LET m == Exec(layer, path, Frozen) IN
       \E i \in DOMAIN m.captured : Percent \in ToSet(m.captured[i].text)
-----------------------------------------------------------------------------
(* The scan                                                                *)

\* A request: `body` when a header speaks of one.
Request == [method : {"GET", "HEAD", "POST", "OPTIONS"}, body : BOOLEAN, traced : BOOLEAN]

\* The gates of a layer: its verb, an OPTIONS that counts verbs, a HEAD.
Admits(layer, req) ==
    \/ All(layer)
    \/ layer.method = req.method
    \/ req.method = "OPTIONS"
    \/ req.method = "HEAD" /\ (Gettable(layer) \/ params)

\* stepsOver: a body parser with no body to read.
StepsOver(layer, req) ==
    layer.parser /\ ~req.body /\ req.method # "POST" /\ ~req.traced

\* Whether the scan stops at a layer that matches.
Stops(layer, req, undecodable) ==
    IF Admits(layer, req) THEN ~StepsOver(layer, req) ELSE undecodable

\* buildLiteralIndex: the positions of each literal path, and of everything else.
Key(layer) == IF Frozen["case"] THEN TextOf(layer.path) ELSE Fold(TextOf(layer.path))
BuildLiteralIndex ==
    LET literals == {i \in DOMAIN routes : routes[i].literal} IN
    [map |-> [key \in {Key(routes[i]) : i \in literals} |-> {i \in literals : Key(routes[i]) = key}],
     always |-> DOMAIN routes \ literals]
LiteralIndex == IF index # None THEN index ELSE BuildLiteralIndex

At(map, key) == IF key \in DOMAIN map THEN map[key] ELSE {}
\* A bug: a path with a slash at its end is not looked up without it.
NotSlashed(path) == {}

Slashed(path) ==
    IF ~Frozen["strict"] /\ path[Len(path)] = "/" THEN At(LiteralIndex.map, Front(path)) ELSE {}

\* The layers the index has a request look at, in order.
LookedAt(path) ==
    LET asked == IF Frozen["case"] THEN path ELSE Fold(path) IN
    At(LiteralIndex.map, asked) \cup Slashed(asked) \cup LiteralIndex.always

Smallest(s) == IF s = {} THEN Len(routes) + 1 ELSE CHOOSE i \in s : \A j \in s : i <= j
\* The matching layers among them, and those a parameter of which fails to decode.
Matching(path) == {i \in LookedAt(path) : PathMatches(routes[i], path)}
Undecodable(path) ==
    {i \in DOMAIN routes : Percent \in ToSet(path) /\ ParamsFailToDecode(routes[i], path)}
ScanFrom(matching, undecodable, req, start) ==
    Smallest({i \in matching : i >= start /\ Stops(routes[i], req, i \in undecodable)})

-----------------------------------------------------------------------------
(* express's router: which layer has an effect first                       *)

\* A layer that runs something: a handler of this verb, a param() callback, the
\* verbs an OPTIONS collects, or the error of a parameter.
ExpressMatch(layer, path) ==
    LET text == IF Frozen["case"] THEN path ELSE Fold(path)
        written == IF Frozen["case"] THEN layer.path ELSE Folded(layer.path)
    IN  layer.path = <<>> \/ P(layer.use, Frozen["strict"])!Express(written, text).end # 0
ExpressEffect(layer, req, undecodable) ==
    \/ undecodable
    \/ layer.use /\ (layer.parser => req.body \/ req.method = "POST" \/ req.traced)
    \/ ~layer.use /\ (\/ layer.method \in {"ALL", req.method}
                      \/ req.method = "OPTIONS"
                      \/ req.method = "HEAD" /\ (layer.method = "GET" \/ params))
ExpressFrom(matching, undecodable, req, start) ==
    Smallest({i \in matching : i >= start /\ ExpressEffect(routes[i], req, i \in undecodable)})

\* On one path, for every request and wherever the scan begins.
ScanAsExpress(path) ==
    LET here == Matching(path)
        there == {i \in DOMAIN routes : ExpressMatch(routes[i], path)}
        undecodable == Undecodable(path)
    IN  \A req \in Request, start \in 1 .. Len(routes) :
            ScanFrom(here, undecodable, req, start) = ExpressFrom(there, undecodable, req, start)

\* A layer matches what it did when it was registered.
MatchesAsRegistered(path) ==
    \A i \in DOMAIN routes : Matches(routes[i], path, routes[i].by) = PathMatches(routes[i], path)
-----------------------------------------------------------------------------
TypeOK ==
    /\ settings \in [Flag -> BOOLEAN \cup {None}]
    /\ parent \in Flags \cup {None} /\ flags \in Flags \cup {None}
    /\ Len(routes) <= MaxRoutes
    /\ params \in BOOLEAN
    /\ index # None => index.always \subseteq DOMAIN routes

Init ==
    /\ settings = [f \in Flag |-> None]
    /\ parent = None
    /\ flags = None
    /\ routes = <<>>
    /\ params = FALSE
    /\ index = None

\* app.set("strict routing") or router.caseSensitive = ...
Set(f, value) ==
    /\ settings' = [settings EXCEPT ![f] = value]
    /\ UNCHANGED <<parent, flags, routes, params, index>>

\* use(): the router is mounted on another, or the parent's settings change.
Mount(to) ==
    /\ parent' = to
    /\ UNCHANGED <<settings, flags, routes, params, index>>

\* createRoute, for a verb, for all() and for use().
CreateRoute(method, path, use, parser) ==
    /\ Len(routes) < MaxRoutes
    /\ flags' = Frozen
    /\ routes' = Append(routes, Layer(method, path, use, parser))
    /\ index' = None
    /\ UNCHANGED <<settings, parent, params>>

\* param(): the map is shared by every layer, those written before too.
Param ==
    /\ params' = TRUE
    /\ UNCHANGED <<settings, parent, flags, routes, index>>

\* A request reaches the table: _freezeRoutingFlags, and the index is built.
Scan ==
    /\ flags' = Frozen
    /\ index' = LiteralIndex
    /\ UNCHANGED <<settings, parent, routes, params>>
=============================================================================
