---------------------------- MODULE ExpressOrder ----------------------------
(***************************************************************************)
(* What Express promises of one request: its handlers run in the order they *)
(* were written, through the routers mounted on the way, as a recursive    *)
(* definition that knows no walks, chains or keys. It is the reference the *)
(* walk is compared with, and shares no definition with it.                *)
(*                                                                         *)
(* Each callback of a use() is a layer of its own, a route is one layer    *)
(* with a stack inside, a layer is matched against req.url as it is, and a *)
(* mount gives its piece of the path back on the way out.                  *)
(***************************************************************************)
EXTENDS Sequences, Integers, SequencesExt

CONSTANTS ExpressTop,       \* the application that listens
          ExpressApps,      \* the routers that are applications
          ExpressRewrite,   \* what an assignment to req.url assigns
          Nothing

\* Where a request stands: the handlers run, req.url, req.app, the error in
\* flight, and how the last next() or its absence left things.
Start(path) == [ran |-> <<>>, url |-> path, app |-> ExpressTop,
                error |-> Nothing, hop |-> "next"]
Stopped(st) == st.hop \in {"answer", "unknown"}

LayersOf(entry) ==
    IF entry.use
      THEN [i \in 1 .. Len(entry.callbacks) |->
              [use |-> TRUE, path |-> entry.path, method |-> "ALL",
               stack |-> <<entry.callbacks[i]>>]]
      ELSE <<[use |-> FALSE, path |-> entry.path, method |-> entry.method,
              stack |-> entry.callbacks]>>
Layers(table) == FlattenSeq([i \in 1 .. Len(table) |-> LayersOf(table[i])])

Matches(layer, url) ==
    /\ layer.method \in {"ALL", "GET"}
    /\ Len(layer.path) <= Len(url) /\ (layer.use \/ Len(layer.path) = Len(url))
    /\ \A i \in 1 .. Len(layer.path) : layer.path[i] = ":" \/ layer.path[i] = url[i]

\* A handler runs, unless it is not the kind for what is in flight. What it has
\* not been seen to do yet ends the prediction with its call.
Handle(callback, st, does) ==
    LET did == does[callback.name]
        called == [st EXCEPT !.ran = Append(@,
                      [handler |-> callback.name, app |-> st.app, path |-> st.url,
                       error |-> st.error])]
    IN IF (callback.kind = "error") # (st.error # Nothing) THEN st
       ELSE IF did \in {"unknown", "answer"} THEN [called EXCEPT !.hop = did]
       ELSE IF did \in {"fail", "reject"} THEN [called EXCEPT !.error = callback.name]
       ELSE [called EXCEPT !.error = Nothing,
                           !.url = IF did = "rewrite" THEN ExpressRewrite ELSE @,
                           !.hop = IF did \in {"route", "router"} THEN did ELSE "next"]

RECURSIVE InRoute(_, _, _)
InRoute(stack, st, does) ==
    IF stack = <<>> \/ st.hop # "next" THEN st
    ELSE InRoute(Tail(stack), Handle(Head(stack), st, does), does)

RECURSIVE InRouter(_, _, _, _)
InRouter(routes, layers, st, does) ==
    IF layers = <<>> \/ Stopped(st) THEN st
    ELSE
    LET layer == Head(layers)
        taken == Len(layer.path)
        first == layer.stack[1]
        inside == [st EXCEPT !.url = SubSeq(@, taken + 1, Len(@))]
        mounted == InRouter(routes, Layers(routes[first.name]),
                     IF first.name \in ExpressApps
                       THEN [inside EXCEPT !.app = first.name] ELSE inside, does)
        \* out of a mount: req.url whole again, and an application takes req.app back
        Out(after, app) ==
            IF Stopped(after) THEN after
            ELSE [after EXCEPT !.url = SubSeq(st.url, 1, taken) \o @, !.app = app]
        after ==
            IF ~Matches(layer, st.url) THEN st
            ELSE IF ~layer.use
              THEN IF st.error # Nothing THEN st ELSE InRoute(layer.stack, st, does)
            ELSE IF first.kind # "router" THEN Out(Handle(first, inside, does), st.app)
            ELSE IF st.error # Nothing THEN st
            ELSE Out(mounted, IF first.name \in ExpressApps THEN st.app ELSE mounted.app)
    IN IF after.hop = "router" THEN [after EXCEPT !.hop = "next"]
       ELSE IF Stopped(after) THEN after
       ELSE InRouter(routes, Tail(layers), [after EXCEPT !.hop = "next"], does)

ExpressRun(routes, path, does) ==
    InRouter(routes, Layers(routes[ExpressTop]), Start(path), does)

ExpressOutcome(st) ==
    CASE st.hop = "answer" -> "answered"
      [] st.hop = "unknown" -> "running"
      [] st.error # Nothing -> "error"
      [] OTHER -> "notFound"
=============================================================================
