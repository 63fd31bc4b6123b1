------------------------------- MODULE MCWalk -------------------------------
(***************************************************************************)
(* A program of registrations served: its tables, what listen compiles of  *)
(* them, and the walk of a request that enters by the ordinary path or on  *)
(* the chain uWS gives it, with what both owe to the order Express runs in. *)
(*                                                                         *)
(* The programs: an application with middleware, routes, an error handler  *)
(* and a sub-application mounted at /a, whose own routes are written       *)
(* before it is mounted, in every order.                                   *)
(***************************************************************************)
EXTENDS Walk, TLC

Express == INSTANCE ExpressOrder
             WITH ExpressTop <- Top, ExpressApps <- App,
                  ExpressRewrite <- RewriteTo, Nothing <- None

\* A program: the registrations of all the routers of a process, in order.
Entry(program, i) ==
    [key |-> i, use |-> program[i].use, path |-> program[i].path,
     method |-> program[i].method, callbacks |-> program[i].callbacks,
     keepMount |-> FALSE, mountApp |-> None]
RoutesOf(program) ==
    LET entries == [i \in 1 .. Len(program) |-> i]
    IN [r \in Router |->
          LET own == SelectSeq(entries, LAMBDA i : program[i].router = r)
          IN [j \in 1 .. Len(own) |-> Entry(program, own[j])]]

\* A program that listens, and a request for a path served by it: on the ordinary
\* walk, or on the chain uWS has for the path, if it has one.
Listening(program) ==
    [routes |-> RoutesOf(program), given |-> CompileOptimizedRoutes(RoutesOf(program))]
Served(server, path, native) ==
    [routes |-> server.routes, path |-> path,
     chain |-> IF native THEN UwsRoutes(server.given, path) ELSE <<>>]

\* The order of handlers: whichever way a request enters, the handlers that ran
\* are those Express runs for what each of them did, each with the req.app, the
\* req.path and the error Express gives it, and the request ends as it ends
\* there (walk.js, and optimizer.js for the chains).
AsExpress ==
    LET run == Express!ExpressRun(case.routes, case.path, does)
    IN /\ IsPrefix(ran, run.ran)
       /\ outcome # "running" =>
            ran = run.ran /\ outcome = Express!ExpressOutcome(run)

-----------------------------------------------------------------------------
Rewritten == <<"b">>
Handlers == {"m", "e", "g", "q", "all", "u", "ue", "sm", "sg", "sge", "sq", "se", "k"}
Plain(h) == [kind |-> "plain", name |-> h]
OnError(h) == [kind |-> "error", name |-> h]
Mount(r) == [kind |-> "router", name |-> r]

Use(r, path, callbacks) == [router |-> r, use |-> TRUE, path |-> path,
                            method |-> "ALL", callbacks |-> callbacks]
Get(r, path, callbacks) == [router |-> r, use |-> FALSE, path |-> path,
                            method |-> "GET", callbacks |-> callbacks]

\* The application's registrations, and the sub-application's.
TopEntries == {
    Use("top", <<>>, <<Plain("m")>>),
    Use("top", <<>>, <<OnError("e")>>),
    Use("top", <<>>, <<Mount("nested")>>),
    Use("top", <<"a">>, <<Plain("u"), OnError("ue")>>),
    Get("top", <<"a", "b">>, <<Plain("g")>>),
    [Get("top", <<Param>>, <<Plain("all")>>) EXCEPT !.method = "ALL"],
    Get("top", <<Param>>, <<Plain("q")>>)}
MountSub == Use("top", <<"a">>, <<Mount("sub")>>)
SubEntries == {
    Use("sub", <<>>, <<Plain("sm")>>),
    Get("sub", <<"b">>, <<Plain("sg"), OnError("sge")>>),
    Get("sub", <<Param>>, <<Plain("sq")>>),
    Use("sub", <<>>, <<OnError("se")>>),
    Use("sub", <<"b">>, <<Mount("nested")>>)}
NestedEntries == <<Use("nested", <<>>, <<Plain("k")>>)>>

Orders(entries, n) ==
    UNION {SetToSeqs(s) : s \in {t \in SUBSET entries : Cardinality(t) <= n}}

\* The sub-application is filled first of all, or just before it is mounted.
Filled(sub, top, first) ==
    LET at == IF first THEN 1 ELSE CHOOSE i \in 1 .. Len(top) : top[i] = MountSub
    IN SubSeq(top, 1, at - 1) \o sub \o SubSeq(top, at, Len(top))
SubOrders == {NestedEntries \o s : s \in Orders(SubEntries, 2) \ {<<>>}}
TopOrders == {t \in Orders(TopEntries \cup {MountSub}, 3) : MountSub \in Range(t)}
MCPrograms ==
    {Filled(s, t, first) : s \in SubOrders, t \in TopOrders, first \in BOOLEAN}

\* What a handler may do. On a chain the middleware neither assigns req.url nor
\* leaves the router it is in.
MCMay == [native \in BOOLEAN |-> [h \in Handlers |->
    CASE h = "m"  -> {"next", "fail"} \cup IF native THEN {} ELSE {"rewrite", "router"}
      [] h = "sm" -> {"next", "route", "router"} \cup IF native THEN {} ELSE {"rewrite"}
      [] h = "g"  -> {"next", "fail", "rewrite"}
      [] h = "sq" -> {"answer", "next", "fail"}
      [] h = "sg" -> {"next", "route", "reject"}
      [] h \in {"q", "all"} -> {"answer", "next"}
      [] h \in {"e", "se"} -> {"next", "reject"}
      [] h = "ue" -> {"answer", "next"}
      [] OTHER -> {"next", "fail"}]]

MCPaths == {<<"a">>, <<"a", "b">>}
MCCases ==
    LET servers == {Listening(p) : p \in MCPrograms}
    IN {Served(s, path, native) : s \in servers, path \in MCPaths, native \in BOOLEAN}

\* Middleware that assigns req.url, in front of two routes.
Assigns == [native \in BOOLEAN |->
    [h \in Handlers |-> IF h = "m" THEN {"rewrite"} ELSE {"answer"}]]
RewriteCases ==
    {Served(Listening(<<Use("top", <<>>, <<Plain("m")>>),
                        Get("top", <<"a">>, <<Plain("g")>>),
                        Get("top", <<"b">>, <<Plain("q")>>)>>), <<"a">>, TRUE)}
=============================================================================
