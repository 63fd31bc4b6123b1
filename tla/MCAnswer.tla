------------------------------ MODULE MCAnswer ------------------------------
(***************************************************************************)
(* How a request is answered: by a response and the calls of a program on   *)
(* it (Answer), and without a Response of its own: by a handler compiled    *)
(* where it is registered (Declarative), a light route (LiteRoute), a raw   *)
(* one with the utilities (UwsHandler), and the table uWS is handed with    *)
(* the raw routes in it (UwsRoutes). A behaviour is of one part, the others *)
(* rest.                                                                    *)
(***************************************************************************)
EXTENDS Answer, LiteRoute, Integers

CONSTANTS None, Explored, MaxRoutes, MaxMounts

VARIABLES
    part,
    settings, calls,
    handler, coming, whole, read,
    uwsRoutes, express, mounts, table, state

compiledVars == <<settings, calls>>
handlerVars == <<handler, coming, whole, read>>
routesVars == <<uwsRoutes, express, mounts, table, state>>
allVars == <<part, resVars, compiledVars, answerVars, liteVars, handlerVars, routesVars>>

MCPlain == [method |-> "GET", close |-> FALSE, shim |-> FALSE, validator |-> "tag",
            accepts |-> "text", etags |-> TRUE, connectionHeaders |-> TRUE]
MCRequests ==
    {MCPlain, [MCPlain EXCEPT !.method = "POST"], [MCPlain EXCEPT !.close = TRUE],
     [MCPlain EXCEPT !.shim = TRUE, !.accepts = "html"],
     [MCPlain EXCEPT !.etags = FALSE, !.accepts = "other"],
     [MCPlain EXCEPT !.validator = "none", !.connectionHeaders = FALSE]}
MCTypes == {<<"text", "none">>, <<"json", "latin1">>, <<"unknown", "none">>}

MCUses == {<<>>, <<"plain", "error">>}
MCBodies == {<<1>>, <<0>>, <<1, 1>>, <<2, 1>>, <<1, 1, 1>>, <<3>>}

Segments == {"a", "b", ""}
MCPaths ==
    {<<x>> : x \in Segments} \cup {<<x, y>> : x, y \in Segments}
    \cup {<<"a", y, z>> : y \in Segments, z \in {"b", ""}}

Compiled == INSTANCE Declarative WITH handler <- calls
Utils == INSTANCE UwsHandler WITH Bodies <- MCBodies, Limits <- {2}
Raw == INSTANCE UwsRoutes WITH
    Router <- {"app", "sub"}, App <- "app", None <- "none",
    UwsPath <- {<<"a", ":">>, <<"a", "*">>, <<"*">>, <<"">>, <<":", "b">>},
    ExpressPath <- {<<"a", "b">>, <<":">>, <<"">>, <<":", ":">>, <<"b">>},
    MountPath <- {<<"a">>, <<":">>, <<"none">>}, Path <- MCPaths

ASSUME LightAssumption ==
    /\ Compiled!DeclarativeAssumption /\ Raw!UwsRoutesAssumption
    /\ MCUses \subseteq Seq(STRING) /\ MCBodies \subseteq Seq(Nat)

-----------------------------------------------------------------------------
(* The calls of a handler: on a header, with a status, with a body.        *)
OnHeader(method, name, text) == Compiled!Call(method, name, text, 0, Compiled!NoBody)
WithStatus(method, status) == Compiled!Call(method, "", <<>>, status, Compiled!NoBody)
WithBody(method, kind) == Compiled!Call(method, "", <<>>, 0, Compiled!Body(kind, <<>>))
Operand(from, text, n) == [from |-> from, text |-> text, n |-> n]
Joined(method, operands) == Compiled!Call(method, "", <<>>, 0, Compiled!Body("joined", operands))

HeaderCalls ==
    {OnHeader("set", "x-a", <<"a">>), OnHeader("append", "x-a", <<"b">>),
     OnHeader("setHeader", "content-type", <<"text", "none">>),
     OnHeader("type", "content-type", <<"json", "latin1">>),
     OnHeader("set", "content-type", <<"unknown", "none">>),
     OnHeader("append", "content-type", <<"text", "none">>),
     OnHeader("set", "connection", <<"close">>), OnHeader("set", "keep-alive", <<"x">>),
     OnHeader("set", "x-powered-by", <<"me">>), OnHeader("set", "etag", <<"tag">>), OnHeader("set", "content-length", <<"9">>),
     [OnHeader("set", "x-a", <<"a">>) EXCEPT !.literal = FALSE]}
StatusCalls ==
    {WithStatus("status", 201), WithStatus("status", 204),
     WithStatus("sendStatus", 404)}
BodyCalls ==
    {WithBody("send", "text"), WithBody("send", "boolean"), [WithBody("send", "text") EXCEPT !.returned = TRUE],
     WithBody("json", "null"), WithBody("end", "text"),
     WithBody("end", "boolean"),
     Joined("send", <<Operand("number", "", 1), Operand("number", "", 2), Operand("text", "a", 0)>>),
     Joined("send", <<Operand("text", "a", 0), Operand("number", "", 1), Operand("number", "", 2)>>),
     Joined("end", <<Operand("text", "a", 0), Operand("query", "q", 0)>>),
     Joined("send", <<Operand("text", "a", 0), Operand("variable", "v", 0)>>)}

Off == [etag |-> FALSE, connection |-> FALSE, powered |-> FALSE, values |-> FALSE, replacer |-> FALSE]
SomeSettings ==
    {[Off EXCEPT !.connection = TRUE], [Off EXCEPT !.etag = TRUE, !.connection = TRUE],
     [Off EXCEPT !.powered = TRUE, !.values = TRUE], [Off EXCEPT !.replacer = TRUE]}

CompiledNext ==
    \E call \in HeaderCalls \cup StatusCalls \cup BodyCalls \cup {WithStatus("other", 0)} :
        Compiled!Write(call)

-----------------------------------------------------------------------------
AnswersInit ==
    /\ part \in Explored
    /\ \/ part = "response"
       \/ part # "response" /\ asked = MCPlain
    /\ \/ part = "compiled" /\ settings \in SomeSettings
       \/ part # "compiled" /\ settings = [Off EXCEPT !.connection = TRUE]
    /\ \/ part = "lite"
       \/ /\ part # "lite"
          /\ route = [body |-> "none", use |-> <<>>, compress |-> FALSE, takes |-> FALSE,
                      keeps |-> FALSE]
    /\ \/ part = "utils"
       \/ /\ part # "utils" /\ whole = <<1>>
          /\ handler = [phase |-> "new", takes |-> FALSE, returned |-> FALSE]
    /\ ResInit /\ Compiled!Init /\ Init /\ Utils!HandlerInit /\ Raw!Init

AnswersNext ==
    \/ part = "response" /\ ResNext
       /\ UNCHANGED <<part, compiledVars, answerVars, liteVars, handlerVars, routesVars>>
    \/ part = "compiled" /\ CompiledNext
       /\ UNCHANGED <<part, resVars, answerVars, liteVars, handlerVars, routesVars>>
    \/ part = "lite" /\ Next
       /\ UNCHANGED <<part, resVars, compiledVars, handlerVars, routesVars>>
    \/ part = "utils" /\ Utils!HandlerNext
       /\ UNCHANGED <<part, resVars, compiledVars, liteVars, routesVars>>
    \/ part = "routes" /\ Raw!Next
       /\ UNCHANGED <<part, resVars, compiledVars, answerVars, liteVars, handlerVars>>

AnswersSpec == AnswersInit /\ [][AnswersNext]_allVars
utilsAll == <<answerVars, handlerVars>>
\* The fairness of LiteRoute and of UwsHandler, each in the behaviours of its part.
AnswersFairSpec ==
    /\ AnswersSpec
    /\ WF_vars(part = "lite" /\ Tick) /\ WF_vars(part = "lite" /\ StreamClosed)
    /\ WF_vars(part = "lite" /\ Flow) /\ WF_vars(part = "lite" /\ Native)
    /\ WF_vars(part = "lite" /\ Return)
    /\ WF_utilsAll(part = "utils" /\ Utils!HandlerReturns) /\ WF_utilsAll(part = "utils" /\ Utils!Data)
    /\ WF_utilsAll(part = "utils" /\ Utils!Continue)
    /\ WF_utilsAll(part = "utils" /\ (Utils!Answers \/ Utils!AnswersStream))
    /\ WF_utilsAll(part = "utils" /\ (Utils!Ends \/ Utils!Fails))
    /\ WF_utilsAll(part = "utils" /\ Utils!StreamFlows) /\ WF_utilsAll(part = "utils" /\ Utils!UwsCalls)
-----------------------------------------------------------------------------
\* A handler read where it was registered is answered for as it would have
\* answered: status, header lines and body (declarative.js).
CompiledAsRun == part = "compiled" => Compiled!TypeOK /\ Compiled!CompiledAsRun

\* What was answered goes out, or the client has left; a body collected is handed over
\* whole and within the limit; a raw route answers all its pattern takes; and the lines
\* of a head are those settled when it was, each once (uws-utils.js writeWhole, collect,
\* application.js listen, response.js writeHeaders).
AnswersArrive ==
    /\ LightAnswers /\ Utils!HandlerAnswers
    /\ []Utils!CollectedWhole /\ []HeadIsWhole
    /\ [](TypeOK /\ Utils!HandlerTypeOK)
    /\ [](part = "routes" => Raw!TypeOK /\ Raw!RawAnswers)
=============================================================================
