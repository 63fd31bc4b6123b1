---------------------------- MODULE Declarative ----------------------------
(***************************************************************************)
(* A handler read where it is registered: compileDeclarative turns the      *)
(* calls a simple one makes on its response into the response uWS writes    *)
(* without entering JavaScript, or leaves it alone. Next to it stands what  *)
(* the handler would have answered had it run, through the calls of Answer. *)
(*                                                                         *)
(* A handler is its calls in the order they run. An argument is a literal,  *)
(* or what the reader has to recognise as not being one.                    *)
(***************************************************************************)
EXTENDS Integers, Sequences, SequencesExt

CONSTANTS
    MaxCalls,       \* the calls of a handler
    None

VARIABLES
    settings,       \* of the application
    handler         \* the calls

vars == <<settings, handler>>

Settings == [etag : BOOLEAN, connection : BOOLEAN, powered : BOOLEAN, values : BOOLEAN,
             replacer : BOOLEAN]

\* A body: nothing, a literal of some type, or operands joined by + or a template.
BodyKinds == {"none", "text", "empty", "null", "boolean", "number", "object", "joined", "variable"}
Operand == [from : {"text", "number", "query", "params", "variable"}, text : STRING, n : Int]
Body(kind, operands) == [kind |-> kind, operands |-> operands]
NoBody == Body("none", <<>>)

\* A call: `textual` a status written as a string, `literal` whether the other
\* arguments are, `returned` the call of a return statement.
Call(method, name, text, status, body) ==
    [method |-> method, name |-> name, text |-> text, status |-> status, body |-> body,
     textual |-> FALSE, literal |-> TRUE, returned |-> FALSE]

BodyMethods == {"send", "json", "end"}
TerminalMethods == BodyMethods \cup {"sendStatus"}
AllowedResMethods ==
    TerminalMethods \cup {"set", "setHeader", "type", "status", "append"}
BodilessStatuses == {204, 205, 304}
ValidatorHeaders == {"etag", "last-modified"}

\* What the constants must be.
DeclarativeAssumption == MaxCalls \in Nat

-----------------------------------------------------------------------------
(* The handler run: Answer's response, and the text of its body            *)

Ordinary == INSTANCE Answer WITH
    Requests <- {}, Codes <- {}, Names <- {}, ContentTypes <- {}, BodySizes <- {},
    asked <- None, get <- None, head <- None, said <- 0

\* A request that asks for nothing a response written at startup cannot know.
Asked == [method |-> "GET", close |-> FALSE, shim |-> FALSE, validator |-> "none",
          accepts |-> "text", etags |-> settings.etag, connectionHeaders |-> settings.connection]

Powered == <<"Fulmine">>
Fresh ==
    LET r == Ordinary!Fresh(Asked, FALSE) IN
    IF settings.powered THEN Ordinary!Put(r, "x-powered-by", <<Powered>>) ELSE r

Token(text, n) == [text |-> text, n |-> n]
TokenOf(operand) == Token(operand.text, operand.n)

\* a + b + c: numbers add up until a string is met.
Plus(sum, operand) ==
    IF operand.from = "number" /\ ~sum.string
    THEN [sum EXCEPT !.n = @ + operand.n, !.counted = TRUE]
    ELSE [string |-> TRUE, n |-> 0, counted |-> FALSE,
          tokens |-> sum.tokens \o (IF sum.counted THEN <<Token("", sum.n)>> ELSE <<>>)
                     \o <<TokenOf(operand)>>]
TextOf(body) ==
    IF body.kind = "joined"
    THEN FoldLeft(Plus, [string |-> FALSE, n |-> 0, counted |-> FALSE, tokens |-> <<>>],
                  body.operands).tokens
    ELSE CASE body.kind \in {"none", "empty", "null"} -> <<>>
           [] OTHER -> <<Token(body.kind, 0)>>

SizeOf(body) == IF TextOf(body) = <<>> THEN 0 ELSE 2
KindOf(body) ==
    CASE body.kind \in {"text", "empty", "joined", "variable"} -> "text"
      [] body.kind = "none" -> "undefined"
      [] body.kind = "null" -> "null"
      [] OTHER -> "object"

SetAs(r, call) ==
    IF call.name = "content-type" /\ call.method # "setHeader" THEN Ordinary!SetType(r, call.text)
    ELSE Ordinary!SetHeader(r, call.name, <<call.text>>)

\* append() is set() of what is there and this, and a content type takes no list.
AppendAs(r, call) ==
    IF ~Ordinary!Has(r, call.name) THEN SetAs(r, call)
    ELSE IF call.name = "content-type" THEN Ordinary!Throws(r)
    ELSE Ordinary!AppendHeader(r, call.name, call.text)

Step(r, call) ==
    CASE call.method = "status" ->
            IF call.textual THEN Ordinary!Throws(r) ELSE Ordinary!Status(r, call.status)
      [] call.method = "sendStatus" ->
            IF call.textual THEN Ordinary!Throws(r) ELSE Ordinary!SendStatus(Asked, r, call.status)
      [] call.method \in {"set", "setHeader", "type"} -> SetAs(r, call)
      [] call.method = "append" -> AppendAs(r, call)
      [] call.method = "send" -> Ordinary!ResSend(Asked, r, KindOf(call.body), SizeOf(call.body))
      [] call.method = "json" ->
            Ordinary!Json(Asked, r, IF call.body.kind = "none" THEN "undefined" ELSE "object", 2)
      [] call.method = "end" -> Ordinary!ResEnd(Asked, r, SizeOf(call.body))
      [] OTHER -> r

\* The calls that run: none after the one that is returned, none after a throw.
Ran ==
    LET stops == {i \in DOMAIN handler : handler[i].returned} IN
    IF stops = {} THEN handler
    ELSE SubSeq(handler, 1, CHOOSE i \in stops : \A j \in stops : i <= j)
Answered == FoldLeft(LAMBDA r, call : IF r.threw THEN r ELSE Step(r, call), Fresh, Ran)

\* The body is that of the call that ended the response.
JsonOf(body) == <<Token(IF body.kind \in {"joined", "empty"} THEN "text" ELSE body.kind, 0)>>
EndedBy ==
    LET ends == {i \in DOMAIN Ran : Ran[i].method \in TerminalMethods} IN
    Ran[CHOOSE i \in ends : \A j \in ends : i <= j]
StatusText(code) == <<Token("status", code)>>
AnsweredText(call) ==
    CASE call.method = "sendStatus" -> StatusText(call.status)
      [] call.method = "json" -> JsonOf(call.body)
      [] OTHER -> TextOf(call.body)

-----------------------------------------------------------------------------
(* The handler read                                                        *)

\* readHandler and readResCalls: nothing but calls on res, of methods that are
\* known, a return only at the end, and one call that ends the response.
Terminals == {i \in DOMAIN handler : handler[i].method \in TerminalMethods}
Readable ==
    /\ \A i \in DOMAIN handler : handler[i].method \in AllowedResMethods
    /\ \A i \in DOMAIN handler : handler[i].returned => i = Len(handler)
    /\ \A i, j \in Terminals : i = j
    /\ Terminals # {}

\* The calls up to that one.
Read == SubSeq(handler, 1, CHOOSE i \in Terminals : TRUE)

\* The list of header lines, first written first.
At(headers, name) == {i \in DOMAIN headers : headers[i].name = name}
Has(headers, name) == At(headers, name) # {}
First(s) == CHOOSE i \in s : \A j \in s : i <= j
Line(name, text) == [name |-> name, text |-> text]

\* A bug: a second set() of a name adds a line.
SetInAppends(headers, name, text) == Append(headers, Line(name, text))

\* setIn: the first line of the name takes the text, the others go.
SetIn(headers, name, text) ==
    IF ~Has(headers, name) THEN Append(headers, Line(name, text))
    ELSE LET first == First(At(headers, name))
             kept == SelectSeq([i \in DOMAIN headers |-> i],
                               LAMBDA i : i = first \/ headers[i].name # name)
         IN  [k \in DOMAIN kept |->
                IF kept[k] = first THEN [headers[first] EXCEPT !.text = text] ELSE headers[kept[k]]]

\* contentTypeSet knows every type but one.
Known(text) == Ordinary!ContentTypeSet(text) # Ordinary!NoType
Utf8(headers) ==
    LET first == First(At(headers, "content-type")) IN
    [headers EXCEPT ![first].text = Ordinary!Utf8(@)]
TextType == <<"text", "utf-8">>

\* readStatusAndHeaders, one call: None for what it cannot read.
ReadHeader(headers, call) ==
    IF headers = None THEN None
    ELSE CASE call.method \in {"set", "setHeader", "type"} ->
                IF ~call.literal \/ call.name = "transfer-encoding"
                   \/ (call.method # "setHeader" /\ call.name = "content-type" /\ ~Known(call.text))
                THEN None
                ELSE SetIn(headers, call.name,
                           IF call.method # "setHeader" /\ call.name = "content-type"
                           THEN Ordinary!ContentTypeSet(call.text) ELSE call.text)
           [] call.method = "append" ->
                IF ~call.literal \/ call.name = "transfer-encoding" THEN None
                ELSE Append(headers, Line(call.name, call.text))
           [] call.method = "sendStatus" ->
                IF ~call.literal THEN None
                ELSE IF Has(headers, "content-type") THEN SetIn(headers, "content-type", TextType)
                ELSE headers
           [] call.method = "status" -> IF ~call.literal THEN None ELSE headers
           [] OTHER -> headers
Headers == FoldLeft(ReadHeader, <<>>, Read)

Ends == Last(Read)
SendStatusUsed == Ends.method = "sendStatus"
StatusCode ==
    LET set == {i \in DOMAIN Read : Read[i].method = "status"} IN
    IF SendStatusUsed THEN Ends.status
    ELSE IF set = {} THEN 200 ELSE Read[CHOOSE i \in set : \A j \in set : j <= i].status

\* readBody: what it cannot read, the type the body implies, and its parts.
Concatenates(operands) ==
    \A i \in DOMAIN operands :
        /\ operands[i].from # "variable"
        /\ i > 1 => \E j \in 1 .. i : operands[j].from # "number"
BodyRead(call) ==
    LET kind == call.body.kind IN
    /\ kind # "variable"
    /\ kind = "joined" => Concatenates(call.body.operands)
    /\ CASE call.method = "json" -> kind \notin {"none", "joined"} /\ ~settings.replacer
         [] call.method = "send" -> kind # "number" /\ (kind = "object" => ~settings.replacer)
         [] call.method = "end" -> kind \notin {"number", "boolean", "object"}
         [] OTHER -> TRUE

JsonType == <<"json", "utf-8">>
HtmlType == <<"html", "utf-8">>
Typed(headers, call) ==
    LET typed == Has(headers, "content-type")
        implied == IF call.method = "json" \/ call.body.kind \in {"object", "boolean"}
                   THEN JsonType ELSE HtmlType
    IN  CASE call.method = "json" \/ (call.method = "send" /\ call.body.kind \notin {"none", "null"}) ->
                IF typed THEN Utf8(headers) ELSE Append(headers, Line("content-type", implied))
          [] OTHER -> headers

Parts(call) ==
    CASE call.method = "sendStatus" -> StatusText(call.status)
      [] call.method = "json" -> JsonOf(call.body)
      [] call.body.kind = "joined" -> [i \in DOMAIN call.body.operands |-> TokenOf(call.body.operands[i])]
      [] OTHER -> TextOf(call.body)
HasParts(call) == call.method \in {"sendStatus", "json"} \/ call.body.kind # "none"
FromRequest(call) ==
    call.body.kind = "joined" /\ \E i \in DOMAIN call.body.operands : call.body.operands[i].from \in {"query", "params"}

\* compileDeclarative's own refusals.
Compiles ==
    /\ Readable
    /\ Headers # None
    /\ SendStatusUsed \/ BodyRead(Ends)
    /\ FromRequest(Ends) => settings.values
    /\ StatusCode \notin BodilessStatuses /\ StatusCode >= 200
    /\ ~Has(Headers, "content-length")
    /\ \A i \in DOMAIN Headers : Headers[i].name \notin ValidatorHeaders
    /\ ~(settings.etag /\ Ends.method # "end" /\ HasParts(Ends))

\* The lines in the order they are written, the seeded ones first.
Seeded(headers) ==
    LET own == Has(headers, "connection")
        advertise == settings.connection /\ ~own
    IN  (IF advertise THEN <<Line("connection", Ordinary!Lasting)>> ELSE <<>>)
        \o (IF advertise /\ ~Has(headers, "keep-alive")
            THEN <<Line("keep-alive", Ordinary!SeededKeepAlive)>> ELSE <<>>)
Lines ==
    LET typed == IF SendStatusUsed THEN Headers ELSE Typed(Headers, Ends) IN
    (IF SendStatusUsed /\ ~Has(Headers, "content-type") THEN <<Line("content-type", TextType)>> ELSE <<>>)
    \o Seeded(typed) \o typed
    \o (IF settings.powered THEN <<Line("x-powered-by", Powered)>> ELSE <<>>)

Named(lines, name) ==
    LET of == SelectSeq(lines, LAMBDA l : l.name = name) IN [i \in DOMAIN of |-> of[i].text]
NamesOf(lines) == {lines[i].name : i \in DOMAIN lines}

-----------------------------------------------------------------------------
TypeOK ==
    /\ settings \in Settings
    /\ Len(handler) <= MaxCalls
    /\ \A i \in DOMAIN handler : handler[i].body.kind \in BodyKinds

Init ==
    /\ settings \in Settings
    /\ handler = <<>>

\* One call more in the handler.
Write(call) ==
    /\ Len(handler) < MaxCalls
    /\ handler' = Append(handler, call)
    /\ UNCHANGED settings
-----------------------------------------------------------------------------
\* A compiled response is the one the handler would have sent: its status, every
\* line under every name, and its body (declarative.js compileDeclarative).
SameHead(answered, lines) ==
    /\ answered.finished
    /\ StatusCode = answered.status
    /\ \A name \in NamesOf(lines) \cup NamesOf(answered.lines) :
          Named(lines, name) = Named(answered.lines, name)
SameBody == Parts(Ends) = AnsweredText(EndedBy)
CompiledAsRunWhateverItIs == Compiles => SameHead(Answered, Lines) /\ SameBody

\* The same of a handler that leaves what every response is seeded with alone,
\* writes its statuses as numbers in range and appends to no content type.
Plain ==
    \A i \in DOMAIN handler :
        LET call == handler[i] IN
        /\ ~call.textual
        /\ call.method \in {"status", "sendStatus"} => call.status \in 100 .. 999
        /\ call.method = "append" => call.name \notin {"content-type", "connection", "keep-alive"}
        /\ call.name = "keep-alive" => \A j \in DOMAIN handler : handler[j].name # "connection"
        /\ settings.powered => call.name # "x-powered-by"
CompiledAsRun == Plain => CompiledAsRunWhateverItIs
=============================================================================
