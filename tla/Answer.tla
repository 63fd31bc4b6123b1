------------------------------- MODULE Answer -------------------------------
(***************************************************************************)
(* What a handler says of its answer, and what goes out (src/response.js,  *)
(* src/response-utils.js): the calls that build the head and the ones that *)
(* end the response.  How a body in pieces travels is ResponseStream's;    *)
(* a piece written is counted here, no more.                               *)
(*                                                                         *)
(* One program answers two requests side by side: `get` is the response to *)
(* the request as it came, `head` the one to its HEAD.                     *)
(*                                                                         *)
(* A header is [name, texts, raw]: texts has an entry for each line of it, *)
(* raw is set for what a program put in res.headers past the setters and   *)
(* is no text.  A content type is <<type, charset>>.                       *)
(***************************************************************************)
EXTENDS Naturals, Sequences, FiniteSets, SequencesExt

CONSTANTS
    Requests,       \* see RequestType
    Codes, Names, ContentTypes, BodySizes,
    MaxCalls

RequestType ==
    [method : {"GET", "POST"}, close : BOOLEAN, shim : BOOLEAN,
     validator : {"none", "tag"}, accepts : {"text", "html", "other"},
     etags : BOOLEAN, connectionHeaders : BOOLEAN]

\* What the constants must be: a length is announced by CallLength alone.
ASSUME AnswerAssumption ==
    /\ Requests \subseteq RequestType
    /\ BodySizes \subseteq Nat /\ Codes \subseteq Nat
    /\ "content-length" \notin Names

VARIABLES asked, get, head, said

resVars == <<asked, get, head, said>>

-----------------------------------------------------------------------------
(* res.headers, in the order the names were first put.                     *)
Has(r, n) == \E i \in DOMAIN r.headers : r.headers[i].name = n
At(r, n) == CHOOSE i \in DOMAIN r.headers : r.headers[i].name = n
TextsOf(r, n) == IF Has(r, n) THEN r.headers[At(r, n)].texts ELSE <<>>

Entry(n, texts) == [name |-> n, texts |-> texts, raw |-> FALSE]

Put(r, n, texts) ==
    [r EXCEPT !.headers = IF Has(r, n) THEN [@ EXCEPT ![At(r, n)] = Entry(n, texts)]
                          ELSE Append(@, Entry(n, texts))]

Without(r, names) ==
    [r EXCEPT !.headers =
        FoldLeft(LAMBDA kept, h : IF h.name \in names THEN kept ELSE Append(kept, h), <<>>, @)]

SeededKeepAlive == <<"timeout=10">>
Lasting == <<"keep-alive">>
CloseText == <<"close">>

\* The constructor.
Fresh(q, isHead) ==
    LET seeds == IF q.shim \/ ~q.connectionHeaders THEN <<>>
                 ELSE <<Entry("connection", <<Lasting>>),
                        Entry("keep-alive", <<SeededKeepAlive>>)>>
        r == [headers |-> seeds, hasBody |-> ~isHead,
              method |-> IF isHead THEN "HEAD" ELSE q.method,
              statusCode |-> 200, status |-> 200, phrase |-> "none",
              wirePhrase |-> "none", headersSent |-> FALSE, headOut |-> FALSE,
              chunked |-> TRUE, userChunked |-> FALSE, finished |-> FALSE,
              lines |-> <<>>, framing |-> "none", length |-> 0, bytes |-> 0,
              settled |-> <<>>, early |-> FALSE, own |-> FALSE, sent |-> FALSE,
              threw |-> FALSE]
    IN  IF q.close THEN Put(r, "connection", <<CloseText>>) ELSE r

Throws(r) == [r EXCEPT !.threw = TRUE]

-----------------------------------------------------------------------------
(* The setters.  One that throws leaves the rest of its call undone.       *)

\* setHeader: a Connection of the program's own drops the seeded Keep-Alive.
SetHeader(r, n, texts) ==
    CASE r.headersSent -> Throws(r)
      [] ~r.headersSent /\ n = "connection"
           /\ TextsOf(r, "keep-alive") = <<SeededKeepAlive>> ->
            Put(Without(r, {"keep-alive"}), n, texts)
      [] OTHER -> Put(r, n, texts)

RemoveHeader(r, n) == IF r.headersSent THEN Throws(r) ELSE Without(r, {n})

AppendHeader(r, n, text) == SetHeader(r, n, Append(TextsOf(r, n), text))

NoType == <<"false", "none">>
DefaultCharset(type) == IF type \in {"html", "text", "json"} THEN "utf-8" ELSE "none"

\* contentTypeSet: the charset a type has when none is named, false for a type
\* nobody knows.
ContentTypeSet(t) ==
    CASE t[1] = "unknown" -> NoType
      [] t[2] = "none" -> <<t[1], DefaultCharset(t[1])>>
      [] OTHER -> t

\* res.set of a content type.
SetType(r, t) == SetHeader(r, "content-type", <<ContentTypeSet(t)>>)

HasType(r) == Has(r, "content-type") /\ TextsOf(r, "content-type") # <<NoType>>

Status(r, code) ==
    IF code \notin 100 .. 999 THEN Throws(r) ELSE [r EXCEPT !.statusCode = code]

\* writeHead: the status is settled here, the bytes leave with the body.
ResWriteHead(r, code, phrase, fields) ==
    IF r.headersSent THEN Throws(r)
    ELSE [fields EXCEPT !.statusCode = code, !.phrase = phrase, !.status = code,
                        !.wirePhrase = phrase, !.headersSent = TRUE,
                        !.settled = fields.headers]

Implicit(r) ==
    IF r.headersSent THEN r ELSE ResWriteHead(r, r.statusCode, r.phrase, r)

-----------------------------------------------------------------------------
(* writeHeaders: the lines, joined into few calls.                         *)
Line(n, text, joinable) == [name |-> n, text |-> text, joinable |-> joinable]

Closing(r) == TextsOf(r, "connection") = <<CloseText>>

LinesOf(q, r) ==
    FlattenSeq([i \in DOMAIN r.headers |->
        LET h == r.headers[i] IN
        CASE h.name = "content-length"
               \/ (h.name = "keep-alive" /\ Closing(r))
               \/ (h.name = "transfer-encoding" /\ ~q.shim) -> <<>>
          [] OTHER -> [k \in DOMAIN h.texts |->
                        Line(h.name, h.texts[k], ~h.raw /\ ~q.shim)]])

NoLines == [lines |-> 0, pair |-> FALSE, first |-> <<>>, second |-> <<>>,
            joined |-> <<>>, out |-> <<>>]

SeededPair(s, line) ==
    /\ s.lines = 1 /\ ~s.pair
    /\ line.name = "keep-alive" /\ line.text = SeededKeepAlive
    /\ s.first[1].name = "connection" /\ s.first[1].text = Lasting

PairLine == Line("keep-alive", SeededKeepAlive, TRUE)
FirstOf(s) == IF s.pair THEN Append(s.first, PairLine) ELSE s.first

\* #writeLines, and the counts begin again.
WriteLines(s) ==
    [s EXCEPT !.lines = 0, !.pair = FALSE,
        !.out = @ \o CASE s.lines = 0 -> <<>>
                       [] s.lines = 1 -> FirstOf(s)
                       [] s.lines = 2 -> FirstOf(s) \o s.second
                       [] OTHER -> s.joined]

AddLine(s, line) ==
    CASE ~line.joinable -> [WriteLines(s) EXCEPT !.out = Append(@, line)]
      [] line.joinable /\ SeededPair(s, line) -> [s EXCEPT !.pair = TRUE]
      [] line.joinable /\ ~SeededPair(s, line) ->
            LET t == [s EXCEPT !.lines = @ + 1] IN
            CASE s.lines = 0 -> [t EXCEPT !.first = <<line>>]
              [] s.lines = 1 -> [t EXCEPT !.second = <<line>>]
              [] s.lines = 2 -> [t EXCEPT !.joined =
                                    FirstOf(s) \o s.second \o <<line>>]
              [] OTHER -> [t EXCEPT !.joined = Append(@, line)]

WrittenLines(lines) == WriteLines(FoldLeft(AddLine, NoLines, lines)).out

WriteHeaders(q, r) ==
    [r EXCEPT
        !.headersSent = TRUE, !.headOut = TRUE, !.lines = WrittenLines(LinesOf(q, r)),
        !.chunked = @ /\ ~Has(r, "content-length"),
        !.userChunked = ~q.shim /\ Has(r, "transfer-encoding")]

\* The head goes out, once.
HeadOut(q, r) == IF r.headOut THEN r ELSE WriteHeaders(q, r)

FlushHeaders(q, r) ==
    IF r.finished THEN r ELSE [HeadOut(q, Implicit(r)) EXCEPT !.early = TRUE]

\* uWS frames a response when its body begins.
Framed(r, framing, n) ==
    IF r.framing = "none" THEN [r EXCEPT !.framing = framing, !.length = n] ELSE r
Carry(r, n) == [r EXCEPT !.bytes = @ + n]

Announced(r) == IF Has(r, "content-length")
                THEN TextsOf(r, "content-length")[1][1] ELSE 0

\* res.write(): chunked, or against the length announced.
ResWrite(q, r, n) ==
    IF r.finished \/ n = 0 THEN r
    ELSE LET h == HeadOut(q, Implicit(r))
             w == Carry([Framed(h, IF h.chunked THEN "chunked" ELSE "length",
                                Announced(h)) EXCEPT !.early = TRUE], n)
         IN  IF ~h.chunked /\ w.bytes >= w.length
             THEN [w EXCEPT !.finished = TRUE] ELSE w

-----------------------------------------------------------------------------
(* end(): n is the size of what it was given, 0 for nothing.               *)
Bodiless(code) == code \in {204, 304} \/ code < 200

\* A bug: the status is read where it may have been set since.
StatusNow(r) == r.statusCode

\* The status the head went out with.
StatusOut(r) == r.status

\* A bug: a HEAD is told of no bytes, as it is sent none.
NoHeadLength(r, n) == Framed(r, "length", 0)

\* What a HEAD is told of the body it is not sent.
HeadLength(r, n) == Framed(Put(r, "content-length", <<<<n>>>>), "length", n)

\* _finish.
ResFinish(q, r, n) ==
    LET h == HeadOut(q, r)
        over == [h EXCEPT !.finished = TRUE]
    IN  CASE Bodiless(StatusOut(h)) -> over
          [] n = 0 /\ Has(h, "content-length") /\ ~Bodiless(StatusOut(h)) ->
                Framed(over, "length", Announced(h))
          [] ~Bodiless(StatusOut(h)) /\ (n > 0 \/ ~Has(h, "content-length"))
               /\ ((r.headOut /\ h.chunked) \/ (h.userChunked /\ h.hasBody /\ n > 0)) ->
                IF n = 0 THEN over ELSE Carry(Framed(over, "chunked", 0), n)
          [] OTHER ->
                CASE ~h.hasBody /\ h.userChunked -> over
                  [] ~h.hasBody /\ ~h.userChunked ->
                        HeadLength(over, n)
                  [] h.hasBody -> Carry(Framed(over, "length", n), n)

ResEnd(q, r, n) == IF r.finished THEN r ELSE ResFinish(q, Implicit(r), n)

\* req.fresh: the validator against the tag so far.
IsFresh(q, r) ==
    /\ r.method \in {"GET", "HEAD"} /\ q.validator # "none"
    /\ r.statusCode \in 200 .. 299 \cup {304}
    /\ TextsOf(r, "etag") = <<<<q.validator>>>>

IfFresh(q, r) == IF IsFresh(q, r) THEN Status(r, 304) ELSE r

Describing == {"content-type", "content-length", "transfer-encoding"}

\* What describes a body that is not there.
DropDescribing(r) == Without(r, Describing)

\* send() of nothing at all.
SendUndefined(q, r) ==
    LET s == IfFresh(q, r) IN
    CASE ~r.headersSent ->
            ResEnd(q, IF s.statusCode \in {204, 304} THEN DropDescribing(s) ELSE s, 0)
      [] r.headersSent /\ (IsFresh(q, r) \/ r.statusCode \in {204, 205, 304}) ->
            Throws(r)
      [] OTHER -> ResEnd(q, r, 0)

Utf8(t) == <<t[1], "utf-8">>

\* The content type of a body: a text is utf-8 whatever was named.
Typed(r, kind) ==
    CASE kind = "text" /\ ~HasType(r) -> Put(r, "content-type", <<<<"html", "utf-8">>>>)
      [] kind = "text" /\ HasType(r) ->
            Put(r, "content-type", <<Utf8(TextsOf(r, "content-type")[1])>>)
      [] kind = "bytes" /\ ~HasType(r) ->
            Put(r, "content-type", <<<<"octets", "none">>>>)
      [] OTHER -> r

\* The tag is send()'s, for every method and size, empty bodies included.
Tagged(q, r) ==
    IF q.etags /\ ~Has(r, "etag") THEN Put(r, "etag", <<<<"tag">>>>) ELSE r

\* Freshness compares the tag.
TaggedThenFresh(q, r) == IfFresh(q, Tagged(q, r))

\* send() of a text, of bytes or of null.
SendBody(q, r, kind, n) ==
    IF r.headersSent THEN Throws(r)
    ELSE LET typed == Typed(r, kind)
             long == IF Has(typed, "transfer-encoding") THEN typed
                     ELSE Put(typed, "content-length", <<<<n>>>>)
             s == [TaggedThenFresh(q, long) EXCEPT !.sent = TRUE,
                     !.own = @ /\ Has(long, "transfer-encoding")]
             none == s.statusCode \in {204, 205, 304}
             size == IF none THEN 0 ELSE n
             t == CASE s.statusCode \in {204, 304} -> DropDescribing(s)
                    [] s.statusCode = 205 ->
                          Without(Put(s, "content-length", <<<<0>>>>), {"transfer-encoding"})
                    [] OTHER -> s
         IN  IF r.method = "HEAD"
             THEN ResEnd(q, IF t.statusCode \in {204, 304} \/ Has(t, "transfer-encoding")
                         THEN t ELSE Put(t, "content-length", <<<<size>>>>), 0)
             ELSE ResEnd(q, t, size)

\* json(): serialised first; JSON of undefined is undefined.
Json(q, r, kind, n) ==
    LET bare == ~HasType(r)
        typed == IF bare THEN Put(r, "content-type", <<<<"json", "utf-8">>>>) ELSE r
    IN  CASE kind = "unserialisable" \/ (bare /\ r.headersSent) -> Throws(r)
          [] kind = "undefined" /\ ~(bare /\ r.headersSent) -> SendUndefined(q, typed)
          [] OTHER -> SendBody(q, typed, "text", n)

\* jsonp(): with a callback the body is script whatever the type was.
Jsonp(q, r, callback, n) ==
    LET typed == IF callback \/ ~HasType(r)
                 THEN Put(Put(r, "x-content-type-options", <<<<"nosniff">>>>),
                          "content-type",
                          <<<<IF callback THEN "javascript" ELSE "json", "utf-8">>>>)
                 ELSE r
    IN  IF r.headersSent /\ (callback \/ ~HasType(r)) THEN Throws(r)
        ELSE SendBody(q, typed, "text", n)

ResSend(q, r, kind, n) ==
    CASE kind = "undefined" -> SendUndefined(q, r)
      [] kind = "object" -> IF r.headersSent THEN Throws(r) ELSE Json(q, r, kind, n)
      [] kind = "unserialisable" -> Throws(r)
      [] OTHER -> SendBody(q, r, kind, n)

\* A step of a call is taken unless one before it threw.
Then(r, next) == IF r.threw THEN r ELSE next

SendStatus(q, r, code) ==
    LET s == Status(r, code)
        t == Then(s, SetType(s, <<"text", "none">>))
    IN  Then(t, SendBody(q, t, "text", 2))

\* vary(): the field once.
Vary(r) == SetHeader(r, "vary", <<<<"accept">>>>)

\* location() writes past the setters.
Location(r) == Put(r, "location", <<<<"to">>>>)

\* redirect(): the location first, then what the client accepts of a body, whose
\* length a HEAD announces too.
Redirect(q, r, code) ==
    LET s == Status(Location(r), code)
        v == Then(s, Vary(s))
        t == CASE v.threw \/ q.accepts = "other" -> v
               [] OTHER -> SetType(v, <<q.accepts, "utf-8">>)
        n == CASE q.accepts = "text" -> 2 [] q.accepts = "html" -> 3 [] OTHER -> 0
        l == Then(t, [SetHeader(t, "content-length", <<<<n>>>>)
                        EXCEPT !.own = @ /\ t.headersSent])
    IN  Then(l, ResEnd(q, l, IF r.method = "HEAD" THEN 0 ELSE n))

-----------------------------------------------------------------------------
ResInit ==
    /\ asked \in Requests
    /\ get = Fresh(asked, FALSE) /\ head = Fresh(asked, TRUE)
    /\ said = 0

\* A call, on both; what it throws is caught.
Calls(Op(_)) ==
    /\ said < MaxCalls /\ said' = said + 1
    /\ get' = Op([get EXCEPT !.threw = FALSE])
    /\ head' = Op([head EXCEPT !.threw = FALSE])
    /\ UNCHANGED asked

CallStatus == \E c \in Codes \cup {0} : Calls(LAMBDA r : Status(r, c))
CallSet == \E n \in Names : Calls(LAMBDA r : SetHeader(r, n, <<<<"a">>>>))
CallConnection == \E v \in {CloseText, Lasting} :
                      Calls(LAMBDA r : SetHeader(r, "connection", <<v>>))
CallType == \E t \in ContentTypes : Calls(LAMBDA r : SetType(r, t))
CallAppend == \E n \in Names : Calls(LAMBDA r : AppendHeader(r, n, <<"b">>))
CallRemove == \E n \in Names \cup {"keep-alive"} : Calls(LAMBDA r : RemoveHeader(r, n))
CallChunked == Calls(LAMBDA r : SetHeader(r, "transfer-encoding", <<<<"chunked">>>>))
CallRaw == Calls(LAMBDA r : IF r.headersSent \/ Has(r, "x-raw") THEN r ELSE
               [r EXCEPT !.headers = Append(@,
                   [name |-> "x-raw", texts |-> <<<<"1">>>>, raw |-> TRUE])])
CallLength == \E n \in BodySizes : Calls(LAMBDA r :
    [SetHeader(r, "content-length", <<<<n>>>>) EXCEPT !.own = TRUE])
CallWriteHead ==
    \E c \in Codes, p \in {"none", "own"} :
        Calls(LAMBDA r : ResWriteHead(r, c, p, SetHeader(r, "x-head", <<<<"a">>>>)))
CallFlush == Calls(LAMBDA r : FlushHeaders(asked, r))
CallWrite == \E n \in BodySizes : Calls(LAMBDA r : ResWrite(asked, r, n))
CallLocation == Calls(Location)
CallVary == Calls(Vary)

CallEnd == \E n \in BodySizes \cup {0} : Calls(LAMBDA r : ResEnd(asked, r, n))
CallSend == \E k \in {"text", "bytes", "null", "undefined", "object", "unserialisable"},
                 n \in BodySizes :
               Calls(LAMBDA r : ResSend(asked, r, k, IF k = "null" THEN 0 ELSE n))
CallJson == \E k \in {"object", "undefined", "unserialisable"}, n \in BodySizes :
               Calls(LAMBDA r : Json(asked, r, k, n))
CallJsonp == \E c \in BOOLEAN, n \in BodySizes : Calls(LAMBDA r : Jsonp(asked, r, c, n))
CallSendStatus == \E c \in Codes : Calls(LAMBDA r : SendStatus(asked, r, c))
CallRedirect == \E c \in {302, 304} : Calls(LAMBDA r : Redirect(asked, r, c))

ResNext ==
    \/ CallStatus \/ CallSet \/ CallConnection \/ CallType \/ CallAppend
    \/ CallRemove \/ CallChunked \/ CallRaw \/ CallLength \/ CallWriteHead \/ CallFlush
    \/ CallWrite \/ CallLocation \/ CallVary \/ CallEnd \/ CallSend \/ CallJson
    \/ CallJsonp \/ CallSendStatus \/ CallRedirect

ResSpec == ResInit /\ [][ResNext]_resVars

-----------------------------------------------------------------------------
Both == {get, head}

\* Of an answer whose head was not out before its end: no body where there may be
\* none, and a length that is the body's, whatever was called before the end, unless
\* the program announced one of its own.
BodyFits ==
    \A r \in Both : r.finished /\ ~r.early =>
        /\ Bodiless(r.status) \/ ~r.hasBody => r.bytes = 0
        /\ Bodiless(r.status) => r.framing = "none"
        /\ r.framing = "length" /\ r.hasBody /\ ~r.own => r.bytes = r.length

LinesNamed(r, n) == SelectSeq(r.lines, LAMBDA l : l.name = n)
SettledTexts(r, n) == TextsOf([headers |-> r.settled], n)
OnWire(r) == {r.lines[i].name : i \in DOMAIN r.lines}
Unwritten == {"content-length", "transfer-encoding"}

\* The lines are the ones settled when the head was, each once and in its
\* header's order, however they were joined; a keep-alive goes without its
\* parameters once the connection closes.
HeadAsSettled(names) ==
    \A r \in Both : r.headOut =>
        \A n \in names \cup OnWire(r)
                \cup {r.settled[i].name : i \in DOMAIN r.settled} :
            n \notin Unwritten \cup ({"location"} \ names) =>
                [i \in DOMAIN LinesNamed(r, n) |-> LinesNamed(r, n)[i].text]
                    = IF n = "keep-alive" /\ SettledTexts(r, "connection") = <<CloseText>>
                      THEN <<>> ELSE SettledTexts(r, n)
HeadIsWhole == HeadAsSettled({})

\* Sent with a tag the client named, a success is a 304 and nothing else is.
Conditional ==
    \A r \in Both : r.finished /\ r.sent /\ ~r.early =>
        LET known == /\ r.method \in {"GET", "HEAD"} /\ asked.validator # "none"
                     /\ TextsOf(r, "etag") = <<<<asked.validator>>>>
        IN  /\ known => r.status \notin 200 .. 299
            /\ r.status = 304 => known \/ 304 \in Codes
            /\ r.status = 304 => ~\E n \in Describing : Has(r, n)

\* What goes out fits together whatever was called before: the body its head, and a
\* success with a tag the client named is a 304, and nothing else is (_finish, send).
AnswerFits == BodyFits /\ Conditional

\* A HEAD is told what the GET would have been: the same head, and the length of the
\* body it is not sent (_finish).  Not so of a program that asked for chunks and is
\* behind the shim, where the HEAD is told a length of nothing, or announced a length
\* of its own too, where the HEAD is told that one and the GET is chunked.
HeadSaysAsGet ==
    /\ get.finished /\ head.finished /\ asked.method = "GET" /\ ~get.early
    /\ asked.shim \/ get.own => ~Has(head, "transfer-encoding")
    =>
        /\ head.status = get.status /\ head.lines = get.lines
        /\ head.framing = "length" =>
              head.length = IF get.framing = "length" THEN get.length ELSE get.bytes
        /\ get.framing = "length" => head.framing = "length" \/ head.userChunked

=============================================================================
