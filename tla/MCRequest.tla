----------------------------- MODULE MCRequest -----------------------------
(* TLC instances of what a request says, one part of it at a time: its       *)
(* header lines, its query, its peer and the peer's address, its body as it  *)
(* arrives, and a form read out of one.                                      *)
EXTENDS RequestBody

CONSTANT None       \* undefined

VARIABLES
    part,           \* "head", "query", "peer", "address", "body" or "form"
    head, entries, flags, built, headers, told,
    rawQuery, snapRaw, snap, reads, answer,
    kind, state, app, raw, cached, late, probes, peerTold,
    bytes,
    parts, preamble, padded

-----------------------------------------------------------------------------
(* The head                                                                *)

HeaderLine(n, v) == [name |-> n, value |-> v]

\* Lines that steer the framework, and some that do not.
MCLines ==
    {HeaderLine("content-length", v) : v \in {<<"5">>, <<"0">>, <<"x">>, <<>>}}
      \cup {HeaderLine("transfer-encoding", v) : v \in
              {<<"chunked">>, <<"gzip", "chunked">>, <<"chunked", "chunked">>}}
      \cup {HeaderLine("connection", v) : v \in {<<"keep-alive">>, <<"upgrade", "close">>}}
      \cup {HeaderLine("if-none-match", <<"a">>), HeaderLine("cache-control", <<"no-cache">>),
            HeaderLine("cache-control", <<"max-age">>)}

PlainHead == [method |-> "GET", asciiTarget |-> TRUE, preset |-> FALSE, skip |-> FALSE,
          conditionalGetOff |-> FALSE, trusted |-> "off", tls |-> FALSE,
          headers |-> <<>>]

Upto3(S) == UNION {[1 .. n -> S] : n \in 0 .. 3}

ReadLines ==
    {HeaderLine("host", <<"a">>), HeaderLine("host", <<"b">>), HeaderLine("accept", <<"a", "b">>),
     HeaderLine("accept", <<>>), HeaderLine("referer", <<"a">>), HeaderLine("referrer", <<>>),
     HeaderLine("x-forwarded-proto", <<"https", "http">>),
     HeaderLine("x-forwarded-host", <<"c">>)}

MCHeads ==
    {[PlainHead EXCEPT !.headers = h, !.skip = s] : h \in Upto3(MCLines), s \in BOOLEAN}
      \cup {[PlainHead EXCEPT !.headers = h, !.trusted = t] :
               h \in Upto3(ReadLines), t \in {"no", "yes"}}
      \cup {[PlainHead EXCEPT !.method = m, !.asciiTarget = a, !.preset = p] :
               m \in {"GET", "post"}, a \in BOOLEAN, p \in BOOLEAN}

Lines == INSTANCE RequestHead WITH
    request <- head, Requests <- MCHeads, KnownMethods <- {"GET", "POST"}, Asks <- 2,
    Discarded <- {"host", "referer", "content-length"}

MCInputs == UNION {[1 .. n -> {"a", "=", "&", "+", "%26", "%z"}] : n \in 0 .. 4}
                \cup [1 .. 5 -> {"a", "=", "&"}]

Q == INSTANCE Query WITH
    Inputs <- MCInputs, Rewrites <- {<<"a">>, <<"a", "=", "a", "&", "a">>},
    MaxKeys <- 4, Limit <- 2

Peer == INSTANCE PeerAddress WITH
    answers <- peerTold, Request <- 1 .. 3, Apps <- <<"app", "mounted">>, Probes <- 1,
    Groups <- {0, 1, 65535}

-----------------------------------------------------------------------------
(* A body: up to three bytes, a mark and limits they cross                 *)

Plain(framing, n) ==
    [len |-> n, framing |-> framing, type |-> "json", charset |-> "utf-8",
     known |-> TRUE, coding |-> "identity", coded |-> "fine", carries |-> TRUE,
     value |-> "object", ampersands |-> 0]

Whole == {Plain(f, n) : f \in {"length", "chunked"}, n \in {0, 2, 3}}

MCBodies ==
    Whole
      \cup {[Plain("chunked", 2) EXCEPT !.coding = "gzip", !.coded = c] :
                c \in {"fine", "truncated", "corrupt"}}
      \cup {[Plain("length", 2) EXCEPT !.coding = "gzip"],
            [Plain("length", 0) EXCEPT !.coding = "gzip"],
            [Plain("chunked", 2) EXCEPT !.value = "broken"],
            [Plain("length", 2) EXCEPT !.value = "scalar"],
            [Plain("length", 2) EXCEPT !.charset = "utf-x", !.known = FALSE],
            [Plain("length", 2) EXCEPT !.type = "form", !.charset = "latin1"],
            [Plain("length", 2) EXCEPT !.type = "form", !.ampersands = 1],
            [Plain("length", 2) EXCEPT !.carries = FALSE],
            Plain("none", 0)}

Do(what) == [do |-> what]

Json(limit, verify) ==
    [do |-> "parse", claims |-> {"json"}, policy |-> {"utf-8", "utf-x"},
     inflate |-> TRUE, limit |-> limit, verify |-> verify, parser |-> "json",
     strict |-> TRUE, extended |-> FALSE, parameterLimit |-> 1]

Form == [Json(3, "none") EXCEPT !.claims = {"form"}, !.inflate = FALSE,
            !.policy = {"utf-8", "latin1"}, !.parser = "form"]

\* Any type, any limit that lets a body through, nothing inflated.
Raw == [Json(2, "none") EXCEPT !.claims = {"json", "form"}, !.policy = {},
            !.inflate = FALSE, !.parser = "raw"]

MCPrograms ==
    LET l == Do("listen") a == Do("await") h == Do("hear") e == Do("answer") IN
    {<<Json(2, "none"), Form>>, <<Form, Json(3, "throws")>>, <<Raw, Json(3, "ok")>>,
     <<a, Json(3, "none")>>, <<a, Raw>>, <<l, a, Json(3, "ok")>>,
     <<a, l, h>>, <<a, l, a>>, <<l, h, e>>, <<l, a, a, e>>, <<a, a>>, <<a, Json(1, "none"), l, h>>}

-----------------------------------------------------------------------------
(* A form: contents that come close to a delimiter, texts that need escapes *)

Data == [name |-> <<"a">>, filename |-> None, extended |-> None, mimetype |-> None,
         escaped |-> FALSE, bodiless |-> FALSE, content |-> <<"x">>]

Contents ==
    UNION {[1 .. n -> {"x", "N", "B", "D", "S"}] : n \in 0 .. 2}
      \cup {<<"N", "B", "x">>, <<"N", "B", "S">>, <<"N", "N", "x">>, <<"N", "B", "N">>,
            <<"B", "N", "B">>}

Names ==
    {<<>>, <<"a">>, <<"quote">>, <<"backslash", "a">>, <<"a", ";", "=">>,
     <<"..", "/", "a">>, <<"..">>, <<"backslash", "quote", "a">>, <<"a", "/", "..">>}

Extended ==
    {None, <<"utf-8", "'", "'", "%e">>, <<"utf-8", "'", "'", "%bad">>,
     <<"latin1", "'", "'", "a">>, <<"utf-8", "'", "a">>}

MCPart ==
    {[Data EXCEPT !.content = c] : c \in Contents}
      \cup {[Data EXCEPT !.bodiless = TRUE, !.filename = f, !.content = <<>>] :
               f \in {None, <<"a">>}}
      \cup {[Data EXCEPT !.name = None], [Data EXCEPT !.name = <<"b">>],
            [Data EXCEPT !.name = None, !.mimetype = "image"]}
      \cup {[Data EXCEPT !.filename = f, !.escaped = TRUE, !.mimetype = m] :
               f \in Names, m \in {None, "image"}}
      \cup {[Data EXCEPT !.filename = <<"c", "backslash", "a">>, !.extended = e] :
               e \in Extended}
      \cup {[Data EXCEPT !.extended = e, !.name = n, !.escaped = TRUE] :
               n \in {<<"a">>, <<"backslash">>, <<"quote", ";">>},
               e \in {None, <<"utf-8", "'", "'", "/", "%e">>}}

Sent == INSTANCE Multipart WITH
    Part <- MCPart, MaxParts <- 2,
    Preamble <- {<<>>, <<"x">>, <<"B", "x">>, <<"x", "N", "B", "x">>, <<"N">>}

-----------------------------------------------------------------------------
headVars == <<head, entries, flags, built, headers, told>>
queryVars == <<rawQuery, snapRaw, snap, reads, answer>>
peerVars == <<kind, state, app, raw, cached, late, probes, peerTold>>
formVars == <<parts, preamble, padded>>
partVars == <<part, headVars, queryVars, peerVars, bytes, vars, formVars>>

\* A part that is not explored has no state.
HeadOff == /\ head = 0 /\ entries = 0 /\ flags = 0 /\ built = 0
           /\ headers = 0 /\ told = 0
QueryOff == rawQuery = 0 /\ snapRaw = 0 /\ snap = 0 /\ reads = 0 /\ answer = 0
PeerOff == /\ kind = 0 /\ state = 0 /\ app = 0 /\ raw = 0 /\ cached = 0
           /\ late = 0 /\ probes = 0 /\ peerTold = 0
AddressOff == bytes = 0
FormOff == parts = <<>> /\ preamble = <<>> /\ padded = FALSE

\* A request without a body that was answered.
BodyOff ==
    /\ transport = "uws" /\ request = Plain("none", 0)
    /\ program = <<Do("await"), Do("await")>>
    /\ pc = 1 /\ status = "done" /\ sync = FALSE /\ answers = <<>> /\ heard = <<>>
    /\ finished = TRUE /\ aborted = FALSE
    /\ receivedData = TRUE /\ complete = TRUE /\ emptyBody = TRUE
    /\ readable = TRUE /\ bodyRead = FALSE /\ bodyClaimed = FALSE
    /\ buffered = <<>> /\ ended = FALSE /\ flow = "off" /\ endEmitted = FALSE
    /\ destroyed = FALSE /\ listeners = {} /\ sent = 0 /\ last = FALSE
    /\ handler = "none" /\ held = <<>> /\ gathered = <<>> /\ paused = FALSE
    /\ reading = NoReading

PartsInit ==
    /\ part \in {"head", "query", "peer", "address", "body", "form"}
    /\ IF part = "head" THEN Lines!Init ELSE HeadOff
    /\ IF part = "query" THEN Q!Init ELSE QueryOff
    /\ IF part = "peer" THEN Peer!Init ELSE PeerOff
    /\ IF part = "address" THEN bytes \in [1 .. 8 -> {0, 1, 65535}] ELSE AddressOff
    /\ IF part = "body" THEN Init ELSE BodyOff
    /\ IF part = "form" THEN Sent!Init ELSE FormOff

PartsNext ==
    \/ part = "head" /\ Lines!Next
       /\ UNCHANGED <<part, queryVars, peerVars, bytes, vars, formVars>>
    \/ part = "query" /\ Q!Next
       /\ UNCHANGED <<part, headVars, peerVars, bytes, vars, formVars>>
    \/ part = "peer" /\ Peer!Next
       /\ UNCHANGED <<part, headVars, queryVars, bytes, vars, formVars>>
    \/ part = "body" /\ Next
       /\ UNCHANGED <<part, headVars, queryVars, peerVars, bytes, formVars>>
    \/ part = "form" /\ Sent!Next
       /\ UNCHANGED <<part, headVars, queryVars, peerVars, bytes, vars>>

PartsSpec == PartsInit /\ [][PartsNext]_partVars /\ Fairness

\* What a request's head says is what node would have said, whichever way it is
\* asked (request.js), and a header skip frames the body as the full copy does.
HeadReadsAsNode ==
    part = "head" => Lines!ReadsAsNode /\ Lines!SkipFramesAlike

\* The query is read as it was written, from the string, the snapshot of a scan and
\* after a rewrite alike (parse-query.js, request.js).
QueryIsMeant == part = "query" => Q!QueryIsMeant

\* The client's address: the loopback is told only before a request that reads its
\* address is met (router.js), and it is the same as text and as bytes.
PeerIsKnown == /\ [][part = "peer" => Peer!Knows]_partVars
               /\ [](part = "address" => Peer!AddressReadsBack(bytes))

\* "The client's address [is] readable from any handler for as long as the socket is
\* open" (docs/websockets.md): not on a websocket without an upgrade hook.
SocketKnowsPeer ==
    part = "peer" =>
        \A r \in DOMAIN state : state[r] = "upgraded" => ~Peer!Hears(r, "throws")

\* A form is read as its parts were written, and never when it was cut short
\* (multipart.js).
FormIsRead == part = "form" => Sent!ReadAsMeant /\ Sent!CutIsRefused
=============================================================================
