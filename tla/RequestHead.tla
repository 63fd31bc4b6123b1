---------------------------- MODULE RequestHead ----------------------------
(***************************************************************************)
(* The head of one request (src/request.js): what the constructor decides  *)
(* about framing, keep-alive and freshness from the headers, read in full  *)
(* or, where the chain reads none of them, by name; and what the program   *)
(* is told when it asks, before and after the headers object is built.     *)
(*                                                                         *)
(* A header line is [name, value], its value the sequence of the members   *)
(* of its comma-separated list: folding two lines is concatenation, and an *)
(* empty value is <<>>, which getHeader() does not tell from no line.      *)
(***************************************************************************)
EXTENDS Naturals, Sequences, SequencesExt, FiniteSets

CONSTANTS
    Requests,           \* the requests explored, see RequestType
    Discarded,          \* names whose repeats node discards
    KnownMethods,       \* what node's parser accepts
    Asks                \* how many times the program asks

RequestType ==
    [headers : Seq([name : STRING, value : Seq(STRING)]), method : STRING,
     asciiTarget : BOOLEAN, preset : BOOLEAN, skip : BOOLEAN,
     conditionalGetOff : BOOLEAN, trusted : {"off", "no", "yes"}, tls : BOOLEAN]

VARIABLES
    request,
    entries,        \* #rawHeadersEntries
    flags,          \* what the constructor decided
    built, headers, \* the headers object, once built
    told            \* what the program asked, and was told

vars == <<request, entries, flags, built, headers, told>>

Absent == <<"absent">>      \* no such header
Steering == {"connection", "if-none-match", "if-modified-since",
             "cache-control"}

Lines(name, lines) == SelectSeq(lines, LAMBDA l : l.name = name)
Present(name, lines) == Lines(name, lines) # <<>>

-----------------------------------------------------------------------------
(* Framing.                                                                *)

NoFlags == [close |-> FALSE, refuse |-> FALSE, sawLength |-> FALSE,
            hasBodyHeaders |-> FALSE, declaresBody |-> FALSE]

SaysClose(value) == "close" \in Range(value)
IsByteCount(value) == Len(value) = 1 /\ value[1] \in {"0", "5"}
EndsWithChunked(value) ==
    /\ value # <<>> /\ Last(value) = "chunked"
    /\ Cardinality({i \in DOMAIN value : value[i] = "chunked"}) = 1

\* One line of the full copy.
Collect(f, line) ==
    CASE line.name = "connection" ->
            [f EXCEPT !.close = @ \/ SaysClose(line.value)]
      [] line.name = "content-length" ->
            [f EXCEPT !.refuse = @ \/ f.sawLength \/ ~IsByteCount(line.value),
                      !.sawLength = TRUE, !.hasBodyHeaders = TRUE,
                      !.declaresBody = @ \/ line.value # <<"0">>]
      [] line.name = "transfer-encoding" ->
            [f EXCEPT !.refuse = @ \/ ~EndsWithChunked(line.value),
                      !.hasBodyHeaders = TRUE, !.declaresBody = TRUE]
      [] OTHER -> f

CopyHeaders(wire) ==
    [entries |-> wire, flags |-> FoldLeft(Collect, NoFlags, wire)]

\* uWS's getHeader: the first line of that name.
GetHeader(wire, name) ==
    IF Present(name, wire) THEN Lines(name, wire)[1].value ELSE <<>>

AddEntry(wire, name) ==
    IF GetHeader(wire, name) = <<>> THEN <<>>
    ELSE <<[name |-> name, value |-> GetHeader(wire, name)]>>

\* The granted skip: only what steers the framework is read.
SkipHeaders(wire, conditionalGetOff) ==
    IF \/ GetHeader(wire, "content-length") # <<>>
       \/ GetHeader(wire, "transfer-encoding") # <<>>
    THEN CopyHeaders(wire)
    ELSE LET pair == AddEntry(wire, "if-none-match")
                        \o AddEntry(wire, "if-modified-since")
         IN  [entries |-> AddEntry(wire, "connection")
                  \o (IF conditionalGetOff \/ pair = <<>> THEN <<>>
                      ELSE pair \o AddEntry(wire, "cache-control")),
              flags |-> [NoFlags EXCEPT !.close =
                            SaysClose(GetHeader(wire, "connection"))]]

HeadOf(r, skip) ==
    IF skip THEN SkipHeaders(r.headers, r.conditionalGetOff)
            ELSE CopyHeaders(r.headers)

\* The method and target node would have refused before any handler; a preset
\* is a literal uWS matched byte for byte.
RefusesTarget(r) ==
    ~r.preset /\ (~r.asciiTarget \/ r.method \notin KnownMethods)

Constructed(r, skip) ==
    LET h == HeadOf(r, skip) IN
    [h EXCEPT !.flags.refuse = @ \/ RefusesTarget(r)]

-----------------------------------------------------------------------------
(* Reading headers.                                                        *)

\* A bug: every repeat is folded, those node discards among them.
FoldAll(name, lines) ==
    LET of == Lines(name, lines) IN
    IF of = <<>> THEN Absent ELSE FlattenSeq([i \in DOMAIN of |-> of[i].value])

\* _foldedHeader: one name off the raw lines, repeats folded as node folds.
FoldedHeader(name, lines) ==
    LET of == Lines(name, lines) IN
    IF of = <<>> THEN Absent
    ELSE IF name \in Discarded THEN of[1].value
    ELSE FlattenSeq([i \in DOMAIN of |-> of[i].value])

\* get headers(): the object, built line by line.
BuildHeaders(lines) ==
    LET add(h, l) ==
            IF l.name \notin DOMAIN h
            THEN [n \in DOMAIN h \cup {l.name} |->
                     IF n = l.name THEN l.value ELSE h[n]]
            ELSE IF l.name \in Discarded THEN h
            ELSE [h EXCEPT ![l.name] = @ \o l.value]
    IN  FoldLeft(add, [n \in {} |-> <<>>], lines)

OfBuilt(name, object) == IF name \in DOMAIN object THEN object[name] ELSE Absent

\* get(name): off the object once there is one.
Get(name) == IF built THEN OfBuilt(name, headers)
                       ELSE FoldedHeader(name, entries)

\* A parser's read: the first line, or the object's.
RawHeader(name) ==
    IF built THEN OfBuilt(name, headers)
    ELSE IF Present(name, entries) THEN Lines(name, entries)[1].value ELSE Absent

\* "referer" is asked under both its spellings.
GetReferrer ==
    LET a == Get("referrer") IN
    IF a \in {Absent, <<>>} THEN Get("referer") ELSE a

\* fresh: what the conditional of this request is judged by, or not at all.
HasConditional(lines) ==
    Present("if-none-match", lines) \/ Present("if-modified-since", lines)
FreshBy(r, lines) ==
    IF \/ r.method \notin {"GET", "HEAD", "QUERY"} \/ r.conditionalGetOff
       \/ ~HasConditional(lines)
    THEN [n \in Steering \ {"connection"} |-> Absent]
    ELSE [n \in Steering \ {"connection"} |-> FoldedHeader(n, lines)]

\* Behind a trusted peer the forwarded headers speak; else nobody's do.
First(value) == IF value \in {Absent, <<>>} THEN <<>> ELSE <<value[1]>>
Forwarded(name, own, object) ==
    IF request.trusted = "yes" /\ First(OfBuilt(name, object)) # <<>>
    THEN First(OfBuilt(name, object)) ELSE own

Protocol(object) ==
    Forwarded("x-forwarded-proto", IF request.tls THEN <<"https">> ELSE <<"http">>,
              object)
Host(object) ==
    Forwarded("x-forwarded-host", First(OfBuilt("host", object)), object)

-----------------------------------------------------------------------------
Init ==
    /\ request \in Requests
    /\ LET c == Constructed(request, request.skip) IN
       entries = c.entries /\ flags = c.flags
    /\ built = FALSE /\ headers = [n \in {} |-> <<>>] /\ told = <<>>

Names == {l.name : l \in Range(request.headers)} \cup {"if-none-match"}

\* A chain granted the skip asks nothing.
MayAsk == Len(told) < Asks /\ ~request.skip /\ ~flags.refuse

Tell(what, name, answer) ==
    told' = Append(told, [what |-> what, name |-> name, answer |-> answer])

\* req.get(name), which leaves the object unbuilt.
AskOne ==
    /\ MayAsk
    /\ \E n \in Names : Tell("get", n, IF n = "referer" THEN GetReferrer
                                                        ELSE Get(n))
    /\ UNCHANGED <<request, entries, flags, built, headers>>

\* A body parser asks for the first line.
AskParser ==
    /\ MayAsk
    /\ \E n \in Names : Tell("parser", n, RawHeader(n))
    /\ UNCHANGED <<request, entries, flags, built, headers>>

\* req.headers, and req.protocol and req.host, which read it.
AskAll ==
    /\ MayAsk
    /\ built' = TRUE
    /\ headers' = IF built THEN headers ELSE BuildHeaders(entries)
    /\ \/ \E n \in Names : Tell("headers", n, OfBuilt(n, headers'))
       \/ Tell("protocol", "", Protocol(headers'))
       \/ Tell("host", "", Host(headers'))
    /\ UNCHANGED <<request, entries, flags>>

Next == AskOne \/ AskParser \/ AskAll

Spec == Init /\ [][Next]_vars

-----------------------------------------------------------------------------
(* What node and Express make of the same lines.                           *)
NodeReads(name) ==
    LET of == Lines(name, request.headers) IN
    CASE of = <<>> -> Absent
      [] name \in Discarded -> of[1].value
      [] OTHER -> FlattenSeq([i \in DOMAIN of |-> of[i].value])

Twice(name) == Len(Lines(name, request.headers)) > 1
Empty(name) == \E l \in Range(request.headers) : l.name = name /\ l.value = <<>>

\* However the program reads a header, by name or off the object, first or
\* after it was built, it reads node's fold of the lines on the wire, which a
\* parser does of one that is not repeated; and nobody but a trusted peer
\* changes the protocol or the host.
ReadsAsNode ==
    \A i \in DOMAIN told :
        LET t == told[i] IN
        CASE t.what = "protocol" -> request.trusted # "yes" =>
                t.answer = IF request.tls THEN <<"https">> ELSE <<"http">>
          [] t.what = "host" -> request.trusted # "yes" =>
                t.answer = First(NodeReads("host"))
          [] t.name = "referer" -> Present("referrer", request.headers)
                                      \/ t.answer = NodeReads("referer")
          [] t.what = "parser" /\ t.name \notin Discarded /\ Twice(t.name) -> TRUE
          [] OTHER -> t.answer = NodeReads(t.name)

\* Two lengths, a length and a coding that disagree, a coding that does not end
\* the body: what the full copy refuses the skip refuses, and a body it sees the
\* skip sees, unless the first such line is empty.
SkipFramesAlike ==
    ~Empty("content-length") /\ ~Empty("transfer-encoding") =>
        LET c == CopyHeaders(request.headers)
            s == SkipHeaders(request.headers, request.conditionalGetOff)
        IN  /\ s.flags.refuse = c.flags.refuse
            /\ s.flags.declaresBody = c.flags.declaresBody
            /\ (\A n \in Steering : ~Twice(n)) =>
                 /\ s.flags.close = c.flags.close
                 /\ FreshBy(request, s.entries) = FreshBy(request, c.entries)

\* ARCHITECTURE.md: the native path answers what the generic path would have.
SkipAnswersAsCopy ==
    LET c == CopyHeaders(request.headers)
        s == SkipHeaders(request.headers, request.conditionalGetOff)
    IN  /\ s.flags.close = c.flags.close
        /\ FreshBy(request, s.entries) = FreshBy(request, c.entries)
=============================================================================
