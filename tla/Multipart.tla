------------------------------ MODULE Multipart ------------------------------
(***************************************************************************)
(* A multipart/form-data body read in one pass (multipart.js), next to one  *)
(* as its sender writes it. A body is a sequence of tokens: "N" a CRLF, "B" *)
(* the two dashes and the boundary, "D" two dashes more, "S" padding, a     *)
(* header line, or anything else. A header's value is a sequence of atoms,  *)
(* a character or a word each.                                              *)
(***************************************************************************)
EXTENDS Naturals, Sequences, FiniteSets, SequencesExt

CONSTANTS
    Part,           \* what may be sent in a part, see PartType
    Preamble,       \* what a sender puts before the parts
    MaxParts,
    None            \* undefined

VARIABLES
    parts, preamble,
    padded          \* whether delimiters are followed by padding

vars == <<parts, preamble, padded>>

Token(kind) == [kind |-> kind, name |-> "", value |-> <<>>]
Line(name, value) == [kind |-> "line", name |-> name, value |-> value]
Tokens(kinds) == [i \in DOMAIN kinds |-> Token(kinds[i])]
Kind(body, i) == IF i \in DOMAIN body THEN body[i].kind ELSE "nothing"

\* What delimiterEnd answers on the closing delimiter and on what is none.
CLOSED == "closed"
NOT_A_DELIMITER == "data"

-----------------------------------------------------------------------------
(* The delimiters                                                          *)

RECURSIVE AfterPadding(_, _)
AfterPadding(body, at) == IF Kind(body, at) = "S" THEN AfterPadding(body, at + 1) ELSE at

DelimiterEnd(body, at) ==
    LET next == AfterPadding(body, at) IN
    CASE Kind(body, at) = "D" -> [is |-> CLOSED, next |-> 0]
      [] Kind(body, at) # "D" /\ Kind(body, next) = "N" -> [is |-> "part", next |-> next + 1]
      [] OTHER -> [is |-> NOT_A_DELIMITER, next |-> 0]

Opens(body, at) ==
    /\ Kind(body, at) = "N" /\ Kind(body, at + 1) = "B"
    /\ DelimiterEnd(body, at + 2).is # NOT_A_DELIMITER

\* Where the next real delimiter starts, or 0.
FindDelimiter(body, from) ==
    LET found == {i \in DOMAIN body : i >= from /\ Opens(body, i)} IN
    IF found = {} THEN 0 ELSE CHOOSE i \in found : \A j \in found : i <= j

-----------------------------------------------------------------------------
(* The headers of a part                                                   *)

\* The first of some atoms from a place, or 0.
IndexOf(value, atoms, from) ==
    LET found == {i \in DOMAIN value : i >= from /\ value[i] \in atoms} IN
    IF found = {} THEN 0 ELSE CHOOSE i \in found : \A j \in found : i <= j
LastIndexOf(value, atoms) ==
    LET found == {i \in DOMAIN value : value[i] \in atoms} IN
    IF found = {} THEN 0 ELSE CHOOSE i \in found : \A j \in found : i >= j
Slice(value, from, to) == SubSeq(value, from, IF to = 0 THEN Len(value) ELSE to - 1)

RECURSIVE Trim(_)
Trim(value) ==
    IF value = <<>> THEN value
    ELSE IF Head(value) = " " THEN Trim(Tail(value))
    ELSE IF Last(value) = " " THEN Trim(Front(value)) ELSE value

\* A quoted text and where it ends: only a quote and a backslash are escaped.
RECURSIVE Quoted(_, _)
Quoted(value, at) ==
    IF at > Len(value) \/ value[at] = "quote" THEN [text |-> <<>>, end |-> at]
    ELSE LET escaped == value[at] = "backslash" /\ at < Len(value)
                            /\ value[at + 1] \in {"quote", "backslash"}
             i == IF escaped THEN at + 1 ELSE at
             rest == Quoted(value, i + 1)
         IN  [rest EXCEPT !.text = <<value[i]>> \o @]

\* RFC 5987: undefined on another charset or a bad escape.
DecodeExtended(text) ==
    LET first == IndexOf(text, {"'"}, 1)
        second == IndexOf(text, {"'"}, first + 1)
    IN  IF first = 0 \/ second = 0 \/ Slice(text, 1, first) # <<"utf-8">>
           \/ IndexOf(text, {"%bad"}, second) # 0
        THEN None
        ELSE [i \in 1 .. Len(text) - second |->
                 IF text[second + i] = "%e" THEN "e" ELSE text[second + i]]

\* The parameters from a place on; `extended` is filename*, kept apart.
RECURSIVE ReadParameters(_, _, _)
ReadParameters(value, at, part) ==
    LET equals == IndexOf(value, {"="}, at) IN
    IF at > Len(value) \/ equals = 0 THEN part
    ELSE LET key == Trim(Slice(value, at, equals))
             blank == {i \in equals + 1 .. Len(value) : value[i] # " "}
             start == IF blank = {} THEN Len(value) + 1
                      ELSE CHOOSE i \in blank : \A j \in blank : i <= j
             bare == start > Len(value) \/ value[start] # "quote"
             text == IF bare THEN Trim(Slice(value, start, IndexOf(value, {";"}, start)))
                     ELSE Quoted(value, start + 1).text
             end == IF bare THEN IndexOf(value, {";"}, start)
                    ELSE IndexOf(value, {";"}, Quoted(value, start + 1).end)
             read == CASE key = <<"name">> -> [part EXCEPT !.name = text]
                       [] key = <<"filename">> -> [part EXCEPT !.filename = text]
                       [] key = <<"filename*">> -> [part EXCEPT !.extended = DecodeExtended(text)]
                       [] OTHER -> part
         IN  IF end = 0 THEN read ELSE ReadParameters(value, end + 1, read)

ReadDisposition(value, part) ==
    LET semicolon == IndexOf(value, {";"}, 1)
        read == IF semicolon = 0 THEN part ELSE ReadParameters(value, semicolon + 1, part)
    IN  IF Trim(Slice(value, 1, semicolon)) # <<"form-data">> THEN part
        ELSE [read EXCEPT !.extended = None,
                          !.filename = IF read.extended # None THEN read.extended ELSE @]

NoHeaders == [name |-> None, filename |-> None, extended |-> None, mimetype |-> None]
ReadHeader(part, line) ==
    CASE line.kind # "line" -> part
      [] line.name = "content-disposition" -> ReadDisposition(line.value, part)
      [] line.name = "content-type" -> [part EXCEPT !.mimetype = line.value]
      [] OTHER -> part
ReadPartHeaders(block) == FoldLeft(ReadHeader, NoHeaders, block)

\* A client's path is not followed.
BaseName(filename) ==
    LET base == Slice(filename, LastIndexOf(filename, {"/", "backslash"}) + 1, 0) IN
    IF base \in {<<".">>, <<"..">>} THEN <<>> ELSE base

-----------------------------------------------------------------------------
(* The body                                                                *)

Incomplete == [fields |-> <<>>, files |-> <<>>, complete |-> FALSE]
Nothing == [Incomplete EXCEPT !.complete = TRUE]

\* A repeated field is a list.
PutField(fields, name, value) ==
    IF \E i \in DOMAIN fields : fields[i].name = name
    THEN LET at == CHOOSE i \in DOMAIN fields : fields[i].name = name IN
         [fields EXCEPT ![at].values = Append(@, value)]
    ELSE Append(fields, [name |-> name, values |-> <<value>>])

Take(form, part, content) ==
    CASE part.name = None -> form
      [] part.name # None /\ part.filename = None ->
            [form EXCEPT !.fields = PutField(@, part.name, content)]
      [] OTHER ->
            LET original == BaseName(part.filename) IN
            IF original = <<>> THEN form
            ELSE [form EXCEPT !.files = Append(@,
                    [fieldname |-> part.name, originalname |-> original, buffer |-> content,
                     mimetype |-> IF part.mimetype = None THEN "application/octet-stream"
                                  ELSE part.mimetype])]

\* The blank line: a part with no headers starts on it.
HeadersEnd(body, next) ==
    LET found == {i \in DOMAIN body : i >= next /\ Kind(body, i) = "N" /\ Kind(body, i + 1) = "N"} IN
    IF Kind(body, next) = "N" THEN next
    ELSE IF found = {} THEN 0 ELSE CHOOSE i \in found : \A j \in found : i <= j

\* A bug: the delimiter of an empty part is looked for past the blank line.
FromPast(start) == start
\* From the blank line's own CRLF.
From(start) == start - 1

RECURSIVE ReadParts(_, _, _)
ReadParts(body, delimiter, form) ==
    LET next == delimiter.next
        headersEnd == HeadersEnd(body, next)
        start == IF headersEnd = next THEN next + 1 ELSE headersEnd + 2
        stop == FindDelimiter(body, From(start))
        end == IF stop > start THEN stop ELSE start
        part == ReadPartHeaders(SubSeq(body, next, headersEnd - 1))
    IN  CASE delimiter.is = CLOSED -> form
          [] delimiter.is # CLOSED /\ (headersEnd = 0 \/ stop = 0) -> Incomplete
          [] OTHER -> ReadParts(body, DelimiterEnd(body, stop + 2),
                                Take(form, part, SubSeq(body, start, end - 1)))

ParseMultipart(body) ==
    LET opens == IF Kind(body, 1) = "B" THEN DelimiterEnd(body, 2)
                 ELSE [is |-> NOT_A_DELIMITER, next |-> 0]
        first == FindDelimiter(body, 1)
    IN  CASE opens.is # NOT_A_DELIMITER -> ReadParts(body, opens, Nothing)
          [] opens.is = NOT_A_DELIMITER /\ first = 0 -> Incomplete
          [] OTHER -> ReadParts(body, DelimiterEnd(body, first + 2), Nothing)

-----------------------------------------------------------------------------
(* A sender                                                                *)

\* A part: the names as they are meant, how the texts are written, and its content;
\* `bodiless` ends its headers on the delimiter itself.
PartType ==
    [name : Seq(STRING) \cup {None}, filename : Seq(STRING) \cup {None},
     extended : Seq(STRING) \cup {None}, mimetype : STRING \cup {None},
     escaped : BOOLEAN, bodiless : BOOLEAN, content : Seq(STRING)]

Escaped(text) ==
    FlattenSeq([i \in DOMAIN text |->
        IF text[i] \in {"quote", "backslash"} THEN <<"backslash", text[i]>> ELSE <<text[i]>>])
Parameter(key, text, escaped) ==
    <<";", " ", key, "=", "quote">> \o (IF escaped THEN Escaped(text) ELSE text) \o <<"quote">>
Disposition(part) ==
    <<"form-data">>
    \o (IF part.extended = None THEN <<>> ELSE <<";", "filename*", "=">> \o part.extended)
    \o Parameter("name", part.name, part.escaped)
    \o (IF part.filename = None THEN <<>> ELSE Parameter("filename", part.filename, part.escaped))
HeaderLines(part) ==
    (IF part.name = None THEN <<>> ELSE <<Line("content-disposition", Disposition(part)), Token("N")>>)
    \o (IF part.mimetype = None THEN <<>> ELSE <<Line("content-type", part.mimetype), Token("N")>>)

Delimiter == IF padded THEN Tokens(<<"B", "S", "N">>) ELSE Tokens(<<"B", "N">>)
PartWritten(part) ==
    Delimiter \o HeaderLines(part)
    \o (IF part.bodiless THEN <<>> ELSE <<Token("N")>> \o Tokens(part.content)) \o <<Token("N")>>
Written ==
    Tokens(preamble) \o (IF preamble = <<>> THEN <<>> ELSE <<Token("N")>>)
    \o FlattenSeq([i \in DOMAIN parts |-> PartWritten(parts[i])])
    \o Tokens(<<"B", "D">>)
Epilogue == Tokens(<<"N", "x">>)

\* The boundary is one that does not occur in what it divides.
Divides(content) ==
    LET within == Tokens(<<"N">> \o content \o <<"N">>) IN
    ~\E i \in DOMAIN within : Opens(within, i)

\* What was meant: fields in the order of their names, files with their last segment.
FilenameMeant(part) ==
    IF part.extended # None /\ DecodeExtended(part.extended) # None
    THEN DecodeExtended(part.extended) ELSE part.filename
Meant ==
    FoldLeft(LAMBDA form, part :
                 Take(form, [NoHeaders EXCEPT !.name = part.name, !.filename = FilenameMeant(part),
                                              !.mimetype = part.mimetype],
                      IF part.bodiless THEN <<>> ELSE Tokens(part.content)),
             Nothing, parts)

-----------------------------------------------------------------------------
Init == parts = <<>> /\ preamble \in {p \in Preamble : Divides(p)} /\ padded \in BOOLEAN

Send(part) ==
    /\ Len(parts) < MaxParts
    /\ Divides(part.content)
    /\ parts' = Append(parts, part)
    /\ UNCHANGED <<preamble, padded>>

Next == \E part \in Part : Send(part)
Spec == Init /\ [][Next]_vars

-----------------------------------------------------------------------------
\* A body is read as the parts that were written, whatever comes before and after
\* them and however close their content is to a delimiter.
ReadAsMeant == ParseMultipart(Written) = Meant /\ ParseMultipart(Written \o Epilogue) = Meant

\* A body that stops before its closing delimiter is refused, never read in part.
CutIsRefused ==
    \A n \in 0 .. Len(Written) - 1 : ~ParseMultipart(SubSeq(Written, 1, n)).complete
=============================================================================
