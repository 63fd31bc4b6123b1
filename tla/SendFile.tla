------------------------------ MODULE SendFile ------------------------------
(***************************************************************************)
(* res.sendFile (src/response.js): the checks of the path, the conditional *)
(* and range requests, and the bytes, read whole when the file is small    *)
(* and piped otherwise, while the file may be replaced and the client may  *)
(* leave.                                                                  *)
(*                                                                         *)
(* A version of the file is its size and its mtime; byte i of version v is *)
(* told apart from byte i of any other. A date is a second, and two        *)
(* versions may share one; a tag has the size and the mtime itself.        *)
(***************************************************************************)
EXTENDS Integers, Sequences, FiniteSets, FiniteSetsExt

CONSTANTS
    Versions,       \* the file over time: a sequence of [size, mtime]
    Calls,          \* [req, opt]: the headers a client sends, the options and the path
    SmallSize,      \* 768 KB
    PieceSize,      \* HIGH_WATERMARK: what the source is read by
    Star,           \* "*"
    Unset

\* A range has a first byte, a last one or both.
RequestAssumption(q) ==
    /\ q.method \in {"GET", "HEAD", "POST"}
    /\ q.ifUnmodified \in Nat \cup {Unset} /\ q.ifModified \in Nat \cup {Unset}
    /\ q.ranges # Unset =>
          \A s \in q.ranges : /\ {s.first, s.last} \subseteq Nat \cup {Unset}
                              /\ {s.first, s.last} # {Unset}

\* A program that gives both options gives a window of a byte at least.
OptionsAssumption(o) ==
    /\ o.start \in Nat /\ o.end \in Nat \cup {Unset}
    /\ o.end # Unset => o.start <= o.end
    /\ {o.acceptRanges, o.callback, o.lastModified} \subseteq BOOLEAN

\* What the constants must be.
ASSUME SendFileAssumption ==
    /\ Versions \in Seq([size : Nat, mtime : Nat])
    /\ SmallSize \in Nat /\ PieceSize \in Nat \ {0} /\ Unset \notin Nat
    /\ \A c \in Calls : RequestAssumption(c.req) /\ OptionsAssumption(c.opt)

VARIABLES
    req, opt,
    disk,       \* the version on the disk, 0 when there is none
    stage,      \* "called", "reading", "opening", "piping", "over"
    stat,       \* the version the call was told of
    res,        \* the status, the validators and the framing told
    body,       \* which bytes went out: the version, the first, how many
    source,     \* the stream's file: the version open, the next byte, the last
    gone,       \* the client left
    heard       \* the callback's calls and next()'s, in order

sendVars == <<req, opt, disk, stage, stat, res, body, source, gone, heard>>

Revision == 1 .. Len(Versions)
FileSize(v) == Versions[v].size
Second(v) == Versions[v].mtime \div 2
Tag(v) == [weak |-> TRUE, size |-> FileSize(v), mtime |-> Versions[v].mtime]

NoRange == [from |-> 0, to |-> 0, of |-> 0]
NoBody == [of |-> 0, from |-> 0, count |-> 0]
NoSource == [of |-> 0, at |-> 0, end |-> Unset]
Unsent == [status |-> 200, tag |-> Unset, date |-> Unset, ranges |-> FALSE,
           part |-> NoRange, length |-> Unset, headOut |-> FALSE, ended |-> FALSE]

SendInit ==
    /\ \E c \in Calls : req = c.req /\ opt = c.opt
    /\ disk \in Revision \cup {0}
    /\ stage = "called" /\ stat = 0 /\ res = Unsent /\ body = NoBody
    /\ source = NoSource /\ gone = FALSE /\ heard = <<>>

-----------------------------------------------------------------------------
\* Express's completion handler: the callback hears everything; without one an
\* error is next(err)'s, a directory a plain next(), an abort nobody's.
Done(error) ==
    CASE opt.callback -> Append(heard, <<"callback", error>>)
      [] ~opt.callback /\ error = "EISDIR" -> Append(heard, <<"next", "">>)
      [] ~opt.callback /\ error \notin {"", "EISDIR", "ECONNABORTED"} ->
            Append(heard, <<"next", error>>)
      [] OTHER -> heard

Called(error) == IF opt.callback THEN Append(heard, <<"callback", error>>) ELSE heard

\* What the path is refused with, "" when it is not.
DotRefusal(o) ==
    CASE o.path \notin {"hidden name", "hidden directory"} -> ""
      [] o.dotfiles = "allow" -> ""
      [] o.dotfiles = "deny" -> "403"
      [] o.dotfiles = "ignore_files" /\ o.path = "hidden directory" -> ""
      [] OTHER -> "404"

PathRefusal(o) ==
    CASE o.path \in {"undecodable", "nul"} -> "400"
      [] o.path = "out" -> "403"
      [] o.path = "up and back" /\ ~o.root -> "403"
      [] OTHER -> DotRefusal(o)

\* The validators on the response when the conditions are judged.
TagOf(o, v) == IF o.ownTag # Unset THEN o.ownTag ELSE IF o.etag THEN Tag(v) ELSE Unset
DateOf(o, v) == IF o.lastModified THEN Second(v) ELSE Unset

SameEntity(t, u) == [t EXCEPT !.weak = TRUE] = [u EXCEPT !.weak = TRUE]

\* If-Match, and If-Unmodified-Since only without it. Two weak tags match
\* when they are the same text; a strong one matches its weak form.
TagMatches(t, u) ==
    \/ t = u
    \/ t.weak # u.weak /\ SameEntity(t, u)

PreconditionFailure(q, tag, date) ==
    IF q.ifMatch # Unset
    THEN \/ tag = Unset
         \/ /\ q.ifMatch # Star
            /\ \A t \in q.ifMatch : ~TagMatches(t, tag)
    ELSE /\ q.ifUnmodified # Unset
         /\ date = Unset \/ date > q.ifUnmodified

\* The fresh package: If-Modified-Since only without If-None-Match.
Fresh(q, tag, date) ==
    /\ q.method \in {"GET", "HEAD"}
    /\ q.ifNoneMatch # Unset \/ q.ifModified # Unset
    /\ ~q.noCache
    /\ IF q.ifNoneMatch # Unset
       THEN \/ q.ifNoneMatch = Star
            \/ /\ tag # Unset /\ q.ifNoneMatch # Star
               /\ \E t \in q.ifNoneMatch : SameEntity(t, tag)
       ELSE date # Unset /\ date <= q.ifModified

\* If-Range: the tag as a text inside it, or a date the file is not newer than.
RangeFresh(q, tag, date) ==
    CASE q.ifRange = Unset -> TRUE
      [] q.ifRange # Unset /\ "date" \in DOMAIN q.ifRange ->
            date # Unset /\ date <= q.ifRange.date
      [] OTHER -> tag # Unset /\ q.ifRange \in {tag, [tag EXCEPT !.weak = TRUE]}

\* The range-parser package over a resource of n bytes: the satisfiable
\* ranges; a suffix longer than the resource is not one of them.
Interval(s, n) ==
    LET first == IF s.first = Unset THEN n - s.last ELSE s.first
        last == IF s.first = Unset \/ s.last = Unset \/ s.last > n - 1
                THEN n - 1 ELSE s.last
    IN IF first < 0 THEN {} ELSE first .. last

Covered(specs, n) == UNION {Interval(s, n) : s \in specs}

\* Combined, overlapping and adjacent ranges are one.
OneRange(specs, n) ==
    LET bytes == Covered(specs, n) IN bytes = Min(bytes) .. Max(bytes)

-----------------------------------------------------------------------------
\* The start and end options, and what is left of the file in them.
Window(o, v) ==
    LET rest == Max({0, FileSize(v) - o.start})
    IN [from |-> o.start,
        len |-> IF o.end = Unset THEN rest ELSE Min({rest, o.end - o.start + 1})]

RangeAsked(q, o) == o.acceptRanges /\ q.ranges # Unset /\ q.unit = "bytes"

\* A bug: a range counts from the file, not from the window asked for.
RangeOfTheFile(q, o, tag, date, w) ==
    IF RangeAsked(q, o) /\ Covered(q.ranges, w.len) # {} /\ OneRange(q.ranges, w.len)
    THEN [from |-> Min(Covered(q.ranges, w.len)),
          len |-> Cardinality(Covered(q.ranges, w.len))]
    ELSE w

\* 416, one part, or the whole window.
Ranged(q, o, tag, date, w) ==
    CASE ~RangeAsked(q, o) \/ ~RangeFresh(q, tag, date) -> w
      [] OTHER ->
            IF Covered(q.ranges, w.len) = {} THEN [w EXCEPT !.len = -1]
            ELSE IF ~OneRange(q.ranges, w.len) THEN w
            ELSE [from |-> w.from + Min(Covered(q.ranges, w.len)),
                  len |-> Cardinality(Covered(q.ranges, w.len))]

Part(w, p) == [from |-> p.from - w.from, to |-> p.from - w.from + p.len - 1, of |-> w.len]
IsPart(q, o, tag, date, w) ==
    /\ RangeAsked(q, o) /\ RangeFresh(q, tag, date)
    /\ Covered(q.ranges, w.len) # {} /\ OneRange(q.ranges, w.len)

Partial(v, p) == p.from > 0 \/ p.len < FileSize(v)

Refuse(error) ==
    /\ heard' = Done(error)
    /\ stage' = "over" /\ UNCHANGED <<stat, res, body, source>>

\* Everything from the call to the bytes, in one piece of JavaScript.
Send(v) ==
    LET tag == TagOf(opt, v)
        date == DateOf(opt, v)
        w == Window(opt, v)
        p == Ranged(req, opt, tag, date, w)
        told == [res EXCEPT !.tag = tag, !.date = date, !.ranges = opt.acceptRanges]
        parted == IF IsPart(req, opt, tag, date, w)
                  THEN [told EXCEPT !.status = 206, !.part = Part(w, p)] ELSE told
    IN /\ stat' = v
       /\ CASE PreconditionFailure(req, tag, date) ->
                  /\ res' = told /\ heard' = Done("412")
                  /\ stage' = "over" /\ UNCHANGED <<body, source>>
            [] ~PreconditionFailure(req, tag, date) /\ Fresh(req, tag, date) ->
                  /\ res' = [told EXCEPT !.status = 304, !.headOut = TRUE, !.ended = TRUE]
                  /\ heard' = Called("")
                  /\ stage' = "over" /\ UNCHANGED <<body, source>>
            [] ~PreconditionFailure(req, tag, date) /\ ~Fresh(req, tag, date) /\ p.len = -1 ->
                  /\ res' = [told EXCEPT !.part = [NoRange EXCEPT !.of = w.len]]
                  /\ heard' = Done("416")
                  /\ stage' = "over" /\ UNCHANGED <<body, source>>
            [] OTHER ->
                  IF req.method = "HEAD"
                  THEN /\ res' = [parted EXCEPT !.length = p.len, !.headOut = TRUE,
                                                !.ended = TRUE]
                       /\ heard' = Called("")
                       /\ stage' = "over" /\ UNCHANGED <<body, source>>
                  ELSE /\ UNCHANGED <<heard, body>>
                       /\ IF FileSize(v) < SmallSize /\ ~Partial(v, p)
                          THEN /\ stage' = "reading" /\ res' = parted
                               /\ UNCHANGED source
                          ELSE /\ stage' = "opening"
                               /\ res' = [parted EXCEPT !.length = p.len]
                               /\ source' = [of |-> 0, at |-> p.from,
                                             end |-> IF Partial(v, p)
                                                     THEN Max({p.from, p.from + p.len - 1})
                                                     ELSE Unset]

\* The path, the stat, and then the rest.
Call ==
    /\ stage = "called"
    /\ CASE PathRefusal(opt) # "" -> Refuse(PathRefusal(opt))
         [] PathRefusal(opt) = "" /\ disk = 0 -> Refuse("404")
         [] PathRefusal(opt) = "" /\ disk # 0 /\ opt.path = "directory" -> Refuse("EISDIR")
         [] OTHER -> Send(disk)
    /\ UNCHANGED <<req, opt, disk, gone>>

-----------------------------------------------------------------------------
\* Somebody replaces the file, or takes it away.
Replace ==
    /\ stage # "over"
    /\ \/ disk < Len(Versions) /\ disk' = disk + 1
       \/ disk' = 0
    /\ disk # 0
    /\ UNCHANGED <<req, opt, stage, stat, res, body, source, gone, heard>>

\* The client leaves before it has the whole answer.
Abort ==
    /\ ~gone /\ ~res.ended /\ stage \in {"reading", "opening", "piping"}
    /\ gone' = TRUE
    /\ IF stage = "reading"
       THEN UNCHANGED <<stage, source>>
       ELSE stage' = "over" /\ source' = NoSource      \* cleanup: file.destroy()
    /\ UNCHANGED <<req, opt, disk, stat, res, body, heard>>

\* readSmallFile answers, with what the disk had when it was read. A read that failed
\* is an error whoever is still there; bytes for a client that left are an abort.
ReadSmall ==
    /\ stage = "reading"
    /\ stage' = "over"
    /\ IF disk = 0 THEN heard' = Done("404") /\ UNCHANGED <<res, body>>
       ELSE IF gone THEN heard' = Called("ECONNABORTED") /\ UNCHANGED <<res, body>>
       ELSE /\ body' = [of |-> disk, from |-> 0, count |-> FileSize(disk)]
            /\ res' = [res EXCEPT !.length = FileSize(disk), !.headOut = TRUE, !.ended = TRUE]
            /\ heard' = Called("")
    /\ UNCHANGED <<req, opt, disk, stat, source, gone>>

Open ==
    /\ stage = "opening"
    /\ IF disk = 0
       THEN /\ stage' = "over" /\ heard' = Done("404") /\ source' = NoSource
            /\ UNCHANGED body
       ELSE /\ stage' = "piping" /\ source' = [source EXCEPT !.of = disk]
            /\ body' = [NoBody EXCEPT !.of = disk, !.from = source.at]
            /\ UNCHANGED heard
    /\ UNCHANGED <<req, opt, disk, stat, res, gone>>

SourceEnd == LET last == FileSize(source.of) - 1
             IN IF source.end = Unset THEN last ELSE Min({last, source.end})

PieceLength == Min({PieceSize, SourceEnd - source.at + 1})

\* A piece goes to the response. The one that makes the length ends it, and
\* its socket's 'close' destroys the source, whose end may not have been read.
PieceArrives ==
    /\ stage = "piping" /\ source.at <= SourceEnd
    /\ body' = [body EXCEPT !.count = @ + PieceLength]
    /\ IF body.count + PieceLength = res.length
       THEN /\ res' = [res EXCEPT !.headOut = TRUE, !.ended = TRUE]
            /\ source' = NoSource /\ stage' = "over"
            /\ heard' \in {heard, Called("")}
       ELSE /\ res' = [res EXCEPT !.headOut = TRUE]
            /\ source' = [source EXCEPT !.at = @ + PieceLength]
            /\ UNCHANGED <<stage, heard>>
    /\ UNCHANGED <<req, opt, disk, stat, gone>>

\* The read fails: before the head it is an error like any other, after it
\* the connection is dropped.
ReadError ==
    /\ stage = "piping" /\ source.at <= SourceEnd
    /\ stage' = "over" /\ source' = NoSource
    /\ IF ~res.headOut THEN heard' = Done("500") /\ UNCHANGED gone
       ELSE heard' = Called("500") /\ gone' = TRUE
    /\ UNCHANGED <<req, opt, disk, stat, res, body>>

\* The source ends short of the length, or was asked for nothing: pipe() ends
\* the response.
SourceEnds ==
    /\ stage = "piping" /\ source.at > SourceEnd
    /\ stage' = "over" /\ source' = NoSource
    /\ heard' = Called("")
    /\ res' = [res EXCEPT !.headOut = TRUE, !.ended = @ \/ body.count = res.length]
    /\ UNCHANGED <<req, opt, disk, stat, body, gone>>

SendNext == Call \/ Replace \/ Abort \/ ReadSmall \/ Open \/ PieceArrives \/ ReadError \/ SourceEnds

SendSpec == SendInit /\ [][SendNext]_sendVars

-----------------------------------------------------------------------------
\* What a client may conclude from a complete answer: it has as many bytes as
\* it was told; if the file was not replaced on the way they are the ones
\* the options and its ranges select, and the part it is told is theirs.
Wanted ==
    LET inWindow == {i \in 0 .. FileSize(stat) - 1 :
                        i >= opt.start /\ (opt.end # Unset => i <= opt.end)}
        n == Cardinality(inWindow)
        asked(i) == \E s \in req.ranges :
                        CASE s.first = Unset -> n - s.last <= i /\ s.last <= n
                          [] s.first # Unset /\ s.last = Unset -> s.first <= i
                          [] OTHER -> s.first <= i /\ i <= s.last
    IN IF res.status = 206 THEN {i \in inWindow : asked(i - opt.start)} ELSE inWindow

ToldIsSent ==
    /\ body.of = stat => res.length = Unset \/ body.count <= res.length
    /\ res.ended /\ res.status \in {200, 206} /\ req.method # "HEAD" =>
            /\ body.count = res.length
            /\ body.of = stat =>
                  /\ body.from .. (body.from + body.count - 1) = Wanted
                  /\ res.status = 206 => /\ res.part.to - res.part.from + 1 = res.length
                                        /\ res.part.from = body.from - opt.start

\* The callback and next() hear once at most, next() never of an answer that
\* has begun, and a complete answer is not an error.
HeardOnce ==
    /\ Len(heard) <= 1
    /\ heard # <<>> /\ heard[1][1] = "next" => ~res.headOut
    /\ res.ended /\ heard # <<>> => heard[1][2] = ""

\* What arrives is what was told and asked, and is heard of once (response.js
\* sendFile).
BytesAsTold == ToldIsSent /\ HeardOnce

\* The validators decide before the range does: a client that holds the file
\* is not sent it again, in part or as an error, one whose condition fails is
\* sent nothing, and a 304 is only for a client that holds it.
Holds(v) ==
    IF req.ifNoneMatch # Unset
    THEN req.ifNoneMatch = Star \/ \E t \in req.ifNoneMatch :
            TagOf(opt, v) # Unset /\ SameEntity(t, TagOf(opt, v))
    ELSE req.ifModified # Unset /\ opt.lastModified /\ Second(v) <= req.ifModified

Denied(v) ==
    IF req.ifMatch # Unset
    THEN ~(req.ifMatch = Star /\ TagOf(opt, v) # Unset)
         /\ ~ \E t \in IF req.ifMatch = Star THEN {} ELSE req.ifMatch :
                TagOf(opt, v) # Unset /\ TagMatches(t, TagOf(opt, v))
    ELSE req.ifUnmodified # Unset /\ (opt.lastModified => Second(v) > req.ifUnmodified)

ConditionsFirst ==
    stat # 0 =>
        /\ Denied(stat) <=> heard # <<>> /\ heard[1][2] = "412"
        /\ res.status = 304 <=> ~Denied(stat) /\ Holds(stat) /\ ~req.noCache
                                /\ req.method # "POST"
        /\ Denied(stat) => body = NoBody

\* The comment over the completion handler: a callback hears everything.
CallbackHears == stage = "over" /\ opt.callback => heard # <<>>
=============================================================================
