------------------------------ MODULE MCFiles ------------------------------
(***************************************************************************)
(* The files: part "send" is res.sendFile, part "static" express.static,    *)
(* part "cache" the reads shared by those who want the same small file. One *)
(* of them moves in a behaviour.                                            *)
(***************************************************************************)
EXTENDS FileCache, SendFile

VARIABLES part,
    option, present, now, twins, stats, job, outcome, served

staticVars == <<option, present, now, twins, stats, job, outcome, served>>

\* Sizes on either side of SmallSize; the first two share a second.
MCVersions == <<[size |-> 2, mtime |-> 2], [size |-> 5, mtime |-> 3], [size |-> 4, mtime |-> 6]>>

WeakTag(v) == [weak |-> TRUE, size |-> MCVersions[v].size, mtime |-> MCVersions[v].mtime]
StrongTag(v) == [WeakTag(v) EXCEPT !.weak = FALSE]

Plain == [method |-> "GET", unit |-> "bytes", ranges |-> Unset, ifRange |-> Unset,
          ifMatch |-> Unset, ifUnmodified |-> Unset, ifNoneMatch |-> Unset,
          ifModified |-> Unset, noCache |-> FALSE]

From(i) == [first |-> i, last |-> Unset]
Span(i, j) == [first |-> i, last |-> j]
Suffix(n) == [first |-> Unset, last |-> n]

RangeRequests ==
    {[Plain EXCEPT !.ranges = rs, !.unit = u, !.ifRange = ir, !.method = m] :
        rs \in {{From(1)}, {Span(0, 0)}, {Span(1, 9)}, {Suffix(2)}, {Suffix(9)}, {From(9)},
                {Span(0, 0), Span(3, 3)}, {Span(0, 1), From(2)}},
        u \in {"bytes", "lines"}, m \in {"GET", "HEAD"},
        ir \in {Unset, [date |-> 1], WeakTag(2)}}

ConditionalRequests ==
    {[Plain EXCEPT !.ranges = rs, !.ifMatch = im, !.ifUnmodified = iu,
                   !.ifNoneMatch = inm, !.ifModified = imo, !.noCache = nc] :
        rs \in {Unset, {From(9)}}, im \in {Unset, Star, {WeakTag(2)}, {StrongTag(2), WeakTag(1)}},
        iu \in {Unset, 1}, inm \in {Unset, Star, {StrongTag(2)}}, imo \in {Unset, 0, 1},
        nc \in BOOLEAN}

Defaults == [start |-> 0, end |-> Unset, acceptRanges |-> TRUE, etag |-> TRUE,
             lastModified |-> TRUE, ownTag |-> Unset, path |-> "plain", root |-> TRUE,
             dotfiles |-> "ignore", callback |-> TRUE]

Windows == {Defaults, [Defaults EXCEPT !.callback = FALSE],
            [Defaults EXCEPT !.start = 1, !.end = 3], [Defaults EXCEPT !.start = 9],
            [Defaults EXCEPT !.end = 0, !.acceptRanges = FALSE]}
Validators == {Defaults, [Defaults EXCEPT !.etag = FALSE],
               [Defaults EXCEPT !.etag = FALSE, !.lastModified = FALSE],
               [Defaults EXCEPT !.ownTag = StrongTag(2), !.callback = FALSE]}
Paths == {[Defaults EXCEPT !.path = p, !.root = r, !.dotfiles = d, !.callback = c] :
            p \in {"undecodable", "nul", "out", "up and back", "hidden name",
                   "hidden directory", "directory"},
            r \in BOOLEAN, d \in {"ignore", "deny", "ignore_files"}, c \in BOOLEAN}

Pairs(requests, options) == {[req |-> q, opt |-> o] : q \in requests, o \in options}

MCCalls == Pairs(RangeRequests, Windows) \cup Pairs(ConditionalRequests, Validators)
         \cup Pairs({Plain, [Plain EXCEPT !.method = "POST", !.ifNoneMatch = Star]},
                    Windows \cup Paths)


-----------------------------------------------------------------------------
Css == <<"site", "css">>
CssBr == <<"site", "css", "br">>
CssGz == <<"site", "css", "gz">>
Index == <<"index", "html">>
Page == <<"page">>
PageHtml == <<"page", "html">>
Env == <<"", "env">>
Docs == <<"docs">>

Tree == {<<Css>>, <<CssBr>>, <<CssGz>>, <<Env>>, <<PageHtml>>, <<Docs, Index>>,
          <<Docs, Append(Index, "gz")>>, <<Env, Css>>}
Initially == {Tree \ {<<CssBr>>, <<Env, Css>>}, Tree \ {<<CssGz>>, <<Env>>}}

Url(names) == [names |-> names, raw |-> FALSE, slash |-> FALSE, ends |-> FALSE, bad |-> FALSE]
Slashed(names) == [Url(names) EXCEPT !.raw = TRUE, !.slash = TRUE, !.ends = TRUE]
Up == <<"..">>

Urls == {Url(<<Css>>), [Url(<<Css>>) EXCEPT !.slash = TRUE], Slashed(<<Css>>),
         Url(<<Page>>), Url(<<Env>>), Url(<<Env, Css>>), Url(<<Docs>>), Slashed(<<Docs>>),
         Url(<<Docs, Up, Css>>), Url(<<Up, Css>>), Url(<<Env, Up, Css>>),
         [Slashed(<<>>) EXCEPT !.ends = FALSE], [Url(<<Css>>) EXCEPT !.bad = TRUE]}

Accepts == {<<>>, [br |-> 10, gzip |-> 10], [gzip |-> 5, identity |-> 8], [br |-> 0, gzip |-> 9],
            [n \in {"*"} |-> 5]}
StaticRequests ==
    {[method |-> "GET", url |-> u, accept |-> [br |-> 10, gzip |-> 10]] : u \in Urls}
    \cup {[method |-> "GET", url |-> Url(<<Css>>), accept |-> a] : a \in Accepts}
    \cup {[method |-> m, url |-> Url(<<Css>>), accept |-> [br |-> 10, gzip |-> 10]] :
            m \in {"HEAD", "POST"}}

StaticDefaults == [preCompressed |-> TRUE, fallthrough |-> TRUE, dotfiles |-> "ignore",
                   redirect |-> TRUE, index |-> <<Index>>, extensions |-> <<"html">>]
StaticOptions ==
    {StaticDefaults, [StaticDefaults EXCEPT !.dotfiles = "deny", !.index = <<>>],
     [StaticDefaults EXCEPT !.preCompressed = FALSE, !.fallthrough = FALSE,
                            !.dotfiles = "ignore_files", !.redirect = FALSE]}

IsText(name) == name[Len(name)] \in {"css", "html"}

F == INSTANCE StaticFiles WITH
        opt <- option, Files <- Tree, Requests <- StaticRequests, Options <- StaticOptions,
        Dirs <- {<<>>, <<Docs>>}, Deployed <- {<<CssBr>>}, Twinned <- IsText,
        StatWindow <- 1, TwinWindow <- 2, MaxTime <- 2, MaxRequests <- 3

-----------------------------------------------------------------------------
SendOff ==
    /\ req = Plain /\ opt = Defaults /\ disk = 1 /\ stage = "over" /\ stat = 0
    /\ res = Unsent /\ body = NoBody /\ source = NoSource /\ gone = FALSE
    /\ heard = <<<<"callback", "">>>>

StaticOff ==
    /\ option = StaticDefaults
    /\ present = [f \in Tree |-> [there |-> FALSE, since |-> 0]]
    /\ now = 0 /\ twins = {} /\ stats = {} /\ job = F!NoJob
    /\ outcome = F!NoOutcome /\ served = 0

ASSUME FilesAssumption == F!StaticAssumption

FilesInit ==
    /\ Init
    /\ \/ part = "send" /\ SendInit /\ StaticOff
       \/ part = "static" /\ F!Init /\ SendOff
       \/ part = "cache" /\ SendOff /\ StaticOff

\* What is remembered is of the file a deploy touches: the requests after the
\* first are for it.
StaticNext ==
    \/ \E r \in StaticRequests : (served > 0 => r.url = Url(<<Css>>)) /\ F!Serve(r)
    \/ F!Read
    \/ F!Write(<<CssBr>>)
    \/ F!Tick

FilesNext ==
    \/ part = "send" /\ SendNext /\ UNCHANGED <<part, staticVars, vars>>
    \/ part = "static" /\ StaticNext /\ UNCHANGED <<part, sendVars, vars>>
    \/ part = "cache" /\ Next /\ UNCHANGED <<part, sendVars, staticVars>>

\* The fairness of FileCache, in the behaviours of its part.
FilesSpec ==
    /\ FilesInit /\ [][FilesNext]_<<part, sendVars, staticVars, vars>>
    /\ \A t \in Threads :
          /\ WF_vars(part = "cache" /\ ThreadReads(t))
          /\ WF_vars(part = "cache" /\ Settle(t))

\* The file served is the one asked for: of a request whose conditions hold, judged
\* before its ranges (sendFile), and in a coding the client takes (express.static).
ServedIsAsked ==
    /\ ConditionsFirst
    /\ part = "static" => F!TypeOK /\ F!ServedIsAsked /\ F!CodingIsTaken

\* What was not touched for longer than anything is remembered is served as it is,
\* in its best coding; and whoever asks for a shared read is answered.
SettledIsServed == F!SettledIsServed /\ AskIsAnswered

\* Versions that differ in size.
MCSize(v) == v + 1
=============================================================================
