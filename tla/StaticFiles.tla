---------------------------- MODULE StaticFiles ----------------------------
(***************************************************************************)
(* express.static (src/static.js): which file a path is given, the         *)
(* compressed twin next to it, what is remembered of twins and of stats,   *)
(* and the way on to the next handler, over a directory that is being      *)
(* written while it is served.                                             *)
(*                                                                         *)
(* A name is a sequence: the stem, empty for a name that starts with a     *)
(* dot, and its extensions. A path is a sequence of names under the root.  *)
(* A url has its names decoded, and says whether it was written with a     *)
(* slash at the end (raw), has one after decoding (slash), or the request  *)
(* had one before a mount took its part (ends).                            *)
(***************************************************************************)
EXTENDS Integers, Sequences, FiniteSets, FiniteSetsExt, SequencesExt

CONSTANTS
    Files, Dirs,    \* the files that may be there, the directories that are
    Initially,      \* the sets of files a run starts with
    Deployed,       \* the files a deploy writes or removes
    Requests,       \* [url, accept, method]
    Options,        \* the middleware's
    Twinned(_),     \* whether a name's extension is worth compressing
    StatWindow, TwinWindow, MaxTime, MaxRequests

\* What the constants must be.
StaticAssumption ==
    /\ StatWindow \in Nat /\ TwinWindow \in Nat /\ MaxTime \in Nat /\ MaxRequests \in Nat
    /\ Deployed \subseteq Files /\ Initially \subseteq SUBSET Files

VARIABLES
    opt,
    present,    \* since when each file has been as it is, and whether it is there
    now,
    twins,      \* twinCache: a path, what is known, until when
    stats,      \* statCache: a path, until when
    job,        \* the request sendFile is reading for
    outcome,    \* what the last request came to
    served      \* requests so far

vars == <<opt, present, now, twins, stats, job, outcome, served>>

Up == <<"..">>
Encodings == {"br", "gzip"}
Suffix(e) == IF e = "br" THEN "br" ELSE "gz"
Hidden(name) == name[1] = "" /\ Len(name) > 1
Unknown == "unknown"
NoJob == [request |-> "none"]
NoOutcome == [kind |-> "none"]

TypeOK ==
    /\ opt \in Options /\ now \in 0 .. MaxTime /\ served \in 0 .. MaxRequests
    /\ present \in [Files -> [there : BOOLEAN, since : 0 .. MaxTime]]
    /\ \A k \in twins : k.until \in Nat
    /\ \A k \in stats : k.path \in Files \cup Dirs

Init ==
    /\ opt \in Options
    /\ \E there \in Initially :
            present = [f \in Files |-> [there |-> f \in there, since |-> 0]]
    /\ now = 0 /\ twins = {} /\ stats = {} /\ job = NoJob
    /\ outcome = NoOutcome /\ served = 0

-----------------------------------------------------------------------------
\* path.join: ".." takes the name before it away.
JoinNames(names) ==
    FoldLeft(LAMBDA path, n : IF n = Up THEN Front(path) ELSE Append(path, n), <<>>, names)

Depth(names) ==
    FoldLeft(LAMBDA d, n : IF n = Up THEN d - 1 ELSE d + 1, 0, names)

\* UP_PATH_REGEXP over the normalised path: some prefix is above the root.
ClimbsOut(names) == \E i \in 1 .. Len(names) : Depth(SubSeq(names, 1, i)) < 0

\* A bug: only the last name of the path is looked at.
LastNameOnly(names) ==
    IF names = <<>> \/ ~Hidden(Last(names)) \/ opt.dotfiles = "allow" THEN 0 ELSE 404

\* The path asked for, not one an index or an extension is added to.
DotRefusal(names) ==
    IF ~ \E i \in 1 .. Len(JoinNames(names)) : Hidden(JoinNames(names)[i]) THEN 0
    ELSE CASE opt.dotfiles = "deny" -> 403
           [] opt.dotfiles = "allow" -> 0
           [] opt.dotfiles = "ignore_files"
                /\ ~Hidden(Last(names)) /\ Last(names) # Up -> 0
           [] OTHER -> 404

\* What the disk says of a path, a slash at its end asking for a directory.
Disk(path, slash) ==
    CASE path \in Dirs -> "directory"
      [] path \in Files /\ present[path].there -> IF slash THEN "ENOTDIR" ELSE "file"
      [] \E i \in 1 .. Len(path) - 1 : LET parent == SubSeq(path, 1, i) IN
            parent \in Files /\ present[parent].there -> "ENOTDIR"
      [] OTHER -> "ENOENT"

\* cachedStat: an answer is good while its window holds, a failure is never kept.
Remembered(path) == \E k \in stats : k.path = path /\ k.until > now
Stat(path, slash) ==
    IF Remembered(path) /\ ~slash THEN "file" ELSE Disk(path, slash)

Learnt(path, known) ==
    IF StatWindow > 0 /\ ~Remembered(path) /\ Disk(path, FALSE) = "file"
    THEN {k \in known : k.path # path} \cup {[path |-> path, until |-> now + StatWindow]}
    ELSE known

-----------------------------------------------------------------------------
\* negotiateEncoding: the best quality, brotli before gzip on a tie, identity
\* only above both; unnamed, it is worth the lowest quality named.
Named(accept, name) == name \in DOMAIN accept
Quality(accept, name, otherwise) ==
    IF Named(accept, name) THEN accept[name]
    ELSE IF Named(accept, "*") THEN accept["*"] ELSE otherwise

Lowest(accept) == Min({10} \cup {accept[n] : n \in DOMAIN accept})

NegotiateEncoding(accept, allowed) ==
    LET q(e) == IF e \in allowed THEN Quality(accept, e, -1) ELSE -1
        identity == Quality(accept, "identity", Lowest(accept))
        best == Max({0, q("br"), q("gzip")})
    IN CASE identity > best -> "identity"
         [] identity <= best /\ best = 0 -> ""
         [] OTHER -> IF q("br") = best THEN "br" ELSE "gzip"

TwinPath(path, e) == Append(Front(path), Append(Last(path), Suffix(e)))

KnownTwins(path) == {k \in twins : k.path = path /\ k.until > now}
KnownNot(path, e) == \E k \in KnownTwins(path) : k.not[e]

Looks(path, accept) == DOMAIN accept # {} /\ path # <<>> /\ Twinned(Last(path))

\* pickPrecompressed: at most twice, the second time without the coding that
\* had no twin; "" when there is none to serve.
Attempt(path, accept, allowed) ==
    LET e == NegotiateEncoding(accept, allowed) IN
    IF e \notin Encodings THEN ""
    ELSE IF ~(TwinWindow > 0 /\ KnownNot(path, e))
            /\ Stat(TwinPath(path, e), FALSE) = "file" THEN e
    ELSE Unknown

Tried(path, accept) ==
    LET e == NegotiateEncoding(accept, Encodings) IN
    IF Attempt(path, accept, Encodings) = Unknown
    THEN {e, NegotiateEncoding(accept, Encodings \ {e})} \cap Encodings
    ELSE {e} \cap Encodings

PickPrecompressed(path, accept) ==
    IF ~Looks(path, accept) THEN ""
    ELSE LET first == Attempt(path, accept, Encodings)
             e == NegotiateEncoding(accept, Encodings)
             second == Attempt(path, accept, Encodings \ {e})
         IN IF first # Unknown THEN first
            ELSE IF second # Unknown THEN second ELSE ""

\* A bug: every look at the record keeps it longer.
WindowMoves(path, accept) ==
    [path |-> path, until |-> now + TwinWindow,
     not |-> [e \in Encodings |-> \/ e \in Tried(path, accept) \ {PickPrecompressed(path, accept)}
                                 \/ KnownNot(path, e)]]

\* twinsOf: the record of a path, new when the last one is too old, with what
\* a look at it found missing written into it.
Entry(path, accept) ==
    LET old == KnownTwins(path)
        missed == Tried(path, accept) \ {PickPrecompressed(path, accept)}
    IN [path |-> path,
        until |-> IF old = {} THEN now + TwinWindow ELSE (CHOOSE k \in old : TRUE).until,
        not |-> [e \in Encodings |-> e \in missed \/ KnownNot(path, e)]]

\* The caches after a look for the twins of each of these paths.
Look(paths, accept, statted) ==
    LET looked == {p \in paths : Looks(p, accept)} IN
    /\ twins' = IF TwinWindow = 0 THEN twins
                ELSE {k \in twins : k.path \notin looked}
                     \cup {Entry(p, accept) : p \in looked}
    /\ stats' = FoldSet(Learnt, statted,
                        UNION {{TwinPath(p, e) : e \in {c \in Tried(p, accept) : ~KnownNot(p, c)}} :
                                p \in looked})

-----------------------------------------------------------------------------
\* refuse(): next() under fallthrough, else the status and an error.
Refuse(r, status) ==
    /\ outcome' = [kind |-> "passed", request |-> r, coding |-> "",
                   error |-> IF opt.fallthrough THEN 0 ELSE status]
    /\ UNCHANGED job

Answer(r, kind) == outcome' = [kind |-> kind, request |-> r, coding |-> ""] /\ UNCHANGED job

\* findIndexFile: the first index that is a file.
FirstIndex(dir) ==
    LET good == {i \in DOMAIN opt.index : Disk(Append(dir, opt.index[i]), FALSE) = "file"}
    IN IF good = {} THEN <<>> ELSE Append(dir, opt.index[Min(good)])

\* The first extension there is, after ENOENT and for a name without one.
FirstExtension(path) ==
    LET with(i) == Append(Front(path), Append(Last(path), opt.extensions[i]))
        good == {i \in DOMAIN opt.extensions : Disk(with(i), FALSE) \in {"file", "directory"}}
    IN IF good = {} THEN <<>> ELSE with(Min(good))

\* The file is chosen: Vary is said, its twin looked for if it was not yet, and
\* sendFile given a path, which it joins to the root again unless it is the one
\* asked for. A slash that was encoded stays between a name and a suffix.
Give(r, path, early) ==
    LET e == IF ~opt.preCompressed THEN ""
             ELSE IF early # "" THEN early ELSE PickPrecompressed(path, r.accept)
        target == CASE e = "" -> path
                    [] e # "" /\ early # "" /\ r.url.slash -> Append(path, <<"", Suffix(e)>>)
                    [] OTHER -> TwinPath(path, e)
    IN /\ job' = [request |-> r, path |-> target, of |-> path, coding |-> e,
                  vary |-> opt.preCompressed]
       /\ outcome' = NoOutcome

\* What is refused before the disk is asked, 0 when nothing is.
Refusal(url) ==
    CASE url.bad -> 400
      [] ~url.bad /\ ClimbsOut(url.names) -> 403
      [] OTHER -> DotRefusal(url.names)

\* One request, down to sendFile: the twin first, then the path, then its
\* extensions, and the index of a directory written with its slash.
Find(r) ==
    LET path == JoinNames(r.url.names)
        bare == r.url.raw /\ ~r.url.ends /\ path = <<>>
        twinFirst == opt.preCompressed /\ ~r.url.raw /\ ~r.url.ends
        twin == IF twinFirst THEN PickPrecompressed(path, r.accept) ELSE ""
        found == IF twin # "" THEN "file" ELSE Stat(path, r.url.slash /\ ~bare)
        extended == IF /\ found = "ENOENT" /\ path # <<>> /\ ~r.url.slash
                       /\ Len(Last(path)) = 1
                    THEN FirstExtension(path) ELSE <<>>
        given == IF extended # <<>> THEN extended ELSE path
        kind == IF extended # <<>> THEN Disk(extended, FALSE) ELSE found
        file == CASE kind = "file" -> given
                  [] kind = "directory" /\ r.url.ends -> FirstIndex(path)
                  [] OTHER -> <<>>
    IN /\ IF file # <<>> THEN Give(r, file, twin)
          ELSE IF kind = "directory" /\ ~r.url.ends /\ opt.redirect
               THEN Answer(r, "redirect") ELSE Refuse(r, 404)
       /\ Look((IF twinFirst THEN {path} ELSE {})
               \cup (IF opt.preCompressed /\ file # <<>> THEN {file} ELSE {}), r.accept,
               IF found = "file" /\ twin = "" THEN Learnt(path, stats) ELSE stats)

Serve(r) ==
    /\ job = NoJob /\ served < MaxRequests
    /\ served' = served + 1
    /\ IF r.method \notin {"GET", "HEAD"}
       THEN /\ IF opt.fallthrough THEN Refuse(r, 0) ELSE Answer(r, "405")
            /\ UNCHANGED <<twins, stats>>
       ELSE IF Refusal(r.url) # 0
       THEN Refuse(r, Refusal(r.url)) /\ UNCHANGED <<twins, stats>>
       ELSE Find(r)
    /\ UNCHANGED <<opt, present, now>>

\* sendFile has read the file, or its read failed: 404 falls through too.
Read ==
    /\ job # NoJob
    /\ LET there == job.request.method = "HEAD" \/ Disk(job.path, FALSE) = "file" IN
       outcome' = IF there
                  THEN [kind |-> "served", request |-> job.request, path |-> job.path,
                        of |-> job.of, coding |-> job.coding, vary |-> job.vary]
                  ELSE [kind |-> "passed", request |-> job.request, coding |-> job.coding,
                        error |-> IF opt.fallthrough THEN 0 ELSE 404]
    /\ job' = NoJob
    /\ UNCHANGED <<opt, present, now, twins, stats, served>>

\* A deploy writes or removes a file, whatever a request is at.
Write(f) ==
    /\ now < MaxTime
    /\ present' = [present EXCEPT ![f] = [there |-> ~@.there, since |-> now]]
    /\ UNCHANGED <<opt, now, twins, stats, job, outcome, served>>

Tick ==
    /\ now < MaxTime /\ now' = now + 1
    /\ UNCHANGED <<opt, present, twins, stats, job, outcome, served>>

Next == \/ \E r \in Requests : Serve(r)
        \/ Read
        \/ \E f \in Deployed : Write(f)
        \/ Tick

Spec == Init /\ [][Next]_vars

-----------------------------------------------------------------------------
\* What is served is what was asked for: the path, its name with an extension,
\* or the index of the directory, or a twin of one of these; it is inside the
\* root, and nothing asked for by name is hidden unless the option allows it.
ServedIsAsked ==
    outcome.kind = "served" =>
        LET url == outcome.request.url
            path == JoinNames(url.names)
            hidden == {i \in DOMAIN path : Hidden(path[i])}
        IN /\ ~ClimbsOut(url.names)
           /\ \/ outcome.of = path /\ (url.slash => outcome.request.method = "HEAD")
              \/ \E i \in DOMAIN opt.extensions :
                    outcome.of = Append(Front(path), Append(Last(path), opt.extensions[i]))
              \/ /\ url.ends
                 /\ \E i \in DOMAIN opt.index : outcome.of = Append(path, opt.index[i])
           /\ \/ outcome.coding = "" /\ outcome.path = outcome.of
              \/ outcome.coding # "" /\ outcome.path = TwinPath(outcome.of, outcome.coding)
              \/ outcome.request.method = "HEAD"
           /\ \/ hidden = {}
              \/ opt.dotfiles = "allow"
              \/ opt.dotfiles = "ignore_files" /\ Len(path) \notin hidden

\* A coding is only served to a client that takes it and likes nothing better,
\* and a cache is told that the answer depends on it, also when it is plain.
CodingIsTaken ==
    outcome.kind = "served" /\ opt.preCompressed =>
        LET accept == outcome.request.accept
            e == outcome.coding
        IN /\ outcome.vary
           /\ e # "" => Quality(accept, e, 0) >= Quality(accept, "identity", 1)

\* A file that was not touched for longer than anything is remembered is
\* served, in the best coding there is a twin for.
Old(path) == path \in Files => now - present[path].since >= Max({StatWindow, TwinWindow, 1})
There(path) == path \in Files /\ present[path].there

Settled(r) ==
    LET path == JoinNames(r.url.names) IN
    /\ r.method = "GET" /\ Refusal(r.url) = 0 /\ ~r.url.slash
    /\ There(path) /\ Old(path)
    /\ \A e \in Encodings : Old(TwinPath(path, e))

Best(r) ==
    LET path == JoinNames(r.url.names)
        e == NegotiateEncoding(r.accept, {c \in Encodings : There(TwinPath(path, c))})
    IN IF opt.preCompressed /\ Looks(path, r.accept) /\ e \in Encodings THEN e ELSE ""

Asking(j, o) == IF j = NoJob THEN o.request ELSE j.request

SettledIsServed ==
    [][served' # served /\ Settled(Asking(job', outcome'))
        => job' # NoJob /\ job'.coding = Best(job'.request)]_vars
=============================================================================
