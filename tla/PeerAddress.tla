---------------------------- MODULE PeerAddress ----------------------------
(***************************************************************************)
(* The client's address (src/request.js): uWS tells it only while the      *)
(* response lives, and the call is slow.  So it is read up front for the   *)
(* first requests of an application, afterwards when asked, and always     *)
(* again once anybody was seen asking too late.  A websocket's request     *)
(* outlives its response, and keeps what was read at the upgrade; one that *)
(* had no upgrade hook never had a response, and asking it throws.         *)
(***************************************************************************)
EXTENDS Integers, Sequences, FiniteSets, FiniteSetsExt

CONSTANTS
    Request,        \* requests, which may overlap
    Apps,           \* a path of mounts: the root first
    Probes,         \* 100 in the code: requests read up front
    Groups          \* the values a group of an address takes, 0 and 65535 among them

VARIABLES
    kind,           \* of each request: "http", or a websocket's, "hooked" or "bare"
    state,          \* "none", "alive", "over", "left", "upgraded"
    app,            \* the application that asks it, a place in Apps
    raw,            \* rawIp was read
    cached,         \* #cachedParsedIp: "none" or "own"
    late,           \* needsIpAfterResponse, per application
    probes,         \* _ipProbes, per application
    answers         \* what each request was told, in order

vars == <<kind, state, app, raw, cached, late, probes, answers>>

App == 1 .. Len(Apps)
Root == 1

Init ==
    /\ kind \in [Request -> {"http", "hooked", "bare"}]
    /\ state = [r \in Request |-> "none"] /\ app \in [Request -> App]
    /\ raw = [r \in Request |-> FALSE] /\ cached = [r \in Request |-> "none"]
    /\ late = [a \in App |-> FALSE] /\ probes = [a \in App |-> 0]
    /\ answers = [r \in Request |-> <<>>]

\* The application a request is made with: the root, or the owner of the websocket.
Maker(r) == IF kind[r] = "http" THEN Root ELSE app[r]

\* The constructor, which asks the maker.  With no hook to wait for, a websocket is
\* accepted in the same callback, and its address read there.
Arrive(r) ==
    LET a == Maker(r)
        probe == ~late[a] /\ probes[a] < Probes
    IN  /\ state[r] = "none"
        /\ state' = [state EXCEPT ![r] = IF kind[r] = "bare" THEN "upgraded" ELSE "alive"]
        /\ raw' = [raw EXCEPT ![r] = late[a] \/ probe \/ kind[r] = "bare"]
        /\ probes' = IF probe THEN [probes EXCEPT ![a] = @ + 1] ELSE probes
        /\ UNCHANGED <<kind, app, cached, late, answers>>

\* The response is ended: by a handler, or by a hook that declines.
Finish(r) ==
    /\ state[r] = "alive"
    /\ state' = [state EXCEPT ![r] = "over"]
    /\ UNCHANGED <<kind, app, raw, cached, late, probes, answers>>

\* The client leaves: a route's response is finished by it, a hook's is not.
Leave(r) ==
    /\ state[r] = "alive"
    /\ state' = [state EXCEPT ![r] = IF kind[r] = "http" THEN "over" ELSE "left"]
    /\ UNCHANGED <<kind, app, raw, cached, late, probes, answers>>

\* _detachFromResponse: the address is read while there is a response.
Upgrade(r) ==
    /\ state[r] = "alive" /\ kind[r] = "hooked"
    /\ state' = [state EXCEPT ![r] = "upgraded"]
    /\ raw' = [raw EXCEPT ![r] = TRUE]
    /\ UNCHANGED <<kind, app, cached, late, probes, answers>>

\* A bug: those it is mounted on, which take the next request, are not told.
MarkOwn(a) == [late EXCEPT ![a] = TRUE]

\* An application that asks too late, and those it is mounted on.
MarkLate(a) == [b \in App |-> late[b] \/ b <= a]

Told(r, what) == answers' = [answers EXCEPT ![r] = Append(@, what)]

\* get parsedIp: the loopback stands in for what cannot be read any more.  It throws
\* where there is no response to ask whether it is over, and where the native one is
\* gone and nothing said so.
Ask(r) ==
    /\ state[r] # "none" /\ Len(answers[r]) < 2
    /\ IF cached[r] # "none"
       THEN Told(r, cached[r]) /\ UNCHANGED <<raw, cached, late>>
       ELSE IF kind[r] = "bare" \/ (state[r] = "left" /\ ~raw[r])
       THEN Told(r, "throws") /\ UNCHANGED <<raw, cached, late>>
       ELSE /\ late' = IF state[r] = "over" THEN MarkLate(app[r]) ELSE late
            /\ IF state[r] = "over" /\ ~raw[r]
               THEN Told(r, "loopback") /\ UNCHANGED <<raw, cached>>
               ELSE /\ Told(r, "own")
                    /\ raw' = [raw EXCEPT ![r] = TRUE]
                    /\ cached' = [cached EXCEPT ![r] = "own"]
    /\ UNCHANGED <<kind, state, app, probes>>

Next == \E r \in Request : Arrive(r) \/ Finish(r) \/ Leave(r) \/ Upgrade(r) \/ Ask(r)

Spec == Init /\ [][Next]_vars

-----------------------------------------------------------------------------
Hears(r, what) == \E i \in DOMAIN answers[r] : answers[r][i] = what
Wrong(r) == Hears(r, "loopback")

\* "127.0.0.1 once and the real address from the next request on": a request that
\* arrives after one was told the loopback has its own read, whichever application
\* of the tree asked, where what makes it is that application or one it is mounted
\* on: the root for every route, the owner for a websocket.
RealFromTheNext ==
    \A r, q \in Request :
        state[r] = "none" /\ state'[r] # "none" /\ Wrong(q) /\ Maker(r) <= app[q] => raw'[r]

\* Who was told its own is told so for good, and so is a socket its hook let in.
OwnForGood ==
    \A r \in Request : answers'[r] # answers[r]
        /\ (Hears(r, "own") \/ (kind[r] = "hooked" /\ state[r] = "upgraded"))
        => answers'[r][Len(answers'[r])] = "own"

Knows == RealFromTheNext /\ OwnForGood

-----------------------------------------------------------------------------
(* The address itself: uWS gives bytes, written as text by formatIPv6      *)
(* (src/request-utils.js); node gives text, which the shim turns into      *)
(* bytes (addressToBytes, src/node-shim.js), so that one req.ip serves     *)
(* both.  The bytes are eight groups, of which the last two may also be    *)
(* written as one dotted quad; text is a sequence of tokens.               *)
G(g) == <<"group", g>>
Gap == <<"gap">>
Dotted(g, h) == <<"dotted", g, h>>

-----------------------------------------------------------------------------
(* The scan for the longest run of zero groups, at i with the best so far. *)
RunAt(groups, i) ==
    Max({n \in 0 .. 9 - i : \A j \in i .. i + n - 1 : groups[j] = 0})

BestRun[groups \in [1 .. 8 -> Groups], i \in 1 .. 17] ==
    IF i > 8 THEN [start |-> 0, length |-> 0]
    ELSE LET run == RunAt(groups, i)
             rest == BestRun[groups, i + (IF run = 0 THEN 1 ELSE run)]
         IN  IF run > 0 /\ run >= rest.length
             THEN [start |-> i, length |-> run] ELSE rest

Best(groups) ==
    LET best == BestRun[groups, 1] IN
    IF best.length < 2 THEN [start |-> 0, length |-> 0] ELSE best

\* inet_ntop's own test for a dotted tail; behind seven zeros the quad is not
\* reached, its first group is in the run.
Mixed(groups, best) ==
    /\ best.start = 1
    /\ \/ best.length = 6
       \/ best.length = 7 /\ groups[8] # 1
       \/ best.length = 5 /\ groups[6] = 65535

FormatIPv6(groups) ==
    LET best == Best(groups)
        upto == best.start + best.length
        plain(from, to) == [i \in 1 .. to - from + 1 |-> G(groups[from + i - 1])]
        tail(from) == IF Mixed(groups, best) /\ from <= 7
                      THEN plain(from, 6) \o <<Dotted(groups[7], groups[8])>>
                      ELSE plain(from, 8)
    IN  IF best.length = 0 THEN plain(1, 8)
        ELSE plain(1, best.start - 1) \o <<Gap>> \o tail(upto)

IsMappedIPv4(groups) == (\A i \in 1 .. 5 : groups[i] = 0) /\ groups[6] = 65535

\* get parsedIp, of sixteen bytes.
ParsedIp(groups) ==
    IF IsMappedIPv4(groups)
    THEN <<Gap, G(65535), Dotted(groups[7], groups[8])>>
    ELSE FormatIPv6(groups)

-----------------------------------------------------------------------------
Unreadable == <<>>
IsDotted(text) == \E i \in DOMAIN text : text[i][1] = "dotted"
HasGap(text) == \E i \in DOMAIN text : text[i] = Gap

\* addressToBytes: ::ffff: before a dotted quad, or "::" filled with zeros.
AddressToBytes(text) ==
    LET groups == SelectSeq(text, LAMBDA t : t[1] = "group")
        head == IF HasGap(text) THEN Min({i \in DOMAIN text : text[i] = Gap}) - 1
                ELSE Len(groups)
        missing == 8 - Len(groups)
    IN  CASE IsDotted(text) ->
                IF Len(text) = 3 /\ text[1] = Gap /\ text[2] = G(65535)
                THEN <<0, 0, 0, 0, 0, 65535, text[3][2], text[3][3]>>
                ELSE Unreadable
          [] ~HasGap(text) /\ Len(groups) # 8 -> Unreadable
          [] OTHER ->
                [i \in 1 .. 8 |-> CASE i <= head -> groups[i][2]
                                    [] i <= head + missing -> 0
                                    [] OTHER -> groups[i - missing][2]]

-----------------------------------------------------------------------------
\* Of every address: the text is one "::" at most, in place of its leftmost
\* longest run of zeros; the two writers agree; and the shim reads back the
\* bytes, but for a quad behind six zeros alone, which no peer has.
AddressReadsBack(bytes) ==
    LET text == ParsedIp(bytes)
        runs == {r \in 0 .. 8 : \E i \in 1 .. 8 : RunAt(bytes, i) = r}
    IN  /\ text = FormatIPv6(bytes)
        /\ HasGap(text) = (Max(runs) > 1)
        /\ IF IsDotted(text) /\ ~IsMappedIPv4(bytes)
           THEN \A i \in 1 .. 6 : bytes[i] = 0
           ELSE AddressToBytes(text) = bytes
=============================================================================
