----------------------------- MODULE RequestEnd -----------------------------
(***************************************************************************)
(* How a request nobody answered ends: the walk settles once, the epilogue  *)
(* waits for a microtask so that a handler writing after its next() still   *)
(* wins, and the request ends with its error, the automatic OPTIONS reply   *)
(* of the router that counted the verbs, or a 404. The walk itself is Walk; *)
(* here it is any order of layers that count, fail and give up.             *)
(***************************************************************************)
EXTENDS Integers, Sequences, SequencesExt

CONSTANTS
    Verb,           \* the verbs of routes
    Status,         \* what a handler or an error may ask for
    MaxDepth,       \* the routers one request is inside of
    None

VARIABLES
    isOptions,      \* req._isOptions
    walk,           \* "walking", "settled", "over"
    task,           \* the queued epilogue: None, "unmatched", "fail"
    thrown,         \* what the walk was rejected with
    error,          \* req._error
    matched,        \* _matchedMethods of each router the request is inside of
    response,       \* headersSent, finished, aborted, destroyed, statusCode,
                    \* and whether a handler left headers of its own body on it
    reply           \* what the router itself answered

vars == <<isOptions, walk, task, thrown, error, matched, response, reply>>

IsError(s) == s >= 400 /\ s <= 599
\* An error: its own status or None, and whether it carries headers.
Errors == [status : Status \cup {None}, headers : BOOLEAN]

\* What the constants must be.
RequestEndAssumption ==
    /\ Status \subseteq 100 .. 999 /\ 200 \in Status
    /\ MaxDepth \in Nat \ {0}
    /\ None \notin Errors

NoReply == [kind |-> "none", status |-> 0, stale |-> FALSE, carried |-> FALSE, allow |-> {}]

TypeOK ==
    /\ isOptions \in BOOLEAN
    /\ walk \in {"walking", "settled", "over"}
    /\ task \in {None, "unmatched", "fail"}
    /\ error \in Errors \cup {None} /\ thrown \in Errors \cup {None}
    /\ matched \in Seq(SUBSET Verb) /\ Len(matched) \in 1 .. MaxDepth
    /\ response \in [headersSent : BOOLEAN, finished : BOOLEAN, aborted : BOOLEAN,
                     destroyed : BOOLEAN, status : Status \cup {404, 500}, stale : BOOLEAN]
    /\ reply.kind \in {"none", "page", "options"}

Init ==
    /\ isOptions \in BOOLEAN
    /\ walk = "walking" /\ task = None /\ thrown = None /\ error = None
    /\ matched = <<{}>>
    /\ response = [headersSent |-> FALSE, finished |-> FALSE, aborted |-> FALSE,
                   destroyed |-> FALSE, status |-> 200, stale |-> FALSE]
    /\ reply = NoReply

Over == response.finished \/ response.destroyed

-----------------------------------------------------------------------------
(* The router's answers, as steps from a response to the next              *)

Answered(r) == [r EXCEPT !.headersSent = TRUE, !.finished = TRUE]

\* _sendErrorPage: the content headers describe a body that is not this one.
Page(r, carried) ==
    [kind |-> "page", status |-> r.status, stale |-> FALSE, carried |-> carried, allow |-> {}]

\* _handleError with no handler: the head that is out leaves nothing to say.
StatusOf(err, r) ==
    IF err.status # None /\ IsError(err.status) THEN err.status
    ELSE IF IsError(r.status) THEN r.status ELSE 500
Carries(err) == err.status # None /\ IsError(err.status) /\ err.headers
HandleError(err, r) ==
    IF r.headersSent
    THEN response' = [r EXCEPT !.destroyed = @ \/ ~r.finished] /\ UNCHANGED reply
    ELSE LET now == [r EXCEPT !.status = StatusOf(err, r)] IN
         response' = Answered(now) /\ reply' = Page(now, Carries(err))

\* headersSentError("set")
HeadersSent == [status |-> None, headers |-> FALSE]

\* _sendOptionsReply, and the verbs of the router that counted them.
OptionsReply(verbs) ==
    [kind |-> "options", status |-> response.status, stale |-> response.stale,
     carried |-> FALSE, allow |-> verbs]

\* _endUnmatched
EndUnmatched ==
    CASE error # None -> HandleError(error, response)
      [] error = None /\ isOptions /\ matched[1] # {} ->
            IF response.headersSent THEN HandleError(HeadersSent, response)
            ELSE response' = Answered(response) /\ reply' = OptionsReply(matched[1])
      [] OTHER ->
            LET now == [response EXCEPT !.status = 404] IN
            response' = Answered(now) /\ reply' = Page(now, FALSE)
-----------------------------------------------------------------------------
(* The walk                                                                *)

\* An OPTIONS request reaches a route of another verb.
Count(verb) ==
    /\ walk = "walking" /\ isOptions
    /\ matched' = Front(matched) \o <<Last(matched) \cup {verb}>>
    /\ UNCHANGED <<isOptions, walk, task, thrown, error, response, reply>>

Raise(err) ==
    /\ walk = "walking" /\ error = None
    /\ error' = err
    /\ UNCHANGED <<isOptions, walk, task, thrown, matched, response, reply>>

\* An error handler calls next().
Handled ==
    /\ walk = "walking" /\ error # None
    /\ error' = None
    /\ UNCHANGED <<isOptions, walk, task, thrown, matched, response, reply>>

\* enterMount: the list of verbs is per router.
Enter ==
    /\ walk = "walking" /\ Len(matched) < MaxDepth /\ error = None
    /\ matched' = Append(matched, {})
    /\ UNCHANGED <<isOptions, walk, task, thrown, error, response, reply>>

\* A router hands back unrouted: an OPTIONS it counted verbs for is answered there.
HandBack ==
    /\ walk = "walking" /\ Len(matched) > 1
    /\ matched' = Front(matched)
    /\ IF isOptions /\ Last(matched) # {} /\ error = None
       THEN IF response.headersSent
            THEN error' = HeadersSent /\ UNCHANGED <<walk, response, reply>>
            ELSE /\ walk' = "over"
                 /\ IF Over THEN UNCHANGED <<response, reply>>
                    ELSE /\ response' = Answered(response)
                         /\ reply' = OptionsReply(Last(matched))
                 /\ UNCHANGED error
       ELSE UNCHANGED <<walk, error, response, reply>>
    /\ UNCHANGED <<isOptions, task, thrown>>

\* nativeDone with nothing matched, and nativeFail: the first of them settles.
Unmatched ==
    /\ walk = "walking" /\ Len(matched) = 1
    /\ walk' = "settled" /\ task' = "unmatched"
    /\ UNCHANGED <<isOptions, thrown, error, matched, response, reply>>
Rejected(err) ==
    /\ walk = "walking"
    /\ walk' = "settled" /\ task' = "fail" /\ thrown' = err
    /\ UNCHANGED <<isOptions, error, matched, response, reply>>

\* A bug: a response that was begun is left to itself, however its walk ended.
QuietEpilogue ==
    /\ task # None
    /\ task' = None /\ walk' = "over"
    /\ IF response.aborted \/ response.headersSent THEN UNCHANGED <<response, reply>>
       ELSE IF task = "unmatched" THEN EndUnmatched ELSE HandleError(thrown, response)
    /\ UNCHANGED <<isOptions, thrown, error, matched>>

\* The microtask.
Epilogue ==
    /\ task # None
    /\ task' = None /\ walk' = "over"
    /\ IF task = "unmatched"
       THEN IF response.aborted \/ (response.headersSent /\ error = None)
            THEN UNCHANGED <<response, reply>>
            ELSE EndUnmatched
       ELSE IF response.aborted \/ response.finished
            THEN UNCHANGED <<response, reply>>
            ELSE HandleError(thrown, response)
    /\ UNCHANGED <<isOptions, thrown, error, matched>>
-----------------------------------------------------------------------------
(* The handlers and the client, until the epilogue runs                    *)

\* A handler sets a status and the headers of a body it then does not send.
Prepare(status, stale) ==
    /\ walk # "over" /\ ~response.headersSent /\ ~Over
    /\ response' = [response EXCEPT !.status = status, !.stale = @ \/ stale]
    /\ UNCHANGED <<isOptions, walk, task, thrown, error, matched, reply>>

\* It writes the head, or the whole response, after it called next().
Write(ends) ==
    /\ walk # "over" /\ ~Over
    /\ response' = [response EXCEPT !.headersSent = TRUE, !.finished = ends]
    /\ UNCHANGED <<isOptions, walk, task, thrown, error, matched, reply>>

\* onNativeAborted
Abort ==
    /\ ~response.aborted /\ ~Over
    /\ response' = [response EXCEPT !.aborted = TRUE, !.finished = TRUE, !.destroyed = TRUE]
    /\ UNCHANGED <<isOptions, walk, task, thrown, error, matched, reply>>
-----------------------------------------------------------------------------
\* What the router answers is complete and its own: an error page has the status
\* of an error and none of the headers of the body a handler gave up, no verb of
\* another router is allowed, and nothing is answered once a head is out
\* (router.js _handleError, _sendErrorPage, _sendOptionsReply, _endUnmatched).
RouterAnswers ==
    [][reply' # reply =>
        /\ reply = NoReply /\ ~response.headersSent /\ ~response.aborted
        /\ reply'.kind = "page" => IsError(reply'.status) /\ ~reply'.stale
        /\ reply'.kind = "options" => reply'.allow = Last(matched) /\ reply'.allow # {}]_vars

\* A walk that settled is followed by an answer, unless a handler has the head or
\* the client left: with an error in flight not even the handler keeps it.
SettledEnds == walk = "settled" ~> Over \/ (response.headersSent /\ error = None)
=============================================================================
