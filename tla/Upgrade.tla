------------------------------ MODULE Upgrade ------------------------------
(***************************************************************************)
(* A websocket's handshake (src/websocket.js): the application's upgrade   *)
(* hook decides, at once or later; the client may leave first; and what    *)
(* lies under the response is freed by its end, by the upgrade and by the  *)
(* client leaving.  A call on a native response that is gone throws.       *)
(*                                                                         *)
(* The Response the hook is given is not one of a route: the client's      *)
(* leaving sets its aborted alone, and its end() asks only for finished.   *)
(***************************************************************************)
EXTENDS Naturals

VARIABLES
    hook,           \* "none", "sync", "async": what the behavior has
    params,         \* "fine", "broken": the escapes of the path's parameters
    phase,          \* "new", "hook", "waiting", "over"
    response,       \* [finished, aborted] of the Response the hook is given
    aborted,        \* accept()'s own flag
    detached,       \* _detachFromResponse ran
    open,           \* the native response is there to be used
    ending,         \* what ended it: "none", "left", or a call
    stray           \* the calls made on one that is gone, which threw

upgradeVars == <<hook, params, phase, response, aborted, detached, open, ending, stray>>

UpgradeInit ==
    /\ hook \in {"none", "sync", "async"} /\ params \in {"fine", "broken"}
    /\ phase = "new"
    /\ response = [finished |-> FALSE, aborted |-> FALSE]
    /\ aborted = FALSE /\ detached = FALSE /\ open = TRUE /\ ending = "none"
    /\ stray = {}

upgraded == ending = "upgrade"      \* the request lives on with a socket

\* A call that ends the native response and frees it, or finds it gone.
Gone(call) ==
    /\ ending' = IF open THEN call ELSE ending
    /\ stray' = IF open THEN stray ELSE stray \cup {call}
    /\ open' = FALSE

\* A call that leaves it as it is.
Touches(call) ==
    /\ stray' = IF open THEN stray ELSE stray \cup {call}
    /\ UNCHANGED <<open, ending>>

Silent == UNCHANGED <<detached, open, ending, stray>>

\* A bug: the client is not asked after.
AcceptAnyway ==
    IF response.finished THEN Silent ELSE detached' = TRUE /\ Gone("upgrade")

\* accept(): the handshake, unless the hook answered or the client left.
Accept ==
    IF aborted \/ response.finished THEN Silent
    ELSE detached' = TRUE /\ Gone("upgrade")

\* Response.end(): its cork is the call that throws, before it is finished.
Reply(call) ==
    /\ UNCHANGED detached
    /\ IF response.finished THEN UNCHANGED <<response, open, ending, stray>>
       ELSE response' = [response EXCEPT !.finished = open] /\ Gone(call)

\* The handler uWS calls.
Enter ==
    /\ phase = "new"
    /\ CASE params = "broken" ->
              phase' = "over" /\ Gone("400") /\ UNCHANGED <<response, detached>>
         [] params = "fine" /\ hook = "none" ->
              phase' = "over" /\ Accept /\ UNCHANGED response
         [] OTHER -> phase' = "hook" /\ Silent /\ UNCHANGED response
    /\ UNCHANGED <<hook, params, aborted>>

\* The hook answers: while it runs, while it is awaited, or from a callback it left
\* behind.  It need not have asked res.aborted.
HookAnswers ==
    /\ \/ phase \in {"hook", "waiting"}
       \/ phase = "over" /\ hook # "none" /\ params = "fine"
    /\ Reply("answer")
    /\ UNCHANGED <<hook, params, phase, aborted>>

\* if (!response.finished): a 500, and the application's 'error'.
HookThrows ==
    /\ phase = "hook" /\ phase' = "over" /\ Reply("500")
    /\ UNCHANGED <<hook, params, aborted>>

\* It returns: the handshake, or onAborted and the wait for its promise. Where the
\* hook answered before its first await there is nothing left to register on: the
\* call throws out of the handler, and nobody waits.
HookReturns ==
    /\ phase = "hook"
    /\ IF hook = "sync" THEN phase' = "over" /\ Accept
       ELSE /\ phase' = IF open THEN "waiting" ELSE "over"
            /\ Touches("onAborted") /\ UNCHANGED detached
    /\ UNCHANGED <<hook, params, response, aborted>>

HookResolves ==
    /\ phase = "waiting" /\ phase' = "over" /\ Accept
    /\ UNCHANGED <<hook, params, response, aborted>>

HookRejects ==
    /\ phase = "waiting" /\ phase' = "over"
    /\ IF aborted THEN Silent /\ UNCHANGED response ELSE Reply("500")
    /\ UNCHANGED <<hook, params, aborted>>

\* The client leaves: onAborted, between two callbacks.
Leave ==
    /\ phase = "waiting" /\ open
    /\ open' = FALSE /\ ending' = "left" /\ aborted' = TRUE
    /\ response' = [response EXCEPT !.aborted = TRUE]
    /\ UNCHANGED <<hook, params, phase, detached, stray>>

\* A handler of the socket asks the request for its peer: the stand-in answers. (A
\* request that had no hook has no response, and req.ip throws before: PeerAddress.)
AskPeer ==
    /\ upgraded /\ hook # "none"
    /\ IF detached THEN UNCHANGED <<open, ending, stray>> ELSE Touches("address")
    /\ UNCHANGED <<hook, params, phase, response, aborted, detached>>

UpgradeNext ==
    \/ Enter \/ HookAnswers \/ HookThrows \/ HookReturns \/ HookResolves
    \/ HookRejects \/ Leave \/ AskPeer

\* The hook's promise settles.
UpgradeFairness ==
    /\ WF_upgradeVars(Enter) /\ WF_upgradeVars(HookReturns \/ HookThrows)
    /\ WF_upgradeVars(HookResolves \/ HookRejects)

UpgradeSpec == UpgradeInit /\ [][UpgradeNext]_upgradeVars

-----------------------------------------------------------------------------
\* One answer, and the framework's own calls find the native response there: the
\* handshake, the 400 and the 500 never follow the client's leaving or the hook's
\* answer, and the socket's handlers reach it no more.  What does reach one that is
\* gone is known: the hook's own answer after the client left or after the handshake,
\* and onAborted where an async hook answered before its first await.  Whatever way
\* it goes a socket was opened only for a client that is there and was not refused.
OneHandshake ==
    /\ stray \subseteq {"answer", "onAborted"}
    /\ "answer" \in stray => ending \in {"left", "upgrade"}
    /\ "onAborted" \in stray => hook = "async" /\ ending = "answer" /\ phase = "over"
    /\ upgraded => ~response.finished /\ ~response.aborted /\ detached
    /\ response.finished => ending \in {"answer", "500"}

\* "Writing to a response that was aborted does nothing rather than throwing"
\* (docs/websockets.md): it throws, since end() asks only for finished.
DeadHookIsQuiet == ending = "left" => stray = {}

\* Nobody is left hanging on a half-open handshake.
HandshakeEnds == phase = "new" ~> ~open
=============================================================================
