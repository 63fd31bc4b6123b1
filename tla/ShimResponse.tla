---------------------------- MODULE ShimResponse ----------------------------
(***************************************************************************)
(* uWS's HttpResponse over node's ServerResponse (src/node-shim.js): the   *)
(* head is held until node writes it with the first byte, a length is put  *)
(* in it where uWS would, everything written is kept by node, and one      *)
(* drain listener serves every onWritable.  What the Response above asks   *)
(* of it is a script: a head, then the body in one of four ways.           *)
(***************************************************************************)
EXTENDS Naturals, Sequences, FiniteSets

CONSTANTS
    Scripts,        \* what is answered, see ScriptType
    Status          \* of the head: 200, 204, ...

ScriptType ==
    [way : {"end", "nobody", "tryEnd", "write"}, chunks : Seq(Nat),
     total : Nat, h2 : BOOLEAN, length : {"unset", "set"}]

VARIABLES
    script, status,
    at,             \* chunks handed over
    phase,          \* "head", "body", "waiting" for room, "over"
    headers,        \* names on node's response; its Content-Length
    length,
    headersSent, offset,
    nodeEnded,      \* end() was called
    nodeFull,       \* write() answered false since the last 'drain'
    flushed,        \* all of it is out: writableFinished
    onWritable, listening,
    aborted,        \* _aborted
    told            \* the Response was told that the client left

vars == <<script, status, at, phase, headers, length, headersSent, offset,
          nodeEnded, nodeFull, flushed, onWritable, listening, aborted, told>>

ConnectionHeaders == {"connection", "keep-alive"}
NoLength == 1000000

Init ==
    /\ script \in Scripts /\ status \in Status
    /\ at = 1 /\ phase = "head" /\ headers = {} /\ length = NoLength
    /\ headersSent = FALSE /\ offset = 0 /\ nodeEnded = FALSE
    /\ nodeFull = FALSE /\ flushed = FALSE /\ onWritable = FALSE
    /\ listening = FALSE /\ aborted = FALSE /\ told = FALSE

\* writeStatus and writeHeader: HTTP/2 takes no word about the connection.
WriteHead ==
    /\ phase = "head" /\ phase' = "body"
    /\ headers' = {"connection", "etag"}
                    \ (IF script.h2 THEN ConnectionHeaders ELSE {})
    /\ length' = IF script.length = "set" THEN script.total ELSE NoLength
    /\ UNCHANGED <<script, status, at, headersSent, offset, nodeEnded, nodeFull,
                   flushed, onWritable, listening, aborted, told>>

\* node takes a chunk whole, and says whether it has room for more.
NodeWrites(n) ==
    /\ offset' = offset + n /\ headersSent' = TRUE
    /\ nodeFull' \in IF n = 0 THEN {nodeFull} ELSE {nodeFull, TRUE}

\* _setLength: what node:http works out for itself and node:http2 does not.
SetLength(n) ==
    IF script.h2 /\ ~headersSent /\ status # 204 /\ length = NoLength
    THEN n ELSE length

\* end(body), of a response not aborted.
End ==
    /\ phase = "body" /\ script.way = "end"
    /\ phase' = "over"
    /\ LET n == IF script.chunks = <<>> THEN 0 ELSE script.chunks[1] IN
       IF aborted THEN UNCHANGED <<length, headersSent, offset, nodeEnded>>
       ELSE /\ length' = SetLength(n) /\ offset' = offset + n
            /\ headersSent' = TRUE /\ nodeEnded' = TRUE
    /\ UNCHANGED <<script, status, at, headers, nodeFull, flushed, onWritable,
                   listening, aborted, told>>

\* A HEAD, or a status without a body: the length of what is not sent.
EndWithoutBody ==
    /\ phase = "body" /\ script.way = "nobody"
    /\ phase' = "over"
    /\ IF aborted THEN UNCHANGED <<length, headersSent, nodeEnded>>
       ELSE length' = script.total /\ headersSent' = TRUE /\ nodeEnded' = TRUE
    /\ UNCHANGED <<script, status, at, headers, offset, nodeFull, flushed,
                   onWritable, listening, aborted, told>>

\* tryEnd: the length goes in the head, and the last byte ends it.
TryEnd(n) ==
    /\ NodeWrites(n)
    /\ length' = IF ~headersSent /\ length = NoLength THEN script.total
                                                      ELSE length
    /\ nodeEnded' = (offset' >= script.total)

\* onWritable: the listener is put on node's response once.
OnWritable == onWritable' = TRUE /\ listening' = TRUE

\* The Response hands over a chunk, and waits when node has no room.
Chunk ==
    /\ phase = "body" /\ script.way \in {"tryEnd", "write"}
    /\ at <= Len(script.chunks) /\ ~aborted
    /\ at' = at + 1
    /\ IF script.way = "tryEnd" THEN TryEnd(script.chunks[at])
       ELSE NodeWrites(script.chunks[at]) /\ UNCHANGED <<length, nodeEnded>>
    /\ CASE nodeEnded' -> phase' = "over" /\ UNCHANGED <<onWritable, listening>>
         [] ~nodeEnded' /\ nodeFull' -> phase' = "waiting" /\ OnWritable
         [] OTHER -> UNCHANGED <<phase, onWritable, listening>>
    /\ UNCHANGED <<script, status, headers, flushed, aborted, told>>

\* The end of a body written in chunks of no announced length.
EndChunks ==
    /\ phase = "body" /\ script.way = "write" /\ at > Len(script.chunks)
    /\ phase' = "over" /\ headersSent' = TRUE /\ nodeEnded' = ~aborted
    /\ UNCHANGED <<script, status, at, headers, length, offset, nodeFull,
                   flushed, onWritable, listening, aborted, told>>

\* 'drain': the handler is taken before it is called, and may register again.
Drain ==
    /\ nodeFull /\ ~aborted /\ nodeFull' = FALSE
    /\ IF listening /\ onWritable
       THEN onWritable' = FALSE /\ phase' = "body"
       ELSE UNCHANGED <<onWritable, phase>>
    /\ UNCHANGED <<script, status, at, headers, length, headersSent, offset,
                   nodeEnded, flushed, listening, aborted, told>>

Flush ==
    /\ nodeEnded /\ ~nodeFull /\ ~aborted /\ flushed' = TRUE
    /\ UNCHANGED <<script, status, at, phase, headers, length, headersSent,
                   offset, nodeEnded, nodeFull, onWritable, listening, aborted,
                   told>>

\* 'close' of a response not all out: onAborted's handler.
ClientLeaves ==
    /\ ~flushed /\ ~aborted
    /\ aborted' = TRUE /\ told' = TRUE /\ phase' = "over"
    /\ UNCHANGED <<script, status, at, headers, length, headersSent, offset,
                   nodeEnded, nodeFull, flushed, onWritable, listening>>

Next ==
    \/ WriteHead \/ End \/ EndWithoutBody \/ Chunk \/ EndChunks
    \/ Drain \/ Flush \/ ClientLeaves

Spec == Init /\ [][Next]_vars

Fairness ==
    /\ WF_vars(WriteHead \/ End \/ EndWithoutBody \/ Chunk \/ EndChunks)
    /\ WF_vars(Drain) /\ WF_vars(Flush)

FairSpec == Spec /\ Fairness

-----------------------------------------------------------------------------
\* A response that is all out has as many bytes as it announced, or none where
\* it may have none.
LengthIsTrue ==
    flushed /\ length # NoLength /\ script.way # "nobody" => offset = length

\* HTTP/2 is given a length whenever there is one to give, and no header of
\* HTTP/1's connection.
Http2Head ==
    script.h2 /\ headersSent =>
        /\ headers \cap ConnectionHeaders = {}
        /\ script.way = "end" /\ status # 204 => length # NoLength

\* What was begun is all out in the end, or the Response knows it is not.
ShimAnswers == phase = "body" ~> flushed \/ told
=============================================================================
