---------------------------- MODULE Compression ----------------------------
(***************************************************************************)
(* express.compression() (src/compression.js): hooks over a response's     *)
(* write, end, writeHead and on, which decide at the first byte whether    *)
(* the body is coded, and then code it whole, on this thread or on the     *)
(* pool, or as a stream that has to respect the response's own room.  The  *)
(* middleware may be installed more than once: the hooks of an outer one   *)
(* call those of the one before.                                           *)
(* The response's own write, end and flushHeaders settle the head by the   *)
(* outermost writeHead, so the hooks see every head before it goes.        *)
(*                                                                         *)
(* A piece of body is [size, by]: by says which layers coded it.           *)
(*                                                                         *)
(* Beside them, what codes a whole body: one encoder kept for all of them, *)
(* a zlib stream held open across FINISH or a brotli handle driven by hand,*)
(* in place of a new encoder a call.  It leans on node's internals, so it  *)
(* is probed first, twice a body, and given up for the one-shot call when  *)
(* they behave otherwise or throw.                                         *)
(***************************************************************************)
EXTENDS Naturals, Sequences, FiniteSets, FiniteSetsExt, SequencesExt

CONSTANTS
    Answers,        \* what is answered, and to whom, see AnswerType
    Threshold, SyncLimit,
    Sizes,          \* of the pieces the program writes
    Bodies,         \* what the kept encoder codes
    MaxAnswers

AnswerType ==
    [layers : Seq({"identity", "gzip"}), filter : BOOLEAN,
     noTransform : BOOLEAN, coded : BOOLEAN, range : BOOLEAN,
     length : {"unset", "small", "large"}]

VARIABLES
    answer,
    layer,          \* the state of each layer's closure
    res,            \* the response under them all
    program,        \* "writing", "ended"
    writes          \* pieces written

VARIABLES
    format,         \* "deflate", "brotli"
    node,           \* "sound", "lacking" the internals, "keeps" context on reset
    use,            \* "unprobed", "reuse", "oneShot"
    broken, busy,
    context,        \* the body the encoder still remembers
    inner,          \* the body in the encoder, and the one coded from inside it
    answers         \* [body, ctx] given

vars == <<answer, layer, res, program, writes>>
encoderVars == <<format, node, use, broken, busy, context, inner, answers>>

Layers == 1 .. Len(answer.layers)
NoPiece == [size |-> 0, by |-> <<>>]
NoHead == [coding |-> {}, length |-> "unset", vary |-> FALSE]

FreshLayer ==
    [decided |-> FALSE, method |-> FALSE, ended |-> FALSE,
     stream |-> "none",         \* then "open", "ending", "done", "destroyed"
     held |-> <<>>,             \* pieces in the compressor
     paused |-> FALSE,
     pool |-> <<>>,             \* the whole body, at the thread pool
     varied |-> FALSE]

Init ==
    /\ answer \in Answers
    /\ layer = [i \in 1 .. Len(answer.layers) |-> FreshLayer]
    /\ res = [sent |-> FALSE, coding |-> IF answer.coded THEN {0} ELSE {},
              length |-> answer.length, vary |-> FALSE, out |-> <<>>,
              said |-> NoHead,      \* the headers as the head was settled
              finished |-> FALSE, aborted |-> FALSE, threw |-> FALSE]
    /\ program = "writing" /\ writes = 0

-----------------------------------------------------------------------------
(* A state is [l, r]: the layers and the response.                         *)
Now == [l |-> layer, r |-> res]
Over(s) == s.r.finished \/ s.r.aborted

Permits == answer.filter /\ ~answer.noTransform

\* decide(): in the compression module's order, Vary included.
Decide(i, s, length, whole) ==
    LET d == [s EXCEPT !.l[i].decided = TRUE]
        varied == [d EXCEPT !.r.vary = TRUE]
        small == \/ s.r.length = "small"
                 \/ whole /\ length < Threshold
    IN  CASE s.r.sent \/ ~Permits -> d
          [] small \/ s.r.coding # {} \/ answer.range -> varied
          [] OTHER -> [varied EXCEPT !.l[i].method = TRUE, !.r.coding = {i},
                                     !.r.length = IF whole THEN @ ELSE "unset"]

Decided(i, s, length, whole) ==
    IF s.l[i].decided THEN s ELSE Decide(i, s, length, whole)

\* applyIdentityVary, once.
Varied(i, s) ==
    IF s.l[i].varied THEN s
    ELSE [s EXCEPT !.l[i].varied = TRUE,
                   !.r.vary = @ \/ (~s.r.sent /\ Permits)]

CodedBy(i, piece) == [piece EXCEPT !.by = Append(@, i)]

RECURSIVE WriteHeadAt(_, _)
WriteHeadAt(i, s) ==
    CASE i = 0 ->
            [s EXCEPT !.r.sent = TRUE,
                      !.r.said = [coding |-> s.r.coding, length |-> s.r.length,
                                  vary |-> s.r.vary]]
      [] i > 0 /\ answer.layers[i] = "identity" -> WriteHeadAt(i - 1, Varied(i, s))
      [] OTHER -> WriteHeadAt(i - 1, Decided(i, s, 0, FALSE))

\* A head that is not settled yet is, from the outermost hook down.
HeadSettled(s) == IF s.r.sent THEN s ELSE WriteHeadAt(Len(answer.layers), s)

\* The response's own write and end.
Put(s, piece) ==
    [HeadSettled(s) EXCEPT
        !.r.out = IF piece.size = 0 THEN @ ELSE Append(@, piece)]

RECURSIVE WriteAt(_, _, _)
WriteAt(i, s, piece) ==
    CASE i = 0 -> IF Over(s) THEN s ELSE Put(s, piece)
      [] i > 0 /\ answer.layers[i] = "identity" -> WriteAt(i - 1, s, piece)
      [] OTHER ->
            IF s.l[i].ended THEN s
            ELSE LET d == Decided(i, s, 0, FALSE) IN
                 IF ~d.l[i].method THEN WriteAt(i - 1, d, piece)
                 ELSE [d EXCEPT
                        !.l[i].held = IF d.l[i].stream = "destroyed" THEN @
                                      ELSE Append(@, piece),
                        !.l[i].stream = IF @ = "none" THEN "open" ELSE @]

\* The length of the whole body, coded; a head that was settled takes none.
SetLength(s) ==
    IF s.r.sent THEN [s EXCEPT !.r.threw = TRUE] ELSE [s EXCEPT !.r.length = "coded"]

\* A bug: a head that was settled is not asked after.
StreamsBegun(i, s) == s.l[i].stream # "none"

\* The last of the body goes through a compressor: one that runs, or one for a body
\* whose head is settled and takes no length any more.
Streams(i, s) == s.l[i].stream # "none" \/ (s.l[i].method /\ s.r.sent)

RECURSIVE EndAt(_, _, _)
EndAt(i, s, piece) ==
    CASE i = 0 ->
            IF Over(s) \/ s.r.threw THEN s
            ELSE [Put(s, piece) EXCEPT !.r.finished = TRUE]
      [] i > 0 /\ answer.layers[i] = "identity" ->
            EndAt(i - 1, Varied(i, s), piece)
      [] OTHER ->
            IF s.l[i].ended THEN s
            ELSE LET d == Decided(i, s, piece.size, TRUE)
                     e == [d EXCEPT !.l[i].ended = TRUE]
                     streams == Streams(i, d)
                 IN  CASE streams ->
                            [e EXCEPT
                               !.l[i].stream = IF @ = "destroyed" THEN @
                                               ELSE "ending",
                               !.l[i].held = IF piece.size = 0 THEN @
                                             ELSE Append(@, piece)]
                       [] ~streams /\ ~d.l[i].method -> EndAt(i - 1, e, piece)
                       [] ~streams /\ d.l[i].method /\ piece.size <= SyncLimit ->
                            EndAt(i - 1, SetLength(e), CodedBy(i, piece))
                       [] OTHER -> [e EXCEPT !.l[i].pool = <<piece>>]

Becomes(s) == layer' = s.l /\ res' = s.r /\ UNCHANGED answer

-----------------------------------------------------------------------------
(* The program.                                                            *)
Piece(n) == [size |-> n, by |-> <<>>]

\* A second writeHead throws.
WriteHead ==
    /\ program = "writing" /\ ~res.sent
    /\ Becomes(WriteHeadAt(Len(answer.layers), Now))
    /\ UNCHANGED <<program, writes>>

\* res.flushHeaders(), by the hooked writeHead; nothing on a response that is over.
FlushHeaders ==
    /\ program = "writing" /\ ~res.sent /\ ~Over(Now)
    /\ Becomes(HeadSettled(Now))
    /\ UNCHANGED <<program, writes>>

Write ==
    /\ program = "writing" /\ writes < 2
    /\ \E n \in Sizes : Becomes(WriteAt(Len(answer.layers), Now, Piece(n)))
    /\ writes' = writes + 1 /\ UNCHANGED program

End ==
    /\ program = "writing" /\ program' = "ended"
    /\ \E n \in Sizes \cup {0} :
          Becomes(EndAt(Len(answer.layers), Now, Piece(n)))
    /\ UNCHANGED writes

-----------------------------------------------------------------------------
(* The compressors, the pool, the client.                                  *)

\* The client can leave while the pool works.
PoolEnds(i) ==
    LET s == [Now EXCEPT !.l[i].pool = <<>>]
    IN  IF Over(Now) THEN s
        ELSE EndAt(i - 1, SetLength(s), CodedBy(i, layer[i].pool[1]))

PoolDone ==
    /\ \E i \in Layers : layer[i].pool # <<>> /\ Becomes(PoolEnds(i))
    /\ UNCHANGED <<program, writes>>

\* 'data': written below, and a full response pauses the compressor.
Data ==
    /\ \E i \in Layers, full \in BOOLEAN :
          /\ layer[i].stream \in {"open", "ending"} /\ ~layer[i].paused
          /\ layer[i].held # <<>>
          /\ LET s == [Now EXCEPT !.l[i].held = Tail(@), !.l[i].paused = full]
             IN  Becomes(WriteAt(i - 1, s, CodedBy(i, Head(layer[i].held))))
    /\ UNCHANGED <<program, writes>>

StreamEnd ==
    /\ \E i \in Layers :
          /\ layer[i].stream = "ending" /\ ~layer[i].paused
          /\ layer[i].held = <<>>
          /\ Becomes(EndAt(i - 1, [Now EXCEPT !.l[i].stream = "done"], NoPiece))
    /\ UNCHANGED <<program, writes>>

\* A bug: the drain wakes no compressor.
StayPaused(s) == s

\* The response's 'drain', of which every compressor took a listener.
Resume(s) == [s EXCEPT !.l = [i \in DOMAIN @ |-> [@[i] EXCEPT !.paused = FALSE]]]

Drain ==
    /\ \E i \in Layers : layer[i].paused
    /\ ~res.aborted /\ Becomes(Resume(Now))
    /\ UNCHANGED <<program, writes>>

\* 'close': an abandoned compressor is native memory.
Abort ==
    /\ ~Over(Now)
    /\ Becomes([Now EXCEPT !.r.aborted = TRUE,
           !.l = [i \in DOMAIN @ |->
                    IF @[i].stream \in {"open", "ending"}
                    THEN [@[i] EXCEPT !.stream = "destroyed", !.held = <<>>]
                    ELSE @[i]]])
    /\ UNCHANGED <<program, writes>>

Next ==
    \/ WriteHead \/ FlushHeaders \/ Write \/ End
    \/ PoolDone \/ Data \/ StreamEnd \/ Drain \/ Abort

Spec == Init /\ [][Next]_vars

Fairness == /\ WF_vars(PoolDone) /\ WF_vars(Data)
            /\ WF_vars(StreamEnd) /\ WF_vars(Drain)

FairSpec == Spec /\ Fairness

-----------------------------------------------------------------------------
(* The kept encoder.                                                       *)
NoBody == "none"
Clean == NoBody
OneShot(b) == [body |-> b, ctx |-> Clean]

EncoderInit ==
    /\ format \in {"deflate", "brotli"} /\ node \in {"sound", "lacking", "keeps"}
    /\ use = "unprobed" /\ broken = FALSE /\ busy = FALSE
    /\ context = Clean
    /\ inner = NoBody /\ answers = <<>>

\* reset(): a sound encoder forgets the body, one that keeps its context does not.
Reset(b) == IF node = "keeps" THEN b ELSE Clean

Probes == <<"probe", "pairs">>

\* Each probe twice, against the one-shot call: what the encoder says of it with
\* what it remembers.
ProbeAgrees ==
    LET seen(i) == IF i = 1 THEN Clean ELSE Reset(Probes[i \div 2])
    IN  \A i \in 1 .. 2 * Len(Probes) :
            [body |-> Probes[(i + 1) \div 2], ctx |-> seen(i)]
                = OneShot(Probes[(i + 1) \div 2])

\* The first use of a coding builds and probes its encoder.
Probe ==
    /\ use = "unprobed" /\ inner = NoBody
    /\ use' = IF node # "lacking" /\ ProbeAgrees THEN "reuse" ELSE "oneShot"
    /\ UNCHANGED <<format, node, broken, busy, context, inner, answers>>

Answer(coded) == answers' = Append(answers, coded)

Begins(b) ==
    /\ use # "unprobed" /\ inner = NoBody /\ Len(answers) < MaxAnswers
    /\ UNCHANGED <<format, node, use, broken>>
    /\ IF use = "oneShot" \/ broken
       THEN Answer(OneShot(b)) /\ UNCHANGED <<busy, context, inner>>
       ELSE /\ inner' = b /\ UNCHANGED answers
            /\ busy' = (format = "deflate") /\ UNCHANGED context

\* A body asked for from inside the first: brotli's write is a call into native
\* code, which nothing re-enters.
Nested(b) ==
    /\ inner # NoBody /\ format = "deflate" /\ Len(answers) < MaxAnswers - 1
    /\ IF busy THEN Answer(OneShot(b))
               ELSE Answer([body |-> b, ctx |-> inner])
    /\ UNCHANGED <<format, node, use, broken, busy, context, inner>>

\* All of it, and back in its first state.
Finishes ==
    /\ inner # NoBody
    /\ Answer([body |-> inner, ctx |-> context])
    /\ context' = Reset(inner) /\ busy' = FALSE /\ inner' = NoBody
    /\ UNCHANGED <<format, node, use, broken>>

\* It throws half way: given up for good, the handle is in an unknown state.
Throws ==
    /\ inner # NoBody
    /\ Answer(OneShot(inner)) /\ broken' = TRUE
    /\ context' = inner /\ busy' = FALSE /\ inner' = NoBody
    /\ UNCHANGED <<format, node, use>>

EncoderNext ==
    \/ Probe \/ Finishes \/ Throws
    \/ \E b \in Bodies : Begins(b) \/ Nested(b)

-----------------------------------------------------------------------------
\* What the head said of the body when it went is so: coded by the one layer it
\* names, all of it or none; with a length only of a body that went whole; and any
\* answer that could have been coded says that it varies, however its head was
\* settled: by writeHead, flushHeaders, the first byte or the end. No header is set
\* once it was.
CodingIsTold ==
    LET head == res.said
        byUs == head.coding \cap Layers # {}
    IN  /\ ~res.threw
        /\ res.finished =>
            /\ \A k \in DOMAIN res.out :
                  res.out[k].by = IF byUs THEN <<CHOOSE i \in head.coding : TRUE>>
                                  ELSE <<>>
            /\ head.length = "coded" => byUs /\ Len(res.out) = 1
            /\ byUs /\ res.out # <<>> => head.length \in {"coded", "unset"}
            /\ Permits => head.vary

\* An end() is carried to the response, through compressors that wait for room.
CodedAnswerEnds == program = "ended" ~> res.finished \/ res.aborted

\* Whatever came before, a body's coding is the one a new encoder would give it.
SameBytes == \A i \in DOMAIN answers : answers[i].ctx = Clean
=============================================================================
