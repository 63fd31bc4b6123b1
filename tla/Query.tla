------------------------------- MODULE Query -------------------------------
(***************************************************************************)
(* The query string: the parser's single scan (src/parse-query.js), and    *)
(* req.query (src/request.js), which parses on every read, as Express      *)
(* does, but keeps the decoded pairs on the second read and replays them   *)
(* from the third, as long as req.url was not assigned.                    *)
(*                                                                         *)
(* A character is a token: "%26" an escape, "%z" one that decodes to       *)
(* nothing.  A parsed query maps a key to the sequence of its values.      *)
(***************************************************************************)
EXTENDS Naturals, Sequences, SequencesExt, FiniteSets

CONSTANTS
    Inputs,         \* query strings a request arrives with
    Rewrites,       \* query strings a middleware assigns
    MaxKeys,        \* 1000 in the code
    Limit           \* parameterLimit of a urlencoded body

VARIABLES
    rawQuery,
    snapRaw,        \* _querySnapRaw: <<>>, or of which query the snapshot is
    snap,           \* _querySnap: "unset", "invalid" or "pairs", and these
    reads,          \* reads since the last assignment
    answer          \* what the last read answered

vars == <<rawQuery, snapRaw, snap, reads, answer>>

-----------------------------------------------------------------------------
(* Decoding.                                                               *)
Broken(text) == "%z" \in Range(text)
Unescape(text) == [i \in DOMAIN text |-> IF text[i] = "%26" THEN "&" ELSE text[i]]
Spaced(text) == [i \in DOMAIN text |-> IF text[i] = "+" THEN " " ELSE text[i]]
Decode(text, qsRules) == IF qsRules /\ Broken(text) THEN text ELSE Unescape(text)

-----------------------------------------------------------------------------
(* The scan.  start and equality are the places of the separator before    *)
(* the pair and of its first "=".                                          *)
Start == [result |-> [k \in {} |-> <<>>], capture |-> <<>>, invalid |-> FALSE,
          start |-> 0, equality |-> 0, pairs |-> 0, separators |-> 0,
          done |-> FALSE, overflow |-> FALSE]

Lands(key, both, qsRules) ==
    /\ both \/ key # <<>>
    /\ qsRules => key # <<>>

\* A bug: a repeated key leaves the capture as it is.
LandQuietly(s, key, value) ==
    IF key \in DOMAIN s.result
    THEN [s EXCEPT !.result[key] = Append(@, value)]
    ELSE [s EXCEPT !.result = [k \in DOMAIN s.result \cup {key} |->
                                  IF k = key THEN <<value>> ELSE s.result[k]],
                   !.capture = Append(@, <<key, value>>)]

\* A pair lands: a repeated key makes an array, and spoils the capture.
Land(s, key, value) ==
    IF key \in DOMAIN s.result
    THEN [s EXCEPT !.result[key] = Append(@, value), !.invalid = TRUE]
    ELSE [s EXCEPT !.result = [k \in DOMAIN s.result \cup {key} |->
                                  IF k = key THEN <<value>> ELSE s.result[k]],
                   !.capture = Append(@, <<key, value>>)]

ClosePair(s, input, i, qsRules) ==
    LET both == s.equality > s.start
        upto == IF both THEN s.equality ELSE i
        key == Decode(Spaced(SubSeq(input, s.start + 1, upto - 1)), qsRules)
        value == IF both
                 THEN Decode(Spaced(SubSeq(input, upto + 1, i - 1)), qsRules)
                 ELSE <<>>
        landed == IF Lands(key, both, qsRules) THEN Land(s, key, value) ELSE s
    IN  [landed EXCEPT !.start = i, !.equality = i]

\* One turn of the loop, at i of input, whose last turn is past its end.
Scan(s, input, i, limited) ==
    LET c == IF i <= Len(input) THEN input[i] ELSE "&" IN
    CASE s.done -> s
      [] c = "&" ->
            IF limited /\ i <= Len(input) /\ s.separators + 1 = Limit
            THEN [s EXCEPT !.done = TRUE, !.overflow = TRUE]
            ELSE LET t == ClosePair(s, input, i, limited) IN
                 [t EXCEPT !.separators = @ + 1, !.pairs = @ + 1,
                           !.done = ~limited /\ t.pairs + 1 = MaxKeys]
      [] c = "=" /\ s.equality <= s.start -> [s EXCEPT !.equality = i]
      [] OTHER -> s

ParseQuery(input, limited) ==
    IF input = <<>> THEN Start
    ELSE FoldLeft(LAMBDA s, i : Scan(s, input, i, limited), Start,
                  [i \in 1 .. Len(input) + 1 |-> i])

-----------------------------------------------------------------------------
(* req.query.                                                              *)
NoSnap == [is |-> "unset", pairs |-> <<>>]
SnapOf(parsed) ==
    IF parsed.invalid THEN [is |-> "invalid", pairs |-> <<>>]
                      ELSE [is |-> "pairs", pairs |-> parsed.capture]

Init ==
    /\ rawQuery \in Inputs /\ snapRaw = <<>> /\ snap = NoSnap
    /\ reads = 0 /\ answer = Start.result

\* The pairs, put on a new object.
Replay(pairs) ==
    [k \in {pairs[i][1] : i \in DOMAIN pairs} |->
        <<pairs[SelectLastInSeq(pairs, LAMBDA p : p[1] = k)][2]>>]

\* The first read parses, the second keeps the pairs, the third replays them.
Read ==
    LET parsed == ParseQuery(rawQuery, FALSE) IN
    CASE snapRaw # <<rawQuery>> ->
            /\ snapRaw' = <<rawQuery>> /\ snap' = NoSnap
            /\ answer' = parsed.result
      [] snapRaw = <<rawQuery>> /\ snap.is = "unset" ->
            /\ snap' = SnapOf(parsed)
            /\ answer' = parsed.result /\ UNCHANGED snapRaw
      [] OTHER ->
            /\ answer' = IF snap.is = "pairs" THEN Replay(snap.pairs)
                                             ELSE parsed.result
            /\ UNCHANGED <<snapRaw, snap>>

GetQuery ==
    /\ reads < 3 /\ Read /\ reads' = reads + 1 /\ UNCHANGED rawQuery

\* req.url assigned: _absorbUrlRewrite.
Rewrite ==
    /\ reads > 0
    /\ \E q \in Rewrites : rawQuery' = q
    /\ reads' = 0 /\ answer' = Start.result /\ UNCHANGED <<snapRaw, snap>>

Next == GetQuery \/ Rewrite

Spec == Init /\ [][Next]_vars

-----------------------------------------------------------------------------
(* What a query means: the text between separators, cut at its first "=".  *)
PairTexts(input) ==
    LET cuts == {0, Len(input) + 1} \cup {i \in DOMAIN input : input[i] = "&"}
        nth == SetToSortSeq(cuts, <)
    IN  [i \in 1 .. Len(nth) - 1 |-> SubSeq(input, nth[i] + 1, nth[i + 1] - 1)]

PairOf(piece) ==
    LET at == SelectInSeq(piece, LAMBDA c : c = "=") IN
    IF at = 0 THEN <<piece, <<>>>>
    ELSE <<SubSeq(piece, 1, at - 1), SubSeq(piece, at + 1, Len(piece))>>

Meant(input, limited) ==
    LET text(t) == Decode(Spaced(t), limited)
        first == SubSeq(PairTexts(input), 1,
                        IF limited \/ Len(PairTexts(input)) < MaxKeys
                        THEN Len(PairTexts(input)) ELSE MaxKeys)
        kept == SelectSeq(first, LAMBDA p :
                    p # <<>> /\ (limited => PairOf(p)[1] # <<>>))
        pairs == [i \in DOMAIN kept |-> PairOf(kept[i])]
        keys == {text(pairs[i][1]) : i \in DOMAIN pairs}
    IN  [k \in keys |->
            LET of == SelectSeq(pairs, LAMBDA p : text(p[1]) = k)
            IN  [i \in DOMAIN of |-> text(of[i][2])]]

Separators(input) == Cardinality({i \in DOMAIN input : input[i] = "&"})

\* A urlencoded body: refused at the limit of separators, as parameterCount
\* counts them, and otherwise the same pairs but for the nameless.
BodyIsMeant(input) ==
    LET p == ParseQuery(input, TRUE) IN
    /\ p.overflow = (Separators(input) >= Limit)
    /\ ~p.overflow => p.result = Meant(input, TRUE)

\* However often it was read, and whatever req.url became in between, req.query
\* answers what the query of the moment means; and so does a body.
QueryIsMeant ==
    /\ reads > 0 => answer = Meant(rawQuery, FALSE)
    /\ BodyIsMeant(rawQuery)
=============================================================================
