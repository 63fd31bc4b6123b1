------------------------------ MODULE Patterns ------------------------------
(***************************************************************************)
(* The paths routes and mounts are written for: patternToRegex, which       *)
(* compiles one token after the other into a regular expression without     *)
(* knowing the groups ahead, next to path-to-regexp, which writes every     *)
(* choice of optional groups out and compiles each; and pathsCanOverlap,    *)
(* which compares two patterns by their text.                               *)
(*                                                                         *)
(* A pattern is a sequence of tokens, a path a sequence of characters. An   *)
(* escaped character is the character, and the case of letters is left out. *)
(* A regular expression is a sequence of items tried in order, with the     *)
(* order of preference a backtracking engine has.                           *)
(***************************************************************************)
EXTENDS Integers, Sequences, SequencesExt

CONSTANTS
    Char,           \* the literal characters of patterns and paths
    Name,           \* the names of parameters, one character each
    MaxTokens       \* the tokens of a pattern

VARIABLES
    pattern,        \* the pattern as written so far
    isPrefix,       \* it is a mount's
    strict          \* its router tells /things from /things/

vars == <<pattern, isPrefix, strict>>

Slash == "/"
Dot == "."

\* What the constants must be.
PatternsAssumption ==
    /\ Slash \in Char /\ Char \cap {":", "*", "{", "}"} = {}
    /\ MaxTokens \in Nat \ {0}

\* What is written: one character, :name, *name, {*name}, or a {group} of these.
Text(c) == [t |-> "text", s |-> <<c>>, name |-> "", inner |-> <<>>]
Param(n) == [t |-> "param", s |-> <<>>, name |-> n, inner |-> <<>>]
Splat(n) == [t |-> "splat", s |-> <<>>, name |-> n, inner |-> <<>>]
OptionalSplat(n) == [t |-> "maybe", s |-> <<>>, name |-> n, inner |-> <<>>]
Group(inner) == [t |-> "group", s |-> <<>>, name |-> "", inner |-> inner]

Simple == {Text(c) : c \in Char} \cup {Param(n) : n \in Name}
IsText(token) == token.t = "text"
Capture == {"param", "splat"}

-----------------------------------------------------------------------------
(* Regular expressions                                                     *)

\* A class of characters: none of `not`, and where none of `ahead` is read.
Class(not, ahead) == [not |-> not, ahead |-> ahead]
AnyChar == Class({}, {})

\* negate(): anything but what either text could begin.
NegateLonger(a, b) ==
    LET other == IF a = b THEN <<>> ELSE b IN
    CASE Len(other) > 1 -> Class({}, {a, other})
      [] Len(other) <= 1 /\ Len(a) > 1 -> Class(ToSet(other), {a})
      [] OTHER -> Class(ToSet(a) \cup ToSet(other), {})
Negate(a, b) == IF Len(b) > Len(a) THEN NegateLonger(b, a) ELSE NegateLonger(a, b)

Segment == Class({Slash}, {})

\* The items: a character; a capture of one or more of a class, or as much as
\* `classes` gives in turn, or exactly `exact`; items that may be absent; one
\* of several sequences of items. `lazy` prefers the shortest.
Is(c) == [k |-> "char", c |-> c]
Takes(name, wild, classes, lazy, exact) ==
    [k |-> "take", name |-> name, wild |-> wild, classes |-> classes,
     lazy |-> lazy, exact |-> exact]
Choice(branches) == [k |-> "choice", branches |-> branches]
Maybe(items) == Choice(<<items, <<>>>>)

\* The text of a capture that may also be exactly `text`, and of one that is not.
Exactly(text) == {text}
NoText == {}

Chars(text) == [i \in DOMAIN text |-> Is(text[i])]

ReadsAt(path, at, text) ==
    at + Len(text) - 1 <= Len(path) /\ SubSeq(path, at, at + Len(text) - 1) = text

InClass(class, path, at) ==
    /\ path[at] \notin class.not
    /\ \A text \in class.ahead : ~ReadsAt(path, at, text)

\* How far a run of the class may reach from here.
Reach(class, path, at) ==
    LET stops == {i \in at .. Len(path) : ~InClass(class, path, i)} IN
    IF stops = {} THEN Len(path) + 1
                  ELSE CHOOSE i \in stops : \A j \in stops : i <= j

\* Where the capture may end, the preferred end first.
Ends(item, path, at) ==
    LET run(class) ==
            LET far == Reach(class, path, at) - at IN
            [n \in 1 .. far |-> IF item.lazy THEN at + n ELSE at + far + 1 - n]
        texts == {at + Len(text) : text \in {t \in item.exact : ReadsAt(path, at, t)}}
    IN  FlattenSeq([i \in DOMAIN item.classes |-> run(item.classes[i])])
        \o SetToSeq(texts)

\* A match: where it ends, 0 when there is none, and what it captured, a wildcard
\* as its segments: their number tells "a/" from "a".
NoMatch == [end |-> 0, captured |-> <<>>]

Closed(ending, path, at) ==
    LET done == at = Len(path) + 1 IN
    CASE ending = "end" -> IF done THEN at ELSE 0
      [] ending = "slash end" ->
            IF at = Len(path) /\ path[at] = Slash THEN at + 1
            ELSE IF done THEN at ELSE 0
      [] ending = "boundary" -> IF done \/ path[at] = Slash THEN at ELSE 0
      [] ending = "slash boundary" ->
            IF at = Len(path) /\ path[at] = Slash THEN at + 1
            ELSE IF done \/ path[at] = Slash THEN at ELSE 0

\* The first match in the order of preference.
RECURSIVE Match(_, _, _, _)
RECURSIVE FirstEnd(_, _, _, _, _)
RECURSIVE FirstBranch(_, _, _, _, _)

Match(items, path, at, ending) ==
    IF items = <<>> THEN [end |-> Closed(ending, path, at), captured |-> <<>>]
    ELSE LET item == Head(items) IN
         CASE item.k = "char" ->
                IF at <= Len(path) /\ path[at] = item.c
                THEN Match(Tail(items), path, at + 1, ending) ELSE NoMatch
           [] item.k = "choice" -> FirstBranch(item.branches, Tail(items), path, at, ending)
           [] item.k = "take" ->
                IF at > Len(path) + 1 THEN NoMatch
                ELSE FirstEnd(Ends(item, path, at), items, path, at, ending)

FirstEnd(ends, items, path, at, ending) ==
    IF ends = <<>> THEN NoMatch
    ELSE LET item == Head(items)
             rest == Match(Tail(items), path, Head(ends), ending) IN
         IF rest.end = 0 THEN FirstEnd(Tail(ends), items, path, at, ending)
         ELSE [rest EXCEPT !.captured =
                 <<[name |-> item.name, wild |-> item.wild,
                    text |-> SubSeq(path, at, Head(ends) - 1)]>> \o @]

FirstBranch(branches, rest, path, at, ending) ==
    IF branches = <<>> THEN NoMatch
    ELSE LET found == Match(Head(branches) \o rest, path, at, ending) IN
         IF found.end # 0 THEN found
         ELSE FirstBranch(Tail(branches), rest, path, at, ending)

\* req.params: the last group of a name wins.
Params(match) ==
    LET of(n) == {i \in DOMAIN match.captured : match.captured[i].name = n}
        last(n) == CHOOSE i \in of(n) : \A j \in of(n) : j <= i
    IN  [n \in {match.captured[i].name : i \in DOMAIN match.captured} |->
            [wild |-> match.captured[last(n)].wild, text |-> match.captured[last(n)].text]]

-----------------------------------------------------------------------------
(* patternToRegex                                                          *)

\* The text of a pattern: what the compiler and pathsCanOverlap look at.
Inside(tokens) ==
    FlattenSeq([i \in DOMAIN tokens |->
        IF IsText(tokens[i]) THEN tokens[i].s ELSE <<":", tokens[i].name>>])
Raw(tokens) ==
    FlattenSeq([i \in DOMAIN tokens |->
        LET token == tokens[i] IN
        CASE token.t = "text" -> token.s
          [] token.t = "param" -> <<":", token.name>>
          [] token.t = "splat" -> <<"*", token.name>>
          [] token.t = "maybe" -> <<"{", "*", token.name, "}">>
          [] token.t = "group" -> <<"{">> \o Inside(token.inner) \o <<"}">>])

Position(seq, Test(_)) ==
    LET at == {i \in DOMAIN seq : Test(seq[i])} IN
    IF at = {} THEN 0 ELSE CHOOSE i \in at : \A j \in at : i <= j

\* Whether a wildcard is still to come in this segment.
WildcardLaterInSegment(tokens) ==
    LET raw == Raw(tokens)
        at == Position(raw, LAMBDA c : c \in {Slash, "*"})
    IN  at # 0 /\ raw[at] = "*"

\* The literal text right after this point.
TextAfter(tokens) ==
    LET raw == Raw(tokens)
        at == Position(raw, LAMBDA c : c \in {":", "*", "{", "}"})
    IN  IF at = 0 THEN raw ELSE SubSeq(raw, 1, at - 1)

\* The locals of the loop.
Start == [regex |-> <<>>, lastParam |-> FALSE, lastWild |-> 0, back |-> <<>>,
          wildBack |-> <<>>, afterWild |-> FALSE, wildHere |-> FALSE, paramHere |-> FALSE]

Literal(s, text) ==
    [s EXCEPT !.back = @ \o text,
              !.wildBack = IF s.afterWild THEN @ \o text ELSE @,
              !.wildHere = @ /\ Slash \notin ToSet(text),
              !.paramHere = @ /\ Slash \notin ToSet(text)]

\* wildcardClass: what a wildcard may match here, and what it leaves.
WildcardClasses(s) ==
    IF s.wildHere THEN <<Negate(s.back, <<>>)>>
    ELSE IF s.wildBack # <<>> THEN <<Negate(s.wildBack, <<>>), Segment>>
    ELSE <<AnyChar>>
NoteWildcard(s) ==
    [s EXCEPT !.back = <<>>, !.wildBack = <<>>, !.afterWild = TRUE, !.wildHere = TRUE]

CompileText(s, token) ==
    [Literal(s, token.s) EXCEPT !.regex = @ \o Chars(token.s), !.lastParam = FALSE]

CompileSplat(s, token) ==
    [NoteWildcard(s) EXCEPT
        !.regex = Append(@, Takes(token.name, TRUE, WildcardClasses(s), FALSE, NoText)),
        !.lastWild = Len(s.regex) + 1, !.lastParam = TRUE]

\* {*name}: right after a slash the slash is one of its alternatives.
CompileOptionalSplat(s, token) ==
    LET wild == Takes(token.name, TRUE, WildcardClasses(s), FALSE, NoText)
        afterSlash == s.regex # <<>> /\ Last(s.regex) = Is(Slash)
        slash == <<Is(Slash)>>
        items ==
            IF ~afterSlash THEN Append(s.regex, Choice(<< <<wild>>, <<Takes(token.name, TRUE, <<>>, FALSE, Exactly(<<>>))>> >>))
            ELSE Front(s.regex) \o
                 (IF strict THEN <<Choice(<<slash \o <<wild>>, slash>>)>>
                            ELSE <<Maybe(slash \o <<wild>>), Maybe(slash)>>)
    IN  [NoteWildcard(s) EXCEPT !.regex = items, !.lastParam = FALSE]

\* {group}: after a capture its parameters stop at the text that separates them.
Separator(s, token) ==
    LET at == Position(token.inner, LAMBDA x : x.t = "param") IN
    IF s.lastParam /\ at > 1 THEN Inside(SubSeq(token.inner, 1, at - 1)) ELSE <<>>
GroupParam(separator, name) ==
    IF separator = <<>> THEN Takes(name, FALSE, <<Segment>>, FALSE, NoText)
    ELSE IF Len(separator) = 1
    THEN Takes(name, FALSE, <<Class({Slash} \cup ToSet(separator), {})>>, FALSE, Exactly(separator))
    ELSE Takes(name, FALSE, <<Class({Slash}, {separator})>>, FALSE, Exactly(separator))
GroupItems(s, token) ==
    FlattenSeq([i \in DOMAIN token.inner |->
        IF IsText(token.inner[i]) THEN Chars(token.inner[i].s)
        ELSE <<GroupParam(Separator(s, token), token.inner[i].name)>>])
CompileGroup(s, token) ==
    LET items == GroupItems(s, token)
        \* a wildcard right before it: the two branches, the group's first
        both == Choice(<< <<Last(s.regex)>> \o items, <<Last(s.regex)>> >>)
        regex == IF s.lastWild # 0 /\ s.lastWild = Len(s.regex)
                 THEN Append(Front(s.regex), both) ELSE Append(s.regex, Maybe(items))
    IN  [Literal(s, Inside(token.inner)) EXCEPT !.regex = regex, !.lastParam = FALSE]

\* :name: how much of its segment it may take.
CompileParam(s, token, later) ==
    LET head == IF s.wildHere THEN Negate(<<Slash>>, s.back)
                ELSE IF WildcardLaterInSegment(later) THEN Negate(<<Slash>>, TextAfter(later))
                ELSE IF s.paramHere THEN Negate(<<Slash>>, s.back)
                ELSE Segment
        exact == IF ~s.wildHere /\ ~WildcardLaterInSegment(later) /\ s.paramHere
                 THEN Exactly(s.back) ELSE NoText
        lazy == later # <<>> /\ later[1].t \in {"group", "maybe"}
    IN  [s EXCEPT !.regex = Append(@, Takes(token.name, FALSE, <<head>>, lazy, exact)),
                  !.back = <<>>, !.afterWild = FALSE, !.paramHere = TRUE, !.lastParam = TRUE]

\* A bug: a parameter does not look at what follows it.
CompileAnyToken(tokens, s, i) ==
    LET token == tokens[i] IN
    CASE token.t = "text" -> CompileText(s, token)
      [] token.t = "splat" -> CompileSplat(s, token)
      [] token.t = "maybe" -> CompileOptionalSplat(s, token)
      [] token.t = "group" -> CompileGroup(s, token)
      [] token.t = "param" -> CompileParam(s, token, <<>>)

\* One token, by what comes before it and after it.
CompileToken(tokens, s, i) ==
    LET token == tokens[i] IN
    CASE token.t = "text" -> CompileText(s, token)
      [] token.t = "splat" -> CompileSplat(s, token)
      [] token.t = "maybe" -> CompileOptionalSplat(s, token)
      [] token.t = "group" -> CompileGroup(s, token)
      [] token.t = "param" -> CompileParam(s, token, SubSeq(tokens, i + 1, Len(tokens)))

Regex(tokens) ==
    FoldLeft(LAMBDA s, i : CompileToken(tokens, s, i), Start, [i \in DOMAIN tokens |-> i]).regex

Ending == IF isPrefix THEN "boundary" ELSE IF strict THEN "end" ELSE "slash end"

\* The compiled pattern on a path.
Exec(tokens, path) == Match(Regex(tokens), path, 1, Ending)
-----------------------------------------------------------------------------
(* path-to-regexp                                                          *)

\* Every choice of the groups, a group taken before the same without it.
RECURSIVE Written(_, _)
Written(tokens, before) ==
    IF tokens = <<>> THEN <<before>>
    ELSE LET token == Head(tokens)
             without == Written(Tail(tokens), before) IN
         CASE token.t = "group" -> Written(Tail(tokens), before \o token.inner) \o without
           [] token.t = "maybe" -> Written(Tail(tokens), Append(before, Splat(token.name))) \o without
           [] OTHER -> Written(Tail(tokens), Append(before, token))

HasInSegment(tokens, type) ==
    LET at == Position(tokens, LAMBDA x : x.t = type \/ x.s = <<Slash>>) IN
    at # 0 /\ tokens[at].t = type
PeekText(tokens) ==
    LET at == Position(tokens, LAMBDA x : ~IsText(x))
        texts == IF at = 0 THEN tokens ELSE SubSeq(tokens, 1, at - 1)
    IN  Inside(texts)

SourceOf(tokens, s, i) ==
    LET token == tokens[i]
        later == SubSeq(tokens, i + 1, Len(tokens))
        param == IF s.wildHere THEN <<Negate(<<Slash>>, s.back), NoText>>
                 ELSE IF HasInSegment(later, "splat") THEN <<Negate(<<Slash>>, PeekText(later)), NoText>>
                 ELSE IF s.paramHere THEN <<Negate(<<Slash>>, s.back), Exactly(s.back)>>
                 ELSE <<Segment, NoText>>
    IN  CASE token.t = "text" -> [Literal(s, token.s) EXCEPT !.regex = @ \o Chars(token.s)]
          [] token.t = "param" ->
                [s EXCEPT !.regex = Append(@, Takes(token.name, FALSE, <<param[1]>>, FALSE, param[2])),
                          !.back = <<>>, !.afterWild = FALSE, !.paramHere = TRUE]
          [] token.t = "splat" ->
                [NoteWildcard(s) EXCEPT
                    !.regex = Append(@, Takes(token.name, TRUE, WildcardClasses(s), FALSE, NoText))]

Sources(tokens) ==
    LET all == Written(tokens, <<>>) IN
    [n \in DOMAIN all |->
        FoldLeft(LAMBDA s, i : SourceOf(all[n], s, i), Start, [i \in DOMAIN all[n] |-> i]).regex]

\* path-to-regexp refuses two captures with no text between them.
ExpressTakes(tokens) ==
    \A n \in DOMAIN Written(tokens, <<>>) :
        LET one == Written(tokens, <<>>)[n] IN
        \A i \in 1 .. Len(one) - 1 : ~(one[i].t \in Capture /\ one[i + 1].t \in Capture)

\* A mount is never strict.
ExpressEnding ==
    IF isPrefix THEN "slash boundary" ELSE IF strict THEN "end" ELSE "slash end"

Express(tokens, path) ==
    Match(<<Choice(Sources(tokens))>>, path, 1, ExpressEnding)
-----------------------------------------------------------------------------
(* pathsCanOverlap                                                         *)

RECURSIVE Split(_)
Split(raw) ==
    LET at == Position(raw, LAMBDA c : c = Slash) IN
    IF at = 0 THEN <<raw>>
    ELSE <<SubSeq(raw, 1, at - 1)>> \o Split(SubSeq(raw, at + 1, Len(raw)))

FixedLength(raw) == ToSet(raw) \cap {"{", "*"} = {}
WholeSegmentParam(text) == Len(text) = 2 /\ text[1] = ":"
NotALiteral(text) == ToSet(text) \cap {":", "*", "{", "}"} # {}

\* A bug: patterns of two lengths never meet, not even a mount and a leaf.
OverlapAtOneLength(a, b, aIsPrefix) ==
    LET left == Split(a)
        right == Split(b)
    IN  /\ FixedLength(a) /\ FixedLength(b) => Len(left) = Len(right)
        /\ \A i \in DOMAIN left \cap DOMAIN right :
              left[i] = right[i] \/ NotALiteral(left[i]) \/ NotALiteral(right[i])

PathsCanOverlap(a, b, aIsPrefix) ==
    LET left == Split(a)
        right == Split(b)
        fixed == FixedLength(a) /\ FixedLength(b)
        emptyMeets(l, r) == l = <<>> /\ WholeSegmentParam(r)
    IN  /\ fixed => IF aIsPrefix THEN Len(left) <= Len(right) ELSE Len(left) = Len(right)
        /\ \A i \in DOMAIN left \cap DOMAIN right :
              \/ left[i] = right[i]
              \/ /\ NotALiteral(left[i]) \/ NotALiteral(right[i])
                 /\ ~(/\ fixed /\ ~aIsPrefix
                      /\ emptyMeets(left[i], right[i]) \/ emptyMeets(right[i], left[i]))

-----------------------------------------------------------------------------
\* A pattern begins with a slash, and only a strict router keeps one at its end
\* (createRoute).
TypeOK ==
    /\ pattern[1] = Text(Slash) /\ Len(pattern) <= MaxTokens
    /\ \A i \in DOMAIN pattern :
          \/ pattern[i] \in Simple \cup {Splat(n) : n \in Name} \cup {OptionalSplat(n) : n \in Name}
          \/ pattern[i].t = "group" /\ pattern[i].inner \in Seq(Simple)
    /\ isPrefix \in BOOLEAN /\ strict \in BOOLEAN

Init ==
    /\ pattern = <<Text(Slash)>>
    /\ isPrefix \in BOOLEAN
    /\ strict \in BOOLEAN

\* One token more.
Write(token) ==
    /\ Len(pattern) < MaxTokens
    /\ pattern' = Append(pattern, token)
    /\ UNCHANGED <<isPrefix, strict>>

\* As createRoute hands it to patternToRegex.
IsRegistered ==
    Last(pattern) = Text(Slash) => ~isPrefix /\ (strict \/ Len(pattern) = 1)
IsOptional(token) == token.t \in {"maybe", "group"}

\* The patterns the two agree on: nothing optional but the last token, and that
\* one a group right after a parameter, with text of its own segment between the
\* two, a group after no capture at all, or the one wildcard of a strict route.
Agreed ==
    \A i \in DOMAIN pattern : IsOptional(pattern[i]) =>
        LET before == SubSeq(pattern, 1, i - 1)
            inner == pattern[i].inner
        IN  /\ i = Len(pattern)
            /\ pattern[i].t = "maybe" =>
                  /\ strict /\ Last(before) = Text(Slash)
                  /\ \A j \in 1 .. i - 1 : before[j].t # "splat"
                  /\ i > 2 => before[i - 2] # Text(Slash)
            /\ pattern[i].t = "group" =>
                  \/ \A j \in 1 .. i - 1 : before[j].t \notin Capture
                  \/ Last(before).t = "param" /\ (inner[1] = Text(Slash) => IsText(inner[2]))
AsExpress(path) ==
    IsRegistered /\ ExpressTakes(pattern) /\ Agreed =>
        LET here == Exec(pattern, path)
            there == Express(pattern, path)
        IN  /\ (here.end # 0) = (there.end # 0)
            /\ here.end # 0 => Params(here) = Params(there)

\* A leaf that is native and the pattern of a layer in front of it, where both
\* match a path: pathsCanOverlap says so, at any length a wildcard or a group has.
Matches(tokens, prefix, path) ==
    Match(Regex(tokens), path, 1, IF prefix THEN "boundary" ELSE "slash end").end # 0
SeenWhatever(leaf, path) ==
    IsRegistered /\ ~strict /\ Matches(pattern, isPrefix, path) /\ Matches(leaf, FALSE, path)
        => PathsCanOverlap(Raw(pattern), Raw(leaf), isPrefix)
Seen(leaf, path) ==
    (\A i \in 1 .. Len(pattern) - 1 : ~IsOptional(pattern[i]) /\ pattern[i].t # "splat")
        => SeenWhatever(leaf, path)
=============================================================================
