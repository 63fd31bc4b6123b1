------------------------------- MODULE Pieces -------------------------------
(***************************************************************************)
(* A piece of a body is the interval of byte positions it covers, numbered *)
(* in the order the bytes were given: [from |-> 2, upto |-> 5] holds bytes *)
(* 3, 4 and 5.  Bytes are lost, doubled or reordered exactly when pieces   *)
(* do not chain.                                                           *)
(***************************************************************************)
EXTENDS Integers, Sequences

Piece == {p \in [from : Nat, upto : Nat] : p.from <= p.upto}

Size(p) == p.upto - p.from

\* Where a sequence of pieces that starts at 0 has got to.
Upto(s) == IF s = <<>> THEN 0 ELSE s[Len(s)].upto

\* The pieces of s cover positions a+1 to b, in order, nothing twice.
Chain(s, a, b) ==
    IF s = <<>> THEN a = b
    ELSE /\ s[1].from = a
         /\ s[Len(s)].upto = b
         /\ \A i \in 1 .. Len(s) : s[i].upto <= b
         /\ \A i \in 1 .. Len(s) - 1 : s[i].upto = s[i + 1].from
=============================================================================
