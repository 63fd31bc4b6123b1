---------------------------- MODULE BodyDelivery ----------------------------
(***************************************************************************)
(* What a response promises of its body, however it gets there: the bytes  *)
(* the application gave reach the wire once each and in order, and the     *)
(* response either ends with all of them or its connection is dropped.     *)
(* Nothing follows either.                                                 *)
(***************************************************************************)
EXTENDS Pieces

VARIABLES
    given,  \* how many bytes the application has given
    wire,   \* the pieces sent, in order
    state   \* "open", "ended" or "closed"

deliveryVars == <<given, wire, state>>

Init == given = 0 /\ wire = <<>> /\ state = "open"

\* What is on the wire stays, and more of the body may follow it.
Extends ==
    /\ given' >= given
    /\ Len(wire') >= Len(wire)
    /\ \A i \in 1 .. Len(wire) : wire'[i] = wire[i]
    /\ Chain(wire', 0, Upto(wire'))
    /\ Upto(wire') <= given'

Send == state = "open" /\ Extends /\ UNCHANGED state

Finish == state = "open" /\ Extends /\ state' = "ended" /\ Upto(wire') = given'

Drop == state = "open" /\ state' = "closed" /\ UNCHANGED <<given, wire>>

Next == Send \/ Finish \/ Drop

Spec == Init /\ [][Next]_deliveryVars
=============================================================================
