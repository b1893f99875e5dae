------------------------------ MODULE MCOutbox ------------------------------
(***************************************************************************)
(* Small instances of Outbox for TLC.                                       *)
(***************************************************************************)
EXTENDS Outbox, TLC

CONSTANTS s1, s2, e1, d1, d2, wantA, wantB

OneEvent == {e1}
BothInOneEvent == [s \in Slots |-> e1]

AllEvents == [d \in Drains |-> Events]

Never == {FALSE}
EitherWay == BOOLEAN

Faulty == ("crash" :> 1) @@ ("quota" :> 1) @@ ("retry" :> 1)
NoFaults == ("crash" :> 0) @@ ("quota" :> 0) @@ ("retry" :> 0)
=============================================================================
