----------------------------- MODULE MCEnqueue -----------------------------
(***************************************************************************)
(* A small instance of Enqueue for TLC.                                     *)
(***************************************************************************)
EXTENDS Enqueue, TLC

CONSTANTS s1, e1, d1, wantA, wantB

InOneEvent == [s \in Slots |-> e1]

AllEvents == [d \in Drains |-> Events]

Never == {FALSE}

Symmetry == Permutations(Callers) \cup Permutations(Desired)

NoFaults == [f \in Faults |-> 0]
=============================================================================
