----------------------------- MODULE MCCaptions -----------------------------
(***************************************************************************)
(* Small instances of Captions for TLC.                                     *)
(***************************************************************************)
EXTENDS Captions, TLC

CONSTANTS v1, e1, d1, en, de, en1, en2, de1

OneEvent == [s \in Slots |-> e1]
AllEvents == [d \in Drains |-> Events]
TextLanguage == [t \in Desired |-> IF t = de1 THEN de ELSE en]
Never == {FALSE}

\* The two English texts may be swapped.
Symmetry == Permutations({en1, en2})

CrashQuota == ("crash" :> 1) @@ ("quota" :> 1) @@ ("retry" :> 0)
=============================================================================
