--------------------------- MODULE MCPublication ---------------------------
(***************************************************************************)
(* Small instances of Publication for TLC.                                  *)
(***************************************************************************)
EXTENDS Publication, TLC

CONSTANTS v1, e1, d1

OneEvent == [s \in Slots |-> e1]
AllEvents == [d \in Drains |-> Events]
Never == {FALSE}

CrashQuota == ("crash" :> 1) @@ ("quota" :> 1) @@ ("retry" :> 0)
=============================================================================
