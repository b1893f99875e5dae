--------------------------- MODULE MCLoginTokens ---------------------------
(***************************************************************************)
(* Small instances of LoginTokens for TLC.                                  *)
(***************************************************************************)
EXTENDS LoginTokens, TLC

CONSTANTS r1, r2, b1, b2

Symmetry == Permutations(Requesters) \cup Permutations(Visitors)

\* The purge and the throttle rest on it.
ASSUME LongEnough
=============================================================================
