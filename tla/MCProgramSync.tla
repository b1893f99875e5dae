--------------------------- MODULE MCProgramSync ---------------------------
(***************************************************************************)
(* Small instances of ProgramSync for TLC.                                  *)
(***************************************************************************)
EXTENDS ProgramSync, TLC

CONSTANTS t1, t2, sp1, sp2, u1, u2, r1, r2

Symmetry == Permutations(Syncs) \cup Permutations(SpeakerIds) \cup Permutations(Users)
=============================================================================
