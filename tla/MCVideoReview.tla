-------------------------- MODULE MCVideoReview --------------------------
(***************************************************************************)
(* Small instances of VideoReview for TLC.                                  *)
(***************************************************************************)
EXTENDS VideoReview, TLC

CONSTANTS v1, t1, t2, speaker, organizer, p1, p2

GivesFirstTalk == [t \in Talks |-> IF t = t1 THEN {speaker} ELSE {}]

\* The first talk is the one: clearly, or by too little.
MCLikeness ==
    {[v \in Videos |-> [t \in Talks |-> IF t = t1 THEN 90 ELSE other]] : other \in {78, 79}}

MCCasts == [t \in Talks |-> IF t = t1 THEN {{}, {speaker}} ELSE {}]

\* Approvals beside everything else.
RequestsAndForms ==
    [p \in Pages |-> IF p = p1 THEN AllScreens \ {"approve"} ELSE {"approve"}]

OnlyForms == [p \in Pages |-> {"form"}]
=============================================================================
