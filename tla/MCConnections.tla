--------------------------- MODULE MCConnections ---------------------------
(***************************************************************************)
(* A small instance of Connections for TLC: an organization with an event   *)
(* and a connection that is edited or added, and another one whose           *)
(* connection is there to be bound by mistake.                              *)
(***************************************************************************)
EXTENDS Connections, TLC

CONSTANTS org1, org2, event1, mine, theirs, added, formerKey, enteredKey, foreignKey

MCHomeOf == [e \in Events |-> org1]

MCOwner == [s \in Secrets |-> IF s = foreignKey THEN org2 ELSE org1]

Talks == <<"talk_source", "pretalx">>
Videos == <<"video_host", "fake">>

\* The last one is registered for nothing.
MCKinds == {Talks, Videos, <<"video_host", "pretalx">>}
MCRegistered == {Talks, Videos}

MCFirstRow == [c \in Connections |->
    IF c = added THEN NoRow
    ELSE [organization |-> IF c = mine THEN org1 ELSE org2, kind |-> Talks,
     secret |-> IF c = mine THEN formerKey ELSE foreignKey,
     active |-> TRUE, verified |-> FALSE]]

MCBindable == {<<event1, "talk_source">>}

Symmetry == Permutations(Workers)
=============================================================================
