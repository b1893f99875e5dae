---------------------------- MODULE MCOrganizers ----------------------------
(***************************************************************************)
(* A small instance of Organizers for TLC: two organizations with an event   *)
(* of the same slug each, and a third event that may move between them; an   *)
(* organizer, and a speaker who may become one; one browser the two share.   *)
(***************************************************************************)
EXTENDS Organizers

CONSTANTS org1, org2, event1, event2, event3, video1, video3, organizer, speaker

MCSlug == [e \in Events |-> IF e = event3 THEN "2025" ELSE "2026"]

MCHomeOf == [e \in Events |-> IF e = event1 THEN org1 ELSE org2]

MCEventOf == [v \in Videos |-> IF v = video1 THEN event1 ELSE event3]

MCSpeaksOn == [v \in Videos |-> IF v = video1 THEN {speaker} ELSE {}]

Member(role, scopes) == [role |-> role, scopes |-> scopes]

\* Every kind of membership for the organizer at home; all or nothing elsewhere.
MCMemberships == [uo \in Users \X Organizations |->
    CASE uo = <<organizer, org1>> ->
            {NoMembership, Member("organizer", {}), Member("organizer", {"videos"}),
             Member("viewer", {"program"}), Member("organizer", {Stale}),
             Member("owner", {"program"})}
      [] uo = <<organizer, org2>> -> {NoMembership, Member("organizer", {})}
      [] uo = <<speaker, org1>> -> {NoMembership, Member("organizer", {})}
      [] OTHER -> {NoMembership}]

MCFlagChoices == [u \in Users |->
    IF u = organizer THEN {{}, {"active", "staff"}, Flags} ELSE {{"active"}}]
=============================================================================
