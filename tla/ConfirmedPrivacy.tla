-------------------------- MODULE ConfirmedPrivacy --------------------------
(***************************************************************************)
(* What src/src/videos/writes.py promises of a video's privacy, without its *)
(* queue and its handler: "local state records confirmed provider state,    *)
(* never intent".  The video host changes a video only to a privacy that    *)
(* somebody asked for and that is owed still; the local record changes only *)
(* to what the host has; and nothing is owed any more only once a privacy   *)
(* that was asked for is on both sides.  Publication implements this.       *)
(***************************************************************************)
CONSTANTS Videos, Privacies

VARIABLES
    asked,     \* of each video: the privacies ever asked for
    owing,     \* videos somebody still has to see to
    provider,  \* of each video: the privacy the video host has
    recorded   \* of each video: the privacy the local row records

vars == <<asked, owing, provider, recorded>>

Init ==
    /\ asked = [v \in Videos |-> {}]
    /\ owing = {}
    /\ recorded \in [Videos -> Privacies]
    /\ provider = recorded

Ask(v, p) ==
    /\ asked' = [asked EXCEPT ![v] = @ \cup {p}]
    /\ owing' = owing \cup {v}
    /\ UNCHANGED <<provider, recorded>>

\* The host may apply any privacy asked for, an older one too, at any time.
Apply(v, p) ==
    /\ v \in owing
    /\ p \in asked[v]
    /\ provider' = [provider EXCEPT ![v] = p]
    /\ UNCHANGED <<asked, owing, recorded>>

Record(v) ==
    /\ v \in owing
    /\ recorded' = [recorded EXCEPT ![v] = provider[v]]
    /\ UNCHANGED <<asked, owing, provider>>

Fulfil(v) ==
    /\ v \in owing
    /\ recorded[v] = provider[v]
    /\ provider[v] \in asked[v]
    /\ owing' = owing \ {v}
    /\ UNCHANGED <<asked, provider, recorded>>

Next ==
    \E v \in Videos :
       \/ \E p \in Privacies : Ask(v, p) \/ Apply(v, p)
       \/ Record(v)
       \/ Fulfil(v)

Spec == Init /\ [][Next]_vars
=============================================================================
