----------------------------- MODULE Mailboxes -----------------------------
(***************************************************************************)
(* What the provider-write queue promises, without its table and its        *)
(* drains: a mailbox per target holds at most one letter.  A new letter     *)
(* replaces the one that waits; what was taken out is settled, or goes back *)
(* into an empty box; a person may put settled letters back.  Outbox        *)
(* implements this (src/src/integrations/models.py, the comment at          *)
(* one_pending_write_per_target_and_operation, and outbox.py).              *)
(***************************************************************************)
EXTENDS Naturals

CONSTANTS Slots, Letters

VARIABLES
    box,   \* of each slot: the letter that waits, if any
    out,   \* of each slot: letters taken out and not settled
    sent   \* letters ever sent

vars == <<box, out, sent>>

Init ==
    /\ box = [s \in Slots |-> {}]
    /\ out = [s \in Slots |-> {}]
    /\ sent = {}

\* A new letter for a slot replaces the one that waits.
Send(s, l) ==
    /\ l \notin sent
    /\ sent' = sent \cup {l}
    /\ box' = [box EXCEPT ![s] = {l}]
    /\ out' = out

\* Any number of waiting letters are taken out together.
Take(taken) ==
    /\ taken \subseteq UNION {box[s] : s \in Slots}
    /\ box' = [s \in Slots |-> box[s] \ taken]
    /\ out' = [s \in Slots |-> out[s] \cup (box[s] \cap taken)]
    /\ sent' = sent

\* A letter is done with: delivered, or given up.
Settle(s, l) ==
    /\ l \in out[s]
    /\ out' = [out EXCEPT ![s] = @ \ {l}]
    /\ UNCHANGED <<box, sent>>

\* A letter goes back to wait, which it may only where none waits.
PutBack(s, l) ==
    /\ l \in out[s]
    /\ box[s] = {}
    /\ box' = [box EXCEPT ![s] = {l}]
    /\ out' = [out EXCEPT ![s] = @ \ {l}]
    /\ sent' = sent

\* A person has settled letters wait again, one per empty box at most.
SendAgain(again) ==
    /\ \A s \in Slots :
          /\ again[s] \subseteq sent \ (box[s] \cup out[s])
          /\ again[s] # {} => box[s] = {}
          /\ \A l, m \in again[s] : l = m
    /\ box' = [s \in Slots |-> box[s] \cup again[s]]
    /\ UNCHANGED <<out, sent>>

Next ==
    \/ \E s \in Slots, l \in Letters : Send(s, l) \/ Settle(s, l) \/ PutBack(s, l)
    \/ \E taken \in SUBSET Letters : Take(taken)
    \/ \E again \in [Slots -> SUBSET Letters] : SendAgain(again)

Spec == Init /\ [][Next]_vars
=============================================================================
