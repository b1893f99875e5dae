------------------------------- MODULE Outbox -------------------------------
(***************************************************************************)
(* The provider-write queue of src/src/integrations/outbox.py: the          *)
(* ProviderWrite table, the callers that enqueue intent, the administrator  *)
(* who retries failures, and the drains that claim rows, hand them to a     *)
(* handler and settle them.                                                 *)
(*                                                                          *)
(* Every database statement or transaction of the code is one action, so    *)
(* drains, callers and crashes interleave between them.  A handler is       *)
(* opaque here: its call is one step (CallHandler) and its outcome another. *)
(*                                                                          *)
(* Writes are numbered in the order of created_at.  A slot stands for the   *)
(* (event, target_external_id, operation) triple of the partial unique      *)
(* index.  Every registered operation uses the VIDEO_HOST capability, so    *)
(* the (event, capability) key of blocked_until is the event.               *)
(*                                                                          *)
(* Clocks are abstracted to the two comparisons the code makes: waiting[w]  *)
(* is "not_before lies in the future", stale[w] is "updated_at is at least  *)
(* STALE_IN_FLIGHT old".                                                    *)
(***************************************************************************)
EXTENDS Naturals, FiniteSets

CONSTANTS
    MaxWrites,     \* bound: rows created in a behaviour
    Slots,         \* (event, target_external_id, operation) triples
    Desired,       \* end states a caller may ask for
    Events,
    EventOf,       \* the event of a slot
    Drains,        \* processes that run drain_provider_writes, again and again
    Scope,         \* the events a drain takes: one for --event, all without it
    Limit,         \* --limit
    MAX_ATTEMPTS,
    Races,         \* may callers of one slot race (see Enqueue)?
    Delays,        \* may a caller schedule a release? ({FALSE}: nobody does)
    SlowDrains,    \* may a live drain sit on a row past STALE_IN_FLIGHT?
    Budget         \* bounds: how often each kind of trouble may strike

Faults == {"crash", "quota", "retry"}

ASSUME OutboxAssumption ==
    /\ MaxWrites \in Nat
    /\ EventOf \in [Slots -> Events]
    /\ Scope \in [Drains -> SUBSET Events]
    /\ Limit \in Nat
    /\ MAX_ATTEMPTS \in Nat \ {0}
    /\ Races \in BOOLEAN
    /\ Delays \subseteq BOOLEAN
    /\ SlowDrains \in BOOLEAN
    /\ Budget \in [Faults -> Nat]

Writes == 1 .. MaxWrites

NoSlot == "no slot"
NoDesired == "no desired state"
ASSUME NullAssumption == NoSlot \notin Slots /\ NoDesired \notin Desired

VARIABLES
    \* the ProviderWrite table, one function per column; "absent" is no row yet
    state, slot, desired, attempts, waiting, stale,
    \* the drains' local state
    pc,         \* "idle", "recovering", "draining" or "calling"
    abandoned,  \* requeue_stale: fetched stale rows still to be marked failed
    batch,      \* drain: claimed rows not settled yet
    seen,       \* the attempts column as a drain's fetched copy has it
    blocked,    \* blocked_until: events whose quota ran out in this drain
    \* history
    calls,      \* handler calls not refused for quota, since the last retry
    recovered,  \* rows requeue_stale or an administrator put back
    spent       \* faults so far

table == <<state, slot, desired, attempts, waiting, stale>>
local == <<pc, abandoned, batch, seen, blocked>>
history == <<calls, recovered, spent>>
vars == <<table, local, history>>

States == {"absent", "pending", "in_flight", "confirmed", "failed", "superseded"}

Open(w) == state[w] \in {"pending", "in_flight"}

Rows == {w \in Writes : state[w] # "absent"}

Siblings(w) == {v \in Rows : v # w /\ slot[v] = slot[w]}

Newer(w) == {v \in Siblings(w) : v > w}

\* Without the index.
Clash_NoIndex(w) == FALSE

\* The partial unique index: saving w as pending raises IntegrityError.
Clash(w) == \E v \in Siblings(w) : state[v] = "pending"

IsFirst(w, S) == w \in S /\ \A v \in S : w <= v

Event(w) == EventOf[slot[w]]

Init ==
    /\ state = [w \in Writes |-> "absent"]
    /\ slot = [w \in Writes |-> NoSlot]
    /\ desired = [w \in Writes |-> NoDesired]
    /\ attempts = [w \in Writes |-> 0]
    /\ waiting = [w \in Writes |-> FALSE]
    /\ stale = [w \in Writes |-> FALSE]
    /\ pc = [d \in Drains |-> "idle"]
    /\ abandoned = [d \in Drains |-> {}]
    /\ batch = [d \in Drains |-> {}]
    /\ seen = [d \in Drains |-> [w \in Writes |-> 0]]
    /\ blocked = [d \in Drains |-> {}]
    /\ calls = [w \in Writes |-> 0]
    /\ recovered = {}
    /\ spent = [f \in Faults |-> 0]

Strike(f) ==
    /\ spent[f] < Budget[f]
    /\ spent' = [spent EXCEPT ![f] = @ + 1]

(***************************************************************************)
(* Enqueueing and retrying: requests of web users and administrators.       *)
(***************************************************************************)

PendingFor(s) == {v \in Writes : state[v] = "pending" /\ slot[v] = s}

\* enqueue finds no pending row that asks for the same already.  A caller that had
\* to wait for the row it found misses the one that replaced it.
IsNews(s, want) == Races \/ \A v \in PendingFor(s) : desired[v] # want

\* The insert of a row, with what it does to the state column.
Insert(w, s, want, later, newState) ==
    /\ state[w] = "absent"
    /\ \A v \in Writes : v < w => state[v] # "absent"
    /\ state' = newState
    /\ slot' = [slot EXCEPT ![w] = s]
    /\ desired' = [desired EXCEPT ![w] = want]
    /\ waiting' = [waiting EXCEPT ![w] = later]
    /\ UNCHANGED <<attempts, stale, local, history>>

\* Variants of enqueue with a bug: the new row is created before the pending
\* ones are superseded; everything not in flight is superseded, settled or not.
Enqueue_SupersedesItself(s, want, later) ==
    \E w \in Writes :
      /\ IsNews(s, want)
      /\ Insert(w, s, want, later, [v \in Writes |->
             IF v \in PendingFor(s) \cup {w} THEN "superseded" ELSE state[v]])

Enqueue_SupersedesSettled(s, want, later) ==
    \E w \in Writes :
      /\ IsNews(s, want)
      /\ Insert(w, s, want, later, [v \in Writes |->
             IF v = w THEN "pending"
             ELSE IF v \in Rows /\ slot[v] = s /\ state[v] # "in_flight" THEN "superseded"
             ELSE state[v]])

\* enqueue: supersede whatever is pending for the slot and create a row.
\* Asking again for the pending end state returns the row found: a stutter.
Enqueue(s, want, later) ==
    \E w \in Writes :
      /\ IsNews(s, want)
      /\ Insert(w, s, want, later, [v \in Writes |->
             IF v = w THEN "pending"
             ELSE IF v \in PendingFor(s) THEN "superseded"
             ELSE state[v]])

\* ProviderWriteAdmin.retry: one UPDATE over the failed rows of a selection.
\* It fails as a whole, changing nothing, when the index would be violated.
AdminRetry(selection) ==
    /\ selection # {}
    /\ \A w \in selection :
          /\ state[w] = "failed"
          /\ ~Clash(w)
          /\ Siblings(w) \cap selection = {}
    /\ state' = [w \in Writes |-> IF w \in selection THEN "pending" ELSE state[w]]
    /\ attempts' = [w \in Writes |-> IF w \in selection THEN 0 ELSE attempts[w]]
    /\ waiting' = [w \in Writes |-> w \notin selection /\ waiting[w]]
    /\ calls' = [w \in Writes |-> IF w \in selection THEN 0 ELSE calls[w]]
    /\ recovered' = recovered \cup selection
    /\ Strike("retry")
    /\ UNCHANGED <<slot, desired, stale, local>>

(***************************************************************************)
(* Settling a row: mark_confirmed, mark_failed and defer save their fetched *)
(* copy by primary key, whatever the row has become meanwhile.              *)
(***************************************************************************)

Save(w, st, wait) ==
    /\ state' = [state EXCEPT ![w] = st]
    /\ waiting' = [waiting EXCEPT ![w] = wait]
    /\ stale' = [stale EXCEPT ![w] = FALSE]
    /\ UNCHANGED <<slot, desired>>

MarkConfirmed(w) ==
    /\ Save(w, "confirmed", waiting[w])
    /\ UNCHANGED attempts

\* Off by one.
AttemptsRemain_OneMore(d, w) == seen[d][w] + 1 <= MAX_ATTEMPTS

\* attempts_remain after this attempt, as the fetched copy counts them.
AttemptsRemain(d, w) == seen[d][w] + 1 < MAX_ATTEMPTS

MarkFailed(d, w, permanent) ==
    LET retry == ~permanent /\ AttemptsRemain(d, w)
    IN  /\ retry => ~Clash(w)
        /\ Save(w, IF retry THEN "pending" ELSE "failed", retry)
        /\ attempts' = [attempts EXCEPT ![w] = seen[d][w] + 1]

\* mark_failed(permanent=False) violates the index and raises.
MarkFailedRaises(d, w) == AttemptsRemain(d, w) /\ Clash(w)

Defer(w) ==
    /\ ~Clash(w)
    /\ Save(w, "pending", TRUE)
    /\ UNCHANGED attempts

(***************************************************************************)
(* A drain.                                                                 *)
(***************************************************************************)

\* The process is gone, with its memory; the table keeps what was committed.
Die(d) ==
    /\ pc' = [pc EXCEPT ![d] = "idle"]
    /\ abandoned' = [abandoned EXCEPT ![d] = {}]
    /\ batch' = [batch EXCEPT ![d] = {}]
    /\ seen' = [seen EXCEPT ![d] = [w \in Writes |-> 0]]
    /\ blocked' = [blocked EXCEPT ![d] = {}]

Crash(d) ==
    /\ pc[d] # "idle"
    /\ Strike("crash")
    /\ Die(d)
    /\ UNCHANGED <<table, calls, recovered>>

Fetch(d, rows) ==
    seen' = [seen EXCEPT ![d] = [w \in Writes |-> IF w \in rows THEN attempts[w] ELSE 0]]

\* The fetched copy of a settled row is not used again.
Forget(d, w) == seen' = [seen EXCEPT ![d] = [@ EXCEPT ![w] = 0]]

\* A drain without requeue_stale.
StartDrain_RecoversNothing(d) ==
    /\ pc[d] = "idle"
    /\ pc' = [pc EXCEPT ![d] = "recovering"]
    /\ UNCHANGED <<table, abandoned, batch, seen, blocked, history>>

\* requeue_stale evaluates its query.
StartDrain(d) ==
    LET found == {w \in Writes : /\ state[w] = "in_flight"
                                 /\ stale[w]
                                 /\ Event(w) \in Scope[d]}
    IN  /\ pc[d] = "idle"
        /\ pc' = [pc EXCEPT ![d] = "recovering"]
        /\ abandoned' = [abandoned EXCEPT ![d] = found]
        /\ Fetch(d, found)
        /\ UNCHANGED <<table, batch, blocked, history>>

\* One turn of requeue_stale's loop.
Recover(d) ==
    \E w \in Writes :
      /\ pc[d] = "recovering"
      /\ IsFirst(w, abandoned[d])
      /\ \/ /\ MarkFailed(d, w, FALSE)
            /\ abandoned' = [abandoned EXCEPT ![d] = @ \ {w}]
            /\ Forget(d, w)
            /\ recovered' = recovered \cup {w}
            /\ UNCHANGED <<pc, batch, blocked, calls, spent>>
         \/ /\ MarkFailedRaises(d, w)
            /\ Die(d)
            /\ UNCHANGED <<table, history>>

\* The bulk update without its explicit timestamp: updated_at stays old.
Claim_KeepsTimestamp(d, locked) ==
    LET due == {w \in Writes \ locked : /\ state[w] = "pending"
                                        /\ ~waiting[w]
                                        /\ Event(w) \in Scope[d]}
        taken == {w \in due : Cardinality({v \in due : v < w}) < Limit}
    IN  /\ pc[d] = "recovering"
        /\ abandoned[d] = {}
        /\ pc' = [pc EXCEPT ![d] = "draining"]
        /\ batch' = [batch EXCEPT ![d] = taken]
        /\ Fetch(d, taken)
        /\ state' = [w \in Writes |-> IF w \in taken THEN "in_flight" ELSE state[w]]
        /\ stale' = [w \in Writes |-> w \in taken \/ stale[w]]
        /\ UNCHANGED <<slot, desired, attempts, waiting, abandoned, blocked, history>>

\* claim: the oldest due rows in scope, except those another transaction has
\* locked at this moment (SKIP LOCKED).
Claim(d, locked) ==
    LET due == {w \in Writes \ locked : /\ state[w] = "pending"
                                        /\ ~waiting[w]
                                        /\ Event(w) \in Scope[d]}
        taken == {w \in due : Cardinality({v \in due : v < w}) < Limit}
    IN  /\ pc[d] = "recovering"
        /\ abandoned[d] = {}
        /\ pc' = [pc EXCEPT ![d] = "draining"]
        /\ batch' = [batch EXCEPT ![d] = taken]
        /\ Fetch(d, taken)
        /\ state' = [w \in Writes |-> IF w \in taken THEN "in_flight" ELSE state[w]]
        /\ stale' = [w \in Writes |-> w \notin taken /\ stale[w]]
        /\ UNCHANGED <<slot, desired, attempts, waiting, abandoned, blocked, history>>

\* The for loop of drain moves on to the next claimed row.
Advance(d, w) ==
    /\ batch' = [batch EXCEPT ![d] = @ \ {w}]
    /\ pc' = [pc EXCEPT ![d] = "draining"]
    /\ Forget(d, w)
    /\ UNCHANGED abandoned

\* The row's event ran out of quota earlier in this drain.
DeferBlocked(d) ==
    \E w \in Writes :
      /\ pc[d] = "draining"
      /\ IsFirst(w, batch[d])
      /\ Event(w) \in blocked[d]
      /\ \/ Defer(w) /\ Advance(d, w) /\ UNCHANGED blocked
         \/ Clash(w) /\ Die(d) /\ UNCHANGED table
      /\ UNCHANGED history

CallHandler(d) ==
    \E w \in Writes :
      /\ pc[d] = "draining"
      /\ IsFirst(w, batch[d])
      /\ Event(w) \notin blocked[d]
      /\ pc' = [pc EXCEPT ![d] = "calling"]
      /\ calls' = [calls EXCEPT ![w] = @ + 1]
      /\ UNCHANGED <<table, abandoned, batch, seen, blocked, recovered, spent>>

\* resolve_adapter or get_handler raised, before any call: permanently
\* (IntegrationNotConfigured, HandlerNotRegistered) or with any other error.
Unresolvable(d, permanent) ==
    \E w \in Writes :
      /\ pc[d] = "draining"
      /\ IsFirst(w, batch[d])
      /\ Event(w) \notin blocked[d]
      /\ \/ MarkFailed(d, w, permanent) /\ Advance(d, w) /\ UNCHANGED blocked
         \/ ~permanent /\ MarkFailedRaises(d, w) /\ Die(d) /\ UNCHANGED table
      /\ UNCHANGED history

Confirm(d) ==
    \E w \in Writes :
      /\ pc[d] = "calling"
      /\ IsFirst(w, batch[d])
      /\ MarkConfirmed(w)
      /\ Advance(d, w)
      /\ UNCHANGED <<blocked, history>>

\* The handler raised: WriteRejected is permanent, anything else is not.
HandlerFails(d, permanent) ==
    \E w \in Writes :
      /\ pc[d] = "calling"
      /\ IsFirst(w, batch[d])
      /\ \/ MarkFailed(d, w, permanent) /\ Advance(d, w) /\ UNCHANGED blocked
         \/ ~permanent /\ MarkFailedRaises(d, w) /\ Die(d) /\ UNCHANGED table
      /\ UNCHANGED history

\* The handler raised QuotaExceeded.
HandlerOutOfQuota(d) ==
    \E w \in Writes :
      /\ pc[d] = "calling"
      /\ IsFirst(w, batch[d])
      /\ Strike("quota")
      /\ calls' = [calls EXCEPT ![w] = IF @ = 0 THEN 0 ELSE @ - 1]
      /\ \/ /\ Defer(w)
            /\ Advance(d, w)
            /\ blocked' = [blocked EXCEPT ![d] = @ \cup {Event(w)}]
         \/ /\ Clash(w)
            /\ Die(d)
            /\ UNCHANGED table
      /\ UNCHANGED recovered

Finish(d) ==
    /\ pc[d] = "draining"
    /\ batch[d] = {}
    /\ Die(d)
    /\ UNCHANGED <<table, history>>

(***************************************************************************)
(* The passage of time.                                                     *)
(***************************************************************************)

WaitOver(w) ==
    /\ state[w] = "pending"
    /\ waiting[w]
    /\ waiting' = [waiting EXCEPT ![w] = FALSE]
    /\ UNCHANGED <<state, slot, desired, attempts, stale, local, history>>

\* STALE_IN_FLIGHT passes for a row.  Unless SlowDrains, no live drain is
\* still working on it then.
Age(w) ==
    /\ state[w] = "in_flight"
    /\ ~stale[w]
    /\ SlowDrains \/ \A d \in Drains : w \notin batch[d]
    /\ stale' = [stale EXCEPT ![w] = TRUE]
    /\ UNCHANGED <<state, slot, desired, attempts, waiting, local, history>>

DrainStep(d) ==
    \/ StartDrain(d)
    \/ Recover(d)
    \/ \E locked \in SUBSET Writes : Claim(d, locked)
    \/ DeferBlocked(d)
    \/ CallHandler(d)
    \/ \E permanent \in BOOLEAN : Unresolvable(d, permanent) \/ HandlerFails(d, permanent)
    \/ Confirm(d)
    \/ HandlerOutOfQuota(d)
    \/ Finish(d)

Next ==
    \/ \E s \in Slots, want \in Desired, later \in Delays : Enqueue(s, want, later)
    \/ \E selection \in SUBSET Writes : AdminRetry(selection)
    \/ \E d \in Drains : DrainStep(d) \/ Crash(d)
    \/ \E w \in Writes : WaitOver(w) \/ Age(w)

Spec == Init /\ [][Next]_vars

\* Cron keeps starting every drain, which keeps running; a row lock does not
\* meet every claim for ever; and clocks advance.
Fairness ==
    /\ \A d \in Drains : /\ WF_vars(DrainStep(d))
                         /\ SF_vars(Claim(d, {}))
    /\ \A w \in Writes : WF_vars(WaitOver(w)) /\ WF_vars(Age(w))

FairSpec == Spec /\ Fairness

(***************************************************************************)
(* Properties.  Those about drains need every event to have one drain at a  *)
(* time, and drains that do not sit on a row past STALE_IN_FLIGHT.          *)
(***************************************************************************)

OneDrainPerEvent ==
    \A d, e \in Drains : d # e => Scope[d] \cap Scope[e] = {}

PromptDrains == ~SlowDrains

\* Type correctness of the table, the drains and the history.
TypeOK ==
    /\ state \in [Writes -> States]
    /\ slot \in [Writes -> Slots \cup {NoSlot}]
    /\ desired \in [Writes -> Desired \cup {NoDesired}]
    /\ attempts \in [Writes -> Nat]
    /\ waiting \in [Writes -> BOOLEAN]
    /\ stale \in [Writes -> BOOLEAN]
    /\ pc \in [Drains -> {"idle", "recovering", "draining", "calling"}]
    /\ abandoned \in [Drains -> SUBSET Writes]
    /\ batch \in [Drains -> SUBSET Writes]
    /\ seen \in [Drains -> [Writes -> Nat]]
    /\ blocked \in [Drains -> SUBSET Events]
    /\ calls \in [Writes -> Nat]
    /\ recovered \in SUBSET Writes
    /\ spent \in [Faults -> Nat]
    /\ \A w \in Rows : slot[w] \in Slots /\ desired[w] \in Desired

\* Intent is never lost to supersession: whatever drains, crashes and retries
\* do, a superseded write has a fresher sibling that is not itself superseded.
SupersededHasSuccessor ==
    \A w \in Writes : state[w] = "superseded" =>
        \E v \in Newer(w) : state[v] # "superseded"

\* What a drain is about to hand to a handler is what the table says it holds:
\* in flight, not up for recovery by anyone, with the attempts it fetched.
HeldIsInFlight ==
    \A d \in Drains : \A w \in batch[d] :
        /\ state[w] = "in_flight"
        /\ ~stale[w]
        /\ seen[d][w] = attempts[w]
        /\ \A e \in Drains : w \notin abandoned[e] /\ (e # d => w \notin batch[e])

\* MAX_ATTEMPTS bounds the calls the provider sees for one write, through any
\* mix of crashes, recoveries, deferrals and failures, until a person retries
\* it; an open write always has an attempt left.
CallsAreBounded ==
    \A w \in Writes :
        /\ calls[w] <= MAX_ATTEMPTS
        /\ attempts[w] <= MAX_ATTEMPTS
        /\ Open(w) => attempts[w] < MAX_ATTEMPTS

\* A drain works on an older intent only while nothing fresher for its slot
\* has left the queue, unless recovery or an administrator brought it back.
InOrderUnlessRecovered ==
    \A d \in Drains : \A w \in batch[d] \ recovered :
        \A v \in Newer(w) : state[v] \in {"pending", "superseded"}

\* A slot is a mailbox: a new intent replaces the one that waits, what a drain took
\* out is settled or put back where nothing fresher waits, and nothing settled
\* waits again but by an administrator.
Mail == INSTANCE Mailboxes WITH
    Letters <- Writes,
    box <- [s \in Slots |-> PendingFor(s)],
    out <- [s \in Slots |-> {w \in Writes : state[w] = "in_flight" /\ slot[w] = s}],
    sent <- Rows

SlotsAreMailboxes == Mail!Spec

\* Confirmed and superseded writes stay so, and a failed one comes back only
\* as an administrator's fresh start.
SettledIsFinal ==
    [][\A w \in Writes :
          /\ state[w] \in {"confirmed", "superseded"} => state'[w] = state[w]
          /\ state[w] = "failed" /\ state'[w] # "failed" =>
                state'[w] = "pending" /\ attempts'[w] = 0]_vars

\* An in-flight write whose slot has a pending one: recovering it must raise.
Wedged == \E w \in Writes : state[w] = "in_flight" /\ Clash(w)

\* Every write is settled in the end, unless an in-flight write with a fresher
\* pending sibling wedges the queue for ever.
SettledUnlessWedged ==
    []<>~Wedged => \A w \in Writes : Open(w) ~> ~Open(w)

(***************************************************************************)
(* What the code's documentation promises and the code does not keep.       *)
(***************************************************************************)

\* requeue_stale: without it "in_flight becomes a state nothing ever leaves";
\* with it, every in-flight write leaves that state.
InFlightIsLeft ==
    \A w \in Writes : state[w] = "in_flight" ~> state[w] # "in_flight"
=============================================================================
