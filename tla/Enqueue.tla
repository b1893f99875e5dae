------------------------------ MODULE Enqueue ------------------------------
(***************************************************************************)
(* enqueue of src/src/integrations/outbox.py, statement by statement, with  *)
(* several callers at once beside the drains and administrators of Outbox.  *)
(*                                                                          *)
(* Transactions run at READ COMMITTED.  A statement sees the rows that are  *)
(* committed when it starts (snapshot); where it finds one that another     *)
(* transaction has locked it waits, and then looks at that row again, not   *)
(* at rows committed since.  Rows locked stay so until the transaction      *)
(* ends.  What a caller writes is invisible until it commits, and a row     *)
(* inserted meanwhile makes whoever needs the same place in the unique      *)
(* index wait for that commit: so the superseded rows and the new one       *)
(* appear together, when Create commits.                                    *)
(***************************************************************************)
EXTENDS Outbox

CONSTANTS
    Callers    \* bound: calls of enqueue under way at once

\* The queue these calls add up to is the one whose callers race.
ASSUME RacesAssumption == Races

VARIABLES
    caller,    \* the calls under way
    arrivals   \* history: how often, up to twice, a row of the slot a caller is
               \* asking for became pending during its call

callers == <<caller, arrivals>>
evars == <<vars, callers>>

Idle == [at |-> "idle", slot |-> NoSlot, want |-> NoDesired, later |-> FALSE,
         attempt |-> 1, snapshot |-> {}, held |-> {}]

EInit ==
    /\ Init
    /\ caller = [c \in Callers |-> Idle]
    /\ arrivals = [c \in Callers |-> 0]

Active == {c \in Callers : caller[c].at # "idle"}

Locked == UNION {caller[c].held : c \in Callers}

\* Locked rows are not waited for.
MayLock_Always(c) == TRUE

\* No row a statement has found is locked by another transaction.
MayLock(c) == \A d \in Callers \ {c} : caller[c].snapshot \cap caller[d].held = {}

\* What is left of the rows a statement found, once it may lock them.
StillPending(c) == {w \in caller[c].snapshot : state[w] = "pending"}

Go(c, fields) == caller' = [caller EXCEPT ![c] = fields]

\* A statement starts.
Begin(c, before, after) ==
    /\ caller[c].at = before
    /\ Go(c, [caller[c] EXCEPT !.at = after, !.snapshot = PendingFor(caller[c].slot)])
    /\ UNCHANGED <<vars, arrivals>>

\* The call returns or raises, its transaction is over and its locks are gone.
End(c) ==
    /\ Go(c, Idle)
    /\ arrivals' = [arrivals EXCEPT ![c] = 0]

\* A caller is about to run enqueue.
Ask(c, s, want, later) ==
    /\ caller[c].at = "idle"
    /\ Cardinality(Rows) + Cardinality(Active) < MaxWrites
    /\ Go(c, [Idle EXCEPT !.at = "asked", !.slot = s, !.want = want, !.later = later])
    /\ UNCHANGED <<vars, arrivals>>

\* SELECT ... FOR UPDATE without the lock.
Look_LocksNothing(c) ==
    /\ caller[c].at = "looking"
    /\ MayLock(c)
    /\ LET found == StillPending(c)
       IN  Go(c, [caller[c] EXCEPT
                !.at = IF \E w \in found : desired[w] = caller[c].want THEN "found" ELSE "looked",
                !.snapshot = {}])
    /\ UNCHANGED <<vars, arrivals>>

\* pending.select_for_update().first() returns, and desired is compared.
Look(c) ==
    /\ caller[c].at = "looking"
    /\ MayLock(c)
    /\ LET found == StillPending(c)
       IN  Go(c, [caller[c] EXCEPT
                !.at = IF \E w \in found : desired[w] = caller[c].want THEN "found" ELSE "looked",
                !.snapshot = {}, !.held = found])
    /\ UNCHANGED <<vars, arrivals>>

\* The row found asks for the same: it is returned, as it is.
ReturnExisting(c) ==
    /\ caller[c].at = "found"
    /\ End(c)
    /\ UNCHANGED vars

\* The UPDATE that supersedes returns.
Supersede(c) ==
    /\ caller[c].at = "superseding"
    /\ MayLock(c)
    /\ Go(c, [caller[c] EXCEPT !.at = "superseded", !.snapshot = {},
                            !.held = StillPending(c)])
    /\ UNCHANGED <<vars, arrivals>>

\* A pending row this transaction did not supersede.
Beaten(c) == PendingFor(caller[c].slot) \ caller[c].held # {}

\* A row of slot s becomes pending.
CountArrival(s) ==
    [c \in Callers |-> IF caller[c].slot = s /\ arrivals[c] < 2
                       THEN arrivals[c] + 1 ELSE arrivals[c]]

\* The new row of a call, beside the rows it superseded.
InsertFor(c, w) ==
    Insert(w, caller[c].slot, caller[c].want, caller[c].later, [v \in Writes |->
        IF v = w THEN "pending"
        ELSE IF v \in caller[c].held THEN "superseded" ELSE state[v]])

\* The insert without its index.
Create_Unchecked(c) ==
    /\ caller[c].at = "superseded"
    /\ \E w \in Writes : InsertFor(c, w)
    /\ Go(c, Idle)
    /\ arrivals' = [CountArrival(caller[c].slot) EXCEPT ![c] = 0]

\* The insert succeeds and the transaction commits.
Create(c) ==
    /\ caller[c].at = "superseded"
    /\ ~Beaten(c)
    /\ \E w \in Writes : InsertFor(c, w)
    /\ Go(c, Idle)
    /\ arrivals' = [CountArrival(caller[c].slot) EXCEPT ![c] = 0]

\* One attempt only.
Attempts_One == 1

Attempts == 2

\* IntegrityError: everything is rolled back, and tried once more.
LoseRace(c) ==
    /\ caller[c].at = "superseded"
    /\ Beaten(c)
    /\ IF caller[c].attempt < Attempts
       THEN /\ Go(c, [caller[c] EXCEPT !.at = "asked", !.attempt = @ + 1, !.held = {}])
            /\ UNCHANGED arrivals
       ELSE End(c)
    /\ UNCHANGED vars

\* The process is gone, and its transaction with it.
Abort(c) ==
    /\ caller[c].at # "idle"
    /\ End(c)
    /\ UNCHANGED vars

CallerStep(c) ==
    \/ Begin(c, "asked", "looking")
    \/ Look(c)
    \/ ReturnExisting(c)
    \/ Begin(c, "looked", "superseding")
    \/ Supersede(c)
    \/ Create(c)
    \/ LoseRace(c)

\* Statements of drains and administrators wait for locked rows or, in claim,
\* skip them.
Elsewhere ==
    /\ \/ \E selection \in SUBSET Writes : AdminRetry(selection)
       \/ \E d \in Drains : DrainStep(d) \/ Crash(d)
       \/ \E w \in Writes : WaitOver(w) \/ Age(w)
    /\ \A w \in Locked : state'[w] = state[w]
    /\ arrivals' = [c \in Callers |->
           IF \E w \in Writes : /\ state[w] # "pending" /\ state'[w] = "pending"
                                /\ slot[w] = caller[c].slot /\ arrivals[c] < 2
           THEN arrivals[c] + 1 ELSE arrivals[c]]
    /\ UNCHANGED caller

ENext ==
    \/ \E c \in Callers :
          \/ \E s \in Slots, want \in Desired, later \in Delays : Ask(c, s, want, later)
          \/ CallerStep(c)
          \/ Abort(c)
    \/ Elsewhere

ESpec == EInit /\ [][ENext]_evars

(***************************************************************************)
(* Properties.                                                              *)
(***************************************************************************)

Call == [at: {"idle", "asked", "looking", "found", "looked", "superseding", "superseded"},
         slot: Slots \cup {NoSlot}, want: Desired \cup {NoDesired}, later: BOOLEAN,
         attempt: 1 .. 2, snapshot: SUBSET Writes, held: SUBSET Writes]

\* Type correctness of the calls, beside that of the queue.
EnqueueTypeOK ==
    /\ TypeOK
    /\ caller \in [Callers -> Call]
    /\ arrivals \in [Callers -> 0 .. 2]

\* The row a caller has read, and is about to return or to supersede, is still the
\* slot's pending one and no other caller has it, whatever drains and callers do.
HeldIsPending ==
    \A c \in Callers : \A w \in caller[c].held :
        /\ state[w] = "pending"
        /\ slot[w] = caller[c].slot
        /\ \A d \in Callers \ {c} : w \notin caller[d].held

\* When a call returns, its slot has one pending row, which asks for what the call
\* was given, be it the row found or a new one.
ReturnedIntentIsQueued ==
    [][\A c \in Callers : ReturnExisting(c) \/ Create(c) =>
          \E s \in Slots, w \in Writes :
             /\ s = caller[c].slot
             /\ PendingFor(s)' = {w}
             /\ desired'[w] = caller[c].want]_evars

\* "The loser retries once and finds the winner's row": a call raises only when it
\* lost twice, each time to another row of its slot.
RaisesOnlyIfTwiceBeaten ==
    [][\A c \in Callers :
          LoseRace(c) /\ caller'[c] = Idle => arrivals[c] = 2]_evars

\* To the rest of the queue a call is one step or none: whatever callers race, the
\* drains see the queue of Outbox.
ImplementsOutbox == Spec
=============================================================================
