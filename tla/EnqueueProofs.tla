--------------------------- MODULE EnqueueProofs ---------------------------
(***************************************************************************)
(* Theorems about enqueue, for any number of callers at once, beside any    *)
(* number of drains.  The one that carries the others: whatever callers     *)
(* race, the queue cannot tell a call from the single step of Outbox, so    *)
(* what OutboxProofs shows of the queue holds with racing callers too.      *)
(***************************************************************************)
EXTENDS Enqueue, OutboxProofs

(***************************************************************************)
(* The calls and the rows they hold.                                        *)
(***************************************************************************)

\* What a call under way was given, and the rows a statement of it found.
CallsTyped ==
    /\ caller \in [Callers -> Call]
    /\ arrivals \in [Callers -> 0 .. 2]
    /\ \A c \in Callers :
          /\ \/ caller[c] = Idle
             \/ caller[c].slot \in Slots /\ caller[c].want \in Desired /\ caller[c].later \in Delays
          /\ \A w \in caller[c].snapshot : w \in Rows /\ slot[w] = caller[c].slot

CallersInv == CallsTyped /\ HeldIsPending

LEMMA IdleType == Idle \in Call /\ Idle.held = {} /\ Idle.snapshot = {} /\ Idle.at = "idle"
  BY DEF Idle, Call

LEMMA InitCallers == EInit => TypeInv /\ CallersInv
  BY InitType, IdleType DEF EInit, CallersInv, CallsTyped, HeldIsPending

\* A row that exists stays, on its slot.
RowsStay == \A w \in Rows : w \in Rows' /\ slot'[w] = slot[w]

LEMMA QuietRowsStay ==
  ASSUME Quiet
  PROVE  RowsStay
  BY DEF Quiet, RowsStay, Rows

\* A step of one caller that leaves the table alone.
LEMMA OneCallChanges ==
  ASSUME TypeInv, CallersInv, UNCHANGED vars, arrivals' \in [Callers -> 0 .. 2],
         NEW c \in Callers, NEW new \in Call, Go(c, new),
         \/ new = Idle
         \/ new.slot \in Slots /\ new.want \in Desired /\ new.later \in Delays,
         \A w \in new.snapshot : w \in Rows /\ slot[w] = new.slot,
         \A w \in new.held : /\ state[w] = "pending"
                             /\ slot[w] = new.slot
                             /\ \A d \in Callers \ {c} : w \notin caller[d].held
  PROVE  CallersInv'
  <1> USE DEF CallersInv, CallsTyped, vars, table
  <1>1. caller' \in [Callers -> Call] /\ caller'[c] = new
    BY DEF Go
  <1>2. \A d \in Callers \ {c} : caller'[d] = caller[d]
    BY DEF Go
  <1>3. CallsTyped'
    <2>1. Rows' = Rows /\ slot' = slot
      BY DEF Rows
    <2>2. ASSUME NEW d \in Callers
          PROVE  /\ \/ caller'[d] = Idle
                    \/ /\ caller'[d].slot \in Slots
                       /\ caller'[d].want \in Desired
                       /\ caller'[d].later \in Delays
                 /\ \A w \in caller'[d].snapshot : w \in Rows /\ slot[w] = caller'[d].slot
      <3>1. CASE d = c
        BY <3>1, <1>1
      <3>2. CASE d # c
        BY <3>2, <1>2
      <3> QED
        BY <3>1, <3>2
    <2> QED
      BY <1>1, <2>1, <2>2
  <1>4. HeldIsPending'
    <2> SUFFICES ASSUME NEW d \in Callers, NEW w \in caller'[d].held
                 PROVE  /\ state'[w] = "pending"
                        /\ slot'[w] = caller'[d].slot
                        /\ \A e \in Callers \ {d} : w \notin caller'[e].held
      BY DEF HeldIsPending
    <2>1. CASE d = c
      BY <2>1, <1>1, <1>2
    <2>2. CASE d # c
      BY <2>2, <1>1, <1>2 DEF HeldIsPending
    <2> QED
      BY <2>1, <2>2
  <1> QED
    BY <1>3, <1>4

\* The insert of a call is an enqueue of Outbox.
LEMMA InsertIsEnqueue ==
  ASSUME TypeInv, CallersInv, NEW c \in Callers, caller[c].at = "superseded", ~Beaten(c),
         NEW w \in Writes, InsertFor(c, w)
  PROVE  /\ caller[c].slot \in Slots
         /\ caller[c].want \in Desired
         /\ caller[c].later \in Delays
         /\ Enqueue(caller[c].slot, caller[c].want, caller[c].later)
  <1>1. caller[c] # Idle
    BY IdleType
  <1>2. /\ caller[c].slot \in Slots
        /\ caller[c].want \in Desired
        /\ caller[c].later \in Delays
    BY <1>1 DEF CallersInv, CallsTyped
  <1>3. caller[c].held = PendingFor(caller[c].slot)
    BY DEF Beaten, CallersInv, CallsTyped, Call, HeldIsPending, PendingFor
  <1>4. Enqueue(caller[c].slot, caller[c].want, caller[c].later)
    BY <1>3, RacesAssumption DEF InsertFor, Enqueue, IsNews
  <1> QED
    BY <1>2, <1>4

\* To the queue, every step is one of Outbox or none.
LEMMA StepsOfTheQueue ==
  ASSUME TypeInv, CallersInv, [ENext]_evars
  PROVE  [Next]_vars
  <1>1. ASSUME NEW c \in Callers, Create(c)
        PROVE  Next
    <2>1. PICK w \in Writes : InsertFor(c, w)
      BY <1>1 DEF Create
    <2> QED
      BY <1>1, <2>1, InsertIsEnqueue DEF Create, Next
  <1>2. CASE Elsewhere
    BY <1>2 DEF Elsewhere, Next
  <1> QED
    BY <1>1, <1>2 DEF ENext, CallerStep, Begin, Look, ReturnExisting, Supersede, LoseRace,
       Abort, Ask, evars


LEMMA CallersKeepTheirRows ==
  ASSUME TypeInv, CallersInv, [ENext]_evars
  PROVE  CallersInv'
  <1> USE DEF CallersInv, CallsTyped
  <1>1. ASSUME NEW c \in Callers, NEW s \in Slots, NEW want \in Desired, NEW later \in Delays,
               Ask(c, s, want, later)
        PROVE  CallersInv'
    <2>0. PICK new : new = [Idle EXCEPT !.at = "asked", !.slot = s, !.want = want, !.later = later]
      OBVIOUS
    <2>1. later \in BOOLEAN
      BY OutboxAssumption
    <2>2. /\ new \in Call
          /\ new.slot = s /\ new.want = want /\ new.later = later
          /\ new.held = {} /\ new.snapshot = {}
      <3>1. PICK call \in Call : call = Idle
        BY IdleType
      <3>2. new = [call EXCEPT !.at = "asked", !.slot = s, !.want = want, !.later = later]
        BY <2>0, <3>1, Zenon
      <3> QED
        BY <2>1, <3>1, <3>2, IdleType DEF Call
    <2>3. Go(c, new) /\ UNCHANGED vars /\ arrivals' = arrivals
      BY <1>1, <2>0, Zenon DEF Ask
    <2> QED
      BY <2>2, <2>3, OneCallChanges
  <1>2. ASSUME NEW c \in Callers,
               Begin(c, "asked", "looking") \/ Begin(c, "looked", "superseding")
        PROVE  CallersInv'
    <2>1. PICK after \in {"looking", "superseding"} :
             Go(c, [caller[c] EXCEPT !.at = after, !.snapshot = PendingFor(caller[c].slot)])
      BY <1>2 DEF Begin
    <2> DEFINE new == [caller[c] EXCEPT !.at = after, !.snapshot = PendingFor(caller[c].slot)]
    <2>2. caller[c] \in Call /\ caller[c].at # "idle"
      BY <1>2 DEF Begin
    <2>3. PendingFor(caller[c].slot) \subseteq Rows
      BY DEF PendingFor, Rows
    <2>4. new \in Call
      BY <2>2, <2>3 DEF Call, Rows
    <2>5. /\ new.slot = caller[c].slot /\ new.want = caller[c].want
          /\ new.later = caller[c].later /\ new.held = caller[c].held
          /\ new.snapshot = PendingFor(caller[c].slot)
      BY <2>2 DEF Call
    <2>6. Go(c, new) /\ UNCHANGED vars /\ arrivals' = arrivals
      BY <1>2, <2>1 DEF Begin
    <2>7. caller[c] # Idle
      BY <2>2, IdleType
    <2> HIDE DEF new
    <2>8. \A w \in new.snapshot : w \in Rows /\ slot[w] = new.slot
      BY <2>3, <2>5 DEF PendingFor
    <2>9. \A w \in new.held : /\ state[w] = "pending"
                              /\ slot[w] = new.slot
                              /\ \A d \in Callers \ {c} : w \notin caller[d].held
      BY <2>5 DEF HeldIsPending
    <2> QED
      BY <2>4, <2>5, <2>6, <2>7, <2>8, <2>9, OneCallChanges
  <1>3. ASSUME NEW c \in Callers, Look(c) \/ Supersede(c)
        PROVE  CallersInv'
    <2>1. PICK at \in {"found", "looked", "superseded"} :
             Go(c, [caller[c] EXCEPT !.at = at, !.snapshot = {}, !.held = StillPending(c)])
      <3>1. CASE Look(c)
        BY <3>1 DEF Look
      <3>2. CASE Supersede(c)
        BY <3>2 DEF Supersede
      <3> QED
        BY <1>3, <3>1, <3>2
    <2> DEFINE new == [caller[c] EXCEPT !.at = at, !.snapshot = {}, !.held = StillPending(c)]
    <2>2. caller[c] \in Call /\ caller[c].at # "idle" /\ MayLock(c)
      BY <1>3 DEF Look, Supersede
    <2>3. \A w \in StillPending(c) : w \in caller[c].snapshot /\ state[w] = "pending"
      BY DEF StillPending
    <2>4. StillPending(c) \subseteq Writes
      BY <2>2, <2>3 DEF Call
    <2>5. new \in Call
      BY <2>2, <2>4 DEF Call
    <2>6. /\ new.slot = caller[c].slot /\ new.want = caller[c].want
          /\ new.later = caller[c].later /\ new.held = StillPending(c) /\ new.snapshot = {}
      BY <2>2 DEF Call
    <2>7. Go(c, new) /\ UNCHANGED vars /\ arrivals' = arrivals
      BY <1>3, <2>1 DEF Look, Supersede
    <2>8. caller[c] # Idle
      BY <2>2, IdleType
    <2> HIDE DEF new
    <2>9. \A w \in new.held : /\ state[w] = "pending"
                              /\ slot[w] = new.slot
                              /\ \A d \in Callers \ {c} : w \notin caller[d].held
      BY <2>2, <2>3, <2>6 DEF MayLock
    <2> QED
      BY <2>5, <2>6, <2>7, <2>8, <2>9, OneCallChanges
  <1>4. ASSUME NEW c \in Callers, End(c), UNCHANGED vars
        PROVE  CallersInv'
    BY <1>4, IdleType, OneCallChanges DEF End
  <1>5. ASSUME NEW c \in Callers, LoseRace(c)
        PROVE  CallersInv'
    <2>1. CASE caller[c].attempt < Attempts
      <3> DEFINE new == [caller[c] EXCEPT !.at = "asked", !.attempt = @ + 1, !.held = {}]
      <3>1. caller[c] \in Call /\ caller[c].at # "idle"
        BY <1>5 DEF LoseRace
      <3>2. caller[c].attempt + 1 \in 1 .. 2
        BY <2>1, <3>1 DEF Call, Attempts
      <3>3. new \in Call
        BY <3>1, <3>2 DEF Call
      <3>4. /\ new.slot = caller[c].slot /\ new.want = caller[c].want
            /\ new.later = caller[c].later /\ new.held = {}
            /\ new.snapshot = caller[c].snapshot
        BY <3>1 DEF Call
      <3>5. Go(c, new) /\ UNCHANGED vars /\ arrivals' = arrivals
        BY <1>5, <2>1 DEF LoseRace
      <3>6. caller[c] # Idle
        BY <3>1, IdleType
      <3> HIDE DEF new
      <3> QED
        BY <3>3, <3>4, <3>5, <3>6, OneCallChanges
    <2>2. CASE ~(caller[c].attempt < Attempts)
      BY <1>5, <2>2, <1>4 DEF LoseRace
    <2> QED
      BY <2>1, <2>2
  <1>6. ASSUME NEW c \in Callers, Create(c)
        PROVE  CallersInv'
    <2>1. PICK w \in Writes : InsertFor(c, w)
      BY <1>6 DEF Create
    <2>2. /\ caller' = [caller EXCEPT ![c] = Idle]
          /\ arrivals' = [CountArrival(caller[c].slot) EXCEPT ![c] = 0]
          /\ state[w] = "absent" /\ slot' = [slot EXCEPT ![w] = caller[c].slot]
          /\ state' = [v \in Writes |-> IF v = w THEN "pending"
                         ELSE IF v \in caller[c].held THEN "superseded" ELSE state[v]]
      BY <1>6, <2>1 DEF Create, Go, InsertFor, Insert
    <2>3. arrivals' \in [Callers -> 0 .. 2]
      BY <2>2 DEF CountArrival
    <2>4. \A v \in Rows : v # w /\ v \in Rows' /\ slot'[v] = slot[v]
      BY <2>2 DEF Rows, TypeInv, TypeOK
    <2>5. CallsTyped'
      BY <2>2, <2>3, <2>4, IdleType
    <2>6. HeldIsPending'
      <3> SUFFICES ASSUME NEW d \in Callers, NEW v \in caller'[d].held
                   PROVE  /\ state'[v] = "pending"
                          /\ slot'[v] = caller'[d].slot
                          /\ \A e \in Callers \ {d} : v \notin caller'[e].held
        BY DEF HeldIsPending
      <3>1. d # c /\ caller'[d] = caller[d]
        BY <2>2, IdleType
      <3>2. v \in Writes /\ v \notin caller[c].held /\ state[v] = "pending"
        BY <3>1 DEF HeldIsPending, Call
      <3>3. v # w
        BY <3>2, <2>2
      <3> QED
        BY <2>2, <3>1, <3>2, <3>3, IdleType DEF HeldIsPending, TypeInv, TypeOK
    <2> QED
      BY <2>5, <2>6
  <1>7. CASE Elsewhere
    <2>1. Quiet
      BY <1>7, OtherStepsAreQuiet DEF Elsewhere
    <2>2. caller' = caller /\ \A w \in Locked : state'[w] = state[w]
      BY <1>7 DEF Elsewhere
    <2>3. arrivals' \in [Callers -> 0 .. 2]
      BY <1>7 DEF Elsewhere
    <2>4. slot' = slot /\ \A v \in Rows : v \in Rows'
      BY <2>1, QuietRowsStay DEF Quiet, RowsStay
    <2>5. CallsTyped'
      BY <2>2, <2>3, <2>4
    <2>6. HeldIsPending'
      BY <2>2, <2>4 DEF HeldIsPending, Locked
    <2> QED
      BY <2>5, <2>6
  <1>8. CASE UNCHANGED evars
    BY <1>8 DEF evars, callers, vars, table, HeldIsPending, Rows
  <1> QED
    BY <1>1, <1>2, <1>3, <1>4, <1>5, <1>6, <1>7, <1>8
    DEF ENext, CallerStep, ReturnExisting, Abort

LEMMA Calls == ESpec => [](TypeInv /\ CallersInv)
  <1>1. ASSUME TypeInv, CallersInv, [ENext]_evars
        PROVE  TypeInv' /\ CallersInv'
    BY <1>1, StepsOfTheQueue, NextType, CallersKeepTheirRows
  <1> QED
    BY <1>1, InitCallers, PTL DEF ESpec

\* Type correctness of the calls beside the queue: no statement of enqueue stores
\* anything else, and no drain or administrator does while calls are under way.
THEOREM CallsTypeCorrect == ESpec => []EnqueueTypeOK
  <1>1. TypeInv /\ CallersInv => EnqueueTypeOK
    BY DEF TypeInv, CallersInv, CallsTyped, EnqueueTypeOK
  <1> QED
    BY <1>1, Calls, PTL

\* What select_for_update and the UPDATE of enqueue lock is, until the call ends,
\* the slot's pending row, and nobody else's.
THEOREM LockedRowsStayPending == ESpec => []HeldIsPending
  <1>1. CallersInv => HeldIsPending
    BY DEF CallersInv
  <1> QED
    BY <1>1, Calls, PTL

\* enqueue, statement by statement and raced by any number of callers, implements
\* the one step that Outbox makes of it.
THEOREM RacingCallersImplementOutbox == ESpec => ImplementsOutbox
  <1>1. EInit => Init
    BY DEF EInit
  <1>2. TypeInv /\ CallersInv /\ [ENext]_evars => [Next]_vars
    BY StepsOfTheQueue
  <1> QED
    BY <1>1, <1>2, Calls, PTL DEF ESpec, ImplementsOutbox, Spec

\* So whatever callers race, no intent is lost to supersession.
THEOREM RacesKeepIntent == ESpec => []SupersededHasSuccessor
  BY RacingCallersImplementOutbox, SupersessionKeepsIntent, PTL DEF ImplementsOutbox

(***************************************************************************)
(* What a call returns.  The row it found under its lock asks for what the  *)
(* call asks for, and a slot has one pending row at most.                   *)
(***************************************************************************)

FoundInv ==
    \A c \in Callers : caller[c].at = "found" =>
        \E w \in caller[c].held : desired[w] = caller[c].want

LEMMA FoundStays ==
  ASSUME TypeInv, CallersInv, FoundInv, [ENext]_evars
  PROVE  FoundInv'
  <1> USE DEF CallersInv, CallsTyped
  <1>1. ASSUME NEW c \in Callers, NEW new, Go(c, new), desired' = desired,
               new.at = "found" => \E w \in new.held : desired[w] = new.want
        PROVE  FoundInv'
    BY <1>1 DEF FoundInv, Go
  <1>2. ASSUME NEW c \in Callers, Look(c)
        PROVE  FoundInv'
    <2>1. caller[c] \in Call
      OBVIOUS
    <2> DEFINE new == [caller[c] EXCEPT
                !.at = IF \E w \in StillPending(c) : desired[w] = caller[c].want
                       THEN "found" ELSE "looked",
                !.snapshot = {}, !.held = StillPending(c)]
    <2>2. Go(c, new) /\ desired' = desired
      BY <1>2 DEF Look, vars, table
    <2>3. new.at = "found" => \E w \in new.held : desired[w] = new.want
      BY <2>1 DEF Call
    <2> HIDE DEF new
    <2> QED
      BY <2>2, <2>3, <1>1
  <1>3. ASSUME NEW c \in Callers, NEW at, at # "found", NEW snapshot, NEW held, NEW attempt,
               Go(c, [caller[c] EXCEPT !.at = at, !.attempt = attempt, !.snapshot = snapshot,
                                       !.held = held]),
               desired' = desired
        PROVE  FoundInv'
    BY <1>3 DEF FoundInv, Go, Call
  <1>4. ASSUME NEW c \in Callers, Go(c, Idle), desired' = desired
        PROVE  FoundInv'
    BY <1>1, <1>4, IdleType
  <1>5. ASSUME NEW c \in Callers, Create(c)
        PROVE  FoundInv'
    <2>1. PICK w \in Writes : InsertFor(c, w)
      BY <1>5 DEF Create
    <2>2. state[w] = "absent" /\ desired' = [desired EXCEPT ![w] = caller[c].want]
          /\ caller' = [caller EXCEPT ![c] = Idle]
      BY <1>5, <2>1 DEF Create, Go, InsertFor, Insert
    <2> SUFFICES ASSUME NEW d \in Callers, caller'[d].at = "found"
                 PROVE  \E v \in caller'[d].held : desired'[v] = caller'[d].want
      BY DEF FoundInv
    <2>3. d # c /\ caller'[d] = caller[d]
      BY <2>2, IdleType
    <2>4. PICK v \in caller[d].held : desired[v] = caller[d].want
      BY <2>3 DEF FoundInv
    <2>5. v \in Writes /\ v # w
      BY <2>2, <2>4 DEF HeldIsPending, Call
    <2> QED
      BY <2>2, <2>3, <2>4, <2>5 DEF TypeInv, TypeOK
  <1>6. CASE Elsewhere
    <2>1. desired' = desired /\ caller' = caller
      BY <1>6, OtherStepsRequeue DEF Elsewhere, Requeues
    <2> QED
      BY <2>1 DEF FoundInv
  <1>7. ASSUME NEW c \in Callers, NEW s \in Slots, NEW want \in Desired, NEW later \in Delays,
               Ask(c, s, want, later)
        PROVE  FoundInv'
    <2>1. PICK call \in Call : call = Idle
      BY IdleType
    <2>2. caller' = [caller EXCEPT ![c] =
             [call EXCEPT !.at = "asked", !.slot = s, !.want = want, !.later = later]]
          /\ desired' = desired
      BY <1>7, <2>1, Zenon DEF Ask, Go, vars, table
    <2>3. caller'[c].at = "asked" /\ \A d \in Callers \ {c} : caller'[d] = caller[d]
      BY <2>2 DEF Call
    <2> QED
      BY <2>2, <2>3 DEF FoundInv
  <1>8. ASSUME NEW c \in Callers,
               Begin(c, "asked", "looking") \/ Begin(c, "looked", "superseding")
        PROVE  FoundInv'
    BY <1>8 DEF Begin, FoundInv, Go, Call, vars, table
  <1>9. ASSUME NEW c \in Callers, Supersede(c)
        PROVE  FoundInv'
    BY <1>9 DEF Supersede, FoundInv, Go, Call, vars, table
  <1>10. ASSUME NEW c \in Callers, LoseRace(c)
         PROVE  FoundInv'
    <2>1. CASE caller[c].attempt < Attempts
      <3>1. Go(c, [caller[c] EXCEPT !.at = "asked", !.attempt = @ + 1, !.held = {}])
        BY <1>10, <2>1 DEF LoseRace
      <3>2. caller'[c].at = "asked" /\ \A d \in Callers \ {c} : caller'[d] = caller[d]
        BY <3>1 DEF Go, Call
      <3> QED
        BY <1>10, <3>2 DEF LoseRace, FoundInv, vars, table
    <2>2. CASE ~(caller[c].attempt < Attempts)
      BY <1>10, <2>2, <1>4 DEF LoseRace, End, vars, table
    <2> QED
      BY <2>1, <2>2
  <1>11. ASSUME NEW c \in Callers, ReturnExisting(c) \/ Abort(c)
         PROVE  FoundInv'
    BY <1>11, <1>4 DEF ReturnExisting, Abort, End, vars, table
  <1>12. CASE UNCHANGED evars
    BY <1>12 DEF evars, callers, vars, table, FoundInv
  <1> QED
    BY <1>2, <1>5, <1>6, <1>7, <1>8, <1>9, <1>10, <1>11, <1>12 DEF ENext, CallerStep

LEMMA OneSlotReturns ==
  ASSUME TypeInv, CallersInv, OnePending, FoundInv, NEW c \in Callers,
         ReturnExisting(c) \/ Create(c)
  PROVE  \E s \in Slots, w \in Writes :
            /\ s = caller[c].slot
            /\ PendingFor(s)' = {w}
            /\ desired'[w] = caller[c].want
  <1> USE DEF CallersInv, CallsTyped
  <1>1. CASE ReturnExisting(c)
    <2>1. caller[c].at = "found" /\ UNCHANGED vars
      BY <1>1 DEF ReturnExisting
    <2>2. caller[c].slot \in Slots
      BY <2>1, IdleType
    <2>3. PICK w \in caller[c].held : desired[w] = caller[c].want
      BY <2>1 DEF FoundInv
    <2>4. w \in Writes /\ state[w] = "pending" /\ slot[w] = caller[c].slot
      BY <2>3 DEF HeldIsPending, Call
    <2>5. PendingFor(caller[c].slot) = {w}
      BY <2>4 DEF OnePending, PendingFor
    <2>7. \A t \in Slots : PendingFor(t)' = PendingFor(t)
      BY <2>1 DEF PendingFor, vars, table
    <2>8. desired' = desired
      BY <2>1 DEF vars, table
    <2> QED
      BY <2>2, <2>3, <2>4, <2>5, <2>7, <2>8
  <1>2. CASE Create(c)
    <2>1. PICK w \in Writes : InsertFor(c, w)
      BY <1>2 DEF Create
    <2>2. PICK s \in Slots : s = caller[c].slot
      BY <1>2, <2>1, InsertIsEnqueue DEF Create
    <2>3. PendingFor(s) \subseteq caller[c].held
      BY <1>2, <2>2 DEF Create, Beaten
    <2>4. state' = [v \in Writes |-> IF v = w THEN "pending"
                      ELSE IF v \in caller[c].held THEN "superseded" ELSE state[v]]
          /\ slot' = [slot EXCEPT ![w] = s] /\ desired' = [desired EXCEPT ![w] = caller[c].want]
      BY <2>1, <2>2 DEF InsertFor, Insert
    <2>5. PendingFor(s)' = {w}
      BY <2>3, <2>4 DEF PendingFor, TypeInv, TypeOK
    <2>6. desired'[w] = caller[c].want
      BY <2>4 DEF TypeInv, TypeOK
    <2> QED
      BY <2>2, <2>5, <2>6
  <1> QED
    BY <1>1, <1>2

\* When a call returns, what it was asked for is its slot's one pending row, whoever
\* raced it.
THEOREM CallsQueueTheirIntent == ESpec => ReturnedIntentIsQueued
  <1>1. EInit => OnePending /\ FoundInv
    BY IdleType DEF EInit, Init, OnePending, FoundInv
  <1>2. ASSUME TypeInv, CallersInv, OnePending, FoundInv, [ENext]_evars
        PROVE  OnePending' /\ FoundInv'
    BY <1>2, StepsOfTheQueue, NextOnePending, FoundStays
  <1>3. ASSUME TypeInv, CallersInv, OnePending, FoundInv
        PROVE  [\A c \in Callers : ReturnExisting(c) \/ Create(c) =>
                  \E s \in Slots, w \in Writes :
                     /\ s = caller[c].slot
                     /\ PendingFor(s)' = {w}
                     /\ desired'[w] = caller[c].want]_evars
    BY <1>3, OneSlotReturns
  <1> QED
    BY <1>1, <1>2, <1>3, Calls, PTL DEF ESpec, ReturnedIntentIsQueued

(***************************************************************************)
(* When a call raises.  A row that a call has not locked and that is        *)
(* pending when it inserts became pending during this attempt, so that the  *)
(* attempts of a call are at most one more than the rows that beat it.      *)
(***************************************************************************)

\* Pending rows of a slot that a call's UPDATE does not reach, or did not.
Missed(c) ==
    PendingFor(caller[c].slot) \ (IF caller[c].at = "superseding" THEN caller[c].snapshot
                                  ELSE caller[c].held)

Behind(c) == caller[c].at \in {"superseding", "superseded"} /\ Missed(c) # {}

BeatenInv ==
    \A c \in Callers : /\ caller[c].attempt <= arrivals[c] + 1
                       /\ Behind(c) => caller[c].attempt <= arrivals[c]

\* A step of one caller that leaves the table and the count alone.
LEMMA OneCallBeaten ==
  ASSUME CallsTyped, BeatenInv, UNCHANGED <<vars, arrivals>>, NEW c \in Callers,
         \A d \in Callers \ {c} : caller'[d] = caller[d],
         caller'[c].attempt <= arrivals[c] + 1,
         Behind(c)' => caller'[c].attempt <= arrivals[c]
  PROVE  BeatenInv'
  BY DEF BeatenInv, Behind, Missed, PendingFor, vars, table

LEMMA EndBeaten ==
  ASSUME CallsTyped, BeatenInv, UNCHANGED vars, NEW c \in Callers, End(c)
  PROVE  BeatenInv'
  <1>1. caller' = [caller EXCEPT ![c] = Idle] /\ arrivals' = [arrivals EXCEPT ![c] = 0]
    BY DEF End, Go
  <1>2. Idle.attempt = 1 /\ Idle.at = "idle"
    BY DEF Idle
  <1> QED
    BY <1>1, <1>2 DEF CallsTyped, BeatenInv, Behind, Missed, PendingFor, vars, table

\* A step that counts every arrival.
LEMMA ArrivalsCounted ==
  ASSUME TypeInv, CallersInv, BeatenInv, NEW d \in Callers,
         caller'[d] = caller[d],
         arrivals'[d] \in 0 .. 2,
         arrivals'[d] >= arrivals[d],
         \/ arrivals'[d] = 2
         \/ arrivals'[d] = arrivals[d] + 1
         \/ \A w \in Writes : state'[w] = "pending" /\ slot'[w] = caller[d].slot =>
                 state[w] = "pending" /\ slot[w] = caller[d].slot
  PROVE  /\ caller'[d].attempt <= arrivals'[d] + 1
         /\ Behind(d)' => caller'[d].attempt <= arrivals'[d]
  <1>1. arrivals[d] \in 0 .. 2 /\ caller[d].attempt \in 1 .. 2
    BY DEF CallersInv, CallsTyped, Call
  <1>2. /\ caller[d].attempt <= arrivals[d] + 1
        /\ Behind(d) => caller[d].attempt <= arrivals[d]
    BY DEF BeatenInv
  <1>3. CASE arrivals'[d] = 2 \/ arrivals'[d] = arrivals[d] + 1
    BY <1>1, <1>2, <1>3
  <1>4. CASE \A w \in Writes : state'[w] = "pending" /\ slot'[w] = caller[d].slot =>
                 state[w] = "pending" /\ slot[w] = caller[d].slot
    <2>1. Behind(d)' => Behind(d)
      BY <1>4 DEF Behind, Missed, PendingFor
    <2> QED
      BY <1>1, <1>2, <2>1
  <1> QED
    BY <1>3, <1>4

LEMMA BeatenStays ==
  ASSUME TypeInv, CallersInv, BeatenInv, [ENext]_evars
  PROVE  BeatenInv'
  <1> USE DEF CallersInv, CallsTyped
  <1>1. ASSUME NEW c \in Callers, NEW s \in Slots, NEW want \in Desired, NEW later \in Delays,
               Ask(c, s, want, later)
        PROVE  BeatenInv'
    <2>1. PICK call \in Call : call = Idle
      BY IdleType
    <2>2. caller' = [caller EXCEPT ![c] =
             [call EXCEPT !.at = "asked", !.slot = s, !.want = want, !.later = later]]
      BY <1>1, <2>1, Zenon DEF Ask, Go
    <2>3. call.attempt = 1
      BY <2>1 DEF Idle
    <2>4. /\ caller'[c].at = "asked" /\ caller'[c].attempt = 1
          /\ \A d \in Callers \ {c} : caller'[d] = caller[d]
      BY <2>2, <2>3 DEF Call
    <2> QED
      BY <1>1, <2>4, OneCallBeaten DEF Ask, Behind
  <1>2. ASSUME NEW c \in Callers, Begin(c, "asked", "looking")
        PROVE  BeatenInv'
    <2>1. /\ caller'[c].at = "looking" /\ caller'[c].attempt = caller[c].attempt
          /\ \A d \in Callers \ {c} : caller'[d] = caller[d]
      BY <1>2 DEF Begin, Go, Call
    <2> QED
      BY <1>2, <2>1, OneCallBeaten DEF Begin, Behind, BeatenInv
  <1>3. ASSUME NEW c \in Callers, Begin(c, "looked", "superseding")
        PROVE  BeatenInv'
    <2>1. /\ caller'[c].at = "superseding" /\ caller'[c].attempt = caller[c].attempt
          /\ caller'[c].snapshot = PendingFor(caller[c].slot)
          /\ caller'[c].slot = caller[c].slot
          /\ \A d \in Callers \ {c} : caller'[d] = caller[d]
      BY <1>3 DEF Begin, Go, Call
    <2>2. Missed(c)' = {}
      BY <1>3, <2>1 DEF Begin, Missed, PendingFor, vars, table
    <2> QED
      BY <1>3, <2>1, <2>2, OneCallBeaten DEF Begin, Behind, BeatenInv
  <1>4. ASSUME NEW c \in Callers, Look(c)
        PROVE  BeatenInv'
    <2>1. /\ caller'[c].at \in {"found", "looked"} /\ caller'[c].attempt = caller[c].attempt
          /\ \A d \in Callers \ {c} : caller'[d] = caller[d]
      BY <1>4 DEF Look, Go, Call
    <2> QED
      BY <1>4, <2>1, OneCallBeaten DEF Look, Behind, BeatenInv
  <1>5. ASSUME NEW c \in Callers, Supersede(c)
        PROVE  BeatenInv'
    <2>1. /\ caller[c].at = "superseding"
          /\ caller'[c].at = "superseded" /\ caller'[c].attempt = caller[c].attempt
          /\ caller'[c].held = StillPending(c) /\ caller'[c].slot = caller[c].slot
          /\ \A d \in Callers \ {c} : caller'[d] = caller[d]
      BY <1>5 DEF Supersede, Go, Call
    <2>2. Missed(c)' = Missed(c)
      BY <1>5, <2>1 DEF Supersede, Missed, StillPending, PendingFor, vars, table
    <2> QED
      BY <1>5, <2>1, <2>2, OneCallBeaten DEF Supersede, Behind, BeatenInv
  <1>6. ASSUME NEW c \in Callers, LoseRace(c)
        PROVE  BeatenInv'
    <2>1. CASE caller[c].attempt < Attempts
      <3>1. Go(c, [caller[c] EXCEPT !.at = "asked", !.attempt = @ + 1, !.held = {}])
        BY <1>6, <2>1 DEF LoseRace
      <3>2. /\ caller'[c].at = "asked" /\ caller'[c].attempt = caller[c].attempt + 1
            /\ \A d \in Callers \ {c} : caller'[d] = caller[d]
        BY <3>1 DEF Go, Call
      <3>3. Behind(c)
        BY <1>6 DEF LoseRace, Beaten, Behind, Missed
      <3>4. caller'[c].attempt <= arrivals[c] + 1
        BY <3>2, <3>3 DEF BeatenInv, Call
      <3>5. ~Behind(c)'
        BY <3>2 DEF Behind
      <3> QED
        BY <1>6, <2>1, <3>2, <3>4, <3>5, OneCallBeaten DEF LoseRace
    <2>2. CASE ~(caller[c].attempt < Attempts)
      BY <1>6, <2>2, EndBeaten DEF LoseRace
    <2> QED
      BY <2>1, <2>2
  <1>7. ASSUME NEW c \in Callers, ReturnExisting(c) \/ Abort(c)
        PROVE  BeatenInv'
    BY <1>7, EndBeaten DEF ReturnExisting, Abort
  <1>8. ASSUME NEW c \in Callers, Create(c)
        PROVE  BeatenInv'
    <2>1. PICK w \in Writes : InsertFor(c, w)
      BY <1>8 DEF Create
    <2>2. /\ caller' = [caller EXCEPT ![c] = Idle]
          /\ arrivals' = [CountArrival(caller[c].slot) EXCEPT ![c] = 0]
          /\ slot' = [slot EXCEPT ![w] = caller[c].slot]
          /\ state' = [v \in Writes |-> IF v = w THEN "pending"
                         ELSE IF v \in caller[c].held THEN "superseded" ELSE state[v]]
      BY <1>8, <2>1 DEF Create, Go, InsertFor, Insert
    <2>3. /\ caller'[c].attempt <= arrivals'[c] + 1
          /\ Behind(c)' => caller'[c].attempt <= arrivals'[c]
      <3>1. caller'[c] = Idle /\ arrivals'[c] = 0
        BY <2>2 DEF CountArrival
      <3>2. Idle.attempt = 1 /\ Idle.at = "idle"
        BY DEF Idle
      <3> QED
        BY <3>1, <3>2 DEF Behind
    <2>4. ASSUME NEW d \in Callers, d # c
          PROVE  /\ caller'[d].attempt <= arrivals'[d] + 1
                 /\ Behind(d)' => caller'[d].attempt <= arrivals'[d]
      <3>1. caller'[d] = caller[d]
        BY <2>2, <2>4
      <3>2. arrivals'[d] = (IF caller[d].slot = caller[c].slot /\ arrivals[d] < 2
                            THEN arrivals[d] + 1 ELSE arrivals[d])
        BY <2>2, <2>4 DEF CountArrival
      <3>3. arrivals[d] \in 0 .. 2
        OBVIOUS
      <3>4. caller[d].slot # caller[c].slot =>
               \A v \in Writes : state'[v] = "pending" /\ slot'[v] = caller[d].slot =>
                 state[v] = "pending" /\ slot[v] = caller[d].slot
        BY <2>2 DEF TypeInv, TypeOK
      <3> QED
        BY <3>1, <3>2, <3>3, <3>4, ArrivalsCounted
    <2> QED
      BY <2>3, <2>4 DEF BeatenInv
  <1>9. CASE Elsewhere
    <2>1. caller' = caller /\ slot' = slot
      BY <1>9, OtherStepsAreQuiet DEF Elsewhere, Quiet
    <2>2. ASSUME NEW d \in Callers
          PROVE  /\ caller'[d].attempt <= arrivals'[d] + 1
                 /\ Behind(d)' => caller'[d].attempt <= arrivals'[d]
      <3>1. arrivals[d] \in 0 .. 2
        OBVIOUS
      <3>2. arrivals'[d] =
              (IF \E w \in Writes : /\ state[w] # "pending" /\ state'[w] = "pending"
                                    /\ slot[w] = caller[d].slot /\ arrivals[d] < 2
               THEN arrivals[d] + 1 ELSE arrivals[d])
        BY <1>9 DEF Elsewhere
      <3>3. CASE \E w \in Writes : /\ state[w] # "pending" /\ state'[w] = "pending"
                                   /\ slot[w] = caller[d].slot /\ arrivals[d] < 2
        BY <2>1, <3>1, <3>2, <3>3, ArrivalsCounted
      <3>4. CASE arrivals[d] = 2 /\ arrivals'[d] = 2
        BY <2>1, <3>1, <3>4, ArrivalsCounted
      <3>5. CASE /\ \A w \in Writes : ~(/\ state[w] # "pending" /\ state'[w] = "pending"
                                        /\ slot[w] = caller[d].slot)
                 /\ arrivals'[d] = arrivals[d]
        BY <2>1, <3>1, <3>5, ArrivalsCounted
      <3> QED
        BY <3>1, <3>2, <3>3, <3>4, <3>5
    <2> QED
      BY <2>2 DEF BeatenInv
  <1>10. CASE UNCHANGED evars
    BY <1>10 DEF evars, callers, vars, table, BeatenInv, Behind, Missed, PendingFor
  <1> QED
    BY <1>1, <1>2, <1>3, <1>4, <1>5, <1>6, <1>7, <1>8, <1>9, <1>10 DEF ENext, CallerStep

\* enqueue raises only when two other rows of its slot became pending while it ran.
THEOREM CallsRaiseOnlyIfBeaten == ESpec => RaisesOnlyIfTwiceBeaten
  <1>1. EInit => BeatenInv
    BY DEF EInit, Idle, BeatenInv, Behind
  <1>2. ASSUME TypeInv, CallersInv, BeatenInv, [ENext]_evars
        PROVE  BeatenInv'
    BY <1>2, BeatenStays
  <1>3. ASSUME TypeInv, CallersInv, BeatenInv, NEW c \in Callers,
               LoseRace(c), caller'[c] = Idle
        PROVE  arrivals[c] = 2
    <2>1. caller[c] \in Call /\ arrivals[c] \in 0 .. 2 /\ caller \in [Callers -> Call]
      BY <1>3 DEF CallersInv, CallsTyped
    <2>2. ~(caller[c].attempt < Attempts)
      <3> SUFFICES ASSUME caller[c].attempt < Attempts
                   PROVE  FALSE
        OBVIOUS
      <3>1. caller' = [caller EXCEPT ![c] =
                [caller[c] EXCEPT !.at = "asked", !.attempt = @ + 1, !.held = {}]]
        BY <1>3 DEF LoseRace, Go
      <3>2. caller'[c] = [caller[c] EXCEPT !.at = "asked", !.attempt = @ + 1, !.held = {}]
        BY <2>1, <3>1
      <3>3. caller'[c].at = "asked"
        BY <2>1, <3>2 DEF Call
      <3> QED
        BY <1>3, <3>3, IdleType
    <2>3. Behind(c)
      BY <1>3 DEF LoseRace, Beaten, Behind, Missed
    <2> QED
      BY <1>3, <2>1, <2>2, <2>3 DEF BeatenInv, Call, Attempts
  <1>4. ASSUME TypeInv, CallersInv, BeatenInv
        PROVE  [\A c \in Callers : LoseRace(c) /\ caller'[c] = Idle => arrivals[c] = 2]_evars
    BY <1>3, <1>4
  <1> QED
    BY <1>1, <1>2, <1>4, Calls, PTL DEF ESpec, RaisesOnlyIfTwiceBeaten
=============================================================================
