---------------------------- MODULE OutboxProofs ----------------------------
(***************************************************************************)
(* Theorems about the provider-write queue, for any number of writes,       *)
(* slots, events, drains and faults, and any MAX_ATTEMPTS.                  *)
(***************************************************************************)
EXTENDS Outbox, TLAPS

(***************************************************************************)
(* Type correctness.  A drain only ever holds rows that exist, so settling  *)
(* one cannot bring an absent row to life without a slot.                   *)
(***************************************************************************)

HeldExist == \A d \in Drains : batch[d] \cup abandoned[d] \subseteq Rows

TypeInv == TypeOK /\ HeldExist

LEMMA InitType == Init => TypeInv
  BY OutboxAssumption DEF Init, TypeInv, TypeOK, HeldExist, Rows, States

\* What saving a row does to the columns other than attempts.
LEMMA SaveType ==
  ASSUME TypeOK, NEW w \in Rows, NEW st \in States \ {"absent"}, NEW b \in BOOLEAN,
         Save(w, st, b)
  PROVE  /\ state' \in [Writes -> States]
         /\ slot' \in [Writes -> Slots \cup {NoSlot}]
         /\ desired' \in [Writes -> Desired \cup {NoDesired}]
         /\ waiting' \in [Writes -> BOOLEAN]
         /\ stale' \in [Writes -> BOOLEAN]
         /\ Rows' = Rows
         /\ \A v \in Rows' : slot'[v] \in Slots /\ desired'[v] \in Desired
  BY DEF TypeOK, Save, Rows, States

LEMMA DieType ==
  ASSUME TypeOK, NEW d \in Drains, Die(d)
  PROVE  /\ pc' \in [Drains -> {"idle", "recovering", "draining", "calling"}]
         /\ abandoned' \in [Drains -> SUBSET Writes]
         /\ batch' \in [Drains -> SUBSET Writes]
         /\ seen' \in [Drains -> [Writes -> Nat]]
         /\ blocked' \in [Drains -> SUBSET Events]
         /\ \A e \in Drains : /\ batch'[e] \subseteq batch[e]
                              /\ abandoned'[e] \subseteq abandoned[e]
  BY DEF TypeOK, Die

LEMMA AdvanceType ==
  ASSUME TypeOK, NEW d \in Drains, NEW w \in Writes, Advance(d, w)
  PROVE  /\ pc' \in [Drains -> {"idle", "recovering", "draining", "calling"}]
         /\ abandoned' \in [Drains -> SUBSET Writes]
         /\ batch' \in [Drains -> SUBSET Writes]
         /\ seen' \in [Drains -> [Writes -> Nat]]
         /\ \A e \in Drains : /\ batch'[e] \subseteq batch[e]
                              /\ abandoned'[e] \subseteq abandoned[e]
  BY DEF TypeOK, Advance, Forget

LEMMA StrikeType ==
  ASSUME TypeOK, NEW f \in Faults, Strike(f)
  PROVE  spent' \in [Faults -> Nat]
  BY DEF TypeOK, Strike

LEMMA MarkFailedType ==
  ASSUME TypeOK, NEW d \in Drains, NEW w \in Rows, NEW p \in BOOLEAN, MarkFailed(d, w, p)
  PROVE  /\ attempts' \in [Writes -> Nat]
         /\ \E st \in {"pending", "failed"}, b \in BOOLEAN : Save(w, st, b)
  <1>1. seen[d][w] + 1 \in Nat
    BY DEF TypeOK, Rows
  <1>2. attempts' \in [Writes -> Nat]
    BY <1>1 DEF TypeOK, MarkFailed
  <1>3. \E st \in {"pending", "failed"}, b \in BOOLEAN : Save(w, st, b)
    BY Zenon DEF MarkFailed
  <1>4. QED
    BY <1>2, <1>3

LEMMA NextType == TypeInv /\ [Next]_vars => TypeInv'
  <1> SUFFICES ASSUME TypeOK, HeldExist, [Next]_vars
               PROVE  TypeOK' /\ HeldExist'
    BY DEF TypeInv
  <1> USE DEF table, local, history
  <1>1. ASSUME NEW s \in Slots, NEW want \in Desired, NEW later \in Delays,
               Enqueue(s, want, later)
        PROVE  TypeOK' /\ HeldExist'
    <2>1. PICK w \in Writes : Enqueue(s, want, later)!(w)
      BY <1>1 DEF Enqueue
    <2>2. later \in BOOLEAN
      BY OutboxAssumption
    <2> QED
      BY <2>1, <2>2 DEF Insert, PendingFor, TypeOK, HeldExist, Rows, States
  <1>2. ASSUME NEW selection \in SUBSET Writes, AdminRetry(selection)
        PROVE  TypeOK' /\ HeldExist'
    <2>1. spent' \in [Faults -> Nat]
      BY <1>2, StrikeType DEF AdminRetry, Faults
    <2> QED
      BY <1>2, <2>1 DEF AdminRetry, TypeOK, HeldExist, Rows, States
  <1>3. ASSUME NEW d \in Drains, StartDrain(d)
        PROVE  TypeOK' /\ HeldExist'
    BY <1>3 DEF StartDrain, Fetch, TypeOK, HeldExist, Rows, States
  <1>4. ASSUME NEW d \in Drains, Recover(d)
        PROVE  TypeOK' /\ HeldExist'
    <2>1. PICK w \in Writes : Recover(d)!(w)
      BY <1>4 DEF Recover
    <2>2. w \in Rows
      BY <2>1 DEF HeldExist, IsFirst
    <2>3. CASE MarkFailedRaises(d, w) /\ Die(d) /\ UNCHANGED <<table, history>>
      BY <2>3, DieType DEF TypeOK, HeldExist, Rows
    <2>4. CASE /\ MarkFailed(d, w, FALSE)
               /\ abandoned' = [abandoned EXCEPT ![d] = @ \ {w}]
               /\ Forget(d, w)
               /\ recovered' = recovered \cup {w}
               /\ UNCHANGED <<pc, batch, blocked, calls, spent>>
      <3>1. PICK st \in {"pending", "failed"}, b \in BOOLEAN : Save(w, st, b)
        BY <2>2, <2>4, MarkFailedType
      <3>2. st \in States \ {"absent"}
        BY DEF States
      <3>3. attempts' \in [Writes -> Nat]
        BY <2>2, <2>4, MarkFailedType
      <3> QED
        BY <2>2, <2>4, <3>1, <3>2, <3>3, SaveType DEF TypeOK, HeldExist, Forget
    <2> QED
      BY <2>1, <2>3, <2>4
  <1>5. ASSUME NEW d \in Drains, NEW locked \in SUBSET Writes, Claim(d, locked)
        PROVE  TypeOK' /\ HeldExist'
    BY <1>5 DEF Claim, Fetch, TypeOK, HeldExist, Rows, States
  <1>6. ASSUME NEW d \in Drains, CallHandler(d)
        PROVE  TypeOK' /\ HeldExist'
    BY <1>6 DEF CallHandler, TypeOK, HeldExist, Rows
  <1>7. ASSUME NEW d \in Drains, Finish(d)
        PROVE  TypeOK' /\ HeldExist'
    BY <1>7, DieType DEF Finish, TypeOK, HeldExist, Rows
  <1>8. ASSUME NEW d \in Drains, Crash(d)
        PROVE  TypeOK' /\ HeldExist'
    <2>1. spent' \in [Faults -> Nat]
      BY <1>8, StrikeType DEF Crash, Faults
    <2> QED
      BY <1>8, <2>1, DieType DEF Crash, TypeOK, HeldExist, Rows
  <1>9. ASSUME NEW w \in Writes, WaitOver(w) \/ Age(w)
        PROVE  TypeOK' /\ HeldExist'
    BY <1>9 DEF WaitOver, Age, TypeOK, HeldExist, Rows
  <1>10. ASSUME NEW d \in Drains, NEW w \in Rows, UNCHANGED table, Die(d),
                calls' \in [Writes -> Nat], recovered' = recovered,
                spent' \in [Faults -> Nat]
         PROVE  TypeOK' /\ HeldExist'
    BY <1>10, DieType DEF TypeOK, HeldExist, Rows
  <1>11. ASSUME NEW d \in Drains, NEW w \in Rows,
                NEW st \in States \ {"absent"}, NEW b \in BOOLEAN, Save(w, st, b),
                attempts' \in [Writes -> Nat],
                Advance(d, w), blocked' \in [Drains -> SUBSET Events],
                calls' \in [Writes -> Nat], recovered' = recovered,
                spent' \in [Faults -> Nat]
         PROVE  TypeOK' /\ HeldExist'
    <2>1. w \in Writes
      BY DEF Rows
    <2> QED
      BY <1>11, <2>1, SaveType, AdvanceType DEF TypeOK, HeldExist
  <1>12. ASSUME NEW d \in Drains, DeferBlocked(d)
         PROVE  TypeOK' /\ HeldExist'
    <2>1. PICK w \in Writes : DeferBlocked(d)!(w)
      BY <1>12 DEF DeferBlocked
    <2>2. w \in Rows
      BY <2>1 DEF HeldExist, IsFirst
    <2>3. CASE Defer(w) /\ Advance(d, w) /\ UNCHANGED blocked
      BY <2>1, <2>2, <2>3, <1>11 DEF Defer, TypeOK, States
    <2>4. CASE Clash(w) /\ Die(d) /\ UNCHANGED table
      BY <2>1, <2>2, <2>4, <1>10 DEF TypeOK
    <2> QED
      BY <2>1, <2>3, <2>4
  <1>13. ASSUME NEW d \in Drains, NEW w \in Rows, NEW p \in BOOLEAN,
                \/ MarkFailed(d, w, p) /\ Advance(d, w) /\ UNCHANGED blocked
                \/ ~p /\ MarkFailedRaises(d, w) /\ Die(d) /\ UNCHANGED table,
                UNCHANGED history
         PROVE  TypeOK' /\ HeldExist'
    <2>1. CASE MarkFailed(d, w, p) /\ Advance(d, w) /\ UNCHANGED blocked
      <3>1. PICK st \in {"pending", "failed"}, b \in BOOLEAN : Save(w, st, b)
        BY <2>1, MarkFailedType
      <3>2. st \in States \ {"absent"}
        BY DEF States
      <3>3. attempts' \in [Writes -> Nat]
        BY <2>1, MarkFailedType
      <3> QED
        BY <1>13, <2>1, <3>1, <3>2, <3>3, <1>11 DEF TypeOK
    <2>2. CASE ~p /\ MarkFailedRaises(d, w) /\ Die(d) /\ UNCHANGED table
      BY <1>13, <2>2, <1>10 DEF TypeOK
    <2> QED
      BY <1>13, <2>1, <2>2
  <1>14. ASSUME NEW d \in Drains, NEW p \in BOOLEAN, Unresolvable(d, p) \/ HandlerFails(d, p)
         PROVE  TypeOK' /\ HeldExist'
    BY <1>14, <1>13 DEF Unresolvable, HandlerFails, HeldExist, IsFirst
  <1>15. ASSUME NEW d \in Drains, Confirm(d)
         PROVE  TypeOK' /\ HeldExist'
    <2>1. PICK w \in Writes : Confirm(d)!(w)
      BY <1>15 DEF Confirm
    <2>2. w \in Rows
      BY <2>1 DEF HeldExist, IsFirst
    <2> QED
      BY <2>1, <2>2, <1>11 DEF MarkConfirmed, TypeOK, States
  <1>16. ASSUME NEW d \in Drains, HandlerOutOfQuota(d)
         PROVE  TypeOK' /\ HeldExist'
    <2>1. PICK w \in Writes : HandlerOutOfQuota(d)!(w)
      BY <1>16 DEF HandlerOutOfQuota
    <2>2. w \in Rows /\ Event(w) \in Events
      BY <2>1, OutboxAssumption DEF HeldExist, IsFirst, TypeOK, Event
    <2>3. spent' \in [Faults -> Nat]
      BY <2>1, StrikeType DEF Faults
    <2>4. calls' \in [Writes -> Nat]
      <3>1. (IF calls[w] = 0 THEN 0 ELSE calls[w] - 1) \in Nat
        BY DEF TypeOK
      <3> QED
        BY <2>1, <3>1 DEF TypeOK
    <2>5. CASE /\ Defer(w) /\ Advance(d, w)
               /\ blocked' = [blocked EXCEPT ![d] = @ \cup {Event(w)}]
      <3>1. blocked' \in [Drains -> SUBSET Events]
        BY <2>2, <2>5 DEF TypeOK
      <3> QED
        BY <2>1, <2>2, <2>3, <2>4, <2>5, <3>1, <1>11 DEF Defer, TypeOK, States
    <2>6. CASE Clash(w) /\ Die(d) /\ UNCHANGED table
      BY <2>1, <2>2, <2>3, <2>4, <2>6, <1>10
    <2> QED
      BY <2>1, <2>5, <2>6
  <1>17. CASE UNCHANGED vars
    BY <1>17 DEF vars, TypeOK, HeldExist, Rows
  <1> QED
    BY <1>1, <1>2, <1>3, <1>4, <1>5, <1>6, <1>7, <1>8, <1>9, <1>12, <1>14, <1>15,
       <1>16, <1>17 DEF Next, DrainStep

\* The table, the drains and the history always have their types: no step of
\* enqueue, retry, requeue_stale, claim, drain or a crash stores anything else.
THEOREM TypeCorrect == Spec => []TypeOK
  <1>1. TypeInv => TypeOK
    BY DEF TypeInv
  <1> QED
    BY <1>1, InitType, NextType, PTL DEF Spec

(***************************************************************************)
(* Supersession.  Only an enqueue supersedes, and the row it creates is     *)
(* newer than all others: rows are created in the order of their numbers.   *)
(***************************************************************************)

CreatedInOrder ==
    \A v, w \in Writes : v < w /\ state[w] # "absent" => state[v] # "absent"

\* A step that creates and supersedes nothing.
Quiet ==
    /\ slot' = slot
    /\ \A w \in Writes : /\ state[w] = "absent" <=> state'[w] = "absent"
                         /\ state'[w] = "superseded" => state[w] = "superseded"

LEMMA WritesAreNat == Writes \subseteq Nat
  BY OutboxAssumption DEF Writes

\* Every step but an enqueue.
LEMMA OtherStepsAreQuiet ==
  ASSUME TypeInv,
         \/ \E selection \in SUBSET Writes : AdminRetry(selection)
         \/ \E d \in Drains : DrainStep(d) \/ Crash(d)
         \/ \E w \in Writes : WaitOver(w) \/ Age(w)
  PROVE  Quiet
  <1> USE DEF TypeInv, TypeOK, table, local, history
  <1>1. ASSUME NEW w \in Rows, NEW st, st \notin {"absent", "superseded"},
               NEW b, Save(w, st, b)
        PROVE  Quiet
    BY <1>1 DEF Save, Quiet, Rows
  <1>2. ASSUME NEW d \in Drains, NEW w \in batch[d] \cup abandoned[d], NEW p \in BOOLEAN,
               MarkFailed(d, w, p) \/ Defer(w) \/ MarkConfirmed(w)
        PROVE  Quiet
    <2>1. w \in Rows
      BY DEF HeldExist
    <2>2. CASE MarkFailed(d, w, p)
      BY <2>1, <2>2, <1>1, MarkFailedType DEF Rows
    <2>3. CASE Defer(w)
      BY <2>1, <2>3, <1>1 DEF Defer
    <2>4. CASE MarkConfirmed(w)
      BY <2>1, <2>4, <1>1 DEF MarkConfirmed
    <2> QED
      BY <1>2, <2>2, <2>3, <2>4
  <1>3. UNCHANGED table => Quiet
    BY DEF Quiet
  <1>4. ASSUME NEW selection \in SUBSET Writes, AdminRetry(selection)
        PROVE  Quiet
    BY <1>4 DEF AdminRetry, Quiet
  <1>5. ASSUME NEW d \in Drains, NEW locked \in SUBSET Writes, Claim(d, locked)
        PROVE  Quiet
    BY <1>5 DEF Claim, Quiet
  <1>6. ASSUME NEW w \in Writes, WaitOver(w) \/ Age(w)
        PROVE  Quiet
    BY <1>6 DEF WaitOver, Age, Quiet
  <1>7. ASSUME NEW d \in Drains, Recover(d)
        PROVE  Quiet
    BY <1>7, <1>2, <1>3 DEF Recover, IsFirst
  <1>8. ASSUME NEW d \in Drains, DeferBlocked(d) \/ Confirm(d) \/ HandlerOutOfQuota(d)
        PROVE  Quiet
    BY <1>8, <1>2, <1>3 DEF DeferBlocked, Confirm, HandlerOutOfQuota, IsFirst
  <1>9. ASSUME NEW d \in Drains, NEW p \in BOOLEAN, Unresolvable(d, p) \/ HandlerFails(d, p)
        PROVE  Quiet
    BY <1>9, <1>2, <1>3 DEF Unresolvable, HandlerFails, IsFirst
  <1>10. ASSUME NEW d \in Drains, StartDrain(d) \/ CallHandler(d) \/ Finish(d) \/ Crash(d)
         PROVE  Quiet
    BY <1>10, <1>3 DEF StartDrain, CallHandler, Finish, Crash
  <1> QED
    BY <1>4, <1>5, <1>6, <1>7, <1>8, <1>9, <1>10 DEF DrainStep

\* What a step does to the rows a slot has pending: an enqueue apart, it asks for
\* nothing else, and lets a row wait again only where none waits.
Requeues ==
    /\ desired' = desired
    /\ \A w \in Writes : state[w] # "pending" /\ state'[w] = "pending" =>
          /\ w \in Rows /\ ~Clash(w)
          /\ \A v \in Siblings(w) : state'[v] = "pending" => state[v] = "pending"

LEMMA OtherStepsRequeue ==
  ASSUME TypeInv,
         \/ \E selection \in SUBSET Writes : AdminRetry(selection)
         \/ \E d \in Drains : DrainStep(d) \/ Crash(d)
         \/ \E w \in Writes : WaitOver(w) \/ Age(w)
  PROVE  Requeues
  <1> USE DEF TypeInv, TypeOK, table, local, history
  <1>1. ASSUME NEW w \in Rows, NEW st \in States, st = "pending" => ~Clash(w),
               NEW b, Save(w, st, b)
        PROVE  Requeues
    BY <1>1 DEF Save, Requeues, Rows, Siblings
  <1>2. ASSUME NEW d \in Drains, NEW w \in batch[d] \cup abandoned[d], NEW p \in BOOLEAN,
               MarkFailed(d, w, p) \/ Defer(w) \/ MarkConfirmed(w)
        PROVE  Requeues
    <2>1. w \in Rows
      BY DEF HeldExist
    <2>2. CASE MarkFailed(d, w, p)
      BY <2>1, <2>2, <1>1 DEF MarkFailed, States
    <2>3. CASE Defer(w)
      BY <2>1, <2>3, <1>1 DEF Defer, States
    <2>4. CASE MarkConfirmed(w)
      BY <2>1, <2>4, <1>1 DEF MarkConfirmed, States
    <2> QED
      BY <1>2, <2>2, <2>3, <2>4
  <1>3. UNCHANGED table => Requeues
    BY DEF Requeues
  <1>4. ASSUME NEW selection \in SUBSET Writes, AdminRetry(selection)
        PROVE  Requeues
    BY <1>4 DEF AdminRetry, Requeues, Rows, Siblings
  <1>5. ASSUME NEW d \in Drains, NEW locked \in SUBSET Writes, Claim(d, locked)
        PROVE  Requeues
    BY <1>5 DEF Claim, Requeues
  <1>6. ASSUME NEW w \in Writes, WaitOver(w) \/ Age(w)
        PROVE  Requeues
    BY <1>6 DEF WaitOver, Age, Requeues
  <1>7. ASSUME NEW d \in Drains, Recover(d)
        PROVE  Requeues
    BY <1>7, <1>2, <1>3 DEF Recover, IsFirst
  <1>8. ASSUME NEW d \in Drains, DeferBlocked(d) \/ Confirm(d) \/ HandlerOutOfQuota(d)
        PROVE  Requeues
    BY <1>8, <1>2, <1>3 DEF DeferBlocked, Confirm, HandlerOutOfQuota, IsFirst
  <1>9. ASSUME NEW d \in Drains, NEW p \in BOOLEAN, Unresolvable(d, p) \/ HandlerFails(d, p)
        PROVE  Requeues
    BY <1>9, <1>2, <1>3 DEF Unresolvable, HandlerFails, IsFirst
  <1>10. ASSUME NEW d \in Drains, StartDrain(d) \/ CallHandler(d) \/ Finish(d) \/ Crash(d)
         PROVE  Requeues
    BY <1>10, <1>3 DEF StartDrain, CallHandler, Finish, Crash
  <1> QED
    BY <1>4, <1>5, <1>6, <1>7, <1>8, <1>9, <1>10 DEF DrainStep

\* What the partial unique index says of the table.
OnePending ==
    \A v, w \in Writes :
        state[v] = "pending" /\ state[w] = "pending" /\ slot[v] = slot[w] => v = w

LEMMA NextOnePending ==
  ASSUME TypeInv, OnePending, [Next]_vars
  PROVE  OnePending'
  <1> USE DEF TypeInv, TypeOK
  <1>1. ASSUME Quiet, Requeues
        PROVE  OnePending'
    <2> SUFFICES ASSUME NEW v \in Writes, NEW w \in Writes,
                        state'[v] = "pending", state'[w] = "pending", slot'[v] = slot'[w],
                        v # w
                 PROVE  FALSE
      BY DEF OnePending
    <2>1. slot[v] = slot[w] /\ v \in Rows /\ w \in Rows
      BY <1>1 DEF Quiet, Rows
    <2>2. v \in Siblings(w) /\ w \in Siblings(v)
      BY <2>1 DEF Siblings
    <2> QED
      BY <1>1, <2>1, <2>2 DEF Requeues, OnePending, Clash
  <1>2. ASSUME NEW s \in Slots, NEW want \in Desired, NEW later \in Delays,
               Enqueue(s, want, later)
        PROVE  OnePending'
    <2>1. PICK w \in Writes : Enqueue(s, want, later)!(w)
      BY <1>2 DEF Enqueue
    <2> QED
      BY <2>1 DEF Insert, PendingFor, OnePending
  <1>3. CASE UNCHANGED vars
    BY <1>3 DEF vars, table, OnePending
  <1> QED
    BY <1>1, <1>2, <1>3, OtherStepsAreQuiet, OtherStepsRequeue DEF Next

LEMMA QuietSteps ==
  ASSUME TypeInv, Next
  PROVE  \/ Quiet
         \/ \E s \in Slots, want \in Desired, later \in Delays : Enqueue(s, want, later)
  BY OtherStepsAreQuiet DEF Next

SupersededInv == CreatedInOrder /\ SupersededHasSuccessor

LEMMA NextSuperseded ==
  ASSUME TypeInv, SupersededInv, [Next]_vars
  PROVE  SupersededInv'
  <1> USE DEF TypeInv, TypeOK, SupersededInv
  <1>1. CASE Quiet
    <2>1. CreatedInOrder'
      BY <1>1 DEF Quiet, CreatedInOrder
    <2>2. \A w \in Writes : Newer(w)' = Newer(w)
      BY <1>1 DEF Quiet, Newer, Siblings, Rows
    <2>3. SupersededHasSuccessor'
      BY <1>1, <2>2 DEF Quiet, SupersededHasSuccessor, Newer, Siblings, Rows
    <2> QED
      BY <2>1, <2>3
  <1>2. ASSUME NEW s \in Slots, NEW want \in Desired, NEW later \in Delays,
               Enqueue(s, want, later)
        PROVE  SupersededInv'
    <2>1. PICK w \in Writes : Enqueue(s, want, later)!(w)
      BY <1>2 DEF Enqueue
    <2> USE <2>1, WritesAreNat DEF Insert
    <2>2. \A v \in Writes : v > w => state[v] = "absent"
      BY DEF CreatedInOrder
    <2>7. \A v \in Writes : state'[v] = "absent" <=> state[v] = "absent" /\ v # w
      BY DEF PendingFor
    <2>8. \A v \in Writes : v \in Nat
      OBVIOUS
    <2>3. CreatedInOrder'
      <3> SUFFICES ASSUME NEW v \in Writes, NEW u \in Writes, v < u, state'[u] # "absent"
                   PROVE  state'[v] # "absent"
        BY DEF CreatedInOrder
      <3>1. CASE u = w
        BY <3>1, <2>7
      <3>2. CASE u # w
        BY <3>2, <2>7, <2>8 DEF CreatedInOrder
      <3> QED
        BY <3>1, <3>2
    <2>4. /\ Rows' = Rows \cup {w}
          /\ \A v \in Rows : v < w /\ slot'[v] = slot[v]
      <3>1. Rows' = Rows \cup {w}
        BY <2>7 DEF Rows
      <3>2. ASSUME NEW v \in Rows
            PROVE  v < w /\ slot'[v] = slot[v]
        <4>1. v \in Writes /\ v # w /\ ~(v > w)
          BY <2>2 DEF Rows
        <4> QED
          BY <4>1, <2>8
      <3> QED
        BY <3>1, <3>2
    <2>5. state'[w] = "pending" /\ slot'[w] = s
      OBVIOUS
    <2>6. ASSUME NEW v \in Writes, state'[v] = "superseded"
          PROVE  \E u \in Newer(v)' : state'[u] # "superseded"
      <3>1. CASE slot[v] = s
        BY <2>4, <2>5, <2>6, <3>1 DEF Newer, Siblings, Rows
      <3>2. CASE slot[v] # s
        <4>1. state[v] = "superseded" /\ v # w
          BY <2>6, <3>2 DEF PendingFor
        <4>2. PICK u \in Newer(v) : state[u] # "superseded"
          BY <4>1 DEF SupersededHasSuccessor
        <4>3. u \notin PendingFor(s) /\ u \in Rows
          BY <3>2, <4>2 DEF Newer, Siblings, PendingFor
        <4> QED
          BY <2>4, <4>1, <4>2, <4>3 DEF Newer, Siblings, Rows
      <3> QED
        BY <3>1, <3>2
    <2> QED
      BY <2>3, <2>6 DEF SupersededHasSuccessor
  <1>3. CASE UNCHANGED vars
    BY <1>1, <1>3 DEF vars, table, Quiet
  <1> QED
    BY <1>1, <1>2, <1>3, QuietSteps

\* Whatever drains, crashes and retries do, a superseded write has a fresher
\* sibling that is not superseded itself: enqueue never loses the last intent.
THEOREM SupersessionKeepsIntent == Spec => []SupersededHasSuccessor
  <1>1. Init => SupersededInv
    BY DEF Init, SupersededInv, CreatedInOrder, SupersededHasSuccessor
  <1>2. SupersededInv => SupersededHasSuccessor
    BY DEF SupersededInv
  <1> QED
    BY <1>1, <1>2, InitType, NextType, NextSuperseded, PTL DEF Spec

(***************************************************************************)
(* What a drain holds.  With one drain per event, rows held by two drains   *)
(* are in different scopes, so nobody but its own drain touches a held row. *)
(***************************************************************************)

Held(d) == batch[d] \cup abandoned[d]

HeldInv ==
    \A d \in Drains :
        /\ pc[d] \in {"idle", "recovering"} => batch[d] = {}
        /\ pc[d] # "recovering" => abandoned[d] = {}
        /\ \A w \in Held(d) :
              /\ state[w] = "in_flight"
              /\ seen[d][w] = attempts[w]
              /\ Event(w) \in Scope[d]
        /\ \A w \in batch[d] : ~stale[w]
        /\ \A w \in abandoned[d] : stale[w]

LEMMA HeldApart ==
  ASSUME OneDrainPerEvent, HeldInv,
         NEW d \in Drains, NEW e \in Drains, d # e, NEW w \in Held(d)
  PROVE  w \notin Held(e)
  BY DEF OneDrainPerEvent, HeldInv, Held

\* A drain that lets go of one row, or of all of them.
LEMMA HeldSettle ==
  ASSUME OneDrainPerEvent, TypeInv, HeldInv,
         NEW d \in Drains, NEW w \in Held(d),
         NEW st, NEW b, Save(w, st, b),
         NEW n, attempts' = [attempts EXCEPT ![w] = n],
         batch' = [batch EXCEPT ![d] = @ \ {w}],
         abandoned' = [abandoned EXCEPT ![d] = @ \ {w}],
         Forget(d, w),
         pc' = pc \/ (pc[d] = "calling" /\ pc' = [pc EXCEPT ![d] = "draining"])
  PROVE  HeldInv'
  <1> USE DEF TypeInv, TypeOK
  <1>1. ASSUME NEW e \in Drains, NEW v \in Held(e)'
        PROVE  /\ v \in Held(e) /\ v # w /\ v \in Writes
               /\ v \in batch'[e] => v \in batch[e]
               /\ v \in abandoned'[e] => v \in abandoned[e]
    BY HeldApart DEF Held
  <1>2. ASSUME NEW e \in Drains, NEW v \in Held(e)'
        PROVE  /\ state'[v] = state[v] /\ attempts'[v] = attempts[v]
               /\ stale'[v] = stale[v] /\ Event(v)' = Event(v)
               /\ seen'[e][v] = seen[e][v]
    BY <1>1 DEF Save, Forget, Event
  <1>3. ASSUME NEW e \in Drains
        PROVE  /\ pc'[e] \in {"idle", "recovering"} => batch'[e] = {}
               /\ pc'[e] # "recovering" => abandoned'[e] = {}
    BY DEF HeldInv
  <1> QED
    BY <1>1, <1>2, <1>3 DEF HeldInv, Held

LEMMA HeldDie ==
  ASSUME TypeInv, HeldInv, NEW d \in Drains, Die(d), UNCHANGED table
  PROVE  HeldInv'
  BY DEF TypeInv, TypeOK, HeldInv, Held, Die, table, Event

LEMMA NextHeld ==
  ASSUME OneDrainPerEvent, PromptDrains, TypeInv, HeldInv, [Next]_vars
  PROVE  HeldInv'
  <1> USE DEF table, local, history
  <1>1. ASSUME NEW s \in Slots, NEW want \in Desired, NEW later \in Delays,
               Enqueue(s, want, later)
        PROVE  HeldInv'
    BY <1>1 DEF Enqueue, Insert, PendingFor, HeldInv, Held, Event, TypeInv, TypeOK
  <1>2. ASSUME NEW selection \in SUBSET Writes, AdminRetry(selection)
        PROVE  HeldInv'
    BY <1>2 DEF AdminRetry, HeldInv, Held, Event, TypeInv, TypeOK
  <1>3. ASSUME NEW d \in Drains, StartDrain(d)
        PROVE  HeldInv'
    BY <1>3 DEF StartDrain, Fetch, HeldInv, Held, Event, TypeInv, TypeOK
  <1>4. ASSUME NEW d \in Drains, NEW locked \in SUBSET Writes, Claim(d, locked)
        PROVE  HeldInv'
    BY <1>4 DEF Claim, Fetch, HeldInv, Held, Event, TypeInv, TypeOK
  <1>5. ASSUME NEW d \in Drains, CallHandler(d)
        PROVE  HeldInv'
    <2>1. \A e \in Drains : pc'[e] = IF e = d THEN "calling" ELSE pc[e]
      BY <1>5 DEF CallHandler, TypeInv, TypeOK
    <2>2. pc[d] = "draining" /\ UNCHANGED <<table, batch, abandoned, seen>>
      BY <1>5 DEF CallHandler
    <2> QED
      BY <2>1, <2>2 DEF HeldInv, Held, Event
  <1>6. ASSUME NEW d \in Drains, Finish(d) \/ Crash(d)
        PROVE  HeldInv'
    BY <1>6, HeldDie DEF Finish, Crash
  <1>7. ASSUME NEW w \in Writes, WaitOver(w) \/ Age(w)
        PROVE  HeldInv'
    <2>1. CASE WaitOver(w)
      BY <2>1 DEF WaitOver, HeldInv, Held, Event
    <2>2. CASE Age(w)
      <3>1. /\ \A d \in Drains : w \notin batch[d]
            /\ ~stale[w]
            /\ UNCHANGED <<state, slot, attempts, pc, abandoned, batch, seen>>
        BY <2>2 DEF Age, PromptDrains
      <3>2. \A v \in Writes : v # w => stale'[v] = stale[v]
        BY <2>2 DEF Age, TypeInv, TypeOK
      <3>3. \A d \in Drains : w \notin abandoned[d]
        BY <3>1 DEF HeldInv
      <3>4. ASSUME NEW d \in Drains, NEW v \in Held(d)
            PROVE  stale'[v] = stale[v]
        BY <3>1, <3>2, <3>3 DEF Held, TypeInv, TypeOK
      <3> QED
        BY <3>1, <3>4 DEF HeldInv, Held, Event
    <2> QED
      BY <1>7, <2>1, <2>2
  <1>8. ASSUME NEW d \in Drains, Recover(d)
        PROVE  HeldInv'
    <2>1. PICK w \in Writes : Recover(d)!(w)
      BY <1>8 DEF Recover
    <2>2. batch[d] = {}
      BY <2>1 DEF HeldInv
    <2>3. CASE MarkFailed(d, w, FALSE) /\ Forget(d, w) /\ UNCHANGED <<pc, batch>>
               /\ abandoned' = [abandoned EXCEPT ![d] = @ \ {w}]
      <3>1. batch' = [batch EXCEPT ![d] = @ \ {w}]
        BY <2>2, <2>3 DEF TypeInv, TypeOK
      <3> QED
        BY <2>1, <2>3, <3>1, HeldSettle DEF MarkFailed, Held, IsFirst
    <2> QED
      BY <2>1, <2>3, HeldDie
  <1>9. ASSUME NEW d \in Drains, NEW w \in batch[d], pc[d] \in {"draining", "calling"},
               NEW st, NEW b, Save(w, st, b),
               NEW n, attempts' = [attempts EXCEPT ![w] = n], Advance(d, w)
        PROVE  HeldInv'
    <2>1. abandoned[d] = {}
      BY <1>9 DEF HeldInv
    <2>2. abandoned' = [abandoned EXCEPT ![d] = @ \ {w}]
      BY <1>9, <2>1 DEF Advance, TypeInv, TypeOK
    <2>3. pc' = pc \/ (pc[d] = "calling" /\ pc' = [pc EXCEPT ![d] = "draining"])
      BY <1>9 DEF Advance, TypeInv, TypeOK
    <2> QED
      BY <1>9, <2>2, <2>3, HeldSettle DEF Advance, Held
  <1>10. ASSUME NEW w \in Writes, UNCHANGED attempts
         PROVE  attempts' = [attempts EXCEPT ![w] = attempts[w]]
    BY <1>10 DEF TypeInv, TypeOK
  <1>11. ASSUME NEW d \in Drains, DeferBlocked(d)
         PROVE  HeldInv'
    BY <1>11, <1>9, <1>10, HeldDie DEF DeferBlocked, Defer, IsFirst
  <1>12. ASSUME NEW d \in Drains, Confirm(d)
         PROVE  HeldInv'
    BY <1>12, <1>9, <1>10 DEF Confirm, MarkConfirmed, IsFirst
  <1>13. ASSUME NEW d \in Drains, HandlerOutOfQuota(d)
         PROVE  HeldInv'
    BY <1>13, <1>9, <1>10, HeldDie DEF HandlerOutOfQuota, Defer, IsFirst
  <1>14. ASSUME NEW d \in Drains, NEW p \in BOOLEAN, Unresolvable(d, p) \/ HandlerFails(d, p)
         PROVE  HeldInv'
    BY <1>14, <1>9, HeldDie DEF Unresolvable, HandlerFails, MarkFailed, IsFirst
  <1>15. CASE UNCHANGED vars
    BY <1>15 DEF vars, HeldInv, Held, Event
  <1> QED
    BY <1>1, <1>2, <1>3, <1>4, <1>5, <1>6, <1>7, <1>8, <1>11, <1>12, <1>13, <1>14,
       <1>15 DEF Next, DrainStep

\* With one prompt drain per event, the rows a drain is about to hand to their
\* handlers are in flight, as it fetched them, and held by no other drain.
THEOREM DrainsHoldTheirRows ==
  ASSUME OneDrainPerEvent, PromptDrains
  PROVE  Spec => []HeldIsInFlight
  <1>1. Init => HeldInv
    BY DEF Init, HeldInv, Held
  <1>2. ASSUME HeldInv
        PROVE  HeldIsInFlight
    BY <1>2, HeldApart DEF HeldInv, Held, HeldIsInFlight
  <1>3. TypeInv /\ HeldInv /\ [Next]_vars => HeldInv'
    BY NextHeld
  <1> QED
    BY <1>1, <1>2, <1>3, InitType, NextType, PTL DEF Spec

(***************************************************************************)
(* Settled rows.  A drain moves only rows it holds, which are in flight, and *)
(* rows it claims, which are pending.                                       *)
(***************************************************************************)

MovesOpenRows == \A w \in Writes : state'[w] # state[w] => Open(w)

LEMMA NextSettled ==
  ASSUME TypeInv, HeldInv, Next
  PROVE  \/ MovesOpenRows
         \/ \E s \in Slots, want \in Desired, later \in Delays : Enqueue(s, want, later)
         \/ \E selection \in SUBSET Writes : AdminRetry(selection)
  <1> USE DEF TypeInv, TypeOK, table, local, history
  <1>1. ASSUME NEW d \in Drains, NEW w \in Held(d), NEW p \in BOOLEAN,
               MarkFailed(d, w, p) \/ Defer(w) \/ MarkConfirmed(w)
        PROVE  MovesOpenRows
    <2>1. state[w] = "in_flight"
      BY DEF HeldInv
    <2>2. \A v \in Writes : v # w => state'[v] = state[v]
      BY <1>1 DEF MarkFailed, Defer, MarkConfirmed, Save
    <2> QED
      BY <2>1, <2>2 DEF MovesOpenRows, Open
  <1>2. UNCHANGED table => MovesOpenRows
    BY DEF MovesOpenRows
  <1>3. ASSUME NEW d \in Drains, NEW locked \in SUBSET Writes, Claim(d, locked)
        PROVE  MovesOpenRows
    BY <1>3 DEF Claim, MovesOpenRows, Open
  <1>4. ASSUME NEW w \in Writes, WaitOver(w) \/ Age(w)
        PROVE  MovesOpenRows
    BY <1>4 DEF WaitOver, Age, MovesOpenRows
  <1>5. ASSUME NEW d \in Drains, Recover(d)
        PROVE  MovesOpenRows
    BY <1>5, <1>1, <1>2 DEF Recover, IsFirst, Held
  <1>6. ASSUME NEW d \in Drains, DeferBlocked(d) \/ Confirm(d) \/ HandlerOutOfQuota(d)
        PROVE  MovesOpenRows
    BY <1>6, <1>1, <1>2 DEF DeferBlocked, Confirm, HandlerOutOfQuota, IsFirst, Held
  <1>7. ASSUME NEW d \in Drains, NEW p \in BOOLEAN, Unresolvable(d, p) \/ HandlerFails(d, p)
        PROVE  MovesOpenRows
    BY <1>7, <1>1, <1>2 DEF Unresolvable, HandlerFails, IsFirst, Held
  <1>8. ASSUME NEW d \in Drains, StartDrain(d) \/ CallHandler(d) \/ Finish(d) \/ Crash(d)
        PROVE  MovesOpenRows
    BY <1>8, <1>2 DEF StartDrain, CallHandler, Finish, Crash
  <1> QED
    BY <1>3, <1>4, <1>5, <1>6, <1>7, <1>8 DEF Next, DrainStep

SettledStep(w) ==
    /\ state[w] \in {"confirmed", "superseded"} => state'[w] = state[w]
    /\ state[w] = "failed" /\ state'[w] # "failed" =>
          state'[w] = "pending" /\ attempts'[w] = 0

\* With one prompt drain per event, a confirmed or superseded write stays so
\* and a failed one returns only as an administrator's fresh start.
THEOREM SettledStaysSettled ==
  ASSUME OneDrainPerEvent, PromptDrains
  PROVE  Spec => SettledIsFinal
  <1>1. ASSUME TypeInv, HeldInv, [Next]_vars
        PROVE  [\A w \in Writes : SettledStep(w)]_vars
    <2>1. CASE MovesOpenRows
      BY <2>1 DEF MovesOpenRows, Open, SettledStep
    <2>2. ASSUME NEW s \in Slots, NEW want \in Desired, NEW later \in Delays,
                 Enqueue(s, want, later)
          PROVE  \A w \in Writes : SettledStep(w)
      BY <2>2 DEF Enqueue, Insert, PendingFor, SettledStep
    <2>3. ASSUME NEW selection \in SUBSET Writes, AdminRetry(selection)
          PROVE  \A w \in Writes : SettledStep(w)
      BY <2>3 DEF AdminRetry, SettledStep
    <2> QED
      BY <1>1, <2>1, <2>2, <2>3, NextSettled
  <1>2. Init => HeldInv
    BY DEF Init, HeldInv, Held
  <1>3. TypeInv /\ HeldInv /\ [Next]_vars => HeldInv'
    BY NextHeld
  <1> QED
    BY <1>1, <1>2, <1>3, InitType, NextType, PTL DEF Spec, SettledIsFinal, SettledStep

(***************************************************************************)
(* The table is a set of mailboxes.  A step either leaves every box alone,  *)
(* or is one of the mailboxes' own; that a drain settles only what it took  *)
(* out is HeldInv, and that it puts back only into an empty box is the      *)
(* unique index.                                                            *)
(***************************************************************************)

TakenOut(s) == {w \in Writes : state[w] = "in_flight" /\ slot[w] = s}

MailStep == Mail!Next \/ UNCHANGED Mail!vars

LEMMA MailStutter ==
  ASSUME state' = state, slot' = slot
  PROVE  MailStep
  BY DEF MailStep, Mail!vars, PendingFor, Rows

\* A drain settles a row it took out, or puts it back.
LEMMA MailSave ==
  ASSUME TypeInv, NEW w \in Rows, state[w] = "in_flight",
         NEW st \in {"pending", "confirmed", "failed"}, st = "pending" => ~Clash(w),
         NEW b, Save(w, st, b)
  PROVE  MailStep
  <1>1. PICK s \in Slots : s = slot[w]
    BY DEF TypeInv, TypeOK
  <1>2. w \in Writes /\ slot[w] = s /\ slot' = slot
    BY <1>1 DEF Rows, Save
  <1>3. \A v \in Writes : state'[v] = IF v = w THEN st ELSE state[v]
    BY DEF TypeInv, TypeOK, Save
  <1>4. Rows' = Rows
    BY <1>2, <1>3 DEF Rows
  <1>5. \A r \in Slots : TakenOut(r)' = IF r = s THEN TakenOut(r) \ {w} ELSE TakenOut(r)
    BY <1>2, <1>3 DEF TakenOut
  <1>6. \A r \in Slots :
           PendingFor(r)' = IF r = s /\ st = "pending" THEN PendingFor(r) \cup {w}
                            ELSE PendingFor(r)
    BY <1>2, <1>3 DEF PendingFor
  <1>7. w \in TakenOut(s)
    BY <1>2 DEF TakenOut
  <1>8. [r \in Slots |-> TakenOut(r)]' =
           [[r \in Slots |-> TakenOut(r)] EXCEPT ![s] = TakenOut(s) \ {w}]
    BY <1>5
  <1>9. CASE st = "pending"
    <2>1. PendingFor(s) = {}
      BY <1>1, <1>2, <1>9 DEF Clash, Siblings, PendingFor, Rows
    <2>2. \A r \in Slots : PendingFor(r)' = IF r = s THEN {w} ELSE PendingFor(r)
      BY <1>6, <1>9, <2>1
    <2>3. [r \in Slots |-> PendingFor(r)]' =
             [[r \in Slots |-> PendingFor(r)] EXCEPT ![s] = {w}]
      BY <2>2
    <2>4. Mail!PutBack(s, w)
      BY <1>1, <1>4, <1>7, <1>8, <2>1, <2>3 DEF Mail!PutBack, TakenOut
    <2> QED
      BY <1>1, <1>2, <2>4 DEF MailStep, Mail!Next
  <1>10. CASE st # "pending"
    <2>1. [r \in Slots |-> PendingFor(r)]' = [r \in Slots |-> PendingFor(r)]
      BY <1>6, <1>10
    <2>2. Mail!Settle(s, w)
      BY <1>1, <1>4, <1>7, <1>8, <2>1 DEF Mail!Settle, TakenOut
    <2> QED
      BY <1>1, <1>2, <2>2 DEF MailStep, Mail!Next
  <1> QED
    BY <1>9, <1>10

LEMMA MailEnqueue ==
  ASSUME TypeInv, NEW s \in Slots, NEW want \in Desired, NEW later \in Delays,
         Enqueue(s, want, later)
  PROVE  MailStep
  <1>1. PICK w \in Writes : Enqueue(s, want, later)!(w)
    BY DEF Enqueue
  <1>2. /\ state[w] = "absent" /\ slot' = [slot EXCEPT ![w] = s]
        /\ \A v \in Writes : state'[v] = IF v = w THEN "pending"
                                         ELSE IF v \in PendingFor(s) THEN "superseded"
                                         ELSE state[v]
    BY <1>1 DEF Insert
  <1>3. \A v \in Writes : slot'[v] = IF v = w THEN s ELSE slot[v]
    BY <1>2 DEF TypeInv, TypeOK
  <1>4. w \notin Rows /\ Rows' = Rows \cup {w}
    BY <1>2 DEF Rows, PendingFor
  <1>5. \A r \in Slots : TakenOut(r)' = TakenOut(r)
    BY <1>2, <1>3 DEF TakenOut, PendingFor
  <1>6. \A r \in Slots : PendingFor(r)' = IF r = s THEN {w} ELSE PendingFor(r)
    BY <1>2, <1>3 DEF PendingFor
  <1>7. Mail!Send(s, w)
    BY <1>4, <1>5, <1>6 DEF Mail!Send, TakenOut
  <1> QED
    BY <1>7 DEF MailStep, Mail!Next

LEMMA MailRetry ==
  ASSUME TypeInv, NEW selection \in SUBSET Writes, AdminRetry(selection)
  PROVE  MailStep
  <1> DEFINE again == [s \in Slots |-> {w \in selection : slot[w] = s}]
  <1>1. /\ slot' = slot
        /\ \A w \in Writes : state'[w] = IF w \in selection THEN "pending" ELSE state[w]
        /\ \A w \in selection : /\ w \in Rows /\ state[w] = "failed" /\ ~Clash(w)
                                /\ Siblings(w) \cap selection = {}
    BY DEF AdminRetry, Rows
  <1>2. Rows' = Rows
    BY <1>1 DEF Rows
  <1>3. \A s \in Slots : TakenOut(s)' = TakenOut(s)
    BY <1>1 DEF TakenOut
  <1>4. \A s \in Slots : PendingFor(s)' = PendingFor(s) \cup again[s]
    BY <1>1 DEF PendingFor
  <1>5. ASSUME NEW s \in Slots
        PROVE  /\ again[s] \subseteq Rows \ (PendingFor(s) \cup TakenOut(s))
               /\ again[s] # {} => PendingFor(s) = {}
               /\ \A l, m \in again[s] : l = m
    <2>1. again[s] \subseteq Rows \ (PendingFor(s) \cup TakenOut(s))
      BY <1>1 DEF PendingFor, TakenOut
    <2>2. again[s] # {} => PendingFor(s) = {}
      BY <1>1 DEF Clash, Siblings, PendingFor, Rows
    <2>3. \A l, m \in again[s] : l = m
      BY <1>1 DEF Siblings, Rows
    <2> QED
      BY <2>1, <2>2, <2>3
  <1>6. again \in [Slots -> SUBSET Writes]
    OBVIOUS
  <1> HIDE DEF again
  <1>7. Mail!SendAgain(again)
    BY <1>2, <1>3, <1>4, <1>5 DEF Mail!SendAgain, TakenOut
  <1> QED
    BY <1>6, <1>7 DEF MailStep, Mail!Next

LEMMA MailClaim ==
  ASSUME TypeInv, NEW d \in Drains, NEW locked \in SUBSET Writes, Claim(d, locked)
  PROVE  MailStep
  <1>1. PICK taken \in SUBSET Writes :
           /\ slot' = slot
           /\ \A w \in Writes : state'[w] = IF w \in taken THEN "in_flight" ELSE state[w]
           /\ \A w \in taken : state[w] = "pending" /\ slot[w] \in Slots
    BY DEF Claim, TypeInv, TypeOK, Rows
  <1>2. Rows' = Rows
    BY <1>1 DEF Rows
  <1>3. \A s \in Slots : PendingFor(s)' = PendingFor(s) \ taken
    BY <1>1 DEF PendingFor
  <1>4. \A s \in Slots : TakenOut(s)' = TakenOut(s) \cup (PendingFor(s) \cap taken)
    BY <1>1 DEF PendingFor, TakenOut
  <1>5. \A w \in taken : w \in PendingFor(slot[w]) /\ slot[w] \in Slots
    BY <1>1 DEF PendingFor
  <1>6. Mail!Take(taken)
    BY <1>2, <1>3, <1>4, <1>5 DEF Mail!Take, TakenOut
  <1> QED
    BY <1>6 DEF MailStep, Mail!Next

LEMMA NextMail ==
  ASSUME TypeInv, HeldInv, [Next]_vars
  PROVE  MailStep
  <1> USE DEF TypeInv, TypeOK
  <1>1. ASSUME NEW d \in Drains, NEW w \in Held(d), NEW p \in BOOLEAN,
               MarkFailed(d, w, p) \/ Defer(w) \/ MarkConfirmed(w)
        PROVE  MailStep
    <2>1. w \in Rows /\ state[w] = "in_flight"
      BY DEF HeldExist, HeldInv, Held
    <2>2. CASE MarkFailed(d, w, p)
      BY <2>1, <2>2, MailSave DEF MarkFailed
    <2>3. CASE Defer(w)
      BY <2>1, <2>3, MailSave DEF Defer
    <2>4. CASE MarkConfirmed(w)
      BY <2>1, <2>4, MailSave DEF MarkConfirmed
    <2> QED
      BY <1>1, <2>2, <2>3, <2>4
  <1>2. UNCHANGED table => MailStep
    BY MailStutter DEF table
  <1>3. ASSUME NEW w \in Writes, WaitOver(w) \/ Age(w)
        PROVE  MailStep
    BY <1>3, MailStutter DEF WaitOver, Age
  <1>4. ASSUME NEW d \in Drains, Recover(d)
        PROVE  MailStep
    BY <1>4, <1>1, <1>2 DEF Recover, IsFirst, Held
  <1>5. ASSUME NEW d \in Drains, DeferBlocked(d) \/ Confirm(d) \/ HandlerOutOfQuota(d)
        PROVE  MailStep
    BY <1>5, <1>1, <1>2 DEF DeferBlocked, Confirm, HandlerOutOfQuota, IsFirst, Held
  <1>6. ASSUME NEW d \in Drains, NEW p \in BOOLEAN, Unresolvable(d, p) \/ HandlerFails(d, p)
        PROVE  MailStep
    BY <1>6, <1>1, <1>2 DEF Unresolvable, HandlerFails, IsFirst, Held
  <1>7. ASSUME NEW d \in Drains, StartDrain(d) \/ CallHandler(d) \/ Finish(d) \/ Crash(d)
        PROVE  MailStep
    BY <1>7, <1>2 DEF StartDrain, CallHandler, Finish, Crash
  <1>8. CASE UNCHANGED vars
    BY <1>2, <1>8 DEF vars
  <1> QED
    BY <1>3, <1>4, <1>5, <1>6, <1>7, <1>8, MailEnqueue, MailRetry, MailClaim
    DEF Next, DrainStep

\* With one prompt drain per event, the queue implements its mailboxes: a slot has at
\* most one intent waiting, a fresher one replaces it, and nothing that left the
\* queue waits again but by recovery into an empty slot or an administrator.
THEOREM QueueIsMailboxes ==
  ASSUME OneDrainPerEvent, PromptDrains
  PROVE  Spec => SlotsAreMailboxes
  <1>1. Init => HeldInv
    BY DEF Init, HeldInv, Held
  <1>2. TypeInv /\ HeldInv /\ [Next]_vars => HeldInv'
    BY NextHeld
  <1>3. Init => Mail!Init
    BY DEF Init, Mail!Init, PendingFor, Rows
  <1>4. TypeInv /\ HeldInv /\ [Next]_vars => [Mail!Next]_(Mail!vars)
    BY NextMail DEF MailStep
  <1> QED
    BY <1>1, <1>2, <1>3, <1>4, InitType, NextType, PTL DEF Spec, SlotsAreMailboxes, Mail!Spec

(***************************************************************************)
(* Calls and attempts.  A row has had at most one call more than its        *)
(* attempts, while its turn is on or its drain died in it.                  *)
(***************************************************************************)

RowCount(w) ==
    /\ attempts[w] <= MAX_ATTEMPTS
    /\ state[w] # "failed" => attempts[w] < MAX_ATTEMPTS
    /\ calls[w] <= attempts[w] + 1
    /\ state[w] \notin {"in_flight", "confirmed"} => calls[w] <= attempts[w]

TurnCount(d) ==
    \A w \in batch[d] :
        (pc[d] = "calling" /\ IsFirst(w, batch[d])) \/ calls[w] <= attempts[w]

CountInv ==
    /\ \A w \in Writes : RowCount(w)
    /\ \A d \in Drains : TurnCount(d)

LEMMA CountBounds ==
  ASSUME TypeInv, CountInv
  PROVE  CallsAreBounded
  <1> SUFFICES ASSUME NEW w \in Writes
               PROVE  /\ calls[w] <= MAX_ATTEMPTS
                      /\ attempts[w] <= MAX_ATTEMPTS
                      /\ Open(w) => attempts[w] < MAX_ATTEMPTS
    BY DEF CallsAreBounded
  <1>1. RowCount(w) /\ calls[w] \in Nat /\ attempts[w] \in Nat /\ MAX_ATTEMPTS \in Nat
    BY OutboxAssumption DEF TypeInv, TypeOK, CountInv
  <1> QED
    BY <1>1 DEF RowCount, Open

\* The other drains' turns, when one drain's row is settled or called.
LEMMA OtherTurns ==
  ASSUME OneDrainPerEvent, TypeInv, HeldInv, CountInv,
         NEW d \in Drains, NEW w \in Held(d),
         \A v \in Writes \ {w} : calls'[v] = calls[v] /\ attempts'[v] = attempts[v],
         \A e \in Drains \ {d} : batch'[e] = batch[e] /\ pc'[e] = pc[e]
  PROVE  \A e \in Drains \ {d} : TurnCount(e)'
  <1> SUFFICES ASSUME NEW e \in Drains \ {d}, NEW v \in batch[e]
               PROVE  /\ v \in Writes \ {w}
                      /\ (pc[e] = "calling" /\ IsFirst(v, batch[e])) \/ calls[v] <= attempts[v]
    BY DEF TurnCount, IsFirst
  <1>1. v \in Held(e)
    BY DEF Held
  <1>2. v # w
    BY <1>1, HeldApart
  <1> QED
    BY <1>2 DEF CountInv, TurnCount, TypeInv, TypeOK

\* One row is settled: its counts are checked, and it leaves what d holds.
LEMMA CountSettle ==
  ASSUME OneDrainPerEvent, TypeInv, HeldInv, CountInv,
         NEW d \in Drains, NEW w \in Held(d), RowCount(w)',
         \A v \in Writes \ {w} : /\ state'[v] = state[v]
                                  /\ calls'[v] = calls[v]
                                  /\ attempts'[v] = attempts[v],
         \A e \in Drains \ {d} : batch'[e] = batch[e] /\ pc'[e] = pc[e],
         \/ batch'[d] = {}
         \/ batch'[d] = batch[d] \ {w} /\ IsFirst(w, batch[d])
  PROVE  CountInv'
  <1> USE DEF TypeInv, TypeOK
  <1>1. \A v \in Writes : RowCount(v)'
    BY DEF CountInv, RowCount
  <1>2. TurnCount(d)'
    <2>1. ASSUME NEW v \in batch'[d], IsFirst(w, batch[d])
          PROVE  calls'[v] <= attempts'[v]
      <3>1. v \in batch[d] /\ v # w /\ v \in Writes /\ w \in Writes
        BY <2>1 DEF IsFirst
      <3>2. ~IsFirst(v, batch[d])
        BY <2>1, <3>1, WritesAreNat DEF IsFirst
      <3> QED
        BY <3>1, <3>2 DEF CountInv, TurnCount
    <2> QED
      BY <2>1 DEF TurnCount
  <1>3. \A e \in Drains \ {d} : TurnCount(e)'
    BY OtherTurns
  <1> QED
    BY <1>1, <1>2, <1>3 DEF CountInv

LEMMA NextCount ==
  ASSUME OneDrainPerEvent, TypeInv, HeldInv, CountInv, [Next]_vars
  PROVE  CountInv'
  <1> USE DEF TypeInv, TypeOK, table, local, history
  <1>1. ASSUME NEW s \in Slots, NEW want \in Desired, NEW later \in Delays,
               Enqueue(s, want, later)
        PROVE  CountInv'
    <2>1. PICK w \in Writes : Enqueue(s, want, later)!(w)
      BY <1>1 DEF Enqueue
    <2>2. \A v \in Writes : RowCount(v)'
      BY <2>1 DEF Insert, PendingFor, CountInv, RowCount
    <2>3. \A d \in Drains : TurnCount(d)'
      BY <2>1 DEF Insert, CountInv, TurnCount, IsFirst
    <2> QED
      BY <2>2, <2>3 DEF CountInv
  <1>2. ASSUME NEW selection \in SUBSET Writes, AdminRetry(selection)
        PROVE  CountInv'
    <2>1. \A v \in Writes : RowCount(v)'
      BY <1>2, OutboxAssumption DEF AdminRetry, CountInv, RowCount
    <2>2. ASSUME NEW d \in Drains, NEW v \in batch[d]
          PROVE  calls'[v] = calls[v] /\ attempts'[v] = attempts[v]
      BY <1>2 DEF AdminRetry, HeldInv, Held
    <2>3. \A d \in Drains : TurnCount(d)'
      BY <1>2, <2>2 DEF AdminRetry, CountInv, TurnCount, IsFirst
    <2> QED
      BY <2>1, <2>3 DEF CountInv
  <1>3. ASSUME NEW d \in Drains, NEW locked \in SUBSET Writes, Claim(d, locked)
        PROVE  CountInv'
    <2>1. \A v \in Writes : RowCount(v)'
      BY <1>3 DEF Claim, CountInv, RowCount
    <2>2. \A w \in batch'[d] : w \in Writes /\ state[w] = "pending"
      BY <1>3 DEF Claim
    <2>3. TurnCount(d)'
      BY <1>3, <2>2 DEF Claim, CountInv, RowCount, TurnCount
    <2>4. \A e \in Drains \ {d} : TurnCount(e)'
      BY <1>3 DEF Claim, CountInv, TurnCount, IsFirst
    <2> QED
      BY <2>1, <2>3, <2>4 DEF CountInv
  <1>4. ASSUME NEW d \in Drains, CallHandler(d)
        PROVE  CountInv'
    <2>1. PICK w \in Writes : CallHandler(d)!(w)
      BY <1>4 DEF CallHandler
    <2>2. w \in batch[d] /\ w \in Held(d) /\ state[w] = "in_flight"
      BY <2>1 DEF IsFirst, Held, HeldInv
    <2>3. calls[w] <= attempts[w]
      BY <2>1, <2>2 DEF CountInv, TurnCount
    <2>4. \A v \in Writes : calls'[v] = IF v = w THEN calls[v] + 1 ELSE calls[v]
      BY <2>1
    <2>5. \A v \in Writes : RowCount(v)'
      BY <2>1, <2>2, <2>3, <2>4 DEF CountInv, RowCount
    <2>6. TurnCount(d)'
      <3> SUFFICES ASSUME NEW v \in batch[d], v # w
                   PROVE  calls'[v] <= attempts'[v]
        BY <2>1 DEF TurnCount
      <3> QED
        BY <2>1, <2>4 DEF CountInv, TurnCount
    <2>7. \A e \in Drains \ {d} : TurnCount(e)'
      BY <2>1, <2>2, <2>4, OtherTurns
    <2> QED
      BY <2>5, <2>6, <2>7 DEF CountInv
  <1>5. ASSUME NEW d \in Drains, UNCHANGED <<state, attempts, calls>>, batch'[d] = {},
               \A e \in Drains \ {d} : batch'[e] = batch[e] /\ pc'[e] = pc[e]
        PROVE  CountInv'
    <2>1. \A v \in Writes : RowCount(v)'
      BY <1>5 DEF CountInv, RowCount
    <2>2. \A e \in Drains : TurnCount(e)'
      BY <1>5 DEF CountInv, TurnCount, IsFirst
    <2> QED
      BY <2>1, <2>2 DEF CountInv
  <1>6. ASSUME NEW d \in Drains, Die(d), UNCHANGED <<state, attempts, calls>>
        PROVE  CountInv'
    <2>1. batch'[d] = {} /\ \A e \in Drains \ {d} : batch'[e] = batch[e] /\ pc'[e] = pc[e]
      BY <1>6 DEF Die
    <2> QED
      BY <2>1, <1>5, <1>6
  <1>7. ASSUME NEW d \in Drains, StartDrain(d)
        PROVE  CountInv'
    <2>1. batch'[d] = {} /\ \A e \in Drains \ {d} : batch'[e] = batch[e] /\ pc'[e] = pc[e]
      BY <1>7 DEF StartDrain, HeldInv
    <2>2. UNCHANGED <<state, attempts, calls>>
      BY <1>7 DEF StartDrain
    <2> QED
      BY <2>1, <2>2, <1>5
  <1>8. ASSUME NEW d \in Drains, Finish(d) \/ Crash(d)
        PROVE  CountInv'
    BY <1>6, <1>8 DEF Finish, Crash
  <1>9. ASSUME NEW w \in Writes, WaitOver(w) \/ Age(w)
        PROVE  CountInv'
    BY <1>9 DEF WaitOver, Age, CountInv, RowCount, TurnCount, IsFirst
  \* mark_failed on a held row whose turn it is, or that is recovered.
  <1>10. ASSUME NEW d \in Drains, NEW w \in Held(d), NEW p \in BOOLEAN, MarkFailed(d, w, p),
                UNCHANGED calls
         PROVE  /\ RowCount(w)'
                /\ \A v \in Writes \ {w} : /\ state'[v] = state[v]
                                           /\ calls'[v] = calls[v]
                                           /\ attempts'[v] = attempts[v]
    <2>1. w \in Writes /\ state[w] = "in_flight" /\ seen[d][w] = attempts[w]
      BY DEF HeldInv, Held
    <2>2. attempts[w] < MAX_ATTEMPTS /\ calls[w] <= attempts[w] + 1
      BY <2>1 DEF CountInv, RowCount
    <2> QED
      BY <1>10, <2>1, <2>2, OutboxAssumption DEF MarkFailed, AttemptsRemain, Save, RowCount
  <1>11. ASSUME NEW d \in Drains, Recover(d)
         PROVE  CountInv'
    <2>1. PICK w \in Writes : Recover(d)!(w)
      BY <1>11 DEF Recover
    <2>2. w \in Held(d) /\ batch[d] = {}
      BY <2>1 DEF Held, HeldInv, IsFirst
    <2>3. CASE MarkFailed(d, w, FALSE) /\ UNCHANGED <<pc, batch, calls>>
      BY <2>2, <2>3, <1>10, CountSettle
    <2> QED
      BY <2>1, <2>3, <1>6
  <1>12. ASSUME NEW d \in Drains, NEW p \in BOOLEAN, Unresolvable(d, p) \/ HandlerFails(d, p)
         PROVE  CountInv'
    <2>1. PICK w \in Writes :
             /\ IsFirst(w, batch[d])
             /\ \/ MarkFailed(d, w, p) /\ Advance(d, w)
                \/ Die(d) /\ UNCHANGED table
             /\ UNCHANGED calls
      BY <1>12 DEF Unresolvable, HandlerFails
    <2>2. w \in Held(d)
      BY <2>1 DEF Held, IsFirst
    <2>3. CASE MarkFailed(d, w, p) /\ Advance(d, w)
      BY <2>1, <2>2, <2>3, <1>10, CountSettle DEF Advance
    <2> QED
      BY <2>1, <2>3, <1>6
  \* Deferring and confirming: only the state and the calls of the row change.
  <1>13. ASSUME NEW d \in Drains, NEW w \in Writes, IsFirst(w, batch[d]), Advance(d, w),
                Defer(w) \/ MarkConfirmed(w),
                calls'[w] \in Nat, calls'[w] <= attempts[w] + 1,
                Defer(w) => calls'[w] <= attempts[w],
                \A v \in Writes \ {w} : calls'[v] = calls[v]
         PROVE  CountInv'
    <2>1. w \in Held(d) /\ state[w] = "in_flight"
      BY <1>13 DEF Held, HeldInv, IsFirst
    <2>2. /\ attempts' = attempts
          /\ \A v \in Writes \ {w} : state'[v] = state[v]
          /\ \/ state'[w] = "pending" /\ Defer(w)
             \/ state'[w] = "confirmed"
      BY <1>13 DEF Defer, MarkConfirmed, Save
    <2>3. RowCount(w)'
      BY <1>13, <2>1, <2>2 DEF CountInv, RowCount
    <2> QED
      BY <1>13, <2>1, <2>2, <2>3, CountSettle DEF Advance
  <1>14. ASSUME NEW d \in Drains, DeferBlocked(d)
         PROVE  CountInv'
    <2>1. PICK w \in Writes : DeferBlocked(d)!(w)
      BY <1>14 DEF DeferBlocked
    <2>2. calls[w] <= attempts[w]
      BY <2>1 DEF CountInv, TurnCount, IsFirst
    <2>3. CASE Defer(w) /\ Advance(d, w)
      BY <2>1, <2>2, <2>3, <1>13
    <2> QED
      BY <2>1, <2>3, <1>6
  <1>15. ASSUME NEW d \in Drains, Confirm(d)
         PROVE  CountInv'
    <2>1. PICK w \in Writes : Confirm(d)!(w)
      BY <1>15 DEF Confirm
    <2>2. calls[w] <= attempts[w] + 1 /\ ~Defer(w)
      BY <2>1 DEF CountInv, RowCount, Defer, MarkConfirmed, Save
    <2> QED
      BY <2>1, <2>2, <1>13
  <1>16. ASSUME NEW d \in Drains, HandlerOutOfQuota(d)
         PROVE  CountInv'
    <2>1. PICK w \in Writes : HandlerOutOfQuota(d)!(w)
      BY <1>16 DEF HandlerOutOfQuota
    <2>2. w \in Held(d) /\ calls[w] <= attempts[w] + 1
      BY <2>1 DEF CountInv, RowCount, Held, IsFirst
    <2>3. /\ calls'[w] \in Nat /\ calls'[w] <= attempts[w]
          /\ \A v \in Writes \ {w} : calls'[v] = calls[v]
      <3>1. calls'[w] = IF calls[w] = 0 THEN 0 ELSE calls[w] - 1
        <4>1. calls' = [calls EXCEPT ![w] = IF calls[w] = 0 THEN 0 ELSE calls[w] - 1]
          BY <2>1
        <4> QED
          BY <4>1
      <3>2. calls[w] \in Nat /\ attempts[w] \in Nat
        BY <2>1
      <3>3. \A v \in Writes \ {w} : calls'[v] = calls[v]
        BY <2>1
      <3>4. ASSUME NEW c \in Nat, NEW a \in Nat, c <= a + 1
            PROVE  LET r == IF c = 0 THEN 0 ELSE c - 1 IN r \in Nat /\ r <= a
        BY <3>4
      <3> QED
        BY <2>2, <3>1, <3>2, <3>3, <3>4
    <2>4. CASE Defer(w) /\ Advance(d, w)
      BY <2>1, <2>3, <2>4, <1>13
    <2>5. CASE Die(d) /\ UNCHANGED table
      <3>1. RowCount(w)'
        BY <2>3, <2>5 DEF CountInv, RowCount
      <3> QED
        BY <2>2, <2>3, <2>5, <3>1, CountSettle DEF Die
    <2> QED
      BY <2>1, <2>4, <2>5
  <1>17. CASE UNCHANGED vars
    BY <1>17 DEF vars, CountInv, RowCount, TurnCount, IsFirst
  <1> QED
    BY <1>1, <1>2, <1>3, <1>4, <1>7, <1>8, <1>9, <1>11, <1>12, <1>14, <1>15, <1>16,
       <1>17 DEF Next, DrainStep

\* With one prompt drain per event, the provider is called at most MAX_ATTEMPTS
\* times for a write, quota refusals aside, until an administrator retries it.
THEOREM AttemptsAreCapped ==
  ASSUME OneDrainPerEvent, PromptDrains
  PROVE  Spec => []CallsAreBounded
  <1>1. Init => HeldInv /\ CountInv
    BY OutboxAssumption
    DEF Init, HeldInv, Held, CountInv, RowCount, TurnCount
  <1>2. TypeInv /\ HeldInv /\ [Next]_vars => HeldInv'
    BY NextHeld
  <1>3. TypeInv /\ HeldInv /\ CountInv /\ [Next]_vars => CountInv'
    BY NextCount
  <1>4. TypeInv /\ CountInv => CallsAreBounded
    BY CountBounds
  <1> QED
    BY <1>1, <1>2, <1>3, <1>4, InitType, NextType, PTL DEF Spec

(***************************************************************************)
(* Order.  A pending write that was never put back is the newest of its     *)
(* slot: an enqueue would have superseded it, and a drain that fails or     *)
(* defers a write with a fresher pending one raises instead.                *)
(***************************************************************************)

PendingIsNewest ==
    \A w \in Writes \ recovered : state[w] = "pending" => Newer(w) = {}

OrderInv == PendingIsNewest /\ InOrderUnlessRecovered

\* Steps that create no row: the slots' rows stay the same.
LEMMA SameNewer ==
  ASSUME Quiet, NEW w \in Writes
  PROVE  Newer(w)' = Newer(w)
  BY DEF Quiet, Newer, Siblings, Rows

LEMMA NewerIn ==
  ASSUME NEW w \in Writes
  PROVE  Newer(w) \subseteq Writes
  BY DEF Newer, Siblings, Rows

\* A held write that is saved as pending has nothing fresher at all.
LEMMA NewestWhenRequeued ==
  ASSUME TypeInv, SupersededInv, OrderInv,
         NEW d \in Drains, NEW w \in batch[d] \ recovered, ~Clash(w)
  PROVE  Newer(w) = {}
  <1>1. w \in Writes
    BY DEF TypeInv, TypeOK
  <1>2. ASSUME NEW v \in Newer(w)
        PROVE  state[v] = "superseded"
    <2>1. state[v] \in {"pending", "superseded"} /\ v \in Siblings(w)
      BY DEF OrderInv, InOrderUnlessRecovered, Newer
    <2> QED
      BY <2>1 DEF Clash
  <1>3. ASSUME NEW v \in Newer(w)
        PROVE  FALSE
    <2>1. PICK u \in Newer(v) : state[u] # "superseded"
      BY <1>2, <1>3 DEF SupersededInv, SupersededHasSuccessor, Newer, Siblings, Rows
    <2>2. u \in Newer(w)
      BY <1>1, <1>3, <2>1, WritesAreNat DEF Newer, Siblings, Rows
    <2> QED
      BY <1>2, <2>1, <2>2
  <1> QED
    BY <1>3

\* Settling a held write that is not being recovered.
LEMMA OrderSettle ==
  ASSUME OneDrainPerEvent, TypeInv, SupersededInv, HeldInv, OrderInv, Quiet,
         NEW d \in Drains, NEW w \in batch[d],
         \A v \in Writes \ {w} : state'[v] = state[v],
         state'[w] = "pending" => ~Clash(w),
         UNCHANGED recovered,
         \A e \in Drains \ {d} : batch'[e] = batch[e],
         batch'[d] \subseteq batch[d] \ {w}
  PROVE  OrderInv'
  <1> USE DEF TypeInv, TypeOK
  <1>1. w \in Writes /\ w \in Held(d)
    BY DEF Held
  <1>2. PendingIsNewest'
    <2> SUFFICES ASSUME NEW v \in Writes \ recovered, state'[v] = "pending"
                 PROVE  Newer(v) = {}
      BY SameNewer DEF PendingIsNewest
    <2>1. CASE v = w
      BY <2>1, NewestWhenRequeued
    <2>2. CASE v # w
      BY <2>2 DEF OrderInv, PendingIsNewest
    <2> QED
      BY <2>1, <2>2
  <1>3. InOrderUnlessRecovered'
    <2> SUFFICES ASSUME NEW e \in Drains, NEW x \in batch'[e] \ recovered, NEW v \in Newer(x)
                 PROVE  state'[v] \in {"pending", "superseded"}
      <3>1. \A x \in Writes : Newer(x)' = Newer(x)
        BY SameNewer
      <3>2. \A e \in Drains : batch'[e] \subseteq Writes
        BY <1>1
      <3> QED
        BY <3>1, <3>2 DEF InOrderUnlessRecovered
    <2>1. x \in batch[e] /\ x \in Writes
      BY <1>1
    <2>2. state[v] \in {"pending", "superseded"} /\ v \in Writes
      BY <2>1, NewerIn DEF OrderInv, InOrderUnlessRecovered
    <2>3. v # w
      BY <1>1, <2>2 DEF HeldInv
    <2> QED
      BY <2>2, <2>3
  <1> QED
    BY <1>2, <1>3 DEF OrderInv

\* Steps after which a write is pending or held only if it was before, with
\* nothing moved out of the queue.
LEMMA OrderKept ==
  ASSUME TypeInv, OrderInv, Quiet, recovered \subseteq recovered',
         \A v \in Writes \ recovered' : state'[v] = "pending" => state[v] = "pending",
         \A v \in Writes : state[v] \in {"pending", "superseded"} =>
                             state'[v] \in {"pending", "superseded"},
         \A e \in Drains : batch'[e] \subseteq batch[e]
  PROVE  OrderInv'
  <1> USE DEF TypeInv, TypeOK
  <1>1. PendingIsNewest'
    BY SameNewer DEF OrderInv, PendingIsNewest
  <1>2. InOrderUnlessRecovered'
    <2> SUFFICES ASSUME NEW e \in Drains, NEW x \in batch'[e] \ recovered', NEW v \in Newer(x)'
                 PROVE  state'[v] \in {"pending", "superseded"}
      BY DEF InOrderUnlessRecovered
    <2>1. x \in batch[e] \ recovered /\ x \in Writes
      OBVIOUS
    <2>2. v \in Newer(x) /\ v \in Writes
      BY <2>1, SameNewer, NewerIn
    <2> QED
      BY <2>1, <2>2 DEF OrderInv, InOrderUnlessRecovered
  <1> QED
    BY <1>1, <1>2 DEF OrderInv

LEMMA NextOrder ==
  ASSUME OneDrainPerEvent, TypeInv, SupersededInv, HeldInv, OrderInv, [Next]_vars
  PROVE  OrderInv'
  <1> USE DEF TypeInv, TypeOK, table, local, history
  <1>1. ASSUME NEW s \in Slots, NEW want \in Desired, NEW later \in Delays,
               Enqueue(s, want, later)
        PROVE  OrderInv'
    <2>1. PICK w \in Writes : Enqueue(s, want, later)!(w)
      BY <1>1 DEF Enqueue
    <2>2. \A v \in Writes : v > w => state[v] = "absent"
      BY <2>1, WritesAreNat DEF Insert, SupersededInv, CreatedInOrder
    <2>3. \A v \in Writes : state'[v] = "absent" <=> state[v] = "absent" /\ v # w
      BY <2>1 DEF Insert, PendingFor
    <2>4. \A v \in Writes \ {w} : slot'[v] = slot[v]
      BY <2>1 DEF Insert
    <2>5. \A v \in Writes : ~(v > w) \/ v \notin Rows'
      BY <2>2, <2>3, WritesAreNat DEF Rows
    <2>6. \A v \in Rows : v \in Writes /\ v # w
      BY <2>1 DEF Insert, Rows
    <2>7. \A v \in Rows : Newer(v)' \subseteq Newer(v) \cup {w}
      BY <2>3, <2>4, <2>6 DEF Newer, Siblings, Rows
    <2>8. slot'[w] = s /\ state'[w] = "pending"
      BY <2>1 DEF Insert
    <2>9. PendingIsNewest'
      <3> SUFFICES ASSUME NEW v \in Writes \ recovered, state'[v] = "pending"
                   PROVE  Newer(v)' = {}
        BY <2>1 DEF PendingIsNewest, Insert
      <3>1. CASE v = w
        BY <2>5, <3>1 DEF Newer, Siblings, Rows
      <3>2. CASE v # w
        <4>1. state[v] = "pending" /\ v \notin PendingFor(s) /\ v \in Rows
          BY <2>1, <3>2 DEF Insert, Rows
        <4>2. slot'[v] # slot'[w]
          BY <2>4, <2>8, <3>2, <4>1 DEF PendingFor
        <4>3. Newer(v) = {} /\ w \notin Newer(v)'
          BY <4>1, <4>2 DEF OrderInv, PendingIsNewest, Newer, Siblings
        <4> QED
          BY <2>7, <4>1, <4>3
      <3> QED
        BY <3>1, <3>2
    <2>10. InOrderUnlessRecovered'
      <3> SUFFICES ASSUME NEW e \in Drains, NEW x \in batch[e] \ recovered, NEW v \in Newer(x)'
                   PROVE  state'[v] \in {"pending", "superseded"}
        BY <2>1 DEF Insert, InOrderUnlessRecovered
      <3>1. x \in Rows
        BY DEF HeldExist
      <3>2. CASE v = w
        BY <2>8, <3>2
      <3>3. CASE v \in Newer(x)
        BY <2>1, <3>3, NewerIn DEF Insert, OrderInv, InOrderUnlessRecovered
      <3> QED
        BY <2>7, <3>1, <3>2, <3>3
    <2> QED
      BY <2>9, <2>10 DEF OrderInv
  <1>2. ASSUME NEW selection \in SUBSET Writes, AdminRetry(selection)
        PROVE  OrderInv'
    <2>1. Quiet
      BY <1>2 DEF AdminRetry, Quiet
    <2> QED
      BY <1>2, <2>1, OrderKept DEF AdminRetry
  <1>3. ASSUME UNCHANGED <<state, slot, recovered>>,
               \A e \in Drains : batch'[e] \subseteq batch[e]
        PROVE  OrderInv'
    <2>1. Quiet
      BY <1>3 DEF Quiet
    <2> QED
      BY <1>3, <2>1, OrderKept
  <1>4. ASSUME NEW d \in Drains, NEW locked \in SUBSET Writes, Claim(d, locked)
        PROVE  OrderInv'
    <2>1. Quiet
      BY <1>4 DEF Claim, Quiet
    <2>2. /\ pc[d] = "recovering"
          /\ batch[d] = {}
          /\ \A e \in Drains \ {d} : batch'[e] = batch[e]
          /\ UNCHANGED recovered
      BY <1>4 DEF Claim, HeldInv
    <2>3. \A w \in batch'[d] : w \in Writes /\ state[w] = "pending" /\ Event(w) \in Scope[d]
      BY <1>4 DEF Claim
    <2>4. \A w \in Writes : state'[w] = IF w \in batch'[d] THEN "in_flight" ELSE state[w]
      BY <1>4 DEF Claim
    <2>5. PendingIsNewest'
      BY <2>1, <2>2, <2>4, SameNewer DEF OrderInv, PendingIsNewest
    <2>6. InOrderUnlessRecovered'
      <3> SUFFICES ASSUME NEW e \in Drains, NEW x \in batch'[e] \ recovered, NEW v \in Newer(x)'
                   PROVE  state'[v] \in {"pending", "superseded"}
        BY <2>2 DEF InOrderUnlessRecovered
      <3>1. x \in Writes
        BY <2>2, <2>3
      <3>2. v \in Newer(x) /\ v \in Writes
        BY <2>1, <3>1, SameNewer, NewerIn
      <3>3. CASE e = d
        BY <2>3, <3>2, <3>3 DEF OrderInv, PendingIsNewest
      <3>4. CASE e # d
        <4>1. x \in batch[e] /\ x \in Held(e)
          BY <2>2, <3>4 DEF Held
        <4>2. Event(x) \in Scope[e] /\ Event(v) = Event(x)
          BY <3>2, <4>1 DEF HeldInv, Event, Newer, Siblings
        <4>3. v \notin batch'[d]
          BY <2>3, <3>4, <4>2 DEF OneDrainPerEvent
        <4> QED
          BY <2>4, <3>2, <4>1, <4>3 DEF OrderInv, InOrderUnlessRecovered
      <3> QED
        BY <3>3, <3>4
    <2> QED
      BY <2>5, <2>6 DEF OrderInv
  <1>5. ASSUME NEW d \in Drains, Recover(d)
        PROVE  OrderInv'
    <2>1. PICK w \in Writes : Recover(d)!(w)
      BY <1>5 DEF Recover
    <2>2. w \in Held(d) /\ state[w] = "in_flight"
      BY <2>1 DEF IsFirst, Held, HeldInv
    <2>3. CASE MarkFailed(d, w, FALSE) /\ recovered' = recovered \cup {w} /\ UNCHANGED batch
      <3>1. /\ \A v \in Writes \ {w} : state'[v] = state[v]
            /\ state'[w] \in {"pending", "failed"}
            /\ slot' = slot
        BY <2>3 DEF MarkFailed, Save
      <3>2. Quiet
        BY <2>2, <3>1 DEF Quiet
      <3> QED
        BY <2>2, <2>3, <3>1, <3>2, OrderKept
    <2>4. CASE Die(d) /\ UNCHANGED <<table, history>>
      BY <2>4, <1>3 DEF Die
    <2> QED
      BY <2>1, <2>3, <2>4
  \* A turn of drain's loop that settles its row.
  <1>6. ASSUME NEW d \in Drains, NEW w \in Writes, IsFirst(w, batch[d]),
               NEW p \in BOOLEAN, MarkFailed(d, w, p) \/ Defer(w) \/ MarkConfirmed(w),
               Advance(d, w), UNCHANGED recovered
        PROVE  OrderInv'
    <2>1. w \in batch[d] /\ w \in Held(d) /\ state[w] = "in_flight"
      BY <1>6 DEF IsFirst, Held, HeldInv
    <2>2. /\ \A v \in Writes \ {w} : state'[v] = state[v]
          /\ state'[w] \in {"pending", "failed", "confirmed"}
          /\ state'[w] = "pending" => ~Clash(w)
          /\ slot' = slot
      BY <1>6 DEF MarkFailed, Defer, MarkConfirmed, Save
    <2>3. Quiet
      BY <2>1, <2>2 DEF Quiet
    <2>4. /\ \A e \in Drains \ {d} : batch'[e] = batch[e]
          /\ batch'[d] \subseteq batch[d] \ {w}
      BY <1>6 DEF Advance
    <2> QED
      BY <1>6, <2>1, <2>2, <2>3, <2>4, OrderSettle
  <1>7. ASSUME NEW d \in Drains, Die(d), UNCHANGED <<table, recovered>>
        PROVE  OrderInv'
    BY <1>3, <1>7 DEF Die
  <1>8. ASSUME NEW d \in Drains, DeferBlocked(d)
        PROVE  OrderInv'
    BY <1>6, <1>7, <1>8 DEF DeferBlocked
  <1>9. ASSUME NEW d \in Drains, Confirm(d)
        PROVE  OrderInv'
    BY <1>6, <1>9 DEF Confirm
  <1>10. ASSUME NEW d \in Drains, HandlerOutOfQuota(d)
         PROVE  OrderInv'
    BY <1>6, <1>7, <1>10 DEF HandlerOutOfQuota
  <1>11. ASSUME NEW d \in Drains, NEW p \in BOOLEAN, Unresolvable(d, p) \/ HandlerFails(d, p)
         PROVE  OrderInv'
    BY <1>6, <1>7, <1>11 DEF Unresolvable, HandlerFails
  <1>12. ASSUME NEW d \in Drains, Finish(d) \/ Crash(d)
         PROVE  OrderInv'
    BY <1>7, <1>12 DEF Finish, Crash
  <1>13. ASSUME NEW d \in Drains, StartDrain(d) \/ CallHandler(d)
         PROVE  OrderInv'
    BY <1>3, <1>13 DEF StartDrain, CallHandler
  <1>14. ASSUME NEW w \in Writes, WaitOver(w) \/ Age(w)
         PROVE  OrderInv'
    BY <1>3, <1>14 DEF WaitOver, Age
  <1>15. CASE UNCHANGED vars
    BY <1>3, <1>15 DEF vars
  <1> QED
    BY <1>1, <1>2, <1>4, <1>5, <1>8, <1>9, <1>10, <1>11, <1>12, <1>13, <1>14, <1>15
    DEF Next, DrainStep

\* With one prompt drain per event, a drain works on an older intent only while
\* nothing fresher for its slot has left the queue, unless requeue_stale or an
\* administrator brought the older one back.
THEOREM IntentsRunInOrder ==
  ASSUME OneDrainPerEvent, PromptDrains
  PROVE  Spec => []InOrderUnlessRecovered
  <1>1. Init => HeldInv /\ SupersededInv /\ OrderInv
    BY DEF Init, HeldInv, Held, SupersededInv, CreatedInOrder, SupersededHasSuccessor,
           OrderInv, PendingIsNewest, InOrderUnlessRecovered
  <1>2. TypeInv /\ HeldInv /\ [Next]_vars => HeldInv'
    BY NextHeld
  <1>3. TypeInv /\ SupersededInv /\ [Next]_vars => SupersededInv'
    BY NextSuperseded
  <1>4. TypeInv /\ SupersededInv /\ HeldInv /\ OrderInv /\ [Next]_vars => OrderInv'
    BY NextOrder
  <1>5. OrderInv => InOrderUnlessRecovered
    BY DEF OrderInv
  <1> QED
    BY <1>1, <1>2, <1>3, <1>4, <1>5, InitType, NextType, PTL DEF Spec

=============================================================================
