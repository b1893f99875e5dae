---------------------------- MODULE WritesProofs ----------------------------
(***************************************************************************)
(* Theorems about the two handlers of src/src/videos/writes.py, for any     *)
(* number of writes, videos, drains and faults: publishing and retracting   *)
(* (Publication), and pushing captions (Captions).                          *)
(*                                                                          *)
(* Both specifications take the steps of Outbox, so the invariants of       *)
(* OutboxProofs hold of them; what a handler knows between its steps comes  *)
(* on top.  They need one prompt drain per event: two handlers of one video *)
(* at once would each undo what the other relies on.                        *)
(*                                                                          *)
(* The proofs about one handler cite its own module's assumption only.      *)
(***************************************************************************)
EXTENDS Publication, Captions, OutboxProofs

(***************************************************************************)
(* The queue underneath.                                                    *)
(***************************************************************************)

QueueInv == TypeInv /\ SupersededInv /\ HeldInv /\ OrderInv

LEMMA QueueInit == Init => QueueInv
  BY InitType
     DEF Init, QueueInv, HeldInv, Held, SupersededInv, CreatedInOrder,
         SupersededHasSuccessor, OrderInv, PendingIsNewest, InOrderUnlessRecovered

LEMMA QueueStays ==
  ASSUME OneDrainPerEvent, PromptDrains, QueueInv, [Next]_vars
  PROVE  QueueInv'
  BY NextType, NextSuperseded, NextHeld, NextOrder DEF QueueInv

\* A step of the queue beside the handlers: nobody's call begins to end.
Beside ==
    \/ \E s \in Slots, want \in Desired : Enqueue(s, want, FALSE)
    \/ \E d \in Drains :
          \/ StartDrain(d) \/ Recover(d) \/ DeferBlocked(d) \/ CallHandler(d) \/ Finish(d)
          \/ \E locked \in SUBSET Writes : Claim(d, locked)
          \/ \E permanent \in BOOLEAN : Unresolvable(d, permanent)
    \/ \E selection \in SUBSET Writes : AdminRetry(selection)
    \/ \E w \in Writes : WaitOver(w) \/ Age(w)
    \/ UNCHANGED vars

\* A call ends without a confirmation.
Breaks(d) ==
    \/ \E permanent \in BOOLEAN : HandlerFails(d, permanent)
    \/ HandlerOutOfQuota(d)
    \/ Crash(d)

LEMMA StepsOfQueue ==
  /\ Beside => [Next]_vars
  /\ \A d \in Drains : Breaks(d) \/ Confirm(d) => [Next]_vars
  BY HandlersAssumption DEF Beside, Breaks, Next, DrainStep

\* Rows stay, and stay the same intent.
LEMMA RowsStay ==
  ASSUME TypeInv, [Next]_vars, NEW w \in Rows
  PROVE  /\ w \in Rows' /\ slot'[w] = slot[w] /\ desired'[w] = desired[w]
         /\ recovered \subseteq recovered'
  <1>1. recovered \subseteq recovered'
    BY DEF Next, DrainStep, vars, table, local, history, Enqueue, Insert, AdminRetry, StartDrain,
       Recover, Claim, DeferBlocked, CallHandler, Unresolvable, HandlerFails, Confirm,
       HandlerOutOfQuota, Finish, Crash, WaitOver, Age
  <1>2. CASE UNCHANGED vars
    BY <1>1, <1>2 DEF vars, table, Rows
  <1>3. ASSUME NEW s \in Slots, NEW want \in Desired, NEW later \in Delays, Enqueue(s, want, later)
        PROVE  w \in Rows' /\ slot'[w] = slot[w] /\ desired'[w] = desired[w]
    BY <1>3 DEF Enqueue, Insert, Rows, PendingFor, TypeInv, TypeOK
  <1>4. CASE Quiet /\ Requeues
    BY <1>1, <1>4 DEF Quiet, Requeues, Rows
  <1> QED
    BY <1>1, <1>2, <1>3, <1>4, OtherStepsAreQuiet, OtherStepsRequeue DEF Next

\* Whatever happens beside it, a call goes on with the same write.
LEMMA BesideKeepsCalls ==
  ASSUME TypeInv, Beside, NEW d \in Drains, pc[d] = "calling"
  PROVE  pc'[d] = "calling" /\ batch'[d] = batch[d]
  <1> USE DEF TypeInv, TypeOK, local
  <1>1. CASE UNCHANGED <<pc, batch>>
    BY <1>1
  <1>2. ASSUME NEW e \in Drains, StartDrain(e) \/ Finish(e) \/ CallHandler(e)
        PROVE  pc'[d] = "calling" /\ batch'[d] = batch[d]
    BY <1>2 DEF StartDrain, Finish, CallHandler, Die
  <1>3. ASSUME NEW e \in Drains, Recover(e) \/ DeferBlocked(e)
        PROVE  pc'[d] = "calling" /\ batch'[d] = batch[d]
    BY <1>3 DEF Recover, DeferBlocked, Die, Advance
  <1>4. ASSUME NEW e \in Drains, NEW locked \in SUBSET Writes, Claim(e, locked)
        PROVE  pc'[d] = "calling" /\ batch'[d] = batch[d]
    BY <1>4 DEF Claim
  <1>5. ASSUME NEW e \in Drains, NEW p \in BOOLEAN, Unresolvable(e, p)
        PROVE  pc'[d] = "calling" /\ batch'[d] = batch[d]
    BY <1>5 DEF Unresolvable, Die, Advance
  <1> QED
    BY <1>1, <1>2, <1>3, <1>4, <1>5
       DEF Beside, vars, Enqueue, Insert, AdminRetry, WaitOver, Age

\* So does the end of another drain's call.
LEMMA EndKeepsCalls ==
  ASSUME TypeInv, NEW e \in Drains, Breaks(e) \/ Confirm(e), NEW d \in Drains, d # e
  PROVE  pc'[d] = pc[d] /\ batch'[d] = batch[d]
  BY DEF Breaks, TypeInv, TypeOK, HandlerFails, HandlerOutOfQuota, Crash, Confirm, Die, Advance

\* The write of a call is a row.
LEMMA BusyExists ==
  ASSUME TypeInv, NEW d \in Drains, NEW w \in Writes, Busy(d, w)
  PROVE  w \in Rows /\ slot[w] \in Slots /\ desired[w] \in Desired
  BY DEF Busy, IsFirst, TypeInv, TypeOK, HeldExist

\* It is in flight, and of an event its drain takes.
LEMMA BusyRow ==
  ASSUME QueueInv, NEW d \in Drains, NEW w \in Writes, Busy(d, w)
  PROVE  /\ w \in Rows /\ w \in batch[d]
         /\ slot[w] \in Slots /\ desired[w] \in Desired
         /\ state[w] = "in_flight" /\ Event(w) \in Scope[d]
  BY DEF QueueInv, Busy, IsFirst, TypeInv, TypeOK, HeldExist, HeldInv, Held

\* One video has one call at a time, for one write.
LEMMA OneCall ==
  ASSUME OneDrainPerEvent, QueueInv,
         NEW d \in Drains, NEW w \in Writes, Busy(d, w),
         NEW e \in Drains, NEW v \in Writes, Busy(e, v), slot[v] = slot[w]
  PROVE  d = e /\ v = w
  <1>1. d = e
    BY BusyRow DEF OneDrainPerEvent, Event
  <1> QED
    BY <1>1, WritesAreNat DEF Busy, IsFirst

(***************************************************************************)
(* Slots that wait for nothing.                                             *)
(***************************************************************************)

AllDone(s) ==
    \A v \in RowsOf(s) : state[v] \in {"confirmed", "superseded"} /\ v \notin recovered

\* What an enqueue does to the table.
LEMMA EnqueueRows ==
  ASSUME TypeInv, NEW s \in Slots, NEW want \in Desired, NEW later, Enqueue(s, want, later)
  PROVE  \E w \in Writes :
           /\ w \notin Rows /\ Rows' = Rows \cup {w}
           /\ state'[w] = "pending" /\ slot'[w] = s /\ desired'[w] = want
           /\ \A v \in Rows : /\ slot'[v] = slot[v] /\ desired'[v] = desired[v]
                              /\ slot[v] # s => state'[v] = state[v]
                              /\ state'[v] = "confirmed" => state[v] = "confirmed"
  <1>1. PICK w \in Writes : Enqueue(s, want, later)!(w)
    BY DEF Enqueue
  <1>2. /\ state[w] = "absent" /\ state'[w] = "pending" /\ slot'[w] = s /\ desired'[w] = want
        /\ \A v \in Writes \ {w} : /\ slot'[v] = slot[v] /\ desired'[v] = desired[v]
                                   /\ state'[v] = IF v \in PendingFor(s) THEN "superseded" ELSE state[v]
    BY <1>1 DEF Insert, TypeInv, TypeOK
  <1>3. w \notin Rows /\ Rows' = Rows \cup {w}
    BY <1>2 DEF Rows, PendingFor
  <1> QED
    BY <1>2, <1>3 DEF Rows, PendingFor

\* Nothing but the end of a call confirms.
LEMMA BreaksConfirmNothing ==
  ASSUME TypeInv, Beside \/ \E d \in Drains : Breaks(d), NEW w \in Writes, state'[w] = "confirmed"
  PROVE  state[w] = "confirmed"
  <1> USE DEF TypeInv, TypeOK, table, local, history
  <1>1. ASSUME NEW v \in Writes, NEW st \in {"pending", "failed"}, NEW b, Save(v, st, b)
        PROVE  state[w] = "confirmed"
    BY <1>1 DEF Save
  <1>2. ASSUME NEW d \in Drains, NEW v \in Writes, NEW p \in BOOLEAN, MarkFailed(d, v, p) \/ Defer(v)
        PROVE  state[w] = "confirmed"
    BY <1>1, <1>2 DEF MarkFailed, Defer
  <1>3. CASE UNCHANGED table
    BY <1>3
  <1>4. ASSUME NEW s \in Slots, NEW want \in Desired, Enqueue(s, want, FALSE)
        PROVE  state[w] = "confirmed"
    BY <1>4 DEF Enqueue, Insert
  <1>5. ASSUME NEW d \in Drains, NEW locked \in SUBSET Writes, Claim(d, locked)
        PROVE  state[w] = "confirmed"
    BY <1>5 DEF Claim
  <1>6. ASSUME NEW selection \in SUBSET Writes, AdminRetry(selection)
        PROVE  state[w] = "confirmed"
    BY <1>6 DEF AdminRetry
  <1>7. ASSUME NEW v \in Writes, WaitOver(v) \/ Age(v)
        PROVE  state[w] = "confirmed"
    BY <1>7 DEF WaitOver, Age
  <1>8. ASSUME NEW d \in Drains, Recover(d) \/ DeferBlocked(d) \/ HandlerOutOfQuota(d)
        PROVE  state[w] = "confirmed"
    BY <1>2, <1>3, <1>8 DEF Recover, DeferBlocked, HandlerOutOfQuota
  <1>9. ASSUME NEW d \in Drains, NEW p \in BOOLEAN, Unresolvable(d, p) \/ HandlerFails(d, p)
        PROVE  state[w] = "confirmed"
    BY <1>2, <1>3, <1>9 DEF Unresolvable, HandlerFails
  <1>10. ASSUME NEW d \in Drains, StartDrain(d) \/ CallHandler(d) \/ Finish(d) \/ Crash(d)
         PROVE  state[w] = "confirmed"
    BY <1>3, <1>10 DEF StartDrain, CallHandler, Finish, Crash
  <1>11. CASE UNCHANGED vars
    BY <1>3, <1>11 DEF vars
  <1> QED
    BY <1>4, <1>5, <1>6, <1>7, <1>8, <1>9, <1>10, <1>11 DEF Beside, Breaks

\* A step that confirms nothing is an enqueue, or creates and supersedes nothing.
LEMMA BreaksAreQuiet ==
  ASSUME TypeInv, Beside \/ \E d \in Drains : Breaks(d)
  PROVE  \/ Quiet
         \/ \E s \in Slots, want \in Desired : Enqueue(s, want, FALSE)
  BY OtherStepsAreQuiet DEF Beside, Breaks, DrainStep, vars, table, Quiet

\* A write that is not settled, or failed, stays so, or a fresher one that waits
\* takes its place.
LEMMA UnfulfilledStays ==
  ASSUME TypeInv, TypeInv', Beside \/ \E d \in Drains : Breaks(d),
         NEW s \in Slots, Unfulfilled(s)
  PROVE  Unfulfilled(s)'
  <1>1. PICK w \in Rows : slot[w] = s /\ (Open(w) \/ state[w] = "failed")
    BY DEF Unfulfilled, RowsOf
  <1>2. w \in Writes
    BY DEF Rows
  <1>3. CASE Quiet
    <2>1. state'[w] \in States \ {"absent", "confirmed", "superseded"}
      BY <1>1, <1>2, <1>3, BreaksConfirmNothing DEF Quiet, Open, TypeInv, TypeOK, Rows
    <2>2. w \in RowsOf(s)'
      BY <1>1, <1>2, <1>3, <2>1 DEF Quiet, RowsOf, Rows
    <2> QED
      BY <2>1, <2>2 DEF Unfulfilled, Open, States
  <1>4. ASSUME NEW t \in Slots, NEW want \in Desired, Enqueue(t, want, FALSE)
        PROVE  Unfulfilled(s)'
    <2>1. PICK v \in Writes :
           /\ Rows' = Rows \cup {v}
           /\ state'[v] = "pending" /\ slot'[v] = t
           /\ \A u \in Rows : slot'[u] = slot[u] /\ (slot[u] # t => state'[u] = state[u])
      BY <1>4, EnqueueRows
    <2>2. CASE t = s
      BY <2>1, <2>2 DEF Unfulfilled, RowsOf, Open
    <2>3. CASE t # s
      BY <1>1, <2>1, <2>3 DEF Unfulfilled, RowsOf, Open
    <2> QED
      BY <2>2, <2>3
  <1> QED
    BY <1>3, <1>4, BreaksAreQuiet

\* A slot that waits for nothing after such a step waited for nothing before it.
LEMMA AllWasDone ==
  ASSUME TypeInv, Beside \/ \E d \in Drains : Breaks(d),
         NEW s \in Slots, AllDone(s)'
  PROVE  AllDone(s) /\ RowsOf(s)' = RowsOf(s)
  <1>1. [Next]_vars
    BY StepsOfQueue
  <1>2. \A w \in Rows : recovered \subseteq recovered'
    BY <1>1, RowsStay
  <1>3. CASE Quiet
    <2>1. RowsOf(s)' = RowsOf(s)
      BY <1>3 DEF Quiet, RowsOf, Rows
    <2>2. ASSUME NEW v \in RowsOf(s)
          PROVE  state[v] \in {"confirmed", "superseded"} /\ v \notin recovered
      <3>1. v \in Rows /\ v \in Writes /\ state'[v] \in {"confirmed", "superseded"} /\ v \notin recovered'
        BY <2>1, <2>2 DEF AllDone, RowsOf, Rows
      <3> QED
        BY <1>2, <1>3, <3>1, BreaksConfirmNothing DEF Quiet
    <2> QED
      BY <2>1, <2>2 DEF AllDone
  <1>4. ASSUME NEW t \in Slots, NEW want \in Desired, Enqueue(t, want, FALSE)
        PROVE  AllDone(s) /\ RowsOf(s)' = RowsOf(s)
    <2>1. PICK v \in Writes :
           /\ Rows' = Rows \cup {v}
           /\ state'[v] = "pending" /\ slot'[v] = t
           /\ \A u \in Rows : slot'[u] = slot[u] /\ (slot[u] # t => state'[u] = state[u])
      BY <1>4, EnqueueRows
    <2>2. t # s
      BY <2>1 DEF AllDone, RowsOf
    <2>3. RowsOf(s)' = RowsOf(s)
      BY <2>1, <2>2 DEF RowsOf
    <2> QED
      BY <1>2, <2>1, <2>2, <2>3 DEF AllDone, RowsOf
  <1> QED
    BY <1>3, <1>4, BreaksAreQuiet

\* The newest row of a slot is known from its rows.
LEMMA NewestOf ==
  ASSUME NEW s, NEW w \in RowsOf(s)
  PROVE  Newer(w) = {v \in RowsOf(s) : v # w /\ v > w}
  BY DEF RowsOf, Newer, Siblings

\* A slot with a call under way waits for it.
LEMMA CallsAreWaitedFor ==
  ASSUME QueueInv, NEW d \in Drains, NEW w \in Writes, Busy(d, w)
  PROVE  ~AllDone(slot[w]) /\ Unfulfilled(slot[w])
  BY BusyRow DEF AllDone, Unfulfilled, RowsOf, Open

\* What a confirmation does to the table.
LEMMA ConfirmRows ==
  ASSUME QueueInv, NEW d \in Drains, NEW w \in Writes, Busy(d, w), Confirm(d)
  PROVE  /\ Rows' = Rows /\ slot' = slot /\ desired' = desired /\ recovered' = recovered
         /\ state'[w] = "confirmed"
         /\ \A v \in Writes \ {w} : state'[v] = state[v]
  <1>1. PICK x \in Writes : IsFirst(x, batch[d]) /\ MarkConfirmed(x) /\ UNCHANGED history
    BY DEF Confirm
  <1>2. x = w
    BY <1>1, WritesAreNat DEF Busy, IsFirst
  <1>3. w \in Rows
    BY BusyRow
  <1> QED
    BY <1>1, <1>2, <1>3 DEF MarkConfirmed, Save, history, Rows, QueueInv, TypeInv, TypeOK

\* When a call's confirmation leaves its video waiting for nothing, its write was
\* the newest: a fresher one would be pending still.
LEMMA LastIsNewest ==
  ASSUME QueueInv, NEW d \in Drains, NEW w \in Writes, Busy(d, w), Confirm(d),
         AllDone(slot[w])', NEW x \in RowsOf(slot[w]), Newer(x) = {}
  PROVE  x = w
  <1> SUFFICES ASSUME x # w PROVE FALSE
    OBVIOUS
  <1>1. /\ w \in RowsOf(slot[w]) /\ w \in batch[d] /\ x \in Writes /\ w \in Nat /\ x \in Nat
    BY BusyRow, WritesAreNat DEF RowsOf, Rows
  <1>2. x \in Newer(w)
    BY <1>1, NewestOf
  <1>3. w \notin recovered
    BY <1>1, ConfirmRows DEF AllDone, RowsOf
  <1>4. state[x] \in {"pending", "superseded"}
    BY <1>1, <1>2, <1>3 DEF QueueInv, OrderInv, InOrderUnlessRecovered
  <1>5. state[x] \in {"confirmed", "superseded"}
    BY <1>1, ConfirmRows DEF AllDone, RowsOf
  <1> QED
    BY <1>1, <1>4, <1>5 DEF QueueInv, SupersededInv, SupersededHasSuccessor

\* With the rows of a slot, what is newer than one of them stays.
LEMMA NewerStays ==
  ASSUME NEW s, NEW w \in RowsOf(s), RowsOf(s)' = RowsOf(s)
  PROVE  Newer(w)' = Newer(w)
  BY DEF RowsOf, Newer, Siblings

(***************************************************************************)
(* Publishing and retracting.                                               *)
(***************************************************************************)

\* What a handler may rely on: that the guard passed, unless the video changed
\* since; that the provider has what it read back; that the row is saved.
PrivacyKnown(d, w) ==
    /\ step[d] = "loaded" /\ w \notin overtaken => PrivacyAllowed(w)
    /\ step[d] \in {"observed", "saved"} => provider[slot[w]] = desired[w]
    /\ step[d] = "saved" => privacyStatus[slot[w]] = desired[w]

PrivacyKnowledge == \A d \in Drains, w \in Writes : Busy(d, w) => PrivacyKnown(d, w)

PubInv == QueueInv /\ PubTypeOK /\ PrivacyKnowledge

\* A call that ends without a confirmation, and may still take effect.
PrivacyBreaks(d) ==
    /\ Breaks(d)
    /\ step' = [step EXCEPT ![d] = "none"]
    /\ (step[d] = "loaded" /\ Applies(d)) \/ UNCHANGED provider
    /\ UNCHANGED <<standing, privacyStatus, overtaken>>

\* The steps of Publication, as far as videos and handlers are concerned.
LEMMA PubSteps ==
  ASSUME [PubNext]_pubVars
  PROVE  \/ Beside /\ UNCHANGED <<handling, videos>>
         \/ \E s \in Slots, to \in StandingMoves : ChangeStanding(s, to)
         \/ \E d \in Drains :
               \/ LoadForPrivacy(d) \/ SetPrivacy(d) \/ ReadBack(d) \/ SaveVideo(d)
               \/ SetPrivacyReturns(d) \/ PrivacyBreaks(d)
  <1>1. ASSUME NEW s \in Slots, RequestPublication(s)
        PROVE  Beside /\ UNCHANGED <<handling, videos>>
    BY <1>1, PublicationAssumption DEF RequestPublication, Beside
  <1>2. ASSUME NEW s \in Slots, NEW want \in Desired, RequestRetraction(s, want)
        PROVE  Beside /\ UNCHANGED <<handling, videos>>
    BY <1>2 DEF RequestRetraction, Beside
  <1>3. ASSUME NEW d \in Drains, QueueStep(d), UNCHANGED videos
        PROVE  Beside /\ UNCHANGED <<handling, videos>>
    BY <1>3 DEF QueueStep, Beside
  <1>4. CASE Meanwhile /\ UNCHANGED videos
    BY <1>4 DEF Meanwhile, Beside
  <1>5. CASE UNCHANGED pubVars
    BY <1>5 DEF pubVars, Beside
  <1>6. ASSUME NEW d \in Drains,
               \/ SetPrivacyRejects(d) \/ SetPrivacyRaises(d)
               \/ SetPrivacyOutOfQuota(d) \/ SetPrivacyCrashes(d)
        PROVE  PrivacyBreaks(d)
    <2>1. CASE SetPrivacyRejects(d)
      BY <2>1 DEF SetPrivacyRejects, PrivacyBreaks, Breaks, Step
    <2>2. CASE SetPrivacyRaises(d)
      BY <2>2 DEF SetPrivacyRaises, PrivacyBreaks, Breaks, Step
    <2>3. CASE SetPrivacyOutOfQuota(d)
      BY <2>3 DEF SetPrivacyOutOfQuota, PrivacyBreaks, Breaks, Step
    <2>4. CASE SetPrivacyCrashes(d)
      BY <2>4 DEF SetPrivacyCrashes, PrivacyBreaks, Breaks
    <2> QED
      BY <1>6, <2>1, <2>2, <2>3, <2>4
  <1> QED
    BY <1>1, <1>2, <1>3, <1>4, <1>5, <1>6 DEF PubNext, PubDrainStep

\* Every step of Publication is one of the queue, or leaves it alone.
LEMMA PubImplementsQueue == [PubNext]_pubVars => [Next]_vars
  BY PubSteps, StepsOfQueue
     DEF ChangeStanding, Overtake, LoadForPrivacy, Loading, SetPrivacy, ReadBack, SaveVideo,
         SetPrivacyReturns, PrivacyBreaks

\* What the provider applies is a privacy, of the video of the call.
LEMMA AppliesToCall ==
  ASSUME TypeInv, PubTypeOK, NEW d \in Drains, Applies(d)
  PROVE  /\ provider' \in [Slots -> Privacy]
         /\ \A s \in Slots : provider'[s] # provider[s] =>
               \E w \in Writes : Busy(d, w) /\ slot[w] = s /\ provider'[s] = desired[w]
  <1>1. PICK w \in Writes : Busy(d, w) /\ provider' = [provider EXCEPT ![slot[w]] = desired[w]]
    BY DEF Applies
  <1>2. slot[w] \in Slots /\ desired[w] \in Privacy
    BY <1>1, BusyExists, PublicationAssumption
  <1> QED
    BY <1>1, <1>2 DEF PubTypeOK

\* Videos and handlers keep their types, and no handler outlives its call.
LEMMA PubTypes ==
  ASSUME TypeInv, PubTypeOK, [PubNext]_pubVars
  PROVE  PubTypeOK'
  <1> USE DEF PubTypeOK
  <1>1. [Next]_vars
    BY PubImplementsQueue
  <1>2. overtaken \subseteq Rows'
    BY <1>1, RowsStay
  <1>3. CASE Beside /\ UNCHANGED <<handling, videos>>
    <2>1. \A d \in Drains : step[d] # "none" => pc'[d] = "calling"
      BY <1>1, <1>3, BesideKeepsCalls
    <2> QED
      BY <1>2, <1>3, <2>1 DEF handling, videos
  <1>4. ASSUME NEW s \in Slots, NEW to \in StandingMoves, ChangeStanding(s, to)
        PROVE  PubTypeOK'
    BY <1>4, PublicationAssumption DEF ChangeStanding, Overtake, vars, table, local, Rows, RowsOf
  <1>5. ASSUME NEW d \in Drains, LoadForPrivacy(d) \/ ReadBack(d)
        PROVE  PubTypeOK'
    BY <1>5 DEF LoadForPrivacy, Loading, ReadBack, Busy, Step, videos, vars, table, local, Rows
  <1>6. ASSUME NEW d \in Drains, SetPrivacy(d)
        PROVE  PubTypeOK'
    BY <1>6, AppliesToCall DEF SetPrivacy, Step, vars, table, local, Rows
  <1>7. ASSUME NEW d \in Drains, SaveVideo(d)
        PROVE  PubTypeOK'
    <2>1. PICK w \in Writes : /\ Busy(d, w)
                              /\ privacyStatus' = [privacyStatus EXCEPT ![slot[w]] = desired[w]]
      BY <1>7 DEF SaveVideo
    <2>2. slot[w] \in Slots /\ desired[w] \in Privacy
      BY <2>1, BusyExists, PublicationAssumption
    <2>3. privacyStatus' \in [Slots -> Privacy]
      BY <2>1, <2>2
    <2> QED
      BY <1>7, <2>3 DEF SaveVideo, Step, vars, table, local, Rows
  <1>8. ASSUME NEW d \in Drains, Breaks(d) \/ Confirm(d), step' = [step EXCEPT ![d] = "none"],
               provider' \in [Slots -> Privacy], UNCHANGED <<standing, privacyStatus, overtaken>>
        PROVE  PubTypeOK'
    <2>1. \A e \in Drains : step'[e] # "none" => pc'[e] = "calling"
      BY <1>1, <1>8, EndKeepsCalls
    <2> QED
      BY <1>2, <1>8, <2>1
  <1>9. ASSUME NEW d \in Drains, SetPrivacyReturns(d)
        PROVE  PubTypeOK'
    BY <1>8, <1>9 DEF SetPrivacyReturns, Step
  <1>10. ASSUME NEW d \in Drains, PrivacyBreaks(d)
         PROVE  PubTypeOK'
    BY <1>8, <1>10, AppliesToCall DEF PrivacyBreaks
  <1> QED
    BY <1>3, <1>4, <1>5, <1>6, <1>7, <1>9, <1>10, PubSteps

\* The step of one drain's handler leaves the others what they know: their
\* videos are others.
LEMMA OthersKnow ==
  ASSUME OneDrainPerEvent, PubInv, [Next]_vars,
         NEW d \in Drains, NEW e \in Drains, e # d,
         pc'[e] = pc[e], batch'[e] = batch[e], step'[e] = step[e],
         standing' = standing,
         \A w \in overtaken \ overtaken' : Busy(d, w),
         \A s \in Slots : (\A w \in Writes : Busy(d, w) => slot[w] # s) =>
             provider'[s] = provider[s] /\ privacyStatus'[s] = privacyStatus[s],
         NEW v \in Writes, Busy(e, v)'
  PROVE  PrivacyKnown(e, v)'
  <1>1. Busy(e, v) /\ QueueInv /\ TypeInv
    BY DEF Busy, PubInv, QueueInv
  <1>2. v \in Rows /\ slot[v] \in Slots
    BY <1>1, BusyRow
  <1>3. slot'[v] = slot[v] /\ desired'[v] = desired[v]
    BY <1>1, <1>2, RowsStay
  <1>4. \A w \in Writes : Busy(d, w) => slot[w] # slot[v]
    BY <1>1, OneCall
  <1>5. v \in overtaken => v \in overtaken'
    BY <1>4
  <1>6. provider'[slot[v]] = provider[slot[v]] /\ privacyStatus'[slot[v]] = privacyStatus[slot[v]]
    BY <1>2, <1>4
  <1>7. PrivacyKnown(e, v)
    BY <1>1 DEF PubInv, PrivacyKnowledge
  <1> QED
    BY <1>3, <1>5, <1>6, <1>7 DEF PrivacyKnown, PrivacyAllowed

\* What the handlers know stays true.
LEMMA PubKnows ==
  ASSUME OneDrainPerEvent, PubInv, [PubNext]_pubVars
  PROVE  PrivacyKnowledge'
  <1> SUFFICES ASSUME NEW e \in Drains, NEW v \in Writes, Busy(e, v)'
               PROVE  PrivacyKnown(e, v)'
    BY DEF PrivacyKnowledge
  <1>1. [Next]_vars /\ QueueInv /\ TypeInv /\ PubTypeOK /\ PrivacyKnowledge
    BY PubImplementsQueue DEF PubInv, QueueInv
  <1>2. Busy(e, v) => /\ v \in Rows /\ slot[v] \in Slots
                      /\ slot'[v] = slot[v] /\ desired'[v] = desired[v]
                      /\ PrivacyKnown(e, v)
    BY <1>1, BusyRow, RowsStay DEF PrivacyKnowledge
  <1>3. CASE Beside /\ UNCHANGED <<handling, videos>>
    <2>1. CASE pc[e] = "calling"
      <3>1. Busy(e, v)
        BY <1>1, <1>3, <2>1, BesideKeepsCalls DEF Busy
      <3> QED
        BY <1>2, <1>3, <3>1 DEF handling, videos, PrivacyKnown, PrivacyAllowed
    <2>2. CASE pc[e] # "calling"
      BY <1>1, <1>3, <2>2 DEF handling, PubTypeOK, PrivacyKnown
    <2> QED
      BY <2>1, <2>2
  <1>4. ASSUME NEW s \in Slots, NEW to \in StandingMoves, ChangeStanding(s, to)
        PROVE  PrivacyKnown(e, v)'
    <2>1. /\ UNCHANGED <<slot, desired, pc, batch, step, provider, privacyStatus>>
          /\ \A t \in Slots : t # s => standing'[t] = standing[t]
          /\ \A w \in RowsOf(s) : Busy(e, w) /\ step[e] = "loaded" => w \in overtaken'
          /\ overtaken \subseteq overtaken'
      BY <1>1, <1>4 DEF ChangeStanding, Overtake, vars, table, local, PubTypeOK
    <2>2. Busy(e, v)
      BY <2>1 DEF Busy
    <2>3. slot[v] = s /\ step[e] = "loaded" => v \in overtaken'
      BY <1>2, <2>1, <2>2 DEF RowsOf
    <2> QED
      BY <1>2, <2>1, <2>2, <2>3 DEF PrivacyKnown, PrivacyAllowed
  <1>5. ASSUME NEW d \in Drains, LoadForPrivacy(d)
        PROVE  PrivacyKnown(e, v)'
    <2>1. PICK w \in Writes : Loading(d, w) /\ PrivacyAllowed(w) /\ UNCHANGED videos
      BY <1>5 DEF LoadForPrivacy
    <2>2. /\ Busy(d, w) /\ UNCHANGED <<slot, desired, pc, batch, standing, provider, privacyStatus>>
          /\ step' = [step EXCEPT ![d] = "loaded"] /\ overtaken' = overtaken \ {w}
      BY <2>1 DEF Loading, Step, videos, vars, table, local
    <2>3. CASE e = d
      <3>1. Busy(e, v)
        BY <2>2 DEF Busy
      <3>2. v = w
        BY <2>2, <2>3, <3>1, WritesAreNat DEF Busy, IsFirst
      <3> QED
        BY <1>1, <2>1, <2>2, <2>3, <3>2 DEF PrivacyKnown, PrivacyAllowed, PubTypeOK
    <2>4. CASE e # d
      <3>1. step'[e] = step[e]
        BY <1>1, <2>2, <2>4 DEF PubTypeOK
      <3>2. \A x \in overtaken \ overtaken' : Busy(d, x)
        BY <2>2
      <3> QED
        BY <1>1, <2>2, <2>4, <3>1, <3>2, OthersKnow
    <2> QED
      BY <2>3, <2>4
  <1>6. ASSUME NEW d \in Drains, SetPrivacy(d)
        PROVE  PrivacyKnown(e, v)'
    <2>1. /\ UNCHANGED <<pc, batch, standing, privacyStatus, overtaken>>
          /\ step' = [step EXCEPT ![d] = "written"]
      BY <1>6 DEF SetPrivacy, Step, vars, local
    <2>2. CASE e = d
      BY <1>1, <2>1, <2>2 DEF PrivacyKnown, PubTypeOK
    <2>3. CASE e # d
      <3>1. \A s \in Slots : (\A w \in Writes : Busy(d, w) => slot[w] # s) => provider'[s] = provider[s]
        BY <1>1, <1>6, AppliesToCall DEF SetPrivacy
      <3>2. step'[e] = step[e]
        BY <1>1, <2>1, <2>3 DEF PubTypeOK
      <3> QED
        BY <1>1, <2>1, <2>3, <3>1, <3>2, OthersKnow
    <2> QED
      BY <2>2, <2>3
  <1>7. ASSUME NEW d \in Drains, ReadBack(d)
        PROVE  PrivacyKnown(e, v)'
    <2>1. PICK w \in Writes : Busy(d, w) /\ provider[slot[w]] = desired[w]
      BY <1>7 DEF ReadBack
    <2>2. /\ UNCHANGED <<slot, desired, pc, batch, standing, provider, privacyStatus, overtaken>>
          /\ step' = [step EXCEPT ![d] = "observed"]
      BY <1>7 DEF ReadBack, Step, vars, table, local
    <2>3. CASE e = d
      <3>1. Busy(e, v)
        BY <2>2 DEF Busy
      <3>2. v = w
        BY <2>1, <2>3, <3>1, WritesAreNat DEF Busy, IsFirst
      <3> QED
        BY <1>1, <2>1, <2>2, <2>3, <3>2 DEF PrivacyKnown, PubTypeOK
    <2>4. CASE e # d
      <3>1. step'[e] = step[e]
        BY <1>1, <2>2, <2>4 DEF PubTypeOK
      <3> QED
        BY <1>1, <2>2, <2>4, <3>1, OthersKnow
    <2> QED
      BY <2>3, <2>4
  <1>8. ASSUME NEW d \in Drains, SaveVideo(d)
        PROVE  PrivacyKnown(e, v)'
    <2>1. PICK w \in Writes : /\ Busy(d, w)
                              /\ Step(d, "observed", "saved")
                              /\ privacyStatus' = [privacyStatus EXCEPT ![slot[w]] = desired[w]]
      BY <1>8 DEF SaveVideo
    <2>2. /\ UNCHANGED <<slot, desired, pc, batch, standing, provider, overtaken>>
          /\ step[d] = "observed" /\ step' = [step EXCEPT ![d] = "saved"]
      BY <1>8 DEF SaveVideo, Step, vars, table, local
    <2>3. CASE e = d
      <3>1. Busy(e, v)
        BY <2>2 DEF Busy
      <3>2. v = w
        BY <2>1, <2>3, <3>1, WritesAreNat DEF Busy, IsFirst
      <3>3. slot[v] \in Slots /\ provider[slot[v]] = desired[v]
        BY <1>2, <2>2, <2>3, <3>1 DEF PrivacyKnown
      <3> QED
        BY <1>1, <2>1, <2>2, <2>3, <3>2, <3>3 DEF PrivacyKnown, PubTypeOK
    <2>4. CASE e # d
      <3>1. step'[e] = step[e]
        BY <1>1, <2>2, <2>4 DEF PubTypeOK
      <3>2. slot[w] \in Slots /\ \A s \in Slots : s # slot[w] => privacyStatus'[s] = privacyStatus[s]
        BY <1>1, <2>1, BusyRow DEF PubTypeOK
      <3> QED
        BY <1>1, <2>1, <2>2, <2>4, <3>1, <3>2, OthersKnow
    <2> QED
      BY <2>3, <2>4
  <1>9. ASSUME NEW d \in Drains, Breaks(d) \/ Confirm(d), step' = [step EXCEPT ![d] = "none"],
               UNCHANGED <<standing, privacyStatus, overtaken>>,
               \A s \in Slots : (\A w \in Writes : Busy(d, w) => slot[w] # s) => provider'[s] = provider[s]
        PROVE  PrivacyKnown(e, v)'
    <2>1. CASE e = d
      BY <1>1, <1>9, <2>1 DEF PrivacyKnown, PubTypeOK
    <2>2. CASE e # d
      <3>1. pc'[e] = pc[e] /\ batch'[e] = batch[e]
        BY <1>1, <1>9, <2>2, EndKeepsCalls
      <3>2. step'[e] = step[e]
        BY <1>1, <1>9, <2>2 DEF PubTypeOK
      <3> QED
        BY <1>1, <1>9, <2>2, <3>1, <3>2, OthersKnow
    <2> QED
      BY <2>1, <2>2
  <1>10. ASSUME NEW d \in Drains, SetPrivacyReturns(d)
         PROVE  PrivacyKnown(e, v)'
    BY <1>9, <1>10 DEF SetPrivacyReturns, Step
  <1>11. ASSUME NEW d \in Drains, PrivacyBreaks(d)
         PROVE  PrivacyKnown(e, v)'
    <2>1. \A s \in Slots : (\A w \in Writes : Busy(d, w) => slot[w] # s) => provider'[s] = provider[s]
      BY <1>1, <1>11, AppliesToCall DEF PrivacyBreaks
    <2> QED
      BY <1>9, <1>11, <2>1 DEF PrivacyBreaks
  <1> QED
    BY <1>3, <1>4, <1>5, <1>6, <1>7, <1>8, <1>10, <1>11, PubSteps

LEMMA PubStarts == PubInit => PubInv
  BY QueueInit DEF PubInit, HandlersInit, PubInv, PubTypeOK, PrivacyKnowledge, Busy, Init,
     Standings, Privacy, QueueInv, TypeInv

LEMMA PubStays ==
  ASSUME OneDrainPerEvent, PromptDrains, PubInv, [PubNext]_pubVars
  PROVE  PubInv'
  BY PubImplementsQueue, QueueStays, PubTypes, PubKnows DEF PubInv, QueueInv

(***************************************************************************)
(* The theorems about Publication.                                          *)
(***************************************************************************)

\* The handler unfolded step by step is still the queue of Outbox: an execution
\* of Publication, seen without its videos, is one of Spec, so every theorem
\* about the queue holds of it.
THEOREM PublicationIsTheQueue == PubSpec => Spec
  <1>1. PubInit => Init
    BY DEF PubInit, HandlersInit
  <1> QED
    BY <1>1, PubImplementsQueue, PTL DEF PubSpec, Spec

\* Videos and handlers keep their types, and no handler of set_privacy is at work
\* outside a call of its drain, whoever drains and however slowly.
THEOREM PublicationTypes == PubSpec => []PubTypeOK
  <1>1. PubInit => TypeInv /\ PubTypeOK
    BY PubStarts DEF PubInv, QueueInv
  <1>2. TypeInv /\ PubTypeOK /\ [PubNext]_pubVars => (TypeInv /\ PubTypeOK)'
    BY PubImplementsQueue, NextType, PubTypes
  <1> QED
    BY <1>1, <1>2, PTL DEF PubSpec

\* Only a saving handler changes the Video row, to what it read back.
LEMMA SavedIsObserved ==
  ASSUME PubInv, [PubNext]_pubVars, NEW s \in Slots, privacyStatus'[s] # privacyStatus[s]
  PROVE  privacyStatus'[s] = provider[s]
  <1>1. PICK d \in Drains : SaveVideo(d)
    BY PubSteps DEF videos, ChangeStanding, LoadForPrivacy, SetPrivacy, ReadBack,
       SetPrivacyReturns, PrivacyBreaks
  <1>2. PICK w \in Writes : /\ Busy(d, w) /\ step[d] = "observed"
                            /\ privacyStatus' = [privacyStatus EXCEPT ![slot[w]] = desired[w]]
    BY <1>1 DEF SaveVideo, Step
  <1>3. s = slot[w] /\ privacyStatus'[s] = desired[w]
    BY <1>2 DEF PubInv, PubTypeOK
  <1> QED
    BY <1>2, <1>3 DEF PubInv, PrivacyKnowledge, PrivacyKnown

\* With one prompt drain per event, the Video row only ever moves to what the
\* provider has at that moment, however late the handler saves it.
THEOREM LocalStateIsConfirmedState ==
  ASSUME OneDrainPerEvent, PromptDrains
  PROVE  PubSpec => LocalFollowsProvider
  <1>1. PubInv /\ [PubNext]_pubVars =>
          [\A s \in Slots :
              privacyStatus'[s] # privacyStatus[s] => privacyStatus'[s] = provider[s]]_pubVars
    BY SavedIsObserved
  <1>2. PubInv /\ [PubNext]_pubVars => PubInv'
    BY PubStays
  <1> QED
    BY <1>1, <1>2, PubStarts, PTL DEF PubSpec, LocalFollowsProvider

\* The provider changes by the call of a handler that has the row in memory.
LEMMA ProviderSteps ==
  ASSUME TypeInv, PubTypeOK, [PubNext]_pubVars, NEW s \in Slots, provider'[s] # provider[s]
  PROVE  \E d \in Drains, w \in Writes :
            Busy(d, w) /\ step[d] = "loaded" /\ slot[w] = s /\ provider'[s] = desired[w]
  <1>1. PICK d \in Drains : step[d] = "loaded" /\ Applies(d)
    BY PubSteps DEF videos, ChangeStanding, LoadForPrivacy, SetPrivacy, ReadBack, SaveVideo,
       SetPrivacyReturns, PrivacyBreaks, Step
  <1> QED
    BY <1>1, AppliesToCall

\* With one prompt drain per event, a video that lost its eligibility while the
\* write waited is not made public, unless it lost it after the handler read
\* the row.
THEOREM EligibilityIsChecked ==
  ASSUME OneDrainPerEvent, PromptDrains
  PROVE  PubSpec => PublishesEligibleUnlessOvertaken
  <1> DEFINE Checked(s) ==
          \/ standing[s] = "eligible"
          \/ \E w \in RowsOf(s) \cap overtaken, d \in Drains : Busy(d, w) /\ step[d] = "loaded"
  <1>1. ASSUME PubInv, [PubNext]_pubVars, NEW s \in Slots, BecomesPublic(s)
        PROVE  Checked(s)
    <2>1. PICK d \in Drains, w \in Writes :
             Busy(d, w) /\ step[d] = "loaded" /\ slot[w] = s /\ desired[w] = "public"
      BY <1>1, ProviderSteps DEF BecomesPublic, PubInv, QueueInv
    <2>2. w \in RowsOf(s)
      BY <1>1, <2>1, BusyExists DEF PubInv, QueueInv, RowsOf
    <2>3. w \in overtaken \/ PrivacyAllowed(w)
      BY <1>1, <2>1 DEF PubInv, PrivacyKnowledge, PrivacyKnown
    <2> QED
      BY <2>1, <2>2, <2>3 DEF PrivacyAllowed, Retractions
  <1>2. PubInv /\ [PubNext]_pubVars => [\A s \in Slots : BecomesPublic(s) => Checked(s)]_pubVars
    BY <1>1
  <1>3. PubInv /\ [PubNext]_pubVars => PubInv'
    BY PubStays
  <1> QED
    BY <1>2, <1>3, PubStarts, PTL DEF PubSpec, PublishesEligibleUnlessOvertaken

Diverges(s) == provider[s] # privacyStatus[s]

\* A divergence that appears belongs to a call under way, one that was there
\* keeps its write, and a confirmation leaves none behind.
LEMMA NextDivergence ==
  ASSUME PubInv, PubInv', DivergenceIsVisible, [PubNext]_pubVars
  PROVE  DivergenceIsVisible'
  <1> SUFFICES ASSUME NEW s \in Slots, Diverges(s)' PROVE Unfulfilled(s)'
    BY DEF DivergenceIsVisible, Diverges, Unfulfilled
  <1>1. QueueInv /\ TypeInv /\ TypeInv' /\ PubTypeOK
    BY DEF PubInv, QueueInv
  <1>2. Diverges(s) => Unfulfilled(s)
    BY DEF DivergenceIsVisible, Diverges, Unfulfilled
  <1>3. CASE UNCHANGED vars
    <2>1. Unfulfilled(s)' = Unfulfilled(s)
      BY <1>3 DEF vars, table, Unfulfilled, RowsOf, Rows, Open
    <2>2. CASE \E d \in Drains : SaveVideo(d)
      <3>1. PICK d \in Drains, w \in Writes :
               /\ Busy(d, w) /\ provider' = provider
               /\ privacyStatus' = [privacyStatus EXCEPT ![slot[w]] = desired[w]]
        BY <2>2 DEF SaveVideo
      <3>2. CASE slot[w] = s
        BY <1>1, <2>1, <3>1, <3>2, CallsAreWaitedFor
      <3>3. CASE slot[w] # s
        BY <1>1, <1>2, <2>1, <3>1, <3>3 DEF PubTypeOK, Diverges
      <3> QED
        BY <3>2, <3>3
    <2>3. CASE provider'[s] # provider[s]
      BY <1>1, <2>1, <2>3, ProviderSteps, CallsAreWaitedFor
    <2>4. CASE privacyStatus' = privacyStatus /\ provider'[s] = provider[s]
      BY <1>2, <2>1, <2>4 DEF Diverges
    <2>5. privacyStatus' = privacyStatus \/ \E d \in Drains : SaveVideo(d)
      BY PubSteps DEF videos, ChangeStanding, LoadForPrivacy, SetPrivacy, ReadBack,
         SetPrivacyReturns, PrivacyBreaks
    <2> QED
      BY <2>2, <2>3, <2>4, <2>5
  <1>4. CASE Beside /\ UNCHANGED <<handling, videos>>
    BY <1>1, <1>2, <1>4, UnfulfilledStays DEF videos, Diverges
  <1>5. ASSUME NEW d \in Drains, PrivacyBreaks(d)
        PROVE  Unfulfilled(s)'
    <2>1. Unfulfilled(s)
      <3>1. CASE provider'[s] # provider[s]
        BY <1>1, <3>1, ProviderSteps, CallsAreWaitedFor
      <3>2. CASE provider'[s] = provider[s]
        BY <1>2, <1>5, <3>2 DEF PrivacyBreaks, Diverges
      <3> QED
        BY <3>1, <3>2
    <2> QED
      BY <1>1, <1>5, <2>1, UnfulfilledStays DEF PrivacyBreaks
  <1>6. ASSUME NEW d \in Drains, SetPrivacyReturns(d)
        PROVE  Unfulfilled(s)'
    <2>1. /\ Confirm(d) /\ step[d] = "saved"
          /\ provider' = provider /\ privacyStatus' = privacyStatus
      BY <1>6 DEF SetPrivacyReturns, Step
    <2>2. PICK w \in Writes : Busy(d, w)
      BY <2>1 DEF Confirm, Busy
    <2>3. provider[slot[w]] = privacyStatus[slot[w]]
      BY <2>1, <2>2 DEF PubInv, PrivacyKnowledge, PrivacyKnown
    <2>4. slot[w] # s
      BY <2>1, <2>3 DEF Diverges
    <2>5. PICK v \in RowsOf(s) : Open(v) \/ state[v] = "failed"
      BY <1>2, <2>1 DEF Diverges, Unfulfilled
    <2>6. v \in Rows' /\ slot'[v] = s /\ state'[v] = state[v]
      BY <1>1, <2>1, <2>2, <2>4, <2>5, ConfirmRows DEF RowsOf, Rows
    <2> QED
      BY <2>5, <2>6 DEF Unfulfilled, RowsOf, Open
  <1>7. ASSUME \/ \E t \in Slots, to \in StandingMoves : ChangeStanding(t, to)
               \/ \E d \in Drains : LoadForPrivacy(d) \/ SetPrivacy(d) \/ ReadBack(d) \/ SaveVideo(d)
        PROVE  UNCHANGED vars
    BY <1>7 DEF ChangeStanding, Overtake, LoadForPrivacy, Loading, SetPrivacy, ReadBack, SaveVideo
  <1> QED
    BY <1>3, <1>4, <1>5, <1>6, <1>7, PubSteps

\* With one prompt drain per event, a Video row that disagrees with the provider
\* has a write that is still open or visibly failed.
THEOREM DivergenceHasAWrite ==
  ASSUME OneDrainPerEvent, PromptDrains
  PROVE  PubSpec => []DivergenceIsVisible
  <1>1. PubInit => DivergenceIsVisible
    BY DEF PubInit, DivergenceIsVisible
  <1>2. PubInv /\ [PubNext]_pubVars => PubInv'
    BY PubStays
  <1>3. PubInv /\ PubInv' /\ DivergenceIsVisible /\ [PubNext]_pubVars => DivergenceIsVisible'
    BY NextDivergence
  <1> QED
    BY <1>1, <1>2, <1>3, PubStarts, PTL DEF PubSpec

\* A video that waits for nothing keeps what it has; the confirmation after which
\* it does is its newest write's.
LEMMA NextNewest ==
  ASSUME PubInv, QuietMeansNewest, [PubNext]_pubVars
  PROVE  QuietMeansNewest'
  <1> DEFINE Has(s, w) == provider[s] = desired[w] /\ privacyStatus[s] = desired[w]
  <1> SUFFICES ASSUME NEW s \in Slots, NEW w \in Writes,
                      w \in RowsOf(s)', Newer(w)' = {}, AllDone(s)'
               PROVE  Has(s, w)'
    BY DEF QuietMeansNewest, AllDone
  <1>1. QueueInv /\ TypeInv /\ PubTypeOK
    BY DEF PubInv, QueueInv
  <1>2. w \in RowsOf(s) /\ Newer(w) = {} /\ AllDone(s) => Has(s, w)
    BY DEF QuietMeansNewest, AllDone
  <1>3. AllDone(s) /\ ~(\E d \in Drains : SaveVideo(d)) =>
           provider'[s] = provider[s] /\ privacyStatus'[s] = privacyStatus[s]
    <2>1. AllDone(s) => provider'[s] = provider[s]
      BY <1>1, ProviderSteps, CallsAreWaitedFor
    <2>2. privacyStatus' = privacyStatus \/ \E d \in Drains : SaveVideo(d)
      BY PubSteps DEF videos, ChangeStanding, LoadForPrivacy, SetPrivacy, ReadBack,
         SetPrivacyReturns, PrivacyBreaks
    <2> QED
      BY <2>1, <2>2
  <1>4. AllDone(s) => provider'[s] = provider[s] /\ privacyStatus'[s] = privacyStatus[s]
    <2>1. ASSUME NEW d \in Drains, SaveVideo(d), AllDone(s)
          PROVE  provider'[s] = provider[s] /\ privacyStatus'[s] = privacyStatus[s]
      <3>1. PICK x \in Writes : /\ Busy(d, x) /\ provider' = provider
                                /\ privacyStatus' = [privacyStatus EXCEPT ![slot[x]] = desired[x]]
        BY <2>1 DEF SaveVideo
      <3>2. slot[x] # s
        BY <1>1, <2>1, <3>1, CallsAreWaitedFor
      <3> QED
        BY <1>1, <3>1, <3>2 DEF PubTypeOK
    <2> QED
      BY <1>3, <2>1
  <1>5. ASSUME RowsOf(s)' = RowsOf(s), AllDone(s)
        PROVE  Has(s, w)'
    <2>1. w \in RowsOf(s) /\ Newer(w) = {}
      BY <1>5, NewerStays
    <2>2. desired'[w] = desired[w]
      BY <1>1, <2>1, PubImplementsQueue, RowsStay DEF RowsOf
    <2> QED
      BY <1>2, <1>4, <1>5, <2>1, <2>2
  <1>6. CASE UNCHANGED vars
    BY <1>5, <1>6 DEF vars, table, history, RowsOf, Rows, AllDone
  <1>7. CASE Beside \/ \E d \in Drains : Breaks(d)
    BY <1>1, <1>5, <1>7, AllWasDone
  <1>8. ASSUME NEW d \in Drains, SetPrivacyReturns(d)
        PROVE  Has(s, w)'
    <2>1. /\ Confirm(d) /\ step[d] = "saved"
          /\ provider' = provider /\ privacyStatus' = privacyStatus
      BY <1>8 DEF SetPrivacyReturns, Step
    <2>2. PICK x \in Writes : Busy(d, x)
      BY <2>1 DEF Confirm, Busy
    <2>3. /\ RowsOf(s)' = RowsOf(s)
          /\ UNCHANGED <<slot, desired, recovered>>
          /\ \A v \in Writes \ {x} : state'[v] = state[v]
      BY <1>1, <2>1, <2>2, ConfirmRows DEF RowsOf
    <2>4. w \in RowsOf(s) /\ Newer(w) = {}
      BY <2>3, NewerStays
    <2>5. CASE slot[x] = s
      <3>1. w = x
        BY <1>1, <2>1, <2>2, <2>3, <2>4, <2>5, LastIsNewest
      <3> QED
        BY <2>1, <2>2, <2>3, <2>5, <3>1 DEF PubInv, PrivacyKnowledge, PrivacyKnown
    <2>6. CASE slot[x] # s
      <3>1. AllDone(s)
        BY <2>3, <2>6 DEF AllDone, RowsOf, Rows
      <3> QED
        BY <1>5, <2>3, <3>1
    <2> QED
      BY <2>5, <2>6
  <1>9. ASSUME \/ \E t \in Slots, to \in StandingMoves : ChangeStanding(t, to)
               \/ \E d \in Drains : LoadForPrivacy(d) \/ SetPrivacy(d) \/ ReadBack(d) \/ SaveVideo(d)
        PROVE  UNCHANGED vars
    BY <1>9 DEF ChangeStanding, Overtake, LoadForPrivacy, Loading, SetPrivacy, ReadBack, SaveVideo
  <1> QED
    BY <1>6, <1>7, <1>8, <1>9, PubSteps DEF PrivacyBreaks

\* With one prompt drain per event, once every write of a video is confirmed or
\* superseded and none was put back, provider and Video row have the intent
\* asked for last.
THEOREM QuietVideosHaveTheNewestIntent ==
  ASSUME OneDrainPerEvent, PromptDrains
  PROVE  PubSpec => []QuietMeansNewest
  <1>1. PubInit => QuietMeansNewest
    BY DEF PubInit, HandlersInit, Init, QuietMeansNewest, RowsOf, Rows
  <1>2. PubInv /\ [PubNext]_pubVars => PubInv'
    BY PubStays
  <1>3. PubInv /\ QuietMeansNewest /\ [PubNext]_pubVars => QuietMeansNewest'
    BY NextNewest
  <1> QED
    BY <1>1, <1>2, <1>3, PubStarts, PTL DEF PubSpec

(***************************************************************************)
(* The promise of ConfirmedPrivacy.  An enqueue is its Ask; a call that     *)
(* takes effect, whatever becomes of it, Apply; the save of a row Record;   *)
(* and the confirmation of a video's last write Fulfil.                     *)
(***************************************************************************)

Asked(s) == {desired[w] : w \in RowsOf(s)}

PromiseStep == [Promise!Next]_(Promise!vars)

\* A settled write stays settled.
LEMMA SettledStays ==
  ASSUME QueueInv, [Next]_vars, NEW w \in Writes, state[w] \in {"confirmed", "superseded"}
  PROVE  state'[w] = state[w]
  <1>1. CASE UNCHANGED vars
    BY <1>1 DEF vars, table
  <1>2. CASE MovesOpenRows
    BY <1>2 DEF MovesOpenRows, Open
  <1>3. ASSUME NEW s \in Slots, NEW want \in Desired, NEW later \in Delays, Enqueue(s, want, later)
        PROVE  state'[w] = state[w]
    BY <1>3 DEF Enqueue, Insert, PendingFor
  <1>4. ASSUME NEW selection \in SUBSET Writes, AdminRetry(selection)
        PROVE  state'[w] = state[w]
    BY <1>4 DEF AdminRetry
  <1> QED
    BY <1>1, <1>2, <1>3, <1>4, NextSettled DEF QueueInv

\* A step that confirms nothing and creates nothing neither asks nor fulfils.
LEMMA QuietAsks ==
  ASSUME QueueInv, TypeInv', Beside \/ \E d \in Drains : Breaks(d), Quiet, NEW s \in Slots
  PROVE  Asked(s)' = Asked(s) /\ (Unfulfilled(s)' <=> Unfulfilled(s))
  <1>1. [Next]_vars /\ TypeInv
    BY StepsOfQueue DEF QueueInv
  <1>2. RowsOf(s)' = RowsOf(s)
    BY DEF Quiet, RowsOf, Rows
  <1>3. \A w \in RowsOf(s) : w \in Rows /\ w \in Writes /\ desired'[w] = desired[w]
    BY <1>1, RowsStay DEF RowsOf, Rows
  <1>4. ASSUME NEW w \in RowsOf(s), Open(w)' \/ state'[w] = "failed"
        PROVE  Open(w) \/ state[w] = "failed"
    <2>1. state[w] \notin {"confirmed", "superseded"}
      BY <1>1, <1>3, <1>4, SettledStays DEF Open
    <2> QED
      BY <1>1, <1>3, <2>1 DEF TypeInv, TypeOK, States, Rows, Open
  <1>5. Unfulfilled(s)' => Unfulfilled(s)
    BY <1>2, <1>4 DEF Unfulfilled
  <1>6. Unfulfilled(s) => Unfulfilled(s)'
    BY <1>1, UnfulfilledStays
  <1>7. Asked(s)' = Asked(s)
    BY <1>2, <1>3 DEF Asked
  <1> QED
    BY <1>5, <1>6, <1>7

\* An enqueue asks for one thing, of one video.
LEMMA EnqueueAsks ==
  ASSUME TypeInv, NEW s \in Slots, NEW want \in Desired, Enqueue(s, want, FALSE), NEW t \in Slots
  PROVE  /\ Asked(t)' = IF t = s THEN Asked(t) \cup {want} ELSE Asked(t)
         /\ Unfulfilled(t)' <=> t = s \/ Unfulfilled(t)
  <1>1. PICK w \in Writes :
           /\ w \notin Rows /\ Rows' = Rows \cup {w}
           /\ state'[w] = "pending" /\ slot'[w] = s /\ desired'[w] = want
           /\ \A v \in Rows : /\ slot'[v] = slot[v] /\ desired'[v] = desired[v]
                              /\ slot[v] # s => state'[v] = state[v]
                              /\ state'[v] = "confirmed" => state[v] = "confirmed"
    BY EnqueueRows
  <1>2. RowsOf(t)' = IF t = s THEN RowsOf(t) \cup {w} ELSE RowsOf(t)
    BY <1>1 DEF RowsOf
  <1>3. CASE t = s
    <2>1. Asked(t)' = Asked(t) \cup {want}
      BY <1>1, <1>2, <1>3 DEF Asked, RowsOf
    <2> QED
      BY <1>1, <1>2, <1>3, <2>1 DEF Unfulfilled, RowsOf, Open
  <1>4. CASE t # s
    <2>1. Asked(t)' = Asked(t)
      BY <1>1, <1>2, <1>4 DEF Asked, RowsOf
    <2>2. Unfulfilled(t)' <=> Unfulfilled(t)
      BY <1>1, <1>2, <1>4 DEF Unfulfilled, RowsOf, Open
    <2> QED
      BY <1>4, <2>1, <2>2
  <1> QED
    BY <1>3, <1>4

\* A confirmation asks for nothing, and fulfils one video at most.
LEMMA ConfirmAsks ==
  ASSUME QueueInv, NEW d \in Drains, NEW w \in Writes, Busy(d, w), Confirm(d), NEW t \in Slots
  PROVE  /\ Asked(t)' = Asked(t)
         /\ t # slot[w] => (Unfulfilled(t)' <=> Unfulfilled(t))
  <1>1. /\ Rows' = Rows /\ slot' = slot /\ desired' = desired
        /\ \A v \in Writes \ {w} : state'[v] = state[v]
    BY ConfirmRows
  <1> QED
    BY <1>1 DEF Asked, Unfulfilled, RowsOf, Rows, Open

\* A call under way was asked for, and is owed.
LEMMA CallsAreAsked ==
  ASSUME QueueInv, NEW d \in Drains, NEW w \in Writes, Busy(d, w)
  PROVE  slot[w] \in Slots /\ desired[w] \in Asked(slot[w]) /\ Unfulfilled(slot[w])
  BY BusyRow, CallsAreWaitedFor DEF Asked, RowsOf

\* The promise's variables, where the queue does not move them.
LEMMA PromiseKeeps ==
  ASSUME \A s \in Slots : Asked(s)' = Asked(s) /\ (Unfulfilled(s)' <=> Unfulfilled(s))
  PROVE  /\ [s \in Slots |-> {desired[w] : w \in RowsOf(s)}]'
              = [s \in Slots |-> {desired[w] : w \in RowsOf(s)}]
         /\ {s \in Slots : Unfulfilled(s)}' = {s \in Slots : Unfulfilled(s)}
  BY DEF Asked

\* A step in which the queue neither asks nor fulfils is the host's, the handler's
\* or none of the promise's.
LEMMA PromiseOfVideos ==
  ASSUME PubInv, [PubNext]_pubVars,
         \A s \in Slots : Asked(s)' = Asked(s) /\ (Unfulfilled(s)' <=> Unfulfilled(s))
  PROVE  PromiseStep
  <1>1. QueueInv /\ TypeInv /\ PubTypeOK
    BY DEF PubInv, QueueInv
  <1>2. CASE \E d \in Drains : SaveVideo(d)
    <2>1. PICK d \in Drains, w \in Writes :
             /\ Busy(d, w) /\ step[d] = "observed" /\ provider' = provider
             /\ privacyStatus' = [privacyStatus EXCEPT ![slot[w]] = desired[w]]
      BY <1>2 DEF SaveVideo, Step
    <2>2. slot[w] \in Slots /\ Unfulfilled(slot[w]) /\ provider[slot[w]] = desired[w]
      BY <1>1, <2>1, CallsAreAsked DEF PubInv, PrivacyKnowledge, PrivacyKnown
    <2>3. Promise!Record(slot[w])
      BY <2>1, <2>2, PromiseKeeps DEF Promise!Record
    <2> QED
      BY <2>2, <2>3 DEF PromiseStep, Promise!Next
  <1>3. CASE privacyStatus' = privacyStatus /\ provider' # provider
    <2>1. PICK d \in Drains : Applies(d)
      BY <1>3, PubSteps DEF videos, ChangeStanding, LoadForPrivacy, SetPrivacy, ReadBack, SaveVideo,
         SetPrivacyReturns, PrivacyBreaks
    <2>2. PICK w \in Writes : Busy(d, w) /\ provider' = [provider EXCEPT ![slot[w]] = desired[w]]
      BY <2>1 DEF Applies
    <2>3. slot[w] \in Slots /\ Unfulfilled(slot[w]) /\ desired[w] \in Asked(slot[w])
      BY <1>1, <2>2, CallsAreAsked
    <2>4. desired[w] \in Privacy
      BY <1>1, <2>2, BusyExists, PublicationAssumption
    <2>5. Promise!Apply(slot[w], desired[w])
      BY <1>3, <2>2, <2>3, PromiseKeeps DEF Promise!Apply, Asked
    <2> QED
      BY <2>3, <2>4, <2>5 DEF PromiseStep, Promise!Next
  <1>4. CASE privacyStatus' = privacyStatus /\ provider' = provider
    BY <1>4, PromiseKeeps DEF PromiseStep, Promise!vars
  <1>5. privacyStatus' = privacyStatus \/ \E d \in Drains : SaveVideo(d)
    BY PubSteps DEF videos, ChangeStanding, LoadForPrivacy, SetPrivacy, ReadBack,
       SetPrivacyReturns, PrivacyBreaks
  <1> QED
    BY <1>2, <1>3, <1>4, <1>5

LEMMA NextPromise ==
  ASSUME PubInv, PubInv', [PubNext]_pubVars
  PROVE  PromiseStep
  <1>1. QueueInv /\ TypeInv /\ TypeInv' /\ PubTypeOK
    BY DEF PubInv, QueueInv
  <1>2. CASE UNCHANGED vars
    BY <1>2, PromiseOfVideos DEF vars, table, Asked, Unfulfilled, RowsOf, Rows, Open
  <1>3. ASSUME NEW s \in Slots, NEW want \in Desired, Enqueue(s, want, FALSE),
               UNCHANGED <<handling, videos>>
        PROVE  PromiseStep
    <2>1. \A t \in Slots : /\ Asked(t)' = IF t = s THEN Asked(t) \cup {want} ELSE Asked(t)
                           /\ Unfulfilled(t)' <=> t = s \/ Unfulfilled(t)
      BY <1>1, <1>3, EnqueueAsks
    <2>2. [t \in Slots |-> {desired[w] : w \in RowsOf(t)}]'
             = [[t \in Slots |-> {desired[w] : w \in RowsOf(t)}] EXCEPT ![s] = @ \cup {want}]
      BY <2>1 DEF Asked
    <2>3. {t \in Slots : Unfulfilled(t)}' = {t \in Slots : Unfulfilled(t)} \cup {s}
      BY <2>1
    <2>4. Promise!Ask(s, want)
      BY <1>3, <2>2, <2>3 DEF Promise!Ask, videos
    <2> QED
      BY <2>4, PublicationAssumption DEF PromiseStep, Promise!Next
  <1>4. CASE (Beside \/ \E d \in Drains : Breaks(d)) /\ Quiet
    BY <1>1, <1>4, QuietAsks, PromiseOfVideos
  <1>5. ASSUME NEW d \in Drains, SetPrivacyReturns(d)
        PROVE  PromiseStep
    <2>1. /\ Confirm(d) /\ step[d] = "saved"
          /\ provider' = provider /\ privacyStatus' = privacyStatus
      BY <1>5 DEF SetPrivacyReturns, Step
    <2>2. PICK w \in Writes : Busy(d, w)
      BY <2>1 DEF Confirm, Busy
    <2>3. \A t \in Slots : /\ Asked(t)' = Asked(t)
                           /\ t # slot[w] => (Unfulfilled(t)' <=> Unfulfilled(t))
      BY <1>1, <2>1, <2>2, ConfirmAsks
    <2>4. slot[w] \in Slots /\ desired[w] \in Asked(slot[w]) /\ Unfulfilled(slot[w])
      BY <1>1, <2>2, CallsAreAsked
    <2>5. provider[slot[w]] = desired[w] /\ privacyStatus[slot[w]] = desired[w]
      BY <2>1, <2>2 DEF PubInv, PrivacyKnowledge, PrivacyKnown
    <2>6. slot' = slot
      BY <1>1, <2>1, <2>2, ConfirmRows
    <2>7. CASE Unfulfilled(slot[w])'
      BY <2>3, <2>4, <2>6, <2>7, PromiseOfVideos
    <2>8. CASE ~Unfulfilled(slot[w])'
      <3>1. {t \in Slots : Unfulfilled(t)}' = {t \in Slots : Unfulfilled(t)} \ {slot[w]}
        BY <2>3, <2>4, <2>6, <2>8
      <3>2. [t \in Slots |-> {desired[v] : v \in RowsOf(t)}]'
               = [t \in Slots |-> {desired[v] : v \in RowsOf(t)}]
        BY <2>3 DEF Asked
      <3>3. Promise!Fulfil(slot[w])
        BY <2>1, <2>4, <2>5, <3>1, <3>2 DEF Promise!Fulfil, Asked
      <3> QED
        BY <2>4, <3>3 DEF PromiseStep, Promise!Next
    <2> QED
      BY <2>7, <2>8
  <1>6. ASSUME \/ \E t \in Slots, to \in StandingMoves : ChangeStanding(t, to)
               \/ \E d \in Drains : LoadForPrivacy(d) \/ SetPrivacy(d) \/ ReadBack(d) \/ SaveVideo(d)
        PROVE  UNCHANGED vars
    BY <1>6 DEF ChangeStanding, Overtake, LoadForPrivacy, Loading, SetPrivacy, ReadBack, SaveVideo
  <1>7. ASSUME NEW d \in Drains, PrivacyBreaks(d)
        PROVE  Quiet
    BY <1>1, <1>7, OtherStepsAreQuiet DEF PrivacyBreaks, Breaks, DrainStep
  <1> QED
    BY <1>1, <1>2, <1>3, <1>4, <1>5, <1>6, <1>7, PubSteps, BreaksAreQuiet DEF PrivacyBreaks

\* With one prompt drain per event, queue, handler and row together implement
\* ConfirmedPrivacy: provider and row move only to what was asked for and confirmed,
\* while a write is there to show for it, and the last write of a video goes only
\* when both agree.
THEOREM PublicationKeepsItsPromise ==
  ASSUME OneDrainPerEvent, PromptDrains
  PROVE  PubSpec => PrivacyIsAsPromised
  <1>1. PubInit => Promise!Init
    BY DEF PubInit, HandlersInit, Init, Promise!Init, RowsOf, Rows, Unfulfilled, Privacy
  <1>2. PubInv /\ [PubNext]_pubVars => PubInv'
    BY PubStays
  <1>3. PubInv /\ PubInv' /\ [PubNext]_pubVars => [Promise!Next]_(Promise!vars)
    BY NextPromise DEF PromiseStep
  <1> QED
    BY <1>1, <1>2, <1>3, PubStarts, PTL DEF PubSpec, PrivacyIsAsPromised, Promise!Spec

(***************************************************************************)
(* Pushing captions.                                                        *)
(***************************************************************************)

\* What a handler may rely on: that the guard passed, unless the video changed
\* since; that its text is up.
UploadKnown(d, w) ==
    /\ step[d] = "loaded" /\ w \notin overtaken => UploadAllowed(w)
    /\ step[d] = "uploaded" => w \in uploaded /\ tracks[slot[w]][Language(w)] = desired[w]

UploadKnowledge == \A d \in Drains, w \in Writes : Busy(d, w) => UploadKnown(d, w)

CapInv == QueueInv /\ CapTypeOK /\ UploadKnowledge

\* The host applies what a drain asked for.
Replaces(d) == \E w \in Writes : Busy(d, w) /\ Replace(w)

\* A call that ends without a confirmation, and may still take effect.
UploadBreaks(d) ==
    /\ Breaks(d)
    /\ step' = [step EXCEPT ![d] = "none"]
    /\ (step[d] = "loaded" /\ Replaces(d)) \/ Untouched
    /\ UNCHANGED <<guard, overtaken>>

\* The steps of Captions, as far as videos and handlers are concerned.
LEMMA CapSteps ==
  ASSUME [CapNext]_capVars
  PROVE  \/ Beside /\ UNCHANGED <<handling, captions>>
         \/ \E s \in Slots, to \in Guards : ChangeGuard(s, to)
         \/ \E d \in Drains :
               LoadForUpload(d) \/ UploadCaptions(d) \/ UploadReturns(d) \/ UploadBreaks(d)
  <1>1. ASSUME NEW s \in Slots, NEW text \in Desired, RequestCaptionUpload(s, text)
        PROVE  Beside /\ UNCHANGED <<handling, captions>>
    BY <1>1 DEF RequestCaptionUpload, Beside
  <1>2. ASSUME NEW d \in Drains, QueueStep(d), UNCHANGED captions
        PROVE  Beside /\ UNCHANGED <<handling, captions>>
    BY <1>2 DEF QueueStep, Beside
  <1>3. CASE Meanwhile /\ UNCHANGED captions
    BY <1>3 DEF Meanwhile, Beside
  <1>4. CASE UNCHANGED capVars
    BY <1>4 DEF capVars, Beside
  <1>5. ASSUME NEW d \in Drains,
               UploadRejects(d) \/ UploadRaises(d) \/ UploadOutOfQuota(d) \/ UploadCrashes(d)
        PROVE  UploadBreaks(d)
    <2>1. CASE UploadRejects(d)
      BY <2>1 DEF UploadRejects, UploadBreaks, Breaks, Step, Untouched
    <2>2. CASE UploadRaises(d)
      BY <2>2 DEF UploadRaises, UploadBreaks, Breaks, Step, Replaces
    <2>3. CASE UploadOutOfQuota(d)
      BY <2>3 DEF UploadOutOfQuota, UploadBreaks, Breaks, Step, Untouched
    <2>4. CASE UploadCrashes(d)
      BY <2>4 DEF UploadCrashes, UploadBreaks, Breaks, Replaces
    <2> QED
      BY <1>5, <2>1, <2>2, <2>3, <2>4
  <1> QED
    BY <1>1, <1>2, <1>3, <1>4, <1>5 DEF CapNext

\* Every step of Captions is one of the queue, or leaves it alone.
LEMMA CapImplementsQueue == [CapNext]_capVars => [Next]_vars
  BY CapSteps, StepsOfQueue
     DEF ChangeGuard, Overtake, LoadForUpload, Loading, UploadCaptions, UploadReturns, UploadBreaks

\* What the host applies is the text of the call, in its language, on its video.
LEMMA ReplacesOwnTrack ==
  ASSUME TypeInv, CapTypeOK, NEW w \in Rows, Replace(w)
  PROVE  /\ tracks' \in [Slots -> [Languages -> Desired \cup {NoTrack}]]
         /\ uploaded' = uploaded \cup {w}
         /\ tracks'[slot[w]][Language(w)] = desired[w]
         /\ \A s \in Slots, l \in Languages :
               s # slot[w] \/ l # Language(w) => tracks'[s][l] = tracks[s][l]
         /\ \A s \in Slots : s # slot[w] => tracks'[s] = tracks[s]
  <1>1. slot[w] \in Slots /\ desired[w] \in Desired /\ Language(w) \in Languages
    BY CaptionsAssumption DEF TypeInv, TypeOK, Language
  <1>2. tracks' = [tracks EXCEPT ![slot[w]] = [@ EXCEPT ![Language(w)] = desired[w]]]
    BY DEF Replace, Language
  <1>3. tracks[slot[w]] \in [Languages -> Desired \cup {NoTrack}]
    BY <1>1 DEF CapTypeOK
  <1>4. tracks'[slot[w]] = [tracks[slot[w]] EXCEPT ![Language(w)] = desired[w]]
    BY <1>1, <1>2 DEF CapTypeOK
  <1>5. \A s \in Slots : s # slot[w] => tracks'[s] = tracks[s]
    BY <1>1, <1>2 DEF CapTypeOK
  <1>6. tracks' \in [Slots -> [Languages -> Desired \cup {NoTrack}]]
    BY <1>1, <1>2, <1>3 DEF CapTypeOK
  <1> QED
    BY <1>1, <1>3, <1>4, <1>5, <1>6 DEF Replace

\* The tracks change by the call of a handler that has the row in memory.
LEMMA TrackSteps ==
  ASSUME TypeInv, CapTypeOK, [CapNext]_capVars
  PROVE  \/ tracks' = tracks /\ uploaded' = uploaded
         \/ \E d \in Drains, w \in Rows : Busy(d, w) /\ step[d] = "loaded" /\ Replace(w)
  BY CapSteps, BusyExists
     DEF captions, ChangeGuard, LoadForUpload, UploadCaptions, UploadReturns, UploadBreaks,
         Step, Replaces, Untouched, Rows

\* Videos and handlers keep their types, and no handler outlives its call.
LEMMA CapTypes ==
  ASSUME TypeInv, CapTypeOK, [CapNext]_capVars
  PROVE  CapTypeOK'
  <1>1. [Next]_vars
    BY CapImplementsQueue
  <1>2. \A w \in Rows : w \in Rows'
    BY <1>1, RowsStay
  <1>3. /\ tracks' \in [Slots -> [Languages -> Desired \cup {NoTrack}]]
        /\ uploaded' \subseteq Rows'
    BY <1>2, TrackSteps, ReplacesOwnTrack DEF CapTypeOK
  <1>4. guard' \in [Slots -> Guards]
    BY CapSteps
       DEF CapTypeOK, captions, ChangeGuard, LoadForUpload, UploadCaptions, UploadReturns, UploadBreaks
  <1>5. overtaken' \subseteq Rows'
    BY <1>2, CapSteps
       DEF CapTypeOK, handling, ChangeGuard, Overtake, RowsOf, LoadForUpload, Loading,
           UploadCaptions, UploadReturns, UploadBreaks
  <1>6. /\ step' \in [Drains -> {"none", "loaded", "uploaded"}]
        /\ \A d \in Drains : step'[d] # "none" => pc'[d] = "calling"
    <2>1. CASE Beside /\ UNCHANGED <<handling, captions>>
      BY <2>1, BesideKeepsCalls DEF CapTypeOK, handling
    <2>2. ASSUME NEW s \in Slots, NEW to \in Guards, ChangeGuard(s, to)
          PROVE  step' = step /\ pc' = pc
      BY <2>2 DEF ChangeGuard, Overtake, vars, local
    <2>3. ASSUME NEW d \in Drains, LoadForUpload(d) \/ UploadCaptions(d)
          PROVE  /\ pc' = pc /\ pc[d] = "calling"
                 /\ \E to \in {"loaded", "uploaded"} : step' = [step EXCEPT ![d] = to]
      BY <2>3 DEF LoadForUpload, Loading, UploadCaptions, Busy, Step, vars, local
    <2>4. ASSUME NEW d \in Drains, UploadReturns(d) \/ UploadBreaks(d)
          PROVE  /\ step' = [step EXCEPT ![d] = "none"]
                 /\ \A e \in Drains : e # d => pc'[e] = pc[e]
      BY <2>4, EndKeepsCalls DEF UploadReturns, UploadBreaks, Step
    <2> QED
      BY <2>1, <2>2, <2>3, <2>4, CapSteps DEF CapTypeOK
  <1> QED
    BY <1>3, <1>4, <1>5, <1>6 DEF CapTypeOK

\* Tracks change on the video of a call, and uploads are not forgotten.
LEMMA OthersKeepTracks ==
  ASSUME TypeInv, CapTypeOK, NEW d \in Drains, Replaces(d) \/ Untouched
  PROVE  /\ uploaded \subseteq uploaded'
         /\ \A s \in Slots : (\A w \in Writes : Busy(d, w) => slot[w] # s) => tracks'[s] = tracks[s]
  <1>1. CASE Untouched
    BY <1>1 DEF Untouched
  <1>2. CASE Replaces(d)
    <2>1. PICK w \in Writes : Busy(d, w) /\ Replace(w)
      BY <1>2 DEF Replaces
    <2> QED
      BY <2>1, BusyExists, ReplacesOwnTrack
  <1> QED
    BY <1>1, <1>2

\* The step of one drain's handler leaves the others what they know.
LEMMA OthersKnowUploads ==
  ASSUME OneDrainPerEvent, CapInv, [Next]_vars,
         NEW d \in Drains, NEW e \in Drains, e # d,
         pc'[e] = pc[e], batch'[e] = batch[e], step'[e] = step[e],
         guard' = guard, uploaded \subseteq uploaded',
         \A w \in overtaken \ overtaken' : Busy(d, w),
         \A s \in Slots : (\A w \in Writes : Busy(d, w) => slot[w] # s) => tracks'[s] = tracks[s],
         NEW v \in Writes, Busy(e, v)'
  PROVE  UploadKnown(e, v)'
  <1>1. Busy(e, v) /\ QueueInv /\ TypeInv
    BY DEF Busy, CapInv, QueueInv
  <1>2. v \in Rows /\ slot[v] \in Slots
    BY <1>1, BusyRow
  <1>3. slot'[v] = slot[v] /\ desired'[v] = desired[v]
    BY <1>1, <1>2, RowsStay
  <1>4. \A w \in Writes : Busy(d, w) => slot[w] # slot[v]
    BY <1>1, OneCall
  <1>5. v \in overtaken => v \in overtaken'
    BY <1>4
  <1>6. tracks'[slot[v]] = tracks[slot[v]]
    BY <1>2, <1>4
  <1>7. UploadKnown(e, v)
    BY <1>1 DEF CapInv, UploadKnowledge
  <1> QED
    BY <1>3, <1>5, <1>6, <1>7 DEF UploadKnown, UploadAllowed, Language

\* What the handlers know stays true.
LEMMA CapKnows ==
  ASSUME OneDrainPerEvent, CapInv, [CapNext]_capVars
  PROVE  UploadKnowledge'
  <1> SUFFICES ASSUME NEW e \in Drains, NEW v \in Writes, Busy(e, v)'
               PROVE  UploadKnown(e, v)'
    BY DEF UploadKnowledge
  <1>1. [Next]_vars /\ QueueInv /\ TypeInv /\ CapTypeOK /\ UploadKnowledge
    BY CapImplementsQueue DEF CapInv, QueueInv
  <1>2. Busy(e, v) => /\ v \in Rows /\ slot[v] \in Slots
                      /\ slot'[v] = slot[v] /\ desired'[v] = desired[v]
                      /\ UploadKnown(e, v)
    BY <1>1, BusyRow, RowsStay DEF UploadKnowledge
  <1>3. CASE Beside /\ UNCHANGED <<handling, captions>>
    <2>1. CASE pc[e] = "calling"
      <3>1. Busy(e, v)
        BY <1>1, <1>3, <2>1, BesideKeepsCalls DEF Busy
      <3> QED
        BY <1>2, <1>3, <3>1 DEF handling, captions, UploadKnown, UploadAllowed, Language
    <2>2. CASE pc[e] # "calling"
      BY <1>1, <1>3, <2>2 DEF handling, CapTypeOK, UploadKnown
    <2> QED
      BY <2>1, <2>2
  <1>4. ASSUME NEW s \in Slots, NEW to \in Guards, ChangeGuard(s, to)
        PROVE  UploadKnown(e, v)'
    <2>1. /\ UNCHANGED <<slot, desired, pc, batch, step, tracks, uploaded>>
          /\ \A t \in Slots : t # s => guard'[t] = guard[t]
          /\ \A w \in RowsOf(s) : Busy(e, w) /\ step[e] = "loaded" => w \in overtaken'
          /\ overtaken \subseteq overtaken'
      BY <1>1, <1>4 DEF ChangeGuard, Overtake, vars, table, local, CapTypeOK
    <2>2. Busy(e, v)
      BY <2>1 DEF Busy
    <2>3. slot[v] = s /\ step[e] = "loaded" => v \in overtaken'
      BY <1>2, <2>1, <2>2 DEF RowsOf
    <2> QED
      BY <1>2, <2>1, <2>2, <2>3 DEF UploadKnown, UploadAllowed, Language
  <1>5. ASSUME NEW d \in Drains, LoadForUpload(d)
        PROVE  UploadKnown(e, v)'
    <2>1. PICK w \in Writes : Loading(d, w) /\ UploadAllowed(w) /\ UNCHANGED captions
      BY <1>5 DEF LoadForUpload
    <2>2. /\ Busy(d, w) /\ UNCHANGED <<slot, desired, pc, batch, guard, tracks, uploaded>>
          /\ step' = [step EXCEPT ![d] = "loaded"] /\ overtaken' = overtaken \ {w}
      BY <2>1 DEF Loading, Step, captions, vars, table, local
    <2>3. CASE e = d
      <3>1. v = w
        BY <2>2, <2>3, WritesAreNat DEF Busy, IsFirst
      <3> QED
        BY <1>1, <2>1, <2>2, <2>3, <3>1 DEF UploadKnown, UploadAllowed, CapTypeOK
    <2>4. CASE e # d
      <3>1. step'[e] = step[e]
        BY <1>1, <2>2, <2>4 DEF CapTypeOK
      <3>2. \A x \in overtaken \ overtaken' : Busy(d, x)
        BY <2>2
      <3> QED
        BY <1>1, <2>2, <2>4, <3>1, <3>2, OthersKnowUploads
    <2> QED
      BY <2>3, <2>4
  <1>6. ASSUME NEW d \in Drains, UploadCaptions(d)
        PROVE  UploadKnown(e, v)'
    <2>1. PICK w \in Writes : Busy(d, w) /\ Replace(w)
      BY <1>6 DEF UploadCaptions
    <2>2. /\ UNCHANGED <<slot, desired, pc, batch, guard, overtaken>>
          /\ step' = [step EXCEPT ![d] = "uploaded"]
      BY <1>6 DEF UploadCaptions, Step, vars, table, local
    <2>3. w \in Rows
      BY <1>1, <2>1, BusyExists
    <2>4. CASE e = d
      <3>1. v = w
        BY <2>1, <2>2, <2>4, WritesAreNat DEF Busy, IsFirst
      <3>2. v \in uploaded' /\ tracks'[slot[v]][Language(v)] = desired[v]
        BY <1>1, <2>1, <2>3, <3>1, ReplacesOwnTrack
      <3> QED
        BY <1>1, <2>2, <2>4, <3>2 DEF UploadKnown, Language, CapTypeOK
    <2>5. CASE e # d
      <3>1. step'[e] = step[e]
        BY <1>1, <2>2, <2>5 DEF CapTypeOK
      <3>2. Replaces(d)
        BY <2>1 DEF Replaces
      <3> QED
        BY <1>1, <2>2, <2>5, <3>1, <3>2, OthersKeepTracks, OthersKnowUploads
    <2> QED
      BY <2>4, <2>5
  <1>7. ASSUME NEW d \in Drains, Breaks(d) \/ Confirm(d), step' = [step EXCEPT ![d] = "none"],
               UNCHANGED <<guard, overtaken>>, Replaces(d) \/ Untouched
        PROVE  UploadKnown(e, v)'
    <2>1. CASE e = d
      BY <1>1, <1>7, <2>1 DEF UploadKnown, CapTypeOK
    <2>2. CASE e # d
      <3>1. pc'[e] = pc[e] /\ batch'[e] = batch[e]
        BY <1>1, <1>7, <2>2, EndKeepsCalls
      <3>2. step'[e] = step[e]
        BY <1>1, <1>7, <2>2 DEF CapTypeOK
      <3> QED
        BY <1>1, <1>7, <2>2, <3>1, <3>2, OthersKeepTracks, OthersKnowUploads
    <2> QED
      BY <2>1, <2>2
  <1>8. ASSUME NEW d \in Drains, UploadReturns(d)
        PROVE  UploadKnown(e, v)'
    BY <1>7, <1>8 DEF UploadReturns, Step, Untouched
  <1>9. ASSUME NEW d \in Drains, UploadBreaks(d)
        PROVE  UploadKnown(e, v)'
    BY <1>7, <1>9 DEF UploadBreaks
  <1> QED
    BY <1>3, <1>4, <1>5, <1>6, <1>8, <1>9, CapSteps

LEMMA CapStarts == CapInit => CapInv
  BY QueueInit DEF CapInit, HandlersInit, CapInv, CapTypeOK, UploadKnowledge, Busy, Init, Guards

LEMMA CapStays ==
  ASSUME OneDrainPerEvent, PromptDrains, CapInv, [CapNext]_capVars
  PROVE  CapInv'
  BY CapImplementsQueue, QueueStays, CapTypes, CapKnows DEF CapInv, QueueInv

(***************************************************************************)
(* The theorems about Captions.                                             *)
(***************************************************************************)

\* The handler unfolded step by step is still the queue of Outbox: an execution
\* of Captions, seen without its videos, is one of Spec.
THEOREM CaptionsIsTheQueue == CapSpec => Spec
  <1>1. CapInit => Init
    BY DEF CapInit, HandlersInit
  <1> QED
    BY <1>1, CapImplementsQueue, PTL DEF CapSpec, Spec

\* Videos, tracks and handlers keep their types, and no handler of
\* upload_captions is at work outside a call of its drain, whoever drains and
\* however slowly.
THEOREM CaptionTypes == CapSpec => []CapTypeOK
  <1>1. CapInit => TypeInv /\ CapTypeOK
    BY CapStarts DEF CapInv, QueueInv
  <1>2. TypeInv /\ CapTypeOK /\ [CapNext]_capVars => (TypeInv /\ CapTypeOK)'
    BY CapImplementsQueue, NextType, CapTypes
  <1> QED
    BY <1>1, <1>2, PTL DEF CapSpec

\* With one prompt drain per event, no captions reach a video that is marked
\* do-not-record when the handler looks at it.
THEOREM OptOutIsChecked ==
  ASSUME OneDrainPerEvent, PromptDrains
  PROVE  CapSpec => NoUploadOnceOptedOut
  <1> DEFINE Checked(s) ==
          \/ guard[s] = "open"
          \/ \E w \in RowsOf(s) \cap overtaken, d \in Drains : Busy(d, w) /\ step[d] = "loaded"
  <1>1. ASSUME CapInv, [CapNext]_capVars, NEW s \in Slots, tracks'[s] # tracks[s]
        PROVE  Checked(s)
    <2>1. QueueInv /\ TypeInv /\ CapTypeOK
      BY <1>1 DEF CapInv, QueueInv
    <2>2. PICK d \in Drains, w \in Rows : Busy(d, w) /\ step[d] = "loaded" /\ Replace(w)
      BY <1>1, <2>1, TrackSteps
    <2>3. slot[w] = s
      BY <1>1, <2>1, <2>2, ReplacesOwnTrack
    <2>4. w \in overtaken \/ UploadAllowed(w)
      BY <1>1, <2>2 DEF CapInv, UploadKnowledge, UploadKnown, Rows
    <2> QED
      BY <2>2, <2>3, <2>4 DEF UploadAllowed, RowsOf
  <1>2. CapInv /\ [CapNext]_capVars =>
          [\A s \in Slots : tracks'[s] # tracks[s] => Checked(s)]_capVars
    BY <1>1
  <1>3. CapInv /\ [CapNext]_capVars => CapInv'
    BY CapStays
  <1> QED
    BY <1>2, <1>3, CapStarts, PTL DEF CapSpec, NoUploadOnceOptedOut

\* A text once pushed is up, or what replaced it is a later write's, or that of
\* one that was put back.
PushedTexts == {w \in uploaded :
    \/ tracks[slot[w]][Language(w)] = desired[w]
    \/ \E v \in uploaded \ {w} : /\ slot[v] = slot[w] /\ Language(v) = Language(w)
                                 /\ v > w \/ v \in recovered}

\* A text that is confirmed is replaced by a call under way, so in order.
LEMMA PushedStays ==
  ASSUME CapInv, [CapNext]_capVars, NEW w \in PushedTexts, state[w] = "confirmed"
  PROVE  w \in PushedTexts'
  <1>1. QueueInv /\ TypeInv /\ CapTypeOK /\ [Next]_vars
    BY CapImplementsQueue DEF CapInv, QueueInv
  <1>2. w \in uploaded /\ w \in Rows /\ w \in Writes
    BY <1>1 DEF PushedTexts, CapTypeOK, Rows
  <1>3. slot[w] \in Slots /\ Language(w) \in Languages
    BY <1>1, <1>2, CaptionsAssumption DEF TypeInv, TypeOK, Language
  <1>4. \A v \in uploaded : /\ v \in uploaded' /\ v \in Rows
                            /\ slot'[v] = slot[v] /\ desired'[v] = desired[v]
                            /\ Language(v)' = Language(v)
    BY <1>1, TrackSteps, ReplacesOwnTrack, RowsStay DEF CapTypeOK, Language
  <1>5. recovered \subseteq recovered'
    BY <1>1, <1>2, RowsStay
  <1>6. CASE tracks'[slot[w]][Language(w)] = tracks[slot[w]][Language(w)]
    BY <1>2, <1>4, <1>5, <1>6 DEF PushedTexts
  <1>7. CASE tracks'[slot[w]][Language(w)] # tracks[slot[w]][Language(w)]
    <2>1. PICK d \in Drains, v \in Rows : Busy(d, v) /\ Replace(v)
      BY <1>1, <1>7, TrackSteps
    <2>2. slot[v] = slot[w] /\ Language(v) = Language(w) /\ v \in uploaded'
      BY <1>1, <1>3, <1>7, <2>1, ReplacesOwnTrack
    <2>3. /\ v \in Writes /\ v \in batch[d] /\ state[v] = "in_flight"
          /\ v # w /\ v \in Nat /\ w \in Nat
      BY <1>1, <1>2, <2>1, BusyRow, WritesAreNat DEF Rows
    <2>4. v > w \/ v \in recovered
      <3>1. ASSUME v < w PROVE w \in Newer(v)
        BY <1>2, <2>2, <2>3, <3>1 DEF Newer, Siblings
      <3> QED
        BY <1>1, <2>3, <3>1 DEF QueueInv, OrderInv, InOrderUnlessRecovered
    <2>5. slot'[v] = slot[v] /\ Language(v)' = Language(v)
      BY <1>1, <2>1, RowsStay DEF Language
    <2> QED
      BY <1>2, <1>4, <1>5, <2>2, <2>3, <2>4, <2>5 DEF PushedTexts
  <1> QED
    BY <1>6, <1>7

\* A write is confirmed after its text was pushed.
LEMMA NextPushed ==
  ASSUME CapInv, ConfirmedWasPushed, [CapNext]_capVars
  PROVE  ConfirmedWasPushed'
  <1> SUFFICES ASSUME NEW w \in Writes, state'[w] = "confirmed" PROVE w \in PushedTexts'
    BY DEF ConfirmedWasPushed, PushedTexts
  <1>1. QueueInv /\ TypeInv
    BY DEF CapInv, QueueInv
  <1>2. CASE state[w] = "confirmed"
    <2>1. w \in PushedTexts
      BY <1>2 DEF ConfirmedWasPushed, PushedTexts
    <2> QED
      BY <1>2, <2>1, PushedStays
  <1>3. CASE state[w] # "confirmed"
    <2>1. PICK d \in Drains : UploadReturns(d)
      <3>1. ~(UNCHANGED vars) /\ ~Beside /\ ~\E d \in Drains : Breaks(d)
        BY <1>1, <1>3, BreaksConfirmNothing DEF vars, table
      <3> QED
        BY <3>1, CapSteps
           DEF ChangeGuard, Overtake, LoadForUpload, Loading, UploadCaptions, UploadBreaks
    <2>2. Confirm(d) /\ step[d] = "uploaded" /\ UNCHANGED <<tracks, uploaded>>
      BY <2>1 DEF UploadReturns, Step
    <2>3. PICK x \in Writes : Busy(d, x)
      BY <2>2 DEF Confirm, Busy
    <2>4. x = w /\ slot' = slot /\ desired' = desired
      BY <1>1, <1>3, <2>2, <2>3, ConfirmRows
    <2>5. w \in uploaded /\ tracks[slot[w]][Language(w)] = desired[w]
      BY <2>2, <2>3, <2>4 DEF CapInv, UploadKnowledge, UploadKnown
    <2> QED
      BY <2>2, <2>4, <2>5 DEF PushedTexts, Language
  <1> QED
    BY <1>2, <1>3

\* With one prompt drain per event, the text of a confirmed write was pushed, and
\* is what viewers see unless a later write of its language, or one that was put
\* back, replaced it.
THEOREM ConfirmedTextsWerePushed ==
  ASSUME OneDrainPerEvent, PromptDrains
  PROVE  CapSpec => []ConfirmedWasPushed
  <1>1. CapInit => ConfirmedWasPushed
    BY DEF CapInit, HandlersInit, Init, ConfirmedWasPushed
  <1>2. CapInv /\ [CapNext]_capVars => CapInv'
    BY CapStays
  <1>3. CapInv /\ ConfirmedWasPushed /\ [CapNext]_capVars => ConfirmedWasPushed'
    BY NextPushed
  <1> QED
    BY <1>1, <1>2, <1>3, CapStarts, PTL DEF CapSpec

\* The newest write of a video that waits for nothing is confirmed: what would
\* have superseded it is not there.
LEMMA NewestIsUp == CapInv /\ ConfirmedWasPushed => NewestTextIsUp
  <1> SUFFICES ASSUME CapInv, ConfirmedWasPushed,
                      NEW s \in Slots, NEW w \in Writes,
                      w \in RowsOf(s), Newer(w) = {}, AllDone(s)
               PROVE  tracks[s][Language(w)] = desired[w]
    BY DEF NewestTextIsUp, AllDone
  <1>1. state[w] = "confirmed" /\ slot[w] = s
    BY DEF AllDone, RowsOf, CapInv, QueueInv, SupersededInv, SupersededHasSuccessor
  <1>2. ASSUME NEW v \in uploaded \ {w}, slot[v] = slot[w]
        PROVE  ~(v > w) /\ v \notin recovered
    <2>1. v \in RowsOf(s)
      BY <1>1, <1>2 DEF CapInv, CapTypeOK, RowsOf
    <2> QED
      BY <2>1, NewestOf DEF AllDone
  <1> QED
    BY <1>1, <1>2 DEF ConfirmedWasPushed

\* With one prompt drain per event, once every write of a video is confirmed or
\* superseded and none was put back, viewers see the text asked for last.
THEOREM QuietVideosShowTheNewestText ==
  ASSUME OneDrainPerEvent, PromptDrains
  PROVE  CapSpec => []NewestTextIsUp
  <1>1. CapInit => ConfirmedWasPushed
    BY DEF CapInit, HandlersInit, Init, ConfirmedWasPushed
  <1>2. CapInv /\ [CapNext]_capVars => CapInv'
    BY CapStays
  <1>3. CapInv /\ ConfirmedWasPushed /\ [CapNext]_capVars => ConfirmedWasPushed'
    BY NextPushed
  <1> QED
    BY <1>1, <1>2, <1>3, CapStarts, NewestIsUp, PTL DEF CapSpec

(***************************************************************************)
(* Texts in order: nothing fresher than what a drain works on was pushed,   *)
(* unless that was put back.                                                *)
(***************************************************************************)

FreshInv == \A d \in Drains : \A w \in batch[d] \ recovered : Newer(w) \cap uploaded = {}

\* Only a claim puts rows in a batch.
LEMMA BatchSteps ==
  ASSUME TypeInv, [Next]_vars, NEW d \in Drains
  PROVE  \/ batch'[d] \subseteq batch[d]
         \/ \E locked \in SUBSET Writes : Claim(d, locked)
  <1> USE DEF TypeInv, TypeOK, local
  <1>1. CASE UNCHANGED batch
    BY <1>1
  <1>2. ASSUME NEW e \in Drains, StartDrain(e) \/ Recover(e) \/ CallHandler(e) \/ Finish(e) \/ Crash(e)
        PROVE  batch'[d] \subseteq batch[d]
    BY <1>2 DEF StartDrain, Recover, CallHandler, Finish, Crash, Die
  <1>3. ASSUME NEW e \in Drains, DeferBlocked(e) \/ Confirm(e) \/ HandlerOutOfQuota(e)
        PROVE  batch'[d] \subseteq batch[d]
    BY <1>3 DEF DeferBlocked, Confirm, HandlerOutOfQuota, Die, Advance
  <1>4. ASSUME NEW e \in Drains, NEW p \in BOOLEAN, Unresolvable(e, p) \/ HandlerFails(e, p)
        PROVE  batch'[d] \subseteq batch[d]
    BY <1>4 DEF Unresolvable, HandlerFails, Die, Advance
  <1>5. ASSUME NEW e \in Drains, e # d, NEW locked \in SUBSET Writes, Claim(e, locked)
        PROVE  batch'[d] = batch[d]
    BY <1>5 DEF Claim
  <1> QED
    BY <1>1, <1>2, <1>3, <1>4, <1>5
       DEF Next, DrainStep, vars, Enqueue, Insert, AdminRetry, WaitOver, Age

\* A row stays newer; only an enqueue makes a row that is.
LEMMA NewerSteps ==
  ASSUME TypeInv, [Next]_vars, NEW w \in Rows, NEW v \in Newer(w)'
  PROVE  v \in Newer(w) \/ v \notin Rows
  BY RowsStay DEF Newer, Siblings

LEMMA NextFresh ==
  ASSUME OneDrainPerEvent, CapInv, FreshInv, [CapNext]_capVars
  PROVE  FreshInv'
  <1> SUFFICES ASSUME NEW d \in Drains, NEW w \in batch'[d] \ recovered',
                      NEW v \in Newer(w)', v \in uploaded'
               PROVE  FALSE
    BY DEF FreshInv
  <1>1. QueueInv /\ TypeInv /\ CapTypeOK /\ [Next]_vars
    BY CapImplementsQueue DEF CapInv, QueueInv
  <1>2. v \in uploaded \/ \E e \in Drains : v \in Rows /\ Busy(e, v)
    BY <1>1, TrackSteps DEF Replace
  <1>3. v \in Rows
    BY <1>1, <1>2 DEF CapTypeOK
  <1>4. CASE w \in batch[d]
    <2>1. w \in Rows /\ w \in Writes
      BY <1>1, <1>4 DEF TypeInv, HeldExist, Rows
    <2>2. w \notin recovered /\ v \in Newer(w)
      BY <1>1, <1>3, <2>1, RowsStay, NewerSteps
    <2>3. v \notin uploaded
      BY <1>4, <2>2 DEF FreshInv
    <2>4. PICK e \in Drains : Busy(e, v)
      BY <1>2, <2>3
    <2>5. v \in Writes /\ slot[v] = slot[w]
      BY <1>3, <2>2 DEF Newer, Siblings, Rows
    <2>6. state[v] = "in_flight"
      BY <1>1, <2>4, <2>5, BusyRow
    <2>7. state[v] \in {"pending", "superseded"}
      BY <1>1, <1>4, <2>1, <2>2 DEF QueueInv, OrderInv, InOrderUnlessRecovered
    <2> QED
      BY <2>6, <2>7
  <1>5. CASE w \notin batch[d]
    <2>1. PICK locked \in SUBSET Writes : Claim(d, locked)
      BY <1>1, <1>5, BatchSteps
    <2>2. w \in Writes /\ state[w] = "pending" /\ recovered' = recovered
      BY <1>1, <1>5, <2>1 DEF Claim, TypeInv, TypeOK, history
    <2>3. w \in Rows
      BY <2>2 DEF Rows
    <2>4. Newer(w) = {}
      BY <1>1, <2>2 DEF QueueInv, OrderInv, PendingIsNewest
    <2> QED
      BY <1>1, <1>3, <2>3, <2>4, NewerSteps
  <1> QED
    BY <1>4, <1>5

\* With one prompt drain per event, a text gets up only from a write in flight that
\* no fresher write of its video was pushed before, confirmed or not, unless that
\* write was put back.
THEOREM TextsAreNotTurnedBack ==
  ASSUME OneDrainPerEvent, PromptDrains
  PROVE  CapSpec => TextsMoveForward
  <1> DEFINE Forward(s, l) ==
          \E w \in RowsOf(s) :
             /\ state[w] = "in_flight"
             /\ Language(w) = l /\ desired[w] = tracks'[s][l]
             /\ Newer(w) \cap uploaded = {} \/ w \in recovered
  <1>1. ASSUME CapInv, FreshInv, [CapNext]_capVars, NEW s \in Slots, NEW l \in Languages,
               tracks'[s][l] # tracks[s][l]
        PROVE  Forward(s, l)
    <2>1. QueueInv /\ TypeInv /\ CapTypeOK
      BY <1>1 DEF CapInv, QueueInv
    <2>2. PICK d \in Drains, w \in Rows : Busy(d, w) /\ Replace(w)
      BY <1>1, <2>1, TrackSteps
    <2>3. slot[w] = s /\ Language(w) = l /\ desired[w] = tracks'[s][l]
      BY <1>1, <2>1, <2>2, ReplacesOwnTrack
    <2>4. w \in batch[d] /\ state[w] = "in_flight"
      BY <2>1, <2>2, BusyRow DEF Rows
    <2> QED
      BY <1>1, <2>2, <2>3, <2>4 DEF FreshInv, RowsOf
  <1>2. CapInv /\ FreshInv /\ [CapNext]_capVars =>
          [\A s \in Slots, l \in Languages : tracks'[s][l] # tracks[s][l] => Forward(s, l)]_capVars
    BY <1>1
  <1>3. CapInit => FreshInv
    BY DEF CapInit, HandlersInit, Init, FreshInv
  <1>4. CapInv /\ [CapNext]_capVars => CapInv'
    BY CapStays
  <1>5. CapInv /\ FreshInv /\ [CapNext]_capVars => FreshInv'
    BY NextFresh
  <1> QED
    BY <1>2, <1>3, <1>4, <1>5, CapStarts, PTL DEF CapSpec, TextsMoveForward

=============================================================================
