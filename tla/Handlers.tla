------------------------------ MODULE Handlers ------------------------------
(***************************************************************************)
(* What the handlers of src/src/videos/writes.py have in common when the    *)
(* drains of Outbox execute them.  A handler is unfolded between            *)
(* CallHandler and the settling of its write, so that the rest of the       *)
(* system interleaves with each of its queries and calls; its first step    *)
(* loads the row of the video and checks the guard.                         *)
(*                                                                          *)
(* Publication and Captions extend this module by one handler each.         *)
(***************************************************************************)
EXTENDS Outbox

\* The requests of this module's handlers ask for nothing in the future.
ASSUME HandlersAssumption == FALSE \in Delays

VARIABLES
    step,      \* a drain's handler: "none", "loaded", or what it did since
    overtaken  \* history: writes whose video changed behind their guard

handling == <<step, overtaken>>

HandlersInit ==
    /\ Init
    /\ step = [d \in Drains |-> "none"]
    /\ overtaken = {}

\* The drain is in the handler of this write.
Busy(d, w) == pc[d] = "calling" /\ IsFirst(w, batch[d])

Step(d, from, to) ==
    /\ step[d] = from
    /\ step' = [step EXCEPT ![d] = to]

RowsOf(s) == {w \in Rows : slot[w] = s}

\* _video_for and the guard pass; the row now in memory is not read again.
Loading(d, w) ==
    /\ Busy(d, w)
    /\ Step(d, "none", "loaded")
    /\ overtaken' = overtaken \ {w}
    /\ UNCHANGED vars

\* The video changes behind the handlers that have its row in memory.
Overtake(s) ==
    /\ overtaken' = overtaken \cup
           {w \in RowsOf(s) : \E d \in Drains : Busy(d, w) /\ step[d] = "loaded"}
    /\ UNCHANGED <<vars, step>>

\* The steps of the queue up to the call of a handler, and those without one.
QueueStep(d) ==
    /\ \/ StartDrain(d)
       \/ Recover(d)
       \/ \E locked \in SUBSET Writes : Claim(d, locked)
       \/ DeferBlocked(d)
       \/ \E permanent \in BOOLEAN : Unresolvable(d, permanent)
       \/ CallHandler(d)
       \/ Finish(d)
    /\ UNCHANGED handling

\* Administrators and clocks.
Meanwhile ==
    /\ \/ \E selection \in SUBSET Writes : AdminRetry(selection)
       \/ \E w \in Writes : WaitOver(w) \/ Age(w)
    /\ UNCHANGED handling
=============================================================================
