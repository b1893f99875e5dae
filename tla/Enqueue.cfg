\* Two callers of one slot beside a drain.
CONSTANTS
    s1 = s1
    e1 = e1
    d1 = d1
    wantA = wantA
    wantB = wantB
    MaxWrites = 3
    Slots = {s1}
    Desired = {wantA, wantB}
    Events = {e1}
    EventOf <- InOneEvent
    Drains = {d1}
    Scope <- AllEvents
    Limit = 2
    MAX_ATTEMPTS = 2
    Races = TRUE
    Delays <- Never
    SlowDrains = FALSE
    Budget <- NoFaults
    Callers = {c1, c2}
SPECIFICATION ESpec
SYMMETRY Symmetry
INVARIANTS
    HeldIsPending
PROPERTIES
    RaisesOnlyIfTwiceBeaten
    ReturnedIntentIsQueued
    ImplementsOutbox
