\* A transient failure behind fresher intent leaves a row in flight for ever.
CONSTANTS
    s1 = s1
    s2 = s2
    e1 = e1
    d1 = d1
    d2 = d2
    wantA = wantA
    wantB = wantB
    MaxWrites = 2
    Slots = {s1}
    Desired = {wantA, wantB}
    Events <- OneEvent
    EventOf <- BothInOneEvent
    Drains = {d1}
    Scope <- AllEvents
    Limit = 2
    MAX_ATTEMPTS = 2
    Races = TRUE
    Delays <- Never
    SlowDrains = FALSE
    Budget <- NoFaults
SPECIFICATION FairSpec
PROPERTIES
    InFlightIsLeft
