\* One drain that claims two slots at a time, under fairness, with every fault.
CONSTANTS
    s1 = s1
    s2 = s2
    e1 = e1
    d1 = d1
    d2 = d2
    wantA = wantA
    wantB = wantB
    MaxWrites = 2
    Slots = {s1, s2}
    Desired = {wantA, wantB}
    Events <- OneEvent
    EventOf <- BothInOneEvent
    Drains = {d1}
    Scope <- AllEvents
    Limit = 2
    MAX_ATTEMPTS = 2
    Races = TRUE
    Delays <- EitherWay
    SlowDrains = FALSE
    Budget <- Faulty
SPECIFICATION FairSpec
INVARIANTS
    SupersededHasSuccessor
    
    CallsAreBounded
    
PROPERTIES
    SlotsAreMailboxes
    SettledIsFinal
    SettledUnlessWedged
