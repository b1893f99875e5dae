\* One video, captions in two languages, a crash and an exhausted quota.
CONSTANTS
    v1 = v1
    e1 = e1
    d1 = d1
    en = en
    de = de
    en1 = en1
    en2 = en2
    de1 = de1
    MaxWrites = 2
    Slots = {v1}
    Desired = {en1, en2, de1}
    Languages = {en, de}
    LanguageOf <- TextLanguage
    NoTrack = NoTrack
    Events = {e1}
    EventOf <- OneEvent
    Drains = {d1}
    Scope <- AllEvents
    Limit = 1
    MAX_ATTEMPTS = 2
    Races = TRUE
    Delays <- Never
    SlowDrains = FALSE
    Budget <- CrashQuota
SPECIFICATION CapSpec
SYMMETRY Symmetry

    
    
PROPERTIES
    NoUploadOnceOptedOut
    
