\* One drain, one video, two intents, failures that are retried, a crash, an exhausted quota.
CONSTANTS
    v1 = v1
    e1 = e1
    d1 = d1
    MaxWrites = 2
    Slots = {v1}
    Desired = {"public", "unlisted"}
    Events = {e1}
    EventOf <- OneEvent
    Drains = {d1}
    Scope <- AllEvents
    Limit = 1
    MAX_ATTEMPTS = 2
    Races = TRUE
    Delays <- Never
    SlowDrains = FALSE
    Budget <- CrashQuota
    StandingMoves = {"eligible", "ineligible", "gone"}
SPECIFICATION PubSpec

    
    
PROPERTIES
    
    
    PublishesEligibleUnlessOvertaken
