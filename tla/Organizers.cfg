\* One request at a time, beside logins and administrators.
CONSTANTS
    org1 = org1
    org2 = org2
    event1 = event1
    event2 = event2
    event3 = event3
    video1 = video1
    video3 = video3
    organizer = organizer
    speaker = speaker
    Users = {organizer, speaker}
    Organizations = {org1, org2}
    Events = {event1, event2, event3}
    Slug <- MCSlug
    HomeOf <- MCHomeOf
    Videos = {video1, video3}
    EventOf <- MCEventOf
    SpeaksOn <- MCSpeaksOn
    Browsers = {b1}
    Requests = {r1}
    Memberships <- MCMemberships
    FlagChoices <- MCFlagChoices
    Methods = {"federated", "password"}
SPECIFICATION Spec
INVARIANTS
    SessionsTellHowTheyWereOpened
    WritersAreEntitled
    WritesStayHome
    CommandsActWhereMeant
