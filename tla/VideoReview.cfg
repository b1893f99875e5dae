\* Requests of two people on one video, beside the admin's forms and a moving program.
CONSTANTS
    v1 = v1
    t1 = t1
    t2 = t2
    speaker = speaker
    organizer = organizer
    p1 = p1
    p2 = p2
    Videos = {v1}
    Talks = {t1, t2}
    Users = {speaker, organizer}
    Organizers = {organizer}
    SpeakersOf <- GivesFirstTalk
    Likeness <- MCLikeness
    Pages = {p1, p2}
    ScreensOf <- RequestsAndForms
    Casts <- MCCasts
SPECIFICATION Spec
INVARIANTS
    StandaloneHasNoTalk
    
    
    BulkAcceptanceIsClear
    PrivacyIsConfirmed
