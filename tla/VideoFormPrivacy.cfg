\* An admin form saved across a confirmed privacy change.
CONSTANTS
    v1 = v1
    t1 = t1
    t2 = t2
    speaker = speaker
    organizer = organizer
    p1 = p1
    p2 = p2
    Videos = {v1}
    Talks = {t1, t2}
    Users = {speaker, organizer}
    Organizers = {organizer}
    SpeakersOf <- GivesFirstTalk
    Likeness <- MCLikeness
    Pages = {p1, p2}
    ScreensOf <- OnlyForms
    Casts <- MCCasts
SPECIFICATION Spec
INVARIANTS
    PrivacyIsAlwaysConfirmed
