\* Two syncs of one event at the same time, beside edits, logins and a crash.
CONSTANTS
    t1 = t1
    t2 = t2
    sp1 = sp1
    sp2 = sp2
    u1 = u1
    u2 = u2
    r1 = r1
    r2 = r2
    Absent = Absent
    TalkIds = {t1}
    SpeakerIds = {sp1}
    Users = {u1, u2}
    Syncs = {r1, r2}
    Edits = 2
    Disturbances = 1
SPECIFICATION Spec
SYMMETRY Symmetry
INVARIANTS
    TypeOK
    LinksAreOneReport
    QuietSyncConverges
    RunTellsTheTruth
PROPERTIES
    NothingIsTakenAway
