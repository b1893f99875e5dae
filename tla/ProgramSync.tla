---------------------------- MODULE ProgramSync ----------------------------
(***************************************************************************)
(* The program sync of src/src/program/services.py with the Pretalx adapter *)
(* it reads from, the login that claims Speaker rows (program/identity.py)  *)
(* and the organizer who edits a talk in the admin.                         *)
(*                                                                          *)
(* A sync fetches twice, then reads and writes the local tables in one      *)
(* transaction.  At READ COMMITTED nothing orders two such transactions:    *)
(* each compares the report with the rows it read when it began and writes  *)
(* the differences when it commits; only the unique constraints stop it.    *)
(*                                                                          *)
(* Of a talk's synced fields only do_not_record and the speakers are kept;  *)
(* of a speaker's only the email, which is the user it belongs to.          *)
(***************************************************************************)
EXTENDS Naturals, FiniteSets

CONSTANTS
    TalkIds, SpeakerIds,  \* external ids
    Users,
    Absent,               \* no row, or no record
    Syncs,                \* processes that run sync_program for the event
    Edits,                \* bound: how often the provider's program changes
    Disturbances          \* bound: how often an organizer edits a talk or a sync is killed

NoOne == "no one"

ASSUME SyncAssumption ==
    /\ Edits \in Nat /\ Disturbances \in Nat
    /\ NoOne \notin Users

\* A talk as the provider reports it, or as the local tables have it.
TalkRecord == [do_not_record: BOOLEAN, speakers: SUBSET SpeakerIds]

\* A local Speaker row.
SpeakerRow == [email: Users, user: Users \cup {NoOne}]

ASSUME AbsentAssumption == Absent \notin TalkRecord \cup SpeakerRow

NoReport == [i \in {} |-> {}]
NothingSeen == [talks |-> NoReport, speakers |-> NoReport]

VARIABLES
    submissions,  \* the provider's confirmed submissions
    addresses,    \* the provider's email of each speaker
    talks,        \* local Talk rows, with their links
    speakers,     \* local Speaker rows
    pc,           \* of a sync: "idle", "started", "listed", "fetched", "applying", "applied", "failing"
    listed,       \* the speaker records of a sync
    fetched,      \* the talk records of a sync
    seen,         \* talks and speakers as its transaction read them
    run,          \* its SyncRun: "none", "unfinished", "succeeded" or "failed"
    budget,       \* history: edits and disturbances so far
    committed,    \* history: syncs whose transaction committed
    quiet,        \* history: syncs during which nothing else wrote anything
    reported,     \* history: the links the last committed report asked for
    overlapped,   \* history: syncs whose transaction ran beside a commit
    mixed         \* history: talks last reported by such a sync

provider == <<submissions, addresses>>
tables == <<talks, speakers>>
syncing == <<pc, listed, fetched, seen, run>>
history == <<budget, committed, quiet, reported, overlapped, mixed>>
vars == <<provider, tables, syncing, history>>

Init ==
    /\ submissions = [t \in TalkIds |-> Absent]
    /\ addresses \in [SpeakerIds -> Users]
    /\ talks = [t \in TalkIds |-> Absent]
    /\ speakers = [s \in SpeakerIds |-> Absent]
    /\ pc = [r \in Syncs |-> "idle"]
    /\ listed = [r \in Syncs |-> NoReport]
    /\ fetched = [r \in Syncs |-> NoReport]
    /\ seen = [r \in Syncs |-> NothingSeen]
    /\ run = [r \in Syncs |-> "none"]
    /\ budget = [edits |-> 0, disturbances |-> 0]
    /\ committed = {}
    /\ quiet = {}
    /\ reported = [t \in TalkIds |-> {}]
    /\ overlapped = {}
    /\ mixed = {}

Held(table) == {i \in DOMAIN table : table[i] # Absent}

LinksOf(table, t) == IF t \in Held(table) THEN table[t].speakers ELSE {}

(***************************************************************************)
(* The provider, the organizer and the speakers.                            *)
(***************************************************************************)

EditSubmission(t, record) ==
    /\ budget.edits < Edits
    /\ submissions[t] # record
    /\ submissions' = [submissions EXCEPT ![t] = record]
    /\ budget' = [budget EXCEPT !.edits = @ + 1]
    /\ quiet' = {}
    /\ UNCHANGED <<addresses, tables, syncing, committed, reported, overlapped, mixed>>

EditAddress(s, u) ==
    /\ budget.edits < Edits
    /\ addresses[s] # u
    /\ addresses' = [addresses EXCEPT ![s] = u]
    /\ budget' = [budget EXCEPT !.edits = @ + 1]
    /\ quiet' = {}
    /\ UNCHANGED <<submissions, tables, syncing, committed, reported, overlapped, mixed>>

\* TalkAdmin: an organizer changes do_not_record.  Their edits of links, and of
\* Speaker rows, and deletions are left out.
EditTalk(t) ==
    /\ budget.disturbances < Disturbances
    /\ talks[t] # Absent
    /\ talks' = [talks EXCEPT ![t].do_not_record = ~@]
    /\ budget' = [budget EXCEPT !.disturbances = @ + 1]
    /\ quiet' = {}
    /\ UNCHANGED <<provider, speakers, syncing, committed, reported, overlapped, mixed>>

\* Claiming by email, whoever has the row.
LinkSpeakerRecords_Reassigns(u) ==
    LET matching == {s \in Held(speakers) : speakers[s].email = u}
    IN  /\ matching # {}
        /\ speakers' = [s \in SpeakerIds |->
               IF s \in matching THEN [speakers[s] EXCEPT !.user = u] ELSE speakers[s]]
        /\ UNCHANGED <<provider, talks, syncing, history>>

\* link_speaker_records, at every login.
LinkSpeakerRecords(u) ==
    LET matching == {s \in Held(speakers) : /\ speakers[s].email = u
                                            /\ speakers[s].user = NoOne}
    IN  /\ matching # {}
        /\ speakers' = [s \in SpeakerIds |->
               IF s \in matching THEN [speakers[s] EXCEPT !.user = u] ELSE speakers[s]]
        /\ UNCHANGED <<provider, talks, syncing, history>>

(***************************************************************************)
(* A sync.                                                                  *)
(***************************************************************************)

\* The SyncRun is created.
Start(r) ==
    /\ pc[r] = "idle"
    /\ pc' = [pc EXCEPT ![r] = "started"]
    /\ run' = [run EXCEPT ![r] = "unfinished"]
    /\ committed' = committed \ {r}
    /\ quiet' = quiet \cup {r}
    /\ UNCHANGED <<provider, tables, listed, fetched, seen, budget, reported, overlapped, mixed>>

\* The submissions some pages report: a page may be short of a few.
Reports == {[t \in some |-> submissions[t]] : some \in SUBSET Held(submissions)}

\* fetch_speakers: the speakers of the submissions reported.
FetchSpeakers(r) ==
    /\ pc[r] = "started"
    /\ \E report \in Reports :
         LET who == UNION {report[t].speakers : t \in DOMAIN report}
         IN  listed' = [listed EXCEPT ![r] = [s \in who |-> addresses[s]]]
    /\ pc' = [pc EXCEPT ![r] = "listed"]
    /\ UNCHANGED <<provider, tables, fetched, seen, run, history>>

\* fetch_talks asks for the same pages again.
FetchTalks(r) ==
    /\ pc[r] = "listed"
    /\ \E report \in Reports : fetched' = [fetched EXCEPT ![r] = report]
    /\ pc' = [pc EXCEPT ![r] = "fetched"]
    /\ UNCHANGED <<provider, tables, listed, seen, run, history>>

\* The transaction reads the local rows.
BeginApply(r) ==
    /\ pc[r] = "fetched"
    /\ seen' = [seen EXCEPT ![r] = [talks |-> talks, speakers |-> speakers]]
    /\ pc' = [pc EXCEPT ![r] = "applying"]
    /\ UNCHANGED <<provider, tables, listed, fetched, run, history>>

\* Links made for speakers without a row.
Wanted_Unchecked(r, t) == fetched[r][t].speakers

\* _sync_links: the speakers of a reported talk that a row is known for.
Wanted(r, t) ==
    fetched[r][t].speakers \cap (DOMAIN listed[r] \cup Held(seen[r].speakers))

NewSpeakers(r) == DOMAIN listed[r] \ Held(seen[r].speakers)
NewTalks(r) == DOMAIN fetched[r] \ Held(seen[r].talks)
NewLinks(r, t) == Wanted(r, t) \ LinksOf(seen[r].talks, t)

\* Links that are never taken away.
StaleLinks_Never(r, t) == {}
StaleLinks(r, t) == LinksOf(seen[r].talks, t) \ Wanted(r, t)

\* A unique constraint of speakers, talks or links is violated.
Conflict(r) ==
    \/ NewSpeakers(r) \cap Held(speakers) # {}
    \/ NewTalks(r) \cap Held(talks) # {}
    \/ \E t \in DOMAIN fetched[r] : NewLinks(r, t) \cap LinksOf(talks, t) # {}

\* _upsert_speakers: user is not a synced field.
UpsertedSpeaker(r, s) ==
    IF s \notin DOMAIN listed[r] THEN speakers[s]
    ELSE IF s \in NewSpeakers(r) THEN [email |-> listed[r][s], user |-> NoOne]
    ELSE IF seen[r].speakers[s].email # listed[r][s]
         THEN [speakers[s] EXCEPT !.email = listed[r][s]]
    ELSE speakers[s]

\* Without do_not_record among the synced fields of a talk held already.
SyncedGuard_OnlyNew(r, t) ==
    IF t \in NewTalks(r) THEN fetched[r][t].do_not_record ELSE talks[t].do_not_record

\* do_not_record after the upsert: written when it differs from the row read.
SyncedGuard(r, t) ==
    IF t \in NewTalks(r) \/ seen[r].talks[t].do_not_record # fetched[r][t].do_not_record
    THEN fetched[r][t].do_not_record
    ELSE talks[t].do_not_record

\* A sync that deletes the talks its report does not mention.
UpsertedTalk_DeletesAbsent(r, t) ==
    IF t \notin DOMAIN fetched[r] THEN Absent
    ELSE [do_not_record |-> SyncedGuard(r, t),
          speakers |-> (LinksOf(talks, t) \cup NewLinks(r, t)) \ StaleLinks(r, t)]

\* _upsert_talks; _count_absent only counts the talks a report is short of.
UpsertedTalk(r, t) ==
    IF t \notin DOMAIN fetched[r] THEN talks[t]
    ELSE [do_not_record |-> SyncedGuard(r, t),
          speakers |-> (LinksOf(talks, t) \cup NewLinks(r, t)) \ StaleLinks(r, t)]

\* _apply writes and commits.
Commit(r) ==
    /\ pc[r] = "applying"
    /\ ~Conflict(r)
    /\ speakers' = [s \in SpeakerIds |-> UpsertedSpeaker(r, s)]
    /\ talks' = [t \in TalkIds |-> UpsertedTalk(r, t)]
    /\ pc' = [pc EXCEPT ![r] = "applied"]
    /\ committed' = committed \cup {r}
    /\ quiet' = quiet \cap {r}
    /\ reported' = [t \in TalkIds |->
           IF t \in DOMAIN fetched[r] THEN Wanted(r, t) ELSE reported[t]]
    /\ overlapped' = (overlapped \ {r}) \cup {q \in Syncs \ {r} : pc[q] = "applying"}
    /\ mixed' = IF r \in overlapped THEN mixed \cup DOMAIN fetched[r]
                ELSE mixed \ DOMAIN fetched[r]
    /\ seen' = [seen EXCEPT ![r] = NothingSeen]
    /\ UNCHANGED <<provider, listed, fetched, run, budget>>

\* What a sync held is gone.
Forget(r) ==
    /\ listed' = [listed EXCEPT ![r] = NoReport]
    /\ fetched' = [fetched EXCEPT ![r] = NoReport]
    /\ seen' = [seen EXCEPT ![r] = NothingSeen]
    /\ overlapped' = overlapped \ {r}

\* The adapter is not configured, a fetch fails, the provider repeats a new talk
\* across its pages, or a constraint is violated: all is rolled back.
Fail(r) ==
    /\ \/ pc[r] \in {"started", "listed"}
       \/ pc[r] = "applying" /\ Conflict(r)
       \/ pc[r] = "applying" /\ NewTalks(r) # {}
    /\ Forget(r)
    /\ pc' = [pc EXCEPT ![r] = "failing"]
    /\ UNCHANGED <<provider, tables, run, budget, committed, quiet, reported, mixed>>

\* A run recorded as succeeded whatever became of it.
Finish_AlwaysSucceeds(r) ==
    /\ pc[r] \in {"applied", "failing"}
    /\ run' = [run EXCEPT ![r] = "succeeded"]
    /\ Forget(r)
    /\ pc' = [pc EXCEPT ![r] = "idle"]
    /\ UNCHANGED <<provider, tables, budget, committed, quiet, reported, mixed>>

\* The SyncRun is saved with its outcome.
Finish(r) ==
    /\ pc[r] \in {"applied", "failing"}
    /\ run' = [run EXCEPT ![r] = IF pc[r] = "applied" THEN "succeeded" ELSE "failed"]
    /\ Forget(r)
    /\ pc' = [pc EXCEPT ![r] = "idle"]
    /\ UNCHANGED <<provider, tables, budget, committed, quiet, reported, mixed>>

Crash(r) ==
    /\ pc[r] # "idle"
    /\ budget.disturbances < Disturbances
    /\ budget' = [budget EXCEPT !.disturbances = @ + 1]
    /\ Forget(r)
    /\ pc' = [pc EXCEPT ![r] = "idle"]
    /\ UNCHANGED <<provider, tables, run, committed, quiet, reported, mixed>>

Next ==
    \/ \E t \in TalkIds, record \in TalkRecord \cup {Absent} : EditSubmission(t, record)
    \/ \E s \in SpeakerIds, u \in Users : EditAddress(s, u)
    \/ \E t \in TalkIds : EditTalk(t)
    \/ \E u \in Users : LinkSpeakerRecords(u)
    \/ \E r \in Syncs :
          \/ Start(r) \/ FetchSpeakers(r) \/ FetchTalks(r)
          \/ BeginApply(r) \/ Commit(r) \/ Fail(r) \/ Finish(r)
          \/ Crash(r)

Spec == Init /\ [][Next]_vars

(***************************************************************************)
(* Properties.                                                              *)
(***************************************************************************)

\* Type correctness of the provider, the tables and the syncs.
TypeOK ==
    /\ submissions \in [TalkIds -> TalkRecord \cup {Absent}]
    /\ addresses \in [SpeakerIds -> Users]
    /\ talks \in [TalkIds -> TalkRecord \cup {Absent}]
    /\ speakers \in [SpeakerIds -> SpeakerRow \cup {Absent}]
    /\ pc \in [Syncs -> {"idle", "started", "listed", "fetched", "applying", "applied", "failing"}]
    /\ run \in [Syncs -> {"none", "unfinished", "succeeded", "failed"}]
    /\ \A t \in Held(talks) : talks[t].speakers \subseteq Held(speakers)
    /\ overlapped \subseteq Syncs /\ mixed \subseteq TalkIds

\* A sync during which nothing else wrote leaves every talk and speaker it was
\* told of as the provider has it, whatever syncs, crashes and edits came before.
QuietSyncConverges ==
    \A r \in quiet : pc[r] = "applied" =>
        /\ \A t \in DOMAIN fetched[r] :
              /\ talks[t].do_not_record = submissions[t].do_not_record
              /\ talks[t].speakers = submissions[t].speakers \cap Held(speakers)
        /\ \A s \in DOMAIN listed[r] : speakers[s].email = addresses[s]

\* A SyncRun that says it succeeded did commit, and one that says it failed
\* changed nothing.
RunTellsTheTruth ==
    \A r \in Syncs :
        /\ run[r] = "succeeded" => r \in committed
        /\ run[r] = "failed" => r \notin committed

\* "Never delete on absence", and a Speaker row keeps the user who claimed it:
\* no report, however short, and no login takes local state away.
NothingIsTakenAway ==
    [][/\ Held(talks) \subseteq Held(talks')
       /\ Held(speakers) \subseteq Held(speakers')
       /\ \A s \in Held(speakers) :
             speakers[s].user # NoOne => speakers'[s].user = speakers[s].user]_vars

\* A talk's links are "exactly what the provider reports": those of the last
\* report that mentioned it, never a mixture of two, unless that report's sync
\* ran beside another's commit.  The next sync of the talk mends even that.
LinksAreOneReport ==
    \A t \in Held(talks) \ mixed : talks[t].speakers = reported[t]
=============================================================================
