------------------------- MODULE ProgramSyncProofs -------------------------
(***************************************************************************)
(* The program sync, for any talks, speakers and users, any number of syncs *)
(* at once and any number of edits, logins, crashes and failures.           *)
(***************************************************************************)
EXTENDS ProgramSync, TLAPS

(***************************************************************************)
(* Types, and what a sync holds between its steps.                          *)
(***************************************************************************)

\* A sync's report names what the provider knows of, and its snapshot is typed
\* and not ahead of the tables: nothing is deleted, so what it saw is still held.
SyncsTyped ==
    /\ listed = [r \in Syncs |-> listed[r]]
    /\ fetched = [r \in Syncs |-> fetched[r]]
    /\ seen = [r \in Syncs |-> seen[r]]
    /\ \A r \in Syncs :
         /\ DOMAIN listed[r] \subseteq SpeakerIds
         /\ \A s \in DOMAIN listed[r] : listed[r][s] \in Users
         /\ DOMAIN fetched[r] \subseteq TalkIds
         /\ \A t \in DOMAIN fetched[r] : fetched[r][t] \in TalkRecord

SnapshotIsPast(r) ==
    /\ seen[r].talks \in [TalkIds -> TalkRecord \cup {Absent}]
    /\ seen[r].speakers \in [SpeakerIds -> SpeakerRow \cup {Absent}]
    /\ Held(seen[r].talks) \subseteq Held(talks)
    /\ Held(seen[r].speakers) \subseteq Held(speakers)

SnapshotsArePast == \A r \in Syncs : pc[r] = "applying" => SnapshotIsPast(r)

TypeInv == TypeOK /\ SyncsTyped /\ SnapshotsArePast

\* A held row is a row.
LEMMA HeldAreRows ==
  ASSUME TypeOK
  PROVE  /\ \A t \in TalkIds : t \in Held(talks) <=> talks[t] # Absent
         /\ \A s \in SpeakerIds : s \in Held(speakers) <=> speakers[s] # Absent
         /\ Held(talks) \subseteq TalkIds /\ Held(speakers) \subseteq SpeakerIds
         /\ \A t \in Held(talks) : talks[t] \in TalkRecord
         /\ \A s \in Held(speakers) : speakers[s] \in SpeakerRow
         /\ Held(submissions) \subseteq TalkIds
         /\ \A t \in Held(submissions) : submissions[t] \in TalkRecord
  BY AbsentAssumption DEF TypeOK, Held

\* What a page reports is typed, and is what the provider has.
LEMMA ReportsAreRecords ==
  ASSUME TypeOK, NEW report \in Reports
  PROVE  /\ DOMAIN report \subseteq Held(submissions)
         /\ \A t \in DOMAIN report : report[t] = submissions[t] /\ report[t] \in TalkRecord
<1>1. PICK some \in SUBSET Held(submissions) : report = [t \in some |-> submissions[t]]
  BY DEF Reports
<1> QED
  BY <1>1, HeldAreRows

\* At first nothing is held and no sync runs.
LEMMA TypeInit == Init => TypeInv
<1> SUFFICES ASSUME Init PROVE TypeInv
  OBVIOUS
<1>1. TypeOK
  <2>1. Held(talks) = {}
    BY DEF Init, Held
  <2> QED
    BY <2>1 DEF Init, TypeOK
<1>2. SyncsTyped
  BY DEF Init, SyncsTyped, NoReport
<1>3. SnapshotsArePast
  BY DEF Init, SnapshotsArePast
<1> QED
  BY <1>1, <1>2, <1>3 DEF TypeInv

(***************************************************************************)
(* What a commit writes.                                                    *)
(***************************************************************************)

\* The row of a speaker after the upsert: a new one, or the one held, with the
\* same user and the email held or listed.
LEMMA UpsertsSpeaker ==
  ASSUME TypeInv, NEW r \in Syncs, pc[r] = "applying", ~Conflict(r),
         NEW s \in SpeakerIds
  PROVE  /\ UpsertedSpeaker(r, s) \in SpeakerRow \cup {Absent}
         /\ UpsertedSpeaker(r, s) # Absent <=> s \in Held(speakers) \cup DOMAIN listed[r]
         /\ s \in Held(speakers) => UpsertedSpeaker(r, s).user = speakers[s].user
         /\ s \in DOMAIN listed[r] =>
               UpsertedSpeaker(r, s).email \in {listed[r][s], speakers[s].email}
<1>1. SnapshotIsPast(r)
  BY DEF TypeInv, SnapshotsArePast
<1>2. CASE s \notin DOMAIN listed[r]
  BY <1>2, HeldAreRows DEF UpsertedSpeaker, TypeInv, TypeOK
<1>3. CASE s \in NewSpeakers(r)
  <2>1. s \notin Held(speakers) /\ s \in DOMAIN listed[r] /\ listed[r][s] \in Users
    BY <1>3 DEF Conflict, NewSpeakers, TypeInv, SyncsTyped
  <2>2. UpsertedSpeaker(r, s) = [email |-> listed[r][s], user |-> NoOne]
    BY <1>3, <2>1 DEF UpsertedSpeaker
  <2>3. UpsertedSpeaker(r, s) \in SpeakerRow
    BY <2>1, <2>2 DEF SpeakerRow
  <2> QED
    BY <2>1, <2>2, <2>3, AbsentAssumption
<1>4. CASE s \in DOMAIN listed[r] /\ s \notin NewSpeakers(r)
  <2>1. s \in Held(speakers) /\ speakers[s] \in SpeakerRow /\ listed[r][s] \in Users
    BY <1>1, <1>4, HeldAreRows DEF NewSpeakers, SnapshotIsPast, TypeInv, SyncsTyped
  <2>2. UpsertedSpeaker(r, s) \in {speakers[s], [speakers[s] EXCEPT !.email = listed[r][s]]}
    BY <1>4 DEF UpsertedSpeaker
  <2>3. [speakers[s] EXCEPT !.email = listed[r][s]] \in SpeakerRow
    BY <2>1 DEF SpeakerRow
  <2> QED
    BY <2>1, <2>2, <2>3, AbsentAssumption DEF SpeakerRow
<1> QED
  BY <1>2, <1>3, <1>4 DEF NewSpeakers

\* Links are made for speakers who have a row afterwards.
LEMMA WantedAreHeld ==
  ASSUME TypeInv, NEW r \in Syncs, pc[r] = "applying", ~Conflict(r), NEW t \in DOMAIN fetched[r]
  PROVE  Wanted(r, t) \subseteq Held(speakers) \cup DOMAIN listed[r]
  BY DEF Wanted, TypeInv, SnapshotsArePast, SnapshotIsPast

\* The row of a talk after the upsert: a record if it is reported or held, with
\* links to speakers who have a row.
LEMMA UpsertsTalk ==
  ASSUME TypeInv, NEW r \in Syncs, pc[r] = "applying", ~Conflict(r), NEW t \in TalkIds
  PROVE  /\ UpsertedTalk(r, t) \in TalkRecord \cup {Absent}
         /\ UpsertedTalk(r, t) # Absent <=> t \in Held(talks) \cup DOMAIN fetched[r]
         /\ UpsertedTalk(r, t) # Absent =>
               UpsertedTalk(r, t).speakers \subseteq Held(speakers) \cup DOMAIN listed[r]
<1>1. CASE t \notin DOMAIN fetched[r]
  BY <1>1, HeldAreRows DEF UpsertedTalk, TypeInv, TypeOK
<1>2. CASE t \in DOMAIN fetched[r]
  <2>1. SnapshotIsPast(r)
    BY DEF TypeInv, SnapshotsArePast
  <2>2. SyncedGuard(r, t) \in BOOLEAN
    <3>1. fetched[r][t].do_not_record \in BOOLEAN
      BY <1>2 DEF TypeInv, SyncsTyped, TalkRecord
    <3>2. ASSUME t \notin NewTalks(r) PROVE talks[t].do_not_record \in BOOLEAN
      <4>1. t \in Held(talks)
        BY <1>2, <2>1, <3>2 DEF NewTalks, SnapshotIsPast
      <4> QED
        BY <4>1, HeldAreRows DEF TypeInv, TalkRecord
    <3> QED
      BY <3>1, <3>2 DEF SyncedGuard
  <2>3. LinksOf(talks, t) \subseteq Held(speakers)
    BY DEF LinksOf, TypeInv, TypeOK
  <2>4. NewLinks(r, t) \subseteq Held(speakers) \cup DOMAIN listed[r]
    BY <1>2, WantedAreHeld DEF NewLinks
  <2>5. Held(speakers) \cup DOMAIN listed[r] \subseteq SpeakerIds
    BY HeldAreRows DEF TypeInv, SyncsTyped
  <2> DEFINE links == (LinksOf(talks, t) \cup NewLinks(r, t)) \ StaleLinks(r, t)
  <2>6. UpsertedTalk(r, t) = [do_not_record |-> SyncedGuard(r, t), speakers |-> links]
    BY <1>2 DEF UpsertedTalk
  <2>7. links \subseteq Held(speakers) \cup DOMAIN listed[r] /\ links \in SUBSET SpeakerIds
    BY <2>3, <2>4, <2>5
  <2> HIDE DEF links
  <2>8. UpsertedTalk(r, t) \in TalkRecord
    BY <2>2, <2>6, <2>7 DEF TalkRecord
  <2> QED
    BY <1>2, <2>6, <2>7, <2>8, AbsentAssumption
<1> QED
  BY <1>1, <1>2

\* After a commit the rows are those held and those reported.
LEMMA CommitHolds ==
  ASSUME TypeInv, NEW r \in Syncs, Commit(r)
  PROVE  /\ speakers' \in [SpeakerIds -> SpeakerRow \cup {Absent}]
         /\ talks' \in [TalkIds -> TalkRecord \cup {Absent}]
         /\ Held(speakers') = Held(speakers) \cup DOMAIN listed[r]
         /\ Held(talks') = Held(talks) \cup DOMAIN fetched[r]
         /\ \A t \in Held(talks') : talks'[t].speakers \subseteq Held(speakers')
<1>1. /\ pc[r] = "applying" /\ ~Conflict(r)
      /\ speakers' = [s \in SpeakerIds |-> UpsertedSpeaker(r, s)]
      /\ talks' = [t \in TalkIds |-> UpsertedTalk(r, t)]
  BY DEF Commit
<1>2. DOMAIN listed[r] \subseteq SpeakerIds /\ DOMAIN fetched[r] \subseteq TalkIds
  BY DEF TypeInv, SyncsTyped
<1>3. Held(speakers) \subseteq SpeakerIds /\ Held(talks) \subseteq TalkIds
  BY HeldAreRows DEF TypeInv
<1>4. speakers' \in [SpeakerIds -> SpeakerRow \cup {Absent}]
  BY <1>1, UpsertsSpeaker
<1>5. talks' \in [TalkIds -> TalkRecord \cup {Absent}]
  BY <1>1, UpsertsTalk
<1>6. Held(speakers') = Held(speakers) \cup DOMAIN listed[r]
  <2>1. \A s \in SpeakerIds : speakers'[s] # Absent <=> s \in Held(speakers) \cup DOMAIN listed[r]
    BY <1>1, UpsertsSpeaker
  <2> QED
    BY <1>2, <1>3, <1>4, <2>1 DEF Held
<1>7. Held(talks') = Held(talks) \cup DOMAIN fetched[r]
  <2>1. \A t \in TalkIds : talks'[t] # Absent <=> t \in Held(talks) \cup DOMAIN fetched[r]
    BY <1>1, UpsertsTalk
  <2> QED
    BY <1>2, <1>3, <1>5, <2>1 DEF Held
<1>8. \A t \in Held(talks') : talks'[t].speakers \subseteq Held(speakers')
  <2> SUFFICES ASSUME NEW t \in Held(talks') PROVE talks'[t].speakers \subseteq Held(speakers')
    OBVIOUS
  <2>1. t \in TalkIds /\ talks'[t] # Absent /\ talks'[t] = UpsertedTalk(r, t)
    BY <1>1, <1>5 DEF Held
  <2> QED
    BY <1>1, <1>6, <2>1, UpsertsTalk
<1> QED
  BY <1>4, <1>5, <1>6, <1>7, <1>8
(***************************************************************************)
(* Every step keeps the types and deletes nothing.                          *)
(***************************************************************************)

\* A login keeps every row, its email and the user it has.
LEMMA LoginKeepsRows ==
  ASSUME TypeOK, NEW u \in Users, LinkSpeakerRecords(u)
  PROVE  /\ speakers' \in [SpeakerIds -> SpeakerRow \cup {Absent}]
         /\ Held(speakers') = Held(speakers)
         /\ \A s \in Held(speakers) : /\ speakers'[s].email = speakers[s].email
                                      /\ speakers[s].user # NoOne =>
                                            speakers'[s].user = speakers[s].user
<1> DEFINE matching == {s \in Held(speakers) : speakers[s].email = u /\ speakers[s].user = NoOne}
<1>1. speakers' = [s \in SpeakerIds |->
         IF s \in matching THEN [speakers[s] EXCEPT !.user = u] ELSE speakers[s]]
  BY DEF LinkSpeakerRecords
<1>2. ASSUME NEW s \in SpeakerIds, s \in matching
      PROVE  /\ speakers'[s] \in SpeakerRow /\ s \in Held(speakers)
             /\ speakers'[s].email = speakers[s].email /\ speakers[s].user = NoOne
  <2>1. s \in Held(speakers) /\ speakers[s] \in SpeakerRow /\ speakers[s].user = NoOne
    BY <1>2, HeldAreRows
  <2>2. speakers'[s] = [speakers[s] EXCEPT !.user = u]
    BY <1>1, <1>2
  <2> QED
    BY <2>1, <2>2 DEF SpeakerRow
<1>3. ASSUME NEW s \in SpeakerIds, s \notin matching
      PROVE  speakers'[s] = speakers[s]
  BY <1>1, <1>3
<1> HIDE DEF matching
<1>4. speakers' \in [SpeakerIds -> SpeakerRow \cup {Absent}]
  <2>1. \A s \in SpeakerIds : speakers'[s] \in SpeakerRow \cup {Absent}
    BY <1>2, <1>3 DEF TypeOK
  <2>2. DOMAIN speakers' = SpeakerIds /\ speakers' = [s \in SpeakerIds |-> speakers'[s]]
    BY <1>1
  <2> QED
    BY <2>1, <2>2
<1>5. Held(speakers') = Held(speakers)
  <2>1. \A s \in SpeakerIds : speakers'[s] # Absent <=> speakers[s] # Absent
    BY <1>2, <1>3, AbsentAssumption DEF Held
  <2> QED
    BY <1>4, <2>1 DEF Held, TypeOK
<1>6. \A s \in Held(speakers) : s \in SpeakerIds
  BY HeldAreRows
<1> QED
  BY <1>2, <1>3, <1>4, <1>5, <1>6

\* The organizer's edit keeps every row and every link.
LEMMA EditKeepsRows ==
  ASSUME TypeOK, NEW t \in TalkIds, EditTalk(t)
  PROVE  /\ talks' \in [TalkIds -> TalkRecord \cup {Absent}]
         /\ Held(talks') = Held(talks)
         /\ \A q \in Held(talks) : talks'[q].speakers = talks[q].speakers
         /\ speakers' = speakers
<1>1. talks[t] \in TalkRecord /\ talks' = [talks EXCEPT ![t].do_not_record = ~@]
  BY DEF EditTalk, TypeOK
<1>2. talks'[t] \in TalkRecord /\ talks'[t].speakers = talks[t].speakers
  BY <1>1 DEF TypeOK, TalkRecord
<1>3. \A q \in TalkIds \ {t} : talks'[q] = talks[q]
  BY <1>1 DEF TypeOK
<1>4. DOMAIN talks' = TalkIds /\ talks' = [q \in TalkIds |-> talks'[q]]
  BY <1>1 DEF TypeOK
<1>5. talks' \in [TalkIds -> TalkRecord \cup {Absent}]
  BY <1>2, <1>3, <1>4 DEF TypeOK
<1>6. Held(talks') = Held(talks)
  BY <1>2, <1>3, <1>4, AbsentAssumption DEF Held, TypeOK, EditTalk
<1>7. \A q \in Held(talks) : q \in TalkIds
  BY HeldAreRows
<1> QED
  BY <1>2, <1>3, <1>5, <1>6, <1>7 DEF EditTalk

\* Rows stay, and a Speaker row keeps the user it has.
TablesGrow ==
    /\ Held(talks) \subseteq Held(talks')
    /\ Held(speakers) \subseteq Held(speakers')
    /\ \A s \in Held(speakers) :
          speakers[s].user # NoOne => speakers'[s].user = speakers[s].user

\* The share of the tables in the types.
TablesTyped ==
    /\ talks \in [TalkIds -> TalkRecord \cup {Absent}]
    /\ speakers \in [SpeakerIds -> SpeakerRow \cup {Absent}]
    /\ \A t \in Held(talks) : talks[t].speakers \subseteq Held(speakers)

\* A commit writes rows and deletes none; a row's user is not among its fields.
LEMMA CommitGrows ==
  ASSUME TypeInv, NEW r \in Syncs, Commit(r)
  PROVE  TablesTyped' /\ TablesGrow
<1>1. TablesTyped'
  BY CommitHolds DEF TablesTyped
<1>2. ASSUME NEW s \in Held(speakers) PROVE speakers'[s].user = speakers[s].user
  <2>1. s \in SpeakerIds
    BY HeldAreRows DEF TypeInv
  <2>2. speakers'[s] = UpsertedSpeaker(r, s) /\ pc[r] = "applying" /\ ~Conflict(r)
    BY <2>1 DEF Commit
  <2> QED
    BY <2>1, <2>2, UpsertsSpeaker
<1> QED
  BY <1>1, <1>2, CommitHolds DEF TablesGrow

\* The other steps of a sync leave the tables alone.
LEMMA SyncLeavesTables ==
  ASSUME NEW r \in Syncs,
         \/ Start(r) \/ FetchSpeakers(r) \/ FetchTalks(r)
         \/ BeginApply(r) \/ Fail(r) \/ Finish(r) \/ Crash(r)
  PROVE  UNCHANGED tables
  BY DEF Start, FetchSpeakers, FetchTalks, BeginApply, Fail, Finish, Crash, tables

\* No step takes a row away, nor the user from a Speaker row.
LEMMA TablesStep ==
  ASSUME TypeInv, [Next]_vars
  PROVE  TablesTyped' /\ TablesGrow
<1>1. TypeOK /\ TablesTyped
  BY DEF TypeInv, TypeOK, TablesTyped
<1>2. ASSUME NEW t \in TalkIds, EditTalk(t) PROVE TablesTyped' /\ TablesGrow
  BY <1>1, <1>2, EditKeepsRows DEF TablesTyped, TablesGrow
<1>3. ASSUME NEW u \in Users, LinkSpeakerRecords(u) PROVE TablesTyped' /\ TablesGrow
  <2>1. talks' = talks
    BY <1>3 DEF LinkSpeakerRecords
  <2> QED
    BY <1>1, <1>3, <2>1, LoginKeepsRows DEF TablesTyped, TablesGrow
<1>4. ASSUME NEW r \in Syncs, Commit(r) PROVE TablesTyped' /\ TablesGrow
  BY <1>4, CommitGrows
<1>5. CASE UNCHANGED tables
  BY <1>1, <1>5 DEF TablesTyped, TablesGrow, tables
<1>6. UNCHANGED tables \/ (\E t \in TalkIds : EditTalk(t))
      \/ (\E u \in Users : LinkSpeakerRecords(u)) \/ (\E r \in Syncs : Commit(r))
  <2>1. CASE UNCHANGED vars
    BY <2>1 DEF vars, tables
  <2>2. CASE Next
    BY <2>2, SyncLeavesTables DEF Next, EditSubmission, EditAddress
  <2> QED
    BY <2>1, <2>2
<1> QED
  BY <1>2, <1>3, <1>4, <1>5, <1>6

\* What the sync r forgets, and what it reads, is typed.
LEMMA SyncsTypedStep ==
  ASSUME TypeInv, [Next]_vars
  PROVE  SyncsTyped'
<1> USE DEF SyncsTyped
<1>1. ASSUME NEW r \in Syncs, FetchSpeakers(r) PROVE SyncsTyped'
  <2>1. PICK report \in Reports :
          listed' = [listed EXCEPT ![r] =
                       [s \in UNION {report[t].speakers : t \in DOMAIN report} |-> addresses[s]]]
    BY <1>1 DEF FetchSpeakers
  <2>2. \A t \in DOMAIN report : report[t].speakers \subseteq SpeakerIds
    BY ReportsAreRecords DEF TalkRecord, TypeInv
  <2>3. UNION {report[t].speakers : t \in DOMAIN report} \subseteq SpeakerIds
    BY <2>2
  <2>4. \A s \in SpeakerIds : addresses[s] \in Users
    BY DEF TypeInv, TypeOK
  <2> QED
    BY <1>1, <2>1, <2>3, <2>4 DEF FetchSpeakers, TypeInv
<1>2. ASSUME NEW r \in Syncs, FetchTalks(r) PROVE SyncsTyped'
  <2>1. PICK report \in Reports : fetched' = [fetched EXCEPT ![r] = report]
    BY <1>2 DEF FetchTalks
  <2>2. /\ DOMAIN report \subseteq TalkIds
        /\ \A t \in DOMAIN report : report[t] \in TalkRecord
    BY ReportsAreRecords, HeldAreRows DEF TypeInv
  <2> QED
    BY <1>2, <2>1, <2>2 DEF FetchTalks, TypeInv
<1>3. ASSUME NEW r \in Syncs, Forget(r) PROVE SyncsTyped'
  BY <1>3 DEF Forget, TypeInv, NoReport
<1>4. ASSUME NEW r \in Syncs, BeginApply(r) \/ Commit(r) PROVE SyncsTyped'
  BY <1>4 DEF BeginApply, Commit, TypeInv
<1>5. CASE UNCHANGED <<listed, fetched, seen>>
  BY <1>5 DEF TypeInv
<1> QED
  BY <1>1, <1>2, <1>3, <1>4, <1>5
     DEF Next, vars, syncing, EditSubmission, EditAddress, EditTalk, LinkSpeakerRecords,
         Start, Fail, Finish, Crash

\* A snapshot stays behind the tables, which only grow.
LEMMA SnapshotsStep ==
  ASSUME TypeInv, TablesGrow, TablesTyped, [Next]_vars
  PROVE  SnapshotsArePast'
<1> SUFFICES ASSUME NEW r \in Syncs, pc'[r] = "applying" PROVE SnapshotIsPast(r)'
  BY DEF SnapshotsArePast
<1>1. CASE BeginApply(r)
  BY <1>1 DEF BeginApply, SnapshotIsPast, TablesTyped, TypeInv, SyncsTyped, tables
<1>2. CASE ~BeginApply(r)
  <2>1. seen'[r] = seen[r] /\ pc[r] = "applying"
    BY <1>2 DEF Next, vars, syncing, tables, EditSubmission, EditAddress, EditTalk, LinkSpeakerRecords,
        Start, FetchSpeakers, FetchTalks, BeginApply, Commit, Fail, Finish, Crash, Forget,
        TypeInv, TypeOK, SyncsTyped
  <2> QED
    BY <2>1 DEF TypeInv, SnapshotsArePast, SnapshotIsPast, TablesGrow
<1> QED
  BY <1>1, <1>2

\* Every step keeps the types.
LEMMA TypeStep ==
  ASSUME TypeInv, [Next]_vars
  PROVE  TypeInv'
<1>1. TablesTyped' /\ TablesGrow /\ TablesTyped
  BY TablesStep DEF TypeInv, TypeOK, TablesTyped
<1>2. SyncsTyped' /\ SnapshotsArePast'
  BY <1>1, SyncsTypedStep, SnapshotsStep
<1>3. /\ submissions' \in [TalkIds -> TalkRecord \cup {Absent}]
      /\ addresses' \in [SpeakerIds -> Users]
  BY DEF TypeInv, TypeOK, Next, vars, provider, EditSubmission, EditAddress, EditTalk,
      LinkSpeakerRecords, Start, FetchSpeakers, FetchTalks, BeginApply, Commit, Fail, Finish, Crash
<1>4. /\ pc' \in [Syncs -> {"idle", "started", "listed", "fetched", "applying", "applied", "failing"}]
      /\ run' \in [Syncs -> {"none", "unfinished", "succeeded", "failed"}]
  BY DEF TypeInv, TypeOK, Next, vars, syncing, EditSubmission, EditAddress, EditTalk,
      LinkSpeakerRecords, Start, FetchSpeakers, FetchTalks, BeginApply, Commit, Fail, Finish, Crash
<1>5. overlapped' \subseteq Syncs /\ mixed' \subseteq TalkIds
  BY DEF TypeInv, TypeOK, SyncsTyped, Next, vars, history, EditSubmission, EditAddress, EditTalk, Forget,
      LinkSpeakerRecords, Start, FetchSpeakers, FetchTalks, BeginApply, Commit, Fail, Finish, Crash
<1> QED
  BY <1>1, <1>2, <1>3, <1>4, <1>5 DEF TypeInv, TypeOK, TablesTyped

\* The provider, the tables and the syncs keep their types, and every link
\* leads to a Speaker row.
THEOREM TypeCorrect == Spec => []TypeOK
<1>1. Init => TypeInv
  BY TypeInit
<1>2. TypeInv /\ [Next]_vars => TypeInv'
  BY TypeStep
<1>3. TypeInv => TypeOK
  BY DEF TypeInv
<1> QED
  BY <1>1, <1>2, <1>3, PTL DEF Spec

\* No report, however short, and no login takes a row away, or the user from a
\* Speaker row who claimed it.
THEOREM NothingIsEverTakenAway == Spec => NothingIsTakenAway
<1>1. Init => TypeInv
  BY TypeInit
<1>2. TypeInv /\ [Next]_vars => TypeInv'
  BY TypeStep
<1>3. TypeInv /\ [Next]_vars =>
        [/\ Held(talks) \subseteq Held(talks')
         /\ Held(speakers) \subseteq Held(speakers')
         /\ \A s \in Held(speakers) :
               speakers[s].user # NoOne => speakers'[s].user = speakers[s].user]_vars
  BY TablesStep DEF TablesGrow
<1> QED
  BY <1>1, <1>2, <1>3, PTL DEF Spec, NothingIsTakenAway

(***************************************************************************)
(* The SyncRun's outcome.                                                   *)
(***************************************************************************)

\* A sync under way has an unfinished run, and has committed when it is applied
\* and not before.
RunsTold ==
    \A r \in Syncs :
        /\ pc[r] # "idle" => run[r] = "unfinished"
        /\ pc[r] \in {"started", "listed", "fetched", "applying", "failing"} => r \notin committed
        /\ pc[r] = "applied" => r \in committed
        /\ run[r] = "succeeded" => r \in committed
        /\ run[r] = "failed" => r \notin committed

\* The outcome that is saved is what became of the transaction.
LEMMA RunsStep ==
  ASSUME TypeInv, RunsTold, [Next]_vars
  PROVE  RunsTold'
<1> USE DEF RunsTold, TypeInv, TypeOK
<1>1. ASSUME NEW r \in Syncs, Start(r) PROVE RunsTold'
  BY <1>1 DEF Start
<1>2. ASSUME NEW r \in Syncs, FetchSpeakers(r) \/ FetchTalks(r) \/ BeginApply(r) PROVE RunsTold'
  BY <1>2 DEF FetchSpeakers, FetchTalks, BeginApply, history
<1>3. ASSUME NEW r \in Syncs, Commit(r) PROVE RunsTold'
  BY <1>3 DEF Commit
<1>4. ASSUME NEW r \in Syncs, Fail(r) PROVE RunsTold'
  BY <1>4 DEF Fail
<1>5. ASSUME NEW r \in Syncs, Finish(r) PROVE RunsTold'
  BY <1>5 DEF Finish
<1>6. ASSUME NEW r \in Syncs, Crash(r) PROVE RunsTold'
  BY <1>6 DEF Crash
<1>7. CASE UNCHANGED <<pc, run, committed>>
  BY <1>7
<1> QED
  BY <1>1, <1>2, <1>3, <1>4, <1>5, <1>6, <1>7
     DEF Next, vars, syncing, history, EditSubmission, EditAddress, EditTalk, LinkSpeakerRecords

\* A SyncRun that says it succeeded did commit, one that says it failed did not,
\* whatever crashed and whichever constraint was violated.
THEOREM RunsTellTheTruth == Spec => []RunTellsTheTruth
<1>1. Init => TypeInv /\ RunsTold
  BY TypeInit DEF Init, RunsTold
<1>2. TypeInv /\ RunsTold /\ [Next]_vars => TypeInv' /\ RunsTold'
  BY TypeStep, RunsStep
<1>3. RunsTold => RunTellsTheTruth
  BY DEF RunsTold, RunTellsTheTruth
<1> QED
  BY <1>1, <1>2, <1>3, PTL DEF Spec

(***************************************************************************)
(* Links.                                                                   *)
(***************************************************************************)

\* A transaction beside which no other committed still sees the links there are.
SeesTheLinks(r) ==
    \A t \in TalkIds : LinksOf(seen[r].talks, t) = LinksOf(talks, t)

UndisturbedSee ==
    \A r \in Syncs : pc[r] = "applying" /\ r \notin overlapped => SeesTheLinks(r)

\* A step that commits nothing keeps every talk's links.
LEMMA LinksStay ==
  ASSUME TypeInv, [Next]_vars, \A r \in Syncs : ~Commit(r)
  PROVE  /\ Held(talks') = Held(talks)
         /\ \A t \in TalkIds : LinksOf(talks', t) = LinksOf(talks, t)
<1>1. CASE UNCHANGED talks
  BY <1>1
<1>2. ASSUME NEW t \in TalkIds, EditTalk(t)
      PROVE  /\ Held(talks') = Held(talks)
             /\ \A q \in TalkIds : LinksOf(talks', q) = LinksOf(talks, q)
  BY <1>2, EditKeepsRows DEF TypeInv, LinksOf
<1> QED
  BY <1>1, <1>2, SyncLeavesTables
     DEF Next, vars, tables, EditSubmission, EditAddress, LinkSpeakerRecords

\* What a commit beside which no other ran makes of the links of a talk.
LEMMA CommitLinks ==
  ASSUME TypeInv, UndisturbedSee, NEW r \in Syncs, Commit(r), NEW t \in TalkIds
  PROVE  /\ t \in DOMAIN fetched[r] /\ r \notin overlapped =>
               LinksOf(talks', t) = Wanted(r, t)
         /\ t \notin DOMAIN fetched[r] => talks'[t] = talks[t]
<1>1. talks'[t] = UpsertedTalk(r, t) /\ pc[r] = "applying"
  BY DEF Commit
<1>2. ASSUME t \in DOMAIN fetched[r], r \notin overlapped
      PROVE  LinksOf(talks', t) = Wanted(r, t)
  <2>1. LinksOf(seen[r].talks, t) = LinksOf(talks, t)
    BY <1>1, <1>2 DEF UndisturbedSee, SeesTheLinks
  <2>2. talks'[t].speakers = (LinksOf(talks, t) \cup NewLinks(r, t)) \ StaleLinks(r, t)
    BY <1>1, <1>2 DEF UpsertedTalk
  <2>3. t \in Held(talks')
    BY <1>2, CommitHolds
  <2> QED
    BY <2>1, <2>2, <2>3 DEF LinksOf, NewLinks, StaleLinks
<1> QED
  BY <1>1, <1>2 DEF UpsertedTalk

LinksInv == LinksAreOneReport /\ UndisturbedSee

\* A commit marks the transactions beside it; everything else keeps the links.
LEMMA UndisturbedStep ==
  ASSUME TypeInv, TypeInv', LinksInv, [Next]_vars
  PROVE  UndisturbedSee'
<1> SUFFICES ASSUME NEW r \in Syncs, pc'[r] = "applying", r \notin overlapped'
             PROVE  SeesTheLinks(r)'
  BY DEF UndisturbedSee
<1>1. CASE BeginApply(r)
  BY <1>1 DEF BeginApply, SeesTheLinks, TypeInv, SyncsTyped, tables
<1>2. CASE ~BeginApply(r)
  <2>1. seen'[r] = seen[r] /\ pc[r] = "applying" /\ r \notin overlapped /\ \A q \in Syncs : ~Commit(q)
    BY <1>2 DEF Next, vars, syncing, history, tables, EditSubmission, EditAddress, EditTalk,
        LinkSpeakerRecords, Start, FetchSpeakers, FetchTalks, BeginApply, Commit, Fail, Finish, Crash,
        Forget, TypeInv, TypeOK, SyncsTyped
  <2> QED
    BY <2>1, LinksStay DEF LinksInv, UndisturbedSee, SeesTheLinks
<1> QED
  BY <1>1, <1>2

\* A talk outside the mixtures has the links of the report that mentioned it last.
LEMMA OneReportStep ==
  ASSUME TypeInv, TypeInv', LinksInv, [Next]_vars
  PROVE  LinksAreOneReport'
<1>1. ASSUME NEW r \in Syncs, Commit(r) PROVE LinksAreOneReport'
  <2> SUFFICES ASSUME NEW t \in Held(talks'), t \notin mixed'
               PROVE  talks'[t].speakers = reported'[t]
    BY DEF LinksAreOneReport
  <2>1. t \in TalkIds /\ talks'[t].speakers = LinksOf(talks', t)
    BY HeldAreRows DEF TypeInv, LinksOf, Held, TypeOK
  <2>2. /\ reported'[t] = IF t \in DOMAIN fetched[r] THEN Wanted(r, t) ELSE reported[t]
        /\ mixed' = IF r \in overlapped THEN mixed \cup DOMAIN fetched[r]
                    ELSE mixed \ DOMAIN fetched[r]
    BY <1>1, <2>1 DEF Commit
  <2>3. CASE t \in DOMAIN fetched[r]
    BY <1>1, <2>1, <2>2, <2>3, CommitLinks DEF LinksInv
  <2>4. CASE t \notin DOMAIN fetched[r]
    <3>1. t \in Held(talks)
      BY <1>1, <2>4, CommitHolds
    <3>2. t \notin mixed /\ talks'[t] = talks[t]
      BY <1>1, <2>1, <2>2, <2>4, CommitLinks DEF LinksInv
    <3> QED
      BY <2>2, <2>4, <3>1, <3>2 DEF LinksInv, LinksAreOneReport
  <2> QED
    BY <2>3, <2>4
<1>2. ASSUME \A r \in Syncs : ~Commit(r) PROVE LinksAreOneReport'
  <2>1. reported' = reported /\ mixed' = mixed
    BY <1>2 DEF Next, vars, history, EditSubmission, EditAddress, EditTalk,
        LinkSpeakerRecords, Start, FetchSpeakers, FetchTalks, BeginApply, Fail, Finish, Crash
  <2>2. \A t \in Held(talks) : t \in TalkIds
    BY HeldAreRows DEF TypeInv
  <2> QED
    BY <1>2, <2>1, <2>2, LinksStay DEF LinksInv, LinksAreOneReport, LinksOf
<1> QED
  BY <1>1, <1>2

\* The links of a talk are those the last report that mentioned it asked for,
\* unless that report's sync ran beside another's commit, and the next sync of
\* the talk mends even that.
THEOREM LinksComeFromOneReport == Spec => []LinksAreOneReport
<1>1. Init => TypeInv /\ LinksInv
  <2>1. Init => LinksInv
    BY DEF Init, LinksInv, LinksAreOneReport, UndisturbedSee, Held
  <2> QED
    BY <2>1, TypeInit
<1>2. TypeInv /\ LinksInv /\ [Next]_vars => TypeInv' /\ LinksInv'
  BY TypeStep, UndisturbedStep, OneReportStep DEF LinksInv
<1>3. LinksInv => LinksAreOneReport
  BY DEF LinksInv
<1> QED
  BY <1>1, <1>2, <1>3, PTL DEF Spec

(***************************************************************************)
(* Quiet syncs.                                                             *)
(***************************************************************************)

\* The sync left what it was told of as the provider has it.
Converged(r) ==
    /\ \A t \in DOMAIN fetched[r] :
          /\ talks[t].do_not_record = submissions[t].do_not_record
          /\ talks[t].speakers = submissions[t].speakers \cap Held(speakers)
    /\ \A s \in DOMAIN listed[r] : speakers[s].email = addresses[s]

\* Its two fetches still agree with the provider ...
FetchedIsCurrent(r) ==
    /\ pc[r] \in {"listed", "fetched", "applying", "applied"} =>
          \A s \in DOMAIN listed[r] : listed[r][s] = addresses[s]
    /\ pc[r] \in {"fetched", "applying", "applied"} =>
          \A t \in DOMAIN fetched[r] : fetched[r][t] = submissions[t]

\* ... and its snapshot with the tables, but for the users that logins set.
SeenIsCurrent(r) ==
    /\ seen[r].talks = talks
    /\ Held(seen[r].speakers) = Held(speakers)
    /\ \A s \in Held(speakers) : seen[r].speakers[s].email = speakers[s].email

QuietInv ==
    /\ quiet \subseteq Syncs
    /\ \A r \in quiet : /\ FetchedIsCurrent(r)
                        /\ pc[r] = "applying" => SeenIsCurrent(r)
                        /\ pc[r] = "applied" => /\ Converged(r)
                                                /\ DOMAIN listed[r] \subseteq Held(speakers)

\* The upsert of a sync whose snapshot is current brings the local rows to what
\* was fetched.
LEMMA CommitConverges ==
  ASSUME TypeInv, NEW r \in Syncs, Commit(r), FetchedIsCurrent(r), SeenIsCurrent(r)
  PROVE  Converged(r)'
<1>1. /\ pc[r] = "applying" /\ ~Conflict(r)
      /\ speakers' = [s \in SpeakerIds |-> UpsertedSpeaker(r, s)]
      /\ talks' = [t \in TalkIds |-> UpsertedTalk(r, t)]
      /\ UNCHANGED <<provider, listed, fetched>>
  BY DEF Commit
<1>2. ASSUME NEW s \in DOMAIN listed[r] PROVE speakers'[s].email = addresses[s]
  <2>1. /\ s \in SpeakerIds /\ listed[r][s] = addresses[s]
        /\ speakers'[s] = UpsertedSpeaker(r, s)
    BY <1>1 DEF TypeInv, SyncsTyped, FetchedIsCurrent
  <2>2. CASE s \in NewSpeakers(r)
    BY <2>1, <2>2 DEF UpsertedSpeaker
  <2>3. CASE s \notin NewSpeakers(r)
    <3>1. s \in Held(speakers) /\ seen[r].speakers[s].email = speakers[s].email
      BY <2>3 DEF NewSpeakers, SeenIsCurrent
    <3>2. speakers[s] \in SpeakerRow
      BY <2>1, <3>1, HeldAreRows DEF TypeInv
    <3> QED
      BY <2>1, <2>3, <3>1, <3>2 DEF UpsertedSpeaker, SpeakerRow
  <2> QED
    BY <2>2, <2>3
<1>3. ASSUME NEW t \in DOMAIN fetched[r]
      PROVE  /\ talks'[t].do_not_record = submissions[t].do_not_record
             /\ talks'[t].speakers = submissions[t].speakers \cap Held(speakers')
  <2>1. t \in TalkIds /\ fetched[r][t] = submissions[t]
    BY <1>1 DEF TypeInv, SyncsTyped, FetchedIsCurrent
  <2>2. talks'[t] = [do_not_record |-> SyncedGuard(r, t),
                     speakers |-> (LinksOf(talks, t) \cup NewLinks(r, t)) \ StaleLinks(r, t)]
    BY <1>1, <2>1 DEF UpsertedTalk
  <2>3. SyncedGuard(r, t) = submissions[t].do_not_record
    BY <2>1 DEF SyncedGuard, SeenIsCurrent
  <2>4. talks'[t].speakers = Wanted(r, t)
    BY <2>2 DEF NewLinks, StaleLinks, SeenIsCurrent
  <2>5. Held(speakers') = Held(speakers) \cup DOMAIN listed[r]
    BY CommitHolds
  <2> QED
    BY <2>1, <2>2, <2>3, <2>4, <2>5 DEF Wanted, SeenIsCurrent
<1> QED
  BY <1>1, <1>2, <1>3 DEF Converged, provider

\* A step that changes neither the provider nor the rows keeps what another sync
\* relies on.
LEMMA OthersStayQuiet ==
  ASSUME QuietInv, NEW r \in quiet,
         UNCHANGED <<submissions, addresses, talks, speakers>>,
         pc'[r] = pc[r], listed'[r] = listed[r], fetched'[r] = fetched[r], seen'[r] = seen[r]
  PROVE  /\ FetchedIsCurrent(r)'
         /\ pc'[r] = "applying" => SeenIsCurrent(r)'
         /\ pc'[r] = "applied" => Converged(r)' /\ (DOMAIN listed[r] \subseteq Held(speakers))'
  BY DEF QuietInv, FetchedIsCurrent, SeenIsCurrent, Converged

\* The steps of the sync r itself, but for its commit.
LEMMA OwnStepsStayQuiet ==
  ASSUME TypeInv, QuietInv, NEW r \in Syncs, r \in quiet',
         \/ Start(r) \/ FetchSpeakers(r) \/ FetchTalks(r)
         \/ BeginApply(r) \/ Fail(r) \/ Finish(r) \/ Crash(r)
  PROVE  /\ FetchedIsCurrent(r)'
         /\ pc'[r] = "applying" => SeenIsCurrent(r)'
         /\ pc'[r] = "applied" => Converged(r)' /\ (DOMAIN listed[r] \subseteq Held(speakers))'
<1> USE DEF TypeInv, TypeOK, SyncsTyped, FetchedIsCurrent, provider, tables
<1>1. CASE Start(r)
  BY <1>1 DEF Start
<1>2. CASE FetchSpeakers(r)
  <2>1. PICK report \in Reports :
          listed' = [listed EXCEPT ![r] =
                       [s \in UNION {report[t].speakers : t \in DOMAIN report} |-> addresses[s]]]
    BY <1>2 DEF FetchSpeakers
  <2> QED
    BY <1>2, <2>1 DEF FetchSpeakers
<1>3. CASE FetchTalks(r)
  <2>1. PICK report \in Reports : fetched' = [fetched EXCEPT ![r] = report]
    BY <1>3 DEF FetchTalks
  <2>2. \A t \in DOMAIN report : report[t] = submissions[t]
    BY ReportsAreRecords
  <2>3. r \in quiet /\ pc[r] = "listed" /\ pc'[r] = "fetched" /\ listed'[r] = listed[r]
        /\ fetched'[r] = report /\ UNCHANGED <<submissions, addresses>>
    BY <1>3, <2>1 DEF FetchTalks, history
  <2>4. \A s \in DOMAIN listed[r] : listed[r][s] = addresses[s]
    BY <2>3 DEF QuietInv
  <2> QED
    BY <2>2, <2>3, <2>4
<1>4. CASE BeginApply(r)
  <2>1. r \in quiet /\ pc[r] = "fetched" /\ pc'[r] = "applying"
        /\ seen'[r] = [talks |-> talks, speakers |-> speakers]
        /\ UNCHANGED <<submissions, addresses, talks, speakers, listed, fetched>>
    BY <1>4 DEF BeginApply, history
  <2>2. FetchedIsCurrent(r)'
    BY <2>1 DEF QuietInv
  <2>3. SeenIsCurrent(r)'
    BY <2>1 DEF SeenIsCurrent
  <2> QED
    BY <2>1, <2>2, <2>3
<1>5. CASE Fail(r) \/ Finish(r) \/ Crash(r)
  BY <1>5 DEF Fail, Finish, Crash
<1> QED
  BY <1>1, <1>2, <1>3, <1>4, <1>5

\* Whatever else writes ends the quiet; a login only sets users.
LEMMA QuietStep ==
  ASSUME TypeInv, QuietInv, [Next]_vars
  PROVE  QuietInv'
<1>1. ASSUME NEW r \in Syncs,
             \/ Start(r) \/ FetchSpeakers(r) \/ FetchTalks(r)
             \/ BeginApply(r) \/ Fail(r) \/ Finish(r) \/ Crash(r)
      PROVE  QuietInv'
  <2>1. quiet' \subseteq quiet \cup {r}
    BY <1>1 DEF Start, FetchSpeakers, FetchTalks, BeginApply, Fail, Finish, Crash, history
  <2>2. ASSUME NEW q \in quiet, q # r
        PROVE  /\ UNCHANGED <<submissions, addresses, talks, speakers>>
               /\ pc'[q] = pc[q] /\ listed'[q] = listed[q]
               /\ fetched'[q] = fetched[q] /\ seen'[q] = seen[q]
    BY <1>1, <2>2 DEF Start, FetchSpeakers, FetchTalks, BeginApply, Fail, Finish, Crash, Forget,
        provider, tables, TypeInv, TypeOK, SyncsTyped, QuietInv
  <2> QED
    BY <1>1, <2>1, <2>2, OthersStayQuiet, OwnStepsStayQuiet DEF QuietInv
<1>2. ASSUME NEW r \in Syncs, Commit(r) PROVE QuietInv'
  <2>1. quiet' = quiet \cap {r} /\ pc[r] = "applying" /\ pc'[r] = "applied"
        /\ UNCHANGED <<submissions, addresses, listed, fetched>>
    BY <1>2 DEF Commit, provider, TypeInv, TypeOK
  <2>2. ASSUME r \in quiet
        PROVE  Converged(r)' /\ FetchedIsCurrent(r)' /\ (DOMAIN listed[r] \subseteq Held(speakers))'
    <3>1. FetchedIsCurrent(r) /\ SeenIsCurrent(r)
      BY <2>1, <2>2 DEF QuietInv
    <3> QED
      BY <1>2, <2>1, <3>1, CommitConverges, CommitHolds DEF FetchedIsCurrent
  <2> QED
    BY <2>1, <2>2 DEF QuietInv
<1>3. ASSUME NEW u \in Users, LinkSpeakerRecords(u) PROVE QuietInv'
  <2>1. /\ Held(speakers') = Held(speakers)
        /\ \A s \in Held(speakers) : speakers'[s].email = speakers[s].email
    BY <1>3, LoginKeepsRows DEF TypeInv
  <2>2. UNCHANGED <<submissions, addresses, talks, pc, listed, fetched, seen, quiet>>
    BY <1>3 DEF LinkSpeakerRecords, provider, syncing, history
  <2>3. ASSUME NEW r \in quiet
        PROVE  /\ FetchedIsCurrent(r)'
               /\ pc'[r] = "applying" => SeenIsCurrent(r)'
               /\ pc'[r] = "applied" => Converged(r)' /\ (DOMAIN listed[r] \subseteq Held(speakers))'
    BY <2>1, <2>2 DEF QuietInv, FetchedIsCurrent, SeenIsCurrent, Converged
  <2> QED
    BY <2>2, <2>3 DEF QuietInv
<1>4. CASE quiet' = {}
  BY <1>4 DEF QuietInv
<1>5. CASE UNCHANGED vars
  BY <1>5, OthersStayQuiet DEF vars, provider, tables, syncing, history, QuietInv
<1> QED
  BY <1>1, <1>2, <1>3, <1>4, <1>5 DEF Next, EditSubmission, EditAddress, EditTalk

\* A sync during which nothing else wrote leaves every talk and speaker it was
\* told of as the provider has it, whatever syncs, crashes and edits came before
\* and whoever signs in meanwhile.
THEOREM QuietSyncsConverge == Spec => []QuietSyncConverges
<1>1. Init => TypeInv /\ QuietInv
  <2>1. Init => QuietInv
    BY DEF Init, QuietInv
  <2> QED
    BY <2>1, TypeInit
<1>2. TypeInv /\ QuietInv /\ [Next]_vars => TypeInv' /\ QuietInv'
  BY TypeStep, QuietStep
<1>3. QuietInv => QuietSyncConverges
  BY DEF QuietInv, Converged, QuietSyncConverges
<1> QED
  BY <1>1, <1>2, <1>3, PTL DEF Spec
=============================================================================
