---------------------------- MODULE VideoReview ----------------------------
(***************************************************************************)
(* Matching and review of videos: src/src/videos/services.py as called by   *)
(* the organizer screens (views.py), the review surface (review_views.py)   *)
(* and the admin (admin.py and the talk inline of program/admin.py).        *)
(*                                                                          *)
(* Nothing locks a Video row between the request that loads it and the save *)
(* that follows.  A request whose outcome depends on the row it loaded is a *)
(* page with a stale copy (seen) and saves later; one that only writes      *)
(* columns is a single step.  Bulk requests act on each video on its own,   *)
(* so each of their videos is a page of its own.                            *)
(*                                                                          *)
(* All videos and talks belong to one event: every lookup filters by event, *)
(* and link_video_to_talk and Video.clean refuse another event's talk.      *)
(***************************************************************************)
EXTENDS Matching

CONSTANTS
    Videos,
    Talks,
    Users,
    Organizers,  \* users whose session has Scope.VIDEOS in the organization
    SpeakersOf,  \* the users linked to each talk at first
    Casts,       \* bound: the sets of users a sync or a login may link to each talk
    Likeness,    \* how alike the titles of videos and of talks may be
    Pages,       \* bound: requests and forms under way at once
    ScreensOf    \* bound: the screens that may be open on a page

AllScreens == {"approve", "changes", "accept", "form", "inline"}

ASSUME ReviewAssumption ==
    /\ Videos # {} /\ Users # {} /\ IsFiniteSet(Talks)
    /\ Organizers \subseteq Users
    /\ None \notin Talks /\ None \notin Users
    /\ SpeakersOf \in [Talks -> SUBSET Users]
    /\ Likeness \subseteq [Videos -> [Talks -> 0 .. 100]]
    /\ ScreensOf \in [Pages -> SUBSET AllScreens]
    /\ Casts \in [Talks -> SUBSET SUBSET Users]

ReviewStates == {"pending", "invited", "changes_requested", "approved"}
Sources == {"blank", "speaker", "staff"}
Privacies == {"private", "public"}

\* The columns of a Video row that requests, forms and handlers write.
VideoRow == [talk: Talks \cup {None}, standalone: BOOLEAN, matched_by: Users \cup {None},
             review_state: ReviewStates, approval_source: Sources,
             approved_by: Users \cup {None}, privacy_status: Privacies]

Page == [screen: AllScreens \cup {"closed", "saving"}, user: Users, video: Videos,
         seen: VideoRow]

VARIABLES
    row,            \* the Video table
    speakers,       \* the users linked to a talk through its Speaker rows
    score,          \* how alike titles are: of each video, for each talk
    page,           \* requests and forms under way
    confirmed,      \* history: the privacy a set_privacy handler last saved
    formed          \* history: videos an admin form was saved on

vars == <<row, speakers, score, page, confirmed, formed>>

NewRow == [talk |-> None, standalone |-> FALSE, matched_by |-> None,
           review_state |-> "pending", approval_source |-> "blank",
           approved_by |-> None, privacy_status |-> "private"]

Closed == [screen |-> "closed", user |-> CHOOSE u \in Users : TRUE,
           video |-> CHOOSE v \in Videos : TRUE, seen |-> NewRow]

NeedsMatching(r) == r.talk = None /\ ~r.standalone

\* is_speaker_on, for the talk of a loaded row.
IsSpeakerOn(u, r) == r.talk # None /\ u \in speakers[r.talk]

MayReview(u, r) == u \in Organizers \/ IsSpeakerOn(u, r)

Init ==
    /\ row = [v \in Videos |-> NewRow]
    /\ speakers = SpeakersOf
    /\ score \in Likeness
    /\ page = [p \in Pages |-> Closed]
    /\ confirmed = [v \in Videos |-> "private"]
    /\ formed = {}

program == <<speakers, score>>
history == <<confirmed, formed>>

(***************************************************************************)
(* Matching: single UPDATEs of the match columns.                           *)
(***************************************************************************)

SaveMatch(v, t, alone, u) ==
    row' = [row EXCEPT ![v] = [@ EXCEPT !.talk = t, !.standalone = alone, !.matched_by = u]]

\* link_video_to_talk without the reset of standalone.
Link_KeepsStandalone(v, t, u) == SaveMatch(v, t, row[v].standalone, u)

\* link_video_to_talk.
Link(v, t, u) == SaveMatch(v, t, FALSE, u)

ConfirmMatch(v, t, u) ==
    /\ u \in Organizers
    /\ Link(v, t, u)
    /\ UNCHANGED <<program, page, history>>

MarkStandalone(v, u) ==
    /\ u \in Organizers
    /\ SaveMatch(v, None, TRUE, u)
    /\ UNCHANGED <<program, page, history>>

\* unmatch that leaves the audit stamps.
Unmatch_KeepsStamp(v) ==
    /\ SaveMatch(v, None, FALSE, row[v].matched_by)
    /\ UNCHANGED <<program, page, history>>

Unmatch(v) ==
    /\ SaveMatch(v, None, FALSE, None)
    /\ UNCHANGED <<program, page, history>>

(***************************************************************************)
(* Pages: requests that save what they derived from a copy of the row.      *)
(***************************************************************************)

\* The part of the loaded row that what the screen saves depends on.
Copy(screen, r) ==
    CASE screen = "accept" -> NewRow
      [] screen \in {"changes", "inline"} -> [NewRow EXCEPT !.talk = r.talk]
      [] screen = "approve" -> [NewRow EXCEPT !.talk = r.talk, !.standalone = r.standalone]
      [] OTHER -> [r EXCEPT !.approval_source = "blank", !.privacy_status = "private"]

\* The row is loaded.  Bulk acceptance lists undecided videos only; the talk
\* inline lists the videos of a talk.
Open(p, screen, v, u) ==
    /\ page[p].screen = "closed"
    /\ screen \in ScreensOf[p]
    /\ screen = "accept" => u \in Organizers /\ NeedsMatching(row[v]) /\ Suggestion(score[v]) # None
    /\ screen \in {"form", "inline"} => u \in Organizers
    /\ screen = "inline" => row[v].talk # None
    /\ page' = [page EXCEPT ![p] = [screen |-> screen, user |-> u, video |-> v,
                                    seen |-> Copy(screen, row[v])]]
    /\ UNCHANGED <<row, program, history>>

\* Permission denied, the service refuses, the form is not valid, or nobody
\* ever sends the form.
Close(p) ==
    /\ page[p].screen # "closed"
    /\ \/ page[p].screen = "approve" /\ NeedsMatching(page[p].seen)
       \/ page[p].screen \in {"approve", "changes"} /\ ~MayReview(page[p].user, page[p].seen)
       \/ page[p].screen \in {"form", "inline"}
    /\ page' = [page EXCEPT ![p] = Closed]
    /\ UNCHANGED <<row, program, history>>

\* The source approve derives.
Source(u, seen) == IF IsSpeakerOn(u, seen) THEN "speaker" ELSE "staff"

\* approve with a save of the whole row, as without update_fields.
Approve_SavesWholeRow(p) ==
    LET u == page[p].user  v == page[p].video  seen == page[p].seen
    IN  /\ page[p].screen = "approve"
        /\ MayReview(u, seen)
        /\ ~NeedsMatching(seen)
        /\ row' = [row EXCEPT ![v] = [seen EXCEPT !.review_state = "approved",
                                        !.approval_source = Source(u, seen),
                                        !.approved_by = u]]
        /\ page' = [page EXCEPT ![p] = Closed]
        /\ UNCHANGED <<program, history>>

\* approve: the guards and the derived source look at the copy, the save
\* touches the review columns.
Approve(p) ==
    LET u == page[p].user  v == page[p].video  seen == page[p].seen
    IN  /\ page[p].screen = "approve"
        /\ MayReview(u, seen)
        /\ ~NeedsMatching(seen)
        /\ row' = [row EXCEPT ![v] = [@ EXCEPT !.review_state = "approved",
                                        !.approval_source = Source(u, seen),
                                        !.approved_by = u]]
        /\ page' = [page EXCEPT ![p] = Closed]
        /\ UNCHANGED <<program, history>>

\* request_changes that leaves the approver.
RequestChanges_KeepsApprover(p) ==
    LET v == page[p].video
    IN  /\ page[p].screen = "changes"
        /\ MayReview(page[p].user, page[p].seen)
        /\ row' = [row EXCEPT ![v] = [@ EXCEPT !.review_state = "changes_requested",
                                        !.approval_source = "blank"]]
        /\ page' = [page EXCEPT ![p] = Closed]
        /\ UNCHANGED <<program, history>>

RequestChanges(p) ==
    LET v == page[p].video
    IN  /\ page[p].screen = "changes"
        /\ MayReview(page[p].user, page[p].seen)
        /\ row' = [row EXCEPT ![v] = [@ EXCEPT !.review_state = "changes_requested",
                                        !.approval_source = "blank",
                                        !.approved_by = None]]
        /\ page' = [page EXCEPT ![p] = Closed]
        /\ UNCHANGED <<program, history>>

\* accept_suggested reaches a video of the list it loaded.
AcceptSuggested(p) ==
    LET v == page[p].video
    IN  /\ page[p].screen = "accept"
        /\ Link(v, Suggestion(score[v]), page[p].user)
        /\ page' = [page EXCEPT ![p] = Closed]
        /\ UNCHANGED <<program, history>>

(***************************************************************************)
(* The admin's forms.  A POST loads the row again, puts the posted fields   *)
(* over it, those nobody edited included, and saves every column.           *)
(***************************************************************************)

\* What an editor may send back from a rendered copy: one field edited, or none.
Edits(seen) ==
    {[seen EXCEPT !.talk = match[1], !.standalone = match[2]] :
        match \in (Talks \cup {None}) \X BOOLEAN}
    \cup {[seen EXCEPT !.review_state = s] : s \in ReviewStates}
    \cup {[seen EXCEPT !.approved_by = u] : u \in Users \cup {None}}

\* VideoAdmin.save_model.
Stamp(u, old, posted) ==
    IF posted.talk # None /\ posted.talk # old.talk THEN u
    ELSE IF NeedsMatching(posted) THEN None
    ELSE posted.matched_by

\* Video.clean and the check constraint, run by the form's validation.
FormValid(posted) == ~(posted.standalone /\ posted.talk # None)

PostForm(p) ==
    LET v == page[p].video  old == row[v]
    IN  /\ page[p].screen = "form"
        /\ \E posted \in Edits(page[p].seen) :
             /\ FormValid(posted)
             /\ page' = [page EXCEPT ![p] = [@ EXCEPT
                    !.screen = "saving",
                    !.seen = [posted EXCEPT
                                !.matched_by = Stamp(page[p].user, old, posted),
                                !.approval_source = old.approval_source,
                                !.privacy_status = old.privacy_status]]]
        /\ UNCHANGED <<row, program, history>>

\* The talk inline edits the review state only, of videos still on the talk, and
\* TalkAdmin.save_formset saves the rows that changed.
PostInline(p) ==
    LET v == page[p].video  old == row[v]
    IN  /\ page[p].screen = "inline"
        /\ old.talk = page[p].seen.talk
        /\ \E s \in ReviewStates \ {old.review_state} :
             page' = [page EXCEPT ![p] = [@ EXCEPT
                    !.screen = "saving",
                    !.seen = [old EXCEPT !.review_state = s,
                                !.matched_by = IF @ = None THEN page[p].user ELSE @]]]
        /\ UNCHANGED <<row, program, history>>

SaveForm(p) ==
    /\ page[p].screen = "saving"
    /\ row' = [row EXCEPT ![page[p].video] = page[p].seen]
    /\ formed' = formed \cup {page[p].video}
    /\ page' = [page EXCEPT ![p] = Closed]
    /\ UNCHANGED <<program, confirmed>>

(***************************************************************************)
(* The rest of the system.                                                  *)
(***************************************************************************)

\* The save of the set_privacy handler (see Publication).
ConfirmPrivacy(v, privacy) ==
    /\ row[v].privacy_status # privacy
    /\ row' = [row EXCEPT ![v] = [@ EXCEPT !.privacy_status = privacy]]
    /\ confirmed' = [confirmed EXCEPT ![v] = privacy]
    /\ UNCHANGED <<program, page, formed>>

\* A sync, a login or the talk admin changes who speaks on a talk.  Titles stay
\* as they are.
ChangeSpeakers(t, who) ==
    /\ speakers[t] # who
    /\ speakers' = [speakers EXCEPT ![t] = who]
    /\ UNCHANGED <<row, score, page, history>>

Next ==
    \/ \E v \in Videos, t \in Talks, u \in Users : ConfirmMatch(v, t, u)
    \/ \E v \in Videos, u \in Users : MarkStandalone(v, u)
    \/ \E v \in Videos : Unmatch(v)
    \/ \E p \in Pages, s \in AllScreens, v \in Videos, u \in Users : Open(p, s, v, u)
    \/ \E p \in Pages :
          \/ Close(p)
          \/ Approve(p) \/ RequestChanges(p) \/ AcceptSuggested(p)
          \/ PostForm(p) \/ PostInline(p) \/ SaveForm(p)
    \/ \E v \in Videos, privacy \in Privacies : ConfirmPrivacy(v, privacy)
    \/ \E t \in Talks : \E who \in Casts[t] : ChangeSpeakers(t, who)

Spec == Init /\ [][Next]_vars

(***************************************************************************)
(* Properties.                                                              *)
(***************************************************************************)

\* Type correctness of the rows, the program and the pages.
TypeOK ==
    /\ row \in [Videos -> VideoRow]
    /\ speakers \in [Talks -> SUBSET Users]
    /\ score \in Likeness
    /\ page \in [Pages -> Page]
    /\ confirmed \in [Videos -> Privacies]
    /\ formed \in SUBSET Videos

\* No interleaving of requests and forms ever runs into the check constraint
\* standalone_video_has_no_talk.
StandaloneHasNoTalk ==
    \A v \in Videos : row[v].standalone => row[v].talk = None

\* "Set when approved.  Blank until then.": source and approver say that a
\* video is approved exactly when its review state does, whoever decides at the
\* same time, until an admin form is saved on it.
ApprovalColumnsAgree ==
    \A v \in Videos \ formed :
        /\ row[v].review_state = "approved" <=> row[v].approval_source # "blank"
        /\ row[v].review_state = "approved" <=> row[v].approved_by # None

\* "A bulk action that guesses is worse than one that does less": what bulk
\* acceptance is about to link is ahead, by the margin, of every other talk of the
\* event, those the short list leaves out included.
BulkAcceptanceIsClear ==
    \A p \in Pages : page[p].screen = "accept" =>
        LET scores == score[page[p].video]  chosen == Suggestion(scores)
        IN  \A t \in Talks \ {chosen} : scores[chosen] - scores[t] >= Margin

\* The audit stamp names a decider exactly when the match is decided, until an
\* admin form is saved on the video.
MatchColumnsAgree ==
    \A v \in Videos \ formed : NeedsMatching(row[v]) <=> row[v].matched_by = None

\* "publication_state and privacy_status are only ever written here", by the
\* handler: the row has the privacy that was last confirmed, whatever requests
\* save at the same time, until an admin form is saved on the video.
PrivacyIsConfirmed ==
    \A v \in Videos \ formed : row[v].privacy_status = confirmed[v]

(***************************************************************************)
(* What the documentation promises and the code does not keep.              *)
(***************************************************************************)

\* The same promise, with the forms: "only ever".
PrivacyIsAlwaysConfirmed ==
    \A v \in Videos : row[v].privacy_status = confirmed[v]
=============================================================================
