---------------------------- MODULE Publication ----------------------------
(***************************************************************************)
(* Publishing and retracting videos: the requests and the set_privacy       *)
(* handler of src/src/videos/writes.py, with the video host on one side and *)
(* the local Video row on the other.                                        *)
(*                                                                          *)
(* Every slot is the set_privacy operation on one video.  The handler loads *)
(* and checks the row, calls the provider, reads back, and saves the row.   *)
(*                                                                          *)
(* What reviewers, organizers and syncs do to a video matters here only     *)
(* through may_be_published; VideoReview models them.  privacy_status and   *)
(* publication_state are saved together: privacyStatus stands for both.     *)
(***************************************************************************)
EXTENDS Handlers

CONSTANT StandingMoves  \* the standings reviews, syncs and deletions may give a video

Standings == {"eligible", "ineligible", "gone"}

Privacy == {"private", "unlisted", "public"}

\* _RETRACTIONS
Retractions == {"private", "unlisted"}

ASSUME PublicationAssumption ==
    /\ "public" \in Desired /\ Desired \subseteq Privacy
    /\ StandingMoves \subseteq Standings

VARIABLES
    standing,      \* of each video: may_be_published, not, or no row any more
    provider,      \* the privacy the video host has for it
    privacyStatus  \* the privacy the Video row records

videos == <<standing, provider, privacyStatus>>
pubVars == <<vars, handling, videos>>

PubInit ==
    /\ HandlersInit
    /\ standing = [s \in Slots |-> "ineligible"]
    /\ provider = [s \in Slots |-> "private"]
    /\ privacyStatus = [s \in Slots |-> "private"]

(***************************************************************************)
(* Requests, and what happens to videos meanwhile.                          *)
(***************************************************************************)

RequestPublication(s) ==
    /\ standing[s] = "eligible"
    /\ Enqueue(s, "public", FALSE)
    /\ UNCHANGED <<handling, videos>>

\* request_privacy with a retraction, which nothing gates.
RequestRetraction(s, want) ==
    /\ want \in Retractions
    /\ standing[s] # "gone"
    /\ Enqueue(s, want, FALSE)
    /\ UNCHANGED <<handling, videos>>

ChangeStanding(s, to) ==
    /\ standing[s] \notin {"gone", to}
    /\ standing' = [standing EXCEPT ![s] = to]
    /\ Overtake(s)
    /\ UNCHANGED <<provider, privacyStatus>>

(***************************************************************************)
(* The handler.                                                             *)
(***************************************************************************)

\* Eligibility trusted as it was when the write was queued.
PrivacyAllowed_TrustsQueue(w) == standing[slot[w]] # "gone"

\* The guard, read from the row of the video just loaded.
PrivacyAllowed(w) ==
    /\ standing[slot[w]] # "gone"
    /\ desired[w] \in Retractions \/ standing[slot[w]] = "eligible"

LoadForPrivacy(d) ==
    \E w \in Writes :
      /\ Loading(d, w)
      /\ PrivacyAllowed(w)
      /\ UNCHANGED videos

\* The video host applies what a drain asked for.
Applies(d) ==
    \E w \in Writes :
      /\ Busy(d, w)
      /\ provider' = [provider EXCEPT ![slot[w]] = desired[w]]

\* adapter.set_privacy returns: the call was accepted, and applied or not.
SetPrivacy(d) ==
    /\ Step(d, "loaded", "written")
    /\ Applies(d) \/ UNCHANGED provider
    /\ UNCHANGED <<vars, standing, privacyStatus, overtaken>>

\* A handler that trusts the call instead of reading back.
ReadBack_TrustsCall(d) ==
    /\ Step(d, "written", "observed")
    /\ UNCHANGED <<vars, standing, provider, privacyStatus, overtaken>>

\* adapter.fetch_video reports the desired privacy.
ReadBack(d) ==
    /\ \E w \in Writes : Busy(d, w) /\ provider[slot[w]] = desired[w]
    /\ Step(d, "written", "observed")
    /\ UNCHANGED <<vars, standing, provider, privacyStatus, overtaken>>

\* A handler that records publications only.
SaveVideo_OnlyPublic(d) ==
    \E w \in Writes :
      /\ Busy(d, w)
      /\ standing[slot[w]] # "gone"
      /\ Step(d, "observed", "saved")
      /\ privacyStatus' = [privacyStatus EXCEPT ![slot[w]] =
                               IF desired[w] = "public" THEN desired[w] ELSE @]
      /\ UNCHANGED <<vars, standing, provider, overtaken>>

\* video.save(update_fields=[...])
SaveVideo(d) ==
    \E w \in Writes :
      /\ Busy(d, w)
      /\ standing[slot[w]] # "gone"
      /\ Step(d, "observed", "saved")
      /\ privacyStatus' = [privacyStatus EXCEPT ![slot[w]] = desired[w]]
      /\ UNCHANGED <<vars, standing, provider, overtaken>>

\* The write confirmed while its handler is still at work.
SetPrivacyReturns_TooEarly(d) ==
    /\ step[d] \in {"written", "observed", "saved"}
    /\ Confirm(d)
    /\ UNCHANGED <<handling, videos>>

SetPrivacyReturns(d) ==
    /\ Step(d, "saved", "none")
    /\ Confirm(d)
    /\ UNCHANGED <<standing, provider, privacyStatus, overtaken>>

\* WriteRejected: by the guard, by the provider, or because the read back
\* finds no video.
SetPrivacyRejects(d) ==
    /\ \/ Step(d, "none", "none") /\ \E w \in Writes : Busy(d, w) /\ ~PrivacyAllowed(w)
       \/ Step(d, "loaded", "none")
       \/ Step(d, "written", "none")
    /\ HandlerFails(d, TRUE)
    /\ UNCHANGED <<standing, provider, privacyStatus, overtaken>>

\* Any other exception: the call fails before or after it took effect; the
\* read back fails, or reports another privacy; the row to save is gone.
SetPrivacyRaises(d) ==
    /\ \/ Step(d, "loaded", "none") /\ (Applies(d) \/ UNCHANGED provider)
       \/ Step(d, "written", "none") /\ UNCHANGED provider
       \/ /\ Step(d, "observed", "none")
          /\ \E w \in Writes : Busy(d, w) /\ standing[slot[w]] = "gone"
          /\ UNCHANGED provider
    /\ HandlerFails(d, FALSE)
    /\ UNCHANGED <<standing, privacyStatus, overtaken>>

\* QuotaExceeded, by the call or by the read back.
SetPrivacyOutOfQuota(d) ==
    /\ Step(d, "loaded", "none") \/ Step(d, "written", "none")
    /\ HandlerOutOfQuota(d)
    /\ UNCHANGED <<standing, provider, privacyStatus, overtaken>>

\* A crash may come while the provider call is on its way.
SetPrivacyCrashes(d) ==
    /\ Crash(d)
    /\ step' = [step EXCEPT ![d] = "none"]
    /\ (step[d] = "loaded" /\ Applies(d)) \/ UNCHANGED provider
    /\ UNCHANGED <<standing, privacyStatus, overtaken>>

PubDrainStep(d) ==
    \/ QueueStep(d) /\ UNCHANGED videos
    \/ LoadForPrivacy(d)
    \/ SetPrivacy(d)
    \/ ReadBack(d)
    \/ SaveVideo(d)
    \/ SetPrivacyReturns(d)
    \/ SetPrivacyRejects(d)
    \/ SetPrivacyRaises(d)
    \/ SetPrivacyOutOfQuota(d)

PubNext ==
    \/ \E s \in Slots : RequestPublication(s)
    \/ \E s \in Slots, want \in Desired : RequestRetraction(s, want)
    \/ \E s \in Slots, to \in StandingMoves : ChangeStanding(s, to)
    \/ \E d \in Drains : PubDrainStep(d) \/ SetPrivacyCrashes(d)
    \/ Meanwhile /\ UNCHANGED videos

PubSpec == PubInit /\ [][PubNext]_pubVars

(***************************************************************************)
(* Properties.                                                              *)
(***************************************************************************)

\* Type correctness of the videos and the handlers, and no handler outside a call.
PubTypeOK ==
    /\ standing \in [Slots -> Standings]
    /\ provider \in [Slots -> Privacy]
    /\ privacyStatus \in [Slots -> Privacy]
    /\ step \in [Drains -> {"none", "loaded", "written", "observed", "saved"}]
    /\ overtaken \subseteq Rows
    /\ \A d \in Drains : step[d] # "none" => pc[d] = "calling"

BecomesPublic(s) == provider[s] # "public" /\ provider'[s] = "public"

\* "Local state records confirmed provider state, never intent": the Video row
\* only ever moves to what the provider has at that moment, however late the
\* handler saves it.
LocalFollowsProvider ==
    [][\A s \in Slots :
          privacyStatus'[s] # privacyStatus[s] => privacyStatus'[s] = provider[s]]_pubVars

\* The queue has a write for the video that is open, or visibly failed.
Unfulfilled(s) == \E w \in RowsOf(s) : Open(w) \/ state[w] = "failed"

\* A Video row that disagrees with the provider always has a write to show for
\* it: one still open, or one visibly failed.
DivergenceIsVisible ==
    \A s \in Slots : provider[s] # privacyStatus[s] => Unfulfilled(s)

\* Once every write of a video is confirmed or superseded, and none was put back
\* by recovery or by hand, provider and Video row both have the newest intent.
QuietMeansNewest ==
    \A s \in Slots, w \in Writes :
        /\ w \in RowsOf(s) /\ Newer(w) = {}
        /\ \A v \in RowsOf(s) : state[v] \in {"confirmed", "superseded"} /\ v \notin recovered
        => provider[s] = desired[w] /\ privacyStatus[s] = desired[w]

\* However long a write waited in the queue, a video that lost its approval or
\* was marked do-not-record is not made public, unless that happened after the
\* handler read the row.
PublishesEligibleUnlessOvertaken ==
    [][\A s \in Slots : BecomesPublic(s) =>
          \/ standing[s] = "eligible"
          \/ \E w \in RowsOf(s) \cap overtaken, d \in Drains :
                Busy(d, w) /\ step[d] = "loaded"]_pubVars

\* Queue, handler and row keep the promise of ConfirmedPrivacy: provider and row
\* only move to what was asked for and what was confirmed, while a write is there
\* to show for it, and the last write of a video goes only when both agree.
Promise == INSTANCE ConfirmedPrivacy WITH
    Videos <- Slots,
    Privacies <- Privacy,
    asked <- [s \in Slots |-> {desired[w] : w \in RowsOf(s)}],
    owing <- {s \in Slots : Unfulfilled(s)},
    recorded <- privacyStatus

PrivacyIsAsPromised == Promise!Spec
=============================================================================
