------------------------------ MODULE Captions ------------------------------
(***************************************************************************)
(* Pushing corrected captions: request_caption_upload and the               *)
(* upload_captions handler of src/src/videos/writes.py, with the video host *)
(* on one side.                                                             *)
(*                                                                          *)
(* Every slot is the upload_captions operation on one video, whatever the   *)
(* language.  A caption text is a member of Desired and has a language; the *)
(* video host keeps one track per language.  Unlike set_privacy the handler *)
(* reads nothing back: it trusts the track id the adapter returns, and so   *)
(* does this module: a call that returns has replaced the track.            *)
(*                                                                          *)
(* Syncs, organizers and deletions matter here through the do_not_record of *)
(* the video's talk, and through whether there is a row at all.             *)
(***************************************************************************)
EXTENDS Handlers

CONSTANTS
    Languages,
    LanguageOf,  \* the language of a caption text
    NoTrack

ASSUME CaptionsAssumption ==
    /\ LanguageOf \in [Desired -> Languages]
    /\ NoTrack \notin Desired

Guards == {"open", "opted out", "gone"}

VARIABLES
    guard,    \* of each video: captions allowed, do_not_record, or no row any more
    tracks,   \* the tracks the video host has
    uploaded  \* history: writes whose text replaced a track

captions == <<guard, tracks, uploaded>>
capVars == <<vars, handling, captions>>

CapInit ==
    /\ HandlersInit
    /\ guard = [s \in Slots |-> "open"]
    /\ tracks = [s \in Slots |-> [l \in Languages |-> NoTrack]]
    /\ uploaded = {}

\* request_caption_upload looks at the text only: an empty one is refused.
RequestCaptionUpload(s, text) ==
    /\ guard[s] # "gone"
    /\ Enqueue(s, text, FALSE)
    /\ UNCHANGED <<handling, captions>>

ChangeGuard(s, to) ==
    /\ guard[s] \notin {"gone", to}
    /\ guard' = [guard EXCEPT ![s] = to]
    /\ Overtake(s)
    /\ UNCHANGED <<tracks, uploaded>>

(***************************************************************************)
(* The handler.                                                             *)
(***************************************************************************)

\* A guard that only looks for the video.
UploadAllowed_IgnoresOptOut(w) == guard[slot[w]] # "gone"

\* _video_for, and do_not_record of the row just loaded.
UploadAllowed(w) == guard[slot[w]] = "open"

LoadForUpload(d) ==
    \E w \in Writes :
      /\ Loading(d, w)
      /\ UploadAllowed(w)
      /\ UNCHANGED captions

\* The video host replaces the track of the language.
Replace(w) ==
    /\ tracks' = [tracks EXCEPT ![slot[w]] = [@ EXCEPT ![LanguageOf[desired[w]]] = desired[w]]]
    /\ uploaded' = uploaded \cup {w}

Untouched == UNCHANGED <<tracks, uploaded>>

\* adapter.upload_captions returns a track id.
UploadCaptions(d) ==
    \E w \in Writes :
      /\ Busy(d, w)
      /\ Step(d, "loaded", "uploaded")
      /\ Replace(w)
      /\ UNCHANGED <<vars, guard, overtaken>>

\* A handler that takes a call it did not make for an upload.
UploadReturns_Unsent(d) ==
    /\ \E from \in {"loaded", "uploaded"} : Step(d, from, "none")
    /\ Confirm(d)
    /\ UNCHANGED <<guard, tracks, uploaded, overtaken>>

UploadReturns(d) ==
    /\ Step(d, "uploaded", "none")
    /\ Confirm(d)
    /\ UNCHANGED <<guard, tracks, uploaded, overtaken>>

\* WriteRejected, by the guard or by the provider.
UploadRejects(d) ==
    /\ \/ Step(d, "none", "none") /\ \E w \in Writes : Busy(d, w) /\ ~UploadAllowed(w)
       \/ Step(d, "loaded", "none")
    /\ HandlerFails(d, TRUE)
    /\ UNCHANGED <<guard, tracks, uploaded, overtaken>>

\* Any other exception, before or after the call took effect.
UploadRaises(d) ==
    \E w \in Writes :
      /\ Busy(d, w)
      /\ Step(d, "loaded", "none")
      /\ HandlerFails(d, FALSE)
      /\ Replace(w) \/ Untouched
      /\ UNCHANGED <<guard, overtaken>>

UploadOutOfQuota(d) ==
    /\ Step(d, "loaded", "none")
    /\ HandlerOutOfQuota(d)
    /\ UNCHANGED <<guard, tracks, uploaded, overtaken>>

\* A crash may come while the upload is on its way.
UploadCrashes(d) ==
    /\ Crash(d)
    /\ step' = [step EXCEPT ![d] = "none"]
    /\ \/ step[d] = "loaded" /\ \E w \in Writes : Busy(d, w) /\ Replace(w)
       \/ Untouched
    /\ UNCHANGED <<guard, overtaken>>

CapNext ==
    \/ \E s \in Slots, text \in Desired : RequestCaptionUpload(s, text)
    \/ \E s \in Slots, to \in Guards : ChangeGuard(s, to)
    \/ \E d \in Drains :
          \/ QueueStep(d) /\ UNCHANGED captions
          \/ LoadForUpload(d) \/ UploadCaptions(d)
          \/ UploadReturns(d) \/ UploadRejects(d) \/ UploadRaises(d)
          \/ UploadOutOfQuota(d) \/ UploadCrashes(d)
    \/ Meanwhile /\ UNCHANGED captions

CapSpec == CapInit /\ [][CapNext]_capVars

(***************************************************************************)
(* Properties.                                                              *)
(***************************************************************************)

\* Type correctness of the videos, the host and the handlers.
CapTypeOK ==
    /\ guard \in [Slots -> Guards]
    /\ tracks \in [Slots -> [Languages -> Desired \cup {NoTrack}]]
    /\ step \in [Drains -> {"none", "loaded", "uploaded"}]
    /\ uploaded \subseteq Rows /\ overtaken \subseteq Rows
    /\ \A d \in Drains : step[d] # "none" => pc[d] = "calling"

Language(w) == LanguageOf[desired[w]]

\* The content hash stored with a confirmed write answers "whether this exact
\* text was pushed": it was, and it is still what viewers see unless a later
\* write of its language, or one that was put back, replaced it.
ConfirmedWasPushed ==
    \A w \in Writes : state[w] = "confirmed" =>
        /\ w \in uploaded
        /\ \/ tracks[slot[w]][Language(w)] = desired[w]
           \/ \E v \in uploaded \ {w} : /\ slot[v] = slot[w] /\ Language(v) = Language(w)
                                        /\ v > w \/ v \in recovered

\* Once every write of a video is confirmed or superseded, and none was put back
\* by recovery or by hand, viewers see the text asked for last.
NewestTextIsUp ==
    \A s \in Slots, w \in Writes :
        /\ w \in RowsOf(s) /\ Newer(w) = {}
        /\ \A v \in RowsOf(s) : state[v] \in {"confirmed", "superseded"} /\ v \notin recovered
        => tracks[s][Language(w)] = desired[w]

\* No captions reach a video that is marked do-not-record when the handler looks
\* at it, however long the upload waited in the queue.
NoUploadOnceOptedOut ==
    [][\A s \in Slots : tracks'[s] # tracks[s] =>
          \/ guard[s] = "open"
          \/ \E w \in RowsOf(s) \cap overtaken, d \in Drains : Busy(d, w) /\ step[d] = "loaded"]_capVars

\* Viewers never go back in time: a text gets up only from a write in flight that
\* no fresher write of its video was pushed before, confirmed or not, unless
\* recovery or an administrator put that write back.
TextsMoveForward ==
    [][\A s \in Slots, l \in Languages : tracks'[s][l] # tracks[s][l] =>
          \E w \in RowsOf(s) :
             /\ state[w] = "in_flight"
             /\ Language(w) = l /\ desired[w] = tracks'[s][l]
             /\ Newer(w) \cap uploaded = {} \/ w \in recovered]_capVars

(***************************************************************************)
(* What the documentation promises and the code does not keep.              *)
(***************************************************************************)

\* "There is no window where a speaker's caption edit is saved but the intent to
\* push it is lost": once every write of a video is confirmed or superseded, and
\* none was put back, viewers see the last text asked for in every language.
NoEditIsLost ==
    \A s \in Slots : \A w \in RowsOf(s) :
        /\ \A v \in Newer(w) : Language(v) # Language(w)
        /\ \A v \in RowsOf(s) : state[v] \in {"confirmed", "superseded"} /\ v \notin recovered
        => tracks[s][Language(w)] = desired[w]
=============================================================================
