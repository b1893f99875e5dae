# Verification of confdash in TLA+

confdash runs the video review and publication of a conference: it mirrors the
program from Pretalx, matches uploaded videos to talks, asks speakers to approve
them, and publishes what was approved through a queue of provider writes. This
directory models that program, checks the models with TLC and proves theorems
about them with TLAPS. Paths are relative to the repository; `PROJECT.json` maps
every definition to the lines it stands for.

## The system

| Part | State it keeps | Operations | Talks to |
| --- | --- | --- | --- |
| Provider-write queue: `integrations/outbox.py`, `ProviderWrite`, `drain_provider_writes`, the admin's retry | table of writes; in a drain: claimed rows, fetched copies, exhausted quotas | enqueue, recover stale rows, claim, call the handler, confirm, fail, defer, retry | callers in web requests; handlers; several drains share the table |
| Video-host writes: `videos/writes.py` | privacy and publication state of `Video` | request privacy or publication, `set_privacy`, captions | the queue, the video host, review state |
| Matching and review: `videos/services.py`, `views.py`, `review_views.py`, `authz.py`, `admin.py` | talk, standalone, stamps, review state, approval source of `Video` | link, mark standalone, unmatch, bulk accept, approve, request changes, admin forms | program, authorization, the handlers that write other columns of the same row |
| Title matching: `videos/matching.py` | none | score, suggest, is unambiguous | match queue, bulk acceptance |
| Program sync: `program/services.py`, `identity.py`, `providers/pretalx.py` | `Talk`, `Speaker`, their links, `SyncRun` | sync an event, claim speakers at login, edit in the admin | Pretalx; do-not-record gates publication; links gate speaker review |
| Magic links: `accounts/tokens.py`, `services.py`, `views.py` | `LoginToken` | ask, issue, look up, spend, purge | mail; login, which triggers speaker claims |
| Sessions and authorization: `accounts/auth_method.py`, `events/` | the method a session was opened with, memberships, scopes, an event's organization | log in by each path, `organizer_view`, the review rule, commands' event lookup | every organizer screen |
| Provider configuration: `integrations/models.py`, `registry.py`, `resolver.py`, `admin.py` | connections with encrypted credentials, bindings; in a request, sync or drain: a loaded copy | edit and verify a connection, bind it, resolve an adapter | queue and sync |
| Plumbing: `project/`, templates, migrations, `common/` | none | configuration, rendering | |

What is hard here:

- **No locks between load and save.** Requests load a row, decide and save a few
  columns; the admin's forms save all of them. Transactions run at READ COMMITTED.
- **A table as a queue.** Claim, call and settle are separate transactions. A drain
  may die between any two, run beside another, or be slower than the recovery
  threshold, and the provider may apply a call whose answer is lost.
- **Guards at execution.** Eligibility may change between enqueue, claim, guard and
  provider call.
- **Reports that are never consistent.** A sync reads a paginated list twice.
- **Sessions that outlive their login.** The recorded method stays in a browser while
  logins by paths that record nothing, or another, follow.
- **Configuration in use.** A sync or drain holds credentials from when it resolved them.

The hazards, each at its line, are in `PROJECT.json`, with the properties aimed at
them.

## The modules

`MC*.tla` hold constants for TLC only; `*Proofs.tla` hold theorems.

| Module | Models | Extends |
| --- | --- | --- |
| `Mailboxes` | what the queue promises, without table or drains | |
| `Outbox` | the queue, its drains and its administrators; implements `Mailboxes` | |
| `Enqueue` | `enqueue` statement by statement under row locks; implements `Outbox` | `Outbox` |
| `ConfirmedPrivacy` | what privacy writes promise, without queue or handler | |
| `Handlers` | what the handlers have in common when a drain executes them | `Outbox` |
| `Publication` | privacy writes: requests, the `set_privacy` handler, the video host; implements `ConfirmedPrivacy` | `Handlers` |
| `Captions` | caption writes: requests, the `upload_captions` handler, the video host | `Handlers` |
| `Matching` | suggestions and when one is unambiguous | |
| `VideoReview` | the `Video` table under matching, review and admin forms | `Matching` |
| `Organizers` | logins, memberships, organizer and review requests, commands | |
| `Connections` | connections, bindings, credential checks, adapters in use | |
| `ProgramSync` | `Talk`, `Speaker` and their links under syncs, logins and edits | |
| `LoginTokens` | magic links | |
| `OutboxProofs`, `EnqueueProofs` | theorems about the queue and its callers | `Outbox`, `Enqueue` |
| `WritesProofs` | theorems about both handlers | `Publication`, `Captions`, `OutboxProofs` |
| `VideoReviewProofs` | what the short list hides; the `Video` table | `VideoReview` |
| `OrganizersProofs`, `ConnectionsProofs`, `LoginTokensProofs`, `ProgramSyncProofs` | theorems about their modules | |

How they meet: the callers of `enqueue` are the video admin's two actions
(`videos/admin.py:140`, `:159`) and, for captions, nobody yet; a drain resolves its
adapter as in `Connections` and runs a handler of `Publication` or `Captions`; the
screens of `VideoReview` run behind the decisions of `Organizers`; a login by a spent link
of `LoginTokens` is `MagicLinkLogIn` of `Organizers` and claims speakers in `ProgramSync`.

### Mailboxes and Outbox

`Mailboxes` is the abstract specification: of every slot a box with at most one letter
waiting, and the letters taken out. A letter that is sent replaces the one that waits;
one that was taken out is settled, or put back where none waits; a person may send settled
ones again. `SlotsAreMailboxes` maps pending rows to boxes and rows in flight to letters
taken out.

In `Outbox` the `ProviderWrite` table is a function per column over the numbers `1 ..
MaxWrites`, in the order of `created_at`; a *slot* is the (event, target, operation)
triple of the partial unique index. Every statement or transaction of the code is an
action:

| Action | Code |
| --- | --- |
| `Enqueue` | `enqueue`: supersede what is pending and create a row, in one transaction |
| `AdminRetry` | the admin's bulk UPDATE; fails as a whole on the unique index |
| `StartDrain`, `Recover` | `requeue_stale`: the query, then one `mark_failed` per fetched row |
| `Claim` | `claim`, with any set of rows locked by others (`SKIP LOCKED`) |
| `DeferBlocked`, `CallHandler`, `Unresolvable` | the head of the loop of `drain` |
| `Confirm`, `HandlerFails`, `HandlerOutOfQuota` | what the handler returned or raised |
| `Finish`, `Crash` | the end of a drain |
| `WaitOver`, `Age` | `not_before` passes; `STALE_IN_FLIGHT` passes |

Settling writes the fetched copy by primary key, so `seen` keeps the `attempts` a
drain fetched and the save overwrites whatever the row has become. An
`IntegrityError` inside a drain kills it (`Die`). A row's `waiting` and `stale` are
the two comparisons with the clock the code makes; that is all the code can see of
time. `SlowDrains` says whether a live drain may hold a row past the threshold, which
the code asserts cannot be ("a crashed process, not a slow one") and does not ensure.

Abstracted: `desired` is a value, `result`, `last_error` and the counters of
`DrainResult` are left out. `Enqueue` is one step here; with `Races` it may create a row
equal to the pending one, which racing callers can bring about.

### Enqueue

A call looks for the pending row and locks it (`Begin`, `Look`), returns it
(`ReturnExisting`) or supersedes what is pending (`Begin`, `Supersede`) and inserts
(`Create`), or meets the unique index and starts over, once (`LoseRace`). A statement sees
what was committed when it started (`snapshot`), waits for locks, and then looks again at
the rows it found and at no others: that is READ COMMITTED. What a transaction wrote shows
when it commits, so rows superseded and row created appear together. Drains and
administrators do not touch locked rows (`Elsewhere`).

Rows are numbered by commit, where the table orders them by `created_at`; two calls that
overlap may have these the other way round, which nothing but the order of claims in one
batch can tell. A caller that waited for a locked row misses the row that replaced it, and
then replaces an equal pending intent by itself: harmless, although the comment at
`outbox.py:134` says that an equal intent is never churned. That is why `Outbox` needs `Races`.

### Handlers, ConfirmedPrivacy and Publication

`Handlers` makes room for a handler between `CallHandler` and the settling of its write: the
`step` a drain's handler is at, the load of the row behind its guard, and `overtaken`, the
writes whose video changed after that load. The steps of the queue that no handler takes
part in (`QueueStep`, `Meanwhile`) leave both alone.

`ConfirmedPrivacy` is the promise of `writes.py:10` in four actions: somebody asks (`Ask`),
the host applies something that was asked for (`Apply`), the local row records what the host
has (`Record`), and nothing is owed any more once both have something that was asked for
(`Fulfil`). `PrivacyIsAsPromised` maps the intents of a video's rows to `asked`, and videos
with a write that is open or failed to `owing`.

`Publication` unfolds the handler call into the steps of `set_privacy`: load
and guard, call, read back, save, return. The video host applies a call, does not, or
applies one whose answer is lost; the read back may report the old privacy. `standing`
is what `may_be_published` computes from review and program state, changed by the rest
of the system at any moment. The module reuses every queue action, so a drain of
`Publication` is a drain of `Outbox` with a real handler.

Nothing else changes a video at the host: a privacy set by hand in the host's own
interface is outside the model, as it is outside the code.

### Captions

The same drains with the other handler. One slot is the `upload_captions` operation of a
video, whatever the language, because that is what the unique index covers; the host
keeps a track per language. The handler does not read back, so `Replace` happens when
the call returns, or when it fails on the way back.

### Matching

How alike two titles are is a score in hundredths. `Suggestions` is the short list,
`IsUnambiguous` the confidence and the margin. That the cut to four hides no runner-up
is a theorem.

### VideoReview

One record per `Video` row with the columns that requests write. A request whose
outcome depends on the row it loaded is a *page* that keeps a copy and saves later
(`Open`, then `Approve`, `RequestChanges`, `AcceptSuggested`); one that only writes
columns (`ConfirmMatch`, `MarkStandalone`, `Unmatch`) is one step. The admin's form
has three: rendered (`Open`), posted over a freshly loaded row (`PostForm`), saved
with every column (`SaveForm`); `PostInline` is the talk's inline. `ConfirmPrivacy` is a
handler that confirmed a privacy and `ChangeSpeakers` a sync. Who is an organizer is a
constant; the scores of titles are chosen at the start and stay.

`formed` remembers the videos a form was saved on. A form saves every column of a row
loaded before, so the properties about columns that belong together are about the videos
it does not hold; the constraint is about all.

### Organizers

Each login path does to the session what it does in the code: a magic link records its
method (`MagicLinkLogIn`), other paths record theirs after `login()` (`RecordedLogIn`,
for the methods of the constant `Methods`), Django's admin login records nothing and keeps
what the user's own session had (`AdminLogIn`). An organizer request resolves its URL
(`OrganizerRequest`), is admitted or refused (`Admit`, `Refuse`), loads the video
(`Fetch`) and writes; a review request starts at the video. The session is looked at when
it is needed: a request whose session was replaced meanwhile is anonymous. `EditMembership`,
`EditFlags` and `MoveEvent` are the Django admin between any two steps. `proved` is the
history the properties compare with: how the user of a session proved who they are in it,
since the last magic link.

`plans/authentication.md:335` says that only a session opened with an operator password
passes the predicates today. No login path records `PASSWORD`, so today no session does:
the instance lets the federated and the password method be recorded, which is what the
predicates are written for. The role VIEWER is like the others for scopes, and
`can_manage` is never consulted (`plans/authentication.md:148` plans it).

### Connections

A *worker* is a request, a check, or a sync or drain that holds an adapter, with the copy
it loaded. `PostConnection` and `SaveConnection` are the admin form (the load and the
blank-means-keep of the credentials, then the save of every column); `AddConnection` the
add form; `Check` and `MarkVerified` the verify action, which calls the provider in between
and saves two columns; `PostBinding` and `SaveBinding` the binding's `clean` and save;
`ResolveAdapter` what syncs and drains do first. A secret is a value with an owner;
encryption is left out.

### LoginTokens

`Ask` and `Issue` are the two halves of `send_login_link`, with the throttle's count
in the first and the insert in the second; `LookUp`, `Claim`, `Refuse` and `LogIn` are
the POST of a link; `Purge` is the housekeeping command; `Tick` the clock. Comparisons
with `expires_at` and `created_at` keep the strictness they have in the code.

### ProgramSync

A sync is `Start` (the `SyncRun`), `FetchSpeakers` and `FetchTalks` (two passes over the
provider's pages, each possibly short), `BeginApply` (the rows its transaction reads),
`Commit` or `Fail`, and `Finish` (the outcome saved). Commit writes the *differences*
between report and rows read over the rows as they are now, which is what field-wise
updates at READ COMMITTED do; the unique constraints are `Conflict`. Logins claim
`Speaker` rows (`LinkSpeakerRecords`), organizers edit `do_not_record` (`EditTalk`).
`overlapped` and `mixed` remember which talks were last reported by a sync whose
transaction ran beside another's commit: only those may have links of two reports.

## The runs

Runs that pass:

| Run | Instance | What it shows |
| --- | --- | --- |
| `Outbox` | 2 writes, 2 slots of one event in a batch of 2, 1 drain; a crash, an exhausted quota, a retry by hand, scheduled releases | a superseded write has a successor; what a drain holds is its own; calls are bounded; order but for recovery; settled is final; slots are mailboxes; `SettledUnlessWedged` under fairness |
| `Enqueue` | 2 callers of one slot, 3 writes, 1 drain | what a caller locked stays pending; a call that returns has its intent queued, alone; it raises only when beaten twice; the queue cannot tell it from `Outbox` |
| `Publication` | 1 video, 1 drain, public and unlisted; a crash, an exhausted quota, moving eligibility | the row follows the provider, divergence is visible, quiet means newest, only eligible videos become public; queue, handler and row are `ConfirmedPrivacy` |
| `Captions` | 1 video, 3 texts in 2 languages, 1 drain; a crash, an exhausted quota, a talk opted out or a video gone | a confirmed upload did replace its track, the newest text is up, no text comes back over a fresher one, nothing is uploaded once opted out |
| `VideoReview` | 1 video, 2 talks (one clearly ahead, or by too little), organizer and speaker, every screen but approval on one page and approval on the other, a privacy confirmed and speakers changing at any moment | standalone has no talk; approval and match columns agree, and the privacy is what was confirmed, until a form is saved; bulk acceptance is clear |
| `Organizers` | 2 organizations, 3 events of which 2 share a slug, an organizer with every kind of membership and a speaker who may become one, 1 shared browser, 1 request at a time | sessions tell how they were opened, writers are entitled, writes stay in the URL's organization, commands act where meant |
| `Connections` | 2 organizations, 3 connections, 3 secrets, 1 event, 2 workers, 3 edits | credentials stay home, adapters have the capability asked for, secrets are the last entered, verified means checked |
| `LoginTokens` | 2 requests, 2 visitors, 3 tokens, the clock to 5 | a link opens one session, the throttle is exceeded by concurrent requests only |
| `ProgramSync` | 2 syncs at once and again and again, 2 provider edits, and a crash or an organizer's edit | links are one report's unless syncs overlapped, an undisturbed sync converges, runs tell the truth, nothing is taken away |

The bounds suffice because the interesting interactions are small. With two writes of one
slot one is in flight and the other pending, or one superseded and the other claimed,
which is all that the unique index lets two writes do; a third lets a caller of `Enqueue`
be beaten twice. Two workers, two syncs and two pages are every pair of steps on one
row; a second crash repeats what the first did. In `Organizers` requests share no state
but what logins and administrators change, so one at a time meets every interleaving that
matters to it. The theorems below remove the bounds for every safety property of these
runs. Every property has a mutant in `PROJECT.json`, a plausible bug in the code that TLC
finds to violate it. The type invariants are proved, and only that of `ProgramSync` is run.

Runs that show the code not keeping what its documentation says (each quoted under
"findings"):

| Run | What happens |
| --- | --- |
| `OutboxWedge` | a stale in-flight row with a pending sibling makes `requeue_stale` raise; every later drain of that scope dies before claiming |
| `CaptionLanguages` | an edit in a second language discards the pending upload of the first |
| `VideoFormPrivacy` | an admin form loaded before a drain confirmed a privacy saves the old one over it |

Other behaviours of the code that the models show, and that the properties above except
by name or do not speak of:

- Queue. Two drains of one event, which `drain_provider_writes.py:3` calls safe, take
  disjoint rows and may still execute an older write of a target after the fresher one was
  confirmed: hence `OneDrainPerEvent`.
  Recovery and manual retry do the same with one drain (`InOrderUnlessRecovered`). A drain
  slower than `STALE_IN_FLIGHT` settles a row it no longer holds (`SlowDrains`). Recovery
  charges an attempt to writes the dead drain never tried (`outbox.py:184`). Enqueueing the
  pending end state again drops the caller's `not_before` (`outbox.py:137`); no caller
  passes one. After a failed write, provider and row differ with nothing open
  (`DivergenceIsVisible` asks for a failed write to show for it).
- Videos. A video keeps its approval when it is matched to another talk, although
  `videos/models.py:171` wants an answer to who approved it and on whose behalf. The admin's
  forms approve without a source, blank a stamp or bring a cleared approval back (`formed`).
- Links and program. Concurrent requests exceed the throttle by their number; overlapping
  syncs leave links of two reports; a sync sets an organizer's do-not-record back.
- Configuration. A binding is validated when it is saved (`integrations/models.py:161`) and not again
  when its connection or event is given to another organization (`moved`) or its connection
  another capability (`recast`). Of two forms of one connection, the later save restores the
  credentials the other replaced (`overlapped`), and a form in flight re-inserts a
  connection that was deleted. `last_verified_at` outlives the replacement of the
  credentials it speaks of (`integrations/models.py:60`, `replaced`). Required settings are looked for in
  the binding's `config` alone, so an organization cannot set them once in the
  connection's as `resolver.py:49` describes. Deactivating a binding or its connection
  fails queued writes for good.

### Fairness

`Outbox` alone assumes any (`FairSpec`): cron keeps starting drains and a started drain
goes on (weak fairness of `DrainStep`), clocks advance (weak fairness of `WaitOver` and
`Age`), and row locks, held for the length of a transaction, do not meet every claim for
ever (strong fairness of `Claim` with nothing locked). Callers, administrators, crashes
and quota are under no obligation. `SettledUnlessWedged` has the wedge found by
`OutboxWedge` as its hypothesis: without it liveness fails.

`LoginTokens` runs without the deadlock check because its clock is bounded, `Connections`
because its edits are. Everywhere else the system never stops.

## What is proved

Every theorem holds for any value of the constants that satisfies the assumptions their
module names (`OutboxAssumption`, `NullAssumption`, `RacesAssumption`, `HandlersAssumption`,
`PublicationAssumption`, `CaptionsAssumption`, `ReviewAssumption`, `OrganizersAssumption`,
`ConnectionsAssumption`, `TokensAssumption`, `SyncAssumption`, `AbsentAssumption`): types,
nonempty sets where a record needs a member, a row that is absent is no row, finitely many
talks and events, scores between 0 and 100, and tables that are sound at first (slugs
unique in an organization; credentials of the organization that stores them). Three
conditions that the code relies on and does not enforce, or that its constants happen to
satisfy, are hypotheses of the theorems that need them: `OneDrainPerEvent`, `PromptDrains`
and `LongEnough`.

### The queue (`OutboxProofs`)

Any number of writes, slots, events, drains, attempts and faults, any batch limit.

| Theorem | Statement | Assumes |
| --- | --- | --- |
| `TypeCorrect` | `Spec => []TypeOK` | |
| `SupersessionKeepsIntent` | `Spec => []SupersededHasSuccessor` | |
| `DrainsHoldTheirRows` | `Spec => []HeldIsInFlight` | `OneDrainPerEvent`, `PromptDrains` |
| `SettledStaysSettled` | `Spec => SettledIsFinal` | the same |
| `QueueIsMailboxes` | `Spec => SlotsAreMailboxes` | the same |
| `AttemptsAreCapped` | `Spec => []CallsAreBounded` | the same |
| `IntentsRunInOrder` | `Spec => []InOrderUnlessRecovered` | the same |

The two hypotheses are what the code relies on and does not enforce: see the behaviours
listed above.

The argument is a chain of invariants, each inductive relative to the ones before:

1. `TypeInv`, types with the fact that drains hold rows that exist.
2. `SupersededInv`: rows are created in order, so a superseded row's successor is the
   row whose creation superseded it, or the last of the chain.
3. `HeldInv`: a drain's batch and its list of abandoned rows belong to its scope; rows
   held are in flight and fresh, rows abandoned are in flight and stale, copies agree with
   the table. With disjoint scopes nobody else can touch either. `SettledIsFinal` follows:
   every save acts on a row in flight. So does the refinement: a save of a row in flight
   is `Settle` or, where the unique index lets it, `PutBack`; `Claim` is `Take`,
   `Enqueue` is `Send`, `AdminRetry` is `SendAgain`, and all else stutters.
4. `CountInv`: calls of a write are bounded by its attempts, plus one while it is in
   flight, held by whoever is calling it; a fresh `Claim` has made no call yet.
5. `OrderInv`: what leaves the queue leaves it in order, because the unique index admits
   one pending row per slot and a new row supersedes it.

### Racing callers (`EnqueueProofs`)

Any number of calls at once, beside any number of drains.

| Theorem | Statement |
| --- | --- |
| `CallsTypeCorrect` | `ESpec => []EnqueueTypeOK` |
| `LockedRowsStayPending` | `ESpec => []HeldIsPending` |
| `RacingCallersImplementOutbox` | `ESpec => ImplementsOutbox` |
| `RacesKeepIntent` | `ESpec => []SupersededHasSuccessor` |
| `CallsQueueTheirIntent` | `ESpec => ReturnedIntentIsQueued` |
| `CallsRaiseOnlyIfBeaten` | `ESpec => RaisesOnlyIfTwiceBeaten` |

A call that inserts holds exactly the rows of its slot that are pending (`HeldIsPending`,
and the index refuses the others), so its step is `Enqueue` of `Outbox`
(`InsertIsEnqueue`); every other step leaves the queue alone or is one of its own.
Through the refinement what is proved of `Outbox` holds here too, as `RacesKeepIntent` and,
inside the proofs, `OnePending` do. That a returned intent is queued needs `FoundInv`, the row
found asks for the same; that a call raises only when beaten twice needs `BeatenInv`: a
pending row that the call does not hold arrived during this attempt, and a second attempt
means that one arrived before.

### The handlers (`WritesProofs`)

Any number of videos, writes and drains, any fault budget; the host applies a call late, not
at all, or without answering; eligibility moves at any moment.

| Theorem | Statement |
| --- | --- |
| `PublicationIsTheQueue`, `CaptionsIsTheQueue` | `PubSpec => Spec`, `CapSpec => Spec` |
| `PublicationTypes`, `CaptionTypes` | `PubSpec => []PubTypeOK`, `CapSpec => []CapTypeOK` |
| `LocalStateIsConfirmedState` | `PubSpec => LocalFollowsProvider` |
| `EligibilityIsChecked` | `PubSpec => PublishesEligibleUnlessOvertaken` |
| `DivergenceHasAWrite` | `PubSpec => []DivergenceIsVisible` |
| `QuietVideosHaveTheNewestIntent` | `PubSpec => []QuietMeansNewest` |
| `PublicationKeepsItsPromise` | `PubSpec => PrivacyIsAsPromised` |
| `OptOutIsChecked` | `CapSpec => NoUploadOnceOptedOut` |
| `ConfirmedTextsWerePushed` | `CapSpec => []ConfirmedWasPushed` |
| `QuietVideosShowTheNewestText` | `CapSpec => []NewestTextIsUp` |
| `TextsAreNotTurnedBack` | `CapSpec => TextsMoveForward` |

The first four theorems hold whoever drains; the others assume `OneDrainPerEvent` and
`PromptDrains`.

1. A handler's step is a step of `Outbox` or leaves the queue alone (`PubImplementsQueue`,
   `CapImplementsQueue`), so the queue's invariants, together `QueueInv`, come for free.
2. What a handler knows between its queries (`PrivacyKnowledge`, `UploadKnowledge`): that
   the guard passed unless the video was overtaken; after the read back, that the host has
   the privacy asked for; after the save, that the row has it too. This is inductive
   because no other drain is in a call for the same video (`HeldInv` and the disjoint
   scopes), and because steps of the queue end no call but the drain's own. It gives the
   action properties.
3. Divergence and quiet videos: while a call may have moved the host, its write is in flight;
   when it ends without a confirmation, the write is pending, failed or, by a crash, still in
   flight. So nothing but a confirmation leaves a video with nothing to show, and then host
   and row have what was confirmed. That this was the *newest* intent takes `OrderInv` and
   `SupersededInv`: with nothing put back, the last row confirmed is the last one asked for.
4. The promise: an enqueue is `Ask`; a call that takes effect, confirmed or not, is `Apply`;
   the save is `Record`; a confirmation that leaves nothing unfulfilled is `Fulfil`; the rest
   stutters. A row keeps its intent and a settled row stays settled, so nothing asked for
   is forgotten and no video stops being owed by any other step.
5. Captions are not read back: `PushedTexts` are the texts that are up, or were replaced by a
   later write's or one put back, and every confirmed text of a language is among them.
   `FreshInv` (nothing fresher than a row in a batch was pushed, unless that row was put back)
   is carried by the order in which rows leave the queue, and gives `TextsMoveForward`.

### Bulk acceptance (`VideoReviewProofs`)

| Theorem | Statement |
| --- | --- |
| `UnambiguousIsClear` | an unambiguous suggestion is ahead by `Margin` of every other talk |
| `BulkAcceptanceNeverGuesses` | `Spec => []BulkAcceptanceIsClear` |

`is_unambiguous` compares with the talks of the short list only. The short list exists
(`ShortListExists`: take the best talk four times). A talk it leaves out is either no
candidate, and then below `Minimum`, or no better than each listed talk; as four are
listed, one of them is a runner-up that the margin was held against. A short list of one
would break this, which is the mutant of the run.

### The Video table (`VideoReviewProofs`)

| Theorem | Statement |
| --- | --- |
| `TypeCorrect` | `Spec => []TypeOK` |
| `NoSaveViolatesTheConstraint` | `Spec => []StandaloneHasNoTalk` |
| `ApprovalsAgree` | `Spec => []ApprovalColumnsAgree` |
| `MatchesAreStamped` | `Spec => []MatchColumnsAgree` |
| `RequestsLeavePrivacy` | `Spec => []PrivacyIsConfirmed` |

Types need that a page of bulk acceptance has a talk to link (`AcceptsATalk`). The
constraint is inductive once what a form is about to save is known to be clean too
(`SavedFormsAreClean`): a posted form was validated, and the talk inline starts from a
row of the table. The other three are one invariant, `ColumnsInv`, about the videos no
form was saved on: each service writes a group of columns that agree, and leaves the
other groups as they are now. `VideoFormPrivacy` shows that the exception cannot be dropped
for the privacy.

### Sessions and organizers (`OrganizersProofs`)

| Theorem | Statement |
| --- | --- |
| `TypeCorrect` | `Spec => []TypeOK` |
| `SessionsAreTruthful` | `Spec => []SessionsTellHowTheyWereOpened` |
| `OnlyTheEntitledWrite` | `Spec => []WritersAreEntitled` |
| `RequestsStayHome` | `Spec => []WritesStayHome` |
| `CommandsDoNotGuess` | `Spec => []CommandsActWhereMeant` |

A session's method is one that its user proved, through every login path. The predicates
are sound when asked (`PredicateIsSound`): a session they permit was opened as it says.
The decision travels with the request (`EntitledOnTheWay`) because nothing between it and
the write reads anything else; a request's event is the one its URL named, in the
organization it named unless moved since (`HomeOnTheWay`). `BrowsersKnown` says that
the request being decided came from a browser, whose session it is compared with.
Events must be finitely many for a command to count its matches.

### Connections (`ConnectionsProofs`)

| Theorem | Statement |
| --- | --- |
| `TypeCorrect` | `Spec => []TypeOK` |
| `SecretsStayHome` | `Spec => []CredentialsStayHome` |
| `AdaptersFit` | `Spec => []AdapterHasTheCapability` |
| `EntriesLast` | `Spec => []SecretIsTheLastEntered` |
| `ChecksCoverSecrets` | `Spec => []VerifiedWasChecked` |

What workers hold was in the table when they loaded it (`KnownInv`), so the properties are
carried by invariants about the copies: `OwnSecrets` and `OwnCopies` say of rows, forms
and bindings about to be saved, and adapters, that secrets belong to the organization
named, or that the exception was noted; `Fitting` says the same of capabilities;
`SecretInv` that a form which keeps a secret keeps the last entered or overlaps;
`CheckInv` that what a check is about to stamp was checked.

### Magic links (`LoginTokensProofs`)

| Theorem | Statement |
| --- | --- |
| `TypeCorrect` | `Spec => []TypeOK` |
| `LinksAreSingleUse` | `Spec => []SingleUse` |
| `ThrottleIsKept` | `Spec => []ThrottleHolds`, if `LongEnough` |

`SingleUse` is not inductive: it takes that whoever claimed a token is alone with it and
not signed in yet (`ClaimsAreExclusive`), and that a token that opened a session is spent
(`LoginsSpend`). The conditional UPDATE gives the first, and nothing gives a token back.

`ThrottleHolds` counts links by when they were issued, purged ones included, where the code
counts the rows that are left. They agree because a token of the throttle's window is still
stored (`CountedIsStored`): it lives at least as long as the window, and the purge deletes
what expired strictly before now. That is `LongEnough`, and it is tight: `SELF_SERVICE_TTL` equals
`THROTTLE_WINDOW`. The bound itself is inductive once requests past the throttle are
counted with the links of a window that is still open (`RoomInWindow`).

### Program sync (`ProgramSyncProofs`)

Any number of talks, speakers and syncs, reports that miss or repeat anything, any crash.

| Theorem | Statement |
| --- | --- |
| `TypeCorrect` | `Spec => []TypeOK` |
| `NothingIsEverTakenAway` | `Spec => NothingIsTakenAway` |
| `RunsTellTheTruth` | `Spec => []RunTellsTheTruth` |
| `LinksComeFromOneReport` | `Spec => []LinksAreOneReport` |
| `QuietSyncsConverge` | `Spec => []QuietSyncConverges` |

Types include that links lead to rows, which rests on syncs never deleting: the rows
a transaction read are still there when it commits (`SnapshotsArePast`). A commit writes
differences, so links are one report's when the transaction saw the links as they are
(`UndisturbedSee`), which every commit beside it puts an end to and records in
`overlapped`. `QuietInv` follows a sync that nothing disturbed through its steps: what it
fetched is what the provider has, what it read is what the tables have, and so its commit
brings the second to the first (`CommitConverges`). Logins write the user of a speaker,
which no sync compares.

## What is only model-checked

Liveness (`SettledUnlessWedged`) is beyond the prover. It is the only property of a passing
run that no theorem states; the three runs that end in a violation have nothing to prove.

## What is not modelled

- The similarity of two strings and the normalisation of pasted references: text
  processing, which the models take as scores and as given.
- Creating and deleting videos, organizations and events, and changing their slugs, in
  the admin; editing a binding, as opposed to replacing or deleting it; local edits of
  speakers and links; an empty credentials object, which erases what is stored.
- Hashing and encryption, validation of return URLs, rendering, logging and settings.
- The video host's adapter, which is not written; `Publication` and `Captions` model what
  their handlers rely on.

## Plan

1. `VideoReview`'s `may_be_published` as the `standing` of `Publication`.
2. Larger instances of `Organizers` (two requests and two browsers) and of `Enqueue` (two
   slots), where the time of a run allows.
3. The remaining admin operations: bindings edited in place, local edits of speakers.
