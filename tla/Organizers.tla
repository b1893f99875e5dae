----------------------------- MODULE Organizers -----------------------------
(***************************************************************************)
(* Who may act for an organization: the session's authentication method     *)
(* (src/src/accounts/auth_method.py), memberships and their scopes          *)
(* (events/models.py), the organizer predicates and the decorator that      *)
(* applies them to a URL (events/authz.py, decorators.py), the review       *)
(* surface's rule (videos/authz.py) and the event lookup of the management   *)
(* commands (events/cli.py).                                                *)
(*                                                                          *)
(* A request runs in steps: it finds what its URL names, decides whether    *)
(* its session may act there, loads the video and writes.  Administrators,  *)
(* logins and other requests move between any two of them.  The writes      *)
(* themselves are those of VideoReview.                                     *)
(*                                                                          *)
(* Every organizer view asks for Scope.VIDEOS.  An organization's slug is   *)
(* the organization; slugs of organizations and events stay as they are.    *)
(***************************************************************************)
EXTENDS FiniteSets

CONSTANTS
    Users,
    Organizations,
    Events,
    Slug,          \* the slug of an event: unique within an organization only
    HomeOf,        \* the organization of an event at first
    Videos,
    EventOf,       \* the event of a video
    SpeaksOn,      \* the users who are speakers on a video's talk
    Browsers,
    Requests,      \* bound: requests and commands under way at once
    Memberships,   \* what administrators may make of a user's membership
    FlagChoices,   \* what they may make of a user's flags
    Methods        \* the mechanisms login paths record

AuthMethod == {"federated", "magic_link", "password"}
Scope == {"videos", "program"}
Role == {"owner", "organizer", "viewer"}
Flags == {"active", "staff", "superuser"}

\* A stored scope no Scope member matches, as a downgrade leaves it.
Stale == "stale"

None == "none"

Membership == [role: Role, scopes: SUBSET (Scope \cup {Stale})]

\* No row of the unique (organization, user) pair.
NoMembership == [role |-> None, scopes |-> {}]

ASSUME OrganizersAssumption ==
    /\ None \notin Users \cup Organizations \cup Events \cup Videos
    /\ IsFiniteSet(Events)
    /\ HomeOf \in [Events -> Organizations]
    /\ EventOf \in [Videos -> Events]
    /\ SpeaksOn \in [Videos -> SUBSET Users]
    /\ \A e, f \in Events : e # f => <<HomeOf[e], Slug[e]>> # <<HomeOf[f], Slug[f]>>
    /\ Memberships \in [Users \X Organizations -> SUBSET (Membership \cup {NoMembership})]
    /\ FlagChoices \in [Users -> SUBSET SUBSET Flags]
    /\ Methods \subseteq AuthMethod

VARIABLES
    organization,  \* of each event
    membership,    \* of a user in an organization, or NoMembership
    flags,         \* of a user: is_active, is_staff, is_superuser
    session,       \* of a browser: its user and the recorded method
    request,       \* organizer requests, review requests and commands
    proved,        \* history: how a session's user proved who they are, since
                   \* the session is theirs and since its last magic link
    moved          \* history: events moved to another organization

vars == <<organization, membership, flags, session, request, proved, moved>>

Session == [user: Users \cup {None}, method: AuthMethod \cup {None}]

Anonymous == [user |-> None, method |-> None]

Idle == [at |-> "idle", browser |-> None, sent |-> Anonymous, named |-> None,
         event |-> None, home |-> None, video |-> None, cleared |-> {}]

Init ==
    /\ organization = HomeOf
    /\ membership \in [Users \X Organizations -> Membership \cup {NoMembership}]
    /\ \A uo \in Users \X Organizations : membership[uo] \in Memberships[uo]
    /\ flags \in [Users -> SUBSET Flags]
    /\ \A u \in Users : flags[u] \in FlagChoices[u]
    /\ session = [b \in Browsers |-> Anonymous]
    /\ request = [r \in Requests |-> Idle]
    /\ proved = [b \in Browsers |-> {}]
    /\ moved = {}

tables == <<organization, membership, flags>>

(***************************************************************************)
(* The predicates.                                                          *)
(***************************************************************************)

\* Stale names dropped before the list is looked at: nothing left is everything.
GrantedScopes_StaleIsEmpty(m) ==
    IF m.role = "owner" \/ m.scopes \cap Scope = {} THEN Scope ELSE m.scopes \cap Scope

GrantedScopes(m) ==
    IF m.role = "owner" \/ m.scopes = {} THEN Scope ELSE m.scopes \cap Scope

\* A test for the one mechanism that is not allowed.
PermitsOrganizerAccess_NotMagic(u, method) == method # "magic_link"

PermitsOrganizerAccess(u, method) ==
    \/ method = "federated"
    \/ method = "password" /\ "superuser" \in flags[u]

\* request.user: nobody, when the account is inactive.
IsAuthenticated(u) == u # None /\ "active" \in flags[u]

HasMembershipScope(u, o, scope) ==
    /\ membership[<<u, o>>] # NoMembership
    /\ scope \in GrantedScopes(membership[<<u, o>>])

HasOrgScope(s, o, scope) ==
    /\ IsAuthenticated(s.user)
    /\ PermitsOrganizerAccess(s.user, s.method)
    /\ HasMembershipScope(s.user, o, scope)

MayReview(s, v, o) ==
    /\ IsAuthenticated(s.user)
    /\ HasOrgScope(s, o, "videos") \/ s.user \in SpeaksOn[v]

(***************************************************************************)
(* Logging in.  login() drops the session of another user and keeps the     *)
(* data of the user's own.                                                  *)
(***************************************************************************)

Prove(b, u, methods) ==
    proved' = [proved EXCEPT ![b] = methods \cup IF session[b].user = u THEN @ ELSE {}]

\* consume_link without set_auth_method.
MagicLinkLogIn_Unrecorded(b, u) ==
    /\ session' = [session EXCEPT ![b] =
           [user |-> u, method |-> IF @.user = u THEN @.method ELSE None]]
    /\ proved' = [proved EXCEPT ![b] = {"magic_link"}]
    /\ UNCHANGED <<tables, request, moved>>

\* consume_link, with a link spent (see LoginTokens).
MagicLinkLogIn(b, u) ==
    /\ session' = [session EXCEPT ![b] = [user |-> u, method |-> "magic_link"]]
    /\ proved' = [proved EXCEPT ![b] = {"magic_link"}]
    /\ UNCHANGED <<tables, request, moved>>

\* A login path that records its mechanism after login(), as as_federated does.
RecordedLogIn(b, u, method) ==
    /\ method \in Methods
    /\ "active" \in flags[u]
    /\ session' = [session EXCEPT ![b] = [user |-> u, method |-> method]]
    /\ Prove(b, u, {method})
    /\ UNCHANGED <<tables, request, moved>>

\* The admin's own login form: it records nothing.
AdminLogIn(b, u) ==
    /\ {"active", "staff"} \subseteq flags[u]
    /\ session' = [session EXCEPT ![b] =
           [user |-> u, method |-> IF @.user = u THEN @.method ELSE None]]
    /\ Prove(b, u, {"password"})
    /\ UNCHANGED <<tables, request, moved>>

LogOut(b) ==
    /\ session[b] # Anonymous
    /\ session' = [session EXCEPT ![b] = Anonymous]
    /\ proved' = [proved EXCEPT ![b] = {}]
    /\ UNCHANGED <<tables, request, moved>>

(***************************************************************************)
(* The Django admin.                                                        *)
(***************************************************************************)

\* OrganizationMembership.clean.
MembershipValid(m) == m.scopes \subseteq Scope

EditMembership(u, o, m) ==
    /\ m \in Memberships[<<u, o>>]
    /\ MembershipValid(m)
    /\ membership[<<u, o>>] # m
    /\ membership' = [membership EXCEPT ![<<u, o>>] = m]
    /\ UNCHANGED <<organization, flags, session, request, proved, moved>>

EditFlags(u, f) ==
    /\ f \in FlagChoices[u]
    /\ flags[u] # f
    /\ flags' = [flags EXCEPT ![u] = f]
    /\ UNCHANGED <<organization, membership, session, request, proved, moved>>

\* EventAdmin: the slug must be free in the organization.
MoveEvent(e, o) ==
    /\ organization[e] # o
    /\ \A f \in Events \ {e} : organization[f] = o => Slug[f] # Slug[e]
    /\ organization' = [organization EXCEPT ![e] = o]
    /\ moved' = moved \cup {e}
    /\ UNCHANGED <<membership, flags, session, request, proved>>

(***************************************************************************)
(* Requests.                                                                *)
(***************************************************************************)

Step(r, fields) == request' = [request EXCEPT ![r] = fields]

Others == UNCHANGED <<tables, session, proved, moved>>

\* The event looked up by its slug alone.
Resolve_SlugAlone(o, slug) == {e \in Events : Slug[e] = slug}

Resolve(o, slug) == {e \in Events : organization[e] = o /\ Slug[e] = slug}

\* A POST to /o/<organization>/<event>/...: organizer_view resolves the pair.
\* A pair naming no event is a 404.
OrganizerRequest(r, b, o, slug, v) ==
    /\ request[r].at = "idle"
    /\ \E e \in Resolve(o, slug) :
         Step(r, [Idle EXCEPT !.at = "resolved", !.browser = b, !.sent = session[b],
                              !.named = o, !.event = e, !.home = organization[e],
                              !.video = v])
    /\ Others

\* A POST to /review/<video>/...: the video, its event and organization.
ReviewRequest(r, b, v) ==
    /\ request[r].at = "idle"
    /\ Step(r, [Idle EXCEPT !.at = "reviewing", !.browser = b, !.sent = session[b],
                            !.event = EventOf[v], !.home = organization[EventOf[v]],
                            !.video = v])
    /\ Others

\* The session as it is loaded now: the key the request came with is gone when a
\* login or logout has replaced it.
Loaded(r) ==
    LET b == request[r].browser
    IN  IF session[b] = request[r].sent THEN session[b] ELSE Anonymous

\* History: the organizations a request's user is entitled to act in, by what
\* they proved and by what their memberships say.
Entitled(r) ==
    LET b == request[r].browser  u == request[r].sent.user
    IN  {o \in Organizations :
           /\ u # None /\ "active" \in flags[u]
           /\ \/ "federated" \in proved[b]
              \/ "password" \in proved[b] /\ "superuser" \in flags[u]
           /\ membership[<<u, o>>] # NoMembership
           /\ \/ membership[<<u, o>>].role = "owner"
              \/ membership[<<u, o>>].scopes = {}
              \/ "videos" \in membership[<<u, o>>].scopes}

\* require_org_scope, and require_review_access.
Admit(r) ==
    /\ \/ /\ request[r].at = "resolved"
          /\ HasOrgScope(Loaded(r), request[r].home, "videos")
       \/ /\ request[r].at = "reviewing"
          /\ MayReview(Loaded(r), request[r].video, request[r].home)
    /\ Step(r, [request[r] EXCEPT
           !.at = IF @ = "resolved" THEN "admitted" ELSE "writing",
           !.cleared = Entitled(r)])
    /\ Others

Refuse(r) ==
    /\ \/ /\ request[r].at = "resolved"
          /\ ~HasOrgScope(Loaded(r), request[r].home, "videos")
       \/ /\ request[r].at = "reviewing"
          /\ ~MayReview(Loaded(r), request[r].video, request[r].home)
    /\ Step(r, Idle)
    /\ Others

\* get_object_or_404 by primary key alone.
Finds_AnyVideo(r) == TRUE

\* get_object_or_404(Video, pk=video_id, event=event).
Finds(r) == EventOf[request[r].video] = request[r].event

Fetch(r) ==
    /\ request[r].at = "admitted"
    /\ Step(r, IF Finds(r) THEN [request[r] EXCEPT !.at = "writing"] ELSE Idle)
    /\ Others

\* The service's save, or a command's work, is done.
Finish(r) ==
    /\ request[r].at \in {"writing", "commanded"}
    /\ Step(r, Idle)
    /\ Others

\* The first match will do.
ResolveEvent_First(o, slug) ==
    {e \in Events : Slug[e] = slug /\ (o = None \/ organization[e] = o)}

\* resolve_event: without an organization an ambiguous slug is refused.
ResolveEvent(o, slug) ==
    LET matches == {e \in Events : Slug[e] = slug /\ (o = None \/ organization[e] = o)}
    IN  IF Cardinality(matches) = 1 THEN matches ELSE {}

\* An operator means an event and runs a command with its slug, with or without
\* --organization.  named keeps, as history, the organization that was meant.
Command(r, meant, explicit) ==
    /\ request[r].at = "idle"
    /\ \E e \in ResolveEvent(IF explicit THEN organization[meant] ELSE None, Slug[meant]) :
         Step(r, [Idle EXCEPT !.at = "commanded", !.named = organization[meant],
                              !.event = e, !.home = organization[e]])
    /\ Others

Next ==
    \/ \E b \in Browsers, u \in Users :
          \/ MagicLinkLogIn(b, u)
          \/ \E method \in AuthMethod : RecordedLogIn(b, u, method)
          \/ AdminLogIn(b, u)
    \/ \E b \in Browsers : LogOut(b)
    \/ \E uo \in Users \X Organizations : \E m \in Memberships[uo] :
          EditMembership(uo[1], uo[2], m)
    \/ \E u \in Users : \E f \in FlagChoices[u] : EditFlags(u, f)
    \/ \E e \in Events, o \in Organizations : MoveEvent(e, o)
    \/ \E r \in Requests :
          \/ \E b \in Browsers, e \in Events, o \in Organizations, v \in Videos :
                OrganizerRequest(r, b, o, Slug[e], v)
          \/ \E b \in Browsers, v \in Videos : ReviewRequest(r, b, v)
          \/ Admit(r) \/ Refuse(r) \/ Fetch(r) \/ Finish(r)
          \/ \E e \in Events, explicit \in BOOLEAN : Command(r, e, explicit)

Spec == Init /\ [][Next]_vars

(***************************************************************************)
(* Properties.                                                              *)
(***************************************************************************)

Stages == {"idle", "resolved", "reviewing", "admitted", "writing", "commanded"}

Request == [at: Stages, browser: Browsers \cup {None}, sent: Session,
            named: Organizations \cup {None}, event: Events \cup {None},
            home: Organizations \cup {None}, video: Videos \cup {None},
            cleared: SUBSET Organizations]

\* Type correctness; and no two events of an organization share a slug.
TypeOK ==
    /\ organization \in [Events -> Organizations]
    /\ membership \in [Users \X Organizations -> Membership \cup {NoMembership}]
    /\ flags \in [Users -> SUBSET Flags]
    /\ session \in [Browsers -> Session]
    /\ request \in [Requests -> Request]
    /\ proved \in [Browsers -> SUBSET AuthMethod]
    /\ moved \in SUBSET Events
    /\ \A e, f \in Events :
          e # f => <<organization[e], Slug[e]>> # <<organization[f], Slug[f]>>

\* Whatever logins follow one another in a browser, a session never claims a
\* mechanism its own user has not used in it, nor one used before the magic
\* link it was opened with since.
SessionsTellHowTheyWereOpened ==
    \A b \in Browsers : session[b].method # None => session[b].method \in proved[b]

\* Whoever is about to write a video was entitled to, when the request was
\* admitted: as a speaker on its talk, or by an allowed login and a membership
\* that grants the scope in the organization the video's event belonged to.
WritersAreEntitled ==
    \A r \in Requests : request[r].at = "writing" =>
        \/ request[r].home \in request[r].cleared
        \/ request[r].named = None /\ request[r].sent.user \in SpeaksOn[request[r].video]

\* "Cross-organization access must be impossible": an organizer request writes in
\* the organization its URL names, unless an administrator moved the event.
WritesStayHome ==
    \A r \in Requests :
        request[r].at = "writing" /\ request[r].named # None =>
            LET e == EventOf[request[r].video]
            IN  e \in moved \/ organization[e] = request[r].named

\* "Guessing here would act on another organization's event": a command acts on
\* the event its operator meant, or on none.
CommandsActWhereMeant ==
    \A r \in Requests : request[r].at = "commanded" => request[r].home = request[r].named
=============================================================================
