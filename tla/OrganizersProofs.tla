-------------------------- MODULE OrganizersProofs --------------------------
(***************************************************************************)
(* Proofs about Organizers, for any number of users, organizations, events,  *)
(* browsers and requests.                                                   *)
(***************************************************************************)
EXTENDS Organizers, FiniteSetTheorems, TLAPS

USE OrganizersAssumption DEF None

\* What is known of a request on its way to a write, or of a command.
EntitledOnTheWay ==
    \A r \in Requests :
        /\ request[r].at = "reviewing" => request[r].named = None
        /\ request[r].at = "admitted" => request[r].home \in request[r].cleared

BrowsersKnown ==
    \A r \in Requests : request[r].at \in {"resolved", "reviewing"} =>
        request[r].browser \in Browsers /\ request[r].home \in Organizations

HomeOnTheWay ==
    \A r \in Requests :
        LET q == request[r]
        IN  /\ q.at = "reviewing" => q.named = None
            /\ q.at \in {"resolved", "admitted", "writing"} /\ q.named # None =>
                 /\ q.event \in Events
                 /\ q.event \in moved \/ organization[q.event] = q.named
            /\ q.at = "writing" /\ q.named # None => EventOf[q.video] = q.event

LEMMA NewRequest ==
  /\ Idle \in Request
  /\ Anonymous \in Session
  BY DEF Idle, Anonymous, Request, Session, Stages

LEMMA CommandTyped ==
  ASSUME NEW q \in Request, NEW o \in Organizations, NEW e \in Events, NEW h \in Organizations
  PROVE  [q EXCEPT !.at = "commanded", !.named = o, !.event = e, !.home = h] \in Request
  BY DEF Request, Stages

LEMMA InitTyped == Init => TypeOK
  BY NewRequest DEF Init, TypeOK, Anonymous, Session

LEMMA StepTyped ==
  ASSUME TypeOK, NEW r \in Requests, NEW q \in Request, Step(r, q), Others
  PROVE  TypeOK'
  BY DEF TypeOK, Step, Others, tables

LEMMA LogInTyped ==
  ASSUME TypeOK, NEW b \in Browsers, NEW s \in Session, NEW m \in SUBSET AuthMethod,
         session' = [session EXCEPT ![b] = s],
         proved' = [proved EXCEPT ![b] = m],
         UNCHANGED <<tables, request, moved>>
  PROVE  TypeOK'
  BY DEF TypeOK, tables

LEMMA TypeStays ==
  ASSUME TypeOK, [Next]_vars
  PROVE  TypeOK'
  <1>1. ASSUME NEW b \in Browsers, NEW u \in Users, MagicLinkLogIn(b, u)
        PROVE  TypeOK'
    <2>1. [user |-> u, method |-> "magic_link"] \in Session
      BY DEF Session, AuthMethod
    <2>2. {"magic_link"} \in SUBSET AuthMethod
      BY DEF AuthMethod
    <2> QED
      BY <1>1, <2>1, <2>2, LogInTyped DEF MagicLinkLogIn
  <1>2. ASSUME NEW b \in Browsers, NEW u \in Users, NEW method \in AuthMethod,
               RecordedLogIn(b, u, method)
        PROVE  TypeOK'
    <2>1. [user |-> u, method |-> method] \in Session
      BY DEF Session
    <2>2. {method} \cup (IF session[b].user = u THEN proved[b] ELSE {}) \in SUBSET AuthMethod
      BY DEF TypeOK
    <2> QED
      BY <1>2, <2>1, <2>2, LogInTyped DEF RecordedLogIn, Prove
  <1>3. ASSUME NEW b \in Browsers, NEW u \in Users, AdminLogIn(b, u)
        PROVE  TypeOK'
    <2>1. [user |-> u, method |-> IF session[b].user = u THEN session[b].method ELSE None]
            \in Session
      BY DEF Session, TypeOK
    <2>2. {"password"} \cup (IF session[b].user = u THEN proved[b] ELSE {}) \in SUBSET AuthMethod
      BY DEF TypeOK, AuthMethod
    <2> QED
      BY <1>3, <2>1, <2>2, LogInTyped DEF AdminLogIn, Prove
  <1>4. ASSUME NEW b \in Browsers, LogOut(b)
        PROVE  TypeOK'
    <2>1. {} \in SUBSET AuthMethod
      OBVIOUS
    <2> QED
      BY <1>4, <2>1, NewRequest, LogInTyped DEF LogOut
  <1>5. ASSUME NEW uo \in Users \X Organizations, NEW m \in Memberships[uo],
               EditMembership(uo[1], uo[2], m)
        PROVE  TypeOK'
    <2>1. uo = <<uo[1], uo[2]>>
      OBVIOUS
    <2>2. m \in Membership \cup {NoMembership}
      OBVIOUS
    <2>3. membership' = [membership EXCEPT ![uo] = m]
      BY <1>5, <2>1 DEF EditMembership
    <2> QED
      BY <1>5, <2>2, <2>3 DEF EditMembership, TypeOK
  <1>6. ASSUME NEW u \in Users, NEW f \in FlagChoices[u], EditFlags(u, f)
        PROVE  TypeOK'
    BY <1>6 DEF EditFlags, TypeOK
  <1>7. ASSUME NEW e \in Events, NEW o \in Organizations, MoveEvent(e, o)
        PROVE  TypeOK'
    <2>1. \A f, g \in Events :
            f # g => <<organization'[f], Slug[f]>> # <<organization'[g], Slug[g]>>
      BY <1>7 DEF MoveEvent, TypeOK
    <2> QED
      BY <1>7, <2>1 DEF MoveEvent, TypeOK
  <1>8. ASSUME NEW r \in Requests, NEW b \in Browsers, NEW e \in Events,
               NEW o \in Organizations, NEW v \in Videos,
               OrganizerRequest(r, b, o, Slug[e], v)
        PROVE  TypeOK'
    <2>1. PICK f \in Resolve(o, Slug[e]) :
            Step(r, [Idle EXCEPT !.at = "resolved", !.browser = b, !.sent = session[b],
                                 !.named = o, !.event = f, !.home = organization[f],
                                 !.video = v])
      BY <1>8 DEF OrganizerRequest
    <2>2. [Idle EXCEPT !.at = "resolved", !.browser = b, !.sent = session[b],
                       !.named = o, !.event = f, !.home = organization[f],
                       !.video = v] \in Request
      BY <2>1 DEF Idle, Request, Stages, Resolve, TypeOK
    <2> QED
      BY <1>8, <2>1, <2>2, StepTyped DEF OrganizerRequest
  <1>9. ASSUME NEW r \in Requests, NEW b \in Browsers, NEW v \in Videos, ReviewRequest(r, b, v)
        PROVE  TypeOK'
    <2>1. [Idle EXCEPT !.at = "reviewing", !.browser = b, !.sent = session[b],
                       !.event = EventOf[v], !.home = organization[EventOf[v]],
                       !.video = v] \in Request
      BY DEF Idle, Request, Stages, TypeOK
    <2> QED
      BY <1>9, <2>1, StepTyped DEF ReviewRequest
  <1>10. ASSUME NEW r \in Requests, Admit(r)
         PROVE  TypeOK'
    <2>1. request[r] \in Request /\ Entitled(r) \subseteq Organizations
      BY DEF TypeOK, Entitled
    <2>2. [request[r] EXCEPT !.at = IF @ = "resolved" THEN "admitted" ELSE "writing",
                             !.cleared = Entitled(r)] \in Request
      BY <2>1 DEF Request, Stages
    <2> QED
      BY <1>10, <2>2, StepTyped DEF Admit
  <1>11. ASSUME NEW r \in Requests, Refuse(r) \/ Finish(r)
         PROVE  TypeOK'
    BY <1>11, NewRequest, StepTyped DEF Refuse, Finish
  <1>12. ASSUME NEW r \in Requests, Fetch(r)
         PROVE  TypeOK'
    <2>1. request[r] \in Request
      BY DEF TypeOK
    <2>2. [request[r] EXCEPT !.at = "writing"] \in Request
      BY <2>1 DEF Request, Stages
    <2> QED
      BY <1>12, <2>2, NewRequest, StepTyped DEF Fetch
  <1>13. ASSUME NEW r \in Requests, NEW e \in Events, NEW explicit \in BOOLEAN,
                Command(r, e, explicit)
         PROVE  TypeOK'
    <2>1. PICK f \in Events :
            Step(r, [Idle EXCEPT !.at = "commanded", !.named = organization[e],
                                 !.event = f, !.home = organization[f]])
      BY <1>13 DEF Command, ResolveEvent
    <2>2. [Idle EXCEPT !.at = "commanded", !.named = organization[e],
                       !.event = f, !.home = organization[f]] \in Request
      BY NewRequest, CommandTyped DEF TypeOK
    <2> QED
      BY <1>13, <2>1, <2>2, StepTyped DEF Command
  <1>14. CASE UNCHANGED vars
    BY <1>14 DEF vars, TypeOK
  <1> QED
    BY <1>1, <1>2, <1>3, <1>4, <1>5, <1>6, <1>7, <1>8, <1>9, <1>10, <1>11, <1>12, <1>13, <1>14
    DEF Next

\* The tables, the sessions and the requests keep their types, and no two events
\* of an organization come to share a slug, for any number of them.
THEOREM TypeCorrect == Spec => []TypeOK
  <1> QED
    BY InitTyped, TypeStays, PTL DEF Spec

(***************************************************************************)
(* Sessions and what was proved in them.                                    *)
(***************************************************************************)

LEMMA SessionsStay ==
  ASSUME TypeOK, SessionsTellHowTheyWereOpened, [Next]_vars
  PROVE  SessionsTellHowTheyWereOpened'
  <1>1. ASSUME NEW b \in Browsers, NEW u \in Users,
               \/ MagicLinkLogIn(b, u)
               \/ \E method \in AuthMethod : RecordedLogIn(b, u, method)
               \/ AdminLogIn(b, u)
        PROVE  SessionsTellHowTheyWereOpened'
    <2>1. CASE MagicLinkLogIn(b, u)
      BY <2>1 DEF MagicLinkLogIn, TypeOK, SessionsTellHowTheyWereOpened
    <2>2. ASSUME NEW method \in AuthMethod, RecordedLogIn(b, u, method)
          PROVE  SessionsTellHowTheyWereOpened'
      BY <2>2 DEF RecordedLogIn, Prove, TypeOK, SessionsTellHowTheyWereOpened
    <2>3. CASE AdminLogIn(b, u)
      BY <2>3 DEF AdminLogIn, Prove, TypeOK, SessionsTellHowTheyWereOpened
    <2> QED
      BY <1>1, <2>1, <2>2, <2>3
  <1>2. ASSUME NEW b \in Browsers, LogOut(b)
        PROVE  SessionsTellHowTheyWereOpened'
    BY <1>2 DEF LogOut, Anonymous, TypeOK, SessionsTellHowTheyWereOpened
  <1>3. CASE UNCHANGED <<session, proved>>
    BY <1>3 DEF SessionsTellHowTheyWereOpened
  <1> QED
    BY <1>1, <1>2, <1>3 DEF Next, vars, EditMembership, EditFlags, MoveEvent, OrganizerRequest,
       ReviewRequest, Admit, Refuse, Fetch, Finish, Command, Others

\* However logins by every path follow one another in a browser, its session never
\* claims a mechanism its user has not used in it since the last magic link.
THEOREM SessionsAreTruthful == Spec => []SessionsTellHowTheyWereOpened
  <1>1. Init => SessionsTellHowTheyWereOpened
    BY DEF Init, Anonymous, SessionsTellHowTheyWereOpened
  <1> QED
    BY <1>1, SessionsStay, TypeCorrect, PTL DEF Spec

(***************************************************************************)
(* Requests: what a step does to each of them.                              *)
(***************************************************************************)

\* Whoever passes an organizer predicate is entitled by what they proved and by
\* what their membership grants.
LEMMA PredicateIsSound ==
  ASSUME TypeOK, SessionsTellHowTheyWereOpened, NEW r \in Requests,
         request[r].browser \in Browsers, request[r].home \in Organizations,
         HasOrgScope(Loaded(r), request[r].home, "videos")
  PROVE  request[r].home \in Entitled(r)
  <1> DEFINE b == request[r].browser
             s == session[b]
             m == membership[<<request[r].sent.user, request[r].home>>]
  <1>1. s = request[r].sent /\ Loaded(r) = s
    BY DEF Loaded, HasOrgScope, IsAuthenticated, Anonymous
  <1>2. s.user # None /\ "active" \in flags[s.user]
    BY <1>1 DEF HasOrgScope, IsAuthenticated
  <1>3. \/ "federated" \in proved[b]
        \/ "password" \in proved[b] /\ "superuser" \in flags[s.user]
    BY <1>1 DEF HasOrgScope, PermitsOrganizerAccess, SessionsTellHowTheyWereOpened
  <1>4. m # NoMembership /\ "videos" \in GrantedScopes(m)
    BY <1>1 DEF HasOrgScope, HasMembershipScope
  <1>5. m.role = "owner" \/ m.scopes = {} \/ "videos" \in m.scopes
    BY <1>4 DEF GrantedScopes
  <1> QED
    BY <1>1, <1>2, <1>3, <1>4, <1>5 DEF Entitled

\* What changes a request.
RequestMoves(r) ==
    \/ \E b \in Browsers, e \in Events, o \in Organizations, v \in Videos :
          OrganizerRequest(r, b, o, Slug[e], v)
    \/ \E b \in Browsers, v \in Videos : ReviewRequest(r, b, v)
    \/ Admit(r) \/ Refuse(r) \/ Fetch(r) \/ Finish(r)
    \/ \E e \in Events, explicit \in BOOLEAN : Command(r, e, explicit)

LEMMA RequestsMove ==
  ASSUME [Next]_vars
  PROVE  request' = request \/ \E r \in Requests : RequestMoves(r)
  BY DEF Next, vars, RequestMoves, MagicLinkLogIn, RecordedLogIn, AdminLogIn, LogOut,
         EditMembership, EditFlags, MoveEvent

\* An event that changes organizations is noted, and requests change none.
LEMMA MovesAreNoted ==
  ASSUME TypeOK, [Next]_vars
  PROVE  /\ \A e \in Events : organization'[e] = organization[e] \/ e \in moved'
         /\ moved \subseteq moved'
  <1>1. ASSUME NEW e \in Events, NEW o \in Organizations, MoveEvent(e, o)
        PROVE  /\ \A f \in Events : organization'[f] = organization[f] \/ f \in moved'
               /\ moved \subseteq moved'
    BY <1>1 DEF MoveEvent, TypeOK
  <1>2. CASE UNCHANGED <<organization, moved>>
    BY <1>2
  <1> QED
    BY <1>1, <1>2 DEF Next, vars, tables, MagicLinkLogIn, RecordedLogIn, AdminLogIn, LogOut,
       EditMembership, EditFlags, OrganizerRequest, ReviewRequest, Admit, Refuse, Fetch, Finish,
       Command, Others

LEMMA EntitlementStays ==
  ASSUME TypeOK, SessionsTellHowTheyWereOpened, WritersAreEntitled, EntitledOnTheWay,
         BrowsersKnown, [Next]_vars
  PROVE  WritersAreEntitled' /\ EntitledOnTheWay' /\ BrowsersKnown'
  <1> DEFINE Ok(q) ==
        /\ q.at = "writing" => \/ q.home \in q.cleared
                               \/ q.named = None /\ q.sent.user \in SpeaksOn[q.video]
        /\ q.at = "reviewing" => q.named = None
        /\ q.at = "admitted" => q.home \in q.cleared
        /\ q.at \in {"resolved", "reviewing"} => q.browser \in Browsers /\ q.home \in Organizations
  <1>1. \A r \in Requests : Ok(request[r])
    BY DEF WritersAreEntitled, EntitledOnTheWay, BrowsersKnown
  <1>2. (\A r \in Requests : Ok(request'[r])) =>
            WritersAreEntitled' /\ EntitledOnTheWay' /\ BrowsersKnown'
    BY DEF WritersAreEntitled, EntitledOnTheWay, BrowsersKnown
  <1>3. Ok(Idle)
    BY DEF Idle
  <1>4. ASSUME NEW r \in Requests, NEW q, Ok(q), Step(r, q)
        PROVE  \A p \in Requests : Ok(request'[p])
    <2>1. \A p \in Requests : request'[p] = IF p = r THEN q ELSE request[p]
      BY <1>4 DEF Step, TypeOK
    <2> HIDE DEF Ok
    <2> QED
      BY <1>1, <1>4, <2>1
  <1>5. ASSUME NEW r \in Requests, NEW b \in Browsers, NEW e \in Events,
               NEW o \in Organizations, NEW v \in Videos,
               OrganizerRequest(r, b, o, Slug[e], v)
        PROVE  \A p \in Requests : Ok(request'[p])
    <2>1. PICK f \in Resolve(o, Slug[e]) :
            Step(r, [Idle EXCEPT !.at = "resolved", !.browser = b, !.sent = session[b],
                                 !.named = o, !.event = f, !.home = organization[f],
                                 !.video = v])
      BY <1>5 DEF OrganizerRequest
    <2>2. organization[f] \in Organizations
      BY <2>1 DEF Resolve, TypeOK
    <2>3. Ok([Idle EXCEPT !.at = "resolved", !.browser = b, !.sent = session[b],
                          !.named = o, !.event = f, !.home = organization[f],
                          !.video = v])
      BY <2>2 DEF Idle
    <2> HIDE DEF Ok
    <2> QED
      BY <1>4, <2>1, <2>3
  <1>6. ASSUME NEW r \in Requests, NEW b \in Browsers, NEW v \in Videos, ReviewRequest(r, b, v)
        PROVE  \A p \in Requests : Ok(request'[p])
    <2>1. Ok([Idle EXCEPT !.at = "reviewing", !.browser = b, !.sent = session[b],
                          !.event = EventOf[v], !.home = organization[EventOf[v]],
                          !.video = v])
      BY DEF Idle, TypeOK
    <2> HIDE DEF Ok
    <2> QED
      BY <1>4, <1>6, <2>1 DEF ReviewRequest
  <1>7. ASSUME NEW r \in Requests, Admit(r)
        PROVE  \A p \in Requests : Ok(request'[p])
    <2> DEFINE q == [request[r] EXCEPT !.at = IF @ = "resolved" THEN "admitted" ELSE "writing",
                                       !.cleared = Entitled(r)]
    <2>1. request[r] \in Request
      BY DEF TypeOK
    <2>2. /\ q.at = (IF request[r].at = "resolved" THEN "admitted" ELSE "writing")
          /\ q.cleared = Entitled(r)
          /\ q.home = request[r].home /\ q.named = request[r].named
          /\ q.sent = request[r].sent /\ q.video = request[r].video
      BY <2>1 DEF Request
    <2>3. ASSUME request[r].at \in {"resolved", "reviewing"},
                 HasOrgScope(Loaded(r), request[r].home, "videos")
          PROVE  Ok(q)
      <3>1. request[r].home \in Entitled(r)
        BY <1>1, <2>3, PredicateIsSound
      <3> QED
        BY <2>2, <2>3, <3>1
    <2>4. ASSUME request[r].at = "reviewing",
                 Loaded(r).user \in SpeaksOn[request[r].video],
                 IsAuthenticated(Loaded(r).user)
          PROVE  Ok(q)
      <3>1. Loaded(r) = request[r].sent
        BY <2>4 DEF Loaded, IsAuthenticated, Anonymous
      <3> QED
        BY <1>1, <2>2, <2>4, <3>1
    <2>5. Ok(q)
      BY <1>7, <2>3, <2>4 DEF Admit, MayReview
    <2> HIDE DEF Ok
    <2> QED
      BY <1>4, <1>7, <2>5 DEF Admit
  <1>8. ASSUME NEW r \in Requests, Refuse(r) \/ Finish(r)
        PROVE  \A p \in Requests : Ok(request'[p])
    <2> HIDE DEF Ok
    <2> QED
      BY <1>3, <1>4, <1>8 DEF Refuse, Finish
  <1>9. ASSUME NEW r \in Requests, Fetch(r)
        PROVE  \A p \in Requests : Ok(request'[p])
    <2>1. request[r] \in Request /\ request[r].at = "admitted"
      BY <1>9 DEF TypeOK, Fetch
    <2>2. Ok([request[r] EXCEPT !.at = "writing"])
      BY <1>1, <2>1 DEF Request
    <2> HIDE DEF Ok
    <2> QED
      BY <1>3, <1>4, <1>9, <2>2 DEF Fetch
  <1>10. ASSUME NEW r \in Requests, NEW e \in Events, NEW explicit \in BOOLEAN,
                Command(r, e, explicit)
         PROVE  \A p \in Requests : Ok(request'[p])
    <2>1. PICK f \in Events :
            Step(r, [Idle EXCEPT !.at = "commanded", !.named = organization[e],
                                 !.event = f, !.home = organization[f]])
      BY <1>10 DEF Command, ResolveEvent
    <2>2. Ok([Idle EXCEPT !.at = "commanded", !.named = organization[e],
                          !.event = f, !.home = organization[f]])
      BY DEF Idle
    <2> HIDE DEF Ok
    <2> QED
      BY <1>4, <2>1, <2>2
  <1>11. ASSUME request' = request
         PROVE  \A p \in Requests : Ok(request'[p])
    BY <1>1, <1>11
  <1> HIDE DEF Ok
  <1> QED
    BY <1>2, <1>5, <1>6, <1>7, <1>8, <1>9, <1>10, <1>11, RequestsMove DEF RequestMoves

\* Whoever writes a video was entitled to when the request was admitted, whatever
\* logins, edits of memberships and other requests came between its steps.
THEOREM OnlyTheEntitledWrite == Spec => []WritersAreEntitled
  <1>1. Init => WritersAreEntitled /\ EntitledOnTheWay /\ BrowsersKnown
    BY DEF Init, Idle, WritersAreEntitled, EntitledOnTheWay, BrowsersKnown
  <1> QED
    BY <1>1, EntitlementStays, TypeCorrect, SessionsAreTruthful, PTL DEF Spec

(***************************************************************************)
(* Where requests write and commands act.                                   *)
(***************************************************************************)

LEMMA HomeStays ==
  ASSUME TypeOK, HomeOnTheWay, CommandsActWhereMeant, [Next]_vars
  PROVE  HomeOnTheWay' /\ CommandsActWhereMeant'
  <1> DEFINE Kept(q) ==
               /\ q.at = "reviewing" => q.named = None
               /\ q.at \in {"resolved", "admitted", "writing"} /\ q.named # None =>
                    /\ q.event \in Events
                    /\ q.event \in moved \/ organization[q.event] = q.named
               /\ q.at = "writing" /\ q.named # None => EventOf[q.video] = q.event
               /\ q.at = "commanded" => q.home = q.named
             Ok(q) == /\ q.at = "reviewing" => q.named = None
                      /\ q.at \in {"resolved", "admitted", "writing"} /\ q.named # None =>
                           /\ q.event \in Events
                           /\ q.event \in moved' \/ organization'[q.event] = q.named
                      /\ q.at = "writing" /\ q.named # None => EventOf[q.video] = q.event
                      /\ q.at = "commanded" => q.home = q.named
  <1>1. \A q : Kept(q) => Ok(q)
    BY MovesAreNoted
  <1>2. \A r \in Requests : Kept(request[r])
    BY DEF HomeOnTheWay, CommandsActWhereMeant
  <1>3. (\A r \in Requests : Ok(request'[r])) => HomeOnTheWay' /\ CommandsActWhereMeant'
    BY DEF HomeOnTheWay, CommandsActWhereMeant
  <1>4. ASSUME NEW r \in Requests, NEW q, Kept(q), Step(r, q)
        PROVE  \A p \in Requests : Ok(request'[p])
    <2>1. \A p \in Requests : request'[p] = IF p = r THEN q ELSE request[p]
      BY <1>4 DEF Step, TypeOK
    <2> HIDE DEF Kept, Ok
    <2> QED
      BY <1>1, <1>2, <1>4, <2>1
  <1>5. Kept(Idle)
    BY DEF Idle
  <1>6. ASSUME NEW r \in Requests, NEW b \in Browsers, NEW e \in Events,
               NEW o \in Organizations, NEW v \in Videos,
               OrganizerRequest(r, b, o, Slug[e], v)
        PROVE  \A p \in Requests : Ok(request'[p])
    <2>1. PICK f \in Resolve(o, Slug[e]) :
            Step(r, [Idle EXCEPT !.at = "resolved", !.browser = b, !.sent = session[b],
                                 !.named = o, !.event = f, !.home = organization[f],
                                 !.video = v])
      BY <1>6 DEF OrganizerRequest
    <2>2. Kept([Idle EXCEPT !.at = "resolved", !.browser = b, !.sent = session[b],
                            !.named = o, !.event = f, !.home = organization[f],
                            !.video = v])
      BY <2>1 DEF Idle, Resolve
    <2> HIDE DEF Kept, Ok
    <2> QED
      BY <1>4, <2>1, <2>2
  <1>7. ASSUME NEW r \in Requests, NEW b \in Browsers, NEW v \in Videos, ReviewRequest(r, b, v)
        PROVE  \A p \in Requests : Ok(request'[p])
    <2>1. Kept([Idle EXCEPT !.at = "reviewing", !.browser = b, !.sent = session[b],
                            !.event = EventOf[v], !.home = organization[EventOf[v]],
                            !.video = v])
      BY DEF Idle
    <2> HIDE DEF Kept, Ok
    <2> QED
      BY <1>4, <1>7, <2>1 DEF ReviewRequest
  <1>8. ASSUME NEW r \in Requests, Admit(r)
        PROVE  \A p \in Requests : Ok(request'[p])
    <2> DEFINE q == [request[r] EXCEPT !.at = IF @ = "resolved" THEN "admitted" ELSE "writing",
                                       !.cleared = Entitled(r)]
    <2>1. request[r] \in Request /\ request[r].at \in {"resolved", "reviewing"}
      BY <1>8 DEF TypeOK, Admit
    <2>2. /\ q.at = (IF request[r].at = "resolved" THEN "admitted" ELSE "writing")
          /\ q.event = request[r].event /\ q.named = request[r].named
      BY <2>1 DEF Request
    <2>3. Kept(q)
      BY <1>2, <2>1, <2>2
    <2> HIDE DEF Kept, Ok
    <2> QED
      BY <1>4, <1>8, <2>3 DEF Admit
  <1>9. ASSUME NEW r \in Requests, Refuse(r) \/ Finish(r)
        PROVE  \A p \in Requests : Ok(request'[p])
    <2> HIDE DEF Kept, Ok
    <2> QED
      BY <1>4, <1>5, <1>9 DEF Refuse, Finish
  <1>10. ASSUME NEW r \in Requests, Fetch(r)
         PROVE  \A p \in Requests : Ok(request'[p])
    <2>1. request[r] \in Request /\ request[r].at = "admitted"
      BY <1>10 DEF TypeOK, Fetch
    <2>2. Finds(r) => Kept([request[r] EXCEPT !.at = "writing"])
      BY <1>2, <2>1 DEF Request, Finds
    <2> HIDE DEF Kept, Ok
    <2> QED
      BY <1>4, <1>5, <1>10, <2>2 DEF Fetch
  <1>11. ASSUME NEW r \in Requests, NEW e \in Events, NEW explicit \in BOOLEAN,
                Command(r, e, explicit)
         PROVE  \A p \in Requests : Ok(request'[p])
    <2> DEFINE o == IF explicit THEN organization[e] ELSE None
               matches == {f \in Events : Slug[f] = Slug[e] /\ (o = None \/ organization[f] = o)}
    <2>1. PICK f \in ResolveEvent(o, Slug[e]) :
            Step(r, [Idle EXCEPT !.at = "commanded", !.named = organization[e],
                                 !.event = f, !.home = organization[f]])
      BY <1>11 DEF Command
    <2>2. f \in matches /\ Cardinality(matches) = 1
      BY <2>1 DEF ResolveEvent
    <2>3. e \in matches
      OBVIOUS
    <2>4. f = e
      <3>1. IsFiniteSet(matches)
        BY FS_Subset
      <3>2. PICK x : matches = {x}
        BY <2>2, <3>1, FS_Singleton
      <3> QED
        BY <2>2, <2>3, <3>2
    <2>5. Kept([Idle EXCEPT !.at = "commanded", !.named = organization[e],
                            !.event = f, !.home = organization[f]])
      BY <2>4 DEF Idle
    <2> HIDE DEF Kept, Ok
    <2> QED
      BY <1>4, <2>1, <2>5
  <1>12. ASSUME request' = request
         PROVE  \A p \in Requests : Ok(request'[p])
    <2> HIDE DEF Kept, Ok
    <2> QED
      BY <1>1, <1>2, <1>12
  <1> HIDE DEF Kept, Ok
  <1> QED
    BY <1>3, <1>6, <1>7, <1>8, <1>9, <1>10, <1>11, <1>12, RequestsMove DEF RequestMoves

LEMMA InitHome == Init => HomeOnTheWay /\ CommandsActWhereMeant
  BY DEF Init, Idle, HomeOnTheWay, CommandsActWhereMeant

\* An organizer request writes in the organization its URL names, whatever video the
\* caller chose, unless an administrator moved the event.
THEOREM RequestsStayHome == Spec => []WritesStayHome
  <1>1. HomeOnTheWay => WritesStayHome
    BY DEF HomeOnTheWay, WritesStayHome
  <1> QED
    BY <1>1, InitHome, HomeStays, TypeCorrect, PTL DEF Spec

\* A management command acts on the event its operator meant or on none, for any
\* number of organizations that share a slug.
THEOREM CommandsDoNotGuess == Spec => []CommandsActWhereMeant
  BY InitHome, HomeStays, TypeCorrect, PTL DEF Spec
=============================================================================
