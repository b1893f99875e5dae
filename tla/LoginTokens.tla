---------------------------- MODULE LoginTokens ----------------------------
(***************************************************************************)
(* Magic links: src/src/accounts/tokens.py and services.py, with the views  *)
(* that ask for a link and spend one, and the purge_login_tokens command.   *)
(*                                                                          *)
(* Every query is a step of its own, so requests for a link, the POSTs that *)
(* spend one and the purge interleave.  A GET of a link only reads and is   *)
(* not modelled.  The clock counts units of the smallest difference that    *)
(* the comparisons with expires_at and created_at can see.                  *)
(*                                                                          *)
(* All tokens belong to one active user: throttling, spending and purging   *)
(* never relate the tokens of two.                                          *)
(***************************************************************************)
EXTENDS Naturals, FiniteSets

CONSTANTS
    MaxTokens,       \* bound: tokens issued in a behaviour
    MaxTime,         \* bound: how far the clock runs
    Requesters,      \* bound: concurrent requests for a link
    Visitors,        \* bound: concurrent POSTs of a link
    THROTTLE_WINDOW,
    THROTTLE_LIMIT,
    Ttls             \* lifetimes tokens are issued with

Tokens == 1 .. MaxTokens
Times == 0 .. MaxTime

ASSUME TokensAssumption ==
    /\ MaxTokens \in Nat /\ MaxTime \in Nat
    /\ IsFiniteSet(Requesters)
    /\ THROTTLE_WINDOW \in Nat
    /\ THROTTLE_LIMIT \in Nat \ {0}
    /\ Ttls \subseteq Nat

\* SELF_SERVICE_TTL is the throttle window, INVITATION_TTL is longer.
LongEnough == \A ttl \in Ttls : ttl >= THROTTLE_WINDOW

VARIABLES
    now,
    stored,    \* the tokens that have a row
    created,   \* created_at
    expires,   \* expires_at
    consumed,  \* consumed_at is set
    mailed,    \* tokens whose mail was sent
    asking,    \* send_login_link: "idle", or "cleared" by the throttle
    visiting,  \* consume_link: the token looked up or claimed, or 0
    claimed,   \* consume_link: visitors whose UPDATE claimed their token
    issued,    \* history: tokens ever issued
    logins     \* history: sessions each token opened

table == <<stored, created, expires, consumed>>
vars == <<now, table, mailed, asking, visiting, claimed, issued, logins>>

Init ==
    /\ now = 0
    /\ stored = {}
    /\ created = [t \in Tokens |-> 0]
    /\ expires = [t \in Tokens |-> 0]
    /\ consumed = [t \in Tokens |-> FALSE]
    /\ mailed = {}
    /\ asking = [r \in Requesters |-> "idle"]
    /\ visiting = [v \in Visitors |-> 0]
    /\ claimed = {}
    /\ issued = {}
    /\ logins = [t \in Tokens |-> 0]

\* A window that forgets the tokens created exactly at its start.
Recent_Open == {t \in stored : created[t] + THROTTLE_WINDOW > now}

\* The tokens _is_throttled counts.
Recent == {t \in stored : created[t] + THROTTLE_WINDOW >= now}

\* send_login_link passes the throttle.
Ask(r) ==
    /\ asking[r] = "idle"
    /\ Cardinality(Recent) < THROTTLE_LIMIT
    /\ asking' = [asking EXCEPT ![r] = "cleared"]
    /\ UNCHANGED <<now, table, mailed, visiting, claimed, issued, logins>>

\* issue, and send_mail, which may fail after the row is there.
Issue(r) ==
    \E t \in Tokens, ttl \in Ttls, sent \in BOOLEAN :
      /\ asking[r] = "cleared"
      /\ t \notin issued
      /\ \A u \in Tokens : u < t => u \in issued
      /\ stored' = stored \cup {t}
      /\ created' = [created EXCEPT ![t] = now]
      /\ expires' = [expires EXCEPT ![t] = now + ttl]
      /\ issued' = issued \cup {t}
      /\ mailed' = IF sent THEN mailed \cup {t} ELSE mailed
      /\ asking' = [asking EXCEPT ![r] = "idle"]
      /\ UNCHANGED <<now, consumed, visiting, claimed, logins>>

\* is_usable
Usable(t) == t \in stored /\ ~consumed[t] /\ expires[t] > now

\* lookup in the POST; anything unusable is answered with 410.
LookUp(v, t) ==
    /\ visiting[v] = 0
    /\ t \in mailed
    /\ Usable(t)
    /\ visiting' = [visiting EXCEPT ![v] = t]
    /\ UNCHANGED <<now, table, mailed, asking, claimed, issued, logins>>

\* An UPDATE that does not look at consumed_at again.
Claim_Unconditional(v) ==
    LET t == visiting[v]
    IN  /\ t # 0 /\ v \notin claimed
        /\ t \in stored
        /\ consumed' = [consumed EXCEPT ![t] = TRUE]
        /\ claimed' = claimed \cup {v}
        /\ UNCHANGED <<now, stored, created, expires, mailed, asking, visiting, issued, logins>>

\* The conditional UPDATE of consume finds the row unspent.
Claim(v) ==
    LET t == visiting[v]
    IN  /\ t # 0 /\ v \notin claimed
        /\ t \in stored /\ ~consumed[t]
        /\ consumed' = [consumed EXCEPT ![t] = TRUE]
        /\ claimed' = claimed \cup {v}
        /\ UNCHANGED <<now, stored, created, expires, mailed, asking, visiting, issued, logins>>

\* The UPDATE finds nothing: spent or purged since the lookup.
Refuse(v) ==
    LET t == visiting[v]
    IN  /\ t # 0 /\ v \notin claimed
        /\ t \notin stored \/ consumed[t]
        /\ visiting' = [visiting EXCEPT ![v] = 0]
        /\ UNCHANGED <<now, table, mailed, asking, claimed, issued, logins>>

\* login() opens the session, or the request dies before the session is saved.
LogIn(v) ==
    /\ v \in claimed
    /\ \/ logins' = [logins EXCEPT ![visiting[v]] = @ + 1]
       \/ UNCHANGED logins
    /\ visiting' = [visiting EXCEPT ![v] = 0]
    /\ claimed' = claimed \ {v}
    /\ UNCHANGED <<now, table, mailed, asking, issued>>

\* A purge that takes tokens at the instant they expire.
Purge_AtExpiry ==
    /\ stored' = {t \in stored : expires[t] > now}
    /\ stored' # stored
    /\ UNCHANGED <<now, created, expires, consumed, mailed, asking, visiting, claimed, issued, logins>>

\* purge_expired
Purge ==
    /\ stored' = {t \in stored : expires[t] >= now}
    /\ stored' # stored
    /\ UNCHANGED <<now, created, expires, consumed, mailed, asking, visiting, claimed, issued, logins>>

Tick ==
    /\ now < MaxTime
    /\ now' = now + 1
    /\ UNCHANGED <<table, mailed, asking, visiting, claimed, issued, logins>>

Next ==
    \/ \E r \in Requesters : Ask(r) \/ Issue(r)
    \/ \E v \in Visitors :
          \/ \E t \in Tokens : LookUp(v, t)
          \/ Claim(v) \/ Refuse(v) \/ LogIn(v)
    \/ Purge
    \/ Tick

Spec == Init /\ [][Next]_vars

(***************************************************************************)
(* Properties.                                                              *)
(***************************************************************************)

\* Type correctness of the table, the requests and the history.
TypeOK ==
    /\ now \in Times
    /\ stored \subseteq issued /\ mailed \subseteq issued /\ issued \subseteq Tokens
    /\ created \in [Tokens -> Times]
    /\ expires \in [Tokens -> Nat]
    /\ consumed \in [Tokens -> BOOLEAN]
    /\ asking \in [Requesters -> {"idle", "cleared"}]
    /\ visiting \in [Visitors -> Tokens \cup {0}]
    /\ claimed \subseteq Visitors
    /\ \A v \in claimed : visiting[v] # 0
    /\ logins \in [Tokens -> Nat]

\* "Single use": however many POSTs carry a link at once, and whatever is
\* purged between their lookup and their UPDATE, it opens at most one session.
SingleUse == \A t \in Tokens : logins[t] <= 1

IssuedWithin(start) ==
    {t \in issued : start <= created[t] /\ created[t] <= start + THROTTLE_WINDOW}

\* No window of time sees more links than the limit plus the requests that were
\* past the throttle together, purged tokens included: the purge never makes
\* the throttle forget.
ThrottleHolds ==
    \A start \in Times :
        Cardinality(IssuedWithin(start)) < THROTTLE_LIMIT + Cardinality(Requesters)
=============================================================================
