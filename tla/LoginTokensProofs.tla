------------------------- MODULE LoginTokensProofs -------------------------
(***************************************************************************)
(* A magic link opens at most one session, and the throttle is exceeded by  *)
(* concurrent requests only, for any number of tokens, requests and         *)
(* visitors and any lifetimes.                                              *)
(***************************************************************************)
EXTENDS LoginTokens, FiniteSetTheorems, TLAPS

(***************************************************************************)
(* Types.                                                                   *)
(***************************************************************************)

\* At first nothing is issued and nobody visits.
LEMMA TypesInit == Init => TypeOK
  BY TokensAssumption DEF Init, TypeOK, Tokens, Times

\* Every step keeps the types.
LEMMA TypesStep == TypeOK /\ [Next]_vars => TypeOK'
<1> SUFFICES ASSUME TypeOK, [Next]_vars PROVE TypeOK'
  OBVIOUS
<1> USE DEF TypeOK, table
<1>1. ASSUME NEW r \in Requesters, Ask(r) PROVE TypeOK'
  BY <1>1 DEF Ask
<1>2. ASSUME NEW r \in Requesters, Issue(r) PROVE TypeOK'
  <2>1. \A ttl \in Ttls : now + ttl \in Nat
    BY TokensAssumption DEF Times
  <2> QED
    BY <1>2, <2>1 DEF Issue
<1>3. ASSUME NEW v \in Visitors, NEW t \in Tokens, LookUp(v, t) PROVE TypeOK'
  BY <1>3 DEF LookUp
<1>4. ASSUME NEW v \in Visitors, Claim(v) PROVE TypeOK'
  BY <1>4 DEF Claim
<1>5. ASSUME NEW v \in Visitors, Refuse(v) PROVE TypeOK'
  BY <1>5 DEF Refuse
<1>6. ASSUME NEW v \in Visitors, LogIn(v) PROVE TypeOK'
  <2>1. visiting[v] \in Tokens /\ logins[visiting[v]] + 1 \in Nat
    BY <1>6 DEF LogIn
  <2>2. logins' \in [Tokens -> Nat]
    BY <1>6, <2>1 DEF LogIn
  <2>3. visiting' \in [Visitors -> Tokens \cup {0}]
    BY <1>6 DEF LogIn
  <2>4. \A u \in claimed' : visiting'[u] # 0
    BY <1>6 DEF LogIn
  <2> QED
    BY <1>6, <2>2, <2>3, <2>4 DEF LogIn
<1>7. CASE Purge
  BY <1>7 DEF Purge
<1>8. CASE Tick
  BY <1>8, TokensAssumption DEF Tick, Times
<1>9. CASE UNCHANGED vars
  BY <1>9 DEF vars
<1> QED
  BY <1>1, <1>2, <1>3, <1>4, <1>5, <1>6, <1>7, <1>8, <1>9 DEF Next

\* Tokens, requests, visitors and history keep their types.
THEOREM TypeCorrect == Spec => []TypeOK
<1>1. Init => TypeOK
  BY TypesInit
<1>2. TypeOK /\ [Next]_vars => TypeOK'
  BY TypesStep
<1> QED
  BY <1>1, <1>2, PTL DEF Spec

(***************************************************************************)
(* Single use.                                                              *)
(***************************************************************************)

\* Whoever claimed a token is alone with it, and nobody signed in with it yet.
ClaimsAreExclusive ==
    /\ \A v \in claimed : consumed[visiting[v]] /\ logins[visiting[v]] = 0
    /\ \A v, w \in claimed : visiting[v] = visiting[w] => v = w

\* A token that opened a session is spent.
LoginsSpend == \A t \in Tokens : logins[t] > 0 => consumed[t]

SingleUseInv == SingleUse /\ ClaimsAreExclusive /\ LoginsSpend

\* At first nobody is signed in.
LEMMA SingleUseInit == Init => SingleUseInv
  BY DEF Init, SingleUseInv, SingleUse, ClaimsAreExclusive, LoginsSpend, Tokens

\* The conditional UPDATE admits one claim per token, and only a claim signs in.
LEMMA SingleUseStep ==
    TypeOK /\ SingleUseInv /\ [Next]_vars => SingleUseInv'
<1> SUFFICES ASSUME TypeOK, SingleUseInv, [Next]_vars PROVE SingleUseInv'
  OBVIOUS
<1> USE DEF TypeOK, SingleUseInv, SingleUse, ClaimsAreExclusive, LoginsSpend, table
<1>1. ASSUME NEW r \in Requesters, Ask(r) PROVE SingleUseInv'
  BY <1>1 DEF Ask
<1>2. ASSUME NEW r \in Requesters, Issue(r) PROVE SingleUseInv'
  BY <1>2 DEF Issue
<1>3. ASSUME NEW v \in Visitors, NEW t \in Tokens, LookUp(v, t) PROVE SingleUseInv'
  <2>1. v \notin claimed
    BY <1>3 DEF LookUp
  <2> QED
    BY <1>3, <2>1 DEF LookUp
<1>4. ASSUME NEW v \in Visitors, Claim(v) PROVE SingleUseInv'
  <2>1. visiting[v] \in Tokens
    BY <1>4 DEF Claim, Tokens
  <2>2. logins[visiting[v]] = 0
    BY <1>4, <2>1 DEF Claim
  <2>3. \A w \in claimed : visiting[w] # visiting[v]
    BY <1>4 DEF Claim
  <2>4. \A w \in claimed : visiting[w] \in Tokens
    BY DEF Tokens
  <2> QED
    BY <1>4, <2>1, <2>2, <2>3, <2>4 DEF Claim
<1>5. ASSUME NEW v \in Visitors, Refuse(v) PROVE SingleUseInv'
  BY <1>5 DEF Refuse
<1>6. ASSUME NEW v \in Visitors, LogIn(v) PROVE SingleUseInv'
  <2>1. visiting[v] \in Tokens /\ consumed[visiting[v]] /\ logins[visiting[v]] = 0
    BY <1>6 DEF LogIn, Tokens
  <2>2. \A w \in claimed : visiting[w] \in Tokens
    BY DEF Tokens
  <2>3. \A w \in claimed \ {v} : visiting[w] # visiting[v]
    BY <1>6 DEF LogIn
  <2>4. \A t \in Tokens : logins'[t] = IF t = visiting[v] THEN logins'[visiting[v]] ELSE logins[t]
    BY <1>6 DEF LogIn
  <2>5. logins'[visiting[v]] \in {0, 1}
    BY <1>6, <2>1 DEF LogIn
  <2> QED
    BY <1>6, <2>1, <2>2, <2>3, <2>4, <2>5 DEF LogIn
<1>7. CASE Purge
  BY <1>7 DEF Purge
<1>8. CASE Tick
  BY <1>8 DEF Tick
<1>9. CASE UNCHANGED vars
  BY <1>9 DEF vars
<1> QED
  BY <1>1, <1>2, <1>3, <1>4, <1>5, <1>6, <1>7, <1>8, <1>9 DEF Next

\* A link opens at most one session, however many POSTs carry it and whatever
\* the purge deletes meanwhile.
THEOREM LinksAreSingleUse == Spec => []SingleUse
<1>1. Init => TypeOK /\ SingleUseInv
  BY TypesInit, SingleUseInit
<1>2. TypeOK /\ SingleUseInv /\ [Next]_vars => TypeOK' /\ SingleUseInv'
  BY TypesStep, SingleUseStep
<1>3. SingleUseInv => SingleUse
  BY DEF SingleUseInv
<1> QED
  BY <1>1, <1>2, <1>3, PTL DEF Spec

(***************************************************************************)
(* The throttle.                                                            *)
(***************************************************************************)

\* The requests that are past the throttle and issue their token next.
Cleared == {r \in Requesters : asking[r] = "cleared"}

\* A token has its row for as long as the throttle may count it: the purge
\* takes expired tokens only, and a token lives at least as long as the window.
CountedIsStored ==
    \A t \in issued :
        /\ expires[t] >= created[t] + THROTTLE_WINDOW
        /\ expires[t] >= now => t \in stored

\* A window that is still open has room for every request that may yet put its
\* token in it; one that is over only has to have stayed below the bound.
RoomInWindow(start) ==
    LET most == THROTTLE_LIMIT - 1 + Cardinality(Requesters)
    IN  IF now <= start + THROTTLE_WINDOW
        THEN Cardinality(IssuedWithin(start)) + Cardinality(Cleared) <= most
        ELSE Cardinality(IssuedWithin(start)) <= most

ThrottleInv == CountedIsStored /\ \A start \in Times : RoomInWindow(start)

\* The sets that are counted are finite.
LEMMA CountedSetsAreFinite ==
  ASSUME TypeOK
  PROVE  /\ IsFiniteSet(stored) /\ IsFiniteSet(Recent)
         /\ IsFiniteSet(Cleared) /\ Cardinality(Cleared) \in Nat
         /\ Cardinality(Requesters) \in Nat
         /\ Cardinality(Cleared) <= Cardinality(Requesters)
         /\ \A start \in Times : /\ IsFiniteSet(IssuedWithin(start))
                                 /\ Cardinality(IssuedWithin(start)) \in Nat
<1>1. IsFiniteSet(Tokens)
  BY FS_Interval, TokensAssumption DEF Tokens
<1>2. stored \subseteq Tokens /\ Recent \subseteq Tokens
  BY DEF TypeOK, Recent
<1>3. Cleared \subseteq Requesters
  BY DEF Cleared
<1>4. \A start \in Times : IssuedWithin(start) \subseteq Tokens
  BY DEF TypeOK, IssuedWithin
<1>5. \A start \in Times : IsFiniteSet(IssuedWithin(start))
  BY <1>1, <1>4, FS_Subset
<1> QED
  BY <1>1, <1>2, <1>3, <1>5, FS_Subset, FS_CardinalityType, TokensAssumption

\* At first nothing is issued and no request is past the throttle.
LEMMA ThrottleInit == Init => ThrottleInv
<1> SUFFICES ASSUME Init PROVE ThrottleInv
  OBVIOUS
<1>1. Cleared = {} /\ \A start \in Times : IssuedWithin(start) = {}
  BY DEF Init, Cleared, IssuedWithin
<1>2. Cardinality(Requesters) \in Nat
  BY TokensAssumption, FS_CardinalityType
<1>3. CountedIsStored
  BY DEF Init, CountedIsStored
<1>4. ASSUME NEW start \in Times PROVE RoomInWindow(start)
  BY <1>1, <1>2, FS_EmptySet, TokensAssumption DEF RoomInWindow
<1> QED
  BY <1>3, <1>4 DEF ThrottleInv

\* A step that issues nothing and lets no request past the throttle, at the same
\* time or later, keeps the room in every window.
LEMMA QuietKeepsRoom ==
  ASSUME TypeOK, TypeOK', ThrottleInv,
         UNCHANGED <<created, issued>>, Cleared' = Cleared,
         now' \in {now, now + 1},
         NEW start \in Times
  PROVE  RoomInWindow(start)'
<1>1. IssuedWithin(start)' = IssuedWithin(start)
  BY DEF IssuedWithin
<1> QED
  BY <1>1, CountedSetsAreFinite, TokensAssumption
     DEF ThrottleInv, RoomInWindow, Times, TypeOK

\* A request passes the throttle when the tokens of every open window, all of
\* them still stored, are fewer than the limit.
LEMMA AskKeepsRoom ==
  ASSUME TypeOK, TypeOK', ThrottleInv, NEW r \in Requesters, Ask(r),
         NEW start \in Times
  PROVE  RoomInWindow(start)'
<1>1. IssuedWithin(start)' = IssuedWithin(start) /\ now' = now
  BY DEF Ask, IssuedWithin, table
<1>2. CASE now > start + THROTTLE_WINDOW
  BY <1>1, <1>2, TokensAssumption DEF ThrottleInv, RoomInWindow, Times, TypeOK
<1>3. CASE now <= start + THROTTLE_WINDOW
  <2>1. IssuedWithin(start) \subseteq Recent
    <3> SUFFICES ASSUME NEW t \in IssuedWithin(start) PROVE t \in Recent
      OBVIOUS
    <3>1. /\ t \in issued /\ start <= created[t]
          /\ created[t] \in Nat /\ expires[t] \in Nat /\ start \in Nat /\ now \in Nat
      BY DEF IssuedWithin, TypeOK, Times
    <3>2. created[t] + THROTTLE_WINDOW >= now
      BY <1>3, <3>1, TokensAssumption
    <3>3. expires[t] >= now
      BY <3>1, <3>2, TokensAssumption DEF ThrottleInv, CountedIsStored
    <3> QED
      BY <3>1, <3>2, <3>3 DEF ThrottleInv, CountedIsStored, Recent
  <2>2. Cardinality(IssuedWithin(start)) <= Cardinality(Recent)
    BY <2>1, CountedSetsAreFinite, FS_Subset
  <2>3. Cardinality(Recent) < THROTTLE_LIMIT
    BY DEF Ask
  <2>4. Cardinality(Recent) \in Nat
    BY CountedSetsAreFinite, FS_CardinalityType
  <2>5. Cardinality(Cleared)' \in Nat /\ Cardinality(Cleared)' <= Cardinality(Requesters)
    <3>1. Cleared' \subseteq Requesters
      BY DEF Cleared
    <3> QED
      BY <3>1, FS_Subset, FS_CardinalityType, TokensAssumption
  <2> QED
    BY <1>1, <1>3, <2>2, <2>3, <2>4, <2>5, CountedSetsAreFinite, TokensAssumption
       DEF RoomInWindow
<1> QED
  BY <1>2, <1>3, TokensAssumption DEF Times, TypeOK

\* An issued token takes the place of the request that issued it.
LEMMA IssueKeepsRoom ==
  ASSUME TypeOK, TypeOK', ThrottleInv, NEW r \in Requesters, Issue(r),
         NEW start \in Times
  PROVE  RoomInWindow(start)'
<1>1. PICK t \in Tokens : /\ t \notin issued
                          /\ created' = [created EXCEPT ![t] = now]
                          /\ issued' = issued \cup {t}
  BY DEF Issue
<1>2. /\ r \in Cleared /\ Cleared' = Cleared \ {r} /\ now' = now
  BY DEF Issue, Cleared, TypeOK
<1>3. Cardinality(Cleared)' = Cardinality(Cleared) - 1
  BY <1>2, CountedSetsAreFinite, FS_RemoveElement
<1>4. CASE now <= start + THROTTLE_WINDOW
  <2>1. IssuedWithin(start)' \subseteq IssuedWithin(start) \cup {t}
    BY <1>1 DEF IssuedWithin, TypeOK
  <2>2. t \notin IssuedWithin(start)
    BY <1>1 DEF IssuedWithin
  <2>3. /\ IsFiniteSet(IssuedWithin(start) \cup {t})
        /\ Cardinality(IssuedWithin(start) \cup {t}) = Cardinality(IssuedWithin(start)) + 1
    BY <2>2, CountedSetsAreFinite, FS_AddElement
  <2>4. /\ Cardinality(IssuedWithin(start)') <= Cardinality(IssuedWithin(start)) + 1
        /\ Cardinality(IssuedWithin(start)') \in Nat
    BY <2>1, <2>3, FS_Subset, FS_CardinalityType
  <2> QED
    BY <1>2, <1>3, <1>4, <2>4, CountedSetsAreFinite, TokensAssumption
       DEF ThrottleInv, RoomInWindow
<1>5. CASE now > start + THROTTLE_WINDOW
  <2>1. IssuedWithin(start)' = IssuedWithin(start)
    BY <1>1, <1>5, TokensAssumption DEF IssuedWithin, TypeOK, Times
  <2> QED
    BY <1>2, <1>5, <2>1, TokensAssumption DEF ThrottleInv, RoomInWindow, TypeOK, Times
<1> QED
  BY <1>4, <1>5, TokensAssumption DEF Times, TypeOK

\* Issuing stores a token for long enough, and the purge leaves what has not expired.
LEMMA CountedStaysStored ==
  ASSUME LongEnough, TypeOK, CountedIsStored, [Next]_vars
  PROVE  CountedIsStored'
<1> USE DEF TypeOK, CountedIsStored, table
<1>1. ASSUME NEW r \in Requesters, Issue(r) PROVE CountedIsStored'
  <2>1. PICK t \in Tokens, ttl \in Ttls :
           /\ stored' = stored \cup {t} /\ issued' = issued \cup {t}
           /\ created' = [created EXCEPT ![t] = now]
           /\ expires' = [expires EXCEPT ![t] = now + ttl]
           /\ now' = now
    BY <1>1 DEF Issue
  <2>2. now + ttl >= now + THROTTLE_WINDOW
    BY LongEnough, TokensAssumption DEF LongEnough, Times
  <2> QED
    BY <2>1, <2>2
<1>2. CASE Purge
  BY <1>2, TokensAssumption DEF Purge
<1>3. CASE Tick
  BY <1>3, TokensAssumption DEF Tick, Times
<1>4. CASE UNCHANGED <<now, stored, created, expires, issued>>
  BY <1>4
<1> QED
  BY <1>1, <1>2, <1>3, <1>4
     DEF Next, vars, Ask, LookUp, Claim, Refuse, LogIn

\* Every step keeps the room in every window.
LEMMA ThrottleStep ==
  ASSUME LongEnough, TypeOK, TypeOK', ThrottleInv, [Next]_vars
  PROVE  ThrottleInv'
<1>1. CountedIsStored'
  BY CountedStaysStored DEF ThrottleInv
<1>2. ASSUME NEW start \in Times PROVE RoomInWindow(start)'
  <2>1. ASSUME NEW r \in Requesters, Ask(r) PROVE RoomInWindow(start)'
    BY <2>1, AskKeepsRoom
  <2>2. ASSUME NEW r \in Requesters, Issue(r) PROVE RoomInWindow(start)'
    BY <2>2, IssueKeepsRoom
  <2>3. CASE UNCHANGED <<created, issued, asking>> /\ now' \in {now, now + 1}
    <3>1. Cleared' = Cleared
      BY <2>3 DEF Cleared
    <3> QED
      BY <2>3, <3>1, QuietKeepsRoom
  <2> QED
    BY <2>1, <2>2, <2>3
       DEF Next, vars, table, LookUp, Claim, Refuse, LogIn, Purge, Tick
<1> QED
  BY <1>1, <1>2 DEF ThrottleInv

\* While tokens live at least as long as the throttle's window, as
\* SELF_SERVICE_TTL and INVITATION_TTL do, no window of time sees more links
\* than the limit and one more for each further request that was past the
\* throttle at once, purged tokens included.
THEOREM ThrottleIsKept ==
  ASSUME LongEnough
  PROVE  Spec => []ThrottleHolds
<1>1. Init => TypeOK /\ ThrottleInv
  BY TypesInit, ThrottleInit
<1>2. TypeOK /\ ThrottleInv /\ [Next]_vars => TypeOK' /\ ThrottleInv'
  BY TypesStep, ThrottleStep
<1>3. TypeOK /\ ThrottleInv => ThrottleHolds
  <2> SUFFICES ASSUME TypeOK, ThrottleInv, NEW start \in Times
               PROVE  Cardinality(IssuedWithin(start)) < THROTTLE_LIMIT + Cardinality(Requesters)
    BY DEF ThrottleHolds
  <2> QED
    BY CountedSetsAreFinite, TokensAssumption DEF ThrottleInv, RoomInWindow
<1> QED
  BY <1>1, <1>2, <1>3, PTL DEF Spec
=============================================================================
