------------------------- MODULE VideoReviewProofs -------------------------
(***************************************************************************)
(* Theorems about the Video table, for any number of videos, talks, users   *)
(* and concurrent requests, and any scores; and about the short lists of    *)
(* suggestions that bulk acceptance goes by.                                *)
(***************************************************************************)
EXTENDS VideoReview, FiniteSetTheorems, WellFoundedInduction, TLAPS

(***************************************************************************)
(* What an unambiguous suggestion says of the talks the short list leaves   *)
(* out, for any number of talks and any scores.                             *)
(***************************************************************************)

\* Some talk of a set scores highest.
LEMMA BestExists ==
  ASSUME NEW S, S # {}, NEW scores, \A t \in S : scores[t] \in 0 .. 100
  PROVE  \E t \in S : \A u \in S : scores[t] >= scores[u]
  <1> DEFINE T == {100 - scores[t] : t \in S}
  <1>1. T \subseteq Nat /\ T # {}
    OBVIOUS
  <1> HIDE DEF T
  <1>2. PICK x \in T : \A y \in T : ~(<<y, x>> \in OpToRel(<, Nat))
    BY <1>1, NatLessThanWellFounded, WFMin
  <1>3. \A y \in T : ~(y < x)
    BY <1>1, <1>2 DEF OpToRel
  <1>4. PICK t \in S : x = 100 - scores[t]
    BY DEF T
  <1>5. \A u \in S : 100 - scores[u] \in T
    BY DEF T
  <1>6. \A u \in S : scores[t] >= scores[u]
    BY <1>3, <1>4, <1>5
  <1> QED
    BY <1>6

\* What a short list is: the candidates that scores highest, up to the limit.
IsShortList(scores, best) ==
    /\ best \in SUBSET Candidates(scores)
    /\ IF Cardinality(Candidates(scores)) <= SUGGESTION_LIMIT
       THEN best = Candidates(scores)
       ELSE Cardinality(best) = SUGGESTION_LIMIT
    /\ \A t \in best, u \in Candidates(scores) \ best : scores[t] >= scores[u]

\* Taking the best out of a finite set leaves one talk less.
LEMMA BestLeavesRest ==
  ASSUME NEW S, IsFiniteSet(S), Cardinality(S) > 0, NEW scores,
         \A t \in S : scores[t] \in 0 .. 100
  PROVE  \E t \in S : /\ \A u \in S : scores[t] >= scores[u]
                      /\ IsFiniteSet(S \ {t}) /\ Cardinality(S \ {t}) = Cardinality(S) - 1
  <1>1. S # {}
    BY FS_EmptySet
  <1>2. PICK t \in S : \A u \in S : scores[t] >= scores[u]
    BY <1>1, BestExists
  <1>3. IsFiniteSet(S \ {t}) /\ Cardinality(S \ {t}) = Cardinality(S) - 1
    BY FS_RemoveElement
  <1> QED
    BY <1>2, <1>3

\* Four different talks are four.
LEMMA FourTalks ==
  ASSUME NEW a, NEW b, NEW c, NEW d, b # a, c \notin {a, b}, d \notin {a, b, c}
  PROVE  Cardinality({a, b, c, d}) = 4
  <1>1. IsFiniteSet({a}) /\ Cardinality({a}) = 1
    BY FS_Singleton
  <1>2. IsFiniteSet({a} \cup {b}) /\ Cardinality({a} \cup {b}) = 2
    BY <1>1, FS_AddElement
  <1>3. {a} \cup {b} = {a, b}
    OBVIOUS
  <1>4. IsFiniteSet({a, b} \cup {c}) /\ Cardinality({a, b} \cup {c}) = 3
    BY <1>2, <1>3, FS_AddElement
  <1>5. {a, b} \cup {c} = {a, b, c}
    OBVIOUS
  <1>6. Cardinality({a, b, c} \cup {d}) = 4
    BY <1>4, <1>5, FS_AddElement
  <1>7. {a, b, c} \cup {d} = {a, b, c, d}
    OBVIOUS
  <1> QED
    BY <1>6, <1>7

\* The short list exists, however many talks the event has.
LEMMA ShortListExists ==
  ASSUME NEW scores, IsFiniteSet(DOMAIN scores), \A t \in DOMAIN scores : scores[t] \in 0 .. 100
  PROVE  IsShortList(scores, Suggestions(scores))
  <1> DEFINE C == Candidates(scores)
  <1>1. C \subseteq DOMAIN scores /\ IsFiniteSet(C)
    BY FS_Subset DEF Candidates
  <1>2. Cardinality(C) \in Nat /\ \A t \in C : scores[t] \in 0 .. 100
    BY <1>1, FS_CardinalityType
  <1>3. \E best \in SUBSET C : IsShortList(scores, best)
    <2>1. CASE Cardinality(C) <= SUGGESTION_LIMIT
      <3>1. IsShortList(scores, C)
        BY <2>1 DEF IsShortList
      <3> QED
        BY <3>1
    <2>2. CASE ~(Cardinality(C) <= SUGGESTION_LIMIT)
      <3> HIDE DEF C
      <3>0. Cardinality(C) >= 5
        BY <1>2, <2>2 DEF SUGGESTION_LIMIT
      <3>1. PICK a \in C : /\ \A u \in C : scores[a] >= scores[u]
                           /\ IsFiniteSet(C \ {a}) /\ Cardinality(C \ {a}) = Cardinality(C) - 1
        BY <1>1, <1>2, <3>0, BestLeavesRest
      <3> DEFINE C1 == C \ {a}
      <3>2. PICK b \in C1 : /\ \A u \in C1 : scores[b] >= scores[u]
                            /\ IsFiniteSet(C1 \ {b}) /\ Cardinality(C1 \ {b}) = Cardinality(C1) - 1
        <4>1. Cardinality(C1) > 0 /\ \A t \in C1 : scores[t] \in 0 .. 100
          BY <1>2, <3>0, <3>1
        <4> QED
          BY <3>1, <4>1, BestLeavesRest
      <3> DEFINE C2 == C1 \ {b}
      <3>3. PICK c \in C2 : /\ \A u \in C2 : scores[c] >= scores[u]
                            /\ IsFiniteSet(C2 \ {c}) /\ Cardinality(C2 \ {c}) = Cardinality(C2) - 1
        <4>1. Cardinality(C2) > 0 /\ \A t \in C2 : scores[t] \in 0 .. 100
          BY <1>2, <3>0, <3>1, <3>2
        <4> QED
          BY <3>2, <4>1, BestLeavesRest
      <3> DEFINE C3 == C2 \ {c}
      <3>4. PICK d \in C3 : \A u \in C3 : scores[d] >= scores[u]
        <4>1. Cardinality(C3) > 0 /\ \A t \in C3 : scores[t] \in 0 .. 100
          BY <1>2, <3>0, <3>1, <3>2, <3>3
        <4> QED
          BY <3>3, <4>1, BestLeavesRest
      <3> DEFINE best == {a, b, c, d}
      <3>5. best \subseteq C /\ Cardinality(best) = 4
        BY FourTalks
      <3>6. \A u \in C \ best : /\ scores[a] >= scores[u] /\ scores[b] >= scores[u]
                                /\ scores[c] >= scores[u] /\ scores[d] >= scores[u]
        BY <3>1, <3>2, <3>3, <3>4
      <3>7. \A t \in best, u \in C \ best : scores[t] >= scores[u]
        BY <3>6
      <3> HIDE DEF best
      <3>8. IsShortList(scores, best)
        BY <2>2, <3>5, <3>7 DEF IsShortList, C, SUGGESTION_LIMIT
      <3> QED
        BY <3>5, <3>8
    <2> QED
      BY <2>1, <2>2
  <1>4. Suggestions(scores) = CHOOSE best \in SUBSET C : IsShortList(scores, best)
    BY DEF Suggestions, IsShortList
  <1> QED
    BY <1>3, <1>4

\* An unambiguous suggestion is ahead, by the margin, of every other talk: of the
\* listed ones by is_unambiguous, of the rest because a runner-up was listed.
THEOREM UnambiguousIsClear ==
  ASSUME NEW scores, IsFiniteSet(DOMAIN scores), \A t \in DOMAIN scores : scores[t] \in 0 .. 100,
         NEW chosen, IsUnambiguous(scores, chosen)
  PROVE  \A t \in DOMAIN scores \ {chosen} : scores[chosen] - scores[t] >= Margin
  <1> DEFINE C == Candidates(scores)  best == Suggestions(scores)
  <1>1. IsShortList(scores, best)
    BY ShortListExists
  <1>2. C \subseteq DOMAIN scores /\ best \subseteq C /\ chosen \in best
    BY <1>1 DEF IsShortList, Candidates, IsUnambiguous
  <1> SUFFICES ASSUME NEW t \in DOMAIN scores, t # chosen
               PROVE  scores[chosen] - scores[t] >= Margin
    OBVIOUS
  <1>3. scores[chosen] \in 0 .. 100 /\ scores[t] \in 0 .. 100 /\ scores[chosen] >= 90
    BY <1>2 DEF IsUnambiguous, HIGH_CONFIDENCE
  <1>4. CASE t \in best
    BY <1>4 DEF IsUnambiguous
  <1>5. CASE t \notin C
    BY <1>3, <1>5 DEF Candidates, Minimum, Margin
  <1>6. CASE t \in C \ best
    <2>1. Cardinality(best) = 4
      BY <1>1, <1>6 DEF IsShortList, SUGGESTION_LIMIT
    <2>2. best # {chosen}
      <3>1. Cardinality({chosen}) = 1
        BY FS_Singleton
      <3> QED
        BY <2>1, <3>1
    <2>3. PICK u \in best : u # chosen
      BY <1>2, <2>2
    <2>4. scores[chosen] - scores[u] >= 12 /\ scores[u] >= scores[t]
      BY <1>1, <1>6, <2>3 DEF IsUnambiguous, IsShortList, Margin
    <2>5. scores[u] \in 0 .. 100
      BY <1>2
    <2> QED
      BY <1>3, <2>4, <2>5 DEF Margin
  <1> QED
    BY <1>4, <1>5, <1>6

(***************************************************************************)
(* Types.                                                                   *)
(***************************************************************************)

\* A page of bulk acceptance has a talk to link.
AcceptsATalk ==
    \A p \in Pages : page[p].screen = "accept" => Suggestion(score[page[p].video]) \in Talks

TypeInv == TypeOK /\ AcceptsATalk

\* The suggestion for a video is one of the talks it is scored against, or None.
LEMMA SuggestionIsATalk ==
  ASSUME NEW scores, DOMAIN scores = Talks
  PROVE  Suggestion(scores) \in Talks \cup {None}
  <1>1. CASE \E t \in Talks : IsUnambiguous(scores, t)
    <2>1. (CHOOSE t \in Talks : IsUnambiguous(scores, t)) \in Talks
      BY <1>1
    <2> QED
      BY <1>1, <2>1 DEF Suggestion
  <1>2. CASE ~\E t \in Talks : IsUnambiguous(scores, t)
    BY <1>2 DEF Suggestion
  <1> QED
    BY <1>1, <1>2

\* The parts of a row that requests write.
LEMMA RowColumns ==
  ASSUME NEW r \in VideoRow
  PROVE  /\ r.talk \in Talks \cup {None} /\ r.standalone \in BOOLEAN
         /\ r.matched_by \in Users \cup {None} /\ r.review_state \in ReviewStates
         /\ r.approval_source \in Sources /\ r.approved_by \in Users \cup {None}
         /\ r.privacy_status \in Privacies
  BY DEF VideoRow

LEMMA NewRowType == NewRow \in VideoRow
  BY DEF NewRow, VideoRow, ReviewStates, Sources, Privacies

\* Closing a page, and opening one on a copy.
LEMMA PageType ==
  ASSUME TypeInv, NEW p \in Pages, NEW new \in Page, page' = [page EXCEPT ![p] = new],
         score' = score,
         new.screen = "accept" => Suggestion(score[new.video]) \in Talks
  PROVE  page' \in [Pages -> Page] /\ AcceptsATalk'
  BY DEF TypeInv, TypeOK, AcceptsATalk

\* A save that leaves one video's row a row.
LEMMA RowType ==
  ASSUME TypeInv, NEW v \in Videos, NEW new \in VideoRow, row' = [row EXCEPT ![v] = new]
  PROVE  row' \in [Videos -> VideoRow]
  BY DEF TypeInv, TypeOK

LEMMA MatchType ==
  ASSUME TypeInv, NEW v \in Videos, NEW t \in Talks \cup {None}, NEW alone \in BOOLEAN,
         NEW u \in Users \cup {None}, SaveMatch(v, t, alone, u)
  PROVE  row' \in [Videos -> VideoRow]
  <1> DEFINE new == [row[v] EXCEPT !.talk = t, !.standalone = alone, !.matched_by = u]
  <1>1. row[v] \in VideoRow
    BY DEF TypeInv, TypeOK
  <1>2. new \in VideoRow
    BY <1>1 DEF VideoRow
  <1>3. row' = [row EXCEPT ![v] = new]
    BY DEF SaveMatch
  <1> QED
    BY <1>2, <1>3, RowType

LEMMA ClosedType == Closed \in Page /\ Closed.screen = "closed"
  <1>1. (CHOOSE u \in Users : TRUE) \in Users /\ (CHOOSE v \in Videos : TRUE) \in Videos
    BY ReviewAssumption
  <1> QED
    BY <1>1, NewRowType DEF Closed, Page

LEMMA ClosePageType ==
  ASSUME TypeInv, NEW p \in Pages, page' = [page EXCEPT ![p] = Closed], score' = score
  PROVE  page' \in [Pages -> Page] /\ AcceptsATalk'
  BY ClosedType, PageType

\* The fields of a page.
LEMMA PageFields ==
  ASSUME TypeInv, NEW p \in Pages
  PROVE  /\ page[p].screen \in AllScreens \cup {"closed", "saving"}
         /\ page[p].user \in Users /\ page[p].video \in Videos
         /\ page[p].seen \in VideoRow
  BY DEF TypeInv, TypeOK, Page

\* Whatever an editor sends back is a row.
LEMMA EditsType ==
  ASSUME NEW seen \in VideoRow, NEW posted \in Edits(seen)
  PROVE  posted \in VideoRow
  <1>1. \A match \in (Talks \cup {None}) \X BOOLEAN :
            [seen EXCEPT !.talk = match[1], !.standalone = match[2]] \in VideoRow
    BY DEF VideoRow
  <1>2. \A s \in ReviewStates : [seen EXCEPT !.review_state = s] \in VideoRow
    BY DEF VideoRow
  <1>3. \A u \in Users \cup {None} : [seen EXCEPT !.approved_by = u] \in VideoRow
    BY DEF VideoRow
  <1> QED
    BY <1>1, <1>2, <1>3 DEF Edits

\* Copies are rows.
LEMMA CopyType ==
  ASSUME NEW r \in VideoRow, NEW screen \in AllScreens
  PROVE  Copy(screen, r) \in VideoRow
  <1> DEFINE blank == NewRow
  <1>a. blank \in VideoRow
    BY NewRowType
  <1>b. r.talk \in Talks \cup {None} /\ r.standalone \in BOOLEAN
    BY RowColumns
  <1> HIDE DEF blank
  <1>1. CASE screen = "accept"
    BY <1>1, <1>a DEF Copy, blank
  <1>2. CASE screen \in {"changes", "inline"}
    <2>1. [blank EXCEPT !.talk = r.talk] \in VideoRow
      BY <1>a, <1>b DEF VideoRow
    <2>2. Copy(screen, r) = [blank EXCEPT !.talk = r.talk]
      BY <1>2 DEF Copy, blank
    <2> QED
      BY <2>1, <2>2
  <1>3. CASE screen = "approve"
    <2>1. [blank EXCEPT !.talk = r.talk, !.standalone = r.standalone] \in VideoRow
      BY <1>a, <1>b DEF VideoRow
    <2>2. Copy(screen, r) = [blank EXCEPT !.talk = r.talk, !.standalone = r.standalone]
      BY <1>3 DEF Copy, blank
    <2> QED
      BY <2>1, <2>2
  <1>4. CASE screen = "form"
    <2>1. [r EXCEPT !.approval_source = "blank", !.privacy_status = "private"] \in VideoRow
      BY DEF VideoRow, Sources, Privacies
    <2>2. Copy(screen, r) = [r EXCEPT !.approval_source = "blank", !.privacy_status = "private"]
      BY <1>4 DEF Copy
    <2> QED
      BY <2>1, <2>2
  <1> QED
    BY <1>1, <1>2, <1>3, <1>4 DEF AllScreens

\* At first every video is new and no page is open.
LEMMA TypesInit == Init => TypeInv
  <1> SUFFICES ASSUME Init PROVE TypeInv
    OBVIOUS
  <1>1. row \in [Videos -> VideoRow] /\ page \in [Pages -> Page]
    BY NewRowType, ClosedType DEF Init
  <1>2. formed \in SUBSET Videos
    BY DEF Init
  <1>3. \A p \in Pages : page[p].screen = "closed"
    BY ClosedType DEF Init
  <1>4. confirmed \in [Videos -> Privacies]
    BY DEF Init, Privacies
  <1> QED
    BY <1>1, <1>2, <1>3, <1>4, ReviewAssumption DEF Init, TypeInv, TypeOK, AcceptsATalk

\* Every step keeps the types.
LEMMA TypesStep == TypeInv /\ [Next]_vars => TypeInv'
  <1> SUFFICES ASSUME TypeInv, [Next]_vars PROVE TypeInv'
    OBVIOUS
  <1> DEFINE Rest == /\ speakers' \in [Talks -> SUBSET Users] /\ score' \in Likeness
                     /\ confirmed' \in [Videos -> Privacies] /\ formed' \in SUBSET Videos
  <1>a. UNCHANGED <<program, history>> => Rest
    BY DEF TypeInv, TypeOK, program, history
  <1>b. UNCHANGED page /\ UNCHANGED score => page' \in [Pages -> Page] /\ AcceptsATalk'
    BY DEF TypeInv, TypeOK, AcceptsATalk
  <1>c. UNCHANGED row => row' \in [Videos -> VideoRow]
    BY DEF TypeInv, TypeOK
  <1>d. row' \in [Videos -> VideoRow] /\ page' \in [Pages -> Page] /\ AcceptsATalk' /\ Rest => TypeInv'
    BY DEF TypeInv, TypeOK
  <1>e. \A v \in Videos : row[v] \in VideoRow
    BY DEF TypeInv, TypeOK
  <1> HIDE DEF Rest
  <1>1. ASSUME NEW v \in Videos, NEW t \in Talks, NEW u \in Users, ConfirmMatch(v, t, u)
        PROVE  TypeInv'
    <2>1. row' \in [Videos -> VideoRow]
      BY <1>1, MatchType DEF ConfirmMatch, Link
    <2> QED
      BY <1>1, <2>1, <1>a, <1>b, <1>d DEF ConfirmMatch, program
  <1>2. ASSUME NEW v \in Videos, NEW u \in Users, MarkStandalone(v, u)
        PROVE  TypeInv'
    <2>1. row' \in [Videos -> VideoRow]
      BY <1>2, MatchType DEF MarkStandalone
    <2> QED
      BY <1>2, <2>1, <1>a, <1>b, <1>d DEF MarkStandalone, program
  <1>3. ASSUME NEW v \in Videos, Unmatch(v)
        PROVE  TypeInv'
    <2>1. row' \in [Videos -> VideoRow]
      BY <1>3, MatchType DEF Unmatch
    <2> QED
      BY <1>3, <2>1, <1>a, <1>b, <1>d DEF Unmatch, program
  <1>4. ASSUME NEW p \in Pages, NEW s \in AllScreens, NEW v \in Videos, NEW u \in Users,
               Open(p, s, v, u)
        PROVE  TypeInv'
    <2> DEFINE new == [screen |-> s, user |-> u, video |-> v, seen |-> Copy(s, row[v])]
    <2>1. new \in Page /\ new.screen = s /\ new.video = v
      BY <1>e, CopyType DEF Page
    <2>2. DOMAIN score[v] = Talks
      BY ReviewAssumption DEF TypeInv, TypeOK
    <2>3. s = "accept" => Suggestion(score[v]) \in Talks
      BY <1>4, <2>2, SuggestionIsATalk DEF Open
    <2>4. page' = [page EXCEPT ![p] = new] /\ score' = score
      BY <1>4 DEF Open, program
    <2> HIDE DEF new
    <2>5. page' \in [Pages -> Page] /\ AcceptsATalk'
      BY <2>1, <2>3, <2>4, PageType
    <2> QED
      BY <1>4, <2>5, <1>a, <1>c, <1>d DEF Open
  <1>5. ASSUME NEW p \in Pages, Close(p)
        PROVE  TypeInv'
    <2>1. page' \in [Pages -> Page] /\ AcceptsATalk'
      BY <1>5, ClosePageType DEF Close, program
    <2> QED
      BY <1>5, <2>1, <1>a, <1>c, <1>d DEF Close
  <1>6. ASSUME NEW p \in Pages, Approve(p)
        PROVE  TypeInv'
    <2> DEFINE v == page[p].video
               new == [row[v] EXCEPT !.review_state = "approved",
                          !.approval_source = Source(page[p].user, page[p].seen),
                          !.approved_by = page[p].user]
    <2>1. v \in Videos /\ row[v] \in VideoRow /\ page[p].user \in Users
      BY <1>e, PageFields
    <2>2. Source(page[p].user, page[p].seen) \in Sources
      BY DEF Source, Sources
    <2>3. new \in VideoRow
      BY <2>1, <2>2 DEF VideoRow, ReviewStates
    <2>4. row' = [row EXCEPT ![v] = new]
      BY <1>6 DEF Approve
    <2>5. row' \in [Videos -> VideoRow]
      BY <2>1, <2>3, <2>4, RowType
    <2>6. page' \in [Pages -> Page] /\ AcceptsATalk'
      BY <1>6, ClosePageType DEF Approve, program
    <2> QED
      BY <1>6, <2>5, <2>6, <1>a, <1>d DEF Approve
  <1>7. ASSUME NEW p \in Pages, RequestChanges(p)
        PROVE  TypeInv'
    <2> DEFINE v == page[p].video
               new == [row[v] EXCEPT !.review_state = "changes_requested",
                          !.approval_source = "blank", !.approved_by = None]
    <2>1. v \in Videos /\ row[v] \in VideoRow
      BY <1>e, PageFields
    <2>2. new \in VideoRow
      BY <2>1 DEF VideoRow, ReviewStates, Sources
    <2>3. row' = [row EXCEPT ![v] = new]
      BY <1>7 DEF RequestChanges
    <2>4. row' \in [Videos -> VideoRow]
      BY <2>1, <2>2, <2>3, RowType
    <2>5. page' \in [Pages -> Page] /\ AcceptsATalk'
      BY <1>7, ClosePageType DEF RequestChanges, program
    <2> QED
      BY <1>7, <2>4, <2>5, <1>a, <1>d DEF RequestChanges
  <1>8. ASSUME NEW p \in Pages, AcceptSuggested(p)
        PROVE  TypeInv'
    <2>1. page[p].video \in Videos /\ page[p].user \in Users
          /\ Suggestion(score[page[p].video]) \in Talks
      BY <1>8, PageFields DEF AcceptSuggested, TypeInv, AcceptsATalk
    <2>2. row' \in [Videos -> VideoRow]
      BY <1>8, <2>1, MatchType DEF AcceptSuggested, Link
    <2>3. page' \in [Pages -> Page] /\ AcceptsATalk'
      BY <1>8, ClosePageType DEF AcceptSuggested, program
    <2> QED
      BY <1>8, <2>2, <2>3, <1>a, <1>d DEF AcceptSuggested
  <1>9. ASSUME NEW p \in Pages, PostForm(p)
        PROVE  TypeInv'
    <2> DEFINE old == row[page[p].video]
    <2>1. page[p].seen \in VideoRow /\ old \in VideoRow /\ page[p].user \in Users
      BY <1>e, PageFields
    <2> HIDE DEF old
    <2>2. PICK posted \in Edits(page[p].seen) :
             page' = [page EXCEPT ![p] = [@ EXCEPT !.screen = "saving",
                         !.seen = [posted EXCEPT
                            !.matched_by = Stamp(page[p].user, old, posted),
                            !.approval_source = old.approval_source,
                            !.privacy_status = old.privacy_status]]]
      BY <1>9 DEF PostForm, old
    <2> DEFINE saved == [posted EXCEPT !.matched_by = Stamp(page[p].user, old, posted),
                            !.approval_source = old.approval_source,
                            !.privacy_status = old.privacy_status]
               new == [page[p] EXCEPT !.screen = "saving", !.seen = saved]
    <2>3. posted \in VideoRow
      BY <2>1, EditsType
    <2>4. Stamp(page[p].user, old, posted) \in Users \cup {None}
      BY <2>1, <2>3, RowColumns DEF Stamp
    <2>5. saved \in VideoRow
      BY <2>1, <2>3, <2>4, RowColumns DEF VideoRow
    <2> HIDE DEF saved
    <2>6. new \in Page /\ new.screen = "saving"
      BY <2>5 DEF Page, TypeInv, TypeOK
    <2>7. page' = [page EXCEPT ![p] = new]
      BY <2>2 DEF saved
    <2> HIDE DEF new
    <2>8. page' \in [Pages -> Page] /\ AcceptsATalk'
      BY <1>9, <2>6, <2>7, PageType DEF PostForm, program
    <2> QED
      BY <1>9, <2>8, <1>a, <1>c, <1>d DEF PostForm
  <1>10. ASSUME NEW p \in Pages, PostInline(p)
         PROVE  TypeInv'
    <2> DEFINE old == row[page[p].video]
    <2>1. old \in VideoRow /\ page[p].user \in Users
      BY <1>e, PageFields
    <2> HIDE DEF old
    <2>2. PICK s \in ReviewStates :
             page' = [page EXCEPT ![p] = [@ EXCEPT !.screen = "saving",
                         !.seen = [old EXCEPT !.review_state = s,
                            !.matched_by = IF @ = None THEN page[p].user ELSE @]]]
      BY <1>10 DEF PostInline, old
    <2> DEFINE saved == [old EXCEPT !.review_state = s,
                            !.matched_by = IF @ = None THEN page[p].user ELSE @]
               new == [page[p] EXCEPT !.screen = "saving", !.seen = saved]
    <2>3. saved \in VideoRow
      BY <2>1 DEF VideoRow
    <2> HIDE DEF saved
    <2>4. new \in Page /\ new.screen = "saving"
      BY <2>3 DEF Page, TypeInv, TypeOK
    <2>5. page' = [page EXCEPT ![p] = new]
      BY <2>2 DEF saved
    <2> HIDE DEF new
    <2>6. page' \in [Pages -> Page] /\ AcceptsATalk'
      BY <1>10, <2>4, <2>5, PageType DEF PostInline, program
    <2> QED
      BY <1>10, <2>6, <1>a, <1>c, <1>d DEF PostInline
  <1>11. ASSUME NEW p \in Pages, SaveForm(p)
         PROVE  TypeInv'
    <2>1. row' \in [Videos -> VideoRow]
      BY <1>11, PageFields, RowType DEF SaveForm
    <2>2. page' \in [Pages -> Page] /\ AcceptsATalk'
      BY <1>11, ClosePageType DEF SaveForm, program
    <2>3. Rest
      BY <1>11, PageFields DEF SaveForm, Rest, program, TypeInv, TypeOK
    <2> QED
      BY <2>1, <2>2, <2>3, <1>d
  <1>12. ASSUME NEW v \in Videos, NEW privacy \in Privacies, ConfirmPrivacy(v, privacy)
         PROVE  TypeInv'
    <2> DEFINE new == [row[v] EXCEPT !.privacy_status = privacy]
    <2>1. new \in VideoRow
      BY <1>e DEF VideoRow
    <2>2. row' = [row EXCEPT ![v] = new]
      BY <1>12 DEF ConfirmPrivacy
    <2>3. row' \in [Videos -> VideoRow]
      BY <2>1, <2>2, RowType
    <2>4. Rest
      BY <1>12 DEF ConfirmPrivacy, Rest, program, TypeInv, TypeOK
    <2> QED
      BY <1>12, <2>3, <2>4, <1>b, <1>d DEF ConfirmPrivacy, program
  <1>13. ASSUME NEW t \in Talks, NEW who \in Casts[t], ChangeSpeakers(t, who)
         PROVE  TypeInv'
    <2>1. who \in SUBSET Users
      BY ReviewAssumption
    <2>2. Rest
      BY <1>13, <2>1 DEF ChangeSpeakers, Rest, history, TypeInv, TypeOK
    <2> QED
      BY <1>13, <2>2, <1>b, <1>c, <1>d DEF ChangeSpeakers
  <1>14. CASE UNCHANGED vars
    BY <1>14, <1>a, <1>b, <1>c, <1>d DEF vars, program, history
  <1> QED
    BY <1>1, <1>2, <1>3, <1>4, <1>5, <1>6, <1>7, <1>8, <1>9, <1>10, <1>11, <1>12, <1>13,
       <1>14 DEF Next

\* The rows, the program, the pages and the history keep their types.
THEOREM TypeCorrect == Spec => []TypeOK
  <1>1. Init => TypeInv
    BY TypesInit
  <1>2. TypeInv /\ [Next]_vars => TypeInv'
    BY TypesStep
  <1>3. TypeInv => TypeOK
    BY DEF TypeInv
  <1> QED
    BY <1>1, <1>2, <1>3, PTL DEF Spec

(***************************************************************************)
(* Bulk acceptance.                                                         *)
(***************************************************************************)

\* What bulk acceptance is about to link is clearly ahead of every talk of the
\* event, however many the event has and whatever the scores.
THEOREM BulkAcceptanceNeverGuesses == Spec => []BulkAcceptanceIsClear
  <1>1. TypeInv => BulkAcceptanceIsClear
    <2> SUFFICES ASSUME TypeInv, NEW p \in Pages, page[p].screen = "accept"
                 PROVE  LET scores == score[page[p].video]  chosen == Suggestion(scores)
                        IN  \A t \in Talks \ {chosen} : scores[chosen] - scores[t] >= Margin
      BY DEF BulkAcceptanceIsClear
    <2> DEFINE scores == score[page[p].video]  chosen == Suggestion(scores)
    <2>1. scores \in [Talks -> 0 .. 100]
      BY PageFields, ReviewAssumption DEF TypeInv, TypeOK
    <2>2. chosen \in Talks /\ chosen # None
      BY ReviewAssumption DEF TypeInv, AcceptsATalk
    <2> HIDE DEF scores
    <2>3. IsUnambiguous(scores, chosen)
      BY <2>2 DEF Suggestion
    <2>4. DOMAIN scores = Talks /\ \A t \in Talks : scores[t] \in 0 .. 100
      BY <2>1
    <2> HIDE DEF chosen
    <2>5. \A t \in Talks \ {chosen} : scores[chosen] - scores[t] >= Margin
      BY <2>3, <2>4, ReviewAssumption, UnambiguousIsClear
    <2> QED
      BY <2>5 DEF chosen, scores
  <1>2. Init => TypeInv
    BY TypesInit
  <1>3. TypeInv /\ [Next]_vars => TypeInv'
    BY TypesStep
  <1> QED
    BY <1>1, <1>2, <1>3, PTL DEF Spec

(***************************************************************************)
(* The check constraint.                                                    *)
(***************************************************************************)

\* What a form is about to save satisfies the constraint too, although it was
\* derived before other requests saved.
SavedFormsAreClean ==
    \A p \in Pages : page[p].screen = "saving" => FormValid(page[p].seen)

ConstraintInv == StandaloneHasNoTalk /\ SavedFormsAreClean

\* A change of the match columns that is a decision or takes one back.
LEMMA MatchIsClean ==
  ASSUME TypeInv, ConstraintInv, NEW v \in Videos, NEW t, NEW alone, NEW u,
         SaveMatch(v, t, alone, u), alone => t = None
  PROVE  StandaloneHasNoTalk'
  BY DEF SaveMatch, ConstraintInv, StandaloneHasNoTalk, TypeInv, TypeOK, VideoRow

\* A change of other columns.
LEMMA OtherColumnsClean ==
  ASSUME TypeInv, ConstraintInv, NEW v \in Videos, NEW new, row' = [row EXCEPT ![v] = new],
         new.talk = row[v].talk, new.standalone = row[v].standalone
  PROVE  StandaloneHasNoTalk'
  BY DEF ConstraintInv, StandaloneHasNoTalk, TypeInv, TypeOK

\* Replacing a page by one that saves nothing dirty.
LEMMA PageIsClean ==
  ASSUME TypeInv, ConstraintInv, NEW p \in Pages, NEW new, page' = [page EXCEPT ![p] = new],
         new.screen = "saving" => FormValid(new.seen)
  PROVE  SavedFormsAreClean'
  BY DEF ConstraintInv, SavedFormsAreClean, TypeInv, TypeOK, FormValid

\* At first nothing is matched and nothing is being saved.
LEMMA ConstraintInit == Init => ConstraintInv
  BY ClosedType DEF Init, ConstraintInv, StandaloneHasNoTalk, SavedFormsAreClean, NewRow

\* Every step keeps the constraint.
LEMMA ConstraintStep == TypeInv /\ ConstraintInv /\ [Next]_vars => ConstraintInv'
  <1> SUFFICES ASSUME TypeInv, ConstraintInv, [Next]_vars PROVE ConstraintInv'
    OBVIOUS
  <1>a. UNCHANGED row => StandaloneHasNoTalk'
    BY DEF ConstraintInv, StandaloneHasNoTalk
  <1>b. UNCHANGED page => SavedFormsAreClean'
    BY DEF ConstraintInv, SavedFormsAreClean, FormValid
  <1>c. \A p \in Pages : page' = [page EXCEPT ![p] = Closed] => SavedFormsAreClean'
    BY ClosedType, PageIsClean
  <1>1. ASSUME NEW v \in Videos, NEW t \in Talks, NEW u \in Users, ConfirmMatch(v, t, u)
        PROVE  ConstraintInv'
    BY <1>1, <1>b, MatchIsClean DEF ConfirmMatch, Link, ConstraintInv
  <1>2. ASSUME NEW v \in Videos, NEW u \in Users, MarkStandalone(v, u)
        PROVE  ConstraintInv'
    BY <1>2, <1>b, MatchIsClean DEF MarkStandalone, ConstraintInv
  <1>3. ASSUME NEW v \in Videos, Unmatch(v)
        PROVE  ConstraintInv'
    BY <1>3, <1>b, MatchIsClean DEF Unmatch, ConstraintInv
  <1>4. ASSUME NEW p \in Pages, NEW s \in AllScreens, NEW v \in Videos, NEW u \in Users,
               Open(p, s, v, u)
        PROVE  ConstraintInv'
    <2> DEFINE new == [screen |-> s, user |-> u, video |-> v, seen |-> Copy(s, row[v])]
    <2>1. new.screen # "saving"
      BY DEF AllScreens
    <2>2. page' = [page EXCEPT ![p] = new]
      BY <1>4 DEF Open
    <2> HIDE DEF new
    <2>3. SavedFormsAreClean'
      BY <2>1, <2>2, PageIsClean
    <2> QED
      BY <1>4, <2>3, <1>a DEF Open, ConstraintInv
  <1>5. ASSUME NEW p \in Pages, Close(p)
        PROVE  ConstraintInv'
    BY <1>5, <1>a, <1>c DEF Close, ConstraintInv
  <1>6. ASSUME NEW p \in Pages, Approve(p)
        PROVE  ConstraintInv'
    <2> DEFINE v == page[p].video
               new == [row[v] EXCEPT !.review_state = "approved",
                          !.approval_source = Source(page[p].user, page[p].seen),
                          !.approved_by = page[p].user]
    <2>1. v \in Videos /\ row[v] \in VideoRow
      BY PageFields DEF TypeInv, TypeOK
    <2>2. row' = [row EXCEPT ![v] = new]
      BY <1>6 DEF Approve
    <2>3. new.talk = row[v].talk /\ new.standalone = row[v].standalone
      BY <2>1 DEF VideoRow
    <2> HIDE DEF new
    <2>4. StandaloneHasNoTalk'
      BY <2>1, <2>2, <2>3, OtherColumnsClean
    <2> QED
      BY <1>6, <2>4, <1>c DEF Approve, ConstraintInv
  <1>7. ASSUME NEW p \in Pages, RequestChanges(p)
        PROVE  ConstraintInv'
    <2> DEFINE v == page[p].video
               new == [row[v] EXCEPT !.review_state = "changes_requested",
                          !.approval_source = "blank", !.approved_by = None]
    <2>1. v \in Videos /\ row[v] \in VideoRow
      BY PageFields DEF TypeInv, TypeOK
    <2>2. row' = [row EXCEPT ![v] = new]
      BY <1>7 DEF RequestChanges
    <2>3. new.talk = row[v].talk /\ new.standalone = row[v].standalone
      BY <2>1 DEF VideoRow
    <2> HIDE DEF new
    <2>4. StandaloneHasNoTalk'
      BY <2>1, <2>2, <2>3, OtherColumnsClean
    <2> QED
      BY <1>7, <2>4, <1>c DEF RequestChanges, ConstraintInv
  <1>8. ASSUME NEW p \in Pages, AcceptSuggested(p)
        PROVE  ConstraintInv'
    <2>1. StandaloneHasNoTalk'
      BY <1>8, PageFields, MatchIsClean DEF AcceptSuggested, Link
    <2> QED
      BY <1>8, <2>1, <1>c DEF AcceptSuggested, ConstraintInv
  <1>9. ASSUME NEW p \in Pages, PostForm(p)
        PROVE  ConstraintInv'
    <2> DEFINE old == row[page[p].video]
    <2>1. PICK posted \in Edits(page[p].seen) :
             /\ FormValid(posted)
             /\ page' = [page EXCEPT ![p] = [@ EXCEPT !.screen = "saving",
                         !.seen = [posted EXCEPT
                            !.matched_by = Stamp(page[p].user, old, posted),
                            !.approval_source = old.approval_source,
                            !.privacy_status = old.privacy_status]]]
      BY <1>9 DEF PostForm
    <2> DEFINE saved == [posted EXCEPT !.matched_by = Stamp(page[p].user, old, posted),
                            !.approval_source = old.approval_source,
                            !.privacy_status = old.privacy_status]
               new == [page[p] EXCEPT !.screen = "saving", !.seen = saved]
    <2> HIDE DEF old
    <2>2. posted \in VideoRow
      BY PageFields, EditsType
    <2>3. saved.talk = posted.talk /\ saved.standalone = posted.standalone
      BY <2>2 DEF VideoRow
    <2> HIDE DEF saved
    <2>4. FormValid(saved)
      BY <2>1, <2>3 DEF FormValid
    <2>5. new.seen = saved
      BY DEF TypeInv, TypeOK, Page
    <2>6. page' = [page EXCEPT ![p] = new]
      BY <2>1 DEF saved
    <2> HIDE DEF new
    <2>7. SavedFormsAreClean'
      BY <2>4, <2>5, <2>6, PageIsClean
    <2> QED
      BY <1>9, <2>7, <1>a DEF PostForm, ConstraintInv
  <1>10. ASSUME NEW p \in Pages, PostInline(p)
         PROVE  ConstraintInv'
    <2> DEFINE old == row[page[p].video]
    <2>1. old \in VideoRow /\ FormValid(old)
      BY PageFields DEF TypeInv, TypeOK, ConstraintInv, StandaloneHasNoTalk, FormValid
    <2>2. PICK s \in ReviewStates :
             page' = [page EXCEPT ![p] = [@ EXCEPT !.screen = "saving",
                         !.seen = [old EXCEPT !.review_state = s,
                            !.matched_by = IF @ = None THEN page[p].user ELSE @]]]
      BY <1>10 DEF PostInline
    <2> DEFINE saved == [old EXCEPT !.review_state = s,
                            !.matched_by = IF @ = None THEN page[p].user ELSE @]
               new == [page[p] EXCEPT !.screen = "saving", !.seen = saved]
    <2> HIDE DEF old
    <2>3. saved.talk = old.talk /\ saved.standalone = old.standalone
      BY <2>1 DEF VideoRow
    <2> HIDE DEF saved
    <2>4. new.seen = saved
      BY DEF TypeInv, TypeOK, Page
    <2>5. page' = [page EXCEPT ![p] = new]
      BY <2>2 DEF saved
    <2> HIDE DEF new
    <2>6. SavedFormsAreClean'
      BY <2>1, <2>3, <2>4, <2>5, PageIsClean DEF FormValid
    <2> QED
      BY <1>10, <2>6, <1>a DEF PostInline, ConstraintInv
  <1>11. ASSUME NEW p \in Pages, SaveForm(p)
         PROVE  ConstraintInv'
    <2>1. page[p].video \in Videos /\ page[p].seen \in VideoRow /\ FormValid(page[p].seen)
      BY <1>11, PageFields DEF SaveForm, ConstraintInv, SavedFormsAreClean
    <2>2. StandaloneHasNoTalk'
      BY <1>11, <2>1 DEF SaveForm, ConstraintInv, StandaloneHasNoTalk, FormValid, TypeInv, TypeOK
    <2> QED
      BY <1>11, <2>2, <1>c DEF SaveForm, ConstraintInv
  <1>12. ASSUME NEW v \in Videos, NEW privacy \in Privacies, ConfirmPrivacy(v, privacy)
         PROVE  ConstraintInv'
    <2> DEFINE new == [row[v] EXCEPT !.privacy_status = privacy]
    <2>1. new.talk = row[v].talk /\ new.standalone = row[v].standalone
      BY DEF TypeInv, TypeOK, VideoRow
    <2>2. row' = [row EXCEPT ![v] = new]
      BY <1>12 DEF ConfirmPrivacy
    <2> HIDE DEF new
    <2>3. StandaloneHasNoTalk'
      BY <2>1, <2>2, OtherColumnsClean
    <2> QED
      BY <1>12, <2>3, <1>b DEF ConfirmPrivacy, ConstraintInv
  <1>13. ASSUME NEW t \in Talks, NEW who \in Casts[t], ChangeSpeakers(t, who)
         PROVE  ConstraintInv'
    BY <1>13, <1>a, <1>b DEF ChangeSpeakers, ConstraintInv
  <1>14. CASE UNCHANGED vars
    BY <1>14, <1>a, <1>b DEF vars, ConstraintInv
  <1> QED
    BY <1>1, <1>2, <1>3, <1>4, <1>5, <1>6, <1>7, <1>8, <1>9, <1>10, <1>11, <1>12, <1>13,
       <1>14 DEF Next

\* Whatever requests and admin forms interleave, no save violates the constraint
\* that a standalone video has no talk.
THEOREM NoSaveViolatesTheConstraint == Spec => []StandaloneHasNoTalk
  <1>1. Init => TypeInv /\ ConstraintInv
    BY TypesInit, ConstraintInit
  <1>2. TypeInv /\ ConstraintInv /\ [Next]_vars => TypeInv' /\ ConstraintInv'
    BY TypesStep, ConstraintStep
  <1>3. ConstraintInv => StandaloneHasNoTalk
    BY DEF ConstraintInv
  <1> QED
    BY <1>1, <1>2, <1>3, PTL DEF Spec

(***************************************************************************)
(* Columns that requests and handlers write side by side, of the videos no  *)
(* admin form was saved on: SaveForm writes every column of a stale row.    *)
(***************************************************************************)

ApprovalAgrees(r) ==
    /\ r.review_state = "approved" <=> r.approval_source # "blank"
    /\ r.review_state = "approved" <=> r.approved_by # None

MatchAgrees(r) == NeedsMatching(r) <=> r.matched_by = None

\* Every column group of a video's row is as its last writer left it.
RowAgrees(v) ==
    ApprovalAgrees(row[v]) /\ MatchAgrees(row[v]) /\ row[v].privacy_status = confirmed[v]

ColumnsInv == \A v \in Videos \ formed : RowAgrees(v)

\* A step that saves one video's row, in groups that agree if they did.
LEMMA SaveAgrees ==
  ASSUME TypeInv, ColumnsInv, NEW v \in Videos, NEW new, row' = [row EXCEPT ![v] = new],
         RowAgrees(v) => ApprovalAgrees(new) /\ MatchAgrees(new),
         UNCHANGED history, new.privacy_status = row[v].privacy_status
  PROVE  ColumnsInv'
  <1> SUFFICES ASSUME NEW w \in Videos, w \notin formed PROVE RowAgrees(w)'
    BY DEF ColumnsInv, history
  <1>1. RowAgrees(w)
    BY DEF ColumnsInv
  <1>2. CASE w = v
    BY <1>1, <1>2
    DEF RowAgrees, ApprovalAgrees, MatchAgrees, NeedsMatching, TypeInv, TypeOK, history
  <1>3. CASE w # v
    BY <1>1, <1>3
    DEF RowAgrees, ApprovalAgrees, MatchAgrees, NeedsMatching, TypeInv, TypeOK, history
  <1> QED
    BY <1>2, <1>3

\* A decision about the match stamps its decider, and taking it back unstamps.
LEMMA MatchAgreesAfter ==
  ASSUME TypeInv, ColumnsInv, NEW v \in Videos, NEW t \in Talks \cup {None},
         NEW alone \in BOOLEAN, NEW u, SaveMatch(v, t, alone, u), UNCHANGED history,
         (t = None /\ ~alone) <=> u = None
  PROVE  ColumnsInv'
  <1> DEFINE new == [row[v] EXCEPT !.talk = t, !.standalone = alone, !.matched_by = u]
  <1>1. row[v] \in VideoRow
    BY DEF TypeInv, TypeOK
  <1>2. new.privacy_status = row[v].privacy_status
    BY <1>1 DEF VideoRow
  <1>3. RowAgrees(v) => ApprovalAgrees(new)
    BY <1>1 DEF VideoRow, RowAgrees, ApprovalAgrees
  <1>4. MatchAgrees(new)
    BY <1>1 DEF VideoRow, MatchAgrees, NeedsMatching
  <1>5. row' = [row EXCEPT ![v] = new]
    BY DEF SaveMatch
  <1> HIDE DEF new
  <1> QED
    BY <1>2, <1>3, <1>4, <1>5, SaveAgrees

\* approve and request_changes save these three columns.
SaveReview(v, state, source, u) ==
    row' = [row EXCEPT ![v] = [@ EXCEPT !.review_state = state,
                                  !.approval_source = source, !.approved_by = u]]

\* A decision about the recording replaces state, source and approver together.
LEMMA ReviewAgreesAfter ==
  ASSUME TypeInv, ColumnsInv, NEW v \in Videos, NEW state, NEW source, NEW u,
         SaveReview(v, state, source, u), UNCHANGED history,
         state = "approved" <=> source # "blank", state = "approved" <=> u # None
  PROVE  ColumnsInv'
  <1> DEFINE new == [row[v] EXCEPT !.review_state = state, !.approval_source = source,
                                   !.approved_by = u]
  <1>1. row[v] \in VideoRow
    BY DEF TypeInv, TypeOK
  <1>2. new.privacy_status = row[v].privacy_status
    BY <1>1 DEF VideoRow
  <1>3. ApprovalAgrees(new)
    BY <1>1 DEF VideoRow, ApprovalAgrees
  <1>4. RowAgrees(v) => MatchAgrees(new)
    BY <1>1 DEF VideoRow, RowAgrees, MatchAgrees, NeedsMatching
  <1>5. row' = [row EXCEPT ![v] = new]
    BY DEF SaveReview
  <1> HIDE DEF new
  <1> QED
    BY <1>2, <1>3, <1>4, <1>5, SaveAgrees

\* At first everything is blank, private and undecided.
LEMMA ColumnsInit == Init => ColumnsInv
  BY DEF Init, ColumnsInv, RowAgrees, ApprovalAgrees, MatchAgrees, NeedsMatching, NewRow

\* Every step keeps the column groups; a form's save takes its video out.
LEMMA ColumnsStep == TypeInv /\ ColumnsInv /\ [Next]_vars => ColumnsInv'
  <1> SUFFICES ASSUME TypeInv, ColumnsInv, [Next]_vars PROVE ColumnsInv'
    OBVIOUS
  <1>a. UNCHANGED <<row, history>> => ColumnsInv'
    BY DEF ColumnsInv, RowAgrees, ApprovalAgrees, MatchAgrees, NeedsMatching, history
  <1>1. ASSUME NEW v \in Videos, NEW t \in Talks, NEW u \in Users, ConfirmMatch(v, t, u)
        PROVE  ColumnsInv'
    <2>1. SaveMatch(v, t, FALSE, u) /\ UNCHANGED history
      BY <1>1 DEF ConfirmMatch, Link
    <2> QED
      BY <2>1, MatchAgreesAfter, ReviewAssumption
  <1>2. ASSUME NEW v \in Videos, NEW u \in Users, MarkStandalone(v, u)
        PROVE  ColumnsInv'
    <2>1. SaveMatch(v, None, TRUE, u) /\ UNCHANGED history
      BY <1>2 DEF MarkStandalone
    <2> QED
      BY <2>1, MatchAgreesAfter, ReviewAssumption
  <1>3. ASSUME NEW v \in Videos, Unmatch(v)
        PROVE  ColumnsInv'
    <2>1. SaveMatch(v, None, FALSE, None) /\ UNCHANGED history
      BY <1>3 DEF Unmatch
    <2> QED
      BY <2>1, MatchAgreesAfter
  <1>4. ASSUME NEW p \in Pages, Approve(p)
        PROVE  ColumnsInv'
    <2> DEFINE v == page[p].video  source == Source(page[p].user, page[p].seen)  u == page[p].user
    <2>1. v \in Videos /\ u \in Users /\ u # None
      BY PageFields, ReviewAssumption
    <2>2. source # "blank"
      BY DEF Source
    <2>3. SaveReview(v, "approved", source, u) /\ UNCHANGED history
      BY <1>4 DEF Approve, SaveReview
    <2> HIDE DEF v, source, u
    <2> QED
      BY <2>1, <2>2, <2>3, ReviewAgreesAfter
  <1>5. ASSUME NEW p \in Pages, RequestChanges(p)
        PROVE  ColumnsInv'
    <2> DEFINE v == page[p].video
    <2>1. v \in Videos
      BY PageFields
    <2>2. SaveReview(v, "changes_requested", "blank", None) /\ UNCHANGED history
      BY <1>5 DEF RequestChanges, SaveReview
    <2> HIDE DEF v
    <2> QED
      BY <2>1, <2>2, ReviewAgreesAfter
  <1>6. ASSUME NEW p \in Pages, AcceptSuggested(p)
        PROVE  ColumnsInv'
    <2> DEFINE v == page[p].video  t == Suggestion(score[v])  u == page[p].user
    <2>1. v \in Videos /\ u \in Users /\ t \in Talks
      BY <1>6, PageFields DEF AcceptSuggested, TypeInv, AcceptsATalk
    <2>2. SaveMatch(v, t, FALSE, u) /\ UNCHANGED history
      BY <1>6 DEF AcceptSuggested, Link
    <2> HIDE DEF v, t, u
    <2> QED
      BY <2>1, <2>2, MatchAgreesAfter, ReviewAssumption
  <1>7. ASSUME NEW p \in Pages, SaveForm(p)
        PROVE  ColumnsInv'
    BY <1>7
    DEF SaveForm, ColumnsInv, RowAgrees, ApprovalAgrees, MatchAgrees, NeedsMatching, TypeInv, TypeOK
  <1>8. ASSUME NEW v \in Videos, NEW privacy \in Privacies, ConfirmPrivacy(v, privacy)
        PROVE  ColumnsInv'
    <2>1. row[v] \in VideoRow
      BY DEF TypeInv, TypeOK
    <2> QED
      BY <1>8, <2>1
      DEF ConfirmPrivacy, ColumnsInv, RowAgrees, ApprovalAgrees, MatchAgrees, NeedsMatching,
          TypeInv, TypeOK, VideoRow
  <1>9. \A p \in Pages, s \in AllScreens, v \in Videos, u \in Users :
            Open(p, s, v, u) => UNCHANGED <<row, history>>
    BY DEF Open
  <1>10. \A p \in Pages : Close(p) \/ PostForm(p) \/ PostInline(p) => UNCHANGED <<row, history>>
    BY DEF Close, PostForm, PostInline
  <1>11. \A t \in Talks : \A who \in Casts[t] : ChangeSpeakers(t, who) => UNCHANGED <<row, history>>
    BY DEF ChangeSpeakers
  <1>12. CASE UNCHANGED vars
    BY <1>12, <1>a DEF vars, history
  <1> QED
    BY <1>a, <1>1, <1>2, <1>3, <1>4, <1>5, <1>6, <1>7, <1>8, <1>9, <1>10, <1>11, <1>12 DEF Next

\* The column groups agree in every state, of every video no form was saved on.
LEMMA Columns == Spec => []ColumnsInv
  <1>1. Init => TypeInv /\ ColumnsInv
    BY TypesInit, ColumnsInit
  <1>2. TypeInv /\ ColumnsInv /\ [Next]_vars => TypeInv' /\ ColumnsInv'
    BY TypesStep, ColumnsStep
  <1> QED
    BY <1>1, <1>2, PTL DEF Spec

\* However many people approve a video and request changes to it at once, its
\* source and its approver say approved exactly when its review state does.
THEOREM ApprovalsAgree == Spec => []ApprovalColumnsAgree
  <1>1. ColumnsInv => ApprovalColumnsAgree
    BY DEF ColumnsInv, RowAgrees, ApprovalAgrees, ApprovalColumnsAgree
  <1> QED
    BY <1>1, Columns, PTL

\* However matching, unmatching and bulk acceptance interleave, a match is
\* stamped exactly when it is decided.
THEOREM MatchesAreStamped == Spec => []MatchColumnsAgree
  <1>1. ColumnsInv => MatchColumnsAgree
    BY DEF ColumnsInv, RowAgrees, MatchAgrees, MatchColumnsAgree
  <1> QED
    BY <1>1, Columns, PTL

\* No request puts back a privacy a handler has since replaced.
THEOREM RequestsLeavePrivacy == Spec => []PrivacyIsConfirmed
  <1>1. ColumnsInv => PrivacyIsConfirmed
    BY DEF ColumnsInv, RowAgrees, PrivacyIsConfirmed
  <1> QED
    BY <1>1, Columns, PTL
=============================================================================
