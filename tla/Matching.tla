------------------------------ MODULE Matching ------------------------------
(***************************************************************************)
(* The suggestions of src/src/videos/matching.py.  How alike two titles are *)
(* is abstracted to a score in hundredths, one per talk; what the code does *)
(* with the scores is kept.  Suggestions are a set: the order in which ties *)
(* are shown decides nothing, for two talks that tie are never unambiguous. *)
(***************************************************************************)
EXTENDS Integers, FiniteSets

HIGH_CONFIDENCE == 90
Minimum == 35
Margin == 12

\* A short list without a runner-up.
SUGGESTION_LIMIT_One == 1
SUGGESTION_LIMIT == 4

None == "none"

Candidates(score) == {t \in DOMAIN score : score[t] >= Minimum}

\* suggest: the best candidates, up to the limit.
Suggestions(score) ==
    CHOOSE best \in SUBSET Candidates(score) :
        /\ IF Cardinality(Candidates(score)) <= SUGGESTION_LIMIT
           THEN best = Candidates(score)
           ELSE Cardinality(best) = SUGGESTION_LIMIT
        /\ \A t \in best, u \in Candidates(score) \ best : score[t] >= score[u]

\* is_unambiguous, with this suggestion on top.
IsUnambiguous(score, t) ==
    /\ t \in Suggestions(score)
    /\ score[t] >= HIGH_CONFIDENCE
    /\ \A u \in Suggestions(score) \ {t} : score[t] - score[u] >= Margin

\* The talk bulk acceptance may link, or None.
Suggestion(score) ==
    IF \E t \in DOMAIN score : IsUnambiguous(score, t)
    THEN CHOOSE t \in DOMAIN score : IsUnambiguous(score, t)
    ELSE None
=============================================================================
