--------------------------- MODULE DecisionPolicy ---------------------------
(***************************************************************************)
(* services/decision_policy.py and services/authorization_service.py: the  *)
(* scores of the candidate actions, which of them is selected, and whether *)
(* the student may act on it.                                              *)
(*                                                                         *)
(* Arithmetic is exact.  A mastery probability is p / Grain, a confidence  *)
(* weight is in halves, and a score is an integer over Scale, the common   *)
(* denominator of all the formulas.                                        *)
(***************************************************************************)
EXTENDS Domain, Integers

CONSTANT Grain

ASSUME GrainAssumption == Grain \in Nat \ {0}

Scale == 40 * Grain * Grain

\* The posterior is the mean of a Beta distribution that starts from (1, 1):
\* it is never 0 or 1.
FacetInput == [p: 1..(Grain - 1), label: Label]

\* Mutant: low confidence weighs as much as high confidence.
FullWeight == [insufficient_evidence |-> 0, low_confidence |-> 2,
               high_confidence |-> 2]

\* _CONFIDENCE_WEIGHT, in halves.
Weight == [insufficient_evidence |-> 0, low_confidence |-> 1,
           high_confidence |-> 2]

\* CandidateActionType, in the order of its declaration.
Position == [insufficient_evidence_action |-> 1, retrieval_question |-> 2,
             new_concept_explanation |-> 3, easier_task |-> 4,
             harder_task |-> 5, transfer_task |-> 6, review_task |-> 7,
             delayed_retention_assessment |-> 8, hint |-> 9,
             worked_example |-> 10, teacher_intervention |-> 11,
             defer_decision |-> 12]

Action == DOMAIN Position

-----------------------------------------------------------------------------
Positive(n) == IF n > 0 THEN n ELSE 0
Distance(m, n) == IF m > n THEN m - n ELSE n - m

EasierScore(w, p) == 20 * Grain * (w * Positive(Grain - 2 * p))

NewConceptScore(w1, p1, w2, p2) ==
    4 * Grain * (3 * (w1 * (Grain - p1)) + 2 * (w2 * (Grain - p2)))

Ambiguous(facet) == /\ facet.label = "low_confidence"
                    /\ 2 * Grain <= 5 * facet.p /\ 5 * facet.p <= 3 * Grain

\* score_candidates
Scores(facets) ==
    LET app == facets.application   wApp == Weight[app.label]
        rec == facets.recognition   wRec == Weight[rec.label]
        rcl == facets.recall        wRcl == Weight[rcl.label]
        trf == facets.transfer      wTrf == Weight[trf.label]
        ret == facets.retention     wRet == Weight[ret.label]
    IN [insufficient_evidence_action |-> Grain * Grain * (20 * (2 - wApp)),
        retrieval_question |->
            Grain * Grain * (17 * (2 - wApp) + 3 * (2 - wRec)),
        new_concept_explanation |-> NewConceptScore(wRec, rec.p, wRcl, rcl.p),
        easier_task |-> EasierScore(wApp, app.p),
        harder_task |->
            10 * Grain * ((wApp * (2 - wTrf)) * Positive(2 * app.p - Grain)),
        transfer_task |-> 10 * Grain * ((wApp * (2 - wTrf)) * app.p),
        review_task |->
            12 * Grain * (wApp * (Grain - Distance(2 * app.p, Grain)))
            + Grain * Grain * (8 * (2 - wRet)),
        delayed_retention_assessment |->
            5 * ((wApp * (wTrf * (2 - wRet))) * (app.p * trf.p)),
        hint |-> EasierScore(wApp, app.p) \div 2,
        worked_example |-> NewConceptScore(wRec, rec.p, wRcl, rcl.p) \div 2,
        teacher_intervention |-> IF Ambiguous(app) THEN Scale
                                                   ELSE 2 * Grain * Grain,
        defer_decision |-> 2 * Grain * Grain]

\* Mutant: of two actions with the same score, the later one is preferred.
LaterFirst(scores, a, b) ==
    \/ scores[a] > scores[b]
    \/ scores[a] = scores[b] /\ Position[a] > Position[b]

\* The sort key: by descending score, then by declaration.
Ahead(scores, a, b) ==
    \/ scores[a] > scores[b]
    \/ scores[a] = scores[b] /\ Position[a] < Position[b]

\* a is ranked[0].
Selected(facets, a) ==
    LET scores == Scores(facets) IN
    \A b \in Action \ {a} : Ahead(scores, a, b)

-----------------------------------------------------------------------------
Personalized == {"easier_task", "harder_task", "transfer_task",
                 "delayed_retention_assessment"}

Authorization == {"allowed", "rejected", "escalated"}

\* Mutant: without the rule about minors.
AuthorizeUngated(action, label, minor, consent) ==
    IF action = "teacher_intervention" THEN "escalated"
    ELSE IF action \in Personalized /\ label = "insufficient_evidence"
         THEN "rejected"
    ELSE "allowed"

Authorize(action, label, minor, consent) ==
    IF action = "teacher_intervention" THEN "escalated"
    ELSE IF action \in Personalized /\ label = "insufficient_evidence"
         THEN "rejected"
    ELSE IF minor /\ ~consent THEN "escalated"
    ELSE "allowed"

=============================================================================
