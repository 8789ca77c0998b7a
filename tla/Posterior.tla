----------------------------- MODULE Posterior ------------------------------
(***************************************************************************)
(* compute_knowledge_state of services/knowledge_state_service.py on one   *)
(* facet, with the decay that the other modules leave out.  Time is counted*)
(* in half-lives of 60 days, so that every weight is a power of two and    *)
(* the arithmetic is exact: alpha and beta are in units of 1 / One.        *)
(*                                                                         *)
(* A series stands for graded attempts of one day, of weight 1 each (the   *)
(* weight of direct evidence from automatic grading).                      *)
(***************************************************************************)
EXTENDS Domain, Integers, FiniteSetsExt

CONSTANTS Series,
          Right, Wrong,    \* the correct and the failed attempts of a series
          Horizon          \* the bound on time

ASSUME SeriesAssumption ==
    /\ Right \in [Series -> Nat]
    /\ Wrong \in [Series -> Nat]
    /\ Horizon \in Nat

\* Power[n] is 2 ^ n.
Power[n \in Nat] == IF n = 0 THEN 1 ELSE 2 * Power[n - 1]

One == Power[Horizon]

KnowledgeState == [alpha: Nat, beta: Nat]

-----------------------------------------------------------------------------
\* Evidence that a clock ahead of ours dates after as_of does not decay.
Age(row, as_of) == IF as_of > row.at THEN as_of - row.at ELSE 0

\* Mutant: the age is counted backwards.
DecayBackwards(row, as_of) == Power[Age(row, as_of)]

Decay(row, as_of) == Power[Horizon - Age(row, as_of)]

\* Both priors are 1.
Compute(rows, as_of) ==
    [alpha |-> One + SumFunction([e \in rows |-> Right[e.series] * Decay(e, as_of)]),
     beta |-> One + SumFunction([e \in rows |-> Wrong[e.series] * Decay(e, as_of)])]

Total(state) == state.alpha + state.beta
EffectiveN(state) == Total(state) - 2 * One

LabelOf(state) ==
    IF EffectiveN(state) < One THEN "insufficient_evidence"
    ELSE IF EffectiveN(state) < 4 * One THEN "low_confidence"
    ELSE "high_confidence"

=============================================================================
