----------------------------- MODULE TaskChoice -----------------------------
(***************************************************************************)
(* services/task_service.py: which question a student is given to carry    *)
(* out a decision.                                                         *)
(***************************************************************************)
EXTENDS Domain, Integers, Sequences, SequencesExt

CONSTANTS Question,
          FacetOf,       \* the facet a question tests
          Difficulty

ASSUME QuestionAssumption ==
    /\ FacetOf \in [Question -> Facet]
    /\ Difficulty \in [Question -> Nat]

\* _ACTION_TASK_MAPPING: the actions that are carried out by answering a
\* question, and its facet.
TaskFacet == [insufficient_evidence_action |-> "application",
              retrieval_question |-> "recall",
              easier_task |-> "application",
              harder_task |-> "application",
              transfer_task |-> "transfer",
              review_task |-> "application"]

Executable(decision) ==
    /\ ~decision.shadow
    /\ decision.result = "allowed"
    /\ decision.action \in DOMAIN TaskFacet

\* The questions of the facet, of the questions in the order of their creation.
Candidates(action, questions) ==
    {q \in ToSet(questions) : FacetOf[q] = TaskFacet[action]}

-----------------------------------------------------------------------------
\* Mutant: questions that were attempted are not passed over.
PoolOfAll(action, candidates, attempted) == candidates

\* Only a review repeats a question while there is another.
Pool(action, candidates, attempted) ==
    LET fresh == candidates \ attempted IN
    IF action = "review_task" \/ fresh = {} THEN candidates ELSE fresh

\* Mutant: sorted by descending difficulty whatever the action.
PrecedesHarder(action, questions, q, other) == Difficulty[q] >= Difficulty[other]

\* The ORDER BY of the query, which leaves ties on difficulty open.
Precedes(action, questions, q, other) ==
    CASE action = "easier_task" -> Difficulty[q] <= Difficulty[other]
      [] action = "harder_task" -> Difficulty[q] >= Difficulty[other]
      [] OTHER -> \E i, j \in DOMAIN questions :
                     i <= j /\ questions[i] = q /\ questions[j] = other

\* resolve_task_for_decision returns one of these.
TaskChoices(action, questions, attempted) ==
    LET pool == Pool(action, Candidates(action, questions), attempted) IN
    {q \in pool : \A other \in pool : Precedes(action, questions, q, other)}

=============================================================================
