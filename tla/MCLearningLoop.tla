--------------------------- MODULE MCLearningLoop ---------------------------
(***************************************************************************)
(* Small instances of LearningLoop.  One student and one skill: the tables *)
(* of different learners share nothing but the idempotency keys.           *)
(***************************************************************************)
EXTENDS LearningLoop, TLC

CONSTANTS s1, k1, qA, qO, qR, a1, a2, r1, r2, r3, r4

\* qA and qO test application, qO is open-ended; qR is a retention question.
MCSkillOf == qA :> k1 @@ qO :> k1 @@ qR :> k1
MCFacetOf == qA :> "application" @@ qO :> "application" @@ qR :> "retention"

Submits(questions, keys, answers) ==
    [op: {"submit"}, student: {s1}, question: questions, key: keys,
     correct: answers]
Evaluates(keys) ==
    [op: {"evaluate"}, key: keys, correct: BOOLEAN, weight: {8}]
Completes(keys) ==
    [op: {"complete"}, learner: {<<s1, k1>>}, days: {14},
     question: {qA, qR, None}, key: keys, correct: BOOLEAN]
Reads == [op: {"read"}, learner: {<<s1, k1>>}]

\* Submissions, their retries and grades, on automatic and open questions;
\* scheduling and completing, with keys shared between attempts and completions,
\* some of which name questions they must refuse.
GradingCalls == Submits({qA, qO, None}, {a1, a2}, BOOLEAN) \cup Evaluates({a1, a2})
                \cup Completes({a1, a2}) \cup Reads

\* Observations posted under a key that the service derives itself.
Observes(keys) == [op: {"observe"}, observation: keys, about: {None, a1}]
Classifies(modes) == [op: {"classify"}, evidence: Request, mode: modes]

\* Calls of each kind, all around one attempt and one completion.
AnsweringCalls == Submits({qA, qO}, {a1}, {TRUE}) \cup Submits({qR}, {a1}, {FALSE})
                  \cup Evaluates({a1})
                  \cup Observes({<<a1, "evaluated">>})
                  \cup Classifies({"misconception"})
                  \cup [op: {"complete"}, learner: {<<s1, k1>>}, days: {28},
                        question: {qA}, key: {a2}, correct: {TRUE}]

\* Correct answers to an application question, each under a key of its own.
ApplicationCalls == Submits({qA}, {a1, a2}, {TRUE})

Symmetry == Permutations(Request)

=============================================================================
