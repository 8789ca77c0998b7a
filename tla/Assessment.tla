----------------------------- MODULE Assessment -----------------------------
(***************************************************************************)
(* The handlers of services/assessment_service.py: submitting an attempt,  *)
(* grading it by hand, posting an observation and classifying a failure.   *)
(* Each action is one statement of a handler that talks to the database;   *)
(* what the other handlers do in between is what makes them interesting.   *)
(*                                                                         *)
(* The last statement of _apply_evaluation calls the retention service:    *)
(* the handler of an application question goes on at "find_checkpoints",   *)
(* which module Retention defines.                                         *)
(***************************************************************************)
EXTENDS Store

SubmitCall == [op: {"submit"}, student: Student, question: Question \cup {None},
               key: Key, correct: BOOLEAN]

\* reliability 0.8 times evaluation_confidence, in tenths
ManualWeight == 0..8
AutomaticWeight == 10

EvaluateCall == [op: {"evaluate"}, key: Key, correct: BOOLEAN,
                 weight: ManualWeight]

ObserveCall == [op: {"observe"}, observation: ObservationKey,
                about: Key \cup {None}]

ClassifyCall == [op: {"classify"}, evidence: Request, mode: FailureMode]

\* retention_service.complete_checkpoint submits an attempt of its own.
CompleteCall == [op: {"complete"}, learner: Learner, days: CheckpointDays,
                 question: Question \cup {None}, key: Key, correct: BOOLEAN]

-----------------------------------------------------------------------------
Submitter(r) == IF call[r].op = "complete" THEN call[r].learner[1]
                                           ELSE call[r].student

NewAttempt(r) == [key |-> call[r].key, student |-> Submitter(r),
                  question |-> call[r].question, result |-> "unknown", by |-> r]

\* submit_attempt has returned: to the client, or to complete_checkpoint,
\* which recomputes the knowledge state next.
AttemptReturned(r) ==
    \/ /\ call[r].op # "complete"
       /\ Return(r, "ok")
    \/ /\ call[r].op = "complete"
       /\ Goto(r, "read_evidence")
       /\ local' = [local EXCEPT ![r].learner = call[r].learner,
                                 ![r].resume = "finish_checkpoint"]
       /\ UNCHANGED <<call, outcome>>

SubmitAttempt(r) == Begin(r, "submit", "find_attempt")

\* Mutant: submit_attempt takes any question_id.
FindAttemptOnly(r) ==
    /\ pc[r] = "find_attempt"
    /\ \/ /\ \E a \in attempts : a.key = call[r].key
          /\ AttemptReturned(r)
          /\ UNCHANGED <<tables, writes>>
       \/ /\ \A a \in attempts : a.key # call[r].key
          /\ local' = [local EXCEPT ![r].attempt = NewAttempt(r)]
          /\ Step(r, "insert_attempt")
          /\ UNCHANGED writes

\* submit_attempt's lookup by idempotency_key: a retry gets the row that is
\* there, whoever submitted it and for whatever question.
FindAttempt(r) ==
    /\ pc[r] = "find_attempt"
    /\ \/ /\ \E a \in attempts : a.key = call[r].key
          /\ AttemptReturned(r)
          /\ UNCHANGED <<tables, writes>>
       \/ /\ \A a \in attempts : a.key # call[r].key
          /\ call[r].question = None
          /\ Answer(r, "rejected")
       \/ /\ \A a \in attempts : a.key # call[r].key
          /\ call[r].question # None
          /\ local' = [local EXCEPT ![r].attempt = NewAttempt(r)]
          /\ Step(r, "insert_attempt")
          /\ UNCHANGED writes

\* Mutant: no unique constraint on idempotency_key, only the lookup.
InsertAttemptAnyway(r) ==
    /\ pc[r] = "insert_attempt"
    /\ Step(r, "find_observation")
    /\ writes' = [writes EXCEPT ![r].attempts = {local[r].attempt}]
    /\ local' = [local EXCEPT ![r].observation = <<call[r].key, "submitted">>]

InsertAttempt(r) ==
    /\ pc[r] = "insert_attempt"
    /\ ~AttemptHeld(r, call[r].key)
    /\ \/ /\ \E a \in attempts : a.key = call[r].key
          /\ Conflict(r)
       \/ /\ \A a \in attempts : a.key # call[r].key
          /\ Step(r, "find_observation")
          /\ writes' = [writes EXCEPT ![r].attempts = {local[r].attempt}]
          /\ local' = [local EXCEPT ![r].observation = <<call[r].key, "submitted">>]

-----------------------------------------------------------------------------
\* _record_observation has returned to its caller: record_observation, the
\* first part of submit_attempt, or _apply_evaluation.
ObservationReturned(r) ==
    \/ /\ call[r].op = "observe"
       /\ Goto(r, "commit")
       /\ UNCHANGED local
    \/ /\ call[r].op # "observe"
       /\ local[r].observation[2] = "submitted"
       /\ local[r].attempt.question \in Gradable
       /\ Goto(r, "find_observation")
       /\ local' = [local EXCEPT ![r].observation = <<call[r].key, "evaluated">>]
    \/ /\ call[r].op # "observe"
       /\ local[r].observation[2] = "submitted"
       /\ local[r].attempt.question \notin Gradable
       /\ Goto(r, "commit")
       /\ UNCHANGED local
    \/ /\ call[r].op # "observe"
       /\ local[r].observation[2] = "evaluated"
       /\ Goto(r, "insert_evidence")
       /\ UNCHANGED local

FindObservation(r) ==
    /\ pc[r] = "find_observation"
    /\ \/ /\ \E o \in observations : o.key = local[r].observation
          /\ ObservationReturned(r)
       \/ /\ \A o \in observations : o.key # local[r].observation
          /\ Goto(r, "insert_observation")
          /\ UNCHANGED local
    /\ UNCHANGED <<tables, writes, call, outcome>>

Evaluating(r) == call[r].op # "observe" /\ local[r].observation[2] = "evaluated"

\* Mutant: the result never reaches the attempt's row.
AttemptUnmarked(r) == local[r].attempt

GradedAttempt(r) ==
    [local[r].attempt EXCEPT !.result = IF call[r].correct THEN "correct"
                                                           ELSE "incorrect"]

\* The flush also updates the row of the attempt that is being evaluated: it
\* waits for another transaction's update of it and then overwrites that.
InsertObservation(r) ==
    /\ pc[r] = "insert_observation"
    /\ ~ObservationHeld(r, local[r].observation)
    /\ Evaluating(r) => ~AttemptHeld(r, local[r].attempt.key)
    /\ \/ /\ \E o \in observations : o.key = local[r].observation
          /\ Conflict(r)
       \/ /\ \A o \in observations : o.key # local[r].observation
          /\ ObservationReturned(r)
          /\ writes' = [writes EXCEPT
                ![r].observations = @ \cup {[key |-> local[r].observation, by |-> r]},
                ![r].attempts = IF Evaluating(r) THEN {GradedAttempt(r)} ELSE @]
          /\ UNCHANGED <<tables, call, outcome>>

-----------------------------------------------------------------------------
\* _apply_evaluation, once it has its observation.  When that was there already,
\* it is the flush of the evidence row that updates the attempt's row.
StructuralMode(facet, correct) ==
    IF correct THEN None
    ELSE IF facet = "transfer" THEN "transfer_failure"
    ELSE IF facet = "retention" THEN "retention_failure"
    ELSE None

LearnerOf(attempt) == <<attempt.student, SkillOf[attempt.question]>>

NewEvidence(r) ==
    LET attempt == local[r].attempt IN
    [id |-> r, observation |-> local[r].observation,
     learner |-> LearnerOf(attempt), facet |-> FacetOf[attempt.question],
     positive |-> call[r].correct,
     weight |-> IF call[r].op = "evaluate" THEN call[r].weight
                                           ELSE AutomaticWeight,
     mode |-> StructuralMode(FacetOf[attempt.question], call[r].correct)]

InsertEvidence(r) ==
    /\ pc[r] = "insert_evidence"
    /\ ~AttemptHeld(r, local[r].attempt.key)
    /\ Step(r, IF FacetOf[local[r].attempt.question] = "application"
               THEN "find_checkpoints" ELSE "commit")
    /\ writes' = [writes EXCEPT ![r].attempts = {GradedAttempt(r)},
                                ![r].evidence = {NewEvidence(r)}]
    /\ local' = [local EXCEPT ![r].learner = LearnerOf(local[r].attempt),
                              ![r].resume = "insert_checkpoints"]

\* The commit that ends submit_attempt, evaluate_attempt, record_observation.
FinalCommit(r) ==
    /\ pc[r] = "commit"
    /\ Commit(r)
    /\ AttemptReturned(r)
    /\ UNCHANGED states

-----------------------------------------------------------------------------
EvaluateAttempt(r) == Begin(r, "evaluate", "load_attempt")

\* Mutant: evaluate_attempt grades what has been graded.
LoadAnyAttempt(r) ==
    /\ pc[r] = "load_attempt"
    /\ \E a \in attempts :
          /\ a.key = call[r].key
          /\ local' = [local EXCEPT ![r].attempt = a,
                                    ![r].observation = <<a.key, "evaluated">>]
    /\ Step(r, "find_observation")
    /\ UNCHANGED writes

LoadAttempt(r) ==
    /\ pc[r] = "load_attempt"
    /\ \/ /\ \A a \in attempts : a.key = call[r].key => a.result # "unknown"
          /\ Answer(r, "rejected")
       \/ \E a \in attempts :
             /\ a.key = call[r].key
             /\ a.result = "unknown"
             /\ local' = [local EXCEPT ![r].attempt = a,
                                       ![r].observation = <<a.key, "evaluated">>]
             /\ Step(r, "find_observation")
             /\ UNCHANGED writes

RecordObservation(r) == Begin(r, "observe", "find_subject")

FindSubject(r) ==
    /\ pc[r] = "find_subject"
    /\ \/ /\ \E o \in observations : o.key = call[r].observation
          /\ Answer(r, "ok")
       \/ /\ \A o \in observations : o.key # call[r].observation
          /\ call[r].about # None
          /\ \A a \in attempts : a.key # call[r].about
          /\ Answer(r, "rejected")
       \/ /\ \A o \in observations : o.key # call[r].observation
          /\ call[r].about # None => \E a \in attempts : a.key = call[r].about
          /\ local' = [local EXCEPT ![r].observation = call[r].observation]
          /\ Step(r, "find_observation")
          /\ UNCHANGED writes

ClassifyFailureMode(r) == Begin(r, "classify", "load_evidence")

LoadEvidence(r) ==
    /\ pc[r] = "load_evidence"
    /\ \/ /\ \/ call[r].mode \notin Classified
             \/ \A e \in evidence : e.id = call[r].evidence => e.mode # None
          /\ Answer(r, "rejected")
       \/ /\ call[r].mode \in Classified
          /\ \E e \in evidence : e.id = call[r].evidence /\ e.mode = None
          /\ Step(r, "write_mode")
          /\ UNCHANGED <<writes, local>>

\* Mutant: classify_failure_mode forgets its commit.
WriteModeUncommitted(r) == pc[r] = "write_mode" /\ Answer(r, "ok")

WriteMode(r) ==
    /\ pc[r] = "write_mode"
    /\ evidence' = {IF e.id = call[r].evidence THEN [e EXCEPT !.mode = call[r].mode]
                                               ELSE e : e \in evidence}
    /\ Return(r, "ok")
    /\ UNCHANGED <<attempts, observations, states, checkpoints, writes>>

AssessmentNext(r) ==
    \/ SubmitAttempt(r) \/ FindAttempt(r) \/ InsertAttempt(r)
    \/ FindObservation(r) \/ InsertObservation(r)
    \/ InsertEvidence(r) \/ FinalCommit(r)
    \/ EvaluateAttempt(r) \/ LoadAttempt(r)
    \/ RecordObservation(r) \/ FindSubject(r)
    \/ ClassifyFailureMode(r) \/ LoadEvidence(r) \/ WriteMode(r)

=============================================================================
