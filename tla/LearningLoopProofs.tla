------------------------ MODULE LearningLoopProofs --------------------------
(***************************************************************************)
(* Proofs about LearningLoop, for any number of requests, students, skills,*)
(* questions and keys, any calls and any thresholds.                       *)
(***************************************************************************)
EXTENDS LearningLoop, TLAPS

\* The operations whose call names the idempotency key of an attempt.
Keyed == {"submit", "evaluate", "complete"}

Scheduling == {"find_checkpoints", "insert_checkpoints"}

\* What a handler's variables hold when it is about to run statement p of the
\* operation it was called for: the control flow that makes TypeOK inductive.
Control(p, c, l) ==
    /\ p # "idle" => c \in Calls
    /\ p \in {"find_attempt", "insert_attempt"} => c.op \in {"submit", "complete"}
    /\ p = "insert_attempt" => l.attempt \in AttemptRow
    /\ p \in {"find_observation", "insert_observation", "insert_evidence"} =>
         /\ l.observation \in ObservationKey
         /\ c.op \in Keyed \cup {"observe"}
         /\ c.op # "observe" => l.attempt \in AttemptRow
    /\ p = "insert_evidence" => c.op \in Keyed
    /\ p \in {"load_attempt"} => c.op = "evaluate"
    /\ p = "find_subject" => c.op = "observe"
    /\ p \in {"load_evidence", "write_mode"} => c.op = "classify"
    /\ p = "write_mode" => c.mode \in Classified
    /\ p \in {"load_checkpoint", "finish_checkpoint"} => c.op = "complete"
    /\ p \in Recomputing => l.resume # "none"
    /\ p \in Scheduling => l.resume = "insert_checkpoints"
    /\ p \in Recomputing \cup Scheduling => l.learner \in Learner
    /\ p \in (Recomputing \ {"read_evidence"}) \cup {"insert_checkpoints"} =>
         l.state \in StateRow
    /\ p \in Recomputing /\ l.resume = "finish_checkpoint" => c.op = "complete"

ControlOK == \A r \in Request : Control(pc[r], call[r], local[r])

TypeInv == TypeOK /\ ControlOK

-----------------------------------------------------------------------------
\* A call is what its operation says it is.
LEMMA CallKinds ==
    ASSUME NEW c \in Calls
    PROVE  /\ c.op = "submit" => c \in SubmitCall
           /\ c.op = "evaluate" => c \in EvaluateCall
           /\ c.op = "observe" => c \in ObserveCall
           /\ c.op = "classify" => c \in ClassifyCall
           /\ c.op = "complete" => c \in CompleteCall
           /\ c.op = "read" => c \in ReadCall
           /\ c.op \in Keyed => c.key \in Key /\ c.correct \in BOOLEAN
<1>1. c \in Call
  BY CallAssumption
<1>2. QED
  BY <1>1 DEF Call, SubmitCall, EvaluateCall, ObserveCall, ClassifyCall,
              CompleteCall, ReadCall, Keyed

LEMMA InitTypeInv == Init => TypeInv
  BY DEF Init, TypeInv, TypeOK, ControlOK, Control, NoWrites, Writes, NoLocal, Local,
         Statement, Grading, Recomputing, Scheduling

\* A step of one handler leaves the variables of the others alone.
LEMMA ControlFrame ==
    ASSUME TypeInv, NEW r \in Request,
           NEW p, NEW c, NEW l,
           pc' = [pc EXCEPT ![r] = p],
           call' = [call EXCEPT ![r] = c],
           local' = [local EXCEPT ![r] = l],
           Control(p, c, l)
    PROVE  ControlOK'
<1> SUFFICES ASSUME NEW s \in Request
             PROVE  Control(pc'[s], call'[s], local'[s])
  BY DEF ControlOK
<1>1. CASE s = r
  BY <1>1 DEF TypeInv, TypeOK
<1>2. CASE s # r
  BY <1>2 DEF TypeInv, TypeOK, ControlOK
<1> QED
  BY <1>1, <1>2

\* A handler that ends leaves every type as it was.
LEMMA AnswerTypeInv ==
    ASSUME TypeInv, NEW r \in Request, pc[r] # "idle",
           NEW how \in {"ok", "rejected", "conflict", "crashed"}, Answer(r, how)
    PROVE  TypeInv'
<1> USE DEF TypeInv
<1>1. TypeOK'
  BY DEF TypeOK, Answer, Return, Goto, tables, NoWrites, Writes, Statement
<1>2. Control("done", call[r], local[r])
  BY DEF ControlOK, Control, Scheduling, Recomputing
<1>3. /\ pc' = [pc EXCEPT ![r] = "done"]
      /\ call' = [call EXCEPT ![r] = call[r]]
      /\ local' = [local EXCEPT ![r] = local[r]]
  BY DEF TypeOK, Answer, Return, Goto
<1>4. ControlOK'
  BY <1>2, <1>3, ControlFrame
<1> QED
  BY <1>1, <1>4

\* Publishing what a transaction wrote keeps the tables' types.
LEMMA CommitTypes ==
    ASSUME TypeOK, NEW r \in Request, Commit(r)
    PROVE  /\ attempts' \subseteq AttemptRow
           /\ observations' \subseteq ObservationRow
           /\ evidence' \subseteq EvidenceRow
           /\ checkpoints' \subseteq CheckpointRow
           /\ writes' \in [Request -> Writes]
<1>1. writes[r] \in Writes /\ NoWrites \in Writes
  BY DEF TypeOK, NoWrites, Writes
<1> QED
  BY <1>1 DEF TypeOK, Commit, Writes

-----------------------------------------------------------------------------
\* The handlers of Assessment.
LEMMA AttemptReturnedControl ==
    ASSUME TypeInv, NEW r \in Request,
           call[r] \in Calls, AttemptReturned(r)
    PROVE  /\ pc' \in [Request -> Statement]
           /\ local' \in [Request -> Local]
           /\ outcome' \in [Request -> {"none", "ok", "rejected", "conflict", "crashed"}]
           /\ call' = call
           /\ ControlOK'
<1> USE DEF TypeInv
<1>1. CASE call[r].op # "complete"
  <2>1. /\ pc' = [pc EXCEPT ![r] = "done"]
        /\ call' = [call EXCEPT ![r] = call[r]]
        /\ local' = [local EXCEPT ![r] = local[r]]
    BY <1>1 DEF AttemptReturned, Return, Goto, TypeOK
  <2>2. Control("done", call[r], local[r])
    BY DEF Control, Scheduling, Recomputing
  <2>3. ControlOK'
    BY <2>1, <2>2, ControlFrame
  <2> QED
    BY <1>1, <2>1, <2>3 DEF AttemptReturned, Return, Goto, TypeOK, Statement
<1>2. CASE call[r].op = "complete"
  <2> DEFINE l == [local[r] EXCEPT !.learner = call[r].learner,
                                   !.resume = "finish_checkpoint"]
  <2>1. call[r].learner \in Learner
    BY <1>2, CallKinds DEF CompleteCall
  <2>2. l \in Local
    BY <2>1 DEF TypeOK, Local
  <2>3. /\ pc' = [pc EXCEPT ![r] = "read_evidence"]
        /\ call' = [call EXCEPT ![r] = call[r]]
        /\ local' = [local EXCEPT ![r] = l]
        /\ call' = call
        /\ outcome' = outcome
    BY <1>2 DEF AttemptReturned, Goto, TypeOK
  <2>4. l.learner \in Learner /\ l.resume = "finish_checkpoint"
    BY <2>1 DEF TypeOK, Local
  <2>5. Control("read_evidence", call[r], l)
    BY <1>2, <2>4 DEF Control, Scheduling, Recomputing
  <2>6. ControlOK'
    BY <2>3, <2>5, ControlFrame
  <2> QED
    BY <2>2, <2>3, <2>6 DEF TypeOK, Statement, Recomputing
<1> QED
  BY <1>1, <1>2

LEMMA BeginTypeInv ==
    ASSUME TypeInv, NEW r \in Request, NEW op, NEW first,
           Begin(r, op, first),
           <<op, first>> \in {<<"submit", "find_attempt">>,
                              <<"evaluate", "load_attempt">>,
                              <<"observe", "find_subject">>,
                              <<"classify", "load_evidence">>,
                              <<"complete", "load_checkpoint">>}
    PROVE  TypeInv'
<1> USE DEF TypeInv
<1>1. PICK c \in Calls : c.op = op /\ call' = [call EXCEPT ![r] = c]
  BY DEF Begin
<1>2. /\ pc' = [pc EXCEPT ![r] = first]
      /\ local' = [local EXCEPT ![r] = local[r]]
  BY DEF Begin, Goto, TypeOK
<1>3. Control(first, c, local[r])
  BY <1>1 DEF Control, Scheduling, Recomputing
<1>4. ControlOK'
  BY <1>1, <1>2, <1>3, ControlFrame
<1>5. TypeOK'
  BY <1>1, <1>2 DEF Begin, TypeOK, tables, Statement
<1> QED
  BY <1>4, <1>5

LEMMA FindAttemptTypeInv ==
    ASSUME TypeInv, NEW r \in Request, FindAttempt(r)
    PROVE  TypeInv'
<1> USE DEF TypeInv
<1>1. pc[r] = "find_attempt" /\ call[r] \in Calls /\ call[r].op \in {"submit", "complete"}
  BY DEF FindAttempt, ControlOK, Control
<1>2. CASE AttemptReturned(r) /\ UNCHANGED <<tables, writes>>
  BY <1>1, <1>2, AttemptReturnedControl DEF TypeOK, tables
<1>3. CASE Answer(r, "rejected")
  BY <1>1, <1>3, AnswerTypeInv
<1>4. CASE /\ call[r].question # None
           /\ local' = [local EXCEPT ![r].attempt = NewAttempt(r)]
           /\ Step(r, "insert_attempt")
           /\ UNCHANGED writes
  <2> DEFINE l == [local[r] EXCEPT !.attempt = NewAttempt(r)]
  <2>1. NewAttempt(r) \in AttemptRow
    <3>1. call[r].key \in Key /\ call[r].question \in Question
      BY <1>1, <1>4, CallKinds DEF SubmitCall, CompleteCall
    <3>2. Submitter(r) \in Student
      BY <1>1, CallKinds DEF SubmitCall, CompleteCall, Submitter, Learner
    <3> QED
      BY <3>1, <3>2 DEF NewAttempt, AttemptRow, Correctness
  <2>2. l \in Local /\ l.attempt = NewAttempt(r)
    BY <2>1 DEF TypeOK, Local
  <2>3. /\ pc' = [pc EXCEPT ![r] = "insert_attempt"]
        /\ call' = [call EXCEPT ![r] = call[r]]
        /\ local' = [local EXCEPT ![r] = l]
    BY <1>4 DEF Step, Goto, TypeOK
  <2>4. Control("insert_attempt", call[r], l)
    BY <1>1, <2>1, <2>2 DEF Control, Scheduling, Recomputing
  <2>5. ControlOK'
    BY <2>3, <2>4, ControlFrame
  <2> QED
    BY <1>4, <2>2, <2>3, <2>5 DEF TypeOK, Step, tables, Statement
<1> QED
  BY <1>2, <1>3, <1>4 DEF FindAttempt

LEMMA InsertAttemptTypeInv ==
    ASSUME TypeInv, NEW r \in Request, InsertAttempt(r)
    PROVE  TypeInv'
<1> USE DEF TypeInv
<1>1. /\ pc[r] = "insert_attempt" /\ call[r] \in Calls
      /\ call[r].op \in {"submit", "complete"} /\ local[r].attempt \in AttemptRow
  BY DEF InsertAttempt, ControlOK, Control
<1>2. CASE Conflict(r)
  BY <1>1, <1>2, AnswerTypeInv DEF Conflict
<1>3. CASE /\ Step(r, "find_observation")
           /\ writes' = [writes EXCEPT ![r].attempts = {local[r].attempt}]
           /\ local' = [local EXCEPT ![r].observation = <<call[r].key, "submitted">>]
  <2> DEFINE l == [local[r] EXCEPT !.observation = <<call[r].key, "submitted">>]
  <2>1. <<call[r].key, "submitted">> \in ObservationKey
    BY <1>1, CallKinds DEF Keyed, ObservationKey
  <2>2. /\ l \in Local /\ l.attempt = local[r].attempt
        /\ l.observation = <<call[r].key, "submitted">>
    BY <2>1 DEF TypeOK, Local
  <2>3. /\ pc' = [pc EXCEPT ![r] = "find_observation"]
        /\ call' = [call EXCEPT ![r] = call[r]]
        /\ local' = [local EXCEPT ![r] = l]
    BY <1>3 DEF Step, Goto, TypeOK
  <2>4. Control("find_observation", call[r], l)
    BY <1>1, <2>1, <2>2 DEF Control, Scheduling, Recomputing, Keyed
  <2>5. ControlOK'
    BY <2>3, <2>4, ControlFrame
  <2>6. writes' \in [Request -> Writes]
    BY <1>1, <1>3 DEF TypeOK, Writes
  <2> QED
    BY <1>3, <2>2, <2>3, <2>5, <2>6 DEF TypeOK, Step, tables, Statement, Grading
<1> QED
  BY <1>2, <1>3 DEF InsertAttempt

\* What holds before and after _record_observation returns to its caller.
LEMMA ObservationReturnedControl ==
    ASSUME TypeInv, NEW r \in Request,
           pc[r] \in {"find_observation", "insert_observation"},
           ObservationReturned(r), UNCHANGED call
    PROVE  /\ pc' \in [Request -> Statement]
           /\ local' \in [Request -> Local]
           /\ ControlOK'
<1> USE DEF TypeInv
<1>1. /\ call[r] \in Calls /\ call[r].op \in Keyed \cup {"observe"}
      /\ local[r].observation \in ObservationKey
      /\ call[r].op # "observe" => local[r].attempt \in AttemptRow
  BY DEF ControlOK, Control
<1>2. ASSUME NEW p \in {"commit", "insert_evidence"}, Goto(r, p), UNCHANGED local,
             p = "insert_evidence" => call[r].op # "observe"
      PROVE  ControlOK' /\ pc' \in [Request -> Statement] /\ local' \in [Request -> Local]
  <2>1. /\ pc' = [pc EXCEPT ![r] = p]
        /\ call' = [call EXCEPT ![r] = call[r]]
        /\ local' = [local EXCEPT ![r] = local[r]]
    BY <1>2 DEF Goto, TypeOK
  <2>2. Control(p, call[r], local[r])
    BY <1>1, <1>2 DEF Control, Scheduling, Recomputing
  <2> QED
    BY <2>1, <2>2, ControlFrame DEF TypeOK, Statement, Grading
<1>3. CASE /\ call[r].op # "observe"
           /\ Goto(r, "find_observation")
           /\ local' = [local EXCEPT ![r].observation = <<call[r].key, "evaluated">>]
  <2> DEFINE l == [local[r] EXCEPT !.observation = <<call[r].key, "evaluated">>]
  <2>1. <<call[r].key, "evaluated">> \in ObservationKey
    BY <1>1, <1>3, CallKinds DEF Keyed, ObservationKey
  <2>2. /\ l \in Local /\ l.attempt = local[r].attempt
        /\ l.observation = <<call[r].key, "evaluated">>
    BY <2>1 DEF TypeOK, Local
  <2>3. /\ pc' = [pc EXCEPT ![r] = "find_observation"]
        /\ call' = [call EXCEPT ![r] = call[r]]
        /\ local' = [local EXCEPT ![r] = l]
    BY <1>3 DEF Goto, TypeOK
  <2>4. Control("find_observation", call[r], l)
    BY <1>1, <1>3, <2>1, <2>2 DEF Control, Scheduling, Recomputing
  <2>5. ControlOK'
    BY <2>3, <2>4, ControlFrame
  <2> QED
    BY <2>2, <2>3, <2>5 DEF TypeOK, Statement, Grading
<1> QED
  BY <1>2, <1>3 DEF ObservationReturned

LEMMA FindObservationTypeInv ==
    ASSUME TypeInv, NEW r \in Request, FindObservation(r)
    PROVE  TypeInv'
<1> USE DEF TypeInv
<1>1. CASE ObservationReturned(r)
  BY <1>1, ObservationReturnedControl DEF FindObservation, TypeOK, tables
<1>2. CASE Goto(r, "insert_observation") /\ UNCHANGED local
  <2>1. /\ pc' = [pc EXCEPT ![r] = "insert_observation"]
        /\ call' = [call EXCEPT ![r] = call[r]]
        /\ local' = [local EXCEPT ![r] = local[r]]
    BY <1>2 DEF FindObservation, Goto, TypeOK
  <2>2. Control("insert_observation", call[r], local[r])
    BY DEF FindObservation, ControlOK, Control, Scheduling, Recomputing
  <2>3. ControlOK'
    BY <2>1, <2>2, ControlFrame
  <2> QED
    BY <2>1, <2>3 DEF FindObservation, TypeOK, tables, Statement, Grading
<1> QED
  BY <1>1, <1>2 DEF FindObservation

\* Grading the attempt at hand yields a row of the attempts table.
LEMMA GradedRow ==
    ASSUME TypeInv, NEW r \in Request, call[r].op # "observe",
           pc[r] \in {"insert_observation", "insert_evidence"}
    PROVE  GradedAttempt(r) \in AttemptRow
<1>1. call[r] \in Calls /\ call[r].op \in Keyed /\ local[r].attempt \in AttemptRow
  BY DEF TypeInv, ControlOK, Control
<1>2. call[r].correct \in BOOLEAN
  BY <1>1, CallKinds
<1> QED
  BY <1>1, <1>2 DEF GradedAttempt, AttemptRow, Correctness

LEMMA InsertObservationTypeInv ==
    ASSUME TypeInv, NEW r \in Request, InsertObservation(r)
    PROVE  TypeInv'
<1> USE DEF TypeInv
<1>1. pc[r] = "insert_observation" /\ local[r].observation \in ObservationKey
  BY DEF InsertObservation, ControlOK, Control
<1>2. CASE Conflict(r)
  BY <1>1, <1>2, AnswerTypeInv DEF Conflict
<1>3. CASE /\ ObservationReturned(r)
           /\ writes' = [writes EXCEPT
                 ![r].observations = @ \cup {[key |-> local[r].observation, by |-> r]},
                 ![r].attempts = IF Evaluating(r) THEN {GradedAttempt(r)} ELSE @]
           /\ UNCHANGED <<tables, call, outcome>>
  <2>1. Evaluating(r) => GradedAttempt(r) \in AttemptRow
    BY <1>1, GradedRow DEF Evaluating
  <2> DEFINE w == [writes[r] EXCEPT
                !.observations = @ \cup {[key |-> local[r].observation, by |-> r]},
                !.attempts = IF Evaluating(r) THEN {GradedAttempt(r)} ELSE @]
  <2>2. w \in Writes
    <3>1. [key |-> local[r].observation, by |-> r] \in ObservationRow
      BY <1>1 DEF ObservationRow
    <3>2. writes[r] \in Writes
      BY DEF TypeOK
    <3> QED
      BY <2>1, <3>1, <3>2 DEF Writes
  <2>3. writes' = [writes EXCEPT ![r] = w]
    BY <1>3 DEF TypeOK, Writes
  <2>4. writes' \in [Request -> Writes]
    BY <2>2, <2>3 DEF TypeOK
  <2> QED
    BY <1>1, <1>3, <2>4, ObservationReturnedControl DEF TypeOK, tables
<1> QED
  BY <1>2, <1>3 DEF InsertObservation

\* Grading an attempt yields an attempt's row and evidence about its learner.
LEMMA GradingRows ==
    ASSUME TypeInv, NEW r \in Request, pc[r] = "insert_evidence"
    PROVE  /\ GradedAttempt(r) \in AttemptRow
           /\ NewEvidence(r) \in EvidenceRow
           /\ LearnerOf(local[r].attempt) \in Learner
<1> USE DEF TypeInv
<1>1. /\ call[r] \in Calls /\ call[r].op \in Keyed
      /\ local[r].attempt \in AttemptRow
      /\ local[r].observation \in ObservationKey
  BY DEF ControlOK, Control, Keyed
<1>2. call[r].correct \in BOOLEAN
  BY <1>1, CallKinds
<1>3. GradedAttempt(r) \in AttemptRow
  BY <1>1, GradedRow DEF Keyed
<1>4. LearnerOf(local[r].attempt) \in Learner
  BY <1>1, QuestionAssumption DEF LearnerOf, Learner, AttemptRow
<1>5. FacetOf[local[r].attempt.question] \in Facet
  BY <1>1, QuestionAssumption DEF AttemptRow
<1>6. call[r].op = "evaluate" => call[r].weight \in Nat
  BY <1>1, CallKinds DEF EvaluateCall, ManualWeight
<1>7. StructuralMode(FacetOf[local[r].attempt.question], call[r].correct)
        \in FailureMode \cup {None}
  BY DEF StructuralMode, FailureMode, Structural
<1>8. NewEvidence(r) \in EvidenceRow
  BY <1>1, <1>2, <1>4, <1>5, <1>6, <1>7 DEF NewEvidence, EvidenceRow, AutomaticWeight
<1> QED
  BY <1>3, <1>4, <1>8

LEMMA InsertEvidenceTypeInv ==
    ASSUME TypeInv, NEW r \in Request, InsertEvidence(r)
    PROVE  TypeInv'
<1> USE DEF TypeInv
<1> DEFINE l == [local[r] EXCEPT !.learner = LearnerOf(local[r].attempt),
                                 !.resume = "insert_checkpoints"]
           p == IF FacetOf[local[r].attempt.question] = "application"
                THEN "find_checkpoints" ELSE "commit"
<1>1. pc[r] = "insert_evidence" /\ call[r] \in Calls
  BY DEF InsertEvidence, ControlOK, Control
<1>2. /\ GradedAttempt(r) \in AttemptRow
      /\ NewEvidence(r) \in EvidenceRow
      /\ LearnerOf(local[r].attempt) \in Learner
  BY <1>1, GradingRows
<1>3. /\ l \in Local
      /\ l.learner = LearnerOf(local[r].attempt) /\ l.resume = "insert_checkpoints"
  BY <1>2 DEF TypeOK, Local
<1>4. /\ pc' = [pc EXCEPT ![r] = p]
      /\ call' = [call EXCEPT ![r] = call[r]]
      /\ local' = [local EXCEPT ![r] = l]
  BY DEF InsertEvidence, Step, Goto, TypeOK
<1>5. p \in {"find_checkpoints", "commit"}
  OBVIOUS
<1> HIDE DEF p, l
<1>6. Control(p, call[r], l)
  BY <1>1, <1>2, <1>3, <1>5 DEF Control, Scheduling, Recomputing
<1>7. ControlOK'
  BY <1>4, <1>6, ControlFrame
<1>8. writes' \in [Request -> Writes]
  BY <1>2 DEF InsertEvidence, TypeOK, Writes
<1>9. UNCHANGED <<tables, call, outcome>>
  BY DEF InsertEvidence, Step
<1>10. p \in Statement
  BY <1>5 DEF Statement, Grading
<1> QED
  BY <1>3, <1>4, <1>7, <1>8, <1>9, <1>10 DEF TypeOK, tables

LEMMA FinalCommitTypeInv ==
    ASSUME TypeInv, NEW r \in Request, FinalCommit(r)
    PROVE  TypeInv'
<1> USE DEF TypeInv
<1>1. call[r] \in Calls
  BY DEF FinalCommit, ControlOK, Control
<1>2. ControlOK' /\ call' = call /\ pc' \in [Request -> Statement]
      /\ local' \in [Request -> Local]
      /\ outcome' \in [Request -> {"none", "ok", "rejected", "conflict", "crashed"}]
  BY <1>1, AttemptReturnedControl DEF FinalCommit
<1> QED
  BY <1>2, CommitTypes DEF FinalCommit, TypeOK

LEMMA LoadAttemptTypeInv ==
    ASSUME TypeInv, NEW r \in Request, LoadAttempt(r)
    PROVE  TypeInv'
<1> USE DEF TypeInv
<1>1. pc[r] = "load_attempt" /\ call[r] \in Calls /\ call[r].op = "evaluate"
  BY DEF LoadAttempt, ControlOK, Control
<1>2. CASE Answer(r, "rejected")
  BY <1>1, <1>2, AnswerTypeInv
<1>3. ASSUME NEW a \in attempts,
             local' = [local EXCEPT ![r].attempt = a,
                                    ![r].observation = <<a.key, "evaluated">>],
             Step(r, "find_observation"), UNCHANGED writes
      PROVE  TypeInv'
  <2> DEFINE l == [local[r] EXCEPT !.attempt = a,
                                   !.observation = <<a.key, "evaluated">>]
  <2>1. a \in AttemptRow /\ <<a.key, "evaluated">> \in ObservationKey
    BY DEF TypeOK, AttemptRow, ObservationKey
  <2>2. l \in Local /\ l.attempt = a /\ l.observation = <<a.key, "evaluated">>
    BY <2>1 DEF TypeOK, Local
  <2>3. /\ pc' = [pc EXCEPT ![r] = "find_observation"]
        /\ call' = [call EXCEPT ![r] = call[r]]
        /\ local' = [local EXCEPT ![r] = l]
    BY <1>3 DEF Step, Goto, TypeOK
  <2>4. Control("find_observation", call[r], l)
    BY <1>1, <2>1, <2>2 DEF Control, Scheduling, Recomputing, Keyed
  <2>5. ControlOK'
    BY <2>3, <2>4, ControlFrame
  <2> QED
    BY <1>3, <2>2, <2>3, <2>5 DEF TypeOK, Step, tables, Statement, Grading
<1> QED
  BY <1>2, <1>3 DEF LoadAttempt

LEMMA FindSubjectTypeInv ==
    ASSUME TypeInv, NEW r \in Request, FindSubject(r)
    PROVE  TypeInv'
<1> USE DEF TypeInv
<1>1. pc[r] = "find_subject" /\ call[r] \in Calls /\ call[r].op = "observe"
  BY DEF FindSubject, ControlOK, Control
<1>2. ASSUME NEW how \in {"ok", "rejected"}, Answer(r, how)
      PROVE  TypeInv'
  BY <1>1, <1>2, AnswerTypeInv
<1>3. CASE /\ local' = [local EXCEPT ![r].observation = call[r].observation]
           /\ Step(r, "find_observation")
           /\ UNCHANGED writes
  <2> DEFINE l == [local[r] EXCEPT !.observation = call[r].observation]
  <2>1. call[r].observation \in ObservationKey
    BY <1>1, CallKinds DEF ObserveCall
  <2>2. l \in Local /\ l.observation = call[r].observation
    BY <2>1 DEF TypeOK, Local
  <2>3. /\ pc' = [pc EXCEPT ![r] = "find_observation"]
        /\ call' = [call EXCEPT ![r] = call[r]]
        /\ local' = [local EXCEPT ![r] = l]
    BY <1>3 DEF Step, Goto, TypeOK
  <2>4. Control("find_observation", call[r], l)
    BY <1>1, <2>1, <2>2 DEF Control, Scheduling, Recomputing
  <2>5. ControlOK'
    BY <2>3, <2>4, ControlFrame
  <2> QED
    BY <1>3, <2>2, <2>3, <2>5 DEF TypeOK, Step, tables, Statement, Grading
<1> QED
  BY <1>2, <1>3 DEF FindSubject

\* A step that only moves r from one statement to the next.
LEMMA MoveTypeInv ==
    ASSUME TypeInv, NEW r \in Request, NEW p \in Statement,
           Step(r, p), UNCHANGED <<writes, local>>, Control(p, call[r], local[r])
    PROVE  TypeInv'
<1> USE DEF TypeInv
<1>1. /\ pc' = [pc EXCEPT ![r] = p]
      /\ call' = [call EXCEPT ![r] = call[r]]
      /\ local' = [local EXCEPT ![r] = local[r]]
  BY DEF Step, Goto, TypeOK
<1>2. ControlOK'
  BY <1>1, ControlFrame
<1> QED
  BY <1>1, <1>2 DEF TypeOK, Step, tables

LEMMA LoadEvidenceTypeInv ==
    ASSUME TypeInv, NEW r \in Request, LoadEvidence(r)
    PROVE  TypeInv'
<1> USE DEF TypeInv
<1>1. pc[r] = "load_evidence" /\ call[r] \in Calls /\ call[r].op = "classify"
  BY DEF LoadEvidence, ControlOK, Control
<1>2. CASE Answer(r, "rejected")
  BY <1>1, <1>2, AnswerTypeInv
<1>3. CASE call[r].mode \in Classified /\ Step(r, "write_mode") /\ UNCHANGED <<writes, local>>
  <2>1. Control("write_mode", call[r], local[r])
    BY <1>1, <1>3 DEF Control, Scheduling, Recomputing
  <2> QED
    BY <1>3, <2>1, MoveTypeInv DEF Statement
<1> QED
  BY <1>2, <1>3 DEF LoadEvidence

\* A handler that returns after a commit of its own.
LEMMA ReturnControl ==
    ASSUME TypeInv, NEW r \in Request, pc[r] # "idle",
           NEW how \in {"ok", "rejected", "conflict", "crashed"}, Return(r, how)
    PROVE  /\ pc' \in [Request -> Statement]
           /\ UNCHANGED <<local, call>>
           /\ outcome' \in [Request -> {"none", "ok", "rejected", "conflict", "crashed"}]
           /\ ControlOK'
<1> USE DEF TypeInv
<1>1. /\ pc' = [pc EXCEPT ![r] = "done"]
      /\ call' = [call EXCEPT ![r] = call[r]]
      /\ local' = [local EXCEPT ![r] = local[r]]
  BY DEF Return, Goto, TypeOK
<1>2. Control("done", call[r], local[r])
  BY DEF ControlOK, Control, Scheduling, Recomputing
<1>3. ControlOK'
  BY <1>1, <1>2, ControlFrame
<1> QED
  BY <1>1, <1>3 DEF Return, TypeOK, Statement

LEMMA WriteModeTypeInv ==
    ASSUME TypeInv, NEW r \in Request, WriteMode(r)
    PROVE  TypeInv'
<1> USE DEF TypeInv
<1>1. pc[r] = "write_mode" /\ call[r].mode \in FailureMode
  BY DEF WriteMode, ControlOK, Control, FailureMode
<1>2. \A e \in evidence : [e EXCEPT !.mode = call[r].mode] \in EvidenceRow
  BY <1>1 DEF TypeOK, EvidenceRow
<1>3. evidence' \subseteq EvidenceRow
  BY <1>2 DEF WriteMode, TypeOK
<1> QED
  BY <1>1, <1>3, ReturnControl DEF WriteMode, TypeOK

-----------------------------------------------------------------------------
\* The handlers of KnowledgeCache.
LEMMA PosteriorType ==
    ASSUME NEW l \in Learner, NEW rows, rows \subseteq EvidenceRow
    PROVE  Posterior(l, rows) \in StateRow
<1>1. LabelOf(rows) \in Label
  BY DEF LabelOf, Label
<1>2. Mastered(rows) \in BOOLEAN
  BY DEF Mastered
<1>3. {e.id : e \in rows} \in SUBSET Request
  BY DEF EvidenceRow
<1> QED
  BY <1>1, <1>2, <1>3 DEF Posterior, StateRow

LEMMA GetKnowledgeStateTypeInv ==
    ASSUME TypeInv, NEW r \in Request, GetKnowledgeState(r)
    PROVE  TypeInv'
<1> USE DEF TypeInv
<1>1. PICK c \in Calls :
        /\ c.op = "read"
        /\ call' = [call EXCEPT ![r] = c]
        /\ local' = [local EXCEPT ![r].learner = c.learner,
                                  ![r].resume = "return_state"]
  BY DEF GetKnowledgeState
<1> DEFINE l == [local[r] EXCEPT !.learner = c.learner, !.resume = "return_state"]
<1>2. c.learner \in Learner
  BY <1>1, CallKinds DEF ReadCall
<1>3. l \in Local /\ l.learner = c.learner /\ l.resume = "return_state"
  BY <1>2 DEF TypeOK, Local
<1>4. /\ pc' = [pc EXCEPT ![r] = "read_evidence"]
      /\ local' = [local EXCEPT ![r] = l]
  BY <1>1 DEF GetKnowledgeState, Goto, TypeOK
<1>5. Control("read_evidence", c, l)
  BY <1>2, <1>3 DEF Control, Scheduling, Recomputing
<1>6. ControlOK'
  BY <1>1, <1>4, <1>5, ControlFrame
<1> QED
  BY <1>1, <1>3, <1>4, <1>6
  DEF GetKnowledgeState, TypeOK, tables, Statement, Recomputing

LEMMA ReadEvidenceTypeInv ==
    ASSUME TypeInv, NEW r \in Request, ReadEvidence(r)
    PROVE  TypeInv'
<1> USE DEF TypeInv
<1> DEFINE rows == Relevant(VisibleEvidence(r), local[r].learner)
           l == [local[r] EXCEPT !.state = Posterior(local[r].learner, rows)]
<1>1. /\ pc[r] = "read_evidence" /\ call[r] \in Calls
      /\ local[r].learner \in Learner /\ local[r].resume # "none"
      /\ local[r].resume = "finish_checkpoint" => call[r].op = "complete"
  BY DEF ReadEvidence, ControlOK, Control, Recomputing
<1>2. rows \subseteq EvidenceRow
  BY DEF Relevant, VisibleEvidence, TypeOK, Writes
<1>3. Posterior(local[r].learner, rows) \in StateRow
  BY <1>1, <1>2, PosteriorType
<1>4. /\ local' = [local EXCEPT ![r] = l]
      /\ pc' = [pc EXCEPT ![r] = "read_state"]
      /\ call' = [call EXCEPT ![r] = call[r]]
  BY DEF ReadEvidence, Step, Goto, TypeOK
<1>5. /\ l \in Local /\ l.state = Posterior(local[r].learner, rows)
      /\ l.learner = local[r].learner /\ l.resume = local[r].resume
  BY <1>3 DEF TypeOK, Local
<1>6. Control("read_state", call[r], l)
  BY <1>1, <1>3, <1>5 DEF Control, Scheduling, Recomputing
<1>7. ControlOK'
  BY <1>4, <1>6, ControlFrame
<1> QED
  BY <1>4, <1>5, <1>7 DEF ReadEvidence, Step, TypeOK, tables, Statement, Recomputing

LEMMA ReadStateTypeInv ==
    ASSUME TypeInv, NEW r \in Request, ReadState(r)
    PROVE  TypeInv'
<1> USE DEF TypeInv
<1> PICK s \in states \cup {None} : local' = [local EXCEPT ![r].seen = s]
  BY DEF ReadState, Cached
<1> DEFINE l == [local[r] EXCEPT !.seen = s]
<1>1. /\ pc[r] = "read_state" /\ call[r] \in Calls
      /\ local[r].learner \in Learner /\ local[r].resume # "none"
      /\ local[r].state \in StateRow
      /\ local[r].resume = "finish_checkpoint" => call[r].op = "complete"
  BY DEF ReadState, ControlOK, Control, Recomputing
<1>2. /\ local' = [local EXCEPT ![r] = l]
      /\ pc' = [pc EXCEPT ![r] = "save_state"]
      /\ call' = [call EXCEPT ![r] = call[r]]
  BY DEF ReadState, Step, Goto, TypeOK
<1>3. /\ l \in Local /\ l.state = local[r].state
      /\ l.learner = local[r].learner /\ l.resume = local[r].resume
  BY DEF TypeOK, Local
<1>4. Control("save_state", call[r], l)
  BY <1>1, <1>3 DEF Control, Scheduling, Recomputing
<1>5. ControlOK'
  BY <1>2, <1>4, ControlFrame
<1> QED
  BY <1>2, <1>3, <1>5 DEF ReadState, Step, TypeOK, tables, Statement, Recomputing

LEMMA SaveStateTypeInv ==
    ASSUME TypeInv, NEW r \in Request, SaveState(r)
    PROVE  TypeInv'
<1> USE DEF TypeInv
<1>1. /\ pc[r] = "save_state" /\ call[r] \in Calls /\ local[r].state \in StateRow
  BY DEF SaveState, ControlOK, Control, Recomputing
<1>2. CASE Conflict(r)
  BY <1>1, <1>2, AnswerTypeInv DEF Conflict
<1>3. CASE ~Conflict(r) /\ UNCHANGED <<call, local, outcome>>
  <2> DEFINE Update(s) == Updated(s, local[r].seen, local[r].state)
  <2>0. /\ Commit(r) /\ Goto(r, "refresh_state")
        /\ states' \subseteq states \cup {local[r].state} \cup {Update(s) : s \in states}
    BY <1>3 DEF SaveState, Cached
  <2>1. states' \subseteq StateRow
    <3>1. \A s \in StateRow : Update(s) \in StateRow
      BY <1>1 DEF Updated, StateRow
    <3> QED
      BY <1>1, <2>0, <3>1 DEF TypeOK
  <2>2. /\ pc' = [pc EXCEPT ![r] = "refresh_state"]
        /\ call' = [call EXCEPT ![r] = call[r]]
        /\ local' = [local EXCEPT ![r] = local[r]]
    BY <1>3, <2>0 DEF Goto, TypeOK
  <2>3. Control("refresh_state", call[r], local[r])
    BY <1>1 DEF ControlOK, Control, Scheduling, Recomputing
  <2>4. ControlOK'
    BY <2>2, <2>3, ControlFrame
  <2> QED
    BY <1>3, <2>0, <2>1, <2>2, <2>4, CommitTypes DEF TypeOK, Statement, Recomputing
<1> QED
  BY <1>2, <1>3 DEF SaveState

LEMMA RefreshStateTypeInv ==
    ASSUME TypeInv, NEW r \in Request, RefreshState(r)
    PROVE  TypeInv'
<1> USE DEF TypeInv
<1>1. /\ pc[r] = "refresh_state" /\ call[r] \in Calls
      /\ local[r].learner \in Learner /\ local[r].resume # "none"
      /\ local[r].resume = "finish_checkpoint" => call[r].op = "complete"
      /\ local[r].resume \in {"insert_checkpoints", "finish_checkpoint", "return_state"}
  BY DEF RefreshState, ControlOK, Control, Recomputing, TypeOK, Local
<1>2. PICK s \in states :
        /\ local' = [local EXCEPT ![r].state = s]
        /\ Step(r, IF /\ local[r].resume = "insert_checkpoints"
                      /\ s.label # "high_confidence"
                   THEN "commit" ELSE local[r].resume)
  BY DEF RefreshState
<1> DEFINE l == [local[r] EXCEPT !.state = s]
           p == IF /\ local[r].resume = "insert_checkpoints"
                   /\ s.label # "high_confidence"
                THEN "commit" ELSE local[r].resume
<1>3. /\ pc' = [pc EXCEPT ![r] = p]
      /\ call' = [call EXCEPT ![r] = call[r]]
      /\ local' = [local EXCEPT ![r] = l]
      /\ UNCHANGED <<tables, call, outcome, writes>>
  BY <1>2 DEF RefreshState, Step, Goto, TypeOK
<1>4. /\ l \in Local /\ l.state = s /\ s \in StateRow
      /\ l.learner = local[r].learner /\ l.resume = local[r].resume
  BY DEF TypeOK, Local
<1>5. p = "commit" \/ p = local[r].resume
  OBVIOUS
<1> HIDE DEF p, l
<1>6. Control(p, call[r], l)
  BY <1>1, <1>4, <1>5 DEF Control, Scheduling, Recomputing
<1>7. ControlOK'
  BY <1>3, <1>6, ControlFrame
<1>8. p \in Statement
  BY <1>1, <1>5 DEF Statement, Grading
<1> QED
  BY <1>3, <1>4, <1>7, <1>8 DEF TypeOK, tables

-----------------------------------------------------------------------------
\* The handlers of Retention.
LEMMA FindCheckpointsTypeInv ==
    ASSUME TypeInv, NEW r \in Request, FindCheckpoints(r)
    PROVE  TypeInv'
<1> USE DEF TypeInv
<1>1. /\ pc[r] = "find_checkpoints" /\ call[r] \in Calls
      /\ local[r].learner \in Learner /\ local[r].resume = "insert_checkpoints"
  BY DEF FindCheckpoints, ControlOK, Control, Scheduling
<1>2. PICK p \in {"commit", "read_evidence"} : Step(r, p) /\ UNCHANGED <<writes, local>>
  BY DEF FindCheckpoints
<1>3. Control(p, call[r], local[r])
  BY <1>1 DEF Control, Scheduling, Recomputing
<1> QED
  BY <1>2, <1>3, MoveTypeInv DEF Statement, Grading, Recomputing

LEMMA InsertCheckpointsTypeInv ==
    ASSUME TypeInv, NEW r \in Request, InsertCheckpoints(r)
    PROVE  TypeInv'
<1> USE DEF TypeInv
<1>1. /\ pc[r] = "insert_checkpoints" /\ call[r] \in Calls
      /\ local[r].learner \in Learner /\ local[r].state \in StateRow
  BY DEF InsertCheckpoints, ControlOK, Control, Scheduling
<1>2. CASE Conflict(r)
  BY <1>1, <1>2, AnswerTypeInv DEF Conflict
<1>3. CASE /\ Step(r, "commit")
           /\ writes' = [writes EXCEPT ![r].checkpoints =
                           {NewCheckpoint(r, days) : days \in CheckpointDays}]
           /\ UNCHANGED local
  <2>1. \A days \in CheckpointDays : NewCheckpoint(r, days) \in CheckpointRow
    BY <1>1 DEF NewCheckpoint, CheckpointRow, StateRow, Verdict
  <2>2. writes' \in [Request -> Writes]
    BY <1>3, <2>1 DEF TypeOK, Writes
  <2>3. /\ pc' = [pc EXCEPT ![r] = "commit"]
        /\ call' = [call EXCEPT ![r] = call[r]]
        /\ local' = [local EXCEPT ![r] = local[r]]
    BY <1>3 DEF Step, Goto, TypeOK
  <2>4. Control("commit", call[r], local[r])
    BY <1>1 DEF Control, Scheduling, Recomputing
  <2>5. ControlOK'
    BY <2>3, <2>4, ControlFrame
  <2> QED
    BY <1>3, <2>2, <2>3, <2>5 DEF Step, TypeOK, tables, Statement, Grading
<1> QED
  BY <1>2, <1>3 DEF InsertCheckpoints

LEMMA LoadCheckpointTypeInv ==
    ASSUME TypeInv, NEW r \in Request, LoadCheckpoint(r)
    PROVE  TypeInv'
<1> USE DEF TypeInv
<1>1. pc[r] = "load_checkpoint" /\ call[r] \in Calls /\ call[r].op = "complete"
  BY DEF LoadCheckpoint, ControlOK, Control
<1>2. CASE Answer(r, "rejected")
  BY <1>1, <1>2, AnswerTypeInv
<1>3. CASE Step(r, "find_attempt") /\ UNCHANGED <<writes, local>>
  <2>1. Control("find_attempt", call[r], local[r])
    BY <1>1 DEF Control, Scheduling, Recomputing
  <2> QED
    BY <1>3, <2>1, MoveTypeInv DEF Statement
<1> QED
  BY <1>2, <1>3 DEF LoadCheckpoint

\* Completing a checkpoint yields a checkpoint's row.
LEMMA CompletedType ==
    ASSUME NEW c \in CheckpointRow, NEW a \in AttemptRow
    PROVE  Completed(c, a) \in CheckpointRow
<1>1. VerdictOn(c, a.result = "correct") \in Verdict
  BY DEF VerdictOn, Verdict
<1> QED
  BY <1>1 DEF Completed, CheckpointRow, AttemptRow

LEMMA FinishCheckpointTypeInv ==
    ASSUME TypeInv, NEW r \in Request, FinishCheckpoint(r)
    PROVE  TypeInv'
<1> USE DEF TypeInv
<1>1. PICK a \in attempts :
        checkpoints' = {IF c \in Named(r) THEN Completed(c, a) ELSE c : c \in checkpoints}
  BY DEF FinishCheckpoint
<1>2. checkpoints' \subseteq CheckpointRow
  BY <1>1, CompletedType DEF TypeOK
<1>3. pc[r] # "idle"
  BY DEF FinishCheckpoint
<1> QED
  BY <1>2, <1>3, ReturnControl DEF FinishCheckpoint, TypeOK

-----------------------------------------------------------------------------
\* Every step of a handler preserves TypeInv.
LEMMA HandleTypeInv ==
    ASSUME TypeInv, NEW r \in Request, Handle(r)
    PROVE  TypeInv'
<1>1. CASE AssessmentNext(r)
  <2>1. CASE SubmitAttempt(r) \/ EvaluateAttempt(r) \/ RecordObservation(r)
             \/ ClassifyFailureMode(r)
    BY <2>1, BeginTypeInv
    DEF SubmitAttempt, EvaluateAttempt, RecordObservation, ClassifyFailureMode
  <2> QED
    BY <1>1, <2>1, FindAttemptTypeInv, InsertAttemptTypeInv, FindObservationTypeInv,
       InsertObservationTypeInv, InsertEvidenceTypeInv, FinalCommitTypeInv,
       LoadAttemptTypeInv, FindSubjectTypeInv, LoadEvidenceTypeInv, WriteModeTypeInv
    DEF AssessmentNext
<1>2. CASE KnowledgeNext(r)
  <2>1. CASE ReturnState(r)
    BY <2>1, AnswerTypeInv DEF ReturnState
  <2> QED
    BY <1>2, <2>1, GetKnowledgeStateTypeInv, ReadEvidenceTypeInv, ReadStateTypeInv,
       SaveStateTypeInv, RefreshStateTypeInv
    DEF KnowledgeNext
<1>3. CASE RetentionNext(r)
  <2>1. CASE CompleteCheckpoint(r)
    BY <2>1, BeginTypeInv DEF CompleteCheckpoint
  <2> QED
    BY <1>3, <2>1, FindCheckpointsTypeInv, InsertCheckpointsTypeInv,
       LoadCheckpointTypeInv, FinishCheckpointTypeInv
    DEF RetentionNext
<1> QED
  BY <1>1, <1>2, <1>3 DEF Handle

LEMMA StepTypeInv == TypeInv /\ [Next]_vars => TypeInv'
<1> SUFFICES ASSUME TypeInv, [Next]_vars
             PROVE  TypeInv'
  OBVIOUS
<1>1. ASSUME NEW r \in Request, Handle(r)
      PROVE  TypeInv'
  BY <1>1, HandleTypeInv
<1>2. ASSUME NEW r \in Request, Crash(r)
      PROVE  TypeInv'
  BY <1>2, AnswerTypeInv DEF Crash
<1>3. CASE UNCHANGED vars
  BY <1>3 DEF vars, TypeInv, TypeOK, ControlOK
<1> QED
  BY <1>1, <1>2, <1>3 DEF Next, Finished

\* Whatever the handlers do to each other, every row that is written is one the
\* schema allows, and every handler is at a statement it can run.
THEOREM TypeCorrect == Spec => []TypeOK
<1>1. Spec => []TypeInv
  BY InitTypeInv, StepTypeInv, PTL DEF Spec
<1>2. TypeInv => TypeOK
  BY DEF TypeInv
<1> QED
  BY <1>1, <1>2, PTL

-----------------------------------------------------------------------------
\* A checkpoint row that is committed or about to be: its prediction was made
\* with high confidence, so it is decidable, and undecided while pending.
Predicted(c) ==
    /\ c.label = "high_confidence"
    /\ c.verdict # "inconclusive"
    /\ c.status = "pending" => c.verdict = "pending" /\ c.delayed = None

PredictionInv ==
    /\ \A c \in checkpoints : Predicted(c)
    /\ \A r \in Request :
         /\ \A c \in writes[r].checkpoints : Predicted(c)
         /\ pc[r] = "insert_checkpoints" => local[r].state.label = "high_confidence"

\* A step that writes no checkpoint and does not get a handler to write one.
LEMMA PredictionFrame ==
    ASSUME PredictionInv, checkpoints' = checkpoints,
           \A s \in Request :
              /\ writes'[s].checkpoints \subseteq writes[s].checkpoints
              /\ pc'[s] # "insert_checkpoints"
                 \/ (pc'[s] = pc[s] /\ local'[s] = local[s])
    PROVE  PredictionInv'
  BY DEF PredictionInv, Predicted

LEMMA AnswerPrediction ==
    ASSUME TypeInv, PredictionInv, NEW r \in Request, NEW how, Answer(r, how)
    PROVE  PredictionInv'
<1>1. \A s \in Request :
         /\ writes'[s].checkpoints \subseteq writes[s].checkpoints
         /\ pc'[s] # "insert_checkpoints" \/ (pc'[s] = pc[s] /\ local'[s] = local[s])
  BY DEF TypeInv, TypeOK, Answer, Return, Goto, NoWrites, Writes
<1> QED
  BY <1>1, PredictionFrame DEF Answer, tables

\* Publishing the rows a transaction wrote.
LEMMA CommitPrediction ==
    ASSUME TypeInv, PredictionInv, NEW r \in Request, Commit(r),
           \A s \in Request :
              pc'[s] # "insert_checkpoints" \/ (pc'[s] = pc[s] /\ local'[s] = local[s])
    PROVE  PredictionInv'
<1>1. \A s \in Request : writes'[s].checkpoints \subseteq writes[s].checkpoints
  BY DEF Commit, TypeInv, TypeOK, NoWrites, Writes
<1>2. \A c \in checkpoints' : Predicted(c)
  BY DEF Commit, PredictionInv
<1> QED
  BY <1>1, <1>2 DEF PredictionInv, Predicted

LEMMA AttemptReturnedPc ==
    ASSUME TypeInv, NEW r \in Request, AttemptReturned(r)
    PROVE  \A s \in Request :
              pc'[s] # "insert_checkpoints" \/ (pc'[s] = pc[s] /\ local'[s] = local[s])
  BY DEF AttemptReturned, Return, Goto, TypeInv, TypeOK

LEMMA AssessmentPrediction ==
    ASSUME TypeInv, PredictionInv, NEW r \in Request, AssessmentNext(r)
    PROVE  PredictionInv'
<1> USE DEF TypeInv
<1> DEFINE Quietly == \A s \in Request :
              /\ writes'[s].checkpoints \subseteq writes[s].checkpoints
              /\ pc'[s] # "insert_checkpoints"
                 \/ (pc'[s] = pc[s] /\ local'[s] = local[s])
<1>1. CASE \E op, first : Begin(r, op, first) /\ first # "insert_checkpoints"
  <2>1. Quietly /\ checkpoints' = checkpoints
    BY <1>1 DEF Begin, Goto, tables, TypeOK
  <2> QED
    BY <2>1, PredictionFrame
<1>2. CASE FindAttempt(r)
  <2>1. CASE AttemptReturned(r) /\ UNCHANGED <<tables, writes>>
    BY <2>1, AttemptReturnedPc, PredictionFrame DEF tables
  <2>2. CASE Step(r, "insert_attempt") /\ UNCHANGED writes
             /\ local' = [local EXCEPT ![r].attempt = NewAttempt(r)]
    <3>1. Quietly /\ checkpoints' = checkpoints
      BY <2>2 DEF Step, Goto, tables, TypeOK
    <3> QED
      BY <3>1, PredictionFrame
  <2> QED
    BY <1>2, <2>1, <2>2, AnswerPrediction DEF FindAttempt
<1>3. CASE InsertAttempt(r)
  <2>1. CASE ~Conflict(r)
    <3>1. Quietly /\ checkpoints' = checkpoints
      BY <1>3, <2>1 DEF InsertAttempt, Step, Goto, tables, TypeOK, Writes
    <3> QED
      BY <3>1, PredictionFrame
  <2> QED
    BY <2>1, AnswerPrediction DEF Conflict
<1>4. CASE FindObservation(r)
  <2>1. Quietly /\ checkpoints' = checkpoints
    BY <1>4 DEF FindObservation, ObservationReturned, Goto, tables, TypeOK
  <2> QED
    BY <2>1, PredictionFrame
<1>5. CASE InsertObservation(r)
  <2>1. CASE ~Conflict(r)
    <3>1. Quietly /\ checkpoints' = checkpoints
      BY <1>5, <2>1 DEF InsertObservation, ObservationReturned, Goto, tables,
                        TypeOK, Writes
    <3> QED
      BY <3>1, PredictionFrame
  <2> QED
    BY <2>1, AnswerPrediction DEF Conflict
<1>6. CASE InsertEvidence(r)
  <2>1. Quietly /\ checkpoints' = checkpoints
    BY <1>6 DEF InsertEvidence, Step, Goto, tables, TypeOK, Writes
  <2> QED
    BY <2>1, PredictionFrame
<1>7. CASE FinalCommit(r)
  BY <1>7, AttemptReturnedPc, CommitPrediction DEF FinalCommit
<1>8. CASE LoadAttempt(r) \/ FindSubject(r) \/ LoadEvidence(r)
  <2>1. CASE \E how : Answer(r, how)
    BY <2>1, AnswerPrediction
  <2>2. CASE ~ \E how : Answer(r, how)
    <3>1. Quietly /\ checkpoints' = checkpoints
      BY <1>8, <2>2 DEF LoadAttempt, FindSubject, LoadEvidence, Step, Goto, tables, TypeOK
    <3> QED
      BY <3>1, PredictionFrame
  <2> QED
    BY <2>1, <2>2
<1>9. CASE WriteMode(r)
  <2>1. Quietly /\ checkpoints' = checkpoints
    BY <1>9 DEF WriteMode, Return, Goto, TypeOK
  <2> QED
    BY <2>1, PredictionFrame
<1> QED
  BY <1>1, <1>2, <1>3, <1>4, <1>5, <1>6, <1>7, <1>8, <1>9
  DEF AssessmentNext, SubmitAttempt, EvaluateAttempt, RecordObservation, ClassifyFailureMode

LEMMA KnowledgePrediction ==
    ASSUME TypeInv, PredictionInv, NEW r \in Request, KnowledgeNext(r)
    PROVE  PredictionInv'
<1> USE DEF TypeInv
<1> DEFINE Quietly == \A s \in Request :
              /\ writes'[s].checkpoints \subseteq writes[s].checkpoints
              /\ pc'[s] # "insert_checkpoints"
                 \/ (pc'[s] = pc[s] /\ local'[s] = local[s])
<1>1. CASE GetKnowledgeState(r) \/ ReadEvidence(r) \/ ReadState(r)
  <2>1. Quietly /\ checkpoints' = checkpoints
    BY <1>1 DEF GetKnowledgeState, ReadEvidence, ReadState, Step, Goto, tables, TypeOK
  <2> QED
    BY <2>1, PredictionFrame
<1>2. CASE SaveState(r)
  <2>1. CASE Conflict(r)
    BY <2>1, AnswerPrediction DEF Conflict
  <2>2. CASE Commit(r) /\ Goto(r, "refresh_state") /\ UNCHANGED local
    BY <2>2, CommitPrediction DEF Goto, TypeOK
  <2> QED
    BY <1>2, <2>1, <2>2 DEF SaveState
<1>3. CASE RefreshState(r)
  <2>1. PICK s \in states :
          /\ local' = [local EXCEPT ![r].state = s]
          /\ Step(r, IF /\ local[r].resume = "insert_checkpoints"
                        /\ s.label # "high_confidence"
                     THEN "commit" ELSE local[r].resume)
    BY <1>3 DEF RefreshState
  <2>2. pc'[r] = "insert_checkpoints" => local'[r].state.label = "high_confidence"
    BY <2>1 DEF Step, Goto, TypeOK, Local
  <2>3. \A q \in Request \ {r} : pc'[q] = pc[q] /\ local'[q] = local[q]
    BY <2>1 DEF Step, Goto, TypeOK
  <2>4. UNCHANGED <<checkpoints, writes>>
    BY <1>3 DEF RefreshState, Step, tables
  <2> QED
    BY <2>2, <2>3, <2>4 DEF PredictionInv, Predicted
<1>4. CASE ReturnState(r)
  BY <1>4, AnswerPrediction DEF ReturnState
<1> QED
  BY <1>1, <1>2, <1>3, <1>4 DEF KnowledgeNext

LEMMA RetentionPrediction ==
    ASSUME TypeInv, PredictionInv, NEW r \in Request, RetentionNext(r)
    PROVE  PredictionInv'
<1> USE DEF TypeInv
<1> DEFINE Quietly == \A s \in Request :
              /\ writes'[s].checkpoints \subseteq writes[s].checkpoints
              /\ pc'[s] # "insert_checkpoints"
                 \/ (pc'[s] = pc[s] /\ local'[s] = local[s])
<1>1. CASE FindCheckpoints(r) \/ CompleteCheckpoint(r)
  <2>1. Quietly /\ checkpoints' = checkpoints
    BY <1>1 DEF FindCheckpoints, CompleteCheckpoint, Begin, Step, Goto, tables, TypeOK
  <2> QED
    BY <2>1, PredictionFrame
<1>2. CASE InsertCheckpoints(r)
  <2>1. CASE Conflict(r)
    BY <2>1, AnswerPrediction DEF Conflict
  <2>2. CASE /\ Step(r, "commit")
             /\ writes' = [writes EXCEPT ![r].checkpoints =
                             {NewCheckpoint(r, days) : days \in CheckpointDays}]
             /\ UNCHANGED local
    <3>1. \A days \in CheckpointDays : Predicted(NewCheckpoint(r, days))
      BY <1>2 DEF InsertCheckpoints, PredictionInv, NewCheckpoint, Predicted
    <3>2. \A s \in Request : \A c \in writes'[s].checkpoints : Predicted(c)
      BY <2>2, <3>1 DEF PredictionInv, TypeOK, Writes
    <3>3. \A s \in Request : pc'[s] = "insert_checkpoints" =>
                               pc[s] = "insert_checkpoints" /\ local'[s] = local[s]
      BY <2>2 DEF Step, Goto, TypeOK
    <3>4. checkpoints' = checkpoints
      BY <2>2 DEF Step, tables
    <3> QED
      BY <3>2, <3>3, <3>4 DEF PredictionInv, Predicted
  <2> QED
    BY <1>2, <2>1, <2>2 DEF InsertCheckpoints
<1>3. CASE LoadCheckpoint(r)
  <2>1. CASE Step(r, "find_attempt") /\ UNCHANGED <<writes, local>>
    <3>1. Quietly /\ checkpoints' = checkpoints
      BY <2>1 DEF Step, Goto, tables, TypeOK
    <3> QED
      BY <3>1, PredictionFrame
  <2> QED
    BY <1>3, <2>1, AnswerPrediction DEF LoadCheckpoint
<1>4. CASE FinishCheckpoint(r)
  <2>1. PICK a \in attempts :
          checkpoints' = {IF c \in Named(r) THEN Completed(c, a) ELSE c : c \in checkpoints}
    BY <1>4 DEF FinishCheckpoint
  <2>2. ASSUME NEW c \in checkpoints
        PROVE  Predicted(Completed(c, a))
    <3>1. c \in CheckpointRow /\ Predicted(c)
      BY DEF PredictionInv, TypeOK
    <3> QED
      BY <3>1 DEF Predicted, Completed, VerdictOn, CheckpointRow
  <2>3. \A c \in checkpoints' : Predicted(c)
    BY <2>1, <2>2 DEF PredictionInv
  <2>4. \A s \in Request :
          /\ writes'[s] = writes[s]
          /\ pc'[s] # "insert_checkpoints" \/ (pc'[s] = pc[s] /\ local'[s] = local[s])
    BY <1>4 DEF FinishCheckpoint, Return, Goto, TypeOK
  <2> QED
    BY <2>3, <2>4 DEF PredictionInv, Predicted
<1> QED
  BY <1>1, <1>2, <1>3, <1>4 DEF RetentionNext

\* "inconclusive" is unreachable, however completions, retries and crashes
\* interleave: the branch of _evaluate_verdict for a low label is dead code.
THEOREM VerdictsDecided == Spec => []VerdictIsDecided
<1>1. Init => PredictionInv
  BY DEF Init, PredictionInv, NoWrites
<1>2. TypeInv /\ PredictionInv /\ [Next]_vars => PredictionInv'
  <2> SUFFICES ASSUME TypeInv, PredictionInv, [Next]_vars
               PROVE  PredictionInv'
    OBVIOUS
  <2>1. ASSUME NEW r \in Request, Handle(r)
        PROVE  PredictionInv'
    BY <2>1, AssessmentPrediction, KnowledgePrediction, RetentionPrediction DEF Handle
  <2>2. ASSUME NEW r \in Request, Crash(r)
        PROVE  PredictionInv'
    BY <2>2, AnswerPrediction DEF Crash
  <2>3. CASE UNCHANGED vars
    BY <2>3 DEF vars, PredictionInv, Predicted
  <2> QED
    BY <2>1, <2>2, <2>3 DEF Next, Finished
<1>3. PredictionInv => VerdictIsDecided
  BY DEF PredictionInv, Predicted, VerdictIsDecided
<1> QED
  BY InitTypeInv, StepTypeInv, <1>1, <1>2, <1>3, PTL DEF Spec

-----------------------------------------------------------------------------
\* The evidence about the application facet of learner l in a set of rows.
Ids(rows, l) == {e.id : e \in Relevant(rows, l)}

CacheInv ==
    /\ \A s \in states : s.basis \subseteq Ids(evidence, s.learner)
    /\ \A r \in Request : pc[r] \in {"read_state", "save_state"} =>
         /\ local[r].state.learner = local[r].learner
         /\ local[r].state.basis \subseteq Ids(VisibleEvidence(r), local[r].learner)

\* Committed evidence stays, with the learner and the facet it is about.
EvidenceStays ==
    \A e \in evidence : \E f \in evidence' :
        f.id = e.id /\ f.learner = e.learner /\ f.facet = e.facet

\* A step that leaves the cache alone, loses no evidence and changes nothing
\* for a handler that is between reading the evidence and saving the state.
LEMMA CacheFrame ==
    ASSUME CacheInv, states' = states, EvidenceStays,
           \A s \in Request : pc'[s] \in {"read_state", "save_state"} =>
              /\ pc[s] \in {"read_state", "save_state"}
              /\ local'[s].state = local[s].state
              /\ local'[s].learner = local[s].learner
              /\ writes'[s].evidence = writes[s].evidence
    PROVE  CacheInv'
<1>1. \A l : Ids(evidence, l) \subseteq Ids(evidence', l)
  BY DEF Ids, Relevant, EvidenceStays
<1>2. \A s \in states' : s.basis \subseteq Ids(evidence', s.learner)
  BY <1>1 DEF CacheInv
<1>3. ASSUME NEW s \in Request, pc'[s] \in {"read_state", "save_state"}
      PROVE  /\ local'[s].state.learner = local'[s].learner
             /\ local'[s].state.basis
                  \subseteq Ids(evidence' \cup writes'[s].evidence, local'[s].learner)
  <2>1. Ids(evidence \cup writes[s].evidence, local[s].learner)
          \subseteq Ids(evidence' \cup writes[s].evidence, local[s].learner)
    BY <1>1 DEF Ids, Relevant
  <2> QED
    BY <1>3, <2>1 DEF CacheInv, VisibleEvidence
<1> QED
  BY <1>2, <1>3 DEF CacheInv, VisibleEvidence

\* The same, for a step that moves r to a statement outside of that stretch.
LEMMA CacheMove ==
    ASSUME TypeInv, CacheInv, NEW r \in Request, states' = states, EvidenceStays,
           pc'[r] \notin {"read_state", "save_state"},
           \A s \in Request \ {r} : /\ pc'[s] = pc[s]
                                    /\ local'[s] = local[s]
                                    /\ writes'[s] = writes[s]
    PROVE  CacheInv'
<1>1. \A s \in Request : pc'[s] \in {"read_state", "save_state"} =>
        /\ pc[s] \in {"read_state", "save_state"}
        /\ local'[s] = local[s]
        /\ writes'[s] = writes[s]
  OBVIOUS
<1> QED
  BY <1>1, CacheFrame

LEMMA AnswerCache ==
    ASSUME TypeInv, CacheInv, NEW r \in Request, NEW how, Answer(r, how)
    PROVE  CacheInv'
  BY CacheMove DEF Answer, Return, Goto, TypeInv, TypeOK, tables, EvidenceStays

LEMMA CommitKeepsEvidence ==
    ASSUME NEW r \in Request, Commit(r)
    PROVE  EvidenceStays
  BY DEF Commit, EvidenceStays

LEMMA AttemptReturnedMove ==
    ASSUME TypeInv, NEW r \in Request, AttemptReturned(r)
    PROVE  /\ pc'[r] \notin {"read_state", "save_state"}
           /\ \A s \in Request \ {r} : pc'[s] = pc[s] /\ local'[s] = local[s]
  BY DEF AttemptReturned, Return, Goto, TypeInv, TypeOK

LEMMA AssessmentCache ==
    ASSUME TypeInv, CacheInv, NEW r \in Request, AssessmentNext(r)
    PROVE  CacheInv'
<1> USE DEF TypeInv
<1> DEFINE Elsewhere ==
             /\ pc'[r] \notin {"read_state", "save_state"}
             /\ \A s \in Request \ {r} : /\ pc'[s] = pc[s]
                                         /\ local'[s] = local[s]
                                         /\ writes'[s] = writes[s]
<1>1. EvidenceStays \/ WriteMode(r) \/ \E how : Answer(r, how)
  <2>1. CASE UNCHANGED evidence
    BY <2>1 DEF EvidenceStays
  <2>2. CASE ~ UNCHANGED evidence
    BY <2>2, CommitKeepsEvidence
    DEF AssessmentNext, SubmitAttempt, EvaluateAttempt, RecordObservation,
        ClassifyFailureMode, Begin, FindAttempt, InsertAttempt, FindObservation,
        InsertObservation, InsertEvidence, FinalCommit, LoadAttempt, FindSubject,
        LoadEvidence, Step, Conflict, tables
  <2> QED
    BY <2>1, <2>2
<1>2. WriteMode(r) => EvidenceStays
  <2> SUFFICES ASSUME WriteMode(r), NEW e \in evidence
               PROVE  \E f \in evidence' : /\ f.id = e.id /\ f.learner = e.learner
                                           /\ f.facet = e.facet
    BY DEF EvidenceStays
  <2> DEFINE f == IF e.id = call[r].evidence
                  THEN [e EXCEPT !.mode = call[r].mode] ELSE e
  <2>1. f \in evidence'
    BY DEF WriteMode
  <2>2. f.id = e.id /\ f.learner = e.learner /\ f.facet = e.facet
    BY DEF TypeOK, EvidenceRow
  <2> QED
    BY <2>1, <2>2
<1>3. CASE \E op, first : Begin(r, op, first) /\ first \notin {"read_state", "save_state"}
  <2>1. Elsewhere /\ states' = states /\ evidence' = evidence
    BY <1>3 DEF Begin, Goto, tables, TypeOK
  <2> QED
    BY <2>1, CacheMove DEF EvidenceStays
<1>4. CASE FindAttempt(r) /\ ~ \E how : Answer(r, how)
  <2>1. CASE AttemptReturned(r) /\ UNCHANGED <<tables, writes>>
    BY <2>1, AttemptReturnedMove, CacheMove DEF tables, EvidenceStays
  <2>2. CASE Step(r, "insert_attempt") /\ UNCHANGED writes
             /\ local' = [local EXCEPT ![r].attempt = NewAttempt(r)]
    <3>1. Elsewhere /\ states' = states /\ evidence' = evidence
      BY <2>2 DEF Step, Goto, tables, TypeOK
    <3> QED
      BY <3>1, CacheMove DEF EvidenceStays
  <2> QED
    BY <1>4, <2>1, <2>2 DEF FindAttempt
<1>5. CASE (InsertAttempt(r) \/ InsertEvidence(r)) /\ ~Conflict(r)
  <2>1. Elsewhere /\ states' = states /\ evidence' = evidence
    BY <1>5 DEF InsertAttempt, InsertEvidence, Step, Goto, tables, TypeOK
  <2> QED
    BY <2>1, CacheMove DEF EvidenceStays
<1>6. CASE (FindObservation(r) \/ InsertObservation(r)) /\ ~Conflict(r)
  <2>1. Elsewhere /\ states' = states /\ evidence' = evidence
    BY <1>6 DEF FindObservation, InsertObservation, ObservationReturned, Goto,
                tables, TypeOK
  <2> QED
    BY <2>1, CacheMove DEF EvidenceStays
<1>7. CASE FinalCommit(r)
  <2>1. \A s \in Request \ {r} : writes'[s] = writes[s]
    BY <1>7 DEF FinalCommit, Commit, TypeOK
  <2> QED
    BY <1>7, <2>1, AttemptReturnedMove, CommitKeepsEvidence, CacheMove DEF FinalCommit
<1>8. CASE (LoadAttempt(r) \/ FindSubject(r) \/ LoadEvidence(r))
           /\ ~ \E how : Answer(r, how)
  <2>1. Elsewhere /\ states' = states /\ evidence' = evidence
    BY <1>8 DEF LoadAttempt, FindSubject, LoadEvidence, Step, Goto, tables, TypeOK
  <2> QED
    BY <2>1, CacheMove DEF EvidenceStays
<1>9. CASE WriteMode(r)
  <2>1. Elsewhere /\ states' = states
    BY <1>9 DEF WriteMode, Return, Goto, TypeOK
  <2> QED
    BY <1>2, <1>9, <2>1, CacheMove
<1>10. CASE \E how : Answer(r, how)
  BY <1>10, AnswerCache
<1> QED
  BY <1>3, <1>4, <1>5, <1>6, <1>7, <1>8, <1>9, <1>10
  DEF AssessmentNext, SubmitAttempt, EvaluateAttempt, RecordObservation,
      ClassifyFailureMode, Conflict

LEMMA KnowledgeCacheInv ==
    ASSUME TypeInv, CacheInv, NEW r \in Request, KnowledgeNext(r)
    PROVE  CacheInv'
<1> USE DEF TypeInv
<1>1. CASE GetKnowledgeState(r) \/ RefreshState(r)
  <2>1. CASE GetKnowledgeState(r)
    BY <2>1, CacheMove DEF GetKnowledgeState, Goto, tables, TypeOK, EvidenceStays
  <2>2. CASE RefreshState(r)
    <3>1. local[r].resume \notin {"read_state", "save_state"}
      BY DEF TypeOK, Local
    <3> QED
      BY <2>2, <3>1, CacheMove DEF RefreshState, Step, Goto, tables, TypeOK, EvidenceStays
  <2> QED
    BY <1>1, <2>1, <2>2
<1>2. CASE ReadEvidence(r)
  <2> DEFINE rows == Relevant(VisibleEvidence(r), local[r].learner)
  <2>1. /\ local'[r].state = Posterior(local[r].learner, rows)
        /\ local'[r].learner = local[r].learner
        /\ \A s \in Request \ {r} : pc'[s] = pc[s] /\ local'[s] = local[s]
        /\ UNCHANGED <<states, evidence, writes>>
    BY <1>2 DEF ReadEvidence, Step, Goto, tables, TypeOK, Local
  <2>2. /\ Posterior(local[r].learner, rows).learner = local[r].learner
        /\ Posterior(local[r].learner, rows).basis = Ids(VisibleEvidence(r), local[r].learner)
    BY DEF Posterior, Ids
  <2> QED
    BY <2>1, <2>2 DEF CacheInv, VisibleEvidence, Ids, Relevant
<1>3. CASE ReadState(r)
  <2>1. /\ pc[r] = "read_state"
        /\ local'[r].state = local[r].state /\ local'[r].learner = local[r].learner
        /\ \A s \in Request \ {r} : pc'[s] = pc[s] /\ local'[s] = local[s]
        /\ UNCHANGED <<states, evidence, writes>>
    BY <1>3 DEF ReadState, Step, Goto, tables, TypeOK, Local
  <2> QED
    BY <2>1, CacheFrame DEF EvidenceStays
<1>4. CASE SaveState(r)
  <2>1. CASE Conflict(r)
    BY <2>1, AnswerCache DEF Conflict
  <2>2. CASE ~Conflict(r)
    <3>1. /\ pc[r] = "save_state" /\ Commit(r)
          /\ Goto(r, "refresh_state") /\ UNCHANGED local
          /\ states' \subseteq states \cup {local[r].state}
               \cup {Updated(s, local[r].seen, local[r].state) :
                       s \in Cached(local[r].learner)}
      BY <1>4, <2>2 DEF SaveState
    <3>2. evidence' = VisibleEvidence(r)
      BY <3>1 DEF Commit, VisibleEvidence
    <3>3. \A l : Ids(evidence, l) \subseteq Ids(evidence', l)
      BY <3>2 DEF Ids, Relevant, VisibleEvidence
    <3>4. \A s \in states' : s.basis \subseteq Ids(evidence', s.learner)
      <4>1. local[r].state.basis \subseteq Ids(evidence', local[r].learner)
            /\ local[r].state.learner = local[r].learner
        BY <3>1, <3>2 DEF CacheInv
      <4>2. ASSUME NEW s \in Cached(local[r].learner)
            PROVE  LET t == Updated(s, local[r].seen, local[r].state) IN
                     /\ t.learner = s.learner
                     /\ t.basis \in {s.basis, local[r].state.basis}
        BY <4>2 DEF Updated, Cached, TypeOK, StateRow
      <4>3. ASSUME NEW s \in Cached(local[r].learner)
            PROVE  LET t == Updated(s, local[r].seen, local[r].state) IN
                     t.basis \subseteq Ids(evidence', t.learner)
        BY <3>3, <4>1, <4>2, <4>3 DEF CacheInv, Cached
      <4> QED
        BY <3>1, <3>3, <4>1, <4>3 DEF CacheInv
    <3>5. pc'[r] = "refresh_state"
          /\ \A s \in Request \ {r} : pc'[s] = pc[s] /\ writes'[s] = writes[s]
      BY <3>1 DEF Goto, Commit, TypeOK
    <3>6. ASSUME NEW s \in Request, pc'[s] \in {"read_state", "save_state"}
          PROVE  local[s].state.basis
                   \subseteq Ids(evidence' \cup writes'[s].evidence, local[s].learner)
      <4>1. s # r /\ pc[s] \in {"read_state", "save_state"} /\ writes'[s] = writes[s]
        BY <3>5, <3>6
      <4>2. Ids(evidence \cup writes[s].evidence, local[s].learner)
              \subseteq Ids(evidence' \cup writes[s].evidence, local[s].learner)
        BY <3>2 DEF Ids, Relevant, VisibleEvidence
      <4> QED
        BY <4>1, <4>2 DEF CacheInv, VisibleEvidence
    <3>7. \A s \in Request : pc'[s] \in {"read_state", "save_state"} =>
            pc[s] \in {"read_state", "save_state"}
      BY <3>5
    <3> QED
      BY <3>1, <3>4, <3>6, <3>7 DEF CacheInv, VisibleEvidence
  <2> QED
    BY <2>1, <2>2
<1>5. CASE ReturnState(r)
  BY <1>5, AnswerCache DEF ReturnState
<1> QED
  BY <1>1, <1>2, <1>3, <1>4, <1>5 DEF KnowledgeNext

LEMMA RetentionCache ==
    ASSUME TypeInv, CacheInv, NEW r \in Request, RetentionNext(r)
    PROVE  CacheInv'
<1> USE DEF TypeInv
<1> DEFINE Elsewhere ==
             /\ pc'[r] \notin {"read_state", "save_state"}
             /\ \A s \in Request \ {r} : /\ pc'[s] = pc[s]
                                         /\ local'[s] = local[s]
                                         /\ writes'[s] = writes[s]
<1>1. CASE \E how : Answer(r, how)
  BY <1>1, AnswerCache
<1>2. CASE ~ \E how : Answer(r, how)
  <2>1. Elsewhere
    BY <1>2 DEF RetentionNext, FindCheckpoints, InsertCheckpoints, CompleteCheckpoint,
                LoadCheckpoint, FinishCheckpoint, Begin, Step, Return, Goto, Conflict,
                TypeOK
  <2>2. states' = states /\ evidence' = evidence
    BY <1>2 DEF RetentionNext, FindCheckpoints, InsertCheckpoints, CompleteCheckpoint,
                LoadCheckpoint, FinishCheckpoint, Begin, Step, Conflict, tables
  <2> QED
    BY <2>1, <2>2, CacheMove DEF EvidenceStays
<1> QED
  BY <1>1, <1>2

\* The posteriors, cached and held, rest on committed evidence or the handler's own.
LEMMA AlwaysCache == Spec => []CacheInv
<1>1. Init => CacheInv
  BY DEF Init, CacheInv
<1>2. TypeInv /\ CacheInv /\ [Next]_vars => CacheInv'
  <2> SUFFICES ASSUME TypeInv, CacheInv, [Next]_vars
               PROVE  CacheInv'
    OBVIOUS
  <2>1. ASSUME NEW r \in Request, Handle(r)
        PROVE  CacheInv'
    BY <2>1, AssessmentCache, KnowledgeCacheInv, RetentionCache DEF Handle
  <2>2. ASSUME NEW r \in Request, Crash(r)
        PROVE  CacheInv'
    BY <2>2, AnswerCache DEF Crash
  <2>3. CASE UNCHANGED vars
    BY <2>3 DEF vars, CacheInv, VisibleEvidence, Ids, Relevant
  <2> QED
    BY <2>1, <2>2, <2>3 DEF Next, Finished
<1> QED
  BY InitTypeInv, StepTypeInv, <1>1, <1>2, PTL DEF Spec

=============================================================================
