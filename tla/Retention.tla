----------------------------- MODULE Retention ------------------------------
(***************************************************************************)
(* services/retention_service.py: scheduling the delayed checkpoints from  *)
(* inside the grading of an attempt, and completing one of them with a     *)
(* delayed attempt, in three transactions one after the other.             *)
(***************************************************************************)
EXTENDS Assessment, KnowledgeCache

\* maybe_schedule_checkpoints: nothing more to do once any checkpoint exists.
FindCheckpoints(r) ==
    /\ pc[r] = "find_checkpoints"
    /\ Step(r, IF \E c \in checkpoints : c.learner = local[r].learner
               THEN "commit" ELSE "read_evidence")
    /\ UNCHANGED <<writes, local>>

NewCheckpoint(r, days) ==
    [learner |-> local[r].learner, days |-> days, origin |-> r,
     label |-> local[r].state.label, mastered |-> local[r].state.mastered,
     status |-> "pending", delayed |-> None, verdict |-> "pending"]

\* Mutant: no unique constraint on checkpoints, only the lookup.
InsertCheckpointsAnyway(r) ==
    /\ pc[r] = "insert_checkpoints"
    /\ Step(r, "commit")
    /\ writes' = [writes EXCEPT ![r].checkpoints =
                    {NewCheckpoint(r, days) : days \in CheckpointDays}]
    /\ UNCHANGED local

InsertCheckpoints(r) ==
    /\ pc[r] = "insert_checkpoints"
    /\ ~CheckpointHeld(r, local[r].learner)
    /\ \/ /\ \E c \in checkpoints : c.learner = local[r].learner
          /\ Conflict(r)
       \/ /\ \A c \in checkpoints : c.learner # local[r].learner
          /\ Step(r, "commit")
          /\ writes' = [writes EXCEPT ![r].checkpoints =
                          {NewCheckpoint(r, days) : days \in CheckpointDays}]
          /\ UNCHANGED local

-----------------------------------------------------------------------------
CompleteCheckpoint(r) == Begin(r, "complete", "load_checkpoint")

Named(r) == {c \in checkpoints : c.learner = call[r].learner /\ c.days = call[r].days}

Completable(r) ==
    /\ \E c \in Named(r) : c.status = "pending"
    /\ call[r].question \in Gradable
    /\ SkillOf[call[r].question] = call[r].learner[2]

LoadCheckpoint(r) ==
    /\ pc[r] = "load_checkpoint"
    /\ \/ /\ Completable(r)
          /\ Step(r, "find_attempt")
          /\ UNCHANGED <<writes, local>>
       \/ /\ ~Completable(r)
          /\ Answer(r, "rejected")

\* _evaluate_verdict
VerdictOn(c, correct) ==
    IF c.label # "high_confidence" THEN "inconclusive"
    ELSE IF c.mastered = correct THEN "supported" ELSE "not_supported"

\* Mutant: completing a checkpoint revises the prediction it tests.
CompletedRevised(c, attempt) ==
    [c EXCEPT !.status = "completed", !.delayed = attempt.key,
              !.mastered = attempt.result = "correct"]

Completed(c, attempt) ==
    [c EXCEPT !.status = "completed", !.delayed = attempt.key,
              !.verdict = IF attempt.result = "unknown" THEN @
                          ELSE VerdictOn(c, attempt.result = "correct")]

\* Mutant: complete_checkpoint forgets its last commit.
FinishCheckpointUncommitted(r) == pc[r] = "finish_checkpoint" /\ Answer(r, "ok")

FinishCheckpoint(r) ==
    /\ pc[r] = "finish_checkpoint"
    /\ \E a \in attempts :
         /\ a.key = call[r].key
         /\ checkpoints' = {IF c \in Named(r) THEN Completed(c, a) ELSE c :
                            c \in checkpoints}
    /\ Return(r, "ok")
    /\ UNCHANGED <<attempts, observations, evidence, states, writes>>

RetentionNext(r) ==
    \/ FindCheckpoints(r) \/ InsertCheckpoints(r)
    \/ CompleteCheckpoint(r) \/ LoadCheckpoint(r) \/ FinishCheckpoint(r)

=============================================================================
