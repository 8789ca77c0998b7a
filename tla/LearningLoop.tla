---------------------------- MODULE LearningLoop ----------------------------
(***************************************************************************)
(* The learning loop of the API: attempts become observations, evidence,   *)
(* a cached knowledge state and, once that is confident, retention         *)
(* checkpoints with falsifiable predictions.  This module composes the     *)
(* handlers of Assessment, KnowledgeCache and Retention, run by threads    *)
(* that interleave at every database access, and states what their         *)
(* combined effect on the tables must be.                                  *)
(***************************************************************************)
EXTENDS Retention

CONSTANT MayCrash     \* whether handlers may be cut short

ASSUME CrashAssumption == MayCrash \in BOOLEAN

Call == SubmitCall \cup EvaluateCall \cup ObserveCall \cup ClassifyCall
        \cup CompleteCall \cup ReadCall

ASSUME CallAssumption == Calls \subseteq Call

Local == [attempt: AttemptRow \cup {None},
          observation: ObservationKey \cup {None},
          learner: Learner \cup {None}, state: StateRow \cup {None},
          seen: StateRow \cup {None},
          resume: {"none", "insert_checkpoints", "finish_checkpoint",
                   "return_state"}]

NoLocal == [attempt |-> None, observation |-> None, learner |-> None,
            state |-> None, seen |-> None, resume |-> "none"]

Grading == {"find_observation", "insert_observation", "insert_evidence",
            "find_checkpoints", "insert_checkpoints", "commit"}
Recomputing == {"read_evidence", "read_state", "save_state", "refresh_state"}
Statement == {"idle", "done", "find_attempt", "insert_attempt", "load_attempt",
           "find_subject", "load_evidence", "write_mode", "load_checkpoint",
           "finish_checkpoint", "return_state"} \cup Grading \cup Recomputing

-----------------------------------------------------------------------------
Init ==
    /\ attempts = {} /\ observations = {} /\ evidence = {}
    /\ states = {} /\ checkpoints = {}
    /\ writes = [r \in Request |-> NoWrites]
    /\ pc = [r \in Request |-> "idle"]
    /\ call = [r \in Request |-> None]
    /\ local = [r \in Request |-> NoLocal]
    /\ outcome = [r \in Request |-> "none"]

\* Every call has been answered; nothing is left to do.
Quiet == \A r \in Request : pc[r] = "done"
Finished == Quiet /\ UNCHANGED vars

Handle(r) == AssessmentNext(r) \/ KnowledgeNext(r) \/ RetentionNext(r)

Next ==
    \/ \E r \in Request : Handle(r)
    \/ \E r \in Request : MayCrash /\ Crash(r)
    \/ Finished

Spec == Init /\ [][Next]_vars

\* A thread that has started a handler keeps running it: queries return, and
\* an insert that waits for another transaction resumes when that one ends.
Work(r) == pc[r] # "idle" /\ Handle(r)

FairSpec == Spec /\ \A r \in Request : WF_vars(Work(r))

-----------------------------------------------------------------------------
TypeOK ==
    /\ attempts \subseteq AttemptRow
    /\ observations \subseteq ObservationRow
    /\ evidence \subseteq EvidenceRow
    /\ states \subseteq StateRow
    /\ checkpoints \subseteq CheckpointRow
    /\ writes \in [Request -> Writes]
    /\ pc \in [Request -> Statement]
    /\ call \in [Request -> Calls \cup {None}]
    /\ local \in [Request -> Local]
    /\ outcome \in [Request -> {"none", "ok", "rejected", "conflict", "crashed"}]

\* An attempt is marked evaluated in the same transaction that publishes the
\* evidence of its result: despite the commit in the middle of the handler, no
\* reader ever finds one without the other, nor evidence without observation.
EvaluationPublishedWhole ==
    /\ \A a \in attempts :
         a.result # "unknown" <=>
           \E e \in evidence : /\ e.observation = <<a.key, "evaluated">>
                               /\ e.positive = (a.result = "correct")
    /\ \A e \in evidence : \E o \in observations : o.key = e.observation

\* However often a submission is retried, and whatever becomes of the process
\* that handles it, an automatically graded attempt yields one evidence row.
GradedExactlyOnce ==
    \A a \in attempts : a.question \in Gradable =>
        Cardinality({e \in evidence : e.observation = <<a.key, "evaluated">>}) = 1

\* What a client was told has happened is in the committed tables.
AcknowledgedIsDurable ==
    \A r \in Request : outcome[r] = "ok" =>
        /\ call[r].op \in {"submit", "complete"} =>
             \E a \in attempts : a.key = call[r].key
        /\ call[r].op = "evaluate" =>
             \E a \in attempts : a.key = call[r].key /\ a.result # "unknown"
        /\ call[r].op = "observe" =>
             \E o \in observations : o.key = call[r].observation
        /\ call[r].op = "classify" =>
             \E e \in evidence : e.id = call[r].evidence /\ e.mode \in Classified
        /\ call[r].op = "complete" =>
             \E c \in Named(r) : c.status = "completed"

\* Checkpoints come in pairs with one prediction, resting on committed evidence
\* of the application facet of that learner that reaches high confidence.
ScheduledOnHighConfidence ==
    \A l \in {c.learner : c \in checkpoints} :
      LET pair == {c \in checkpoints : c.learner = l}
          rows == Relevant(evidence, l) IN
        /\ {c.days : c \in pair} = CheckpointDays
        /\ Cardinality(pair) = Cardinality(CheckpointDays)
        /\ Cardinality({<<c.origin, c.label, c.mastered>> : c \in pair}) = 1
        /\ \A c \in pair : \E e \in rows : e.id = c.origin
        /\ LabelOf(rows) = "high_confidence"

\* A verdict is never "inconclusive": only a high-confidence state schedules a
\* checkpoint, so that branch of _evaluate_verdict is never taken; and no
\* checkpoint that is still pending has a verdict or a delayed attempt.
VerdictIsDecided ==
    \A c \in checkpoints :
        /\ c.verdict # "inconclusive"
        /\ c.status = "pending" => c.verdict = "pending" /\ c.delayed = None

\* Although a cached row may join the label of one computation to the posterior
\* of another, and either may have been overtaken: the posterior never rests on
\* evidence that did not commit, or that is about another learner or facet, and
\* the label says high confidence only where the committed evidence reaches it.
CacheRestsOnEvidence ==
    \A s \in states :
        LET rows == Relevant(evidence, s.learner) IN
        /\ s.basis \subseteq {e.id : e \in rows}
        /\ s.label = "high_confidence" => LabelOf(rows) = "high_confidence"

\* No step loses a committed row, changes who an attempt belongs to, reopens a
\* completed checkpoint or alters the prediction that a checkpoint froze.
HistoryKept ==
    [][/\ \A a \in attempts : \E b \in attempts' :
            b = [a EXCEPT !.result = b.result] /\ (b.result = "unknown" => a = b)
       /\ observations \subseteq observations'
       /\ \A e \in evidence : \E f \in evidence' : f = [e EXCEPT !.mode = f.mode]
       /\ \A c \in checkpoints : \E d \in checkpoints' :
            /\ d = [c EXCEPT !.status = d.status, !.delayed = d.delayed,
                             !.verdict = d.verdict]
            /\ c.status = "completed" => d.status = "completed"
      ]_<<attempts, observations, evidence, checkpoints>>

\* Every call is answered: the waits on each other's rows never form a cycle.
EveryCallAnswered == \A r \in Request : pc[r] # "idle" ~> pc[r] = "done"

-----------------------------------------------------------------------------
(* What the documentation says and the code does not do; see the README.   *)

\* ADR-014: checkpoints are scheduled the first time the application facet
\* reaches high confidence, "evaluated immediately after each graded attempt".
ScheduledWhenConfident ==
    Quiet => \A l \in Learner :
        LabelOf(Relevant(evidence, l)) = "high_confidence" =>
            \E c \in checkpoints : c.learner = l

=============================================================================
