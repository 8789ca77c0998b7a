--------------------------- MODULE KnowledgeCache ---------------------------
(***************************************************************************)
(* get_or_recompute_knowledge_state of services/knowledge_state_service.py *)
(* on the application facet, the one the learning loop reads: recompute    *)
(* the posterior from the evidence, upsert the cached row and COMMIT, in   *)
(* the middle of whatever transaction the caller has open; then reread the *)
(* row, which may by now hold what another handler computed.               *)
(*                                                                         *)
(* A posterior is determined by the evidence it was computed from; weights *)
(* are in tenths and do not decay during the behaviours considered here.   *)
(***************************************************************************)
EXTENDS Store

CONSTANTS InsufficientThreshold, LowThreshold    \* 10 and 40 in the code

ASSUME ThresholdAssumption ==
    /\ InsufficientThreshold \in Nat
    /\ LowThreshold \in Nat
    /\ InsufficientThreshold <= LowThreshold

ReadCall == [op: {"read"}, learner: Learner]

-----------------------------------------------------------------------------
Relevant(rows, l) == {e \in rows : e.learner = l /\ e.facet = "application"}

TotalWeight(rows) == SumFunction([e \in rows |-> e.weight])

\* _confidence_label of effective_n, the total weight of the evidence.
LabelOf(rows) ==
    IF TotalWeight(rows) < InsufficientThreshold THEN "insufficient_evidence"
    ELSE IF TotalWeight(rows) < LowThreshold THEN "low_confidence"
    ELSE "high_confidence"

\* mastery_probability > 0.5: alpha exceeds beta, from equal priors.
Mastered(rows) == TotalWeight({e \in rows : e.positive})
                  > TotalWeight({e \in rows : ~e.positive})

\* compute_knowledge_state
Posterior(l, rows) == [learner |-> l, basis |-> {e.id : e \in rows},
                       label |-> LabelOf(rows), mastered |-> Mastered(rows)]

GetKnowledgeState(r) ==
    /\ pc[r] = "idle"
    /\ \E c \in Calls :
         /\ c.op = "read"
         /\ call' = [call EXCEPT ![r] = c]
         /\ local' = [local EXCEPT ![r].learner = c.learner,
                                   ![r].resume = "return_state"]
    /\ Goto(r, "read_evidence")
    /\ UNCHANGED <<tables, writes, outcome>>

ReadEvidence(r) ==
    /\ pc[r] = "read_evidence"
    /\ Step(r, "read_state")
    /\ local' = [local EXCEPT ![r].state =
                   Posterior(local[r].learner,
                             Relevant(VisibleEvidence(r), local[r].learner))]
    /\ UNCHANGED writes

Cached(l) == {s \in states : s.learner = l}

ReadState(r) ==
    /\ pc[r] = "read_state"
    /\ Step(r, "save_state")
    /\ LET rows == Cached(local[r].learner) IN
       \E s \in IF rows = {} THEN {None} ELSE rows :
          local' = [local EXCEPT ![r].seen = s]
    /\ UNCHANGED writes

\* The UPDATE sets the columns that differ from what was read, and leaves what
\* another handler wrote meanwhile in the others.  The probability decays with
\* time, so it differs unless it rested on nothing and still does.
Updated(row, seen, new) ==
    LET blank == seen.basis = {} /\ new.basis = {} IN
    [row EXCEPT !.basis = IF blank THEN @ ELSE new.basis,
                !.mastered = IF blank THEN @ ELSE new.mastered,
                !.label = IF new.label = seen.label THEN @ ELSE new.label]

\* Mutant: the upsert is committed through a Session of its own, so as to spare
\* the caller's transaction the commit in its middle.
SaveStateApart(r) ==
    /\ pc[r] = "save_state"
    /\ LET old == Cached(local[r].learner)
           new == local[r].state IN
       \/ /\ local[r].seen = None /\ old # {}
          /\ Conflict(r)
       \/ /\ local[r].seen = None => old = {}
          /\ states' = (states \ old) \cup
                IF local[r].seen = None THEN {new}
                ELSE {Updated(s, local[r].seen, new) : s \in old}
          /\ Goto(r, "refresh_state")
          /\ UNCHANGED <<attempts, observations, evidence, checkpoints, writes>>
          /\ UNCHANGED <<call, local, outcome>>

\* The upsert and the commit, of everything the caller has flushed as well.
SaveState(r) ==
    /\ pc[r] = "save_state"
    /\ LET old == Cached(local[r].learner)
           new == local[r].state IN
       \/ /\ local[r].seen = None /\ old # {}
          /\ Conflict(r)
       \/ /\ local[r].seen = None => old = {}
          /\ states' = (states \ old) \cup
                IF local[r].seen = None THEN {new}
                ELSE {Updated(s, local[r].seen, new) : s \in old}
          /\ Commit(r)
          /\ Goto(r, "refresh_state")
          /\ UNCHANGED <<call, local, outcome>>

\* Mutant: checkpoints are scheduled whatever the label.
RefreshStateOnly(r) ==
    /\ pc[r] = "refresh_state"
    /\ \E s \in states :
         /\ s.learner = local[r].learner
         /\ local' = [local EXCEPT ![r].state = s]
         /\ Step(r, local[r].resume)
    /\ UNCHANGED writes

\* db.refresh(state), and what the caller does with the label it finds.
RefreshState(r) ==
    /\ pc[r] = "refresh_state"
    /\ \E s \in states :
         /\ s.learner = local[r].learner
         /\ local' = [local EXCEPT ![r].state = s]
         /\ Step(r, IF /\ local[r].resume = "insert_checkpoints"
                       /\ s.label # "high_confidence"
                    THEN "commit" ELSE local[r].resume)
    /\ UNCHANGED writes

ReturnState(r) ==
    /\ pc[r] = "return_state"
    /\ Answer(r, "ok")

KnowledgeNext(r) ==
    \/ GetKnowledgeState(r) \/ ReadEvidence(r) \/ ReadState(r)
    \/ SaveState(r) \/ RefreshState(r) \/ ReturnState(r)

=============================================================================
