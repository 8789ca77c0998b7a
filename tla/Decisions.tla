----------------------------- MODULE Decisions ------------------------------
(***************************************************************************)
(* services/decision_engine_service.py: a decision is made from a snapshot *)
(* of the five knowledge states of one student and skill, which the        *)
(* handler recomputes, commits, and then rereads one by one; only then     *)
(* does it look at the student's age, the guardian's consent and the       *)
(* evidence it cites.  Other recomputations, new evidence and the staff    *)
(* who record ages and consents come in between.                           *)
(*                                                                         *)
(* The shadow flag of a decision and the audit row of a live escalation,   *)
(* which the same transaction writes, are left out.                        *)
(***************************************************************************)
EXTENDS DecisionPolicy, FiniteSets, Sequences

CONSTANTS
    Request,     \* calls of POST next-action and of recomputations
    Evidence,    \* evidence that may be committed in the meantime
    FacetOf,     \* the facet a piece of evidence is about
    Estimate,    \* the posterior that evidence yields: p and its label
    None         \* SQL NULL, a row that is not there

ASSUME EvidenceAssumption ==
    /\ FacetOf \in [Evidence -> Facet]
    /\ Estimate \in [SUBSET Evidence -> FacetInput]
    /\ Estimate[{}].label = "insufficient_evidence"

\* One facet's cached row.  Its label may belong to other evidence than its
\* probability, see KnowledgeCache.
Row == [basis: SUBSET Evidence, label: Label]

ASSUME NoneAssumption == None \notin Row

\* get_knowledge_states_for_skill refreshes its rows in this order.
FacetOrder == <<"recognition", "recall", "application", "transfer", "retention">>

Rows == [Facet -> Row \cup {None}]
NoRows == [f \in Facet |-> None]

Decision == [by: Request, action: Action, snapshot: [Facet -> Row],
             cited: SUBSET Evidence, result: Authorization]

VARIABLES
    evidence,     \* the committed evidence
    states,       \* the committed knowledge_states rows, per facet
    minor,        \* the date of birth on file is a minor's
    consent,      \* some parent link carries a consent
    decisions,    \* the decisions table
    pc,           \* the statement that each handler runs next
    facets,       \* the facets that each handler recomputes
    local         \* the variables of each handler

vars == <<evidence, states, minor, consent, decisions, pc, facets, local>>
shared == <<evidence, states, minor, consent, decisions>>

Local == [new: Rows, seen: Rows, count: Nat, snapshot: Rows,
          minor: BOOLEAN, consent: BOOLEAN, cited: SUBSET Evidence]

NoLocal == [new |-> NoRows, seen |-> NoRows, count |-> 0, snapshot |-> NoRows,
            minor |-> FALSE, consent |-> FALSE, cited |-> {}]

Statement == {"idle", "read_evidence", "read_states", "save_states", "refresh",
              "read_student", "read_consent", "read_evidence_ids",
              "insert_decision", "done"}

Init ==
    /\ evidence = {} /\ states = NoRows /\ decisions = {}
    /\ minor \in BOOLEAN /\ consent = FALSE
    /\ pc = [r \in Request |-> "idle"]
    /\ facets = [r \in Request |-> {}]
    /\ local = [r \in Request |-> NoLocal]

-----------------------------------------------------------------------------
Goto(r, next) == pc' = [pc EXCEPT ![r] = next]

\* A recomputation is of all facets, for a decision or for who asks for the
\* states of a skill, or of one facet, such as the one an attempt is graded on.
Start(r) ==
    /\ pc[r] = "idle"
    /\ \E some \in {Facet} \cup {{f} : f \in Facet} :
          facets' = [facets EXCEPT ![r] = some]
    /\ Goto(r, "read_evidence")
    /\ UNCHANGED <<shared, local>>

About(rows, f) == {e \in rows : FacetOf[e] = f}

Posterior(f) == [basis |-> About(evidence, f),
                 label |-> Estimate[About(evidence, f)].label]

\* One query for the evidence, whose rows are then grouped by facet.
ReadEvidence(r) ==
    /\ pc[r] = "read_evidence"
    /\ local' = [local EXCEPT ![r].new =
                   [f \in Facet |-> IF f \in facets[r] THEN Posterior(f) ELSE None]]
    /\ Goto(r, "read_states")
    /\ UNCHANGED <<shared, facets>>

ReadStates(r) ==
    /\ pc[r] = "read_states"
    /\ local' = [local EXCEPT ![r].seen = states]
    /\ Goto(r, "save_states")
    /\ UNCHANGED <<shared, facets>>

\* Mutant: the columns that did not change are overwritten with NULL.
UpdatedBlank(row, seen, new) ==
    [row EXCEPT !.basis = new.basis,
                !.label = IF new.label = seen.label THEN None ELSE new.label]

\* The columns an UPDATE sets are those that differ from what was read; the
\* probability, which decays, always does unless there is no evidence.
Updated(row, seen, new) ==
    [row EXCEPT !.basis = IF seen.basis = {} /\ new.basis = {} THEN @ ELSE new.basis,
                !.label = IF new.label = seen.label THEN @ ELSE new.label]

\* The upsert of the recomputed facets and its commit.  It fails as a whole
\* if a row it takes for absent has been inserted.
SaveStates(r) ==
    LET seen == local[r].seen
        new == local[r].new IN
    /\ pc[r] = "save_states"
    /\ \/ /\ \E f \in facets[r] : seen[f] = None /\ states[f] # None
          /\ Goto(r, "done")
          /\ UNCHANGED <<shared, facets, local>>
       \/ /\ \A f \in facets[r] : seen[f] = None => states[f] = None
          /\ states' = [f \in Facet |->
                IF f \notin facets[r] THEN states[f]
                ELSE IF seen[f] = None THEN new[f]
                ELSE Updated(states[f], seen[f], new[f])]
          /\ Goto(r, IF facets[r] = Facet THEN "refresh" ELSE "done")
          /\ UNCHANGED <<evidence, minor, consent, decisions, facets, local>>

\* db.refresh of one row after the other, each a query of its own.  A handler
\* that was only asked for the states answers here.
Refresh(r) ==
    LET n == local[r].count + 1 IN
    /\ pc[r] = "refresh"
    /\ local' = [local EXCEPT ![r].count = n,
                              ![r].snapshot[FacetOrder[n]] = states[FacetOrder[n]]]
    /\ IF n < Len(FacetOrder) THEN UNCHANGED pc
       ELSE \E next \in {"read_student", "done"} : Goto(r, next)
    /\ UNCHANGED <<shared, facets>>

-----------------------------------------------------------------------------
ReadStudent(r) ==
    /\ pc[r] = "read_student"
    /\ local' = [local EXCEPT ![r].minor = minor]
    /\ Goto(r, IF minor THEN "read_consent" ELSE "read_evidence_ids")
    /\ UNCHANGED <<shared, facets>>

ReadConsent(r) ==
    /\ pc[r] = "read_consent"
    /\ local' = [local EXCEPT ![r].consent = consent]
    /\ Goto(r, "read_evidence_ids")
    /\ UNCHANGED <<shared, facets>>

\* Mutant: what the snapshot rests on is taken from the handler's own
\* computation instead of the table.
CiteComputed(r) ==
    /\ pc[r] = "read_evidence_ids"
    /\ local' = [local EXCEPT ![r].cited = UNION {local[r].new[f].basis : f \in Facet}]
    /\ Goto(r, "insert_decision")
    /\ UNCHANGED <<shared, facets>>

ReadEvidenceIds(r) ==
    /\ pc[r] = "read_evidence_ids"
    /\ local' = [local EXCEPT ![r].cited = evidence]
    /\ Goto(r, "insert_decision")
    /\ UNCHANGED <<shared, facets>>

\* What the policy is given: the reread probabilities and labels.
InputsOf(snapshot) ==
    [f \in Facet |-> [p |-> Estimate[snapshot[f].basis].p,
                      label |-> snapshot[f].label]]

InsertDecision(r) ==
    LET snapshot == local[r].snapshot IN
    /\ pc[r] = "insert_decision"
    /\ \E a \in Action :
         /\ Selected(InputsOf(snapshot), a)
         /\ decisions' = decisions \cup
              {[by |-> r, action |-> a, snapshot |-> snapshot,
                cited |-> local[r].cited,
                result |-> Authorize(a, snapshot["application"].label,
                                     local[r].minor, local[r].consent)]}
    /\ Goto(r, "done")
    /\ UNCHANGED <<evidence, states, minor, consent, facets, local>>

-----------------------------------------------------------------------------
\* Evidence of the student on the skill commits, see LearningLoop.
Grade(e) ==
    /\ e \notin evidence
    /\ evidence' = evidence \cup {e}
    /\ UNCHANGED <<states, minor, consent, decisions, pc, facets, local>>

\* set_date_of_birth: staff may correct it at any time.
SetDateOfBirth ==
    /\ minor' \in BOOLEAN
    /\ minor' # minor
    /\ UNCHANGED <<evidence, states, consent, decisions, pc, facets, local>>

\* create_parent_link with a consent, which nothing withdraws.
CreateParentLink ==
    /\ ~consent
    /\ consent' = TRUE
    /\ UNCHANGED <<evidence, states, minor, decisions, pc, facets, local>>

Handle(r) ==
    \/ Start(r) \/ ReadEvidence(r) \/ ReadStates(r) \/ SaveStates(r)
    \/ Refresh(r) \/ ReadStudent(r) \/ ReadConsent(r)
    \/ ReadEvidenceIds(r) \/ InsertDecision(r)

Next ==
    \/ \E r \in Request : Handle(r)
    \/ \E e \in Evidence : Grade(e)
    \/ SetDateOfBirth
    \/ CreateParentLink

Spec == Init /\ [][Next]_vars

-----------------------------------------------------------------------------
TypeOK ==
    /\ evidence \subseteq Evidence
    /\ states \in Rows
    /\ minor \in BOOLEAN /\ consent \in BOOLEAN
    /\ decisions \subseteq Decision
    /\ pc \in [Request -> Statement]
    /\ facets \in [Request -> SUBSET Facet]
    /\ local \in [Request -> Local]

\* "evidence_ids" names every piece of evidence that fed any of the five
\* states of the snapshot, though these are reread after others may have
\* recomputed them and the ids are queried later still.
EvidenceCited ==
    \A d \in decisions, f \in Facet : d.snapshot[f].basis \subseteq d.cited

\* The action is personalised only if the application facet was evidenced with
\* high confidence, which is more than authorize asks for: whatever rows the
\* snapshot got hold of, no decision is ever rejected.
PersonalizedOnHighConfidence ==
    \A d \in decisions :
        /\ d.action \in Personalized =>
              d.snapshot["application"].label = "high_confidence"
        /\ d.result # "rejected"

\* Four of the twelve candidate actions are never selected: each has another
\* candidate that scores at least as much and comes first.
NeverSelected == {"harder_task", "hint", "worked_example", "defer_decision"}

DeadCandidates == \A d \in decisions : d.action \notin NeverSelected

\* An action that a student may take alone was, if the handler found a minor,
\* covered by a consent, which is still there.
MinorsNeedConsent ==
    \A d \in decisions :
        d.result = "allowed" /\ local[d.by].minor => consent

=============================================================================
