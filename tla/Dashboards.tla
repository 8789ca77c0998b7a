----------------------------- MODULE Dashboards -----------------------------
(***************************************************************************)
(* What services/dashboard_service.py concludes from the rows it has read. *)
(* Names, translated labels and sorting are left out.                      *)
(*                                                                         *)
(* The decisions that a query returned are a prefix of the append-only     *)
(* table, in the order of their creation.                                  *)
(***************************************************************************)
EXTENDS Posterior, Sequences

CONSTANTS Student, Skill,
          None              \* no row

Learner == Student \X Skill

Verdict == {"supported", "not_supported"}

\* _mastery_label: strong from 0.75, weak below 0.4.
MasteryLabel(state) ==
    IF state = None \/ LabelOf(state) = "insufficient_evidence" THEN "no_data"
    ELSE IF LabelOf(state) = "high_confidence" /\ 4 * state.alpha >= 3 * Total(state)
         THEN "strong"
    ELSE IF 5 * state.alpha < 2 * Total(state) THEN "weak"
    ELSE "steady"

\* Mutant: shadow decisions are shown as well.
LiveOrShadow(decisions, l) == {n \in DOMAIN decisions : decisions[n].learner = l}

Live(decisions, l) ==
    {n \in DOMAIN decisions : decisions[n].learner = l /\ ~decisions[n].shadow}

\* The position of the decision whose action a skill's card shows, or 0.
LatestDecision(decisions, l) == Max(Live(decisions, l) \cup {0})

-----------------------------------------------------------------------------
(* _summarize_student                                                      *)

\* Mutant: any difference makes a trend.
ImprovedAtAll(first, last) ==
    last.alpha * Total(first) # first.alpha * Total(last)

\* last_mastery - first_mastery >= 0.1
Improved(first, last) ==
    10 * (last.alpha * Total(first) - first.alpha * Total(last))
        >= Total(first) * Total(last)

Improving(decisions, l) ==
    LET live == Live(decisions, l) IN
    /\ Cardinality(live) > 1
    /\ Improved(decisions[Min(live)].mastery, decisions[Max(live)].mastery)

\* Mutant: only the latest decision counts.
EscalatedNow(decisions, l) ==
    \E n \in Live(decisions, l) : /\ n = Max(Live(decisions, l))
                                  /\ decisions[n].result = "escalated"

\* Any decision ever, not only the latest.
Escalated(decisions, l) ==
    \E n \in Live(decisions, l) : decisions[n].result = "escalated"

\* weak, forgetting: the learners that the other queries found.
NeedsAttention(student, weak, decisions, forgetting) ==
    \E k \in Skill : LET l == <<student, k>> IN
        l \in weak \/ l \in forgetting \/ Escalated(decisions, l)

=============================================================================
