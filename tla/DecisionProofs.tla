--------------------------- MODULE DecisionProofs ---------------------------
(***************************************************************************)
(* Proofs about DecisionPolicy and Decisions, for any grain of the         *)
(* probabilities, any posteriors and any number of requests.               *)
(***************************************************************************)
EXTENDS Decisions, TLAPS

-----------------------------------------------------------------------------
(* The policy.                                                             *)

Inputs == [Facet -> FacetInput]

LEMMA ActionSet ==
    Action = {"insufficient_evidence_action", "retrieval_question",
              "new_concept_explanation", "easier_task", "harder_task",
              "transfer_task", "review_task", "delayed_retention_assessment",
              "hint", "worked_example", "teacher_intervention", "defer_decision"}
BY DEF Action, Position

LEMMA InputTypes ==
    ASSUME NEW given \in Inputs, NEW f \in Facet
    PROVE  /\ given[f].p \in 1..(Grain - 1)
           /\ given[f].label \in Label
           /\ Weight[given[f].label] \in 0..2
           /\ Weight[given[f].label] = 0
                <=> given[f].label = "insufficient_evidence"
           /\ Weight[given[f].label] = 2 <=> given[f].label = "high_confidence"
BY DEF Inputs, FacetInput, Label, Weight

\* A product of natural numbers is one, and is monotonic.
LEMMA Products ==
    /\ \A m, n \in Nat : m * n \in Nat
    /\ \A k, m, n \in Nat : m <= n => k * m <= k * n
    /\ \A k, m, n \in Nat : k > 0 /\ m < n => k * m < k * n
BY Z3

LEMMA GrainSquared == Grain \in Nat /\ Grain > 0 /\ Grain * Grain \in Nat
                      /\ Grain * Grain > 0
BY GrainAssumption, Products, SMT

\* score_candidates, spelled out for the candidates that the theorems compare.
LEMMA ScoreFacts ==
    ASSUME NEW given \in Inputs
    PROVE  LET S == Scores(given)
               w == Weight[given["application"].label]
               t == 2 - Weight[given["transfer"].label]
               p == given["application"].p
               G == Grain * Grain IN
        /\ S["insufficient_evidence_action"] = G * (20 * (2 - w))
        /\ S["harder_task"] = 10 * Grain * ((w * t) * Positive(2 * p - Grain))
        /\ S["transfer_task"] = 10 * Grain * ((w * t) * p)
        /\ S["easier_task"] = 20 * Grain * (w * Positive(Grain - 2 * p))
        /\ S["hint"] = S["easier_task"] \div 2
        /\ S["worked_example"] = S["new_concept_explanation"] \div 2
        /\ S["delayed_retention_assessment"] =
              5 * ((w * (Weight[given["transfer"].label]
                         * (2 - Weight[given["retention"].label])))
                   * (p * given["transfer"].p))
        /\ S["defer_decision"] = 2 * Grain * Grain
        /\ S["teacher_intervention"] \in {Scale, 2 * Grain * Grain}
BY DEF Scores, EasierScore

LEMMA InputNats ==
    ASSUME NEW given \in Inputs, NEW f \in Facet
    PROVE  /\ given[f].p \in Nat /\ given[f].p > 0 /\ given[f].p < Grain
           /\ Weight[given[f].label] \in Nat
           /\ 2 - Weight[given[f].label] \in Nat
BY InputTypes, GrainSquared

LEMMA ScoresAreNats ==
    ASSUME NEW given \in Inputs, NEW a \in Action
    PROVE  Scores(given)[a] \in Nat
<1> DEFINE S == Scores(given)
           W(f) == Weight[given[f].label]
           P(f) == given[f].p
<1>1. \A f \in Facet : W(f) \in Nat /\ 2 - W(f) \in Nat
                       /\ P(f) \in Nat /\ Grain - P(f) \in Nat
  BY InputNats, GrainSquared
<1>2. Grain \in Nat /\ Grain * Grain \in Nat
  BY GrainSquared
<1>3. /\ "application" \in Facet /\ "recognition" \in Facet
      /\ "recall" \in Facet /\ "transfer" \in Facet /\ "retention" \in Facet
  BY DEF Facet
<1>4. \A n \in Int : Positive(n) \in Nat
  BY DEF Positive
<1>5. S["insufficient_evidence_action"] \in Nat
  <2>1. 20 * (2 - W("application")) \in Nat
    BY <1>1, <1>3
  <2>2. S["insufficient_evidence_action"] = Grain * Grain * (20 * (2 - W("application")))
    BY DEF Scores
  <2> QED
    BY <2>1, <2>2, <1>2, Products
<1>6. S["retrieval_question"] \in Nat
  <2>1. 17 * (2 - W("application")) + 3 * (2 - W("recognition")) \in Nat
    BY <1>1, <1>3
  <2>2. S["retrieval_question"] =
          Grain * Grain * (17 * (2 - W("application")) + 3 * (2 - W("recognition")))
    BY DEF Scores
  <2> QED
    BY <2>1, <2>2, <1>2, Products
<1>7. S["new_concept_explanation"] \in Nat
  <2> DEFINE x == W("recognition") * (Grain - P("recognition"))
             y == W("recall") * (Grain - P("recall"))
  <2>1. x \in Nat /\ y \in Nat
    BY <1>1, <1>3, Products
  <2>2. 4 * Grain \in Nat /\ 3 * x + 2 * y \in Nat
    BY <2>1, <1>2
  <2>3. S["new_concept_explanation"] = 4 * Grain * (3 * x + 2 * y)
    BY DEF Scores, NewConceptScore
  <2> QED
    BY <2>2, <2>3, Products
<1>8. S["easier_task"] \in Nat
  <2>1. Positive(Grain - 2 * P("application")) \in Nat /\ 20 * Grain \in Nat
    BY <1>1, <1>2, <1>3, <1>4
  <2> QED
    BY <2>1, <1>1, <1>3, ScoreFacts, Products
<1>9. S["harder_task"] \in Nat /\ S["transfer_task"] \in Nat
  <2>1. /\ Positive(2 * P("application") - Grain) \in Nat
        /\ W("application") * (2 - W("transfer")) \in Nat
        /\ 10 * Grain \in Nat
    BY <1>1, <1>2, <1>3, <1>4, Products
  <2> QED
    BY <2>1, <1>1, <1>3, ScoreFacts, Products
<1>10. S["review_task"] \in Nat
  <2>1. Grain - Distance(2 * P("application"), Grain) \in Nat
    BY InputNats, <1>2, <1>3 DEF Distance
  <2>2. /\ W("application") * (Grain - Distance(2 * P("application"), Grain)) \in Nat
        /\ 12 * Grain \in Nat /\ 8 * (2 - W("retention")) \in Nat
    BY <2>1, <1>1, <1>2, <1>3, Products
  <2> DEFINE x == 12 * Grain * (W("application")
                      * (Grain - Distance(2 * P("application"), Grain)))
             y == Grain * Grain * (8 * (2 - W("retention")))
  <2>3. x \in Nat /\ y \in Nat
    BY <2>2, <1>2, Products
  <2>4. S["review_task"] = x + y
    BY DEF Scores
  <2> QED
    BY <2>3, <2>4
<1>11. S["delayed_retention_assessment"] \in Nat
  <2> DEFINE x == W("transfer") * (2 - W("retention"))
             y == P("application") * P("transfer")
  <2>1. x \in Nat /\ y \in Nat
    BY <1>1, <1>3, Products
  <2>2. W("application") * x \in Nat
    BY <2>1, <1>1, <1>3, Products
  <2>3. (W("application") * x) * y \in Nat
    BY <2>1, <2>2, Products
  <2>4. S["delayed_retention_assessment"] = 5 * ((W("application") * x) * y)
    BY ScoreFacts
  <2> QED
    BY <2>3, <2>4
<1>12. /\ S["hint"] \in Nat /\ S["worked_example"] \in Nat
  BY <1>7, <1>8, ScoreFacts
<1>13. S["teacher_intervention"] \in Nat /\ S["defer_decision"] \in Nat
  BY GrainSquared, ScoreFacts DEF Scale
<1>14. QED
  BY <1>5, <1>6, <1>7, <1>8, <1>9, <1>10, <1>11, <1>12, <1>13, ActionSet

\* A selected candidate scores at least as much as any other.
LEMMA SelectedIsAhead ==
    ASSUME NEW given \in Inputs, NEW a \in Action, Selected(given, a),
           NEW b \in Action, a # b
    PROVE  /\ Scores(given)[a] >= Scores(given)[b]
           /\ Scores(given)[a] = Scores(given)[b] => Position[a] < Position[b]
BY ScoresAreNats DEF Selected, Ahead

LEMMA TeacherScores ==
    ASSUME NEW given \in Inputs
    PROVE  LET S == Scores(given) IN
           /\ S["teacher_intervention"] \in Nat /\ S["teacher_intervention"] > 0
           /\ S["defer_decision"] <= S["teacher_intervention"]
<1> DEFINE G == Grain * Grain
<1>1. G \in Nat /\ G > 0
  BY GrainSquared
<1>2. Scale = 40 * G /\ 2 * Grain * Grain = 2 * G
  BY GrainSquared, SMT DEF Scale
<1>3. QED
  BY <1>1, <1>2, ScoreFacts

\* A task gets harder only when it is sure, and then a transfer task scores more.
LEMMA HarderBehind ==
    ASSUME NEW given \in Inputs
    PROVE  ~Selected(given, "harder_task")
<1> DEFINE S == Scores(given)
           p == given["application"].p
           k == Weight[given["application"].label]
                * (2 - Weight[given["transfer"].label])
           m == Positive(2 * p - Grain)
<1>1. /\ p \in Nat /\ p < Grain
      /\ k \in Nat /\ m \in Nat /\ Grain \in Nat
  <2>1. p \in 1..(Grain - 1) /\ Grain \in Nat
    BY InputTypes, GrainSquared DEF Facet
  <2>2. /\ Weight[given["application"].label] \in 0..2
        /\ Weight[given["transfer"].label] \in 0..2
    BY InputTypes DEF Facet
  <2>3. /\ Weight[given["application"].label] \in Nat
        /\ 2 - Weight[given["transfer"].label] \in Nat
    BY <2>2
  <2>4. k \in Nat
    BY <2>3, Products
  <2> QED
    BY <2>1, <2>4 DEF Positive
<1>2. m = 0 \/ m < p
  BY <1>1 DEF Positive
<1>3. S["harder_task"] = 10 * Grain * (k * m)
      /\ S["transfer_task"] = 10 * Grain * (k * p)
  BY ScoreFacts
<1>4. k * m = 0 \/ k * m < k * p
  <2>1. CASE k = 0
    BY <2>1, <1>1
  <2>2. CASE m = 0
    BY <2>2, <1>1
  <2>3. CASE k > 0 /\ m < p
    BY <2>3, <1>1, Products
  <2> QED
    BY <2>1, <2>2, <2>3, <1>1, <1>2
<1>5. S["harder_task"] = 0 \/ S["harder_task"] < S["transfer_task"]
  <2> DEFINE x == k * m  y == k * p  g == 10 * Grain
  <2>1. x \in Nat /\ y \in Nat /\ g \in Nat /\ g > 0
    BY <1>1, Products, GrainSquared
  <2>2. x = 0 => g * x = 0
    BY <2>1
  <2>3. x < y => g * x < g * y
    BY <2>1, Products
  <2> QED
    BY <1>3, <1>4, <2>2, <2>3
<1>6. \A a \in Action : S[a] \in Nat
  BY ScoresAreNats
<1>7. QED
  <2> SUFFICES ASSUME Selected(given, "harder_task") PROVE FALSE
    OBVIOUS
  <2>1. S["harder_task"] >= S["transfer_task"]
    BY SelectedIsAhead, ActionSet
  <2>2. S["harder_task"] >= S["teacher_intervention"]
    BY SelectedIsAhead, ActionSet
  <2>3. S["harder_task"] = 0
    BY <2>1, <1>5, <1>6, ActionSet
  <2> QED
    BY <2>2, <2>3, TeacherScores

\* Half of a score is never ahead of that score when it is declared later.
LEMMA HalvesBehind ==
    ASSUME NEW given \in Inputs
    PROVE  /\ ~Selected(given, "hint")
           /\ ~Selected(given, "worked_example")
<1> DEFINE S == Scores(given)
<1>1. S["easier_task"] \in Nat /\ S["new_concept_explanation"] \in Nat
  BY ScoresAreNats, ActionSet
<1>2. /\ S["hint"] = S["easier_task"] \div 2
      /\ S["worked_example"] = S["new_concept_explanation"] \div 2
  BY ScoreFacts
<1>3. ~Selected(given, "hint")
  <2> SUFFICES ASSUME Selected(given, "hint") PROVE FALSE
    OBVIOUS
  <2>1. /\ S["hint"] >= S["easier_task"]
        /\ S["hint"] = S["easier_task"] => Position["hint"] < Position["easier_task"]
    BY SelectedIsAhead, ActionSet
  <2> QED
    BY <2>1, <1>1, <1>2 DEF Position
<1>4. ~Selected(given, "worked_example")
  <2> SUFFICES ASSUME Selected(given, "worked_example") PROVE FALSE
    OBVIOUS
  <2>1. /\ S["worked_example"] >= S["new_concept_explanation"]
        /\ S["worked_example"] = S["new_concept_explanation"] =>
              Position["worked_example"] < Position["new_concept_explanation"]
    BY SelectedIsAhead, ActionSet
  <2> QED
    BY <2>1, <1>1, <1>2 DEF Position
<1>5. QED
  BY <1>3, <1>4

LEMMA DeferBehind ==
    ASSUME NEW given \in Inputs
    PROVE  ~Selected(given, "defer_decision")
<1> SUFFICES ASSUME Selected(given, "defer_decision") PROVE FALSE
  OBVIOUS
<1>1. /\ Scores(given)["defer_decision"] >= Scores(given)["teacher_intervention"]
      /\ Scores(given)["defer_decision"] = Scores(given)["teacher_intervention"] =>
            Position["defer_decision"] < Position["teacher_intervention"]
  BY SelectedIsAhead, ActionSet
<1>2. Scores(given)["defer_decision"] \in Nat
  BY ScoresAreNats, ActionSet
<1>3. QED
  BY <1>1, <1>2, TeacherScores DEF Position

\* Without high confidence in the application facet, no personalised action
\* reaches the score of asking for more evidence.
LEMMA PersonalBehind ==
    ASSUME NEW given \in Inputs, NEW a \in Personalized, Selected(given, a)
    PROVE  given["application"].label = "high_confidence"
<1> DEFINE S == Scores(given)
           w == Weight[given["application"].label]
           t == 2 - Weight[given["transfer"].label]
           x == Weight[given["transfer"].label]
                * (2 - Weight[given["retention"].label])
           p == given["application"].p
           q == given["transfer"].p
           m == Positive(Grain - 2 * p)
           G == Grain * Grain
<1>1. /\ "application" \in Facet /\ "transfer" \in Facet /\ "retention" \in Facet
  BY DEF Facet
<1>2. /\ p \in Nat /\ q \in Nat /\ Grain \in Nat /\ Grain > 0
      /\ 0 < p /\ p < Grain /\ 0 < q /\ q < Grain
  BY <1>1, InputNats, GrainSquared
<1>3. w \in 0..2 /\ t \in 0..2 /\ (w = 2 <=> given["application"].label = "high_confidence")
  BY <1>1, InputTypes
<1>4. x \in 0..4
  <2>1. /\ Weight[given["transfer"].label] \in {0, 1, 2}
        /\ 2 - Weight[given["retention"].label] \in {0, 1, 2}
    BY <1>1, InputTypes
  <2> QED
    BY <2>1
<1>5. m \in Nat /\ m < Grain
  BY <1>2 DEF Positive
<1>6. G \in Nat /\ G > 0
  BY GrainSquared
<1>7. /\ S["insufficient_evidence_action"] = G * (20 * (2 - w))
      /\ S["easier_task"] = 20 * Grain * (w * m)
      /\ S["transfer_task"] = 10 * Grain * ((w * t) * p)
      /\ S["delayed_retention_assessment"] = 5 * ((w * x) * (p * q))
  BY ScoreFacts
<1>8. a \in {"easier_task", "transfer_task", "delayed_retention_assessment"}
  BY HarderBehind DEF Personalized
<1>9. S[a] >= S["insufficient_evidence_action"] /\ S[a] >= S["teacher_intervention"]
  BY <1>8, SelectedIsAhead, ActionSet
<1>10. ASSUME w = 0 PROVE FALSE
  <2> HIDE DEF w, t, x, p, q, m
  <2>1. w * m = 0 /\ w * t = 0 /\ w * x = 0 /\ p * q \in Nat
    BY <1>10, <1>2, <1>3, <1>4, <1>5, Products
  <2>2. (w * t) * p = 0 /\ (w * x) * (p * q) = 0
    BY <2>1, <1>2
  <2>3. S[a] = 0
    BY <2>1, <2>2, <1>7, <1>8, <1>2
  <2> QED
    BY <2>3, <1>9, TeacherScores
<1>11. ASSUME w = 1 PROVE FALSE
  <2>1. S["insufficient_evidence_action"] = 20 * G
    BY <1>11, <1>7, <1>6
  <2>2. S["easier_task"] < 20 * G
    <3>1. S["easier_task"] = 20 * Grain * m
      BY <1>11, <1>7, <1>5
    <3>2. Grain * m < Grain * Grain
      BY <1>2, <1>5, Products
    <3>3. 20 * Grain * m = 20 * (Grain * m) /\ Grain * m \in Nat
      BY <1>2, <1>5, Products
    <3> QED
      BY <3>1, <3>2, <3>3, <1>6
  <2>3. S["transfer_task"] < 20 * G
    <3> DEFINE y == t * p  z == Grain * p
    <3>1. S["transfer_task"] = 10 * Grain * y
      BY <1>11, <1>7, <1>3
    <3>2. y = 0 \/ y = p \/ y = 2 * p
      BY <1>2, <1>3
    <3>3. z < G /\ z \in Nat
      BY <1>2, Products
    <3>4. Grain * y = 0 \/ Grain * y = z \/ Grain * y = 2 * z
      BY <3>2, <1>2
    <3>5. 10 * Grain * y = 10 * (Grain * y)
      BY <3>2, <1>2
    <3> QED
      BY <3>1, <3>3, <3>4, <3>5, <1>6
  <2>4. S["delayed_retention_assessment"] < 20 * G
    <3> DEFINE y == p * q  z == x * y
    <3>1. S["delayed_retention_assessment"] = 5 * z
      BY <1>11, <1>7, <1>4
    <3>2. y < G /\ y \in Nat
      <4>1. p * q < p * Grain /\ p * q \in Nat
        BY <1>2, Products
      <4>2. p * Grain = Grain * p /\ Grain * p < Grain * Grain /\ Grain * p \in Nat
        BY <1>2, Products
      <4> QED
        BY <4>1, <4>2, <1>6
    <3>3. z \in {0, y, 2 * y, 3 * y, 4 * y}
      BY <3>2, <1>4
    <3> HIDE DEF z, y, G
    <3> QED
      BY <3>1, <3>2, <3>3, <1>6
  <2>5. S[a] \in Nat
    BY <1>8, ScoresAreNats, ActionSet
  <2> HIDE DEF S, G
  <2>6. S[a] < 20 * G
    BY <2>2, <2>3, <2>4, <1>8
  <2> QED
    BY <2>1, <2>5, <2>6, <1>6, <1>9
<1>12. QED
  BY <1>3, <1>10, <1>11

-----------------------------------------------------------------------------
(* The handler: types, and which rows a handler holds at which statement.  *)

Deciding == {"read_student", "read_consent", "read_evidence_ids", "insert_decision"}

\* What was computed is there to be saved, a row once seen is never deleted,
\* and the snapshot is filled row by row from rows that are all there.
Holds(r) ==
    /\ pc[r] \in {"read_states", "save_states"} =>
          \A f \in facets[r] : local[r].new[f] \in Row
    /\ pc[r] = "save_states" =>
          \A f \in Facet : local[r].seen[f] # None => states[f] # None
    /\ pc[r] \in {"idle", "read_evidence", "read_states", "save_states"} =>
          local[r].count = 0
    /\ pc[r] = "refresh" =>
          /\ states \in [Facet -> Row]
          /\ local[r].count \in 0..4
          /\ \A i \in 1..local[r].count : local[r].snapshot[FacetOrder[i]] \in Row
    /\ pc[r] \in Deciding => local[r].snapshot \in [Facet -> Row]

Control == \A r \in Request : Holds(r)

LEMMA InitControl == Init => TypeOK /\ Control
<1> SUFFICES ASSUME Init PROVE TypeOK /\ Control
  OBVIOUS
<1>1. NoLocal \in Local
  BY DEF NoLocal, Local, NoRows, Rows
<1>2. \A r \in Request : pc[r] = "idle" /\ local[r].count = 0
  BY DEF Init, NoLocal
<1>3. TypeOK
  BY <1>1 DEF Init, TypeOK, Rows, NoRows, Statement
<1>4. Control
  BY <1>2 DEF Control, Holds, Deciding
<1>5. QED
  BY <1>3, <1>4

LEMMA PosteriorRow ==
    ASSUME TypeOK, NEW f \in Facet PROVE Posterior(f) \in Row
<1>1. About(evidence, f) \in SUBSET Evidence
  BY DEF TypeOK, About
<1>2. Estimate[About(evidence, f)] \in FacetInput
  BY <1>1, EvidenceAssumption
<1>3. QED
  BY <1>1, <1>2 DEF Posterior, Row, FacetInput

LEMMA UpdatedRow ==
    ASSUME NEW row \in Row, NEW seen \in Row, NEW new \in Row
    PROVE  Updated(row, seen, new) \in Row
BY DEF Updated, Row

\* The rows after an upsert: typed, and none of them gone.
LEMMA SavedRows ==
    ASSUME TypeOK, NEW r \in Request, Holds(r), SaveStates(r)
    PROVE  /\ states' \in Rows
           /\ \A f \in Facet : states[f] # None => states'[f] # None
           /\ facets[r] = Facet /\ pc'[r] = "refresh" => states' \in [Facet -> Row]
<1> DEFINE seen == local[r].seen
           new == local[r].new
<1>1. /\ states \in Rows /\ seen \in Rows /\ facets[r] \subseteq Facet
      /\ \A f \in facets[r] : new[f] \in Row
      /\ \A f \in Facet : seen[f] # None => states[f] # None
      /\ pc \in [Request -> Statement]
  BY DEF TypeOK, Local, Holds, SaveStates
<1>2. CASE UNCHANGED states /\ pc' = [pc EXCEPT ![r] = "done"]
  BY <1>1, <1>2
<1>3. CASE states' = [f \in Facet |->
                IF f \notin facets[r] THEN states[f]
                ELSE IF seen[f] = None THEN new[f]
                ELSE Updated(states[f], seen[f], new[f])]
  <2>1. \A f \in facets[r] : states'[f] \in Row
    BY <1>1, <1>3, UpdatedRow DEF Rows
  <2>2. \A f \in Facet \ facets[r] : states'[f] = states[f]
    BY <1>3
  <2> QED
    BY <1>1, <1>3, <2>1, <2>2, NoneAssumption DEF Rows
<1>4. QED
  BY <1>2, <1>3 DEF SaveStates, Goto, shared

LEMMA FacetOrdered == /\ Len(FacetOrder) = 5
                      /\ \A i \in 1..5 : FacetOrder[i] \in Facet
                      /\ Facet = {FacetOrder[i] : i \in 1..5}
<1>1. \A i \in 1..5 : i = 1 \/ i = 2 \/ i = 3 \/ i = 4 \/ i = 5
  OBVIOUS
<1>2. QED
  BY <1>1 DEF FacetOrder, Facet

\* A handler holds on to its rows while others act.
LEMMA OthersHold ==
    ASSUME NEW r \in Request, Holds(r),
           pc'[r] = pc[r], local'[r] = local[r], facets'[r] = facets[r],
           facets[r] \subseteq Facet, states' \in Rows,
           \A f \in Facet : states[f] # None => states'[f] # None
    PROVE  Holds(r)'
<1>1. states \in [Facet -> Row] => states' \in [Facet -> Row]
  BY NoneAssumption DEF Rows
<1>2. QED
  BY <1>1 DEF Holds

LEMMA HandleStep ==
    ASSUME TypeOK, Control, NEW r \in Request, Handle(r)
    PROVE  TypeOK' /\ Control'
<1> USE DEF Goto, shared
<1>0. /\ Holds(r) /\ local[r] \in Local /\ facets[r] \in SUBSET Facet
      /\ pc \in [Request -> Statement] /\ states \in Rows
      /\ local \in [Request -> Local] /\ facets \in [Request -> SUBSET Facet]
  BY DEF TypeOK, Control
<1>1. CASE Start(r)
  <2>1. facets' \in [Request -> SUBSET Facet] /\ pc' \in [Request -> Statement]
    BY <1>0, <1>1 DEF Start, Statement
  <2>2. TypeOK'
    BY <1>1, <2>1 DEF Start, TypeOK
  <2>3. Holds(r)'
    BY <1>0, <1>1 DEF Start, Holds, Deciding
  <2>4. \A s \in Request \ {r} : Holds(s)'
    BY <1>0, <1>1, OthersHold DEF Start, Control
  <2> QED
    BY <2>2, <2>3, <2>4 DEF Control
<1>2. CASE ReadEvidence(r)
  <2> DEFINE new == [f \in Facet |-> IF f \in facets[r] THEN Posterior(f) ELSE None]
  <2>1. new \in Rows /\ \A f \in facets[r] : new[f] \in Row
    BY <1>0, PosteriorRow DEF Rows
  <2> HIDE DEF new
  <2>2. /\ local' = [local EXCEPT ![r].new = new] /\ pc[r] = "read_evidence"
        /\ pc' = [pc EXCEPT ![r] = "read_states"]
        /\ UNCHANGED <<evidence, states, minor, consent, decisions, facets>>
    BY <1>2 DEF ReadEvidence, new
  <2>3. local'[r] = [local[r] EXCEPT !.new = new]
    BY <1>0, <2>2
  <2>4. local' \in [Request -> Local]
    BY <1>0, <2>1, <2>2 DEF Local
  <2>5. TypeOK'
    BY <1>0, <2>2, <2>4 DEF TypeOK, Statement
  <2>6. Holds(r)'
    BY <1>0, <2>1, <2>2, <2>3 DEF Holds, Deciding, Local
  <2>7. \A s \in Request \ {r} : Holds(s)'
    BY <1>0, <2>2, OthersHold DEF Control
  <2> QED
    BY <2>5, <2>6, <2>7 DEF Control
<1>3. CASE ReadStates(r)
  <2>1. /\ local' = [local EXCEPT ![r].seen = states] /\ pc[r] = "read_states"
        /\ pc' = [pc EXCEPT ![r] = "save_states"]
        /\ UNCHANGED <<evidence, states, minor, consent, decisions, facets>>
    BY <1>3 DEF ReadStates
  <2>2. local'[r] = [local[r] EXCEPT !.seen = states]
    BY <1>0, <2>1
  <2>3. local' \in [Request -> Local]
    BY <1>0, <2>1 DEF Local
  <2>4. TypeOK'
    BY <1>0, <2>1, <2>3 DEF TypeOK, Statement
  <2>5. Holds(r)'
    BY <1>0, <2>1, <2>2 DEF Holds, Deciding, Local
  <2>6. \A s \in Request \ {r} : Holds(s)'
    BY <1>0, <2>1, OthersHold DEF Control
  <2> QED
    BY <2>4, <2>5, <2>6 DEF Control
<1>4. CASE SaveStates(r)
  <2>1. /\ states' \in Rows
        /\ \A f \in Facet : states[f] # None => states'[f] # None
        /\ facets[r] = Facet /\ pc'[r] = "refresh" => states' \in [Facet -> Row]
    BY <1>0, <1>4, SavedRows
  <2>2. /\ pc[r] = "save_states"
        /\ \/ pc' = [pc EXCEPT ![r] = "done"]
           \/ facets[r] = Facet /\ pc' = [pc EXCEPT ![r] = "refresh"]
        /\ UNCHANGED <<evidence, minor, consent, decisions, facets, local>>
    BY <1>4 DEF SaveStates
  <2>3. TypeOK'
    BY <1>0, <2>1, <2>2 DEF TypeOK, Statement
  <2>4. Holds(r)'
    BY <1>0, <2>1, <2>2 DEF Holds, Deciding
  <2>5. \A s \in Request \ {r} : Holds(s)'
    BY <1>0, <2>1, <2>2, OthersHold DEF Control
  <2> QED
    BY <2>3, <2>4, <2>5 DEF Control
<1>5. CASE Refresh(r)
  <2> DEFINE n == local[r].count + 1
             snapshot == [local[r].snapshot EXCEPT ![FacetOrder[n]] = states[FacetOrder[n]]]
  <2>1. /\ pc[r] = "refresh" /\ states \in [Facet -> Row] /\ n \in 1..5
        /\ \A i \in 1..(n - 1) : local[r].snapshot[FacetOrder[i]] \in Row
    BY <1>0, <1>5 DEF Refresh, Holds
  <2>2. FacetOrder[n] \in Facet
    BY <2>1, FacetOrdered
  <2>3. local[r].snapshot \in Rows
    BY <1>0 DEF Local
  <2>4. snapshot \in Rows /\ \A i \in 1..n : snapshot[FacetOrder[i]] \in Row
    <3>1. snapshot[FacetOrder[n]] \in Row
      BY <2>1, <2>2, <2>3 DEF Rows
    <3>2. ASSUME NEW i \in 1..(n - 1) PROVE snapshot[FacetOrder[i]] \in Row
      <4>1. FacetOrder[i] \in Facet
        BY <2>1, FacetOrdered
      <4> QED
        BY <2>1, <2>2, <2>3, <4>1 DEF Rows
    <3>3. snapshot \in Rows
      BY <2>1, <2>2, <2>3 DEF Rows
    <3>4. \A i \in 1..n : i = n \/ i \in 1..(n - 1)
      BY <2>1
    <3> QED
      BY <3>1, <3>2, <3>3, <3>4
  <2>5. local'[r] = [local[r] EXCEPT !.count = n, !.snapshot = snapshot]
    BY <1>0, <1>5 DEF Refresh, Local
  <2>6. /\ \A s \in Request \ {r} : local'[s] = local[s] /\ pc'[s] = pc[s]
        /\ UNCHANGED <<evidence, states, minor, consent, decisions, facets>>
        /\ pc' \in [Request -> Statement]
        /\ n < 5 => pc'[r] = "refresh"
        /\ n = 5 => pc'[r] \in {"read_student", "done"}
    BY <1>0, <1>5, <2>1, FacetOrdered DEF Refresh, Statement
  <2> HIDE DEF snapshot, n
  <2>7. local'[r] \in Local /\ local'[r].count = n /\ local'[r].snapshot = snapshot
    <3>1. n \in Nat /\ snapshot \in Rows /\ local[r] \in Local
      BY <1>0, <2>1, <2>4
    <3>2. [local[r] EXCEPT !.count = n] \in Local
      BY <3>1 DEF Local
    <3>3. local'[r] = [[local[r] EXCEPT !.count = n] EXCEPT !.snapshot = snapshot]
      BY <2>5
    <3> QED
      BY <3>1, <3>2, <3>3 DEF Local
  <2>8. local' \in [Request -> Local]
    <3> DEFINE one == [local EXCEPT ![r].count = local[r].count + 1]
    <3>1. one \in [Request -> Local]
      BY <1>0, <2>1 DEF Local, n
    <3>2. local' = [one EXCEPT ![r].snapshot[FacetOrder[n]] = states[FacetOrder[n]]]
      BY <1>5 DEF Refresh, n
    <3>3. DOMAIN local' = Request
      BY <3>1, <3>2
    <3>4. local' = [s \in DOMAIN local' |-> local'[s]]
      BY <3>2
    <3> QED
      BY <1>0, <2>6, <2>7, <3>3, <3>4
  <2>9. TypeOK'
    BY <1>0, <2>6, <2>8 DEF TypeOK
  <2>10. Holds(r)'
    <3>1. CASE n < 5
      BY <3>1, <2>1, <2>4, <2>6, <2>7 DEF Holds, Deciding
    <3>2. CASE n = 5
      <4>1. snapshot \in [Facet -> Row]
        BY <3>2, <2>4, FacetOrdered DEF Rows
      <4> QED
        BY <3>2, <4>1, <2>6, <2>7 DEF Holds, Deciding
    <3> QED
      BY <3>1, <3>2, <2>1
  <2>11. \A s \in Request \ {r} : Holds(s)'
    BY <1>0, <2>6, OthersHold DEF Control
  <2> QED
    BY <2>9, <2>10, <2>11 DEF Control
<1>6. CASE ReadStudent(r)
  <2>1. /\ local' = [local EXCEPT ![r].minor = minor] /\ pc[r] = "read_student"
        /\ \/ pc' = [pc EXCEPT ![r] = "read_consent"]
           \/ pc' = [pc EXCEPT ![r] = "read_evidence_ids"]
        /\ UNCHANGED <<evidence, states, minor, consent, decisions, facets>>
    BY <1>6 DEF ReadStudent
  <2>2. minor \in BOOLEAN
    BY DEF TypeOK
  <2>3. local'[r] = [local[r] EXCEPT !.minor = minor] /\ local' \in [Request -> Local]
    BY <1>0, <2>1, <2>2 DEF Local
  <2>4. TypeOK'
    BY <1>0, <2>1, <2>3 DEF TypeOK, Statement
  <2>5. Holds(r)'
    BY <1>0, <2>1, <2>3 DEF Holds, Deciding, Local
  <2>6. \A s \in Request \ {r} : Holds(s)'
    BY <1>0, <2>1, OthersHold DEF Control
  <2> QED
    BY <2>4, <2>5, <2>6 DEF Control
<1>7. CASE ReadConsent(r)
  <2>1. /\ local' = [local EXCEPT ![r].consent = consent] /\ pc[r] = "read_consent"
        /\ pc' = [pc EXCEPT ![r] = "read_evidence_ids"]
        /\ UNCHANGED <<evidence, states, minor, consent, decisions, facets>>
    BY <1>7 DEF ReadConsent
  <2>2. consent \in BOOLEAN
    BY DEF TypeOK
  <2>3. local'[r] = [local[r] EXCEPT !.consent = consent] /\ local' \in [Request -> Local]
    BY <1>0, <2>1, <2>2 DEF Local
  <2>4. TypeOK'
    BY <1>0, <2>1, <2>3 DEF TypeOK, Statement
  <2>5. Holds(r)'
    BY <1>0, <2>1, <2>3 DEF Holds, Deciding, Local
  <2>6. \A s \in Request \ {r} : Holds(s)'
    BY <1>0, <2>1, OthersHold DEF Control
  <2> QED
    BY <2>4, <2>5, <2>6 DEF Control
<1>8. CASE ReadEvidenceIds(r)
  <2>1. /\ local' = [local EXCEPT ![r].cited = evidence] /\ pc[r] = "read_evidence_ids"
        /\ pc' = [pc EXCEPT ![r] = "insert_decision"]
        /\ UNCHANGED <<evidence, states, minor, consent, decisions, facets>>
    BY <1>8 DEF ReadEvidenceIds
  <2>2. evidence \in SUBSET Evidence
    BY DEF TypeOK
  <2>3. local'[r] = [local[r] EXCEPT !.cited = evidence] /\ local' \in [Request -> Local]
    BY <1>0, <2>1, <2>2 DEF Local
  <2>4. TypeOK'
    BY <1>0, <2>1, <2>3 DEF TypeOK, Statement
  <2>5. Holds(r)'
    BY <1>0, <2>1, <2>3 DEF Holds, Deciding, Local
  <2>6. \A s \in Request \ {r} : Holds(s)'
    BY <1>0, <2>1, OthersHold DEF Control
  <2> QED
    BY <2>4, <2>5, <2>6 DEF Control
<1>9. CASE InsertDecision(r)
  <2>1. /\ pc[r] = "insert_decision" /\ pc' = [pc EXCEPT ![r] = "done"]
        /\ UNCHANGED <<evidence, states, minor, consent, facets, local>>
    BY <1>9 DEF InsertDecision
  <2>2. local[r].snapshot \in [Facet -> Row]
    BY <1>0, <2>1 DEF Holds, Deciding
  <2>3. decisions' \subseteq Decision
    <3>1. PICK a \in Action : decisions' = decisions \cup
              {[by |-> r, action |-> a, snapshot |-> local[r].snapshot,
                cited |-> local[r].cited,
                result |-> Authorize(a, local[r].snapshot["application"].label,
                                     local[r].minor, local[r].consent)]}
      BY <1>9 DEF InsertDecision
    <3>2. /\ local[r].cited \in SUBSET Evidence
          /\ \A label : Authorize(a, label, local[r].minor, local[r].consent) \in Authorization
      BY <1>0 DEF Local, Authorize, Authorization
    <3> QED
      BY <3>1, <3>2, <2>2 DEF Decision, TypeOK
  <2>4. TypeOK'
    BY <1>0, <2>1, <2>3 DEF TypeOK, Statement
  <2>5. Holds(r)'
    BY <1>0, <2>1 DEF Holds, Deciding
  <2>6. \A s \in Request \ {r} : Holds(s)'
    BY <1>0, <2>1, OthersHold DEF Control
  <2> QED
    BY <2>4, <2>5, <2>6 DEF Control
<1>10. QED
  BY <1>1, <1>2, <1>3, <1>4, <1>5, <1>6, <1>7, <1>8, <1>9 DEF Handle

LEMMA ControlStep ==
    ASSUME TypeOK, Control, [Next]_vars PROVE TypeOK' /\ Control'
<1>1. CASE \E r \in Request : Handle(r)
  BY <1>1, HandleStep
<1>2. ASSUME NEW e \in Evidence, Grade(e) PROVE TypeOK' /\ Control'
  BY <1>2 DEF Grade, TypeOK, Control, Holds
<1>3. CASE SetDateOfBirth
  BY <1>3 DEF SetDateOfBirth, TypeOK, Control, Holds
<1>4. CASE CreateParentLink
  BY <1>4 DEF CreateParentLink, TypeOK, Control, Holds
<1>5. CASE UNCHANGED vars
  BY <1>5 DEF vars, TypeOK, Control, Holds
<1>6. QED
  BY <1>1, <1>2, <1>3, <1>4, <1>5 DEF Next

\* Every row a handler holds, every answer and every decision is of its type,
\* in every interleaving of recomputations and rereads: the snapshot that is
\* given to the policy is complete.
THEOREM DecisionTypes == Spec => []TypeOK
<1>1. Init => TypeOK /\ Control
  BY InitControl
<1>2. TypeOK /\ Control /\ [Next]_vars => (TypeOK /\ Control)'
  BY ControlStep
<1>3. QED
  BY <1>1, <1>2, PTL DEF Spec

-----------------------------------------------------------------------------
(* What is decided.                                                        *)

LEMMA SnapshotInputs ==
    ASSUME NEW snapshot \in [Facet -> Row] PROVE InputsOf(snapshot) \in Inputs
<1>1. \A f \in Facet : Estimate[snapshot[f].basis] \in FacetInput
                       /\ snapshot[f].label \in Label
  BY EvidenceAssumption DEF Row
<1>2. QED
  BY <1>1 DEF InputsOf, Inputs, FacetInput

\* The decision that a step adds, if any.
LEMMA NewDecision ==
    ASSUME TypeOK, Control, [Next]_vars, NEW d \in decisions', d \notin decisions
    PROVE  \E r \in Request, a \in Action :
              /\ InsertDecision(r)
              /\ local[r].snapshot \in [Facet -> Row]
              /\ Selected(InputsOf(local[r].snapshot), a)
              /\ d = [by |-> r, action |-> a, snapshot |-> local[r].snapshot,
                      cited |-> local[r].cited,
                      result |-> Authorize(a, local[r].snapshot["application"].label,
                                           local[r].minor, local[r].consent)]
<1>1. PICK r \in Request : InsertDecision(r)
  BY DEF Next, vars, Handle, shared, Start, ReadEvidence, ReadStates, SaveStates,
         Refresh, ReadStudent, ReadConsent, ReadEvidenceIds, Grade,
         SetDateOfBirth, CreateParentLink
<1>2. local[r].snapshot \in [Facet -> Row]
  BY <1>1 DEF InsertDecision, Control, Holds, Deciding
<1>3. QED
  BY <1>1, <1>2 DEF InsertDecision

LEMMA DecidedStep ==
    ASSUME TypeOK, Control, DeadCandidates, PersonalizedOnHighConfidence, [Next]_vars
    PROVE  DeadCandidates' /\ PersonalizedOnHighConfidence'
<1> SUFFICES ASSUME NEW d \in decisions', d \notin decisions
             PROVE  /\ d.action \notin NeverSelected
                    /\ d.action \in Personalized =>
                          d.snapshot["application"].label = "high_confidence"
                    /\ d.result # "rejected"
  BY DEF DeadCandidates, PersonalizedOnHighConfidence
<1>1. PICK r \in Request, a \in Action :
              /\ local[r].snapshot \in [Facet -> Row]
              /\ Selected(InputsOf(local[r].snapshot), a)
              /\ d = [by |-> r, action |-> a, snapshot |-> local[r].snapshot,
                      cited |-> local[r].cited,
                      result |-> Authorize(a, local[r].snapshot["application"].label,
                                           local[r].minor, local[r].consent)]
  BY NewDecision
<1>2. InputsOf(local[r].snapshot) \in Inputs
  BY <1>1, SnapshotInputs
<1>3. a \notin NeverSelected
  BY <1>1, <1>2, HarderBehind, HalvesBehind, DeferBehind DEF NeverSelected
<1>4. a \in Personalized => local[r].snapshot["application"].label = "high_confidence"
  <2>1. a \in Personalized =>
          InputsOf(local[r].snapshot)["application"].label = "high_confidence"
    BY <1>1, <1>2, PersonalBehind
  <2> QED
    BY <2>1 DEF InputsOf, Facet
<1>5. Authorize(a, local[r].snapshot["application"].label,
                local[r].minor, local[r].consent) # "rejected"
  BY <1>4 DEF Authorize
<1>6. QED
  BY <1>1, <1>3, <1>4, <1>5

\* harder_task, hint, worked_example and defer_decision are never selected, for
\* any grain of the probabilities and any posteriors.
THEOREM DeadForever == Spec => []DeadCandidates
<1>1. Init => TypeOK /\ Control /\ DeadCandidates /\ PersonalizedOnHighConfidence
  BY InitControl DEF Init, DeadCandidates, PersonalizedOnHighConfidence
<1>2. TypeOK /\ Control /\ DeadCandidates /\ PersonalizedOnHighConfidence /\ [Next]_vars
      => (TypeOK /\ Control /\ DeadCandidates /\ PersonalizedOnHighConfidence)'
  BY ControlStep, DecidedStep
<1>3. QED
  BY <1>1, <1>2, PTL DEF Spec

\* A personalised action is selected only on high confidence in the
\* application facet, whatever rows the handler reread: authorize never rejects.
THEOREM NeverRejected == Spec => []PersonalizedOnHighConfidence
<1>1. Init => TypeOK /\ Control /\ DeadCandidates /\ PersonalizedOnHighConfidence
  BY InitControl DEF Init, DeadCandidates, PersonalizedOnHighConfidence
<1>2. TypeOK /\ Control /\ DeadCandidates /\ PersonalizedOnHighConfidence /\ [Next]_vars
      => (TypeOK /\ Control /\ DeadCandidates /\ PersonalizedOnHighConfidence)'
  BY ControlStep, DecidedStep
<1>3. QED
  BY <1>1, <1>2, PTL DEF Spec

-----------------------------------------------------------------------------
(* Minors and consent.                                                     *)

\* A handler that found a consent read one that still stands; a decision's
\* handler has answered, so that what it found does not change any more.
ConsentStands ==
    /\ \A r \in Request : local[r].consent => consent
    /\ \A d \in decisions : pc[d.by] = "done"
    /\ MinorsNeedConsent

LEMMA ConsentStep ==
    ASSUME TypeOK, Control, ConsentStands, [Next]_vars PROVE ConsentStands'
<1> USE DEF Goto, shared
<1>0. /\ pc \in [Request -> Statement] /\ local \in [Request -> Local]
      /\ decisions \subseteq Decision
  BY DEF TypeOK
<1>1. ASSUME NEW r \in Request, Handle(r), ~InsertDecision(r) PROVE ConsentStands'
  <2>1. /\ consent' = consent /\ decisions' = decisions /\ pc[r] # "done"
        /\ \A s \in Request \ {r} : local'[s] = local[s] /\ pc'[s] = pc[s]
    BY <1>0, <1>1 DEF Handle, Start, ReadEvidence, ReadStates, SaveStates, Refresh,
          ReadStudent, ReadConsent, ReadEvidenceIds
  <2>2. local'[r].consent \in {local[r].consent, consent}
    BY <1>0, <1>1 DEF Handle, Start, ReadEvidence, ReadStates, SaveStates, Refresh,
          ReadStudent, ReadConsent, ReadEvidenceIds, Local
  <2>3. \A d \in decisions : d.by \in Request \ {r}
    BY <1>0, <2>1 DEF ConsentStands, Decision
  <2> QED
    BY <2>1, <2>2, <2>3 DEF ConsentStands, MinorsNeedConsent
<1>2. ASSUME NEW r \in Request, InsertDecision(r) PROVE ConsentStands'
  <2>1. /\ UNCHANGED <<consent, local>> /\ pc' = [pc EXCEPT ![r] = "done"]
    BY <1>2 DEF InsertDecision
  <2>2. \A d \in decisions' : d \in decisions \/
            /\ d.by = r
            /\ d.result = "allowed" => ~local[r].minor \/ local[r].consent
    BY <1>2 DEF InsertDecision, Authorize
  <2>3. \A d \in decisions' : pc'[d.by] = "done"
    BY <1>0, <2>1, <2>2 DEF ConsentStands, Decision
  <2>4. MinorsNeedConsent'
    BY <2>1, <2>2 DEF ConsentStands, MinorsNeedConsent
  <2> QED
    BY <2>1, <2>3, <2>4 DEF ConsentStands
<1>3. ASSUME NEW e \in Evidence, Grade(e) PROVE ConsentStands'
  BY <1>3 DEF Grade, ConsentStands, MinorsNeedConsent
<1>4. CASE SetDateOfBirth
  BY <1>4 DEF SetDateOfBirth, ConsentStands, MinorsNeedConsent
<1>5. CASE CreateParentLink
  BY <1>5 DEF CreateParentLink, ConsentStands, MinorsNeedConsent
<1>6. CASE UNCHANGED vars
  BY <1>6 DEF vars, ConsentStands, MinorsNeedConsent
<1>7. QED
  BY <1>1, <1>2, <1>3, <1>4, <1>5, <1>6 DEF Next

\* What a student the handler found to be a minor may do alone is covered by a
\* consent, however the date of birth and the links change in the meantime.
THEOREM ConsentForMinors == Spec => []MinorsNeedConsent
<1>1. Init => TypeOK /\ Control /\ ConsentStands
  <2>1. Init => \A r \in Request : ~local[r].consent
    BY DEF Init, NoLocal
  <2> QED
    BY <2>1, InitControl DEF Init, ConsentStands, MinorsNeedConsent
<1>2. TypeOK /\ Control /\ ConsentStands /\ [Next]_vars
      => (TypeOK /\ Control /\ ConsentStands)'
  BY ControlStep, ConsentStep
<1>3. ConsentStands => MinorsNeedConsent
  BY DEF ConsentStands
<1>4. QED
  BY <1>1, <1>2, <1>3, PTL DEF Spec

-----------------------------------------------------------------------------
(* What a decision cites.                                                  *)

Within(rows, some) == \A f \in Facet : rows[f] # None => rows[f].basis \subseteq some

\* No row, committed or in a handler's hands, rests on evidence that is not
\* committed; what is cited was queried after the last row was reread.
BasesCommitted ==
    /\ Within(states, evidence)
    /\ \A r \in Request :
          /\ Within(local[r].new, evidence)
          /\ Within(local[r].snapshot, evidence)
          /\ pc[r] = "insert_decision" => Within(local[r].snapshot, local[r].cited)
    /\ EvidenceCited

LEMMA WithinMore ==
    ASSUME NEW rows, NEW some, NEW more, Within(rows, some), some \subseteq more
    PROVE  Within(rows, more)
BY DEF Within

LEMMA SavedWithin ==
    ASSUME TypeOK, Control, BasesCommitted, NEW r \in Request, SaveStates(r)
    PROVE  Within(states, evidence)'
<1> DEFINE seen == local[r].seen
           new == local[r].new
<1>1. /\ evidence' = evidence /\ pc[r] = "save_states"
      /\ \/ states' = states
         \/ states' = [f \in Facet |->
                IF f \notin facets[r] THEN states[f]
                ELSE IF seen[f] = None THEN new[f]
                ELSE Updated(states[f], seen[f], new[f])]
  BY DEF SaveStates, shared
<1>2. /\ Within(states, evidence) /\ Within(new, evidence)
      /\ \A f \in facets[r] : new[f] \in Row
      /\ \A f \in Facet : seen[f] # None => states[f] \in Row
  BY <1>1 DEF BasesCommitted, Control, Holds, TypeOK, Rows
<1>3. \A f \in facets[r] : new[f] # None
  BY <1>2, NoneAssumption
<1>4. ASSUME NEW f \in Facet, f \in facets[r], seen[f] # None
      PROVE  Updated(states[f], seen[f], new[f]).basis \subseteq evidence
  <2>1. states[f] \in Row /\ states[f] # None
    BY <1>2, <1>4, NoneAssumption
  <2>2. Updated(states[f], seen[f], new[f]).basis \in {states[f].basis, new[f].basis}
    BY <2>1 DEF Updated, Row
  <2>3. states[f].basis \subseteq evidence /\ new[f].basis \subseteq evidence
    BY <1>2, <1>3, <1>4, <2>1 DEF Within
  <2> QED
    BY <2>2, <2>3
<1>5. QED
  BY <1>1, <1>2, <1>3, <1>4 DEF Within

LEMMA HandleCited ==
    ASSUME TypeOK, Control, BasesCommitted, NEW r \in Request, Handle(r)
    PROVE  BasesCommitted'
<1> USE DEF Goto, shared
<1>0. /\ pc \in [Request -> Statement] /\ local \in [Request -> Local]
      /\ local[r] \in Local /\ Holds(r) /\ Within(states, evidence)
      /\ Within(local[r].new, evidence) /\ Within(local[r].snapshot, evidence)
  BY DEF TypeOK, Control, BasesCommitted
<1>1. /\ evidence' = evidence
      /\ \A s \in Request \ {r} : local'[s] = local[s] /\ pc'[s] = pc[s]
  BY <1>0 DEF Handle, Start, ReadEvidence, ReadStates, SaveStates, Refresh,
        ReadStudent, ReadConsent, ReadEvidenceIds, InsertDecision
<1>2. CASE ReadEvidence(r)
  <2> DEFINE new == [f \in Facet |-> IF f \in facets[r] THEN Posterior(f) ELSE None]
  <2>1. Within(new, evidence)
    BY DEF Within, Posterior, About
  <2> HIDE DEF new
  <2>2. local' = [local EXCEPT ![r].new = new] /\ pc'[r] = "read_states"
        /\ UNCHANGED <<states, decisions>>
    BY <1>0, <1>2 DEF ReadEvidence, new
  <2>3. local'[r].new = new /\ local'[r].snapshot = local[r].snapshot
    BY <1>0, <2>2 DEF Local
  <2> QED
    BY <1>0, <1>1, <2>1, <2>2, <2>3 DEF BasesCommitted, EvidenceCited, Within
<1>3. CASE SaveStates(r)
  <2>1. Within(states, evidence)'
    BY <1>3, SavedWithin
  <2>2. UNCHANGED <<local, decisions>> /\ pc'[r] # "insert_decision"
    BY <1>0, <1>3 DEF SaveStates
  <2> QED
    BY <1>1, <2>1, <2>2 DEF BasesCommitted, EvidenceCited, Within
<1>4. CASE Refresh(r)
  <2> DEFINE n == local[r].count + 1
             snapshot == [local[r].snapshot EXCEPT ![FacetOrder[n]] = states[FacetOrder[n]]]
  <2>1. Within(snapshot, evidence)
    BY <1>0 DEF Within, Local, Rows
  <2>2. /\ local'[r].snapshot = snapshot /\ local'[r].new = local[r].new
        /\ UNCHANGED <<states, decisions>>
    BY <1>0, <1>4 DEF Refresh, Local
  <2>3. pc'[r] # "insert_decision"
    BY <1>0, <1>4 DEF Refresh
  <2> HIDE DEF snapshot
  <2> QED
    BY <1>0, <1>1, <2>1, <2>2, <2>3 DEF BasesCommitted, EvidenceCited, Within
<1>5. CASE ReadEvidenceIds(r)
  <2>1. /\ local'[r].snapshot = local[r].snapshot /\ local'[r].new = local[r].new
        /\ local'[r].cited = evidence /\ UNCHANGED <<states, decisions>>
    BY <1>0, <1>5 DEF ReadEvidenceIds, Local
  <2> QED
    BY <1>0, <1>1, <2>1 DEF BasesCommitted, EvidenceCited, Within
<1>6. CASE InsertDecision(r)
  <2>1. UNCHANGED <<states, local>> /\ pc'[r] = "done" /\ pc[r] = "insert_decision"
    BY <1>0, <1>6 DEF InsertDecision
  <2>2. \A f \in Facet : local[r].snapshot[f].basis \subseteq local[r].cited
    <3>1. \A f \in Facet : local[r].snapshot[f] # None
      BY <1>0, <2>1, NoneAssumption DEF Holds, Deciding
    <3> QED
      BY <2>1, <3>1 DEF BasesCommitted, Within
  <2>3. \A d \in decisions' : d \in decisions \/
            (d.snapshot = local[r].snapshot /\ d.cited = local[r].cited)
    BY <1>6 DEF InsertDecision
  <2>4. EvidenceCited'
    BY <2>2, <2>3 DEF EvidenceCited, BasesCommitted
  <2> QED
    BY <1>0, <1>1, <2>1, <2>4 DEF BasesCommitted, Within
<1>7. CASE Start(r) \/ ReadStudent(r) \/ ReadConsent(r)
  <2>1. /\ UNCHANGED <<states, decisions>> /\ pc'[r] # "insert_decision"
        /\ local'[r].snapshot = local[r].snapshot /\ local'[r].new = local[r].new
    BY <1>0, <1>7 DEF Start, ReadStudent, ReadConsent, Local
  <2> QED
    BY <1>0, <1>1, <2>1 DEF BasesCommitted, EvidenceCited, Within
<1>8. CASE ReadStates(r)
  <2>1. /\ UNCHANGED <<states, decisions>> /\ pc'[r] # "insert_decision"
        /\ local'[r].snapshot = local[r].snapshot /\ local'[r].new = local[r].new
    BY <1>0, <1>8 DEF ReadStates, Local
  <2> QED
    BY <1>0, <1>1, <2>1 DEF BasesCommitted, EvidenceCited, Within
<1>9. QED
  BY <1>2, <1>3, <1>4, <1>5, <1>6, <1>7, <1>8 DEF Handle

LEMMA CitedStep ==
    ASSUME TypeOK, Control, BasesCommitted, [Next]_vars PROVE BasesCommitted'
<1>1. CASE \E r \in Request : Handle(r)
  BY <1>1, HandleCited
<1>2. ASSUME NEW e \in Evidence, Grade(e) PROVE BasesCommitted'
  <2>1. /\ evidence \subseteq evidence'
        /\ UNCHANGED <<states, decisions, pc, local>>
    BY <1>2 DEF Grade
  <2> QED
    BY <2>1, WithinMore DEF BasesCommitted, EvidenceCited, Within
<1>3. CASE SetDateOfBirth \/ CreateParentLink \/ UNCHANGED vars
  BY <1>3 DEF SetDateOfBirth, CreateParentLink, vars, BasesCommitted,
              EvidenceCited, Within
<1>4. QED
  BY <1>1, <1>2, <1>3 DEF Next

\* A decision cites all the evidence that its snapshot rests on, though the
\* rows are reread one by one and the evidence is queried after them.
THEOREM CitedWhole == Spec => []EvidenceCited
<1>1. Init => TypeOK /\ Control /\ BasesCommitted
  <2>1. Init => \A r \in Request : /\ local[r].new = NoRows
                                   /\ local[r].snapshot = NoRows
                                   /\ pc[r] = "idle"
    BY DEF Init, NoLocal
  <2> QED
    BY <2>1, InitControl DEF Init, BasesCommitted, EvidenceCited, Within, NoRows
<1>2. TypeOK /\ Control /\ BasesCommitted /\ [Next]_vars
      => (TypeOK /\ Control /\ BasesCommitted)'
  BY ControlStep, CitedStep
<1>3. BasesCommitted => EvidenceCited
  BY DEF BasesCommitted
<1>4. QED
  BY <1>1, <1>2, <1>3, PTL DEF Spec

=============================================================================
