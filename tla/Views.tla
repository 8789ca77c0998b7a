------------------------------- MODULE Views --------------------------------
(***************************************************************************)
(* The pages that people look at: the dashboards of routes/dashboard.py    *)
(* and the task behind a decision, GET /decisions/{id}/task.  Each is put  *)
(* together from several queries, between which the handlers of the        *)
(* learning loop and of the decision engine commit.  The tables are        *)
(* changed here by the commits of those handlers, whose inner steps        *)
(* LearningLoop and Decisions model; what a handler has read before its    *)
(* commit may be out of date by then.                                      *)
(*                                                                         *)
(* Pages write nothing, so one page at a time is enough to consider.  No   *)
(* user, link, skill or plan changes, and all graded attempts are on the   *)
(* application facet.                                                      *)
(***************************************************************************)
EXTENDS Dashboards, DecisionPolicy, TaskChoice

CONSTANTS
    TakenBy,          \* the learner whose attempts a series is
    Asked,            \* the questions of these attempts
    Linked,           \* the students linked to the teacher
    CheckpointDays,   \* {14, 28} in the code
    Mode,             \* which decisions are of unconsented minors, or shadows
    OldQuestions,     \* the questions that were created before everything else
    MaxDecisions,     \* the bound on the decisions table
    MaxRaces          \* the bound on the commits while a page is put together

ASSUME ViewAssumption ==
    /\ TakenBy \in [Series -> Learner]
    /\ Asked \in [Series -> SUBSET Question]
    /\ Linked \subseteq Student
    /\ Mode \subseteq [minor: BOOLEAN, shadow: BOOLEAN]
    /\ OldQuestions \in Seq(Question)
    /\ MaxDecisions \in Nat /\ MaxRaces \in Nat
    /\ None \notin KnowledgeState

\* The tables are finite.
ASSUME FiniteAssumption ==
    IsFiniteSet(Student) /\ IsFiniteSet(Skill) /\ IsFiniteSet(CheckpointDays)

EvidenceRow == [series: Series, at: 0..Horizon]

DecisionRow == [learner: Learner, at: 0..Horizon, mastery: KnowledgeState,
                action: Action, result: Authorization, shadow: BOOLEAN]

\* A checkpoint and its hypothesis; "undecided" is completed with a pending
\* verdict, which LearningLoop shows can happen.
Checkpoint == Learner \X CheckpointDays
Progress == {"none", "pending", "undecided"} \cup Verdict

VARIABLES
    now,           \* the time, in half-lives
    evidence, states, decisions, checkpoints,    \* committed rows
    questions,     \* the questions, in the order of their creation
    due,           \* learners whose grading has yet to insert checkpoints
    completing,    \* checkpoints that a handler found pending, to complete them
    page,          \* the page that is requested, and for whom
    pc,            \* the query that its handler runs next
    seen,          \* what the handler has read so far
    races,         \* history: how much was committed since
    began          \* history: how things stood when the page was requested

tables == <<now, evidence, states, decisions, checkpoints, questions, due,
            completing>>
view == <<page, pc, seen, began>>
vars == <<tables, view, races>>

\* decisions[s] and candidates are how much of a table a query returned.
Seen == [todo: SUBSET Student, weak: SUBSET Learner,
         decisions: [Student -> 0..MaxDecisions], forgetting: SUBSET Learner,
         pending: SUBSET Checkpoint, verdicts: [Checkpoint -> Progress],
         counted: 0..MaxDecisions, attempted: SUBSET Question, candidates: Nat]

Nothing == [todo |-> {}, weak |-> {}, decisions |-> [s \in Student |-> 0],
            forgetting |-> {}, pending |-> {},
            verdicts |-> [c \in Checkpoint |-> "none"],
            counted |-> 0, attempted |-> {}, candidates |-> 0]

Page == [kind: {"student", "teacher", "admin", "task"},
         student: Student \cup {None}, decision: 0..MaxDecisions]

Statement == {"idle", "read_states", "read_decisions", "read_checkpoints",
              "read_hypotheses", "count_checkpoints", "count_hypotheses",
              "count_decisions", "read_attempts",
              "read_questions", "answer"}

Init ==
    /\ now = 0 /\ evidence = {} /\ decisions = <<>> /\ due = {} /\ completing = {}
    /\ states = [l \in Learner |-> None]
    /\ checkpoints = [c \in Checkpoint |-> "none"]
    /\ questions = OldQuestions
    /\ page = None /\ pc = "idle" /\ seen = Nothing
    /\ races = 0 /\ began = None

-----------------------------------------------------------------------------
(* What the other handlers commit.                                         *)

Relevant(rows, l) == {e \in rows : TakenBy[e.series] = l}
Posterior(l, t) == Compute(Relevant(evidence, l), t)

\* What a handler computes that missed some of the evidence of these days, which
\* was committed after it had read the table.
Estimates(l) ==
    {Compute(Relevant(evidence \ missed, l), now) :
         missed \in SUBSET {e \in evidence : e.at = now}}

Scheduled(l) == \E d \in CheckpointDays : checkpoints[<<l, d>>] # "none"

\* Attempts are graded.  Only while the learner has no checkpoints does that
\* recompute the cached state, in the same commit.
Grade(s) ==
    LET l == TakenBy[s]
        e == [series |-> s, at |-> now] IN
    /\ \A row \in evidence : row.series # s
    /\ Asked[s] \subseteq ToSet(questions)
    /\ evidence' = evidence \cup {e}
    /\ IF Scheduled(l) THEN UNCHANGED <<states, due>>
       ELSE \E missed \in SUBSET {row \in evidence : row.at = now} :
            LET state == Compute(Relevant((evidence \ missed) \cup {e}, l), now) IN
              /\ states' = [states EXCEPT ![l] = state]
              /\ due' = IF LabelOf(state) = "high_confidence" THEN due \cup {l}
                        ELSE due
    /\ UNCHANGED <<now, decisions, checkpoints, questions, completing, view>>

\* The second commit of the grading, unless another one has been faster.
ScheduleCheckpoints(l) ==
    /\ l \in due
    /\ due' = due \ {l}
    /\ checkpoints' = [c \in Checkpoint |->
                         IF c[1] = l /\ ~Scheduled(l) THEN "pending" ELSE checkpoints[c]]
    /\ UNCHANGED <<now, evidence, states, decisions, questions, completing, view>>

\* A handler finds the checkpoint pending; it grades the attempt and recomputes
\* the state, with a commit for each, before it comes back to the checkpoint.
LoadCheckpoint(c) ==
    /\ checkpoints[c] = "pending" /\ c \notin completing
    /\ completing' = completing \cup {c}
    /\ UNCHANGED <<now, evidence, states, decisions, checkpoints, questions, due, view>>

\* Mutant: a prediction is judged by the confidence at its completion.
CompleteByCurrentState(c) ==
    /\ c \in completing
    /\ \E how \in Verdict :
         checkpoints' = [checkpoints EXCEPT ![c] =
             IF LabelOf(states[c[1]]) = "high_confidence" THEN how ELSE "inconclusive"]
    /\ UNCHANGED <<now, evidence, states, decisions, questions, due, completing, view>>

\* The status is not looked at again: where several handlers have found the
\* checkpoint pending, each that decides a verdict replaces the one before.
CompleteCheckpoint(c) ==
    /\ c \in completing
    /\ \E how \in Verdict \cup {"undecided"} :
         checkpoints' = [checkpoints EXCEPT ![c] =
             IF how = "undecided" /\ @ \in Verdict THEN @ ELSE how]
    /\ completing' \in {completing, completing \ {c}}
    /\ UNCHANGED <<now, evidence, states, decisions, questions, due, view>>

\* The last of these handlers fails, or is cut short.
AbandonCheckpoint(c) ==
    /\ c \in completing
    /\ completing' = completing \ {c}
    /\ UNCHANGED <<now, evidence, states, decisions, checkpoints, questions, due, view>>

\* GET /knowledge-state, and the first commit of a decision or the second of a
\* completion, where it changes the probability at all.
Recompute(l) ==
    /\ \E state \in Estimates(l) \ {states[l]} : states' = [states EXCEPT ![l] = state]
    /\ UNCHANGED <<now, evidence, decisions, checkpoints, questions, due, completing,
                   view>>

\* The facets without evidence stay at the prior.
Inputs(state) ==
    [f \in Facet |->
        IF f = "application"
        THEN [p |-> (Grain * state.alpha) \div Total(state), label |-> LabelOf(state)]
        ELSE [p |-> Grain \div 2, label |-> "insufficient_evidence"]]

\* POST /decisions/next-action, after the commit and the refresh of the states;
\* others may have committed since then.  (That the refreshed row may join two
\* computations is left to Decisions.)  A minor here has no consent.
Decide(l) ==
    /\ Len(decisions) < MaxDecisions
    /\ states[l] \in Estimates(l)
    /\ \E state \in Estimates(l), a \in Action, mode \in Mode :
         /\ Selected(Inputs(state), a)
         /\ decisions' = Append(decisions,
              [learner |-> l, at |-> now, mastery |-> state, action |-> a,
               result |-> Authorize(a, LabelOf(state), mode.minor, FALSE),
               shadow |-> mode.shadow])
    /\ UNCHANGED <<now, evidence, states, checkpoints, questions, due, completing, view>>

CreateQuestion(q) ==
    /\ q \notin ToSet(questions)
    /\ questions' = Append(questions, q)
    /\ UNCHANGED <<now, evidence, states, decisions, checkpoints, due, completing, view>>

\* Sixty days pass, which no request takes.
Tick ==
    /\ pc = "idle" /\ due = {} /\ completing = {}
    /\ now < Horizon
    /\ now' = now + 1
    /\ UNCHANGED <<evidence, states, decisions, checkpoints, questions, due, completing,
                   view, races>>

Commit ==
    \/ \E s \in Series : Grade(s)
    \/ \E l \in Learner : ScheduleCheckpoints(l) \/ Recompute(l) \/ Decide(l)
    \/ \E c \in Checkpoint :
          LoadCheckpoint(c) \/ CompleteCheckpoint(c) \/ AbandonCheckpoint(c)
    \/ \E q \in Question : CreateQuestion(q)

OthersCommit ==
    /\ races < MaxRaces
    /\ Commit
    /\ races' = IF pc = "idle" THEN 0 ELSE races + 1

-----------------------------------------------------------------------------
(* The handlers of the pages: one query per step.                          *)

Open(p, first, todo) ==
    /\ pc = "idle"
    /\ page' = p /\ pc' = first
    /\ seen' = [Nothing EXCEPT !.todo = todo]
    /\ began' = [decisions |-> decisions, checkpoints |-> checkpoints,
                 completing |-> completing, questions |-> Len(questions)]
    /\ UNCHANGED <<tables, races>>

OpenStudent(s) ==
    Open([kind |-> "student", student |-> s, decision |-> 0], "read_states", {s})

\* A teacher without students is shown an empty page.
OpenTeacher ==
    Open([kind |-> "teacher", student |-> None, decision |-> 0],
         IF Linked = {} THEN "answer" ELSE "read_states", Linked)

OpenAdmin ==
    Open([kind |-> "admin", student |-> None, decision |-> 0],
         IF Student = {} THEN "count_checkpoints" ELSE "read_states", Student)

\* Of the decision that a dashboard has shown to its student.
OpenTask(n) ==
    Open([kind |-> "task", student |-> decisions[n].learner[1], decision |-> n],
         IF Executable(decisions[n]) THEN "read_attempts" ELSE "answer", {})

Read(query, next, found) ==
    /\ pc = query
    /\ pc' = next
    /\ seen' = found
    /\ UNCHANGED <<tables, page, races, began>>

\* The students of teachers and admins are summarised in no particular order:
\* "student" names the one at hand.
Turn(s) == IF page.kind = "student" THEN s = page.student ELSE s \in seen.todo

Weak(s) == {l \in Learner : l[1] = s /\ MasteryLabel(states[l]) = "weak"}

ReadStates ==
    \E s \in Student :
      /\ pc = "read_states" /\ Turn(s)
      /\ pc' = "read_decisions"
      /\ page' = [page EXCEPT !.student = s]
      /\ seen' = [seen EXCEPT !.weak = @ \cup Weak(s)]
      /\ UNCHANGED <<tables, races, began>>

ReadDecisions ==
    Read("read_decisions",
         IF page.kind = "student" THEN "read_checkpoints" ELSE "read_hypotheses",
         [seen EXCEPT !.decisions[page.student] = Len(decisions)])

Pending(s) == {c \in Checkpoint : c[1][1] = s /\ checkpoints[c] = "pending"}

ReadCheckpoints ==
    Read("read_checkpoints", "answer", [seen EXCEPT !.pending = Pending(page.student)])

Forgetting(s) ==
    {l \in Learner : l[1] = s /\ \E d \in CheckpointDays :
                                   checkpoints[<<l, d>>] = "not_supported"}

\* The last query on a student; then it is the turn of another.
ReadHypotheses ==
    LET todo == seen.todo \ {page.student} IN
    Read("read_hypotheses",
         IF todo # {} THEN "read_states"
         ELSE IF page.kind = "admin" THEN "count_checkpoints" ELSE "answer",
         [seen EXCEPT !.todo = todo, !.forgetting = @ \cup Forgetting(page.student)])

CountCheckpoints ==
    Read("count_checkpoints", "count_hypotheses",
         [seen EXCEPT !.pending = {c \in Checkpoint : checkpoints[c] = "pending"}])

\* Mutant: only the hypotheses of pending checkpoints are counted.
CountHypothesesPending ==
    Read("count_hypotheses", "count_decisions",
         [seen EXCEPT !.verdicts =
             [c \in Checkpoint |-> IF c \in seen.pending THEN checkpoints[c] ELSE "none"]])

\* verdict -> count: here, which hypotheses are counted under which verdict.
CountHypotheses ==
    Read("count_hypotheses", "count_decisions", [seen EXCEPT !.verdicts = checkpoints])

CountDecisions ==
    Read("count_decisions", "answer", [seen EXCEPT !.counted = Len(decisions)])

Attempts(l) == UNION {Asked[e.series] : e \in Relevant(evidence, l)}

ReadAttempts ==
    Read("read_attempts", "read_questions",
         [seen EXCEPT !.attempted = Attempts(decisions[page.decision].learner)])

ReadQuestions ==
    Read("read_questions", "answer", [seen EXCEPT !.candidates = Len(questions)])

Answer ==
    /\ pc = "answer"
    /\ pc' = "idle" /\ page' = None /\ seen' = Nothing
    /\ races' = 0 /\ began' = None
    /\ UNCHANGED tables

Query ==
    \/ ReadStates \/ ReadDecisions \/ ReadCheckpoints \/ ReadHypotheses
    \/ CountCheckpoints \/ CountHypotheses \/ CountDecisions
    \/ ReadAttempts \/ ReadQuestions \/ Answer

Next ==
    \/ OthersCommit
    \/ Query
    \/ \E s \in Student : OpenStudent(s)
    \/ OpenTeacher
    \/ OpenAdmin
    \/ \E n \in DOMAIN decisions : OpenTask(n)
    \/ Tick

Spec == Init /\ [][Next]_vars

-----------------------------------------------------------------------------
TypeOK ==
    /\ now \in 0..Horizon
    /\ evidence \subseteq EvidenceRow
    /\ states \in [Learner -> KnowledgeState \cup {None}]
    /\ decisions \in Seq(DecisionRow) /\ Len(decisions) <= MaxDecisions
    /\ checkpoints \in [Checkpoint -> Progress]
    /\ questions \in Seq(Question)
    /\ due \subseteq Learner /\ completing \subseteq Checkpoint
    /\ page \in Page \cup {None}
    /\ pc \in Statement
    /\ seen \in Seen
    /\ races \in 0..MaxRaces

Rank == [insufficient_evidence |-> 0, low_confidence |-> 1, high_confidence |-> 2]
Lead(state) == state.alpha - state.beta

\* Time alone teaches nothing: as evidence ages, recomputing a state never
\* raises its confidence, never moves its probability away from one half, and
\* never across it.
FadesTowardsDoubt ==
    [][now' # now => \A l \in Learner :
         LET old == Posterior(l, now)
             new == Posterior(l, now') IN
           /\ Rank[LabelOf(new)] <= Rank[LabelOf(old)]
           /\ Lead(new) * Lead(old) >= 0
           /\ Lead(new) * Lead(new) * Total(old) * Total(old)
                <= Lead(old) * Lead(old) * Total(new) * Total(new)]_vars

Answering(kind) == pc = "answer" /\ page.kind = kind

\* The decisions that the handler read of a student.
Shown(s) == SubSeq(decisions, 1, seen.decisions[s])

\* Completed when the page was requested, with nobody about to complete it again:
\* its verdict no longer changes.
Settled(c) ==
    began.checkpoints[c] \in Verdict \cup {"undecided"} /\ c \notin began.completing

\* A student once escalated to a teacher, or who once failed a prediction of
\* retention, keeps drawing attention, whatever is decided or learned later
\* and whatever is committed while the page is put together.  Only a second
\* completion of the same checkpoint, which had found it pending before it was
\* completed, can take a failed prediction back.
CausesStayVisible ==
    \A s \in Student :
        /\ Answering("admin") \/ (Answering("teacher") /\ s \in Linked)
        /\ \E k \in Skill :
             \/ \E n \in DOMAIN began.decisions :
                  LET decision == began.decisions[n] IN
                    /\ decision.learner = <<s, k>> /\ ~decision.shadow
                    /\ decision.result = "escalated"
             \/ \E d \in CheckpointDays : LET c == <<<<s, k>>, d>> IN
                  Settled(c) /\ began.checkpoints[c] = "not_supported"
        => NeedsAttention(s, seen.weak, Shown(s), seen.forgetting)

CountOf(students) == Cardinality(students)

\* The numbers on the admin page come from queries at different times, yet
\* agree: no more students are escalated or forgetting than decisions and
\* verdicts of that kind are counted, and each checkpoint there was is pending
\* or under its verdict, unless it was completed without one.  Where a student
\* is forgetting for whom no such verdict is counted, a second completion has
\* replaced the verdict by its opposite, and that one is counted.
AdminCountsAgree ==
    Answering("admin") =>
        LET all == SubSeq(decisions, 1, seen.counted) IN
        /\ CountOf({s \in Student : \E k \in Skill : Escalated(Shown(s), <<s, k>>)})
             <= CountOf({n \in DOMAIN all : all[n].result = "escalated" /\ ~all[n].shadow})
        /\ CountOf({s \in Student : \E k \in Skill : <<s, k>> \in seen.forgetting})
             <= CountOf({c \in Checkpoint :
                           \/ seen.verdicts[c] = "not_supported"
                           \/ seen.verdicts[c] = "supported" /\ ~Settled(c)})
        /\ \A c \in Checkpoint :
             \/ began.checkpoints[c] \in {"none", "undecided"}
             \/ began.checkpoints[c] = "pending" /\ c \in seen.pending
             \/ began.checkpoints[c] = "pending" /\ seen.verdicts[c] = "undecided"
             \/ seen.verdicts[c] \in Verdict

\* The page of a student shows no shadow decision, no action that had been
\* superseded and no checkpoint that had been completed before the page was
\* asked for; nor does it miss one that was pending all the while.
PageIsCurrent ==
    Answering("student") =>
        /\ \A k \in Skill : LET l == <<page.student, k>>
                             shown == LatestDecision(Shown(l[1]), l) IN
             /\ shown # 0 => ~decisions[shown].shadow
             /\ \A n \in DOMAIN began.decisions :
                  began.decisions[n].learner = l /\ ~began.decisions[n].shadow
                  => n <= shown
        /\ \A c \in seen.pending : began.checkpoints[c] \in {"none", "pending"}
        /\ \A c \in Pending(page.student) :
             began.checkpoints[c] = "pending" => c \in seen.pending

\* The page is the task of a decision that may be carried out.
TaskGiven == Answering("task") /\ Executable(decisions[page.decision])

\* What the task may be.
Offered ==
    TaskChoices(decisions[page.decision].action,
                SubSeq(questions, 1, seen.candidates), seen.attempted)

\* The questions there were when the task was asked for, of its facet.
Known ==
    Candidates(decisions[page.decision].action, SubSeq(questions, 1, began.questions))

\* A task other than a review repeats a question only once every question of
\* the facet has been attempted; a question that is created, or an answer
\* that is graded, between the two queries does not change that.
NoNeedlessRepeat ==
    /\ TaskGiven
    /\ decisions[page.decision].action # "review_task"
    /\ Offered \cap seen.attempted # {}
    => Known \subseteq Attempts(decisions[page.decision].learner)

\* Whoever is to continue with something easier is offered nothing harder than
\* a question there was that is still unattempted when the task is answered.
EasiestFirst ==
    /\ TaskGiven
    /\ decisions[page.decision].action = "easier_task"
    => \A q \in Offered \ seen.attempted,
          other \in Known \ Attempts(decisions[page.decision].learner) :
            Difficulty[q] <= Difficulty[other]

\* A skill that a page calls improving has been answered correctly in the time
\* from its first to its latest decision.  Otherwise it was and still is
\* estimated below one half, from where time alone raises the estimate, or both
\* decisions were made at a time when a wrong answer was graded, which the
\* latest had not seen yet.
ImprovementExplained ==
    pc = "answer" =>
      \A l \in Learner : Improving(Shown(l[1]), l) =>
        LET live == Live(Shown(l[1]), l)
            first == decisions[Min(live)]
            last == decisions[Max(live)] IN
          \/ \E e \in Relevant(evidence, l) :
               Right[e.series] > 0 /\ e.at \in first.at..last.at
          \/ first.at < last.at /\ Lead(first.mastery) < 0 /\ Lead(last.mastery) < 0
          \/ /\ first.at = last.at
             /\ \E e \in Relevant(evidence, l) :
                  Wrong[e.series] > 0 /\ e.at = last.at

=============================================================================
