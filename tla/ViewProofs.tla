----------------------------- MODULE ViewProofs -----------------------------
(***************************************************************************)
(* Proofs about Views, for any students, skills, checkpoints and decisions *)
(* and any number of commits while a page is put together.                 *)
(***************************************************************************)
EXTENDS Views, SumProofs

Final == Verdict \cup {"undecided"}

\* What time does to the decisions, and to the checkpoints.
Longer(old, new) ==
    Len(old) <= Len(new) /\ \A n \in 1..Len(old) : new[n] = old[n]

\* A verdict may be replaced by another while somebody is completing the
\* checkpoint; nobody begins to once it has been completed.
Further(old, busy, new, later) ==
    \A c \in Checkpoint :
        /\ old[c] # "none" => new[c] # "none"
        /\ old[c] \in Final => new[c] \in Final
        /\ old[c] \in Verdict => new[c] \in Verdict
        /\ old[c] \in Final /\ c \notin busy => new[c] = old[c] /\ c \notin later

CheckpointsFurther == Further(checkpoints, completing, checkpoints', completing')

IsTable(rows) == \E S : rows \in Seq(S)

TablesFit == IsTable(decisions) /\ checkpoints \in [Checkpoint -> Progress]

-----------------------------------------------------------------------------
(* The invariant *)

Serving == pc # "idle"

PageRecord == page = [kind |-> page.kind, student |-> page.student,
                      decision |-> page.decision]

SeenRecord ==
    /\ seen = [todo |-> seen.todo, weak |-> seen.weak, decisions |-> seen.decisions,
               forgetting |-> seen.forgetting, pending |-> seen.pending,
               verdicts |-> seen.verdicts, counted |-> seen.counted,
               attempted |-> seen.attempted, candidates |-> seen.candidates]
    /\ seen.todo \subseteq Student
    /\ seen.decisions \in [Student -> Nat]

\* Has failed a prediction, or had when its verdict was read and may still be
\* given another.
Failed(c) == /\ checkpoints[c] \in Verdict
             /\ Settled(c) => began.checkpoints[c] = "not_supported"

\* The tables have only grown since the page was requested, and since they
\* were read.
Since ==
    /\ IsTable(began.decisions) /\ began.checkpoints \in [Checkpoint -> Progress]
    /\ Longer(began.decisions, decisions)
    /\ Further(began.checkpoints, began.completing, checkpoints, completing)
    /\ \A s \in Student : seen.decisions[s] <= Len(decisions)
    /\ \A l \in seen.forgetting : l \in Learner /\ \E d \in CheckpointDays : Failed(<<l, d>>)

Scope == IF page.kind = "admin" THEN Student ELSE Linked

\* A student's summary has all that there was when the page was requested.
Summarised(s) ==
    /\ Len(began.decisions) <= seen.decisions[s]
    /\ \A k \in Skill, d \in CheckpointDays : LET c == <<<<s, k>>, d>> IN
         Settled(c) /\ began.checkpoints[c] = "not_supported" => <<s, k>> \in seen.forgetting

Counting == {"count_checkpoints", "count_hypotheses", "count_decisions"}

\* The pages of teachers and admins go through their students one by one.
Summaries ==
    page.kind \in {"teacher", "admin"} =>
        /\ pc \in {"read_states", "read_decisions", "read_hypotheses", "answer"} \cup Counting
        /\ \A s \in Scope \ seen.todo : Summarised(s)
        /\ pc \in {"read_decisions", "read_hypotheses"} => page.student \in seen.todo
        /\ pc = "read_hypotheses" =>
             Len(began.decisions) <= seen.decisions[page.student]
        /\ pc \in Counting \cup {"answer"} => seen.todo = {}
        /\ pc \in Counting => page.kind = "admin"

\* A checkpoint there was is counted as pending, or under its verdict.
Counted(c) ==
    \/ began.checkpoints[c] \in {"none", "undecided"}
    \/ began.checkpoints[c] = "pending" /\ c \in seen.pending
    \/ began.checkpoints[c] = "pending" /\ seen.verdicts[c] = "undecided"
    \/ seen.verdicts[c] \in Verdict

CountedFailed(c) == \/ seen.verdicts[c] = "not_supported"
                    \/ seen.verdicts[c] = "supported" /\ ~Settled(c)

\* Then the numbers of the admin's page are counted.
Counts ==
    page.kind = "admin" =>
        /\ pc = "count_hypotheses" =>
             \A c \in Checkpoint : began.checkpoints[c] # "none" =>
                 c \in seen.pending \/ checkpoints[c] \in Final
        /\ pc \in {"count_decisions", "answer"} =>
             /\ \A c \in Checkpoint : Counted(c)
             /\ \A l \in seen.forgetting :
                  l \in Learner /\ \E d \in CheckpointDays : CountedFailed(<<l, d>>)
        /\ pc = "answer" =>
             /\ seen.counted \in 0..Len(decisions)
             /\ \A s \in Student : seen.decisions[s] <= seen.counted

\* The page of a student is for one student.
OwnPage ==
    page.kind = "student" =>
        /\ page.student \in Student
        /\ pc \in {"read_states", "read_decisions", "read_checkpoints", "answer"}
        /\ pc \in {"read_checkpoints", "answer"} =>
             Len(began.decisions) <= seen.decisions[page.student]
        /\ pc = "answer" =>
             /\ \A c \in seen.pending :
                  c \in Checkpoint /\ began.checkpoints[c] \notin Final
             /\ \A c \in Checkpoint :
                  c[1][1] = page.student /\ began.checkpoints[c] = "pending" =>
                    c \in seen.pending \/ checkpoints[c] \in Final

PageFits == PageRecord /\ SeenRecord /\ Since /\ Summaries /\ Counts /\ OwnPage

ViewInv == TablesFit /\ pc \in Statement /\ (Serving => PageFits)

LEMMA InitView == Init => ViewInv
<1>1. <<>> \in Seq({})
  OBVIOUS
<1> QED
  BY <1>1 DEF Init, ViewInv, TablesFit, IsTable, Progress, Statement, Serving

-----------------------------------------------------------------------------
(* Commits *)

LEMMA TableLength == ASSUME NEW rows, IsTable(rows) PROVE Len(rows) \in Nat
BY DEF IsTable

LEMMA Appended ==
    ASSUME NEW rows, IsTable(rows), NEW row
    PROVE  IsTable(Append(rows, row)) /\ Longer(rows, Append(rows, row))
<1>1. PICK S : rows \in Seq(S)
  BY DEF IsTable
<1> DEFINE T == S \cup {row}
<1>2. rows \in Seq(T) /\ row \in T
  BY <1>1
<1>3. Append(rows, row) \in Seq(T)
  BY <1>2
<1>4. Longer(rows, Append(rows, row))
  BY <1>2 DEF Longer
<1> QED
  BY <1>3, <1>4 DEF IsTable

LEMMA Stays ==
    ASSUME TablesFit
    PROVE  /\ Longer(decisions, decisions)
           /\ Further(checkpoints, completing, checkpoints, completing)
BY TableLength DEF TablesFit, Longer, Further

\* Whoever commits what, no decision is lost, and no verdict changed but by
\* those who are completing its checkpoint.
LEMMA CommitsGrow ==
    ASSUME TablesFit, OthersCommit \/ Tick
    PROVE  /\ TablesFit' /\ UNCHANGED view
           /\ Longer(decisions, decisions') /\ CheckpointsFurther
<1>1. ASSUME UNCHANGED <<decisions, checkpoints, completing>>
      PROVE  /\ TablesFit'
             /\ Longer(decisions, decisions') /\ CheckpointsFurther
  BY <1>1, Stays DEF TablesFit, IsTable, CheckpointsFurther
<1>2. CASE Tick
  BY <1>1, <1>2 DEF Tick
<1>3. ASSUME NEW s \in Series, Grade(s)
      PROVE  UNCHANGED <<decisions, checkpoints, completing>> /\ UNCHANGED view
  BY <1>3 DEF Grade
<1>4. ASSUME NEW l \in Learner, ScheduleCheckpoints(l)
      PROVE  /\ TablesFit' /\ UNCHANGED view
             /\ Longer(decisions, decisions') /\ CheckpointsFurther
  <2>1. checkpoints' = [c \in Checkpoint |->
                          IF c[1] = l /\ ~Scheduled(l) THEN "pending" ELSE checkpoints[c]]
    BY <1>4 DEF ScheduleCheckpoints
  <2>2. \A c \in Checkpoint : c[1] = l /\ ~Scheduled(l) => checkpoints[c] = "none"
    BY DEF Scheduled, Checkpoint
  <2>3. CheckpointsFurther /\ checkpoints' \in [Checkpoint -> Progress]
    BY <1>4, <2>1, <2>2
    DEF ScheduleCheckpoints, CheckpointsFurther, Further, Final, Verdict, Progress, TablesFit
  <2> QED
    BY <1>4, <2>3, Stays DEF ScheduleCheckpoints, TablesFit, IsTable
<1>5. ASSUME NEW l \in Learner, Recompute(l)
      PROVE  UNCHANGED <<decisions, checkpoints, completing>> /\ UNCHANGED view
  BY <1>5 DEF Recompute
<1>6. ASSUME NEW l \in Learner, Decide(l)
      PROVE  /\ TablesFit' /\ UNCHANGED view
             /\ Longer(decisions, decisions') /\ CheckpointsFurther
  <2>1. PICK row : decisions' = Append(decisions, row)
    BY <1>6 DEF Decide
  <2> QED
    BY <1>6, <2>1, Appended, Stays DEF Decide, TablesFit, CheckpointsFurther
<1>7. ASSUME NEW c \in Checkpoint, CompleteCheckpoint(c)
      PROVE  /\ TablesFit' /\ UNCHANGED view
             /\ Longer(decisions, decisions') /\ CheckpointsFurther
  <2>1. PICK how \in Final :
          checkpoints' = [checkpoints EXCEPT ![c] =
              IF how = "undecided" /\ @ \in Verdict THEN @ ELSE how]
    BY <1>7 DEF CompleteCheckpoint, Final
  <2>2. c \in completing /\ completing' \subseteq completing
    BY <1>7 DEF CompleteCheckpoint
  <2>3. CheckpointsFurther /\ checkpoints' \in [Checkpoint -> Progress]
    BY <2>1, <2>2 DEF CheckpointsFurther, Further, Final, Verdict, Progress, TablesFit
  <2> QED
    BY <1>7, <2>3, Stays DEF CompleteCheckpoint, TablesFit, IsTable
<1>8. ASSUME NEW c \in Checkpoint, LoadCheckpoint(c) \/ AbandonCheckpoint(c)
      PROVE  /\ TablesFit' /\ UNCHANGED view
             /\ Longer(decisions, decisions') /\ CheckpointsFurther
  <2>1. /\ UNCHANGED <<decisions, checkpoints>> /\ UNCHANGED view
        /\ \A other \in completing' \ completing : checkpoints[other] = "pending"
    BY <1>8 DEF LoadCheckpoint, AbandonCheckpoint
  <2>2. CheckpointsFurther
    BY <2>1 DEF CheckpointsFurther, Further, Final, Verdict
  <2> QED
    BY <2>1, <2>2, Stays DEF TablesFit, IsTable
<1>9. ASSUME NEW q \in Question, CreateQuestion(q)
      PROVE  UNCHANGED <<decisions, checkpoints, completing>> /\ UNCHANGED view
  BY <1>9 DEF CreateQuestion
<1>10. CASE OthersCommit
  BY <1>1, <1>3, <1>4, <1>5, <1>6, <1>7, <1>8, <1>9, <1>10 DEF OthersCommit, Commit
<1> QED
  BY <1>1, <1>2, <1>10 DEF Tick

\* What a page has read stands, whatever is committed meanwhile.
LEMMA CommitStep ==
    ASSUME ViewInv, TablesFit', UNCHANGED view,
           Longer(decisions, decisions'), CheckpointsFurther
    PROVE  ViewInv'
<1> SUFFICES ASSUME Serving PROVE PageFits'
  BY DEF ViewInv, view, Serving
<1> USE DEF view
<1>1. PageFits /\ Len(decisions) \in Nat /\ Len(decisions') \in Nat
  BY TableLength DEF ViewInv, TablesFit
<1>2. PageRecord' /\ SeenRecord'
  BY <1>1 DEF PageFits, PageRecord, SeenRecord
<1>3. Since'
  <2>1. Since /\ Len(began.decisions) \in Nat
    BY <1>1, TableLength DEF PageFits, Since
  <2>2. Longer(began.decisions, decisions')
    BY <1>1, <2>1 DEF Since, Longer
  <2>3. Further(began.checkpoints, began.completing, checkpoints', completing')
    <3> SUFFICES ASSUME NEW c \in Checkpoint
                 PROVE  /\ began.checkpoints[c] # "none" => checkpoints'[c] # "none"
                        /\ began.checkpoints[c] \in Final => checkpoints'[c] \in Final
                        /\ began.checkpoints[c] \in Verdict => checkpoints'[c] \in Verdict
                        /\ began.checkpoints[c] \in Final /\ c \notin began.completing
                           => /\ checkpoints'[c] = began.checkpoints[c]
                              /\ c \notin completing'
      BY DEF Further
    <3> QED
      BY <2>1 DEF Since, Further, CheckpointsFurther
  <2>4. \A s \in Student : seen.decisions[s] <= Len(decisions')
    BY <1>1, <2>1 DEF Since, Longer, PageFits, SeenRecord
  <2>5. ASSUME NEW l \in seen.forgetting
        PROVE  l \in Learner /\ \E d \in CheckpointDays : Failed(<<l, d>>)'
    BY <2>1 DEF Since, Further, CheckpointsFurther, Checkpoint, Failed, Settled
  <2> QED
    BY <2>1, <2>2, <2>3, <2>4, <2>5 DEF Since, IsTable
<1>4. Summaries'
  BY <1>1 DEF PageFits, Summaries, Summarised, Scope, Settled
<1>5. Counts'
  <2> SUFFICES ASSUME page.kind = "admin" PROVE Counts'
    BY DEF Counts
  <2>1. \A c \in Checkpoint : checkpoints[c] \in Final => checkpoints'[c] \in Final
    BY DEF Further, CheckpointsFurther
  <2>2. Counts
    BY <1>1 DEF PageFits
  <2>3. pc = "count_hypotheses" =>
          \A c \in Checkpoint : began.checkpoints[c] # "none" =>
              c \in seen.pending \/ checkpoints'[c] \in Final
    BY <2>1, <2>2 DEF Counts
  <2>4. pc \in {"count_decisions", "answer"} =>
          /\ \A c \in Checkpoint : Counted(c)'
          /\ \A l \in seen.forgetting :
               l \in Learner /\ \E d \in CheckpointDays : CountedFailed(<<l, d>>)'
    BY <2>2 DEF Counts, Counted, CountedFailed, Settled
  <2>5. pc = "answer" =>
          /\ seen.counted \in 0..Len(decisions')
          /\ \A s \in Student : seen.decisions[s] <= seen.counted
    BY <1>1, <2>2 DEF Counts, Longer
  <2> QED
    BY <2>3, <2>4, <2>5 DEF Counts
<1>6. OwnPage'
  <2>1. \A c \in Checkpoint : checkpoints[c] \in Final => checkpoints'[c] \in Final
    BY DEF Further, CheckpointsFurther
  <2> QED
    BY <1>1, <2>1 DEF PageFits, OwnPage
<1> QED
  BY <1>2, <1>3, <1>4, <1>5, <1>6 DEF PageFits

-----------------------------------------------------------------------------
(* Pages *)

\* A page has just been requested.
LEMMA OpenStep ==
    ASSUME ViewInv, NEW p, NEW first, NEW todo \in SUBSET Student, Open(p, first, todo),
           p = [kind |-> p.kind, student |-> p.student, decision |-> p.decision],
           first \in Statement,
           p.kind \in {"teacher", "admin"} =>
               /\ first \in {"read_states", "count_checkpoints", "answer"}
               /\ todo = IF p.kind = "admin" THEN Student ELSE Linked
               /\ first \in {"count_checkpoints", "answer"} => todo = {}
               /\ first = "count_checkpoints" => p.kind = "admin"
               /\ first = "answer" => p.kind = "teacher",
           p.kind = "student" => p.student \in Student /\ first = "read_states"
    PROVE  ViewInv'
<1>1. /\ page' = p /\ pc' = first /\ seen' = [Nothing EXCEPT !.todo = todo]
      /\ began' = [decisions |-> decisions, checkpoints |-> checkpoints,
                   completing |-> completing, questions |-> Len(questions)]
      /\ UNCHANGED <<decisions, checkpoints, completing>>
  BY DEF Open, tables
<1>2. TablesFit' /\ pc' \in Statement
  BY <1>1 DEF ViewInv, TablesFit, IsTable
<1>3. PageRecord' /\ SeenRecord'
  BY <1>1 DEF PageRecord, SeenRecord, Nothing
<1>4. Since'
  <2>1. IsTable(decisions) /\ Len(decisions) \in Nat
    BY TableLength DEF ViewInv, TablesFit
  <2>2. /\ Longer(decisions, decisions)
        /\ Further(checkpoints, completing, checkpoints, completing)
    BY Stays DEF ViewInv
  <2>3. seen'.forgetting = {} /\ \A s \in Student : seen'.decisions[s] = 0
    BY <1>1 DEF Nothing
  <2> QED
    BY <1>1, <2>1, <2>2, <2>3 DEF ViewInv, TablesFit, Since
<1>5. Summaries'
  BY <1>1 DEF Summaries, Scope, Counting
<1>6. Counts'
  BY <1>1 DEF Counts
<1>7. OwnPage'
  BY <1>1 DEF OwnPage
<1> QED
  BY <1>2, <1>3, <1>4, <1>5, <1>6, <1>7 DEF ViewInv, PageFits

\* A query leaves the tables, and what there was, alone.
LEMMA QueryKeeps ==
    ASSUME ViewInv, UNCHANGED <<tables, began>>
    PROVE  TablesFit' /\ began' = began /\ UNCHANGED <<decisions, checkpoints, completing>>
BY DEF ViewInv, tables, TablesFit, IsTable

LEMMA ReadStatesStep == ASSUME ViewInv, ReadStates PROVE ViewInv'
<1>1. PICK s \in Student :
        /\ pc = "read_states" /\ Turn(s)
        /\ pc' = "read_decisions"
        /\ page' = [page EXCEPT !.student = s]
        /\ seen' = [seen EXCEPT !.weak = @ \cup Weak(s)]
        /\ UNCHANGED <<tables, races, began>>
  BY DEF ReadStates
<1>2. PageFits
  BY <1>1 DEF ViewInv, Serving
<1>3. TablesFit' /\ began' = began /\ UNCHANGED <<decisions, checkpoints, completing>>
  BY <1>1, QueryKeeps
<1>4. /\ page'.kind = page.kind /\ page'.student = s
      /\ seen'.todo = seen.todo /\ seen'.decisions = seen.decisions
      /\ seen'.forgetting = seen.forgetting
  BY <1>1, <1>2 DEF PageFits, PageRecord, SeenRecord
<1>5. PageRecord' /\ SeenRecord'
  BY <1>1, <1>2 DEF PageFits, PageRecord, SeenRecord
<1>6. Since'
  BY <1>2, <1>3, <1>4 DEF PageFits, Since, IsTable, Failed, Settled
<1>7. Summaries'
  BY <1>1, <1>2, <1>3, <1>4
  DEF PageFits, Summaries, Summarised, Scope, Counting, Turn, Settled
<1>8. Counts'
  BY <1>1 DEF Counts
<1>9. OwnPage'
  BY <1>1, <1>2, <1>4 DEF PageFits, OwnPage, Turn
<1> QED
  BY <1>1, <1>3, <1>5, <1>6, <1>7, <1>8, <1>9 DEF ViewInv, PageFits, Statement

LEMMA ReadDecisionsStep == ASSUME ViewInv, ReadDecisions PROVE ViewInv'
<1>1. /\ pc = "read_decisions"
      /\ pc' = IF page.kind = "student" THEN "read_checkpoints" ELSE "read_hypotheses"
      /\ seen' = [seen EXCEPT !.decisions[page.student] = Len(decisions)]
      /\ page' = page /\ UNCHANGED <<tables, began>>
  BY DEF ReadDecisions, Read
<1>2. PageFits /\ Len(decisions) \in Nat
  BY <1>1, TableLength DEF ViewInv, Serving, TablesFit
<1>3. TablesFit' /\ began' = began /\ UNCHANGED <<decisions, checkpoints, completing>>
  BY <1>1, QueryKeeps
<1>4. /\ seen'.todo = seen.todo /\ seen'.forgetting = seen.forgetting
      /\ seen'.decisions = [seen.decisions EXCEPT ![page.student] = Len(decisions)]
  BY <1>1, <1>2 DEF PageFits, SeenRecord
<1>5. PageRecord' /\ SeenRecord'
  BY <1>1, <1>2 DEF PageFits, PageRecord, SeenRecord
<1>6. Since'
  BY <1>2, <1>3, <1>4 DEF PageFits, Since, IsTable, SeenRecord, Failed, Settled
<1>7. Summaries'
  <2> SUFFICES ASSUME page.kind \in {"teacher", "admin"} PROVE Summaries'
    BY <1>1 DEF Summaries
  <2>1. page.student \in seen.todo /\ page.student \in Student
    BY <1>1, <1>2 DEF PageFits, Summaries, SeenRecord
  <2>2. \A s \in Scope \ seen.todo : seen'.decisions[s] = seen.decisions[s]
    BY <1>2, <1>4, <2>1, ViewAssumption DEF Scope, PageFits, SeenRecord
  <2>3. seen'.decisions[page.student] = Len(decisions)
    BY <1>2, <1>4, <2>1 DEF PageFits, SeenRecord
  <2>4. Len(began.decisions) <= Len(decisions)
    BY <1>2 DEF PageFits, Since, Longer
  <2> QED
    BY <1>1, <1>2, <1>3, <1>4, <2>1, <2>2, <2>3, <2>4
    DEF PageFits, Summaries, Summarised, Scope, Counting, Settled
<1>8. Counts'
  BY <1>1 DEF Counts
<1>9. OwnPage'
  <2> SUFFICES ASSUME page.kind = "student" PROVE OwnPage'
    BY <1>1 DEF OwnPage
  <2>1. page.student \in Student /\ Len(began.decisions) <= Len(decisions)
    BY <1>2 DEF PageFits, OwnPage, Since, Longer
  <2>2. seen'.decisions[page.student] = Len(decisions)
    BY <1>2, <1>4, <2>1 DEF PageFits, SeenRecord
  <2> QED
    BY <1>1, <1>3, <2>1, <2>2 DEF OwnPage
<1> QED
  BY <1>1, <1>3, <1>5, <1>6, <1>7, <1>8, <1>9 DEF ViewInv, PageFits, Statement

LEMMA ReadHypothesesStep == ASSUME ViewInv, ReadHypotheses PROVE ViewInv'
<1> DEFINE todo == seen.todo \ {page.student}
<1>1. /\ pc = "read_hypotheses"
      /\ pc' = IF todo # {} THEN "read_states"
               ELSE IF page.kind = "admin" THEN "count_checkpoints" ELSE "answer"
      /\ seen' = [seen EXCEPT !.todo = todo,
                              !.forgetting = @ \cup Forgetting(page.student)]
      /\ page' = page /\ UNCHANGED <<tables, began>>
  BY DEF ReadHypotheses, Read
<1>2. PageFits
  BY <1>1 DEF ViewInv, Serving
<1>3. TablesFit' /\ began' = began /\ UNCHANGED <<decisions, checkpoints, completing>>
  BY <1>1, QueryKeeps
<1>4. /\ seen'.todo = todo /\ seen'.decisions = seen.decisions
      /\ seen'.forgetting = seen.forgetting \cup Forgetting(page.student)
  BY <1>1, <1>2 DEF PageFits, SeenRecord
<1>5. PageRecord' /\ SeenRecord'
  BY <1>1, <1>2 DEF PageFits, PageRecord, SeenRecord
<1>6. Since'
  <2>1. ASSUME NEW l \in Forgetting(page.student)
        PROVE  l \in Learner /\ \E d \in CheckpointDays : Failed(<<l, d>>)
    <3>1. PICK d \in CheckpointDays : checkpoints[<<l, d>>] = "not_supported"
      BY DEF Forgetting
    <3>2. l \in Learner /\ <<l, d>> \in Checkpoint
      BY DEF Forgetting, Checkpoint
    <3>3. Failed(<<l, d>>)
      BY <1>2, <3>1, <3>2 DEF PageFits, Since, Further, Failed, Settled, Final, Verdict
    <3> QED
      BY <3>2, <3>3
  <2> QED
    BY <1>2, <1>3, <1>4, <2>1 DEF PageFits, Since, IsTable, Failed, Settled
<1>7. Summaries'
  <2> SUFFICES ASSUME page.kind \in {"teacher", "admin"} PROVE Summaries'
    BY <1>1 DEF Summaries
  <2>1. /\ page.student \in Student
        /\ Len(began.decisions) <= seen.decisions[page.student]
        /\ \A s \in Scope \ seen.todo : Summarised(s)
    BY <1>1, <1>2 DEF PageFits, Summaries, SeenRecord
  <2>2. \A k \in Skill, d \in CheckpointDays :
          Settled(<<<<page.student, k>>, d>>)
          /\ began.checkpoints[<<<<page.student, k>>, d>>] = "not_supported" =>
            <<page.student, k>> \in Forgetting(page.student)
    <3> SUFFICES ASSUME NEW k \in Skill, NEW d \in CheckpointDays,
                        Settled(<<<<page.student, k>>, d>>),
                        began.checkpoints[<<<<page.student, k>>, d>>] = "not_supported"
                 PROVE  <<page.student, k>> \in Forgetting(page.student)
      OBVIOUS
    <3>1. <<page.student, k>> \in Learner /\ <<<<page.student, k>>, d>> \in Checkpoint
      BY <2>1 DEF Learner, Checkpoint
    <3>2. checkpoints[<<<<page.student, k>>, d>>] = "not_supported"
      BY <1>2, <3>1 DEF PageFits, Since, Further, Settled, Final, Verdict
    <3> QED
      BY <3>1, <3>2 DEF Forgetting
  <2>3. ASSUME NEW s \in Scope \ todo PROVE Summarised(s)'
    BY <1>3, <1>4, <2>1, <2>2 DEF Summarised, Settled
  <2> QED
    BY <1>1, <1>4, <2>3 DEF Summaries, Scope, Counting
<1>8. Counts'
  BY <1>1 DEF Counts
<1>9. OwnPage'
  BY <1>1, <1>2 DEF PageFits, OwnPage
<1> QED
  BY <1>1, <1>3, <1>5, <1>6, <1>7, <1>8, <1>9 DEF ViewInv, PageFits, Statement

\* The three counts of the admin's page.
LEMMA CountStep ==
    ASSUME ViewInv, CountCheckpoints \/ CountHypotheses \/ CountDecisions
    PROVE  ViewInv'
<1>1. /\ pc \in Counting /\ pc' \in Counting \cup {"answer"}
      /\ pc' = "count_hypotheses" \/ pc' = "count_decisions" \/ pc' = "answer"
      /\ page' = page /\ UNCHANGED <<tables, began>>
      /\ \E new : \/ seen' = [seen EXCEPT !.pending = new]
                  \/ seen' = [seen EXCEPT !.verdicts = new]
                  \/ seen' = [seen EXCEPT !.counted = new]
  <2>1. CASE CountCheckpoints
    BY <2>1 DEF CountCheckpoints, Read, Counting
  <2>2. CASE CountHypotheses
    BY <2>2 DEF CountHypotheses, Read, Counting
  <2>3. CASE CountDecisions
    BY <2>3 DEF CountDecisions, Read, Counting
  <2> QED
    BY <2>1, <2>2, <2>3
<1>2. PageFits /\ Len(decisions) \in Nat
  BY <1>1, TableLength DEF ViewInv, Serving, TablesFit, Counting
<1>3. TablesFit' /\ began' = began /\ UNCHANGED <<decisions, checkpoints, completing>>
  BY <1>1, QueryKeeps
<1>4. /\ seen'.todo = seen.todo /\ seen'.forgetting = seen.forgetting
      /\ seen'.decisions = seen.decisions
  BY <1>1, <1>2 DEF PageFits, SeenRecord
<1>5. PageRecord' /\ SeenRecord'
  BY <1>1, <1>2 DEF PageFits, PageRecord, SeenRecord
<1>6. Since'
  BY <1>2, <1>3, <1>4 DEF PageFits, Since, IsTable, Failed, Settled
<1>7. Summaries'
  BY <1>1, <1>2, <1>3, <1>4 DEF PageFits, Summaries, Summarised, Scope, Counting, Settled
<1>8. Counts'
  <2>1. CASE CountCheckpoints
    <3>1. /\ pc' = "count_hypotheses"
          /\ seen'.pending = {c \in Checkpoint : checkpoints[c] = "pending"}
      BY <1>2, <2>1 DEF CountCheckpoints, Read, PageFits, SeenRecord
    <3>2. \A c \in Checkpoint : began.checkpoints[c] # "none" => checkpoints[c] # "none"
      BY <1>2 DEF PageFits, Since, Further
    <3>3. \A c \in Checkpoint : checkpoints[c] \in {"none", "pending"} \cup Final
      BY DEF ViewInv, TablesFit, Progress, Final
    <3> QED
      BY <1>1, <1>3, <3>1, <3>2, <3>3 DEF Counts
  <2>2. CASE CountHypotheses
    <3>1. /\ pc = "count_hypotheses" /\ pc' = "count_decisions"
          /\ seen'.pending = seen.pending /\ seen'.verdicts = checkpoints
      BY <1>2, <2>2 DEF CountHypotheses, Read, PageFits, SeenRecord
    <3> SUFFICES ASSUME page.kind = "admin" PROVE Counts'
      BY <1>1 DEF Counts
    <3>2. ASSUME NEW c \in Checkpoint PROVE Counted(c)'
      <4>1. began.checkpoints[c] # "none" => c \in seen.pending \/ checkpoints[c] \in Final
        BY <1>2, <3>1 DEF PageFits, Counts
      <4>2. began.checkpoints[c] \in {"none", "pending"} \cup Final
        BY <1>2 DEF PageFits, Since, Progress, Final
      <4>3. began.checkpoints[c] \in Verdict => checkpoints[c] \in Verdict
        BY <1>2 DEF PageFits, Since, Further
      <4> QED
        BY <1>3, <3>1, <4>1, <4>2, <4>3 DEF Counted, Final
    <3>3. ASSUME NEW l \in seen.forgetting
          PROVE  l \in Learner /\ \E d \in CheckpointDays : CountedFailed(<<l, d>>)'
      <4>1. PICK d \in CheckpointDays : Failed(<<l, d>>)
        BY <1>2 DEF PageFits, Since
      <4>2. l \in Learner /\ <<l, d>> \in Checkpoint
        BY <1>2 DEF PageFits, Since, Checkpoint
      <4>3. Settled(<<l, d>>) => checkpoints[<<l, d>>] = "not_supported"
        BY <1>2, <4>1, <4>2 DEF PageFits, Since, Further, Failed, Settled, Final
      <4>4. CountedFailed(<<l, d>>)'
        BY <1>3, <3>1, <4>1, <4>3 DEF CountedFailed, Failed, Settled, Verdict
      <4> QED
        BY <4>2, <4>4
    <3> QED
      BY <1>1, <1>4, <3>1, <3>2, <3>3 DEF Counts
  <2>3. CASE CountDecisions
    <3>1. /\ pc = "count_decisions" /\ pc' = "answer" /\ seen'.counted = Len(decisions)
          /\ seen'.pending = seen.pending /\ seen'.verdicts = seen.verdicts
      BY <1>2, <2>3 DEF CountDecisions, Read, PageFits, SeenRecord
    <3>2. seen'.counted \in 0..Len(decisions')
      BY <1>2, <1>3, <3>1
    <3>3. \A s \in Student : seen'.decisions[s] <= seen'.counted
      BY <1>2, <1>4, <3>1 DEF PageFits, Since
    <3> SUFFICES ASSUME page.kind = "admin" PROVE Counts'
      BY <1>1 DEF Counts
    <3>4. /\ \A c \in Checkpoint : Counted(c)'
          /\ \A l \in seen.forgetting :
               l \in Learner /\ \E d \in CheckpointDays : CountedFailed(<<l, d>>)'
      BY <1>2, <1>3, <3>1 DEF PageFits, Counts, Counted, CountedFailed, Settled
    <3> QED
      BY <1>1, <1>4, <3>1, <3>2, <3>3, <3>4 DEF Counts
  <2> QED
    BY <2>1, <2>2, <2>3
<1>9. OwnPage'
  BY <1>1, <1>2 DEF PageFits, OwnPage, Counting
<1> QED
  BY <1>1, <1>3, <1>5, <1>6, <1>7, <1>8, <1>9 DEF ViewInv, PageFits, Statement, Counting

\* The queries of the other pages.
LEMMA OtherQueriesStep ==
    ASSUME ViewInv, ReadCheckpoints \/ ReadAttempts \/ ReadQuestions
    PROVE  ViewInv'
<1>1. /\ pc \in {"read_checkpoints", "read_attempts", "read_questions"}
      /\ pc' \in {"read_questions", "answer"}
      /\ page' = page /\ UNCHANGED <<tables, began>>
      /\ \E new : \/ seen' = [seen EXCEPT !.pending = new]
                  \/ seen' = [seen EXCEPT !.attempted = new]
                  \/ seen' = [seen EXCEPT !.candidates = new]
  BY DEF ReadCheckpoints, ReadAttempts, ReadQuestions, Read
<1>2. PageFits
  BY <1>1 DEF ViewInv, Serving
<1>3. TablesFit' /\ began' = began /\ UNCHANGED <<decisions, checkpoints, completing>>
  BY <1>1, QueryKeeps
<1>4. /\ seen'.forgetting = seen.forgetting /\ seen'.decisions = seen.decisions
      /\ page.kind \notin {"teacher", "admin"}
  BY <1>1, <1>2 DEF PageFits, SeenRecord, Summaries, Counting
<1>5. PageRecord' /\ SeenRecord'
  BY <1>1, <1>2 DEF PageFits, PageRecord, SeenRecord
<1>6. Since'
  BY <1>2, <1>3, <1>4 DEF PageFits, Since, IsTable, Failed, Settled
<1>7. Summaries' /\ Counts'
  BY <1>1, <1>4 DEF Summaries, Counts
<1>8. OwnPage'
  <2>1. CASE ReadCheckpoints
    <3>1. /\ pc = "read_checkpoints" /\ pc' = "answer"
          /\ seen'.pending = Pending(page.student)
      BY <1>2, <2>1 DEF ReadCheckpoints, Read, PageFits, SeenRecord
    <3>2. \A c \in Pending(page.student) :
            c \in Checkpoint /\ began.checkpoints[c] \notin Final
      BY <1>2 DEF Pending, PageFits, Since, Further, Final, Verdict
    <3>3. \A c \in Checkpoint :
            c[1][1] = page.student /\ began.checkpoints[c] = "pending" =>
              c \in Pending(page.student) \/ checkpoints[c] \in Final
      <4>1. \A c \in Checkpoint : checkpoints[c] \in {"none", "pending"} \cup Final
        BY DEF ViewInv, TablesFit, Progress, Final
      <4> QED
        BY <1>2, <4>1 DEF Pending, PageFits, Since, Further
    <3> QED
      BY <1>1, <1>2, <1>3, <1>4, <3>1, <3>2, <3>3 DEF PageFits, OwnPage
  <2>2. CASE ReadAttempts \/ ReadQuestions
    BY <1>1, <1>2, <2>2 DEF PageFits, OwnPage, ReadAttempts, ReadQuestions, Read
  <2> QED
    BY <2>1, <2>2
<1> QED
  BY <1>1, <1>3, <1>5, <1>6, <1>7, <1>8 DEF ViewInv, PageFits, Statement

LEMMA ViewStep == ViewInv /\ [Next]_vars => ViewInv'
<1> SUFFICES ASSUME ViewInv, [Next]_vars PROVE ViewInv'
  OBVIOUS
<1>1. CASE OthersCommit \/ Tick
  BY <1>1, CommitsGrow, CommitStep DEF ViewInv
<1>2. ASSUME NEW s \in Student, OpenStudent(s) PROVE ViewInv'
  BY <1>2, OpenStep DEF OpenStudent, Statement
<1>3. CASE OpenTeacher
  BY <1>3, OpenStep, ViewAssumption DEF OpenTeacher, Statement
<1>4. CASE OpenAdmin
  BY <1>4, OpenStep DEF OpenAdmin, Statement
<1>5. ASSUME NEW n \in DOMAIN decisions, OpenTask(n) PROVE ViewInv'
  BY <1>5, OpenStep DEF OpenTask, Statement
<1>6. CASE ReadStates \/ ReadDecisions \/ ReadHypotheses
  BY <1>6, ReadStatesStep, ReadDecisionsStep, ReadHypothesesStep
<1>7. CASE CountCheckpoints \/ CountHypotheses \/ CountDecisions
  BY <1>7, CountStep
<1>8. CASE ReadCheckpoints \/ ReadAttempts \/ ReadQuestions
  BY <1>8, OtherQueriesStep
<1>9. CASE Answer
  BY <1>9 DEF Answer, tables, ViewInv, TablesFit, IsTable, Statement, Serving
<1>10. CASE UNCHANGED vars
  <2>1. UNCHANGED <<decisions, checkpoints, completing>> /\ UNCHANGED view
    BY <1>10 DEF vars, tables
  <2> QED
    BY <2>1, Stays, CommitStep DEF ViewInv, TablesFit, IsTable, CheckpointsFurther
<1> QED
  BY <1>1, <1>2, <1>3, <1>4, <1>5, <1>6, <1>7, <1>8, <1>9, <1>10 DEF Next, Query

LEMMA AlwaysView == Spec => []ViewInv
  BY InitView, ViewStep, PTL DEF Spec

-----------------------------------------------------------------------------

\* The rows that a query has returned.
LEMMA Returned ==
    ASSUME NEW rows, IsTable(rows), NEW n \in 0..Len(rows)
    PROVE  /\ DOMAIN SubSeq(rows, 1, n) = 1..n
           /\ \A i \in 1..n : SubSeq(rows, 1, n)[i] = rows[i]
<1>1. PICK S : rows \in Seq(S)
  BY DEF IsTable
<1> QED
  BY <1>1

\* Whoever was escalated before a page was requested, or forgot and no other
\* completion was under way, is on it.
THEOREM CausesVisible == Spec => []CausesStayVisible
<1>1. ViewInv => CausesStayVisible
  <2> SUFFICES ASSUME ViewInv, NEW s \in Student,
                      Answering("admin") \/ (Answering("teacher") /\ s \in Linked),
                      NEW k \in Skill,
                      \/ \E n \in DOMAIN began.decisions :
                           /\ began.decisions[n].learner = <<s, k>>
                           /\ ~began.decisions[n].shadow
                           /\ began.decisions[n].result = "escalated"
                      \/ \E d \in CheckpointDays :
                           /\ Settled(<<<<s, k>>, d>>)
                           /\ began.checkpoints[<<<<s, k>>, d>>] = "not_supported"
               PROVE  NeedsAttention(s, seen.weak, Shown(s), seen.forgetting)
    BY DEF CausesStayVisible
  <2>1. PageFits /\ pc = "answer" /\ page.kind \in {"teacher", "admin"} /\ s \in Scope
    BY DEF Answering, ViewInv, Serving, Scope
  <2>2. Summarised(s)
    BY <2>1 DEF PageFits, Summaries
  <2>3. ASSUME NEW n \in DOMAIN began.decisions,
               began.decisions[n].learner = <<s, k>>, ~began.decisions[n].shadow,
               began.decisions[n].result = "escalated"
        PROVE  NeedsAttention(s, seen.weak, Shown(s), seen.forgetting)
    <3>1. n \in 1..Len(began.decisions) /\ Len(began.decisions) \in Nat
      BY <2>1, TableLength DEF PageFits, Since, IsTable
    <3>2. decisions[n] = began.decisions[n]
      BY <2>1, <3>1 DEF PageFits, Since, Longer
    <3>3. seen.decisions[s] \in 0..Len(decisions) /\ n \in 1..seen.decisions[s]
      BY <2>1, <2>2, <3>1, TableLength
      DEF PageFits, Since, SeenRecord, Summarised, ViewInv, TablesFit
    <3>4. n \in DOMAIN Shown(s) /\ Shown(s)[n] = decisions[n]
      BY <3>3, Returned DEF Shown, ViewInv, TablesFit
    <3>5. Escalated(Shown(s), <<s, k>>)
      BY <2>3, <3>2, <3>4 DEF Escalated, Live
    <3> QED
      BY <3>5 DEF NeedsAttention
  <2>4. ASSUME NEW d \in CheckpointDays, Settled(<<<<s, k>>, d>>),
               began.checkpoints[<<<<s, k>>, d>>] = "not_supported"
        PROVE  NeedsAttention(s, seen.weak, Shown(s), seen.forgetting)
    BY <2>2, <2>4 DEF Summarised, NeedsAttention
  <2> QED
    BY <2>3, <2>4
<1> QED
  BY <1>1, AlwaysView, PTL

\* What the admin page counts and whom it names agree, although its queries
\* run at different times.
THEOREM CountsAgree == Spec => []AdminCountsAgree
<1>1. ViewInv => AdminCountsAgree
  <2> SUFFICES ASSUME ViewInv, Answering("admin") PROVE AdminCountsAgree
    BY DEF AdminCountsAgree
  <2> DEFINE all == SubSeq(decisions, 1, seen.counted)
             escalated == {s \in Student : \E k \in Skill : Escalated(Shown(s), <<s, k>>)}
             rows == {n \in DOMAIN all : all[n].result = "escalated" /\ ~all[n].shadow}
             forgetful == {s \in Student : \E k \in Skill : <<s, k>> \in seen.forgetting}
             failed == {c \in Checkpoint : CountedFailed(c)}
  <2>1. /\ PageFits /\ pc = "answer" /\ page.kind = "admin"
        /\ IsTable(decisions) /\ Len(decisions) \in Nat
    BY TableLength DEF Answering, ViewInv, Serving, TablesFit
  <2>2. seen.counted \in 0..Len(decisions)
    BY <2>1 DEF PageFits, Counts
  <2>3. Cardinality(escalated) <= Cardinality(rows)
    <3>1. DOMAIN all = 1..seen.counted /\ \A i \in 1..seen.counted : all[i] = decisions[i]
      BY <2>1, <2>2, Returned
    <3>2. \A s \in escalated : \E n \in rows : decisions[n].learner[1] = s
      <4> SUFFICES ASSUME NEW s \in escalated PROVE \E n \in rows : decisions[n].learner[1] = s
        OBVIOUS
      <4>1. PICK k \in Skill, n \in DOMAIN Shown(s) :
              /\ Shown(s)[n].learner = <<s, k>> /\ ~Shown(s)[n].shadow
              /\ Shown(s)[n].result = "escalated"
        BY DEF Escalated, Live
      <4>2. seen.decisions[s] \in 0..seen.counted
        BY <2>1 DEF PageFits, Counts, SeenRecord
      <4>3. seen.decisions[s] \in 0..Len(decisions)
        BY <2>1, <2>2, <4>2
      <4>4. n \in 1..seen.decisions[s] /\ Shown(s)[n] = decisions[n]
        BY <2>1, <4>1, <4>3, Returned DEF Shown
      <4>5. n \in 1..seen.counted
        BY <2>2, <4>2, <4>4
      <4>6. n \in rows
        BY <3>1, <4>1, <4>4, <4>5
      <4>7. decisions[n].learner[1] = s
        BY <4>1, <4>4
      <4> QED
        BY <4>6, <4>7
    <3> DEFINE f == [s \in escalated |-> CHOOSE n \in rows : decisions[n].learner[1] = s]
    <3>3. \A s \in escalated : f[s] \in rows /\ decisions[f[s]].learner[1] = s
      BY <3>2
    <3>4. f \in Injection(escalated, rows)
      <4>1. f \in [escalated -> rows]
        BY <3>3
      <4>2. \A s, t \in escalated : f[s] = f[t] => s = t
        BY <3>3
      <4> HIDE DEF f, rows, escalated
      <4> QED
        BY <4>1, <4>2 DEF Injection, IsInjective
    <3>5. IsFiniteSet(rows)
      <4>1. IsFiniteSet(1..seen.counted)
        BY <2>2, FS_Interval
      <4>2. rows \subseteq 1..seen.counted
        BY <3>1
      <4> QED
        BY <4>1, <4>2, FS_Subset
    <3> HIDE DEF f, rows, escalated
    <3> QED
      BY <3>4, <3>5, FS_Injection
  <2>4. Cardinality(forgetful) <= Cardinality(failed)
    <3>1. \A s \in forgetful : \E c \in failed : c[1][1] = s
      <4> SUFFICES ASSUME NEW s \in forgetful PROVE \E c \in failed : c[1][1] = s
        OBVIOUS
      <4>1. PICK k \in Skill : <<s, k>> \in seen.forgetting
        OBVIOUS
      <4>2. PICK d \in CheckpointDays : CountedFailed(<<<<s, k>>, d>>)
        BY <2>1, <4>1 DEF PageFits, Counts
      <4>3. <<<<s, k>>, d>> \in Checkpoint
        BY <2>1, <4>1 DEF PageFits, Counts, Checkpoint
      <4> QED
        BY <4>2, <4>3
    <3> DEFINE f == [s \in forgetful |-> CHOOSE c \in failed : c[1][1] = s]
    <3>2. \A s \in forgetful : f[s] \in failed /\ f[s][1][1] = s
      BY <3>1
    <3>3. f \in Injection(forgetful, failed)
      <4>1. f \in [forgetful -> failed]
        BY <3>2
      <4>2. \A s, t \in forgetful : f[s] = f[t] => s = t
        BY <3>2
      <4> HIDE DEF f, failed, forgetful
      <4> QED
        BY <4>1, <4>2 DEF Injection, IsInjective
    <3>4. IsFiniteSet(failed)
      <4>1. IsFiniteSet(Checkpoint)
        BY FiniteAssumption, FS_Product DEF Checkpoint, Learner
      <4>2. failed \subseteq Checkpoint
        OBVIOUS
      <4> QED
        BY <4>1, <4>2, FS_Subset
    <3> HIDE DEF f, failed, forgetful
    <3> QED
      BY <3>3, <3>4, FS_Injection
  <2>5. \A c \in Checkpoint : Counted(c)
    BY <2>1 DEF PageFits, Counts
  <2> QED
    BY <2>3, <2>4, <2>5 DEF AdminCountsAgree, CountOf, Counted, CountedFailed
<1> QED
  BY <1>1, AlwaysView, PTL

-----------------------------------------------------------------------------
(* The latest decision *)

\* The page of a student is up to date in what it shows.
THEOREM PagesCurrent == Spec => []PageIsCurrent
<1>1. ViewInv => PageIsCurrent
  <2> SUFFICES ASSUME ViewInv, Answering("student") PROVE PageIsCurrent
    BY DEF PageIsCurrent
  <2> DEFINE s == page.student
  <2>1. /\ PageFits /\ pc = "answer" /\ page.kind = "student" /\ s \in Student
        /\ IsTable(decisions) /\ Len(decisions) \in Nat
    BY TableLength DEF Answering, ViewInv, Serving, TablesFit, PageFits, OwnPage
  <2>2. /\ seen.decisions[s] \in 0..Len(decisions)
        /\ Len(began.decisions) \in 0..seen.decisions[s]
    BY <2>1, TableLength DEF PageFits, Since, SeenRecord, OwnPage
  <2>3. /\ DOMAIN Shown(s) = 1..seen.decisions[s]
        /\ \A n \in 1..seen.decisions[s] : Shown(s)[n] = decisions[n]
    BY <2>1, <2>2, Returned DEF Shown
  <2>4. ASSUME NEW k \in Skill
        PROVE  LET shown == LatestDecision(Shown(s), <<s, k>>) IN
                 /\ shown # 0 => ~decisions[shown].shadow
                 /\ \A n \in DOMAIN began.decisions :
                      began.decisions[n].learner = <<s, k>> /\ ~began.decisions[n].shadow
                      => n <= shown
    <3> DEFINE shown == LatestDecision(Shown(s), <<s, k>>)
               all == Live(Shown(s), <<s, k>>) \cup {0}
    <3>1. all \in SUBSET (0..seen.decisions[s]) /\ all # {}
      BY <2>2, <2>3 DEF Live
    <3>2. shown \in all /\ \A n \in all : n <= shown
      <4>1. shown = Max(all)
        BY DEF LatestDecision
      <4>2. seen.decisions[s] \in Nat
        BY <2>2
      <4>3. ASSUME NEW T \in SUBSET (0..seen.decisions[s]), T # {}
            PROVE  Max(T) \in T /\ \A n \in T : n <= Max(T)
        BY <4>2, <4>3, Greatest
      <4> HIDE DEF all, shown
      <4> QED
        BY <3>1, <4>1, <4>3
    <3>3. shown # 0 => ~decisions[shown].shadow
      <4> SUFFICES ASSUME shown # 0 PROVE ~decisions[shown].shadow
        OBVIOUS
      <4>1. shown \in Live(Shown(s), <<s, k>>)
        BY <3>2
      <4> HIDE DEF shown
      <4> QED
        BY <2>3, <4>1 DEF Live
    <3>4. ASSUME NEW n \in DOMAIN began.decisions,
                 began.decisions[n].learner = <<s, k>>, ~began.decisions[n].shadow
          PROVE  n <= shown
      <4>1. n \in 1..Len(began.decisions)
        BY <2>1 DEF PageFits, Since, IsTable
      <4>2. n \in 1..seen.decisions[s] /\ decisions[n] = began.decisions[n]
        BY <2>1, <2>2, <4>1 DEF PageFits, Since, Longer
      <4>3. n \in Live(Shown(s), <<s, k>>)
        BY <2>3, <3>4, <4>2 DEF Live
      <4> QED
        BY <3>2, <4>3
    <3> QED
      BY <3>3, <3>4
  <2>5. \A c \in seen.pending : began.checkpoints[c] \in {"none", "pending"}
    <3>1. \A c \in Checkpoint : began.checkpoints[c] \in {"none", "pending"} \cup Final
      BY <2>1 DEF PageFits, Since, Progress, Final
    <3> QED
      BY <2>1, <3>1 DEF PageFits, OwnPage
  <2>6. \A c \in Pending(s) : began.checkpoints[c] = "pending" => c \in seen.pending
    BY <2>1 DEF PageFits, OwnPage, Pending, Final, Verdict
  <2> QED
    BY <2>4, <2>5, <2>6 DEF PageIsCurrent
<1> QED
  BY <1>1, AlwaysView, PTL

-----------------------------------------------------------------------------
(* Weights: half of what they were with every half-life. *)

Doubles(g, n) == g[0] = 1 /\ \A i \in Nat : i < n => g[i + 1] = 2 * g[i]

LEMMA DoublesExist == \A n \in Nat : \E g \in [Nat -> Nat] : Doubles(g, n)
<1> DEFINE T == {n \in Nat : \E g \in [Nat -> Nat] : Doubles(g, n)}
<1>1. 0 \in T
  <2>1. [n \in Nat |-> 1] \in [Nat -> Nat] /\ Doubles([n \in Nat |-> 1], 0)
    BY DEF Doubles
  <2> QED
    BY <2>1
<1>2. ASSUME NEW n \in T PROVE n + 1 \in T
  <2>1. PICK g \in [Nat -> Nat] : Doubles(g, n)
    OBVIOUS
  <2> DEFINE h == [g EXCEPT ![n + 1] = 2 * g[n]]
  <2>2. h \in [Nat -> Nat]
    BY <2>1
  <2>3. Doubles(h, n + 1)
    BY <2>1 DEF Doubles
  <2>4. n + 1 \in Nat
    OBVIOUS
  <2> HIDE DEF h
  <2> QED
    BY <2>2, <2>3, <2>4
<1>3. T = Nat
  <2>1. T \subseteq Nat
    OBVIOUS
  <2> HIDE DEF T
  <2> QED
    BY <1>1, <1>2, <2>1, NumberInduction
<1> QED
  BY <1>3

LEMMA DoublesAgree ==
    ASSUME NEW g, NEW h, NEW n \in Nat, Doubles(g, n), Doubles(h, n)
    PROVE  \A i \in Nat : i <= n => g[i] = h[i]
<1> DEFINE T == {i \in Nat : i <= n => g[i] = h[i]}
<1>1. 0 \in T
  BY DEF Doubles
<1>2. ASSUME NEW i \in T PROVE i + 1 \in T
  BY DEF Doubles
<1>3. T = Nat
  <2>1. T \subseteq Nat
    OBVIOUS
  <2> HIDE DEF T
  <2> QED
    BY <1>1, <1>2, <2>1, NumberInduction
<1> QED
  BY <1>3

LEMMA PowerUnfolds ==
    Power = [n \in Nat |-> IF n = 0 THEN 1 ELSE 2 * Power[n - 1]]
<1> DEFINE chosen(n) == CHOOSE g : g \in [Nat -> Nat] /\ Doubles(g, n)
           G == [n \in Nat |-> chosen(n)[n]]
<1>1. ASSUME NEW n \in Nat PROVE chosen(n) \in [Nat -> Nat] /\ Doubles(chosen(n), n)
  BY DoublesExist
<1>2. G[0] = 1
  BY <1>1 DEF Doubles
<1>3. ASSUME NEW n \in Nat PROVE G[n + 1] = 2 * G[n]
  <2>1. Doubles(chosen(n), n) /\ Doubles(chosen(n + 1), n + 1)
    BY <1>1
  <2>2. Doubles(chosen(n + 1), n)
    <3> HIDE DEF chosen
    <3> QED
      BY <2>1 DEF Doubles
  <2>3. chosen(n + 1)[n] = chosen(n)[n]
    <3> HIDE DEF chosen
    <3> QED
      BY <2>1, <2>2, DoublesAgree
  <2>4. chosen(n + 1)[n + 1] = 2 * chosen(n + 1)[n]
    <3> HIDE DEF chosen
    <3> QED
      BY <2>1, n < n + 1 DEF Doubles
  <2> HIDE DEF chosen
  <2> QED
    BY <2>3, <2>4
<1>4. DOMAIN G = Nat
  OBVIOUS
<1>5. G = [n \in Nat |-> G[n]]
  OBVIOUS
<1> HIDE DEF G
<1>6. ASSUME NEW n \in Nat, n # 0 PROVE G[n] = 2 * G[n - 1]
  <2>1. n - 1 \in Nat /\ (n - 1) + 1 = n
    BY <1>6
  <2>2. G[(n - 1) + 1] = 2 * G[n - 1]
    BY <1>3, <2>1
  <2> QED
    BY <2>1, <2>2
<1>7. \A n \in Nat : G[n] = IF n = 0 THEN 1 ELSE 2 * G[n - 1]
  BY <1>2, <1>6
<1>8. G = [n \in Nat |-> IF n = 0 THEN 1 ELSE 2 * G[n - 1]]
  BY <1>5, <1>7
<1> QED
  BY <1>8 DEF Power

LEMMA PowerDoubles ==
    ASSUME NEW n \in Nat
    PROVE  Power[n] \in Nat \ {0} /\ Power[n + 1] = 2 * Power[n]
<1>1. Power[0] = 1
  BY PowerUnfolds
<1>2. ASSUME NEW i \in Nat PROVE Power[i + 1] = 2 * Power[i]
  BY PowerUnfolds
<1> DEFINE T == {i \in Nat : Power[i] \in Nat \ {0}}
<1>3. 0 \in T
  BY <1>1
<1>4. ASSUME NEW i \in T PROVE i + 1 \in T
  BY <1>2
<1>5. T = Nat
  <2>1. T \subseteq Nat
    OBVIOUS
  <2> HIDE DEF T
  <2> QED
    BY <1>3, <1>4, <2>1, NumberInduction
<1> QED
  BY <1>2, <1>5

LEMMA OneIsNat == One \in Nat \ {0}
BY PowerDoubles, SeriesAssumption DEF One

LEMMA DecayIsPositive ==
    ASSUME NEW e \in EvidenceRow, NEW t \in 0..Horizon PROVE Decay(e, t) \in Nat \ {0}
<1>1. e.at \in 0..Horizon /\ Horizon \in Nat
  BY SeriesAssumption DEF EvidenceRow
<1>2. Horizon - Age(e, t) \in Nat
  BY <1>1 DEF Age
<1> QED
  BY <1>2, PowerDoubles DEF Decay

\* What the attempts of rows weigh at t: f is Right or Wrong.
Weighted(f, rows, t) == [e \in rows |-> f[e.series] * Decay(e, t)]
Amount(f, rows, t) == SumFunctionOnSet(Weighted(f, rows, t), rows)

LEMMA ComputeAmounts ==
    ASSUME NEW rows, NEW t
    PROVE  Compute(rows, t) = [alpha |-> One + Amount(Right, rows, t),
                               beta |-> One + Amount(Wrong, rows, t)]
<1>1. \A f : DOMAIN Weighted(f, rows, t) = rows
  BY DEF Weighted
<1>2. \A f : SumFunction(Weighted(f, rows, t)) = Amount(f, rows, t)
  BY <1>1, Zenon DEF SumFunction, Amount
<1> QED
  BY <1>2, Zenon DEF Compute, Weighted

LEMMA WeightedIsNat ==
    ASSUME NEW f \in [Series -> Nat], NEW rows \in SUBSET EvidenceRow,
           NEW t \in 0..Horizon
    PROVE  /\ Weighs(Weighted(f, rows, t), rows)
           /\ \A e \in rows : Weighted(f, rows, t)[e] > 0 <=> f[e.series] > 0
<1>1. ASSUME NEW e \in rows
      PROVE  /\ Weighted(f, rows, t)[e] \in Nat
             /\ Weighted(f, rows, t)[e] > 0 <=> f[e.series] > 0
  <2>1. f[e.series] \in Nat
    BY DEF EvidenceRow
  <2>2. Decay(e, t) \in Nat \ {0}
    BY DecayIsPositive
  <2>3. Weighted(f, rows, t)[e] = f[e.series] * Decay(e, t)
    BY DEF Weighted
  <2>4. \A m \in Nat, n \in Nat \ {0} : m * n \in Nat /\ (m * n > 0 <=> m > 0)
    OBVIOUS
  <2> QED
    BY <2>1, <2>2, <2>3, <2>4
<1> QED
  BY <1>1 DEF Weighs

LEMMA AmountPositive ==
    ASSUME NEW f \in [Series -> Nat], NEW rows \in SUBSET EvidenceRow,
           IsFiniteSet(rows), NEW t \in 0..Horizon
    PROVE  /\ Amount(f, rows, t) \in Nat
           /\ Amount(f, rows, t) > 0 <=> \E e \in rows : f[e.series] > 0
<1>1. /\ Weighs(Weighted(f, rows, t), rows)
      /\ \A e \in rows : Weighted(f, rows, t)[e] > 0 <=> f[e.series] > 0
  BY WeightedIsNat
<1>2. Amount(f, rows, t) \in Nat
  BY <1>1, SumIsNat DEF Amount
<1>3. Amount(f, rows, t) > 0 <=> \E e \in rows : Weighted(f, rows, t)[e] > 0
  BY <1>1, SumPositive DEF Amount
<1> QED
  BY <1>1, <1>2, <1>3

\* A posterior departs from its prior by what was answered.
LEMMA PosteriorRests ==
    ASSUME NEW rows \in SUBSET EvidenceRow, IsFiniteSet(rows), NEW t \in 0..Horizon
    PROVE  /\ Compute(rows, t) \in KnowledgeState
           /\ Compute(rows, t).alpha >= One /\ Compute(rows, t).beta >= One
           /\ Compute(rows, t).alpha > One <=> \E e \in rows : Right[e.series] > 0
           /\ Compute(rows, t).beta > One <=> \E e \in rows : Wrong[e.series] > 0
<1>1. Right \in [Series -> Nat] /\ Wrong \in [Series -> Nat]
  BY SeriesAssumption
<1>2. /\ Amount(Right, rows, t) \in Nat /\ Amount(Wrong, rows, t) \in Nat
      /\ Amount(Right, rows, t) > 0 <=> \E e \in rows : Right[e.series] > 0
      /\ Amount(Wrong, rows, t) > 0 <=> \E e \in rows : Wrong[e.series] > 0
  BY <1>1, AmountPositive
<1>3. Compute(rows, t) = [alpha |-> One + Amount(Right, rows, t),
                          beta |-> One + Amount(Wrong, rows, t)]
  BY ComputeAmounts
<1> QED
  BY <1>2, <1>3, OneIsNat DEF KnowledgeState

\* A half-life halves what all evidence weighs.
LEMMA AmountHalves ==
    ASSUME NEW f \in [Series -> Nat], NEW rows \in SUBSET EvidenceRow,
           IsFiniteSet(rows), NEW t \in 0..Horizon, t < Horizon,
           \A e \in rows : e.at <= t
    PROVE  Amount(f, rows, t) = 2 * Amount(f, rows, t + 1)
<1>1. t + 1 \in 0..Horizon /\ Horizon \in Nat
  BY SeriesAssumption
<1>2. Weighs(Weighted(f, rows, t + 1), rows)
  BY <1>1, WeightedIsNat
<1>3. ASSUME NEW e \in rows
      PROVE  Weighted(f, rows, t)[e] = 2 * Weighted(f, rows, t + 1)[e]
  <2>1. e.at \in 0..Horizon /\ e.at <= t /\ e.series \in Series
    BY DEF EvidenceRow
  <2> DEFINE n == Horizon - Age(e, t + 1)
  <2>2. n \in Nat /\ Horizon - Age(e, t) = n + 1
    BY <1>1, <2>1 DEF Age
  <2>3. Power[n + 1] = 2 * Power[n] /\ Power[n] \in Nat
    BY <2>2, PowerDoubles
  <2>4. Decay(e, t) = 2 * Decay(e, t + 1) /\ Decay(e, t + 1) \in Nat
    <3>1. Decay(e, t) = Power[n + 1] /\ Decay(e, t + 1) = Power[n]
      BY <2>2 DEF Decay
    <3> HIDE DEF n
    <3> QED
      BY <2>3, <3>1
  <2>5. f[e.series] \in Nat
    BY <2>1
  <2>6. /\ Weighted(f, rows, t)[e] = f[e.series] * Decay(e, t)
        /\ Weighted(f, rows, t + 1)[e] = f[e.series] * Decay(e, t + 1)
    BY DEF Weighted
  <2>7. \A a, b, c \in Nat : b = 2 * c => a * b = 2 * (a * c)
    OBVIOUS
  <2> HIDE DEF n
  <2>8. Decay(e, t) \in Nat
    BY <2>4
  <2> QED
    BY <2>4, <2>5, <2>6, <2>7, <2>8
<1>4. SumFunctionOnSet(Weighted(f, rows, t), rows)
        = 2 * SumFunctionOnSet(Weighted(f, rows, t + 1), rows)
  BY <1>2, <1>3, SumDouble
<1> QED
  BY <1>4 DEF Amount

-----------------------------------------------------------------------------
(* Types: the posteriors are sums over finitely many rows. *)

RowsInv ==
    /\ TypeOK
    /\ Serving => page \in Page
    /\ IsFiniteSet(evidence) /\ \A e \in evidence : e.at <= now

LEMMA NothingTyped == Nothing \in Seen
<1>1. /\ [s \in Student |-> 0] \in [Student -> 0..MaxDecisions] /\ 0 \in 0..MaxDecisions
      /\ [c \in Checkpoint |-> "none"] \in [Checkpoint -> Progress]
  BY ViewAssumption DEF Progress
<1> QED
  BY <1>1 DEF Nothing, Seen

LEMMA InitRows == Init => RowsInv
<1> SUFFICES ASSUME Init PROVE RowsInv
  OBVIOUS
<1>1. Horizon \in Nat /\ MaxRaces \in Nat /\ MaxDecisions \in Nat
  BY SeriesAssumption, ViewAssumption
<1>2. seen \in Seen
  BY NothingTyped DEF Init
<1>3. IsFiniteSet(evidence)
  BY FS_EmptySet DEF Init
<1> QED
  BY <1>1, <1>2, <1>3, ViewAssumption
  DEF Init, RowsInv, TypeOK, Progress, Statement, Serving

LEMMA RelevantRows ==
    ASSUME RowsInv, NEW l
    PROVE  /\ Relevant(evidence, l) \in SUBSET EvidenceRow
           /\ IsFiniteSet(Relevant(evidence, l))
<1>1. Relevant(evidence, l) \subseteq evidence
  BY DEF Relevant
<1> QED
  BY <1>1, FS_Subset DEF RowsInv, TypeOK

LEMMA PosteriorTyped == ASSUME RowsInv, NEW l PROVE Posterior(l, now) \in KnowledgeState
<1>1. now \in 0..Horizon
  BY DEF RowsInv, TypeOK
<1> QED
  BY <1>1, RelevantRows, PosteriorRests DEF Posterior

\* The rows of a learner that had been graded in earlier days.
Before(l) == {e \in Relevant(evidence, l) : e.at < now}

\* Whatever a handler has missed, it computed with these, and with no others than
\* those of the learner.
LEMMA EstimatesRest ==
    ASSUME RowsInv, NEW l, NEW state \in Estimates(l)
    PROVE  \E rows \in SUBSET Relevant(evidence, l) :
              /\ Before(l) \subseteq rows /\ rows \in SUBSET EvidenceRow
              /\ IsFiniteSet(rows) /\ state = Compute(rows, now)
<1>1. PICK missed \in SUBSET {e \in evidence : e.at = now} :
        state = Compute(Relevant(evidence \ missed, l), now)
  BY DEF Estimates
<1> DEFINE rows == Relevant(evidence \ missed, l)
<1>2. rows \in SUBSET Relevant(evidence, l)
  BY DEF Relevant
<1>3. Before(l) \subseteq rows
  <2> SUFFICES ASSUME NEW e \in Before(l) PROVE e \in rows
    OBVIOUS
  <2>1. e \in Relevant(evidence, l) /\ e.at < now /\ e \in evidence
    BY DEF Before, Relevant
  <2>2. e.at \in Int /\ now \in Int
    BY <2>1 DEF RowsInv, TypeOK, EvidenceRow
  <2>3. e \notin missed
    BY <2>1, <2>2
  <2> QED
    BY <2>1, <2>3 DEF Relevant
<1>4. rows \in SUBSET EvidenceRow /\ IsFiniteSet(rows)
  BY <1>2, RelevantRows, FS_Subset
<1> QED
  BY <1>1, <1>2, <1>3, <1>4

LEMMA EstimatesTyped ==
    ASSUME RowsInv, NEW l, NEW state \in Estimates(l) PROVE state \in KnowledgeState
<1>1. now \in 0..Horizon
  BY DEF RowsInv, TypeOK
<1> QED
  BY <1>1, EstimatesRest, PosteriorRests

\* Only the columns that a commit writes need to be looked at.
LEMMA CommitTyped ==
    ASSUME RowsInv, UNCHANGED <<now, view>>,
           races' \in 0..MaxRaces,
           evidence' \subseteq EvidenceRow, IsFiniteSet(evidence'),
           \A e \in evidence' : e.at <= now,
           states' \in [Learner -> KnowledgeState \cup {None}],
           decisions' \in Seq(DecisionRow), Len(decisions') <= MaxDecisions,
           checkpoints' \in [Checkpoint -> Progress],
           questions' \in Seq(Question),
           due' \subseteq Learner, completing' \subseteq Checkpoint
    PROVE  RowsInv'
BY DEF RowsInv, TypeOK, view, Serving

LEMMA GradeTyped ==
    ASSUME RowsInv, races' \in 0..MaxRaces, NEW s \in Series, Grade(s)
    PROVE  RowsInv'
<1> DEFINE l == TakenBy[s]
           e == [series |-> s, at |-> now]
           computed(missed) == Relevant((evidence \ missed) \cup {e}, l)
<1>1. l \in Learner /\ now \in 0..Horizon
  BY ViewAssumption DEF RowsInv, TypeOK
<1>2. e \in EvidenceRow /\ e.at = now
  BY <1>1 DEF EvidenceRow
<1>3. evidence' = evidence \cup {e}
  BY DEF Grade
<1>4. evidence' \subseteq EvidenceRow /\ IsFiniteSet(evidence')
  <2> HIDE DEF e
  <2> QED
    BY <1>2, <1>3, FS_AddElement DEF RowsInv, TypeOK
<1>5. \A f \in evidence' : f.at <= now
  BY <1>1, <1>2, <1>3 DEF RowsInv
<1>6. \A missed : Compute(computed(missed), now) \in KnowledgeState
  <2> SUFFICES ASSUME NEW missed PROVE Compute(computed(missed), now) \in KnowledgeState
    OBVIOUS
  <2>1. computed(missed) \subseteq evidence'
    BY <1>3 DEF Relevant
  <2> HIDE DEF computed
  <2>2. computed(missed) \in SUBSET EvidenceRow /\ IsFiniteSet(computed(missed))
    BY <1>4, <2>1, FS_Subset
  <2> QED
    BY <1>1, <2>2, PosteriorRests
<1>7. /\ states' = states
         \/ \E missed : states' = [states EXCEPT ![l] = Compute(computed(missed), now)]
      /\ due' \subseteq due \cup {l}
      /\ UNCHANGED <<now, decisions, checkpoints, questions, completing, view>>
  <2>1. CASE Scheduled(l)
    BY <2>1 DEF Grade
  <2>2. CASE ~Scheduled(l)
    <3>1. PICK missed : /\ states' = [states EXCEPT ![l] = Compute(computed(missed), now)]
                        /\ due' = due \cup {l} \/ due' = due
      BY <2>2 DEF Grade
    <3>2. UNCHANGED <<now, decisions, checkpoints, questions, completing, view>>
      BY DEF Grade
    <3> HIDE DEF computed
    <3> QED
      BY <3>1, <3>2
  <2> QED
    BY <2>1, <2>2
<1>8. states' \in [Learner -> KnowledgeState \cup {None}]
  <2> HIDE DEF computed, l
  <2> QED
    BY <1>6, <1>7 DEF RowsInv, TypeOK
<1>9. due' \subseteq Learner /\ completing' \subseteq Checkpoint
  BY <1>1, <1>7 DEF RowsInv, TypeOK
<1>10. /\ decisions' \in Seq(DecisionRow) /\ Len(decisions') <= MaxDecisions
       /\ checkpoints' \in [Checkpoint -> Progress] /\ questions' \in Seq(Question)
  BY <1>7 DEF RowsInv, TypeOK
<1> HIDE DEF computed, l, e
<1> QED
  BY <1>4, <1>5, <1>7, <1>8, <1>9, <1>10, CommitTyped

\* The row that a decision inserts.
LEMMA Decided ==
    ASSUME RowsInv, NEW l \in Learner, Decide(l)
    PROVE  \E row \in DecisionRow :
              /\ row.learner = l /\ row.at = now /\ row.mastery \in Estimates(l)
              /\ decisions' = Append(decisions, row)
<1>1. PICK state \in Estimates(l), a \in Action, mode \in Mode :
        decisions' = Append(decisions,
          [learner |-> l, at |-> now, mastery |-> state, action |-> a,
           result |-> Authorize(a, LabelOf(state), mode.minor, FALSE),
           shadow |-> mode.shadow])
  BY DEF Decide
<1> DEFINE row == [learner |-> l, at |-> now, mastery |-> state, action |-> a,
                   result |-> Authorize(a, LabelOf(state), mode.minor, FALSE),
                   shadow |-> mode.shadow]
<1>2. state \in KnowledgeState /\ now \in 0..Horizon
  BY EstimatesTyped DEF RowsInv, TypeOK
<1>3. mode.shadow \in BOOLEAN
  BY ViewAssumption
<1>4. Authorize(a, LabelOf(state), mode.minor, FALSE) \in Authorization
  BY DEF Authorize, Authorization
<1>5. row \in DecisionRow
  BY <1>2, <1>3, <1>4 DEF DecisionRow
<1>6. row.learner = l /\ row.at = now /\ row.mastery \in Estimates(l)
  OBVIOUS
<1>7. decisions' = Append(decisions, row)
  BY <1>1
<1> HIDE DEF row
<1> QED
  BY <1>5, <1>6, <1>7

LEMMA DecideTyped ==
    ASSUME RowsInv, races' \in 0..MaxRaces, NEW l \in Learner, Decide(l)
    PROVE  RowsInv'
<1>1. PICK row \in DecisionRow : decisions' = Append(decisions, row)
  BY Decided
<1>2. decisions' \in Seq(DecisionRow) /\ Len(decisions') <= MaxDecisions
  <2>1. /\ decisions \in Seq(DecisionRow) /\ Len(decisions) < MaxDecisions
        /\ MaxDecisions \in Nat
    BY ViewAssumption DEF RowsInv, TypeOK, Decide
  <2> QED
    BY <1>1, <2>1
<1>3. UNCHANGED <<now, evidence, states, checkpoints, questions, due, completing, view>>
  BY DEF Decide
<1>4. /\ evidence' \subseteq EvidenceRow /\ IsFiniteSet(evidence')
      /\ \A e \in evidence' : e.at <= now
      /\ states' \in [Learner -> KnowledgeState \cup {None}]
      /\ checkpoints' \in [Checkpoint -> Progress] /\ questions' \in Seq(Question)
      /\ due' \subseteq Learner /\ completing' \subseteq Checkpoint
  BY <1>3 DEF RowsInv, TypeOK
<1> QED
  BY <1>2, <1>3, <1>4, CommitTyped

LEMMA OthersTyped == ASSUME RowsInv, ViewInv, OthersCommit PROVE RowsInv'
<1>1. races' \in 0..MaxRaces
  BY ViewAssumption DEF OthersCommit, RowsInv, TypeOK
<1>2. ASSUME NEW l \in Learner, ScheduleCheckpoints(l) PROVE RowsInv'
  <2>1. /\ due' = due \ {l}
        /\ checkpoints' \in [Checkpoint -> Progress]
        /\ UNCHANGED <<now, evidence, states, decisions, questions, completing, view>>
    BY <1>2 DEF ScheduleCheckpoints, RowsInv, TypeOK, Progress
  <2> QED
    BY <1>1, <2>1, CommitTyped DEF RowsInv, TypeOK
<1>3. ASSUME NEW l \in Learner, Recompute(l) PROVE RowsInv'
  <2>1. PICK state \in Estimates(l) : states' = [states EXCEPT ![l] = state]
    BY <1>3 DEF Recompute
  <2>2. states' \in [Learner -> KnowledgeState \cup {None}]
    BY <2>1, EstimatesTyped DEF RowsInv, TypeOK
  <2>3. UNCHANGED <<now, evidence, decisions, checkpoints, questions, due, completing,
                    view>>
    BY <1>3 DEF Recompute
  <2> QED
    BY <1>1, <2>2, <2>3, CommitTyped DEF RowsInv, TypeOK
<1>4. ASSUME NEW c \in Checkpoint,
             LoadCheckpoint(c) \/ CompleteCheckpoint(c) \/ AbandonCheckpoint(c)
      PROVE  RowsInv'
  <2>1. checkpoints' \in [Checkpoint -> Progress] /\ completing' \subseteq Checkpoint
    BY <1>4
    DEF LoadCheckpoint, CompleteCheckpoint, AbandonCheckpoint, RowsInv, TypeOK, Progress
  <2>2. UNCHANGED <<now, evidence, states, decisions, questions, due, view>>
    BY <1>4 DEF LoadCheckpoint, CompleteCheckpoint, AbandonCheckpoint
  <2> QED
    BY <1>1, <2>1, <2>2, CommitTyped DEF RowsInv, TypeOK
<1>5. ASSUME NEW q \in Question, CreateQuestion(q) PROVE RowsInv'
  <2>1. /\ questions' \in Seq(Question)
        /\ UNCHANGED <<now, evidence, states, decisions, checkpoints, due, completing,
                       view>>
    BY <1>5 DEF CreateQuestion, RowsInv, TypeOK
  <2> QED
    BY <1>1, <2>1, CommitTyped DEF RowsInv, TypeOK
<1> QED
  BY <1>1, <1>2, <1>3, <1>4, <1>5, GradeTyped, DecideTyped DEF OthersCommit, Commit

\* What the queries of a page return.
LEMMA QueryTyped ==
    ASSUME RowsInv, Serving, UNCHANGED <<tables, races>>,
           page' \in Page, pc' \in Statement, seen' \in Seen
    PROVE  RowsInv'
BY DEF RowsInv, TypeOK, tables

LEMMA PageTyped == ASSUME RowsInv, ViewInv, Query PROVE RowsInv'
<1>1. CASE Answer
  <2>1. seen' \in Seen
    BY <1>1, NothingTyped DEF Answer
  <2> QED
    BY <1>1, <2>1, ViewAssumption
    DEF Answer, RowsInv, TypeOK, tables, Statement, Serving
<1> SUFFICES ASSUME ~Answer PROVE RowsInv'
  BY <1>1
<1>2. Serving /\ page \in Page /\ seen \in Seen /\ Len(decisions) \in 0..MaxDecisions
  <2>1. Serving
    BY DEF Query, ReadStates, ReadDecisions, ReadCheckpoints, ReadHypotheses,
           CountCheckpoints, CountHypotheses, CountDecisions, ReadAttempts,
           ReadQuestions, Read, Serving
  <2>2. decisions \in Seq(DecisionRow) /\ Len(decisions) <= MaxDecisions
    BY DEF RowsInv, TypeOK
  <2>3. Len(decisions) \in 0..MaxDecisions
    BY <2>2, ViewAssumption
  <2> QED
    BY <2>1, <2>3 DEF RowsInv, TypeOK
<1>3. CASE ReadStates
  <2>1. PICK s \in Student :
          /\ page' = [page EXCEPT !.student = s]
          /\ seen' = [seen EXCEPT !.weak = @ \cup Weak(s)]
          /\ pc' = "read_decisions" /\ UNCHANGED <<tables, races>>
    BY <1>3 DEF ReadStates
  <2>2. Weak(s) \subseteq Learner
    BY DEF Weak
  <2>3. page' \in Page /\ seen' \in Seen
    BY <1>2, <2>1, <2>2 DEF Page, Seen
  <2> QED
    BY <1>2, <2>1, <2>3, QueryTyped DEF Statement
<1>4. CASE ReadDecisions
  <2>1. seen' \in Seen
    BY <1>2, <1>4 DEF ReadDecisions, Read, Seen
  <2> QED
    BY <1>2, <1>4, <2>1, QueryTyped DEF ReadDecisions, Read, Statement
<1>5. CASE ReadCheckpoints
  <2>1. Pending(page.student) \subseteq Checkpoint
    BY DEF Pending
  <2>2. seen' \in Seen
    BY <1>2, <1>5, <2>1 DEF ReadCheckpoints, Read, Seen
  <2> QED
    BY <1>2, <1>5, <2>2, QueryTyped DEF ReadCheckpoints, Read, Statement
<1>6. CASE ReadHypotheses
  <2>1. Forgetting(page.student) \subseteq Learner
    BY DEF Forgetting
  <2>2. seen' \in Seen
    BY <1>2, <1>6, <2>1 DEF ReadHypotheses, Read, Seen
  <2> QED
    BY <1>2, <1>6, <2>2, QueryTyped DEF ReadHypotheses, Read, Statement
<1>7. CASE CountCheckpoints \/ CountHypotheses
  <2>1. seen' \in Seen
    BY <1>2, <1>7 DEF CountCheckpoints, CountHypotheses, Read, Seen, RowsInv, TypeOK
  <2> QED
    BY <1>2, <1>7, <2>1, QueryTyped DEF CountCheckpoints, CountHypotheses, Read, Statement
<1>8. CASE CountDecisions
  <2>1. seen' \in Seen
    BY <1>2, <1>8 DEF CountDecisions, Read, Seen
  <2> QED
    BY <1>2, <1>8, <2>1, QueryTyped DEF CountDecisions, Read, Statement
<1>9. CASE ReadAttempts
  <2>1. \A l : Attempts(l) \subseteq Question
    <3>1. \A e \in evidence : Asked[e.series] \subseteq Question
      BY ViewAssumption DEF RowsInv, TypeOK, EvidenceRow
    <3> QED
      BY <3>1 DEF Attempts, Relevant
  <2>2. seen' \in Seen
    BY <1>2, <1>9, <2>1 DEF ReadAttempts, Read, Seen
  <2> QED
    BY <1>2, <1>9, <2>2, QueryTyped DEF ReadAttempts, Read, Statement
<1>10. CASE ReadQuestions
  <2>1. Len(questions) \in Nat
    BY DEF RowsInv, TypeOK
  <2>2. seen' \in Seen
    BY <1>2, <1>10, <2>1 DEF ReadQuestions, Read, Seen
  <2> QED
    BY <1>2, <1>10, <2>2, QueryTyped DEF ReadQuestions, Read, Statement
<1> QED
  BY <1>3, <1>4, <1>5, <1>6, <1>7, <1>8, <1>9, <1>10 DEF Query

LEMMA OpenTyped ==
    ASSUME RowsInv, NEW p \in Page, NEW first \in Statement,
           NEW todo \in SUBSET Student, Open(p, first, todo)
    PROVE  RowsInv'
<1>1. Nothing \in Seen
  BY NothingTyped
<1>2. seen' \in Seen
  BY <1>1 DEF Open, Seen
<1> QED
  BY <1>2 DEF Open, RowsInv, TypeOK, tables

LEMMA RowsStep == RowsInv /\ ViewInv /\ [Next]_vars => RowsInv'
<1> SUFFICES ASSUME RowsInv, ViewInv, [Next]_vars PROVE RowsInv'
  OBVIOUS
<1>0. MaxDecisions \in Nat /\ Linked \subseteq Student
  BY ViewAssumption
<1>1. ASSUME NEW s \in Student, OpenStudent(s) PROVE RowsInv'
  BY <1>0, <1>1, OpenTyped DEF OpenStudent, Page, Statement
<1>2. CASE OpenTeacher
  BY <1>0, <1>2, OpenTyped DEF OpenTeacher, Page, Statement
<1>3. CASE OpenAdmin
  BY <1>0, <1>3, OpenTyped DEF OpenAdmin, Page, Statement
<1>4. ASSUME NEW n \in DOMAIN decisions, OpenTask(n) PROVE RowsInv'
  <2>1. decisions \in Seq(DecisionRow) /\ Len(decisions) <= MaxDecisions
    BY DEF RowsInv, TypeOK
  <2>2. n \in 0..MaxDecisions /\ decisions[n] \in DecisionRow
    BY <1>0, <2>1
  <2>3. decisions[n].learner[1] \in Student
    BY <2>2 DEF DecisionRow, Learner
  <2> QED
    BY <1>4, <2>2, <2>3, OpenTyped DEF OpenTask, Page, Statement
<1>5. CASE Tick
  <2>1. now' \in 0..Horizon /\ now <= now'
    BY <1>5, SeriesAssumption DEF Tick, RowsInv, TypeOK
  <2>2. \A e \in evidence : e.at <= now'
    <3>1. \A e \in evidence : e.at \in 0..Horizon /\ e.at <= now
      BY DEF RowsInv, TypeOK, EvidenceRow
    <3> QED
      BY <1>5, <2>1, <3>1 DEF Tick, RowsInv, TypeOK
  <2> QED
    BY <1>5, <2>1, <2>2 DEF Tick, RowsInv, TypeOK, view, Serving
<1>6. CASE UNCHANGED vars
  BY <1>6 DEF vars, view, tables, RowsInv, TypeOK, Serving
<1> QED
  BY <1>1, <1>2, <1>3, <1>4, <1>5, <1>6, OthersTyped, PageTyped DEF Next

LEMMA AlwaysRows == Spec => []RowsInv
  BY InitRows, RowsStep, AlwaysView, PTL DEF Spec

\* The tables and what a page holds of them keep their types; in particular a
\* posterior, which is a sum over the rows of a learner, is of natural numbers.
THEOREM TypeCorrect == Spec => []TypeOK
<1>1. RowsInv => TypeOK
  BY DEF RowsInv
<1> QED
  BY <1>1, AlwaysRows, PTL

-----------------------------------------------------------------------------
(* Time *)

\* Halving both distances from the prior, one by one.
LEMMA HalvesFade ==
    ASSUME NEW one \in Nat \ {0}, NEW x \in Nat, NEW y \in Nat,
           NEW lead, lead = x - y, NEW now1, now1 = 2 * one + x + y,
           NEW before, before = 2 * one + 2 * x + 2 * y
    PROVE  /\ lead * (2 * lead) >= 0
           /\ lead * lead * before * before <= (2 * lead) * (2 * lead) * now1 * now1
<1> DEFINE k == lead * lead
<1>1. lead \in Int /\ k \in Nat
  <2>1. lead \in Int
    OBVIOUS
  <2>2. \A n \in Int : n * n \in Nat
    OBVIOUS
  <2> QED
    BY <2>1, <2>2
<1>2. now1 \in Nat /\ before \in Nat /\ before <= 2 * now1
  OBVIOUS
<1>3. before * before <= (2 * now1) * (2 * now1)
  <2>1. \A m, n \in Nat : m <= n => m * m <= n * n
    OBVIOUS
  <2> QED
    BY <1>2, <2>1
<1>4. lead * (2 * lead) = 2 * k
  BY <1>1
<1>5. lead * lead * before * before = k * (before * before)
  BY <1>1, <1>2
<1>6. (2 * lead) * (2 * lead) * now1 * now1 = k * ((2 * now1) * (2 * now1))
  BY <1>1, <1>2
<1>7. \A m, n \in Nat : m <= n => k * m <= k * n
  BY <1>1
<1>8. before * before \in Nat /\ (2 * now1) * (2 * now1) \in Nat
  BY <1>2
<1> QED
  BY <1>1, <1>3, <1>4, <1>5, <1>6, <1>7, <1>8

\* With every half-life a posterior moves halfway back to the prior, so that
\* neither its confidence nor its distance from one half ever grows by itself.
THEOREM TimeFades == Spec => FadesTowardsDoubt
<1>1. RowsInv /\ [Next]_vars =>
        [now' # now => \A l \in Learner :
           LET old == Posterior(l, now)
               new == Posterior(l, now') IN
             /\ Rank[LabelOf(new)] <= Rank[LabelOf(old)]
             /\ Lead(new) * Lead(old) >= 0
             /\ Lead(new) * Lead(new) * Total(old) * Total(old)
                  <= Lead(old) * Lead(old) * Total(new) * Total(new)]_vars
  <2> SUFFICES ASSUME RowsInv, [Next]_vars, now' # now, NEW l \in Learner
               PROVE  /\ Rank[LabelOf(Posterior(l, now'))]
                            <= Rank[LabelOf(Posterior(l, now))]
                      /\ Lead(Posterior(l, now')) * Lead(Posterior(l, now)) >= 0
                      /\ Lead(Posterior(l, now')) * Lead(Posterior(l, now'))
                             * Total(Posterior(l, now)) * Total(Posterior(l, now))
                           <= Lead(Posterior(l, now)) * Lead(Posterior(l, now))
                                * Total(Posterior(l, now')) * Total(Posterior(l, now'))
    OBVIOUS
  <2>1. now' = now + 1 /\ now < Horizon
    <3>1. CASE Tick
      BY <3>1 DEF Tick
    <3>2. ASSUME OthersCommit PROVE now' = now
      BY <3>2 DEF OthersCommit, Commit, Grade, ScheduleCheckpoints, Recompute, Decide,
                  LoadCheckpoint, CompleteCheckpoint, AbandonCheckpoint, CreateQuestion
    <3>3. ASSUME Query PROVE now' = now
      BY <3>3 DEF Query, ReadStates, ReadDecisions, ReadCheckpoints, ReadHypotheses,
                  CountCheckpoints, CountHypotheses, CountDecisions, ReadAttempts,
                  ReadQuestions, Read, Answer, tables
    <3>4. ASSUME \/ \E s \in Student : OpenStudent(s)
                 \/ OpenTeacher \/ OpenAdmin
                 \/ \E n \in DOMAIN decisions : OpenTask(n)
          PROVE  now' = now
      BY <3>4 DEF OpenStudent, OpenTeacher, OpenAdmin, OpenTask, Open, tables
    <3>5. ASSUME UNCHANGED vars PROVE now' = now
      BY <3>5 DEF vars, tables
    <3> QED
      BY <3>1, <3>2, <3>3, <3>4, <3>5 DEF Next
  <2> DEFINE rows == Relevant(evidence, l)
             x == Amount(Right, rows, now + 1)
             y == Amount(Wrong, rows, now + 1)
             old == Posterior(l, now)
             new == Posterior(l, now + 1)
  <2>2. rows \in SUBSET EvidenceRow /\ IsFiniteSet(rows) /\ \A e \in rows : e.at <= now
    BY RelevantRows DEF RowsInv, Relevant
  <2>3. now \in 0..Horizon /\ now + 1 \in 0..Horizon
    BY <2>1, SeriesAssumption DEF RowsInv, TypeOK
  <2>4. Right \in [Series -> Nat] /\ Wrong \in [Series -> Nat]
    BY SeriesAssumption
  <2>5. x \in Nat /\ y \in Nat
    <3> HIDE DEF rows
    <3> QED
      BY <2>2, <2>3, <2>4, AmountPositive
  <2>6. Amount(Right, rows, now) = 2 * x /\ Amount(Wrong, rows, now) = 2 * y
    <3> HIDE DEF rows
    <3> QED
      BY <2>1, <2>2, <2>3, <2>4, AmountHalves
  <2>7. old = [alpha |-> One + 2 * x, beta |-> One + 2 * y]
    BY <2>6, ComputeAmounts DEF Posterior
  <2>8. new = [alpha |-> One + x, beta |-> One + y]
    BY ComputeAmounts DEF Posterior
  <2> HIDE DEF rows, x, y, old, new
  <2>9. /\ Lead(old) = 2 * Lead(new) /\ Lead(new) = x - y
        /\ Total(old) = 2 * One + 2 * x + 2 * y
        /\ Total(new) = 2 * One + x + y
    BY <2>5, <2>7, <2>8, OneIsNat DEF Lead, Total
  <2>10. Rank[LabelOf(new)] <= Rank[LabelOf(old)]
    <3>1. EffectiveN(new) = x + y /\ EffectiveN(old) = 2 * (x + y)
      BY <2>5, <2>9, OneIsNat DEF EffectiveN
    <3> QED
      BY <2>5, <3>1, OneIsNat DEF LabelOf, Rank
  <2>11. /\ Lead(new) * Lead(old) >= 0
         /\ Lead(new) * Lead(new) * Total(old) * Total(old)
              <= Lead(old) * Lead(old) * Total(new) * Total(new)
    BY <2>5, <2>9, OneIsNat, HalvesFade
  <2> QED
    BY <2>1, <2>10, <2>11 DEF old, new
<1> QED
  BY <1>1, AlwaysRows, PTL DEF Spec, FadesTowardsDoubt

-----------------------------------------------------------------------------
(* Trends: what became of the posterior that a decision rested on. *)

\* The probability of state is not above that of before; and where before was
\* below one half, so is state.
NotAbove(state, before) ==
    IF Lead(before) >= 0
    THEN state.alpha * Total(before) <= before.alpha * Total(state)
    ELSE Lead(state) < 0

LEMMA NotAboveItself ==
    ASSUME NEW d \in KnowledgeState PROVE NotAbove(d, d)
<1>1. d.alpha \in Nat /\ d.beta \in Nat
  BY DEF KnowledgeState
<1>2. d.alpha * Total(d) \in Int /\ Lead(d) \in Int
  BY <1>1 DEF Total, Lead
<1> QED
  BY <1>2 DEF NotAbove

\* Wrong answers only lower it,
LEMMA WrongLowers ==
    ASSUME NEW d \in KnowledgeState, NEW x \in KnowledgeState, NEW y \in KnowledgeState,
           NotAbove(x, d), y.alpha = x.alpha, y.beta >= x.beta
    PROVE  NotAbove(y, d)
<1>1. /\ d.alpha \in Nat /\ d.beta \in Nat /\ x.alpha \in Nat /\ x.beta \in Nat
      /\ y.alpha \in Nat /\ y.beta \in Nat
  BY DEF KnowledgeState
<1>2. CASE Lead(d) >= 0
  <2>1. x.alpha * Total(d) <= d.alpha * Total(x)
    BY <1>2 DEF NotAbove
  <2>2. Total(x) \in Nat /\ Total(y) \in Nat /\ Total(d) \in Nat /\ Total(x) <= Total(y)
    BY <1>1 DEF Total
  <2>3. d.alpha * Total(x) <= d.alpha * Total(y)
    <3>1. \A k, m, n \in Nat : m <= n => k * m <= k * n
      OBVIOUS
    <3> QED
      BY <1>1, <2>2, <3>1
  <2>4. /\ x.alpha * Total(d) \in Nat /\ d.alpha * Total(x) \in Nat
        /\ d.alpha * Total(y) \in Nat
    <3>1. \A m, n \in Nat : m * n \in Nat
      OBVIOUS
    <3> QED
      BY <1>1, <2>2, <3>1
  <2>5. y.alpha * Total(d) <= d.alpha * Total(y)
    BY <2>1, <2>3, <2>4
  <2> QED
    BY <1>2, <2>5 DEF NotAbove
<1>3. CASE ~(Lead(d) >= 0)
  BY <1>1, <1>3 DEF NotAbove, Lead
<1> QED
  BY <1>2, <1>3

\* and so does time.
LEMMA TimeLowers ==
    ASSUME NEW d \in KnowledgeState, NEW one \in Nat, NEW v \in Nat, NEW w \in Nat,
           NEW x, x = [alpha |-> one + 2 * v, beta |-> one + 2 * w],
           NEW y, y = [alpha |-> one + v, beta |-> one + w],
           NotAbove(x, d)
    PROVE  NotAbove(y, d)
<1>1. d.alpha \in Nat /\ d.beta \in Nat
  BY DEF KnowledgeState
<1> DEFINE a == d.alpha
           t == d.alpha + d.beta
<1>2. a \in Nat /\ t \in Nat /\ Total(d) = t
  BY <1>1 DEF Total
<1>3. /\ Total(x) = 2 * one + 2 * v + 2 * w /\ Total(y) = 2 * one + v + w
      /\ Lead(x) = 2 * (v - w) /\ Lead(y) = v - w
  BY DEF Total, Lead
<1>4. CASE Lead(d) >= 0
  <2>1. (one + 2 * v) * t <= a * (2 * one + 2 * v + 2 * w)
    BY <1>2, <1>3, <1>4 DEF NotAbove
  <2>2. t <= 2 * a
    BY <1>1, <1>4 DEF Lead
  <2> HIDE DEF a, t
  <2>3. one * t <= one * (2 * a)
    <3>1. \A k, m, n \in Nat : m <= n => k * m <= k * n
      OBVIOUS
    <3> QED
      BY <1>2, <2>2, <3>1
  <2>4. one * t + (one + 2 * v) * t <= one * (2 * a) + a * (2 * one + 2 * v + 2 * w)
    <3>1. \A m, n \in Nat : m * n \in Nat
      OBVIOUS
    <3> QED
      BY <1>2, <2>1, <2>3, <3>1
  <2>5. one * t + (one + 2 * v) * t = 2 * ((one + v) * t)
    BY <1>2
  <2>6. one * (2 * a) + a * (2 * one + 2 * v + 2 * w) = 2 * (a * (2 * one + v + w))
    BY <1>2
  <2>7. (one + v) * t <= a * (2 * one + v + w)
    <3>1. (one + v) * t \in Nat /\ a * (2 * one + v + w) \in Nat
      <4>1. \A m, n \in Nat : m * n \in Nat
        OBVIOUS
      <4> QED
        BY <1>2, <4>1
    <3> QED
      BY <2>4, <2>5, <2>6, <3>1
  <2>8. y.alpha * Total(d) <= d.alpha * Total(y)
    <3>1. y.alpha = one + v /\ d.alpha = a
      BY DEF a
    <3> QED
      BY <1>2, <1>3, <2>7, <3>1
  <2> QED
    BY <1>4, <2>8 DEF NotAbove
<1>5. CASE ~(Lead(d) >= 0)
  <2>1. Lead(x) < 0
    BY <1>5 DEF NotAbove
  <2> QED
    BY <1>3, <1>5, <2>1 DEF NotAbove
<1> QED
  BY <1>4, <1>5

\* Rows without right answers leave alpha alone, rows without wrong ones beta.
LEMMA AmountOfLarger ==
    ASSUME NEW f \in [Series -> Nat], NEW all \in SUBSET EvidenceRow, IsFiniteSet(all),
           NEW rows \in SUBSET all, NEW t \in 0..Horizon
    PROVE  /\ Amount(f, rows, t) \in Nat /\ Amount(f, all, t) \in Nat
           /\ Amount(f, rows, t) <= Amount(f, all, t)
           /\ (\A e \in all \ rows : f[e.series] = 0) => Amount(f, rows, t) = Amount(f, all, t)
<1> DEFINE g == Weighted(f, rows, t)
           h == Weighted(f, all, t)
<1>1. rows \in SUBSET EvidenceRow /\ IsFiniteSet(rows)
  BY FS_Subset
<1>2. Weighs(g, rows) /\ Weighs(h, all)
  BY <1>1, WeightedIsNat
<1>3. \A e \in rows : g[e] = h[e]
  BY DEF Weighted
<1>4. Amount(f, rows, t) = SumFunctionOnSet(g, rows)
      /\ Amount(f, all, t) = SumFunctionOnSet(h, all)
  BY DEF Amount
<1>5. ASSUME \A e \in all \ rows : f[e.series] = 0
      PROVE  \A e \in all \ rows : h[e] = 0
  <2> SUFFICES ASSUME NEW e \in all \ rows PROVE h[e] = 0
    OBVIOUS
  <2>1. Decay(e, t) \in Nat
    BY DecayIsPositive
  <2>2. h[e] = f[e.series] * Decay(e, t)
    BY DEF Weighted
  <2> QED
    BY <1>5, <2>1, <2>2
<1> HIDE DEF g, h
<1>6. SumFunctionOnSet(g, rows) = SumFunctionOnSet(h, rows)
  BY <1>1, <1>2, <1>3, SumOfZeros
<1>7. SumFunctionOnSet(h, rows) <= SumFunctionOnSet(h, all)
  BY <1>2, SumOfLarger
<1>8. SumFunctionOnSet(g, rows) \in Nat /\ SumFunctionOnSet(h, all) \in Nat
  BY <1>1, <1>2, SumIsNat
<1>9. (\A e \in all \ rows : h[e] = 0) => SumFunctionOnSet(h, all) = SumFunctionOnSet(g, rows)
  BY <1>2, <1>3, SumOfZeros
<1> QED
  BY <1>4, <1>5, <1>6, <1>7, <1>8, <1>9

\* What a posterior becomes with more rows, none of them with a right answer.
LEMMA ComputeOfLarger ==
    ASSUME NEW all \in SUBSET EvidenceRow, IsFiniteSet(all), NEW rows \in SUBSET all,
           NEW t \in 0..Horizon, \A e \in all \ rows : Right[e.series] = 0
    PROVE  /\ Compute(rows, t) \in KnowledgeState /\ Compute(all, t) \in KnowledgeState
           /\ Compute(all, t).alpha = Compute(rows, t).alpha
           /\ Compute(all, t).beta >= Compute(rows, t).beta
           /\ (\A e \in all \ rows : Wrong[e.series] = 0) => Compute(all, t) = Compute(rows, t)
<1>1. Right \in [Series -> Nat] /\ Wrong \in [Series -> Nat]
  BY SeriesAssumption
<1>2. /\ Compute(rows, t) = [alpha |-> One + Amount(Right, rows, t),
                             beta |-> One + Amount(Wrong, rows, t)]
      /\ Compute(all, t) = [alpha |-> One + Amount(Right, all, t),
                            beta |-> One + Amount(Wrong, all, t)]
  BY ComputeAmounts
<1>3. /\ Amount(Right, rows, t) \in Nat /\ Amount(Right, all, t) = Amount(Right, rows, t)
      /\ Amount(Wrong, rows, t) \in Nat /\ Amount(Wrong, all, t) \in Nat
      /\ Amount(Wrong, rows, t) <= Amount(Wrong, all, t)
      /\ (\A e \in all \ rows : Wrong[e.series] = 0) =>
           Amount(Wrong, rows, t) = Amount(Wrong, all, t)
  BY <1>1, AmountOfLarger
<1> QED
  BY <1>2, <1>3, OneIsNat DEF KnowledgeState

LEMMA ComputeHalves ==
    ASSUME NEW rows \in SUBSET EvidenceRow, IsFiniteSet(rows),
           NEW t \in 0..Horizon, t < Horizon, \A e \in rows : e.at <= t,
           NEW d \in KnowledgeState, NotAbove(Compute(rows, t), d)
    PROVE  NotAbove(Compute(rows, t + 1), d)
<1> DEFINE v == Amount(Right, rows, t + 1)
           w == Amount(Wrong, rows, t + 1)
<1>1. Right \in [Series -> Nat] /\ Wrong \in [Series -> Nat] /\ t + 1 \in 0..Horizon
  BY SeriesAssumption
<1>2. v \in Nat /\ w \in Nat
  BY <1>1, AmountPositive
<1>3. Amount(Right, rows, t) = 2 * v /\ Amount(Wrong, rows, t) = 2 * w
  BY <1>1, AmountHalves
<1>4. /\ Compute(rows, t) = [alpha |-> One + 2 * v, beta |-> One + 2 * w]
      /\ Compute(rows, t + 1) = [alpha |-> One + v, beta |-> One + w]
  BY <1>3, ComputeAmounts
<1> HIDE DEF v, w
<1> QED
  BY <1>2, <1>4, OneIsNat, TimeLowers

\* Evidence is never taken back, and most commits leave the decisions alone.
LEMMA TablesGrow ==
    ASSUME RowsInv, [Next]_vars
    PROVE  /\ evidence \subseteq evidence'
           /\ Tick \/ (now' = now /\ \A e \in evidence' \ evidence : e.at = now)
           /\ decisions' = decisions \/ \E l \in Learner : Decide(l)
           /\ questions' = questions \/ \E q \in Question : CreateQuestion(q)
<1>1. CASE Tick
  BY <1>1 DEF Tick
<1>2. CASE OthersCommit
  <2>1. ASSUME NEW s \in Series, Grade(s)
        PROVE  /\ evidence' = evidence \cup {[series |-> s, at |-> now]}
               /\ UNCHANGED <<now, decisions, questions>>
    BY <2>1 DEF Grade
  <2>2. CASE ~\E s \in Series : Grade(s)
    BY <1>2, <2>2 DEF OthersCommit, Commit, ScheduleCheckpoints, Recompute, Decide,
              LoadCheckpoint, CompleteCheckpoint, AbandonCheckpoint, CreateQuestion
  <2> QED
    BY <2>1, <2>2
<1>3. CASE Query
  BY <1>3 DEF Query, ReadStates, ReadDecisions, ReadCheckpoints, ReadHypotheses,
              CountCheckpoints, CountHypotheses, CountDecisions, ReadAttempts,
              ReadQuestions, Read, Answer, tables
<1>4. CASE \/ \E s \in Student : OpenStudent(s)
           \/ OpenTeacher \/ OpenAdmin
           \/ \E n \in DOMAIN decisions : OpenTask(n)
  BY <1>4 DEF OpenStudent, OpenTeacher, OpenAdmin, OpenTask, Open, tables
<1>5. CASE UNCHANGED vars
  BY <1>5 DEF vars, tables
<1> QED
  BY <1>1, <1>2, <1>3, <1>4, <1>5 DEF Next


\* No right answer since time t.
NoneRight(l, t) == \A e \in Relevant(evidence, l) : e.at >= t => Right[e.series] = 0

Because(l, first, last) ==
    \/ \E e \in Relevant(evidence, l) :
         Right[e.series] > 0 /\ e.at \in first.at..last.at
    \/ first.at < last.at /\ Lead(first.mastery) < 0 /\ Lead(last.mastery) < 0
    \/ /\ first.at = last.at
       /\ \E e \in Relevant(evidence, l) : Wrong[e.series] > 0 /\ e.at = last.at

\* What a decision of this day rested on, and what has become of that of an
\* earlier day, had nothing been answered correctly since.
Grounded(d) ==
    LET l == d.learner IN
    /\ d.at <= now /\ Total(d.mastery) > 0
    /\ d.at = now => \E rows \in SUBSET Relevant(evidence, l) :
                        Before(l) \subseteq rows /\ d.mastery = Compute(rows, now)
    /\ d.at < now /\ NoneRight(l, d.at) =>
         NotAbove(Compute(Before(l), now), d.mastery)

Trend ==
    /\ \A n \in 1..Len(decisions) : Grounded(decisions[n])
    /\ \A m, n \in 1..Len(decisions) :
         LET first == decisions[m]
             last == decisions[n] IN
         m < n /\ first.learner = last.learner /\ Improved(first.mastery, last.mastery)
         => Because(last.learner, first, last)

LEMMA DecisionTyped ==
    ASSUME RowsInv, NEW n \in 1..Len(decisions) PROVE decisions[n] \in DecisionRow
<1>1. decisions \in Seq(DecisionRow)
  BY DEF RowsInv, TypeOK
<1> QED
  BY <1>1

LEMMA ImprovedRises ==
    ASSUME NEW x \in KnowledgeState, NEW y \in KnowledgeState,
           Total(x) > 0, Total(y) > 0, Improved(x, y)
    PROVE  x.alpha * Total(y) < y.alpha * Total(x)
<1>1. x.alpha \in Nat /\ y.alpha \in Nat /\ Total(x) \in Nat /\ Total(y) \in Nat
  BY DEF KnowledgeState, Total
<1>2. Total(x) * Total(y) \in Nat /\ Total(x) * Total(y) > 0
  <2>1. \A m, n \in Nat : m > 0 /\ n > 0 => m * n \in Nat /\ m * n > 0
    OBVIOUS
  <2> QED
    BY <1>1, <2>1
<1>3. x.alpha * Total(y) \in Nat /\ y.alpha * Total(x) \in Nat
  <2>1. \A m, n \in Nat : m * n \in Nat
    OBVIOUS
  <2> QED
    BY <1>1, <2>1
<1> QED
  BY <1>2, <1>3 DEF Improved

\* Rows of this day are all that a handler can have missed.
LEMMA OnlyToday ==
    ASSUME RowsInv, NEW l, NEW rows, Before(l) \subseteq rows,
           NEW e \in Relevant(evidence, l) \ rows
    PROVE  e.at = now
<1>1. e \in evidence /\ e.at \in Int /\ now \in Int /\ e.at <= now
  BY DEF RowsInv, TypeOK, Relevant, EvidenceRow
<1>2. ~(e.at < now)
  BY DEF Before
<1> QED
  BY <1>1, <1>2

\* With no right answer today, whatever is computed today is not above what had
\* been computed with less of today's rows.
LEMMA MoreLowers ==
    ASSUME RowsInv, NEW l, NEW all \in SUBSET Relevant(evidence, l),
           NEW rows \in SUBSET all, Before(l) \subseteq rows, NoneRight(l, now),
           NEW d \in KnowledgeState, NotAbove(Compute(rows, now), d)
    PROVE  NotAbove(Compute(all, now), d)
<1>1. now \in 0..Horizon
  BY DEF RowsInv, TypeOK
<1>2. all \in SUBSET EvidenceRow /\ IsFiniteSet(all)
  BY RelevantRows, FS_Subset
<1>3. \A e \in all \ rows : Right[e.series] = 0
  <2> SUFFICES ASSUME NEW e \in all \ rows PROVE Right[e.series] = 0
    OBVIOUS
  <2>1. e.at = now
    BY OnlyToday
  <2> QED
    BY <1>1, <2>1 DEF NoneRight
<1>4. /\ Compute(rows, now) \in KnowledgeState /\ Compute(all, now) \in KnowledgeState
      /\ Compute(all, now).alpha = Compute(rows, now).alpha
      /\ Compute(all, now).beta >= Compute(rows, now).beta
  BY <1>1, <1>2, <1>3, ComputeOfLarger
<1> QED
  BY <1>4, WrongLowers

\* Rows that count for nothing change nothing.
LEMMA SameToday ==
    ASSUME RowsInv, NEW l, NEW rows \in SUBSET Relevant(evidence, l),
           Before(l) \subseteq rows,
           \A e \in Relevant(evidence, l) :
              e.at = now => Right[e.series] = 0 /\ Wrong[e.series] = 0
    PROVE  Compute(rows, now) = Compute(Before(l), now)
<1>1. now \in 0..Horizon
  BY DEF RowsInv, TypeOK
<1>2. rows \in SUBSET EvidenceRow /\ IsFiniteSet(rows)
  BY RelevantRows, FS_Subset
<1>3. \A e \in rows \ Before(l) : Right[e.series] = 0 /\ Wrong[e.series] = 0
  <2> SUFFICES ASSUME NEW e \in rows \ Before(l)
               PROVE  Right[e.series] = 0 /\ Wrong[e.series] = 0
    OBVIOUS
  <2>1. e.at = now
    BY OnlyToday
  <2> QED
    BY <2>1
<1> QED
  BY <1>1, <1>2, <1>3, ComputeOfLarger

-----------------------------------------------------------------------------
LEMMA TotalsPositive ==
    ASSUME NEW rows \in SUBSET EvidenceRow, IsFiniteSet(rows), NEW t \in 0..Horizon
    PROVE  Total(Compute(rows, t)) > 0
<1>1. Right \in [Series -> Nat] /\ Wrong \in [Series -> Nat]
  BY SeriesAssumption
<1>2. Amount(Right, rows, t) \in Nat /\ Amount(Wrong, rows, t) \in Nat
  BY <1>1, AmountPositive
<1> QED
  BY <1>2, ComputeAmounts, OneIsNat DEF Total

\* While no time passes, evidence of this day may come in.
LEMMA TrendKept ==
    ASSUME RowsInv, Trend, decisions' = decisions, now' = now,
           evidence \subseteq evidence', \A e \in evidence' \ evidence : e.at = now
    PROVE  Trend'
<1>1. \A l : Relevant(evidence, l) \subseteq Relevant(evidence', l)
  BY DEF Relevant
<1>2. \A l : Before(l)' = Before(l)
  BY DEF Before, Relevant, RowsInv, TypeOK
<1>3. \A l, t : NoneRight(l, t)' => NoneRight(l, t)
  BY <1>1 DEF NoneRight
<1>4. ASSUME NEW n \in 1..Len(decisions) PROVE Grounded(decisions[n])'
  <2> DEFINE d == decisions[n]
             l == d.learner
  <2>1. Grounded(d)
    BY DEF Trend
  <2>2. decisions'[n] = d
    OBVIOUS
  <2> QED
    BY <1>1, <1>2, <1>3, <2>1, <2>2 DEF Grounded
<1>5. ASSUME NEW m \in 1..Len(decisions), NEW n \in 1..Len(decisions), m < n,
             decisions[m].learner = decisions[n].learner,
             Improved(decisions[m].mastery, decisions[n].mastery)
      PROVE  Because(decisions[n].learner, decisions[m], decisions[n])'
  <2>1. Because(decisions[n].learner, decisions[m], decisions[n])
    BY <1>5 DEF Trend
  <2> QED
    BY <1>1, <2>1 DEF Because
<1> QED
  BY <1>4, <1>5 DEF Trend

LEMMA TrendAges == ASSUME RowsInv, RowsInv', Trend, Tick PROVE Trend'
<1>1. now \in 0..Horizon /\ now < Horizon /\ now' = now + 1 /\ Horizon \in Nat
      /\ decisions' = decisions /\ evidence' = evidence
  BY SeriesAssumption DEF Tick, RowsInv, TypeOK
<1>2. \A l : /\ Relevant(evidence', l) = Relevant(evidence, l)
             /\ Before(l)' = Relevant(evidence, l)
  <2> SUFFICES ASSUME NEW l PROVE Before(l)' = Relevant(evidence, l)
    BY <1>1
  <2>1. \A e \in Relevant(evidence, l) : e.at \in Int /\ e.at <= now
    BY DEF Relevant, RowsInv, TypeOK, EvidenceRow
  <2> QED
    BY <1>1, <2>1 DEF Before, Relevant
<1>3. ASSUME NEW n \in 1..Len(decisions) PROVE Grounded(decisions[n])'
  <2> DEFINE d == decisions[n]
             l == d.learner
             all == Relevant(evidence, l)
  <2>1. Grounded(d) /\ d \in DecisionRow
    BY DecisionTyped DEF Trend
  <2>2. d.at \in Int /\ d.mastery \in KnowledgeState
    BY <2>1 DEF DecisionRow
  <2>3. d.at < now'
    BY <1>1, <2>1, <2>2 DEF Grounded
  <2>4. ASSUME NoneRight(l, d.at) PROVE NotAbove(Compute(all, now + 1), d.mastery)
    <3>1. \E rows \in SUBSET all :
             Before(l) \subseteq rows /\ NotAbove(Compute(rows, now), d.mastery)
      <4>1. CASE d.at = now
        BY <2>1, <2>2, <4>1, NotAboveItself DEF Grounded
      <4>2. CASE d.at < now
        BY <2>1, <2>4, <4>2 DEF Grounded, Before
      <4> QED
        BY <1>1, <2>1, <2>2, <4>1, <4>2 DEF Grounded
    <3>2. NoneRight(l, now)
      <4>1. \A e \in Relevant(evidence, l) : e.at \in Int
        BY DEF Relevant, RowsInv, TypeOK, EvidenceRow
      <4> QED
        BY <1>1, <2>1, <2>2, <2>4, <4>1 DEF NoneRight, Grounded
    <3>3. NotAbove(Compute(all, now), d.mastery)
      BY <2>2, <3>1, <3>2, MoreLowers
    <3>4. all \in SUBSET EvidenceRow /\ IsFiniteSet(all) /\ \A e \in all : e.at <= now
      BY RelevantRows DEF Relevant, RowsInv
    <3> HIDE DEF all, d
    <3> QED
      BY <1>1, <2>2, <3>3, <3>4, ComputeHalves
  <2>5. decisions'[n] = d /\ NoneRight(l, d.at)' = NoneRight(l, d.at)
    BY <1>1, <1>2 DEF NoneRight
  <2>6. d.at <= now' /\ ~(d.at = now')
    BY <1>1, <2>2, <2>3
  <2>7. Before(d.learner)' = all
    BY <1>1, <1>2
  <2> QED
    BY <1>1, <2>1, <2>4, <2>5, <2>6, <2>7 DEF Grounded
<1>4. ASSUME NEW m \in 1..Len(decisions), NEW n \in 1..Len(decisions), m < n,
             decisions[m].learner = decisions[n].learner,
             Improved(decisions[m].mastery, decisions[n].mastery)
      PROVE  Because(decisions[n].learner, decisions[m], decisions[n])'
  <2>1. Because(decisions[n].learner, decisions[m], decisions[n])
    BY <1>4 DEF Trend
  <2> QED
    BY <1>1, <1>2, <2>1 DEF Because
<1> QED
  BY <1>1, <1>3, <1>4 DEF Trend

\* A decision of this day that is above an earlier one has a reason.
LEMMA HasReason ==
    ASSUME RowsInv, NEW l, NEW first \in DecisionRow, NEW last \in DecisionRow,
           first.learner = l, last.learner = l, Grounded(first), Grounded(last),
           last.at = now, Improved(first.mastery, last.mastery)
    PROVE  Because(l, first, last)
<1> SUFFICES ASSUME ~Because(l, first, last) PROVE FALSE
  OBVIOUS
<1> DEFINE x == first.mastery
           y == last.mastery
<1>1. /\ first.at \in Nat /\ last.at \in Nat /\ now \in Nat /\ now \in 0..Horizon
      /\ x \in KnowledgeState /\ y \in KnowledgeState
      /\ first.at <= now /\ Total(x) > 0 /\ Total(y) > 0
  BY DEF DecisionRow, Grounded, RowsInv, TypeOK
<1>2. \A e \in Relevant(evidence, l) :
        /\ e.at \in Nat /\ e.at <= now
        /\ Right[e.series] \in Nat /\ Wrong[e.series] \in Nat
  BY SeriesAssumption DEF Relevant, RowsInv, TypeOK, EvidenceRow
<1>3. NoneRight(l, first.at)
  BY <1>1, <1>2 DEF NoneRight, Because
<1>4. x.alpha * Total(y) < y.alpha * Total(x)
  BY <1>1, ImprovedRises
<1>5. PICK rows \in SUBSET Relevant(evidence, l) :
        Before(l) \subseteq rows /\ y = Compute(rows, now)
  BY DEF Grounded
<1>6. CASE first.at = now
  <2>1. \A e \in Relevant(evidence, l) :
          e.at = now => Right[e.series] = 0 /\ Wrong[e.series] = 0
    BY <1>1, <1>2, <1>3, <1>6 DEF NoneRight, Because
  <2>2. PICK others \in SUBSET Relevant(evidence, l) :
          Before(l) \subseteq others /\ x = Compute(others, now)
    BY <1>6 DEF Grounded
  <2>3. x = y
    BY <1>5, <2>1, <2>2, SameToday
  <2>4. x.alpha * Total(x) \in Int
    <3>1. \A m, n \in Nat : m * n \in Nat
      OBVIOUS
    <3> QED
      BY <1>1, <3>1 DEF KnowledgeState, Total
  <2> HIDE DEF x, y
  <2> QED
    BY <1>4, <2>3, <2>4
<1>7. CASE first.at < now
  <2>1. NotAbove(Compute(Before(l), now), x)
    BY <1>3, <1>7 DEF Grounded
  <2>2. NoneRight(l, now)
    BY <1>1, <1>2, <1>3 DEF NoneRight
  <2>3. NotAbove(y, x)
    BY <1>1, <1>5, <2>1, <2>2, MoreLowers
  <2>4. x.alpha * Total(y) \in Int /\ y.alpha * Total(x) \in Int
    <3>1. \A m, n \in Nat : m * n \in Nat
      OBVIOUS
    <3> QED
      BY <1>1, <3>1 DEF KnowledgeState, Total
  <2>5. Lead(x) < 0 /\ Lead(y) < 0
    <3>1. Lead(x) \in Int
      BY <1>1 DEF KnowledgeState, Lead
    <3>2. ~(Lead(x) >= 0)
      BY <1>4, <2>3, <2>4 DEF NotAbove
    <3> QED
      BY <2>3, <3>1, <3>2 DEF NotAbove
  <2> QED
    BY <1>7, <2>5 DEF Because
<1> QED
  BY <1>1, <1>6, <1>7

LEMMA TrendDecides ==
    ASSUME RowsInv, Trend, NEW l \in Learner, Decide(l) PROVE Trend'
<1>1. PICK row \in DecisionRow : /\ row.learner = l /\ row.at = now
                                 /\ row.mastery \in Estimates(l)
                                 /\ decisions' = Append(decisions, row)
  BY Decided
<1>2. now' = now /\ evidence' = evidence
  BY DEF Decide
<1>3. Grounded(row)
  <2>1. PICK rows \in SUBSET Relevant(evidence, l) :
          /\ Before(l) \subseteq rows /\ rows \in SUBSET EvidenceRow
          /\ IsFiniteSet(rows) /\ row.mastery = Compute(rows, now)
    BY <1>1, EstimatesRest
  <2>2. now \in 0..Horizon
    BY DEF RowsInv, TypeOK
  <2>3. Total(row.mastery) > 0
    BY <2>1, <2>2, TotalsPositive
  <2> QED
    BY <1>1, <2>1, <2>2, <2>3 DEF Grounded
<1>4. /\ Len(decisions) \in Nat /\ Len(decisions') = Len(decisions) + 1
      /\ \A n \in 1..Len(decisions) : decisions'[n] = decisions[n]
      /\ decisions'[Len(decisions) + 1] = row
  <2>1. decisions \in Seq(DecisionRow)
    BY DEF RowsInv, TypeOK
  <2> QED
    BY <1>1, <2>1
<1>5. \A k : /\ Before(k)' = Before(k) /\ Relevant(evidence', k) = Relevant(evidence, k)
             /\ \A t : NoneRight(k, t)' = NoneRight(k, t)
  BY <1>2 DEF Before, NoneRight, Relevant
<1>6. ASSUME NEW n \in 1..Len(decisions') PROVE Grounded(decisions[n])'
  <2>1. CASE n \in 1..Len(decisions)
    <3>1. Grounded(decisions[n])
      BY <2>1 DEF Trend
    <3>2. decisions'[n] = decisions[n]
      BY <1>4, <2>1
    <3> QED
      BY <1>2, <1>5, <3>1, <3>2 DEF Grounded
  <2>2. CASE n = Len(decisions) + 1
    <3>1. decisions'[n] = row
      BY <1>4, <2>2
    <3> QED
      BY <1>2, <1>3, <1>5, <3>1 DEF Grounded
  <2> QED
    BY <1>4, <2>1, <2>2
<1>7. ASSUME NEW m \in 1..Len(decisions'), NEW n \in 1..Len(decisions'), m < n,
             decisions'[m].learner = decisions'[n].learner,
             Improved(decisions'[m].mastery, decisions'[n].mastery)
      PROVE  Because(decisions[n].learner, decisions[m], decisions[n])'
  <2>1. m \in 1..Len(decisions) /\ decisions'[m] = decisions[m]
    BY <1>4, <1>7
  <2>2. CASE n \in 1..Len(decisions)
    <3>1. decisions'[n] = decisions[n]
      BY <1>4, <2>2
    <3>2. Because(decisions[n].learner, decisions[m], decisions[n])
      BY <1>7, <2>1, <2>2, <3>1 DEF Trend
    <3> QED
      BY <1>5, <2>1, <3>1, <3>2 DEF Because
  <2>3. CASE n = Len(decisions) + 1
    <3>1. decisions[m] \in DecisionRow /\ Grounded(decisions[m])
      BY <2>1, DecisionTyped DEF Trend
    <3>2. decisions'[n] = row
      BY <1>4, <2>3
    <3>3. Because(l, decisions[m], row)
      BY <1>1, <1>3, <1>7, <2>1, <3>1, <3>2, HasReason
    <3> QED
      BY <1>1, <1>5, <2>1, <3>2, <3>3 DEF Because
  <2> QED
    BY <1>4, <2>2, <2>3
<1> QED
  BY <1>6, <1>7 DEF Trend

LEMMA AlwaysTrend == Spec => []Trend
<1>1. Init => Trend
  BY DEF Init, Trend
<1>2. RowsInv /\ RowsInv' /\ Trend /\ [Next]_vars => Trend'
  <2> SUFFICES ASSUME RowsInv, RowsInv', Trend, [Next]_vars PROVE Trend'
    OBVIOUS
  <2>1. CASE Tick
    BY <2>1, TrendAges
  <2>2. ASSUME NEW l \in Learner, Decide(l) PROVE Trend'
    BY <2>2, TrendDecides
  <2>3. CASE ~Tick /\ decisions' = decisions
    BY <2>3, TablesGrow, TrendKept
  <2> QED
    BY <2>1, <2>2, <2>3, TablesGrow
<1> QED
  BY <1>1, <1>2, AlwaysRows, PTL DEF Spec

\* A page calls a skill improving for a right answer, for what time does to an
\* estimate below one half, or for a decision that had not seen a wrong answer.
THEOREM ImprovementHasCause == Spec => []ImprovementExplained
<1>1. RowsInv /\ ViewInv /\ Trend => ImprovementExplained
  <2> SUFFICES ASSUME RowsInv, ViewInv, Trend, pc = "answer",
                      NEW l \in Learner, Improving(Shown(l[1]), l),
                      NEW live, live = Live(Shown(l[1]), l),
                      NEW first, first = decisions[Min(live)],
                      NEW last, last = decisions[Max(live)]
               PROVE  Because(l, first, last)
    BY DEF ImprovementExplained, Because
  <2> DEFINE s == l[1]
  <2>1. /\ s \in Student /\ PageFits /\ IsTable(decisions) /\ Len(decisions) \in Nat
    BY TableLength DEF Learner, ViewInv, Serving, TablesFit
  <2>2. seen.decisions[s] \in 0..Len(decisions)
    BY <2>1 DEF PageFits, Since, SeenRecord
  <2>3. /\ DOMAIN Shown(s) = 1..seen.decisions[s]
        /\ \A n \in 1..seen.decisions[s] : Shown(s)[n] = decisions[n]
    BY <2>1, <2>2, Returned DEF Shown
  <2>4. \A n \in live : /\ n \in 1..seen.decisions[s] /\ n \in 1..Len(decisions)
                        /\ Shown(s)[n] = decisions[n] /\ decisions[n].learner = l
    BY <2>2, <2>3 DEF Live
  <2>5. live # {}
    <3>1. Cardinality(live) > 1
      BY DEF Improving
    <3> QED
      BY <3>1, FS_EmptySet
  <2>6. Max(live) \in live /\ \A n \in live : n <= Max(live)
    <3>1. live \in SUBSET (0..Len(decisions))
      BY <2>4
    <3> QED
      BY <2>1, <2>5, <3>1, Greatest
  <2>7. Min(live) \in live
    <3>1. live \in SUBSET Nat
      BY <2>1, <2>4
    <3>2. \E x \in live : \A y \in live : x <= y
      BY <2>5, <3>1, Least
    <3> QED
      BY <3>2 DEF Min
  <2>8. Improved(first.mastery, last.mastery)
    <3>1. Improved(Shown(l[1])[Min(live)].mastery, Shown(l[1])[Max(live)].mastery)
      BY DEF Improving
    <3>2. /\ Shown(s)[Min(live)] = decisions[Min(live)]
          /\ Shown(s)[Max(live)] = decisions[Max(live)]
      BY <2>4, <2>6, <2>7
    <3> QED
      BY <3>1, <3>2
  <2>9. Min(live) # Max(live)
    <3> SUFFICES ASSUME first = last PROVE FALSE
      OBVIOUS
    <3>1. last.mastery \in KnowledgeState /\ Total(last.mastery) > 0
      BY <2>4, <2>6, DecisionTyped DEF Trend, Grounded, DecisionRow
    <3>2. last.mastery.alpha * Total(last.mastery) \in Int
      <4>1. \A m, n \in Nat : m * n \in Nat
        OBVIOUS
      <4> QED
        BY <3>1, <4>1 DEF KnowledgeState, Total
    <3>3. last.mastery.alpha * Total(last.mastery)
            < last.mastery.alpha * Total(last.mastery)
      BY <2>8, <3>1, ImprovedRises
    <3> QED
      BY <3>2, <3>3
  <2>10. Min(live) < Max(live)
    BY <2>1, <2>4, <2>6, <2>7, <2>9
  <2> QED
    BY <2>4, <2>6, <2>7, <2>8, <2>10 DEF Trend
<1> QED
  BY <1>1, AlwaysRows, AlwaysView, AlwaysTrend, PTL DEF Spec

-----------------------------------------------------------------------------
(* The task behind a decision *)

\* What the page of a task has read is between what there was when it was
\* requested and what there is.
TaskFits ==
    page.kind = "task" =>
        /\ pc \in {"read_attempts", "read_questions", "answer"}
        /\ page.decision \in 1..Len(decisions)
        /\ began.questions \in 0..Len(questions)
        /\ Executable(decisions[page.decision]) =>
             /\ pc \in {"read_questions", "answer"} =>
                  seen.attempted \subseteq Attempts(decisions[page.decision].learner)
             /\ pc = "answer" => seen.candidates \in began.questions..Len(questions)

TaskInv == Serving => TaskFits

\* What was committed since only adds.
LEMMA TaskStays ==
    ASSUME RowsInv, TaskInv, UNCHANGED view,
           evidence \subseteq evidence', Longer(decisions, decisions'),
           Len(decisions') \in Nat, Len(questions') \in Nat,
           Len(questions) <= Len(questions')
    PROVE  TaskInv'
<1> SUFFICES ASSUME Serving, page.kind = "task" PROVE TaskFits'
  BY DEF TaskInv, TaskFits, view, Serving
<1>1. TaskFits /\ Len(decisions) \in Nat /\ Len(questions) \in Nat
  BY DEF TaskInv, RowsInv, TypeOK
<1>2. /\ page' = page /\ pc' = pc /\ seen' = seen /\ began' = began
  BY DEF view
<1>3. /\ page.decision \in 1..Len(decisions) /\ page.decision \in 1..Len(decisions')
      /\ decisions'[page.decision] = decisions[page.decision]
  BY <1>1 DEF TaskFits, Longer
<1>4. \A l : Attempts(l) \subseteq Attempts(l)'
  BY DEF Attempts, Relevant
<1>5. Attempts(decisions[page.decision].learner)
        \subseteq Attempts(decisions[page.decision].learner)'
  <2> DEFINE l == decisions[page.decision].learner
  <2>1. decisions'[page'.decision].learner = l
    BY <1>2, <1>3
  <2>2. (UNION {Asked[e.series] : e \in Relevant(evidence, l)})
          \subseteq UNION {Asked[e.series] : e \in Relevant(evidence', l)}
    BY DEF Relevant
  <2> QED
    BY <2>1, <2>2 DEF Attempts
<1>6. began.questions \in 0..Len(questions')
  BY <1>1 DEF TaskFits
<1>7. Executable(decisions[page.decision]) =>
        /\ pc \in {"read_questions", "answer"} =>
             seen.attempted \subseteq Attempts(decisions[page.decision].learner)'
        /\ pc = "answer" => seen.candidates \in began.questions..Len(questions')
  BY <1>1, <1>5 DEF TaskFits
<1> QED
  BY <1>1, <1>2, <1>3, <1>6, <1>7 DEF TaskFits

LEMMA TaskStep == RowsInv /\ ViewInv /\ TaskInv /\ [Next]_vars => TaskInv'
<1> SUFFICES ASSUME RowsInv, ViewInv, TaskInv, [Next]_vars PROVE TaskInv'
  OBVIOUS
<1>0. /\ Len(decisions) \in Nat /\ DOMAIN decisions = 1..Len(decisions)
      /\ Len(questions) \in Nat /\ questions \in Seq(Question)
  BY DEF RowsInv, TypeOK
<1>1. CASE OthersCommit \/ Tick
  <2>1. /\ UNCHANGED view /\ Longer(decisions, decisions') /\ TablesFit'
    BY <1>1, CommitsGrow DEF ViewInv
  <2>2. evidence \subseteq evidence'
    BY TablesGrow
  <2>3. Len(questions') \in Nat /\ Len(questions) <= Len(questions')
    <3>1. ASSUME NEW q \in Question, CreateQuestion(q)
          PROVE  questions' = Append(questions, q)
      BY <3>1 DEF CreateQuestion
    <3> QED
      BY <1>0, <3>1, TablesGrow
  <2>4. Len(decisions') \in Nat
    BY <2>1, TableLength DEF TablesFit
  <2> QED
    BY <2>1, <2>2, <2>3, <2>4, TaskStays
<1>2. CASE UNCHANGED vars
  <2>1. UNCHANGED <<view, evidence, decisions, questions>>
    BY <1>2 DEF vars, tables
  <2> QED
    BY <1>0, <2>1, TaskStays, Stays DEF ViewInv
<1>3. ASSUME \/ \E s \in Student : OpenStudent(s)
             \/ OpenTeacher \/ OpenAdmin
      PROVE  TaskInv'
  BY <1>3 DEF OpenStudent, OpenTeacher, OpenAdmin, Open, TaskInv, TaskFits
<1>4. ASSUME NEW n \in DOMAIN decisions, OpenTask(n) PROVE TaskInv'
  <2>1. /\ page'.decision = n /\ decisions' = decisions /\ questions' = questions
        /\ began'.questions = Len(questions)
        /\ pc' = IF Executable(decisions[n]) THEN "read_attempts" ELSE "answer"
    BY <1>4 DEF OpenTask, Open, tables
  <2> QED
    BY <1>0, <2>1 DEF TaskInv, TaskFits
<1>5. CASE Query
  <2>1. /\ began' = began /\ UNCHANGED <<decisions, questions, evidence>>
        /\ page'.kind = page.kind /\ page'.decision = page.decision
        \/ Answer
    <3>1. CASE ReadStates
      <4>1. PageRecord
        BY <3>1 DEF ReadStates, ViewInv, Serving, PageFits
      <4> QED
        BY <3>1, <4>1 DEF ReadStates, PageRecord, tables
    <3>2. CASE Query /\ ~ReadStates
      BY <3>2 DEF Query, ReadDecisions, ReadCheckpoints, ReadHypotheses,
                  CountCheckpoints, CountHypotheses, CountDecisions, ReadAttempts,
                  ReadQuestions, Read, tables
    <3> QED
      BY <1>5, <3>1, <3>2
  <2>2. CASE Answer
    BY <2>2 DEF Answer, TaskInv, Serving
  <2>3. ASSUME ~Answer, page.kind = "task" PROVE TaskInv'
    <3>1. Serving
      BY <1>5, <2>3 DEF Query, ReadStates, ReadDecisions, ReadCheckpoints,
             ReadHypotheses, CountCheckpoints, CountHypotheses, CountDecisions,
             ReadAttempts, ReadQuestions, Read, Serving
    <3>2. TaskFits /\ seen \in Seen
      BY <3>1 DEF TaskInv, RowsInv, TypeOK
    <3>3. CASE ReadAttempts
      <4>1. /\ pc' = "read_questions"
            /\ seen'.attempted = Attempts(decisions[page.decision].learner)
        BY <3>2, <3>3 DEF ReadAttempts, Read, Seen
      <4>2. Attempts(decisions[page.decision].learner)'
              = Attempts(decisions[page.decision].learner)
        BY <2>1, <2>3 DEF Attempts, Relevant
      <4> QED
        BY <2>1, <2>3, <3>2, <4>1, <4>2 DEF TaskInv, TaskFits
    <3>4. CASE ReadQuestions
      <4>1. /\ pc = "read_questions" /\ pc' = "answer"
            /\ seen'.candidates = Len(questions) /\ seen'.attempted = seen.attempted
        BY <3>2, <3>4 DEF ReadQuestions, Read, Seen
      <4>2. Attempts(decisions[page.decision].learner)'
              = Attempts(decisions[page.decision].learner)
        BY <2>1, <2>3 DEF Attempts, Relevant
      <4> QED
        BY <1>0, <2>1, <2>3, <3>2, <4>1, <4>2 DEF TaskInv, TaskFits
    <3>5. ReadAttempts \/ ReadQuestions
      BY <1>5, <2>3, <3>2
      DEF TaskFits, Query, ReadStates, ReadDecisions, ReadCheckpoints,
          ReadHypotheses, CountCheckpoints, CountHypotheses, CountDecisions, Read
    <3> QED
      BY <3>3, <3>4, <3>5
  <2> QED
    BY <2>1, <2>2, <2>3 DEF TaskInv, TaskFits
<1> QED
  BY <1>1, <1>2, <1>3, <1>4, <1>5 DEF Next

LEMMA AlwaysTask == Spec => []TaskInv
<1>1. Init => TaskInv
  BY DEF Init, TaskInv, Serving
<1> QED
  BY <1>1, TaskStep, AlwaysRows, AlwaysView, PTL DEF Spec

\* The first questions of a facet are among more of them.
LEMMA CandidatesGrow ==
    ASSUME NEW S, NEW rows \in Seq(S), NEW n \in Nat, NEW m \in n..Len(rows), NEW action
    PROVE  Candidates(action, SubSeq(rows, 1, n)) \subseteq
             Candidates(action, SubSeq(rows, 1, m))
<1>1. /\ DOMAIN SubSeq(rows, 1, n) = 1..n /\ DOMAIN SubSeq(rows, 1, m) = 1..m
      /\ \A i \in 1..n : SubSeq(rows, 1, n)[i] = rows[i]
      /\ \A i \in 1..m : SubSeq(rows, 1, m)[i] = rows[i]
  OBVIOUS
<1>2. 1..n \subseteq 1..m
  OBVIOUS
<1>3. ToSet(SubSeq(rows, 1, n)) \subseteq ToSet(SubSeq(rows, 1, m))
  BY <1>1, <1>2 DEF ToSet
<1> QED
  BY <1>3 DEF Candidates

\* What the page of a task rests on when it is answered.
LEMMA TaskRests ==
    ASSUME RowsInv, TaskInv, TaskGiven
    PROVE  /\ Known \subseteq Candidates(decisions[page.decision].action,
                                         SubSeq(questions, 1, seen.candidates))
           /\ seen.attempted \subseteq Attempts(decisions[page.decision].learner)
<1>1. /\ TaskFits /\ pc = "answer" /\ page.kind = "task"
      /\ Executable(decisions[page.decision])
  BY DEF TaskGiven, Answering, TaskInv, Serving
<1>2. /\ began.questions \in Nat /\ seen.candidates \in began.questions..Len(questions)
      /\ seen.attempted \subseteq Attempts(decisions[page.decision].learner)
  BY <1>1 DEF TaskFits
<1>3. questions \in Seq(Question)
  BY DEF RowsInv, TypeOK
<1> QED
  BY <1>2, <1>3, CandidatesGrow DEF Known

\* Although the attempts are read before the questions, a student is given a
\* question again only for want of another.
THEOREM NoQuestionRepeated == Spec => []NoNeedlessRepeat
<1>1. RowsInv /\ TaskInv => NoNeedlessRepeat
  BY TaskRests DEF NoNeedlessRepeat, Offered, TaskChoices, Pool
<1> QED
  BY <1>1, AlwaysRows, AlwaysTask, PTL

\* What is to be easier is the easiest of what the student has not attempted.
THEOREM EasierIsEasiest == Spec => []EasiestFirst
<1>1. RowsInv /\ TaskInv => EasiestFirst
  <2> SUFFICES ASSUME RowsInv, TaskInv, TaskGiven,
                      decisions[page.decision].action = "easier_task",
                      NEW q \in Offered \ seen.attempted,
                      NEW other \in Known \ Attempts(decisions[page.decision].learner)
               PROVE  Difficulty[q] <= Difficulty[other]
    BY DEF EasiestFirst
  <2> DEFINE candidates == Candidates("easier_task", SubSeq(questions, 1, seen.candidates))
             pool == Pool("easier_task", candidates, seen.attempted)
  <2>1. other \in candidates /\ other \notin seen.attempted
    BY TaskRests
  <2>2. q \in pool /\ \A r \in pool :
          Precedes("easier_task", SubSeq(questions, 1, seen.candidates), q, r)
    BY DEF Offered, TaskChoices
  <2>3. other \in pool
    BY <2>1 DEF Pool
  <2> QED
    BY <2>2, <2>3 DEF Precedes
<1> QED
  BY <1>1, AlwaysRows, AlwaysTask, PTL

=============================================================================
