------------------------- MODULE PublicationProofs -------------------------
(***************************************************************************)
(* Proofs about LearningLoop: what its transactions publish, that history  *)
(* is kept, and that what a client is told of is there.  The argument is   *)
(* that of row locks: of the rows with one key at most one is uncommitted, *)
(* so a commit replaces what its own handler has read.                     *)
(***************************************************************************)
EXTENDS LearningLoopProofs, SumProofs

\* One attempt, but for its result.
Same(a, b) == /\ a.key = b.key /\ a.student = b.student
              /\ a.question = b.question /\ a.by = b.by

About(e, a) == e.observation = <<a.key, "evaluated">>
Matches(e, a) == About(e, a) /\ e.positive = (a.result = "correct")

\* Statements of a handler that has flushed nothing, and of one between the
\* attempt and its evidence.
Unwritten == {"idle", "find_attempt", "insert_attempt", "load_attempt",
              "find_subject", "load_checkpoint"}
Recording == {"find_observation", "insert_observation", "insert_evidence"}
Graded == {"find_checkpoints", "insert_checkpoints", "commit"} \cup Recomputing

-----------------------------------------------------------------------------
(* The invariant *)

\* Committed rows: one per key, evaluated together with their evidence, and a
\* gradable attempt evaluated once.
TablesOK ==
    /\ \A a, b \in attempts : a.key = b.key => a = b
    /\ \A a \in attempts : a.result # "unknown" => \E e \in evidence : Matches(e, a)
    /\ \A e \in evidence :
         /\ \E a \in attempts : About(e, a) /\ a.result # "unknown"
         /\ \E o \in observations : o.key = e.observation
    /\ \A a \in attempts : a.question \in Gradable =>
         /\ a.result # "unknown"
         /\ \A e, f \in evidence : About(e, a) /\ About(f, a) => e = f

\* Uncommitted attempts are locked.
Locked ==
    \A r, s \in Request : r # s =>
        \A a \in writes[r].attempts, b \in writes[s].attempts : a.key # b.key

\* Uncommitted rows: how they will fit those that are committed.
PendingOK(r) ==
    /\ \A w, x \in writes[r].attempts : w = x
    /\ \A w \in writes[r].attempts, a \in attempts : a.key = w.key =>
         Same(a, w) /\ w.result # "unknown" /\ w.question \notin Gradable
    /\ \A w \in writes[r].attempts :
         /\ w.result = "unknown" /\ w.question \in Gradable => pc[r] \in Recording
         /\ w.result # "unknown" =>
              pc[r] = "insert_evidence" \/ \E e \in writes[r].evidence : Matches(e, w)
    /\ \A e \in writes[r].evidence :
         /\ \E w \in writes[r].attempts : About(e, w) /\ w.result # "unknown"
         /\ \E o \in observations \cup writes[r].observations : o.key = e.observation
    /\ \A e, f \in writes[r].evidence : e = f

\* A handler between its attempt and the evidence of it.
RecordingOK(r) ==
    /\ pc[r] \in Unwritten => writes[r] = NoWrites
    /\ pc[r] = "insert_attempt" =>
         local[r].attempt.key = call[r].key /\ local[r].attempt.result = "unknown"
    /\ pc[r] \in Recording =>
         /\ writes[r].evidence = {}
         /\ call[r].op = "observe" =>
              writes[r].attempts = {} /\ local[r].observation = call[r].observation
         /\ call[r].op # "observe" =>
              /\ local[r].attempt.key = call[r].key
              /\ local[r].observation \in {<<call[r].key, "submitted">>,
                                           <<call[r].key, "evaluated">>}
              /\ call[r].op = "evaluate" => local[r].observation[2] = "evaluated"
              /\ \E a \in attempts \cup writes[r].attempts : Same(a, local[r].attempt)
              /\ \A w \in writes[r].attempts : Same(w, local[r].attempt)
              /\ local[r].attempt.question \in Gradable => writes[r].attempts # {}
    /\ pc[r] = "insert_evidence" =>
         /\ local[r].observation[2] = "evaluated"
         /\ \E o \in observations \cup writes[r].observations :
              o.key = local[r].observation

\* What handlers are about to acknowledge, at which statements.
RouteOK(r) ==
    /\ pc[r] \in Scheduling \cup {"insert_evidence"} => call[r].op \in Keyed
    /\ pc[r] = "commit" => call[r].op \in Keyed \cup {"observe"}
    /\ pc[r] \in Recomputing /\ local[r].resume = "insert_checkpoints" =>
         call[r].op \in Keyed
    /\ pc[r] \in Recomputing /\ local[r].resume = "return_state" => call[r].op = "read"
    /\ pc[r] = "return_state" => call[r].op = "read"

Filed(r, k) == \E a \in attempts \cup writes[r].attempts : a.key = k
Evaluated(r, k) ==
    \E a \in attempts \cup writes[r].attempts : a.key = k /\ a.result # "unknown"

\* There is such a checkpoint.
Found(r) == \E c \in checkpoints : c.learner = call[r].learner /\ c.days = call[r].days

Durable(r) ==
    /\ call[r].op \in {"submit", "complete"} =>
         \E a \in attempts : a.key = call[r].key
    /\ call[r].op = "evaluate" =>
         \E a \in attempts : a.key = call[r].key /\ a.result # "unknown"
    /\ call[r].op = "observe" =>
         \E o \in observations : o.key = call[r].observation
    /\ call[r].op = "classify" =>
         \E e \in evidence : e.id = call[r].evidence /\ e.mode \in Classified
    /\ call[r].op = "complete" =>
         \E c \in Named(r) : c.status = "completed"

PromiseOK(r) ==
    /\ outcome[r] = "ok" => pc[r] = "done" /\ Durable(r)
    /\ pc[r] \in Recording \cup Graded \cup {"finish_checkpoint"}
            /\ call[r].op \in {"submit", "complete"} => Filed(r, call[r].key)
    /\ pc[r] \in Graded /\ call[r].op = "evaluate" => Evaluated(r, call[r].key)
    /\ pc[r] = "commit" /\ call[r].op = "observe" =>
         \E o \in observations \cup writes[r].observations : o.key = call[r].observation
    /\ pc[r] = "write_mode" => \E e \in evidence : e.id = call[r].evidence
    /\ pc[r] \notin {"idle", "load_checkpoint", "done"} /\ call[r].op = "complete" =>
         Found(r)

HandlerOK(r) == PendingOK(r) /\ RecordingOK(r) /\ RouteOK(r) /\ PromiseOK(r)

PublishedInv ==
    TypeInv /\ TablesOK /\ Locked /\ \A r \in Request : HandlerOK(r)

LEMMA InitPublished == Init => PublishedInv
<1> SUFFICES ASSUME Init PROVE PublishedInv
  OBVIOUS
<1>1. TypeInv
  BY InitTypeInv
<1>2. TablesOK /\ Locked
  BY DEF Init, TablesOK, Locked, NoWrites
<1>3. ASSUME NEW r \in Request PROVE HandlerOK(r)
  BY DEF Init, HandlerOK, PendingOK, RecordingOK, RouteOK, PromiseOK, NoWrites,
     Recording, Graded, Scheduling, Recomputing
<1> QED
  BY <1>1, <1>2, <1>3 DEF PublishedInv

-----------------------------------------------------------------------------
(* History *)

\* What every step does to the tables.
Grows ==
    /\ \A a \in attempts : \E b \in attempts' :
         Same(a, b) /\ (a.result # "unknown" => b.result # "unknown")
    /\ observations \subseteq observations'
    /\ \A e \in evidence : \E f \in evidence' :
         /\ f = [e EXCEPT !.mode = f.mode]
         /\ e.mode \in Classified => f.mode \in Classified
    /\ \A c \in checkpoints : \E d \in checkpoints' :
         /\ d = [c EXCEPT !.status = d.status, !.delayed = d.delayed,
                          !.verdict = d.verdict]
         /\ c.status = "completed" => d.status = "completed"

LEMMA CommitGrows ==
    ASSUME TypeInv, NEW r \in Request, PendingOK(r), Commit(r) PROVE Grows
<1> USE DEF TypeInv, TypeOK
<1>1. ASSUME NEW a \in attempts
      PROVE  \E b \in attempts' :
                Same(a, b) /\ (a.result # "unknown" => b.result # "unknown")
  <2>1. CASE \A b \in writes[r].attempts : b.key # a.key
    BY <2>1 DEF Commit, Same
  <2>2. CASE \E b \in writes[r].attempts : b.key = a.key
    BY <2>2 DEF Commit, PendingOK
  <2> QED
    BY <2>1, <2>2
<1>2. \A e \in evidence : e \in evidence' /\ e = [e EXCEPT !.mode = e.mode]
  BY DEF Commit, EvidenceRow
<1>3. \A c \in checkpoints : c \in checkpoints'
        /\ c = [c EXCEPT !.status = c.status, !.delayed = c.delayed, !.verdict = c.verdict]
  BY DEF Commit, CheckpointRow
<1> QED
  BY <1>1, <1>2, <1>3 DEF Grows, Commit

LEMMA SameGrows ==
    ASSUME TypeInv, UNCHANGED <<attempts, observations, evidence, checkpoints>>
    PROVE  Grows
<1>2. \A e \in evidence : e = [e EXCEPT !.mode = e.mode]
  BY DEF TypeInv, TypeOK, EvidenceRow
<1>3. \A c \in checkpoints :
        c = [c EXCEPT !.status = c.status, !.delayed = c.delayed, !.verdict = c.verdict]
  BY DEF TypeInv, TypeOK, CheckpointRow
<1> QED
  BY <1>2, <1>3 DEF Grows, Same

LEMMA WriteModeGrows ==
    ASSUME TypeInv, NEW r \in Request, WriteMode(r) PROVE Grows
<1>1. call[r].mode \in Classified
  BY DEF TypeInv, ControlOK, Control, WriteMode
<1>2. ASSUME NEW e \in evidence
      PROVE  \E f \in evidence' : /\ f = [e EXCEPT !.mode = f.mode]
                                  /\ e.mode \in Classified => f.mode \in Classified
  <2>0. e \in EvidenceRow
    BY DEF TypeInv, TypeOK
  <2>1. CASE e.id = call[r].evidence
    <3> DEFINE f == [e EXCEPT !.mode = call[r].mode]
    <3>1. f \in evidence' /\ f = [e EXCEPT !.mode = f.mode] /\ f.mode \in Classified
      BY <1>1, <2>0, <2>1 DEF WriteMode, EvidenceRow
    <3> QED
      BY <3>1
  <2>2. CASE e.id # call[r].evidence
    BY <2>0, <2>2 DEF WriteMode, EvidenceRow
  <2> QED
    BY <2>1, <2>2
<1>3. \A c \in checkpoints :
        c = [c EXCEPT !.status = c.status, !.delayed = c.delayed, !.verdict = c.verdict]
  BY DEF TypeInv, TypeOK, CheckpointRow
<1> QED
  BY <1>2, <1>3 DEF Grows, Same, WriteMode

LEMMA FinishCheckpointGrows ==
    ASSUME TypeInv, NEW r \in Request, FinishCheckpoint(r) PROVE Grows
<1>1. PICK a \in attempts : checkpoints' = {IF c \in Named(r) THEN Completed(c, a) ELSE c :
                                            c \in checkpoints}
  BY DEF FinishCheckpoint
<1>2. ASSUME NEW c \in checkpoints
      PROVE  \E d \in checkpoints' :
                /\ d = [c EXCEPT !.status = d.status, !.delayed = d.delayed,
                                 !.verdict = d.verdict]
                /\ c.status = "completed" => d.status = "completed"
  <2>0. c \in CheckpointRow
    BY DEF TypeInv, TypeOK
  <2>1. CASE c \in Named(r)
    <3> DEFINE d == Completed(c, a)
    <3>1. d \in checkpoints'
      BY <1>1, <2>1
    <3>2. /\ d = [c EXCEPT !.status = d.status, !.delayed = d.delayed,
                           !.verdict = d.verdict]
          /\ d.status = "completed"
      BY <2>0 DEF Completed, CheckpointRow
    <3> QED
      BY <3>1, <3>2
  <2>2. CASE c \notin Named(r)
    BY <1>1, <2>0, <2>2 DEF CheckpointRow
  <2> QED
    BY <2>1, <2>2
<1>3. \A e \in evidence : e = [e EXCEPT !.mode = e.mode]
  BY DEF TypeInv, TypeOK, EvidenceRow
<1> QED
  BY <1>2, <1>3 DEF Grows, Same, FinishCheckpoint

\* The statements that change the four tables of the history.
LEMMA TablesChange ==
    ASSUME NEW r \in Request, Handle(r) \/ Crash(r)
    PROVE  \/ pc[r] \in {"commit", "save_state"} /\ Commit(r)
           \/ WriteMode(r)
           \/ FinishCheckpoint(r)
           \/ UNCHANGED <<attempts, observations, evidence, checkpoints>>
<1>1. CASE FinalCommit(r) \/ SaveState(r)
  BY <1>1 DEF FinalCommit, SaveState, Conflict, Answer, tables
<1>2. CASE AssessmentNext(r) /\ ~FinalCommit(r) /\ ~WriteMode(r)
  BY <1>2 DEF AssessmentNext, SubmitAttempt, EvaluateAttempt, RecordObservation,
     ClassifyFailureMode, Begin, FindAttempt, InsertAttempt, FindObservation,
     InsertObservation, InsertEvidence, LoadAttempt, FindSubject, LoadEvidence,
     Answer, Conflict, Step, tables
<1>3. CASE KnowledgeNext(r) /\ ~SaveState(r)
  BY <1>3 DEF KnowledgeNext, GetKnowledgeState, ReadEvidence, ReadState, RefreshState,
     ReturnState, Answer, Step, tables
<1>4. CASE RetentionNext(r) /\ ~FinishCheckpoint(r)
  BY <1>4 DEF RetentionNext, FindCheckpoints, InsertCheckpoints, CompleteCheckpoint,
     LoadCheckpoint, Begin, Answer, Conflict, Step, tables
<1>5. CASE Crash(r)
  BY <1>5 DEF Crash, Answer, tables
<1> QED
  BY <1>1, <1>2, <1>3, <1>4, <1>5 DEF Handle

LEMMA StepGrows ==
    ASSUME PublishedInv, NEW r \in Request, Handle(r) \/ Crash(r) PROVE Grows
  BY TablesChange, CommitGrows, WriteModeGrows, FinishCheckpointGrows, SameGrows
  DEF PublishedInv, HandlerOK

-----------------------------------------------------------------------------
(* The other handlers *)

LEMMA OthersPending ==
    ASSUME NEW q \in Request, PendingOK(q), pc'[q] = pc[q], writes'[q] = writes[q],
           observations \subseteq observations',
           \A a \in attempts', w \in writes[q].attempts : a.key = w.key => a \in attempts
    PROVE  PendingOK(q)'
  BY DEF PendingOK, Matches, About, Same

LEMMA OthersRecording ==
    ASSUME NEW q \in Request, RecordingOK(q), Grows,
           pc'[q] = pc[q], call'[q] = call[q], local'[q] = local[q],
           writes'[q] = writes[q]
    PROVE  RecordingOK(q)'
<1>0. \A a \in attempts : \E b \in attempts' : Same(a, b)
  BY DEF Grows
<1>1. \A x : (\E a \in attempts \cup writes[q].attempts : Same(a, x)) =>
             (\E a \in attempts' \cup writes[q].attempts : Same(a, x))
  BY <1>0 DEF Same
<1>2. \A k : (\E o \in observations \cup writes[q].observations : o.key = k) =>
             (\E o \in observations' \cup writes[q].observations : o.key = k)
  BY DEF Grows
<1> QED
  BY <1>1, <1>2 DEF RecordingOK

LEMMA FiledStays ==
    ASSUME NEW q \in Request, Grows, writes'[q] = writes[q]
    PROVE  \A k : /\ Filed(q, k) => Filed(q, k)'
                  /\ Evaluated(q, k) => Evaluated(q, k)'
<1>1. \A a \in attempts : \E b \in attempts' :
        Same(a, b) /\ (a.result # "unknown" => b.result # "unknown")
  BY DEF Grows
<1> QED
  BY <1>1 DEF Filed, Evaluated, Same

\* What has become durable stays so, and what was found stays there.
LEMMA DurableStays ==
    ASSUME TypeInv, NEW q \in Request, Grows, call'[q] = call[q]
    PROVE  Durable(q) => Durable(q)'
<1>1. \A k : (\E a \in attempts : a.key = k) => (\E a \in attempts' : a.key = k)
  BY DEF Grows, Same
<1>2. \A k : (\E a \in attempts : a.key = k /\ a.result # "unknown") =>
             (\E a \in attempts' : a.key = k /\ a.result # "unknown")
  BY DEF Grows, Same
<1>3. ASSUME NEW e \in evidence, e.mode \in Classified
      PROVE  \E f \in evidence' : f.id = e.id /\ f.mode \in Classified
  <2>1. PICK f \in evidence' : f = [e EXCEPT !.mode = f.mode] /\ f.mode \in Classified
    BY <1>3 DEF Grows
  <2> QED
    BY <2>1 DEF TypeInv, TypeOK, EvidenceRow
<1>4. ASSUME NEW c \in checkpoints, c.status = "completed"
      PROVE  \E d \in checkpoints' : d.learner = c.learner /\ d.days = c.days
                                     /\ d.status = "completed"
  <2>1. PICK d \in checkpoints' :
          /\ d = [c EXCEPT !.status = d.status, !.delayed = d.delayed,
                           !.verdict = d.verdict]
          /\ d.status = "completed"
    BY <1>4 DEF Grows
  <2> QED
    BY <2>1 DEF TypeInv, TypeOK, CheckpointRow
<1>5. (\E c \in Named(q) : c.status = "completed") =>
      (\E c \in Named(q)' : c.status = "completed")
  BY <1>4 DEF Named
<1>6. observations \subseteq observations'
  BY DEF Grows
<1> QED
  BY <1>1, <1>2, <1>3, <1>5, <1>6 DEF Durable

LEMMA FoundStays ==
    ASSUME TypeInv, NEW q \in Request, Grows, call'[q] = call[q]
    PROVE  /\ Found(q) => Found(q)'
           /\ \A k : (\E e \in evidence : e.id = k) => (\E e \in evidence' : e.id = k)
<1>1. ASSUME NEW e \in evidence PROVE \E f \in evidence' : f.id = e.id
  BY DEF Grows, TypeInv, TypeOK, EvidenceRow
<1>2. ASSUME NEW c \in checkpoints
      PROVE  \E d \in checkpoints' : d.learner = c.learner /\ d.days = c.days
  <2>1. PICK d \in checkpoints' :
          d = [c EXCEPT !.status = d.status, !.delayed = d.delayed, !.verdict = d.verdict]
    BY DEF Grows
  <2> QED
    BY <2>1 DEF TypeInv, TypeOK, CheckpointRow
<1> QED
  BY <1>1, <1>2 DEF Found

LEMMA OthersPromise ==
    ASSUME TypeInv, NEW q \in Request, PromiseOK(q), Grows,
           pc'[q] = pc[q], call'[q] = call[q], outcome'[q] = outcome[q],
           writes'[q] = writes[q]
    PROVE  PromiseOK(q)'
<1>1. \A k : (\E o \in observations \cup writes[q].observations : o.key = k) =>
             (\E o \in observations' \cup writes[q].observations : o.key = k)
  BY DEF Grows
<1> QED
  BY <1>1, FiledStays, DurableStays, FoundStays DEF PromiseOK

LEMMA OthersUntouched ==
    ASSUME TypeInv, NEW r \in Request, Handle(r) \/ Crash(r),
           NEW q \in Request, q # r
    PROVE  /\ pc'[q] = pc[q] /\ call'[q] = call[q] /\ local'[q] = local[q]
           /\ writes'[q] = writes[q] /\ outcome'[q] = outcome[q]
<1> USE DEF TypeInv, TypeOK, Goto, Return, Answer, Conflict, Step
<1>1. CASE Crash(r)
  BY <1>1 DEF Crash
<1>2. CASE SubmitAttempt(r) \/ EvaluateAttempt(r) \/ RecordObservation(r)
           \/ ClassifyFailureMode(r) \/ CompleteCheckpoint(r) \/ GetKnowledgeState(r)
  BY <1>2 DEF SubmitAttempt, EvaluateAttempt, RecordObservation, ClassifyFailureMode,
     CompleteCheckpoint, Begin, GetKnowledgeState
<1>3. CASE FindAttempt(r) \/ InsertAttempt(r) \/ LoadAttempt(r) \/ FindSubject(r)
  BY <1>3 DEF FindAttempt, InsertAttempt, LoadAttempt, FindSubject, AttemptReturned
<1>4. CASE FindObservation(r) \/ InsertObservation(r)
  BY <1>4 DEF FindObservation, InsertObservation, ObservationReturned
<1>5. CASE InsertEvidence(r) \/ FinalCommit(r) \/ LoadEvidence(r) \/ WriteMode(r)
  BY <1>5 DEF InsertEvidence, FinalCommit, LoadEvidence, WriteMode, Commit,
     AttemptReturned
<1>6. CASE ReadEvidence(r) \/ ReadState(r) \/ SaveState(r) \/ RefreshState(r)
           \/ ReturnState(r)
  BY <1>6 DEF ReadEvidence, ReadState, SaveState, RefreshState, ReturnState, Commit
<1>7. CASE FindCheckpoints(r) \/ InsertCheckpoints(r) \/ LoadCheckpoint(r)
           \/ FinishCheckpoint(r)
  BY <1>7 DEF FindCheckpoints, InsertCheckpoints, LoadCheckpoint, FinishCheckpoint
<1> QED
  BY <1>1, <1>2, <1>3, <1>4, <1>5, <1>6, <1>7
  DEF Handle, AssessmentNext, KnowledgeNext, RetentionNext

\* The rows that are added under a key are those whose lock the handler holds.
LEMMA OthersKeysFree ==
    ASSUME TypeInv, Locked, NEW r \in Request, Handle(r) \/ Crash(r),
           NEW q \in Request, q # r
    PROVE  \A a \in attempts', w \in writes[q].attempts : a.key = w.key => a \in attempts
<1>1. attempts' \subseteq attempts \cup writes[r].attempts
  BY TablesChange DEF Commit, WriteMode, FinishCheckpoint
<1> QED
  BY <1>1 DEF Locked

LEMMA OthersOK ==
    ASSUME PublishedInv, NEW r \in Request, Handle(r) \/ Crash(r),
           NEW q \in Request, q # r
    PROVE  HandlerOK(q)'
<1>1. TypeInv /\ Locked /\ HandlerOK(q) /\ Grows
  BY StepGrows DEF PublishedInv
<1>2. /\ pc'[q] = pc[q] /\ call'[q] = call[q] /\ local'[q] = local[q]
      /\ writes'[q] = writes[q] /\ outcome'[q] = outcome[q]
  BY <1>1, OthersUntouched
<1>3. PendingOK(q)'
  BY <1>1, <1>2, OthersKeysFree, OthersPending DEF HandlerOK, Grows
<1>4. RecordingOK(q)' /\ PromiseOK(q)'
  BY <1>1, <1>2, OthersRecording, OthersPromise DEF HandlerOK
<1>5. RouteOK(q)'
  BY <1>1, <1>2 DEF HandlerOK, RouteOK
<1> QED
  BY <1>3, <1>4, <1>5 DEF HandlerOK

-----------------------------------------------------------------------------
(* The tables *)

LEMMA CommitTables ==
    ASSUME PublishedInv, NEW r \in Request, pc[r] \in {"commit", "save_state"}, Commit(r)
    PROVE  TablesOK'
<1> DEFINE W == writes[r].attempts
           F == writes[r].evidence
<1>0. TablesOK /\ PendingOK(r) /\ pc[r] \notin Recording
  BY DEF PublishedInv, HandlerOK, Recording
<1>1. /\ \A a \in attempts' : a \in W \/ (a \in attempts /\ \A w \in W : w.key # a.key)
      /\ W \subseteq attempts'
      /\ \A a \in attempts : (\A w \in W : w.key # a.key) => a \in attempts'
      /\ evidence' = evidence \cup F
      /\ observations' = observations \cup writes[r].observations
  BY DEF Commit
<1>2. \A a, b \in attempts' : a.key = b.key => a = b
  BY <1>0, <1>1 DEF TablesOK, PendingOK
<1>3. \A a \in attempts' : a.result # "unknown" => \E e \in evidence' : Matches(e, a)
  BY <1>0, <1>1 DEF TablesOK, PendingOK, Recording
<1>4. ASSUME NEW e \in evidence'
      PROVE  /\ \E a \in attempts' : About(e, a) /\ a.result # "unknown"
             /\ \E o \in observations' : o.key = e.observation
  <2>1. CASE e \in evidence
    <3>1. PICK a \in attempts : About(e, a) /\ a.result # "unknown"
      BY <1>0, <2>1 DEF TablesOK
    <3>2. CASE \A w \in W : w.key # a.key
      BY <1>0, <1>1, <2>1, <3>1, <3>2 DEF TablesOK
    <3>3. CASE \E w \in W : w.key = a.key
      <4>1. PICK w \in W : w.key = a.key
        BY <3>3
      <4>2. w \in attempts' /\ About(e, w) /\ w.result # "unknown"
        BY <1>0, <1>1, <3>1, <4>1 DEF PendingOK, About
      <4> QED
        BY <1>0, <1>1, <2>1, <4>2 DEF TablesOK
    <3> QED
      BY <3>2, <3>3
  <2>2. CASE e \in F
    BY <1>0, <1>1, <2>2 DEF PendingOK
  <2> QED
    BY <1>1, <2>1, <2>2
<1>5. ASSUME NEW a \in attempts', a.question \in Gradable
      PROVE  /\ a.result # "unknown"
             /\ \A e, f \in evidence' : About(e, a) /\ About(f, a) => e = f
  <2>1. CASE a \in attempts /\ \A w \in W : w.key # a.key
    <3>1. \A e \in F : ~About(e, a)
      BY <1>0, <2>1 DEF PendingOK, About
    <3> QED
      BY <1>0, <1>1, <1>5, <2>1, <3>1 DEF TablesOK
  <2>2. CASE a \in W
    <3>1. \A e \in evidence : ~About(e, a)
      <4> SUFFICES ASSUME NEW e \in evidence, About(e, a) PROVE FALSE
        OBVIOUS
      <4>1. PICK b \in attempts : About(e, b)
        BY <1>0 DEF TablesOK
      <4>2. b.key = a.key
        BY <4>1 DEF About
      <4> QED
        BY <1>0, <1>5, <2>2, <4>2 DEF PendingOK
    <3> QED
      BY <1>0, <1>1, <1>5, <2>2, <3>1 DEF PendingOK
  <2> QED
    BY <1>1, <2>1, <2>2
<1> QED
  BY <1>2, <1>3, <1>4, <1>5 DEF TablesOK

LEMMA WriteModeTables ==
    ASSUME TypeInv, TablesOK, NEW r \in Request, WriteMode(r) PROVE TablesOK'
<1> DEFINE new(e) == IF e.id = call[r].evidence THEN [e EXCEPT !.mode = call[r].mode] ELSE e
<1>1. /\ attempts' = attempts /\ observations' = observations
      /\ evidence' = {new(e) : e \in evidence}
  BY DEF WriteMode
<1>2. ASSUME NEW e \in evidence
      PROVE  new(e).observation = e.observation /\ new(e).positive = e.positive
  BY DEF TypeInv, TypeOK, EvidenceRow
<1> HIDE DEF new
<1>3. ASSUME NEW a \in attempts', a.result # "unknown"
      PROVE  \E e \in evidence' : Matches(e, a)
  <2>1. PICK e \in evidence : Matches(e, a)
    BY <1>1, <1>3 DEF TablesOK
  <2>2. new(e) \in evidence' /\ Matches(new(e), a)
    BY <1>1, <1>2, <2>1 DEF Matches, About
  <2> QED
    BY <2>2
<1>4. ASSUME NEW f \in evidence'
      PROVE  /\ \E a \in attempts' : About(f, a) /\ a.result # "unknown"
             /\ \E o \in observations' : o.key = f.observation
  <2>1. PICK e \in evidence : f = new(e)
    BY <1>1
  <2> QED
    BY <1>1, <1>2, <2>1 DEF TablesOK, About
<1>5. ASSUME NEW a \in attempts', a.question \in Gradable,
             NEW e \in evidence', NEW f \in evidence', About(e, a), About(f, a)
      PROVE  e = f
  <2>1. PICK d \in evidence, g \in evidence : e = new(d) /\ f = new(g)
    BY <1>1
  <2>2. About(d, a) /\ About(g, a)
    BY <1>2, <1>5, <2>1 DEF About
  <2>3. d = g
    BY <1>1, <1>5, <2>2 DEF TablesOK
  <2> QED
    BY <2>1, <2>3
<1> QED
  BY <1>1, <1>3, <1>4, <1>5 DEF TablesOK

LEMMA StepTables ==
    ASSUME PublishedInv, NEW r \in Request, Handle(r) \/ Crash(r) PROVE TablesOK'
<1>1. CASE UNCHANGED <<attempts, observations, evidence>>
  BY <1>1 DEF PublishedInv, TablesOK
<1>2. FinishCheckpoint(r) => UNCHANGED <<attempts, observations, evidence>>
  BY DEF FinishCheckpoint
<1> QED
  BY <1>1, <1>2, TablesChange, CommitTables, WriteModeTables DEF PublishedInv

-----------------------------------------------------------------------------
(* The handler that moves *)

\* Grading the attempt at hand: its row fits the committed one, if any.
LEMMA GradedFits ==
    ASSUME TypeInv, TablesOK, NEW r \in Request, PendingOK(r), RecordingOK(r),
           pc[r] \in {"insert_observation", "insert_evidence"}, call[r].op # "observe"
    PROVE  LET g == GradedAttempt(r) IN
           /\ Same(g, local[r].attempt)
           /\ g.result # "unknown" /\ (g.result = "correct") = call[r].correct
           /\ \A a \in attempts : a.key = g.key => Same(a, g) /\ g.question \notin Gradable
<1> DEFINE g == GradedAttempt(r)
           l == local[r].attempt
<1>1. l \in AttemptRow /\ call[r].correct \in BOOLEAN
  BY CallKinds DEF TypeInv, ControlOK, Control
<1>2. Same(g, l) /\ g.result # "unknown" /\ (g.result = "correct") = call[r].correct
  BY <1>1 DEF GradedAttempt, AttemptRow, Same
<1>3. ASSUME NEW a \in attempts, a.key = l.key
      PROVE  Same(a, l) /\ l.question \notin Gradable
  <2>0. pc[r] \in Recording
    BY DEF Recording
  <2>1. PICK x \in attempts \cup writes[r].attempts : Same(x, l)
    BY <2>0 DEF RecordingOK
  <2>2. CASE x \in attempts
    <3>1. x = a
      BY <1>3, <2>1, <2>2 DEF TablesOK, Same
    <3>2. ASSUME l.question \in Gradable PROVE FALSE
      <4>1. PICK w \in writes[r].attempts : Same(w, l)
        BY <2>0, <3>2 DEF RecordingOK
      <4> QED
        BY <1>3, <3>2, <4>1 DEF PendingOK, Same
    <3> QED
      BY <2>1, <3>1, <3>2
  <2>3. CASE x \in writes[r].attempts
    BY <1>3, <2>1, <2>3 DEF PendingOK, Same
  <2> QED
    BY <2>1, <2>2, <2>3
<1> QED
  BY <1>2, <1>3 DEF Same

\* A handler that ends without a commit.
LEMMA AnswerOwn ==
    ASSUME TypeInv, NEW r \in Request, NEW how, Answer(r, how),
           how = "ok" => Durable(r)
    PROVE  HandlerOK(r)'
<1>1. /\ writes'[r] = NoWrites /\ pc'[r] = "done" /\ outcome'[r] = how
      /\ UNCHANGED <<attempts, observations, evidence, checkpoints, call>>
  BY DEF TypeInv, TypeOK, Answer, Return, Goto, tables
<1>2. PendingOK(r)' /\ RecordingOK(r)' /\ RouteOK(r)'
  BY <1>1 DEF PendingOK, RecordingOK, RouteOK, NoWrites, Unwritten, Recording,
     Scheduling, Recomputing
<1>3. PromiseOK(r)'
  BY <1>1 DEF PromiseOK, Recording, Graded, Recomputing, Durable, Named
<1> QED
  BY <1>2, <1>3 DEF HandlerOK

\* A step that writes nothing and is not about a graded attempt.
LEMMA PendingStays ==
    ASSUME NEW r \in Request, PendingOK(r),
           UNCHANGED <<attempts, observations>>, writes'[r] = writes[r],
           pc[r] # "insert_evidence",
           \A w \in writes[r].attempts :
               w.result = "unknown" /\ w.question \in Gradable /\ pc[r] \in Recording
               => pc'[r] \in Recording
    PROVE  PendingOK(r)'
  BY DEF PendingOK, Matches, About, Same

LEMMA BeginOwn ==
    ASSUME TypeInv, NEW r \in Request, HandlerOK(r), NEW op, NEW first,
           Begin(r, op, first),
           <<op, first>> \in {<<"submit", "find_attempt">>,
                              <<"evaluate", "load_attempt">>,
                              <<"observe", "find_subject">>,
                              <<"classify", "load_evidence">>,
                              <<"complete", "load_checkpoint">>}
    PROVE  HandlerOK(r)'
<1>1. /\ pc[r] = "idle" /\ pc'[r] = first /\ call'[r].op = op
      /\ writes' = writes /\ outcome' = outcome
      /\ UNCHANGED <<attempts, observations, evidence, checkpoints>>
  BY DEF TypeInv, TypeOK, Begin, Goto, tables
<1>2. writes[r] = NoWrites /\ outcome[r] # "ok"
  BY <1>1 DEF HandlerOK, RecordingOK, PromiseOK, Unwritten
<1>3. PendingOK(r)'
  BY <1>1, <1>2, PendingStays DEF HandlerOK, NoWrites
<1>4. RecordingOK(r)' /\ RouteOK(r)'
  BY <1>1, <1>2 DEF RecordingOK, RouteOK, Recording, Unwritten, Scheduling, Recomputing
<1>5. PromiseOK(r)'
  BY <1>1, <1>2 DEF PromiseOK, Recording, Graded, Recomputing
<1> QED
  BY <1>3, <1>4, <1>5 DEF HandlerOK

LEMMA GetKnowledgeStateOwn ==
    ASSUME TypeInv, NEW r \in Request, HandlerOK(r), GetKnowledgeState(r)
    PROVE  HandlerOK(r)'
<1>1. /\ pc[r] = "idle" /\ pc'[r] = "read_evidence" /\ call'[r].op = "read"
      /\ local'[r].resume = "return_state"
      /\ writes' = writes /\ outcome' = outcome
      /\ UNCHANGED <<attempts, observations, evidence, checkpoints>>
  BY DEF TypeInv, TypeOK, Local, GetKnowledgeState, Goto, tables
<1>2. writes[r] = NoWrites /\ outcome[r] # "ok"
  BY <1>1 DEF HandlerOK, RecordingOK, PromiseOK, Unwritten
<1>3. PendingOK(r)'
  BY <1>1, <1>2, PendingStays DEF HandlerOK, NoWrites
<1>4. RecordingOK(r)' /\ RouteOK(r)'
  BY <1>1, <1>2 DEF RecordingOK, RouteOK, Recording, Unwritten, Scheduling, Recomputing
<1>5. PromiseOK(r)'
  BY <1>1, <1>2 DEF PromiseOK
<1> QED
  BY <1>3, <1>4, <1>5 DEF HandlerOK

\* submit_attempt has returned with its attempt committed.
LEMMA AttemptReturnedOwn ==
    ASSUME TypeInv, NEW r \in Request, AttemptReturned(r),
           outcome[r] # "ok", call[r].op # "complete" => Durable(r)',
           call[r].op = "complete" =>
               Found(r)' /\ \E a \in attempts' : a.key = call[r].key
    PROVE  RouteOK(r)' /\ PromiseOK(r)' /\ pc'[r] \in {"done", "read_evidence"}
<1>1. CASE call[r].op # "complete"
  <2>1. pc'[r] = "done" /\ outcome'[r] = "ok" /\ call' = call
    BY <1>1 DEF TypeInv, TypeOK, AttemptReturned, Return, Goto
  <2> QED
    BY <1>1, <2>1 DEF RouteOK, PromiseOK, Recording, Graded, Scheduling, Recomputing
<1>2. CASE call[r].op = "complete"
  <2>1. /\ pc'[r] = "read_evidence" /\ outcome' = outcome /\ call' = call
        /\ local'[r].resume = "finish_checkpoint"
    BY <1>2 DEF TypeInv, TypeOK, Local, AttemptReturned, Goto
  <2>2. Filed(r, call[r].key)'
    BY <1>2, <2>1 DEF Filed
  <2> QED
    BY <1>2, <2>1, <2>2 DEF RouteOK, PromiseOK, Scheduling, Recomputing
<1> QED
  BY <1>1, <1>2

LEMMA FindAttemptOwn ==
    ASSUME TypeInv, NEW r \in Request, HandlerOK(r), FindAttempt(r)
    PROVE  HandlerOK(r)'
<1>0. /\ pc[r] = "find_attempt" /\ call[r].op \in {"submit", "complete"}
      /\ writes[r] = NoWrites /\ outcome[r] # "ok"
      /\ call[r].op = "complete" => Found(r)
  BY DEF TypeInv, ControlOK, Control, FindAttempt, HandlerOK, RecordingOK, PromiseOK,
     Unwritten
<1>1. CASE Answer(r, "rejected")
  BY <1>1, AnswerOwn
<1>2. CASE /\ \E a \in attempts : a.key = call[r].key
           /\ AttemptReturned(r)
           /\ UNCHANGED <<tables, writes>>
  <2>1. call' = call /\ UNCHANGED <<attempts, observations, evidence, checkpoints>>
    BY <1>2 DEF AttemptReturned, Return, tables
  <2>2. call[r].op # "complete" => Durable(r)'
    BY <1>0, <1>2, <2>1 DEF Durable
  <2>3. RouteOK(r)' /\ PromiseOK(r)' /\ pc'[r] \in {"done", "read_evidence"}
    BY <1>0, <1>2, <2>1, <2>2, AttemptReturnedOwn DEF Found
  <2>4. PendingOK(r)' /\ RecordingOK(r)'
    BY <1>0, <1>2, <2>1, <2>3, PendingStays
    DEF HandlerOK, RecordingOK, NoWrites, Recording, Unwritten
  <2> QED
    BY <2>3, <2>4 DEF HandlerOK
<1>3. CASE /\ local' = [local EXCEPT ![r].attempt = NewAttempt(r)]
           /\ Step(r, "insert_attempt")
           /\ UNCHANGED writes
  <2>1. /\ pc'[r] = "insert_attempt" /\ local'[r].attempt = NewAttempt(r)
        /\ UNCHANGED <<attempts, observations, evidence, checkpoints, writes, call, outcome>>
    BY <1>3 DEF TypeInv, TypeOK, Local, Step, Goto, tables
  <2>2. PendingOK(r)' /\ RecordingOK(r)'
    BY <1>0, <2>1, PendingStays
    DEF HandlerOK, RecordingOK, NoWrites, Recording, Unwritten, NewAttempt
  <2>3. RouteOK(r)' /\ PromiseOK(r)'
    BY <1>0, <2>1 DEF RouteOK, PromiseOK, Recording, Graded, Scheduling, Recomputing, Found
  <2> QED
    BY <2>2, <2>3 DEF HandlerOK
<1> QED
  BY <1>1, <1>2, <1>3 DEF FindAttempt

LEMMA InsertAttemptOwn ==
    ASSUME TypeInv, NEW r \in Request, HandlerOK(r), InsertAttempt(r)
    PROVE  HandlerOK(r)'
<1>0. /\ pc[r] = "insert_attempt" /\ call[r].op \in {"submit", "complete"}
      /\ writes[r] = NoWrites /\ outcome[r] # "ok"
      /\ local[r].attempt.key = call[r].key /\ local[r].attempt.result = "unknown"
      /\ call[r].op = "complete" => Found(r)
  BY DEF TypeInv, ControlOK, Control, InsertAttempt, HandlerOK, RecordingOK, PromiseOK,
     Unwritten
<1>1. CASE Conflict(r)
  BY <1>1, AnswerOwn DEF Conflict
<1>2. CASE /\ \A a \in attempts : a.key # call[r].key
           /\ Step(r, "find_observation")
           /\ writes' = [writes EXCEPT ![r].attempts = {local[r].attempt}]
           /\ local' = [local EXCEPT ![r].observation = <<call[r].key, "submitted">>]
  <2>1. /\ pc'[r] = "find_observation" /\ local'[r].attempt = local[r].attempt
        /\ local'[r].observation = <<call[r].key, "submitted">>
        /\ writes'[r] = [NoWrites EXCEPT !.attempts = {local[r].attempt}]
        /\ UNCHANGED <<attempts, observations, evidence, checkpoints, call, outcome>>
    BY <1>0, <1>2 DEF TypeInv, TypeOK, Local, Step, Goto, tables
  <2>2. writes'[r].attempts = {local[r].attempt} /\ writes'[r].evidence = {}
    BY <2>1 DEF NoWrites
  <2>3. PendingOK(r)'
    BY <1>0, <1>2, <2>1, <2>2 DEF PendingOK, Recording
  <2>4. RecordingOK(r)'
    BY <1>0, <2>1, <2>2 DEF RecordingOK, Recording, Unwritten, Same
  <2>5. RouteOK(r)' /\ PromiseOK(r)'
    BY <1>0, <2>1, <2>2
    DEF RouteOK, PromiseOK, Recording, Graded, Scheduling, Recomputing, Found, Filed
  <2> QED
    BY <2>3, <2>4, <2>5 DEF HandlerOK
<1> QED
  BY <1>1, <1>2 DEF InsertAttempt

\* _record_observation has returned, with the observation committed or flushed.
LEMMA ObservationReturnedOwn ==
    ASSUME TypeInv, TablesOK, NEW r \in Request, HandlerOK(r),
           pc[r] \in {"find_observation", "insert_observation"},
           ObservationReturned(r), UNCHANGED <<tables, call, outcome>>,
           writes'[r].evidence = writes[r].evidence,
           writes[r].observations \subseteq writes'[r].observations,
           \E o \in observations \cup writes'[r].observations : o.key = local[r].observation,
           \/ writes'[r].attempts = writes[r].attempts
           \/ /\ pc[r] = "insert_observation" /\ Evaluating(r)
              /\ writes'[r].attempts = {GradedAttempt(r)}
    PROVE  HandlerOK(r)'
<1> DEFINE l == local[r].attempt
<1>0. /\ pc[r] \in Recording /\ outcome[r] # "ok" /\ call[r].op \in Keyed \cup {"observe"}
      /\ PendingOK(r) /\ RecordingOK(r) /\ PromiseOK(r)
      /\ writes[r].evidence = {} /\ writes'[r].evidence = {}
      /\ UNCHANGED <<attempts, observations, evidence, checkpoints, call, outcome>>
  BY DEF TypeInv, ControlOK, Control, HandlerOK, RecordingOK, PromiseOK, Recording, tables
<1>1. CASE /\ call[r].op = "observe"
           /\ Goto(r, "commit")
           /\ UNCHANGED local
  <2>1. /\ pc'[r] = "commit" /\ local' = local /\ writes'[r].attempts = {}
        /\ local[r].observation = call[r].observation
    BY <1>0, <1>1 DEF TypeInv, TypeOK, Goto, RecordingOK, Evaluating
  <2>2. PendingOK(r)' /\ RecordingOK(r)'
    BY <1>0, <2>1 DEF PendingOK, RecordingOK, Recording, Unwritten
  <2>3. RouteOK(r)' /\ PromiseOK(r)'
    BY <1>0, <1>1, <2>1
    DEF RouteOK, PromiseOK, Recording, Graded, Scheduling, Recomputing
  <2> QED
    BY <2>2, <2>3 DEF HandlerOK
<1>2. ASSUME call[r].op # "observe"
      PROVE  /\ call[r].op \in Keyed
             /\ l.key = call[r].key
             /\ local[r].observation \in {<<call[r].key, "submitted">>,
                                          <<call[r].key, "evaluated">>}
             /\ call[r].op = "evaluate" => local[r].observation[2] = "evaluated"
             /\ \E a \in attempts \cup writes'[r].attempts : Same(a, l)
             /\ \A w \in writes'[r].attempts : Same(w, l)
             /\ l.question \in Gradable => writes'[r].attempts # {}
             /\ \A w, x \in writes'[r].attempts : w = x
             /\ \A w \in writes'[r].attempts, a \in attempts : a.key = w.key =>
                  Same(a, w) /\ w.result # "unknown" /\ w.question \notin Gradable
             /\ call[r].op \in {"submit", "complete"} => Filed(r, call[r].key)'
             /\ call[r].op = "complete" => Found(r)'
  <2>1. /\ call[r].op \in Keyed
        /\ l.key = call[r].key
        /\ local[r].observation \in {<<call[r].key, "submitted">>,
                                     <<call[r].key, "evaluated">>}
        /\ call[r].op = "evaluate" => local[r].observation[2] = "evaluated"
        /\ \E a \in attempts \cup writes[r].attempts : Same(a, l)
        /\ \A w \in writes[r].attempts : Same(w, l)
        /\ l.question \in Gradable => writes[r].attempts # {}
    BY <1>0, <1>2 DEF RecordingOK
  <2>2. call[r].op = "complete" => Found(r)'
    BY <1>0 DEF PromiseOK, Found, Recording
  <2>3. CASE writes'[r].attempts = writes[r].attempts
    BY <1>0, <2>1, <2>2, <2>3 DEF PendingOK, Filed, Same
  <2>4. CASE /\ pc[r] = "insert_observation" /\ Evaluating(r)
             /\ writes'[r].attempts = {GradedAttempt(r)}
    <3>1. /\ Same(GradedAttempt(r), l) /\ GradedAttempt(r).result # "unknown"
          /\ \A a \in attempts : a.key = GradedAttempt(r).key =>
               Same(a, GradedAttempt(r)) /\ GradedAttempt(r).question \notin Gradable
      BY <1>0, <1>2, <2>4, GradedFits
    <3> QED
      BY <1>0, <2>1, <2>2, <2>4, <3>1 DEF Filed, Same
  <2> QED
    BY <2>3, <2>4
<1>3. \A w \in writes[r].attempts : w.result = "unknown"
  BY <1>0 DEF PendingOK
<1>4. CASE /\ call[r].op # "observe"
           /\ local[r].observation[2] = "submitted"
           /\ local[r].attempt.question \in Gradable
           /\ Goto(r, "find_observation")
           /\ local' = [local EXCEPT ![r].observation = <<call[r].key, "evaluated">>]
  <2>1. /\ pc'[r] = "find_observation" /\ local'[r].attempt = l
        /\ local'[r].observation = <<call[r].key, "evaluated">>
    BY <1>4 DEF TypeInv, TypeOK, Local, Goto
  <2>2. writes'[r].attempts = writes[r].attempts
    BY <1>4 DEF Evaluating
  <2>3. PendingOK(r)'
    BY <1>0, <1>2, <1>3, <1>4, <2>1, <2>2 DEF PendingOK, Recording
  <2>4. RecordingOK(r)'
    BY <1>0, <1>2, <1>4, <2>1 DEF RecordingOK, Recording, Unwritten
  <2>5. RouteOK(r)' /\ PromiseOK(r)'
    BY <1>0, <1>2, <1>4, <2>1
    DEF RouteOK, PromiseOK, Recording, Graded, Scheduling, Recomputing
  <2> QED
    BY <2>3, <2>4, <2>5 DEF HandlerOK
<1>5. CASE /\ call[r].op # "observe"
           /\ local[r].observation[2] = "submitted"
           /\ local[r].attempt.question \notin Gradable
           /\ Goto(r, "commit")
           /\ UNCHANGED local
  <2>1. pc'[r] = "commit" /\ local' = local
    BY <1>5 DEF TypeInv, TypeOK, Goto
  <2>2. writes'[r].attempts = writes[r].attempts /\ call[r].op # "evaluate"
    BY <1>2, <1>5 DEF Evaluating
  <2>3. PendingOK(r)'
    BY <1>0, <1>2, <1>3, <1>5, <2>1, <2>2 DEF PendingOK, Same
  <2>4. RecordingOK(r)'
    BY <2>1 DEF RecordingOK, Recording, Unwritten
  <2>5. RouteOK(r)' /\ PromiseOK(r)'
    BY <1>0, <1>2, <1>5, <2>1, <2>2
    DEF RouteOK, PromiseOK, Recording, Graded, Scheduling, Recomputing
  <2> QED
    BY <2>3, <2>4, <2>5 DEF HandlerOK
<1>6. CASE /\ call[r].op # "observe"
           /\ local[r].observation[2] = "evaluated"
           /\ Goto(r, "insert_evidence")
           /\ UNCHANGED local
  <2>1. pc'[r] = "insert_evidence" /\ local' = local
    BY <1>6 DEF TypeInv, TypeOK, Goto
  <2>2. PendingOK(r)'
    BY <1>0, <1>2, <1>6, <2>1 DEF PendingOK, Recording
  <2>3. RecordingOK(r)'
    BY <1>0, <1>2, <1>6, <2>1 DEF RecordingOK, Recording, Unwritten
  <2>4. RouteOK(r)' /\ PromiseOK(r)'
    BY <1>0, <1>2, <1>6, <2>1
    DEF RouteOK, PromiseOK, Recording, Graded, Scheduling, Recomputing
  <2> QED
    BY <2>2, <2>3, <2>4 DEF HandlerOK
<1> QED
  BY <1>1, <1>4, <1>5, <1>6 DEF ObservationReturned

LEMMA FindObservationOwn ==
    ASSUME TypeInv, TablesOK, NEW r \in Request, HandlerOK(r), FindObservation(r)
    PROVE  HandlerOK(r)'
<1>1. CASE (\E o \in observations : o.key = local[r].observation) /\ ObservationReturned(r)
  BY <1>1, ObservationReturnedOwn DEF FindObservation
<1>2. CASE Goto(r, "insert_observation") /\ UNCHANGED local
  <2>1. /\ pc[r] = "find_observation" /\ pc'[r] = "insert_observation"
        /\ local' = local
        /\ UNCHANGED <<attempts, observations, evidence, checkpoints, writes, call, outcome>>
    BY <1>2 DEF TypeInv, TypeOK, Goto, FindObservation, tables
  <2>2. PendingOK(r)'
    BY <2>1, PendingStays DEF HandlerOK, Recording
  <2>3. RecordingOK(r)' /\ RouteOK(r)'
    BY <2>1 DEF HandlerOK, RecordingOK, RouteOK, Recording, Unwritten, Scheduling,
       Recomputing
  <2>4. PromiseOK(r)'
    BY <2>1 DEF HandlerOK, PromiseOK, Recording, Graded, Recomputing, Filed, Found
  <2> QED
    BY <2>2, <2>3, <2>4 DEF HandlerOK
<1> QED
  BY <1>1, <1>2 DEF FindObservation

LEMMA InsertObservationOwn ==
    ASSUME TypeInv, TablesOK, NEW r \in Request, HandlerOK(r), InsertObservation(r)
    PROVE  HandlerOK(r)'
<1>1. CASE Conflict(r)
  BY <1>1, AnswerOwn DEF Conflict
<1>2. CASE /\ ObservationReturned(r)
           /\ writes' = [writes EXCEPT
                ![r].observations = @ \cup {[key |-> local[r].observation, by |-> r]},
                ![r].attempts = IF Evaluating(r) THEN {GradedAttempt(r)} ELSE @]
           /\ UNCHANGED <<tables, call, outcome>>
  <2>1. /\ writes'[r].evidence = writes[r].evidence
        /\ writes'[r].observations = writes[r].observations
             \cup {[key |-> local[r].observation, by |-> r]}
        /\ writes'[r].attempts = IF Evaluating(r) THEN {GradedAttempt(r)}
                                                  ELSE writes[r].attempts
    BY <1>2 DEF TypeInv, TypeOK, Writes
  <2>2. [key |-> local[r].observation, by |-> r].key = local[r].observation
    OBVIOUS
  <2>3. \E o \in observations \cup writes'[r].observations : o.key = local[r].observation
    BY <2>1, <2>2
  <2> QED
    BY <1>2, <2>1, <2>3, ObservationReturnedOwn DEF InsertObservation
<1> QED
  BY <1>1, <1>2 DEF InsertObservation

LEMMA InsertEvidenceOwn ==
    ASSUME TypeInv, TablesOK, NEW r \in Request, HandlerOK(r), InsertEvidence(r)
    PROVE  HandlerOK(r)'
<1> DEFINE l == local[r].attempt
           g == GradedAttempt(r)
           e == NewEvidence(r)
<1>0. /\ pc[r] = "insert_evidence" /\ call[r].op \in Keyed /\ outcome[r] # "ok"
      /\ PendingOK(r) /\ RecordingOK(r) /\ PromiseOK(r)
  BY DEF TypeInv, ControlOK, Control, HandlerOK, InsertEvidence, PromiseOK
<1>1. /\ pc'[r] \in {"find_checkpoints", "commit"}
      /\ writes'[r].attempts = {g} /\ writes'[r].evidence = {e}
      /\ writes'[r].observations = writes[r].observations
      /\ UNCHANGED <<attempts, observations, evidence, checkpoints, call, outcome>>
  BY DEF TypeInv, TypeOK, Writes, InsertEvidence, Step, Goto, tables
<1>2. /\ l.key = call[r].key /\ local[r].observation = <<l.key, "evaluated">>
      /\ \E o \in observations \cup writes[r].observations : o.key = local[r].observation
  BY <1>0 DEF RecordingOK, Recording, Keyed
<1>3. /\ Same(g, l) /\ g.result # "unknown" /\ (g.result = "correct") = call[r].correct
      /\ \A a \in attempts : a.key = g.key => Same(a, g) /\ g.question \notin Gradable
  BY <1>0, GradedFits DEF Keyed
<1>4. e.observation = local[r].observation /\ e.positive = call[r].correct
  BY DEF NewEvidence
<1>5. Matches(e, g)
  BY <1>2, <1>3, <1>4 DEF Matches, About, Same
<1>6. PendingOK(r)'
  BY <1>1, <1>2, <1>3, <1>4, <1>5 DEF PendingOK, Matches
<1>7. RecordingOK(r)' /\ RouteOK(r)'
  BY <1>0, <1>1 DEF RecordingOK, RouteOK, Recording, Unwritten, Scheduling, Recomputing
<1>8. Evaluated(r, call[r].key)' /\ Filed(r, call[r].key)'
  BY <1>1, <1>2, <1>3 DEF Evaluated, Filed, Same
<1>9. PromiseOK(r)'
  BY <1>0, <1>1, <1>8 DEF PromiseOK, Recording, Graded, Recomputing, Found, Keyed
<1> QED
  BY <1>6, <1>7, <1>9 DEF HandlerOK

\* After a commit the handler has nothing uncommitted left.
LEMMA CommitOwn ==
    ASSUME TypeInv, NEW r \in Request, HandlerOK(r), Commit(r),
           pc[r] \in {"commit", "save_state"}, pc'[r] \notin Recording \cup {"insert_attempt"},
           call' = call
    PROVE  /\ PendingOK(r)' /\ RecordingOK(r)'
           /\ \A k : /\ Filed(r, k) => \E a \in attempts' : a.key = k
                     /\ Evaluated(r, k) =>
                          \E a \in attempts' : a.key = k /\ a.result # "unknown"
           /\ Found(r) => Found(r)'
<1>1. writes'[r] = NoWrites
  BY DEF TypeInv, TypeOK, Commit
<1>2. PendingOK(r)' /\ RecordingOK(r)'
  BY <1>1 DEF PendingOK, RecordingOK, NoWrites, Recording, Unwritten
<1>3. Found(r) => Found(r)'
  BY DEF Found, Commit
<1>4. \A a \in attempts : \E b \in attempts' :
        a.key = b.key /\ (a.result # "unknown" => b.result # "unknown")
  BY CommitGrows DEF HandlerOK, Grows, Same
<1>5. writes[r].attempts \subseteq attempts'
  BY DEF Commit
<1> QED
  BY <1>2, <1>3, <1>4, <1>5 DEF Filed, Evaluated

LEMMA FinalCommitOwn ==
    ASSUME TypeInv, NEW r \in Request, HandlerOK(r), FinalCommit(r)
    PROVE  HandlerOK(r)'
<1>0. /\ pc[r] = "commit" /\ Commit(r) /\ AttemptReturned(r) /\ outcome[r] # "ok"
      /\ call[r].op \in Keyed \cup {"observe"} /\ call' = call
  BY DEF FinalCommit, AttemptReturned, Return, HandlerOK, RouteOK, PromiseOK
<1>1. pc'[r] \in {"done", "read_evidence"}
  BY <1>0 DEF TypeInv, TypeOK, AttemptReturned, Return, Goto
<1>2. /\ PendingOK(r)' /\ RecordingOK(r)'
      /\ \A k : /\ Filed(r, k) => \E a \in attempts' : a.key = k
                /\ Evaluated(r, k) => \E a \in attempts' : a.key = k /\ a.result # "unknown"
      /\ Found(r) => Found(r)'
  BY <1>0, <1>1, CommitOwn DEF Recording
<1>3. call[r].op = "complete" => Found(r)' /\ \E a \in attempts' : a.key = call[r].key
  BY <1>0, <1>2 DEF HandlerOK, PromiseOK, Graded
<1>4. call[r].op # "complete" => Durable(r)'
  <2>1. call[r].op = "submit" => Durable(r)'
    BY <1>0, <1>2 DEF HandlerOK, PromiseOK, Graded, Durable
  <2>2. call[r].op = "evaluate" => Durable(r)'
    BY <1>0, <1>2 DEF HandlerOK, PromiseOK, Graded, Durable
  <2>3. call[r].op = "observe" => Durable(r)'
    BY <1>0 DEF HandlerOK, PromiseOK, Durable, Commit
  <2> QED
    BY <1>0, <2>1, <2>2, <2>3 DEF Keyed
<1>5. RouteOK(r)' /\ PromiseOK(r)'
  BY <1>0, <1>3, <1>4, AttemptReturnedOwn
<1> QED
  BY <1>2, <1>5 DEF HandlerOK

LEMMA LoadAttemptOwn ==
    ASSUME TypeInv, TablesOK, NEW r \in Request, HandlerOK(r), LoadAttempt(r)
    PROVE  HandlerOK(r)'
<1>0. /\ pc[r] = "load_attempt" /\ call[r].op = "evaluate" /\ call[r] \in Calls
      /\ writes[r] = NoWrites /\ outcome[r] # "ok"
  BY DEF TypeInv, ControlOK, Control, LoadAttempt, HandlerOK, RecordingOK, PromiseOK,
     Unwritten
<1>1. CASE Answer(r, "rejected")
  BY <1>1, AnswerOwn
<1>2. CASE ~Answer(r, "rejected")
  <2>1. PICK a \in attempts :
          /\ a.key = call[r].key /\ a.result = "unknown"
          /\ local' = [local EXCEPT ![r].attempt = a,
                                    ![r].observation = <<a.key, "evaluated">>]
          /\ Step(r, "find_observation") /\ UNCHANGED writes
    BY <1>2 DEF LoadAttempt
  <2>2. /\ pc'[r] = "find_observation" /\ local'[r].attempt = a
        /\ local'[r].observation = <<call[r].key, "evaluated">>
        /\ UNCHANGED <<attempts, observations, evidence, checkpoints, writes, call, outcome>>
    BY <2>1 DEF TypeInv, TypeOK, Local, Step, Goto, tables
  <2>3. a.question \notin Gradable
    BY <2>1 DEF TablesOK
  <2>4. PendingOK(r)'
    BY <1>0, <2>2, PendingStays DEF HandlerOK, NoWrites
  <2>5. RecordingOK(r)'
    <3>1. a \in attempts' /\ Same(a, a) /\ a.key = call'[r].key /\ call'[r].op = "evaluate"
      BY <1>0, <2>1, <2>2 DEF Same
    <3>2. writes'[r].attempts = {} /\ writes'[r].evidence = {}
      BY <1>0, <2>2 DEF NoWrites
    <3> QED
      BY <2>2, <2>3, <3>1, <3>2 DEF RecordingOK, Recording, Unwritten
  <2>6. RouteOK(r)' /\ PromiseOK(r)'
    BY <1>0, <2>2 DEF RouteOK, PromiseOK, Recording, Graded, Scheduling, Recomputing
  <2> QED
    BY <2>4, <2>5, <2>6 DEF HandlerOK
<1> QED
  BY <1>1, <1>2

LEMMA FindSubjectOwn ==
    ASSUME TypeInv, NEW r \in Request, HandlerOK(r), FindSubject(r)
    PROVE  HandlerOK(r)'
<1>0. /\ pc[r] = "find_subject" /\ call[r].op = "observe"
      /\ writes[r] = NoWrites /\ outcome[r] # "ok"
  BY DEF TypeInv, ControlOK, Control, FindSubject, HandlerOK, RecordingOK, PromiseOK,
     Unwritten
<1>1. CASE Answer(r, "rejected")
  BY <1>1, AnswerOwn
<1>2. CASE (\E o \in observations : o.key = call[r].observation) /\ Answer(r, "ok")
  BY <1>0, <1>2, AnswerOwn DEF Durable
<1>3. CASE /\ local' = [local EXCEPT ![r].observation = call[r].observation]
           /\ Step(r, "find_observation")
           /\ UNCHANGED writes
  <2>1. /\ pc'[r] = "find_observation" /\ local'[r].observation = call[r].observation
        /\ UNCHANGED <<attempts, observations, evidence, checkpoints, writes, call, outcome>>
    BY <1>3 DEF TypeInv, TypeOK, Local, Step, Goto, tables
  <2>2. PendingOK(r)'
    BY <1>0, <2>1, PendingStays DEF HandlerOK, NoWrites
  <2>3. RecordingOK(r)'
    BY <1>0, <2>1 DEF RecordingOK, NoWrites, Recording, Unwritten
  <2>4. RouteOK(r)' /\ PromiseOK(r)'
    BY <1>0, <2>1 DEF RouteOK, PromiseOK, Recording, Graded, Scheduling, Recomputing
  <2> QED
    BY <2>2, <2>3, <2>4 DEF HandlerOK
<1> QED
  BY <1>1, <1>2, <1>3 DEF FindSubject

LEMMA LoadEvidenceOwn ==
    ASSUME TypeInv, NEW r \in Request, HandlerOK(r), LoadEvidence(r)
    PROVE  HandlerOK(r)'
<1>0. pc[r] = "load_evidence" /\ call[r].op = "classify" /\ outcome[r] # "ok"
  BY DEF TypeInv, ControlOK, Control, LoadEvidence, HandlerOK, PromiseOK
<1>1. CASE Answer(r, "rejected")
  BY <1>1, AnswerOwn
<1>2. CASE /\ \E e \in evidence : e.id = call[r].evidence /\ e.mode = None
           /\ Step(r, "write_mode")
           /\ UNCHANGED <<writes, local>>
  <2>1. /\ pc'[r] = "write_mode"
        /\ UNCHANGED <<attempts, observations, evidence, checkpoints, writes, local, call,
                       outcome>>
    BY <1>2 DEF TypeInv, TypeOK, Step, Goto, tables
  <2>2. PendingOK(r)'
    BY <1>0, <2>1, PendingStays DEF HandlerOK, Recording
  <2>3. RecordingOK(r)' /\ RouteOK(r)'
    BY <1>0, <2>1 DEF RecordingOK, RouteOK, Recording, Unwritten, Scheduling, Recomputing
  <2>4. PromiseOK(r)'
    BY <1>0, <1>2, <2>1 DEF PromiseOK, Recording, Graded, Recomputing
  <2> QED
    BY <2>2, <2>3, <2>4 DEF HandlerOK
<1> QED
  BY <1>1, <1>2 DEF LoadEvidence

LEMMA WriteModeOwn ==
    ASSUME TypeInv, NEW r \in Request, HandlerOK(r), WriteMode(r)
    PROVE  HandlerOK(r)'
<1>0. /\ pc[r] = "write_mode" /\ call[r].op = "classify" /\ call[r].mode \in Classified
      /\ \E e \in evidence : e.id = call[r].evidence
  BY DEF TypeInv, ControlOK, Control, WriteMode, HandlerOK, PromiseOK
<1>1. /\ pc'[r] = "done" /\ outcome'[r] = "ok"
      /\ UNCHANGED <<attempts, observations, checkpoints, writes, call, local>>
      /\ evidence' = {IF e.id = call[r].evidence THEN [e EXCEPT !.mode = call[r].mode]
                                                 ELSE e : e \in evidence}
  BY DEF TypeInv, TypeOK, WriteMode, Return, Goto
<1>2. PICK e \in evidence : e.id = call[r].evidence
  BY <1>0
<1>3. [e EXCEPT !.mode = call[r].mode] \in evidence'
  BY <1>1, <1>2
<1>4. /\ [e EXCEPT !.mode = call[r].mode].id = call[r].evidence
      /\ [e EXCEPT !.mode = call[r].mode].mode = call[r].mode
  BY <1>2 DEF TypeInv, TypeOK, EvidenceRow
<1>5. Durable(r)'
  BY <1>0, <1>1, <1>3, <1>4 DEF Durable
<1>6. PendingOK(r)'
  BY <1>0, <1>1, PendingStays DEF HandlerOK, Recording
<1>7. RecordingOK(r)' /\ RouteOK(r)'
  BY <1>1 DEF RecordingOK, RouteOK, Recording, Unwritten, Scheduling, Recomputing
<1>8. PromiseOK(r)'
  BY <1>1, <1>5 DEF PromiseOK, Recording, Graded, Recomputing
<1> QED
  BY <1>6, <1>7, <1>8 DEF HandlerOK

\* A step from the flush of the evidence to the commit, or a recomputation.
LEMMA GradedMoves ==
    ASSUME TypeInv, NEW r \in Request, HandlerOK(r), pc[r] \in Graded,
           pc'[r] \in Graded \cup {"finish_checkpoint", "return_state"},
           call[r].op # "observe", RouteOK(r)',
           UNCHANGED <<attempts, observations, evidence, checkpoints, call, outcome>>,
           writes'[r].attempts = writes[r].attempts,
           writes'[r].observations = writes[r].observations,
           writes'[r].evidence = writes[r].evidence
    PROVE  HandlerOK(r)'
<1>0. /\ pc[r] \notin Recording /\ pc'[r] \notin Recording \cup Unwritten
      /\ pc'[r] \notin {"write_mode", "done"}
      /\ pc[r] \notin {"idle", "load_checkpoint", "done"} /\ outcome[r] # "ok"
  BY DEF Graded, Recording, Recomputing, Unwritten, HandlerOK, PromiseOK
<1>1. PendingOK(r)'
  BY <1>0 DEF HandlerOK, PendingOK, Recording
<1>2. RecordingOK(r)'
  BY <1>0 DEF RecordingOK, Recording, Unwritten
<1>3. PromiseOK(r)'
  BY <1>0 DEF HandlerOK, PromiseOK, Filed, Evaluated, Found, Graded, Recomputing
<1> QED
  BY <1>1, <1>2, <1>3 DEF HandlerOK

\* Who recomputes: a grading, the completion of a checkpoint, or a reader.
LEMMA Recomputers ==
    ASSUME TypeInv, NEW r \in Request, HandlerOK(r), pc[r] \in Recomputing
    PROVE  /\ local[r].resume \in {"insert_checkpoints", "finish_checkpoint", "return_state"}
           /\ local[r].resume = "insert_checkpoints" => call[r].op \in Keyed
           /\ local[r].resume = "finish_checkpoint" => call[r].op = "complete"
           /\ local[r].resume = "return_state" => call[r].op = "read"
           /\ call[r].op # "observe" /\ outcome[r] # "ok"
<1>1. local[r].resume \in {"insert_checkpoints", "finish_checkpoint", "return_state"}
  BY DEF TypeInv, TypeOK, Local, ControlOK, Control
<1>2. /\ local[r].resume = "insert_checkpoints" => call[r].op \in Keyed
      /\ local[r].resume = "finish_checkpoint" => call[r].op = "complete"
      /\ local[r].resume = "return_state" => call[r].op = "read"
  BY DEF TypeInv, ControlOK, Control, HandlerOK, RouteOK
<1>3. outcome[r] # "ok"
  BY DEF HandlerOK, PromiseOK, Recomputing
<1> QED
  BY <1>1, <1>2, <1>3 DEF Keyed

LEMMA KnowledgeOwn ==
    ASSUME TypeInv, NEW r \in Request, HandlerOK(r), KnowledgeNext(r)
    PROVE  HandlerOK(r)'
<1>1. CASE GetKnowledgeState(r)
  BY <1>1, GetKnowledgeStateOwn
<1>2. CASE ReadEvidence(r) \/ ReadState(r)
  <2>1. /\ pc[r] \in Recomputing /\ pc'[r] \in {"read_state", "save_state"}
        /\ local'[r].resume = local[r].resume
        /\ UNCHANGED <<attempts, observations, evidence, checkpoints, call, outcome, writes>>
    BY <1>2 DEF TypeInv, TypeOK, Local, ReadEvidence, ReadState, Step, Goto, tables,
       Recomputing
  <2>2. RouteOK(r)'
    BY <2>1, Recomputers DEF RouteOK, Scheduling, Recomputing
  <2> QED
    BY <2>1, <2>2, Recomputers, GradedMoves DEF Graded, Recomputing
<1>3. CASE SaveState(r)
  <2>1. CASE Conflict(r)
    BY <2>1, AnswerOwn DEF Conflict
  <2>2. CASE ~Conflict(r)
    <3>1. /\ pc[r] = "save_state" /\ Commit(r) /\ pc'[r] = "refresh_state"
          /\ UNCHANGED <<call, local, outcome>>
      BY <1>3, <2>2 DEF TypeInv, TypeOK, SaveState, Goto
    <3>2. /\ PendingOK(r)' /\ RecordingOK(r)'
          /\ \A k : /\ Filed(r, k) => \E a \in attempts' : a.key = k
                    /\ Evaluated(r, k) =>
                         \E a \in attempts' : a.key = k /\ a.result # "unknown"
          /\ Found(r) => Found(r)'
      BY <3>1, CommitOwn DEF Recording
    <3>3. RouteOK(r)' /\ call[r].op # "observe" /\ outcome[r] # "ok"
      BY <3>1, Recomputers DEF RouteOK, Scheduling, Recomputing
    <3>4. \A k : /\ Filed(r, k) => Filed(r, k)'
                 /\ Evaluated(r, k) => Evaluated(r, k)'
      BY <3>2 DEF Filed, Evaluated
    <3>5. PromiseOK(r)'
      BY <3>1, <3>2, <3>3, <3>4 DEF HandlerOK, PromiseOK, Graded, Recomputing
    <3> QED
      BY <3>2, <3>3, <3>5 DEF HandlerOK
  <2> QED
    BY <2>1, <2>2
<1>4. CASE RefreshState(r)
  <2>1. /\ pc[r] \in Recomputing /\ call' = call
        /\ \/ pc'[r] = "commit" /\ local[r].resume = "insert_checkpoints"
           \/ pc'[r] = local[r].resume
        /\ local'[r].resume = local[r].resume
        /\ UNCHANGED <<attempts, observations, evidence, checkpoints, outcome, writes>>
    BY <1>4 DEF TypeInv, TypeOK, Local, RefreshState, Step, Goto, tables, Recomputing
  <2>2. RouteOK(r)'
    BY <2>1, Recomputers DEF RouteOK, Scheduling, Recomputing, Keyed
  <2>3. pc[r] \in Graded /\ pc'[r] \in Graded \cup {"finish_checkpoint", "return_state"}
    BY <2>1, Recomputers DEF Graded
  <2> QED
    BY <2>1, <2>2, <2>3, Recomputers, GradedMoves
<1>5. CASE ReturnState(r)
  <2>1. call[r].op = "read" /\ Answer(r, "ok")
    BY <1>5 DEF ReturnState, HandlerOK, RouteOK
  <2> QED
    BY <2>1, AnswerOwn DEF Durable
<1> QED
  BY <1>1, <1>2, <1>3, <1>4, <1>5 DEF KnowledgeNext

LEMMA FinishCheckpointOwn ==
    ASSUME TypeInv, NEW r \in Request, HandlerOK(r), FinishCheckpoint(r)
    PROVE  HandlerOK(r)'
<1>0. /\ pc[r] = "finish_checkpoint" /\ call[r].op = "complete" /\ Found(r)
  BY DEF TypeInv, ControlOK, Control, FinishCheckpoint, HandlerOK, PromiseOK
<1>1. PICK a \in attempts :
        /\ a.key = call[r].key
        /\ checkpoints' = {IF c \in Named(r) THEN Completed(c, a) ELSE c : c \in checkpoints}
  BY DEF FinishCheckpoint
<1>2. /\ pc'[r] = "done" /\ outcome'[r] = "ok"
      /\ UNCHANGED <<attempts, observations, evidence, writes, call, local>>
  BY DEF TypeInv, TypeOK, FinishCheckpoint, Return, Goto
<1>3. PICK c \in checkpoints : c.learner = call[r].learner /\ c.days = call[r].days
  BY <1>0 DEF Found
<1>4. Completed(c, a) \in checkpoints'
  BY <1>1, <1>3 DEF Named
<1>5. /\ Completed(c, a).learner = c.learner /\ Completed(c, a).days = c.days
      /\ Completed(c, a).status = "completed"
  BY <1>3 DEF TypeInv, TypeOK, CheckpointRow, Completed
<1>6. Durable(r)'
  BY <1>0, <1>1, <1>2, <1>3, <1>4, <1>5 DEF Durable, Named
<1>7. PendingOK(r)'
  BY <1>0, <1>2, PendingStays DEF HandlerOK, Recording
<1>8. RecordingOK(r)' /\ RouteOK(r)'
  BY <1>2 DEF RecordingOK, RouteOK, Recording, Unwritten, Scheduling, Recomputing
<1>9. PromiseOK(r)'
  BY <1>2, <1>6 DEF PromiseOK, Recording, Graded, Recomputing
<1> QED
  BY <1>7, <1>8, <1>9 DEF HandlerOK

LEMMA RetentionOwn ==
    ASSUME TypeInv, NEW r \in Request, HandlerOK(r), RetentionNext(r)
    PROVE  HandlerOK(r)'
<1>1. CASE FindCheckpoints(r)
  <2>1. /\ pc[r] = "find_checkpoints" /\ pc'[r] \in {"commit", "read_evidence"}
        /\ local' = local /\ local[r].resume = "insert_checkpoints"
        /\ UNCHANGED <<attempts, observations, evidence, checkpoints, call, outcome, writes>>
    BY <1>1 DEF TypeInv, TypeOK, ControlOK, Control, FindCheckpoints, Step, Goto, tables,
       Scheduling
  <2>2. call[r].op \in Keyed
    BY <2>1 DEF HandlerOK, RouteOK, Scheduling
  <2>3. RouteOK(r)'
    BY <2>1, <2>2 DEF RouteOK, Scheduling, Recomputing
  <2> QED
    BY <2>1, <2>2, <2>3, GradedMoves DEF Graded, Recomputing, Keyed
<1>2. CASE InsertCheckpoints(r)
  <2>1. CASE Conflict(r)
    BY <2>1, AnswerOwn DEF Conflict
  <2>2. CASE ~Conflict(r)
    <3>1. /\ pc[r] = "insert_checkpoints" /\ pc'[r] = "commit" /\ local' = local
          /\ UNCHANGED <<attempts, observations, evidence, checkpoints, call, outcome>>
          /\ writes'[r].attempts = writes[r].attempts
          /\ writes'[r].observations = writes[r].observations
          /\ writes'[r].evidence = writes[r].evidence
      BY <1>2, <2>2 DEF TypeInv, TypeOK, Writes, InsertCheckpoints, Step, Goto, tables
    <3>2. call[r].op \in Keyed
      BY <3>1 DEF HandlerOK, RouteOK, Scheduling
    <3>3. RouteOK(r)'
      BY <3>1, <3>2 DEF RouteOK, Scheduling, Recomputing
    <3> QED
      BY <3>1, <3>2, <3>3, GradedMoves DEF Graded, Keyed
  <2> QED
    BY <2>1, <2>2
<1>3. CASE CompleteCheckpoint(r)
  BY <1>3, BeginOwn DEF CompleteCheckpoint
<1>4. CASE LoadCheckpoint(r)
  <2>1. CASE Answer(r, "rejected")
    BY <2>1, AnswerOwn
  <2>2. CASE Completable(r) /\ Step(r, "find_attempt") /\ UNCHANGED <<writes, local>>
    <3>1. /\ pc[r] = "load_checkpoint" /\ pc'[r] = "find_attempt"
          /\ UNCHANGED <<attempts, observations, evidence, checkpoints, writes, local, call,
                         outcome>>
      BY <1>4, <2>2 DEF TypeInv, TypeOK, LoadCheckpoint, Step, Goto, tables
    <3>2. writes[r] = NoWrites /\ outcome[r] # "ok"
      BY <3>1 DEF HandlerOK, RecordingOK, PromiseOK, Unwritten
    <3>3. PendingOK(r)'
      BY <3>1, <3>2, PendingStays DEF HandlerOK, NoWrites
    <3>4. RecordingOK(r)' /\ RouteOK(r)'
      BY <3>1, <3>2 DEF RecordingOK, RouteOK, Recording, Unwritten, Scheduling, Recomputing
    <3>5. Found(r)'
      BY <2>2, <3>1 DEF Completable, Named, Found
    <3>6. PromiseOK(r)'
      BY <3>1, <3>2, <3>5 DEF PromiseOK, Recording, Graded, Recomputing
    <3> QED
      BY <3>3, <3>4, <3>6 DEF HandlerOK
  <2> QED
    BY <1>4, <2>1, <2>2 DEF LoadCheckpoint
<1>5. CASE FinishCheckpoint(r)
  BY <1>5, FinishCheckpointOwn
<1> QED
  BY <1>1, <1>2, <1>3, <1>4, <1>5 DEF RetentionNext

LEMMA OwnOK ==
    ASSUME PublishedInv, NEW r \in Request, Handle(r) \/ Crash(r)
    PROVE  HandlerOK(r)'
<1>0. TypeInv /\ TablesOK /\ HandlerOK(r)
  BY DEF PublishedInv
<1>1. CASE AssessmentNext(r)
  BY <1>0, <1>1, BeginOwn, FindAttemptOwn, InsertAttemptOwn, FindObservationOwn,
     InsertObservationOwn, InsertEvidenceOwn, FinalCommitOwn, LoadAttemptOwn,
     FindSubjectOwn, LoadEvidenceOwn, WriteModeOwn
  DEF AssessmentNext, SubmitAttempt, EvaluateAttempt, RecordObservation,
      ClassifyFailureMode
<1>2. CASE KnowledgeNext(r) \/ RetentionNext(r)
  BY <1>0, <1>2, KnowledgeOwn, RetentionOwn
<1>3. CASE Crash(r)
  BY <1>0, <1>3, AnswerOwn DEF Crash
<1> QED
  BY <1>1, <1>2, <1>3 DEF Handle

-----------------------------------------------------------------------------
(* The locks *)

\* A lookup that finds nothing wrong writes nothing.
LEMMA LookupWrites ==
    ASSUME NEW r \in Request,
           FindAttempt(r) \/ LoadAttempt(r) \/ FindSubject(r) \/ LoadEvidence(r)
    PROVE  (\E how : Answer(r, how)) \/ writes' = writes
<1>1. CASE FindAttempt(r)
  BY <1>1 DEF FindAttempt
<1>2. CASE LoadAttempt(r)
  BY <1>2 DEF LoadAttempt
<1>3. CASE FindSubject(r)
  BY <1>3 DEF FindSubject
<1>4. CASE LoadEvidence(r)
  BY <1>4 DEF LoadEvidence
<1> QED
  BY <1>1, <1>2, <1>3, <1>4

\* What a handler writes in one step: nothing new, or a row under a key that
\* no other handler holds.
LEMMA WritesChange ==
    ASSUME TypeInv, NEW r \in Request, HandlerOK(r), Handle(r) \/ Crash(r)
    PROVE  \/ writes'[r].attempts \subseteq writes[r].attempts
           \/ \A w \in writes'[r].attempts : ~AttemptHeld(r, w.key)
<1> USE DEF TypeInv, TypeOK, Writes, NoWrites
<1>1. CASE InsertAttempt(r)
  <2>1. CASE Conflict(r)
    BY <2>1 DEF Conflict, Answer
  <2>2. CASE ~Conflict(r)
    <3>1. /\ pc[r] = "insert_attempt" /\ ~AttemptHeld(r, call[r].key)
          /\ writes'[r].attempts = {local[r].attempt}
      BY <1>1, <2>2 DEF InsertAttempt
    <3>2. local[r].attempt.key = call[r].key
      BY <3>1 DEF HandlerOK, RecordingOK
    <3> QED
      BY <3>1, <3>2
  <2> QED
    BY <2>1, <2>2
<1>2. ASSUME call[r].op # "observe", pc[r] \in {"insert_observation", "insert_evidence"}
      PROVE  GradedAttempt(r).key = local[r].attempt.key
  BY <1>2 DEF ControlOK, Control, GradedAttempt, AttemptRow
<1>3. CASE InsertObservation(r)
  <2>1. CASE Conflict(r)
    BY <2>1 DEF Conflict, Answer
  <2>2. CASE ~Conflict(r)
    <3>1. /\ pc[r] = "insert_observation"
          /\ Evaluating(r) => ~AttemptHeld(r, local[r].attempt.key)
          /\ writes'[r].attempts = IF Evaluating(r) THEN {GradedAttempt(r)}
                                                    ELSE writes[r].attempts
      BY <1>3, <2>2 DEF InsertObservation
    <3> QED
      BY <1>2, <3>1 DEF Evaluating
  <2> QED
    BY <2>1, <2>2
<1>4. CASE InsertEvidence(r)
  <2>1. /\ pc[r] = "insert_evidence" /\ ~AttemptHeld(r, local[r].attempt.key)
        /\ writes'[r].attempts = {GradedAttempt(r)}
    BY <1>4 DEF InsertEvidence
  <2>2. call[r].op # "observe"
    BY <2>1 DEF HandlerOK, RouteOK, Keyed
  <2> QED
    BY <1>2, <2>1, <2>2
<1>5. CASE AssessmentNext(r) /\ ~InsertAttempt(r) /\ ~InsertObservation(r)
           /\ ~InsertEvidence(r)
  <2>1. CASE SubmitAttempt(r) \/ EvaluateAttempt(r) \/ RecordObservation(r)
             \/ ClassifyFailureMode(r) \/ FindObservation(r) \/ WriteMode(r)
    BY <2>1 DEF SubmitAttempt, EvaluateAttempt, RecordObservation, ClassifyFailureMode,
       Begin, FindObservation, WriteMode
  <2>2. CASE FinalCommit(r)
    BY <2>2 DEF FinalCommit, Commit
  <2>3. CASE FindAttempt(r) \/ LoadAttempt(r) \/ FindSubject(r) \/ LoadEvidence(r)
    <3>1. (\E how : Answer(r, how)) \/ writes' = writes
      BY <2>3, LookupWrites
    <3>2. ASSUME NEW how, Answer(r, how) PROVE writes'[r].attempts = {}
      BY <3>2 DEF Answer
    <3> QED
      BY <3>1, <3>2
  <2> QED
    BY <1>5, <2>1, <2>2, <2>3 DEF AssessmentNext
<1>6. CASE KnowledgeNext(r)
  BY <1>6 DEF KnowledgeNext, GetKnowledgeState, ReadEvidence, ReadState, SaveState, Commit,
     RefreshState, ReturnState, Conflict, Answer
<1>7. CASE RetentionNext(r)
  BY <1>7 DEF RetentionNext, FindCheckpoints, InsertCheckpoints, CompleteCheckpoint, Begin,
     LoadCheckpoint, FinishCheckpoint, Conflict, Answer
<1>8. CASE Crash(r)
  BY <1>8 DEF Crash, Answer
<1> QED
  BY <1>1, <1>3, <1>4, <1>5, <1>6, <1>7, <1>8 DEF Handle

LEMMA StepLocked ==
    ASSUME PublishedInv, NEW r \in Request, Handle(r) \/ Crash(r) PROVE Locked'
<1>0. TypeInv /\ Locked /\ HandlerOK(r)
  BY DEF PublishedInv
<1>1. \A q \in Request : q # r => writes'[q] = writes[q]
  BY <1>0, OthersUntouched
<1>2. ASSUME NEW s \in Request, s # r, NEW w \in writes'[r].attempts,
             NEW a \in writes'[s].attempts
      PROVE  w.key # a.key
  <2>1. a \in writes[s].attempts
    BY <1>1, <1>2
  <2> QED
    BY <1>0, <1>2, <2>1, WritesChange DEF Locked, AttemptHeld
<1> QED
  BY <1>0, <1>1, <1>2 DEF Locked

LEMMA PublishedStep == PublishedInv /\ [Next]_vars => PublishedInv'
<1> SUFFICES ASSUME PublishedInv, [Next]_vars PROVE PublishedInv'
  OBVIOUS
<1>1. ASSUME NEW r \in Request, Handle(r) \/ Crash(r) PROVE PublishedInv'
  <2>1. TypeInv'
    BY StepTypeInv DEF PublishedInv
  <2>2. TablesOK' /\ Locked'
    BY <1>1, StepTables, StepLocked
  <2>3. \A q \in Request : HandlerOK(q)'
    BY <1>1, OwnOK, OthersOK
  <2> QED
    BY <2>1, <2>2, <2>3 DEF PublishedInv
<1>2. CASE UNCHANGED vars
  <2>1. TypeInv'
    BY StepTypeInv DEF PublishedInv
  <2>2. TablesOK' /\ Locked'
    BY <1>2 DEF vars, PublishedInv, TablesOK, Locked
  <2>3. ASSUME NEW q \in Request PROVE HandlerOK(q)'
    <3>1. PendingOK(q)' /\ RecordingOK(q)' /\ RouteOK(q)'
      BY <1>2 DEF vars, PublishedInv, HandlerOK, PendingOK, RecordingOK, RouteOK
    <3>2. PromiseOK(q)'
      BY <1>2 DEF vars, PublishedInv, HandlerOK, PromiseOK, Filed, Evaluated, Found,
         Durable, Named
    <3> QED
      BY <3>1, <3>2 DEF HandlerOK
  <2> QED
    BY <2>1, <2>2, <2>3 DEF PublishedInv
<1> QED
  BY <1>1, <1>2 DEF Next, Finished

LEMMA AlwaysPublished == Spec => []PublishedInv
  BY InitPublished, PublishedStep, PTL DEF Spec

-----------------------------------------------------------------------------

\* A result and the evidence of it become visible together, whatever the
\* handler's earlier commit, the other handlers and crashes do.
THEOREM PublishedWhole == Spec => []EvaluationPublishedWhole
<1>1. PublishedInv => EvaluationPublishedWhole
  <2> SUFFICES ASSUME PublishedInv PROVE EvaluationPublishedWhole
    OBVIOUS
  <2>1. TablesOK
    BY DEF PublishedInv
  <2>2. ASSUME NEW a \in attempts, NEW e \in evidence, About(e, a)
        PROVE  a.result # "unknown"
    <3>1. PICK b \in attempts : About(e, b) /\ b.result # "unknown"
      BY <2>1 DEF TablesOK
    <3>2. b.key = a.key
      BY <2>2, <3>1 DEF About
    <3> QED
      BY <2>1, <3>1, <3>2 DEF TablesOK
  <2> QED
    BY <2>1, <2>2 DEF TablesOK, EvaluationPublishedWhole, Matches, About
<1> QED
  BY <1>1, AlwaysPublished, PTL

\* A gradable attempt is graded by the transaction that inserts it, and by no
\* other: evaluate_attempt never finds it ungraded.
THEOREM GradedOnce == Spec => []GradedExactlyOnce
<1>1. PublishedInv => GradedExactlyOnce
  <2> SUFFICES ASSUME PublishedInv, NEW a \in attempts, a.question \in Gradable
               PROVE  Cardinality({e \in evidence : e.observation = <<a.key, "evaluated">>}) = 1
    BY DEF GradedExactlyOnce
  <2>1. PICK e \in evidence : About(e, a)
    BY DEF PublishedInv, TablesOK, Matches
  <2>2. {f \in evidence : f.observation = <<a.key, "evaluated">>} = {e}
    BY <2>1 DEF PublishedInv, TablesOK, About
  <2> QED
    BY <2>2, FS_Singleton
<1> QED
  BY <1>1, AlwaysPublished, PTL

\* What a client was told of was committed before the answer, and stays.
THEOREM Acknowledged == Spec => []AcknowledgedIsDurable
<1>1. PublishedInv => AcknowledgedIsDurable
  BY DEF PublishedInv, HandlerOK, PromiseOK, Durable, AcknowledgedIsDurable
<1> QED
  BY <1>1, AlwaysPublished, PTL

\* No commit loses, reassigns or reopens what is there: an attempt's row is
\* replaced only by one that its own handler has read and locked.
THEOREM HistoryIsKept == Spec => HistoryKept
<1> DEFINE Kept ==
      /\ \A a \in attempts : \E b \in attempts' :
            b = [a EXCEPT !.result = b.result] /\ (b.result = "unknown" => a = b)
      /\ observations \subseteq observations'
      /\ \A e \in evidence : \E f \in evidence' : f = [e EXCEPT !.mode = f.mode]
      /\ \A c \in checkpoints : \E d \in checkpoints' :
            /\ d = [c EXCEPT !.status = d.status, !.delayed = d.delayed,
                             !.verdict = d.verdict]
            /\ c.status = "completed" => d.status = "completed"
<1>1. ASSUME PublishedInv, TypeInv', Grows PROVE Kept
  <2>1. ASSUME NEW a \in attempts
        PROVE  \E b \in attempts' :
                 b = [a EXCEPT !.result = b.result] /\ (b.result = "unknown" => a = b)
    <3>1. PICK b \in attempts' :
            Same(a, b) /\ (a.result # "unknown" => b.result # "unknown")
      BY <1>1 DEF Grows
    <3>2. a \in AttemptRow /\ b \in AttemptRow
      BY <1>1 DEF PublishedInv, TypeInv, TypeOK
    <3>3. b = [a EXCEPT !.result = b.result] /\ (b.result = "unknown" => a = b)
      BY <3>1, <3>2 DEF Same, AttemptRow
    <3> QED
      BY <3>3
  <2> QED
    BY <1>1, <2>1 DEF Grows
<1>2. PublishedInv /\ [Next]_vars => [Kept]_<<attempts, observations, evidence, checkpoints>>
  <2> SUFFICES ASSUME PublishedInv, [Next]_vars,
                      ~UNCHANGED <<attempts, observations, evidence, checkpoints>>
               PROVE  Kept
    OBVIOUS
  <2>1. PICK r \in Request : Handle(r) \/ Crash(r)
    BY DEF Next, Finished, vars
  <2>2. Grows /\ TypeInv'
    BY <2>1, StepGrows, StepTypeInv DEF PublishedInv
  <2> QED
    BY <1>1, <2>2
<1>3. HistoryKept <=> [][Kept]_<<attempts, observations, evidence, checkpoints>>
  BY DEF HistoryKept
<1> QED
  BY <1>2, <1>3, AlwaysPublished, PTL DEF Spec

-----------------------------------------------------------------------------
(* What checkpoints rest on *)

\* Evidence has one row per request, which is finitely many rows at any time,
\* and a handler that has yet to grade has none.
EvidenceOK ==
    /\ IsFiniteSet(evidence)
    /\ \A e, f \in evidence : e.id = f.id => e = f
    /\ \A r \in Request :
         /\ \A e \in writes[r].evidence : e.id = r
         /\ \/ pc[r] \in Unwritten \cup Recording
            \/ writes[r].evidence # {}
            => \A e \in evidence : e.id # r

Certain(rows, l) == LabelOf(Relevant(rows, l)) = "high_confidence"

\* Every checkpoint has its twin.
Paired(rows) ==
    /\ \A c \in rows, days \in CheckpointDays :
         \E d \in rows : d.learner = c.learner /\ d.days = days
    /\ \A c, d \in rows : c.learner = d.learner =>
         /\ c.origin = d.origin /\ c.label = d.label /\ c.mastered = d.mastered
         /\ c.days = d.days => c = d

\* A checkpoint rests on what its origin committed before.
Grounded(c) ==
    /\ \E e \in Relevant(evidence, c.learner) : e.id = c.origin
    /\ Certain(evidence, c.learner)

\* On its way from the evidence to the checkpoints a handler sees its evidence,
\* and what it holds to be certain is.
ScheduleOK(r) ==
    LET l == local[r].learner IN
    /\ pc[r] \in Scheduling
           \/ (pc[r] \in Recomputing /\ local[r].resume = "insert_checkpoints")
       => \E e \in Relevant(VisibleEvidence(r), l) : e.id = r
    /\ pc[r] \in {"read_state", "save_state"} /\ local[r].state.label = "high_confidence"
       => Certain(VisibleEvidence(r), l)
    /\ pc[r] \in {"refresh_state", "insert_checkpoints"} => writes[r].evidence = {}
    /\ pc[r] = "insert_checkpoints" => Certain(evidence, l)
    /\ Paired(writes[r].checkpoints)
    /\ \A c \in writes[r].checkpoints :
         /\ Grounded(c)
         /\ \A d \in checkpoints : d.learner # c.learner

ScheduleInv ==
    /\ EvidenceOK
    /\ \A s \in states : s.label = "high_confidence" => Certain(evidence, s.learner)
    /\ Paired(checkpoints) /\ \A c \in checkpoints : Grounded(c)
    /\ \A r \in Request : ScheduleOK(r)
    /\ \A r, s \in Request : r # s =>
         \A c \in writes[r].checkpoints, d \in writes[s].checkpoints :
             c.learner # d.learner

Weights(rows) == [e \in rows |-> e.weight]

\* Rows of the same weight, on the same facet of the same learner.
Carried(rows, more) ==
    \A e \in rows : \E f \in more : /\ f.id = e.id /\ f.learner = e.learner
                                  /\ f.facet = e.facet /\ f.weight = e.weight

Unique(rows) == \A e, f \in rows : e.id = f.id => e = f

\* More evidence is no less confident.
LEMMA CertainCarried ==
    ASSUME NEW rows \in SUBSET EvidenceRow, NEW more \in SUBSET EvidenceRow,
           IsFiniteSet(rows), IsFiniteSet(more), Unique(rows), Carried(rows, more), NEW l
    PROVE  Certain(rows, l) => Certain(more, l)
<1> DEFINE S == Relevant(rows, l)
           T == Relevant(more, l)
           f == Weights(S)
           g == Weights(T)
           m == [e \in S |-> CHOOSE x \in T : x.id = e.id /\ x.weight = e.weight]
<1>1. S \in SUBSET rows /\ T \in SUBSET more /\ IsFiniteSet(S) /\ IsFiniteSet(T)
  <2>1. S \in SUBSET rows /\ T \in SUBSET more
    BY DEF Relevant
  <2> HIDE DEF S, T
  <2> QED
    BY <2>1, FS_Subset
<1>2. Weighs(f, S) /\ Weighs(g, T)
  <2> HIDE DEF S, T
  <2> QED
    BY <1>1 DEF Weighs, Weights, EvidenceRow
<1>3. ASSUME NEW e \in S
      PROVE  m[e] \in T /\ m[e].id = e.id /\ m[e].weight = e.weight
  <2>1. \E x \in T : x.id = e.id /\ x.weight = e.weight
    BY DEF Relevant, Carried
  <2> HIDE DEF S, T
  <2> QED
    BY <2>1
<1>4. \A e \in S : m[e] \in T /\ g[m[e]] = f[e]
  <2> HIDE DEF m, S, T
  <2> QED
    BY <1>3 DEF Weights
<1>5. \A d, e \in S : m[d] = m[e] => d = e
  <2> HIDE DEF m
  <2> QED
    BY <1>1, <1>3 DEF Unique
<1>6. SumFunctionOnSet(f, S) <= SumFunctionOnSet(g, T)
  <2> HIDE DEF f, g, S, T, m
  <2> QED
    BY <1>1, <1>2, <1>4, <1>5, SumCovered
<1>7. SumFunctionOnSet(f, S) \in Nat /\ SumFunctionOnSet(g, T) \in Nat
  <2> HIDE DEF f, g, S, T
  <2> QED
    BY <1>1, <1>2, SumIsNat
<1>8. TotalWeight(S) = SumFunctionOnSet(f, S) /\ TotalWeight(T) = SumFunctionOnSet(g, T)
  <2> HIDE DEF S, T
  <2> QED
    BY Zenon DEF TotalWeight, SumFunction, Weights
<1>9. TotalWeight(S) \in Nat /\ TotalWeight(T) \in Nat /\ TotalWeight(S) <= TotalWeight(T)
  BY <1>6, <1>7, <1>8
<1> HIDE DEF f, g, m
<1> QED
  BY <1>9, ThresholdAssumption DEF Certain, LabelOf

\* A handler flushes one row of evidence, before anything it publishes.
LEMMA EvidenceWrites ==
    ASSUME TypeInv, NEW r \in Request, Handle(r) \/ Crash(r)
    PROVE  /\ \/ writes'[r].evidence \in {{}, writes[r].evidence}
              \/ /\ pc[r] = "insert_evidence"
                 /\ writes'[r].evidence = {NewEvidence(r)}
           /\ pc'[r] \in Unwritten \cup Recording => pc[r] \in Unwritten \cup Recording
<1> USE DEF TypeInv, TypeOK, Writes, NoWrites, Goto, Return, Answer, Conflict, Step,
            Unwritten, Recording
<1>1. CASE Crash(r)
  BY <1>1 DEF Crash
<1>2. CASE SubmitAttempt(r) \/ EvaluateAttempt(r) \/ RecordObservation(r)
           \/ ClassifyFailureMode(r) \/ CompleteCheckpoint(r) \/ GetKnowledgeState(r)
  BY <1>2 DEF SubmitAttempt, EvaluateAttempt, RecordObservation, ClassifyFailureMode,
     CompleteCheckpoint, Begin, GetKnowledgeState
<1>3. CASE FindAttempt(r) \/ LoadAttempt(r) \/ FindSubject(r)
  <2>1. (\E how : Answer(r, how)) \/ writes' = writes
    BY <1>3, LookupWrites
  <2>2. pc[r] \in Unwritten
    BY <1>3 DEF FindAttempt, LoadAttempt, FindSubject
  <2>3. ASSUME NEW how, Answer(r, how) PROVE writes'[r].evidence = {}
    BY <2>3
  <2> QED
    BY <2>1, <2>2, <2>3
<1>10. CASE InsertAttempt(r)
  BY <1>10 DEF InsertAttempt
<1>4. CASE FindObservation(r) \/ InsertObservation(r)
  BY <1>4 DEF FindObservation, InsertObservation, ObservationReturned
<1>5. CASE InsertEvidence(r)
  BY <1>5 DEF InsertEvidence
<1>6. CASE FinalCommit(r) \/ LoadEvidence(r) \/ WriteMode(r)
  BY <1>6 DEF FinalCommit, LoadEvidence, WriteMode, Commit, AttemptReturned
<1>7. CASE ReadEvidence(r) \/ ReadState(r) \/ SaveState(r) \/ ReturnState(r)
  BY <1>7 DEF ReadEvidence, ReadState, SaveState, ReturnState, Commit
<1>8. CASE RefreshState(r)
  BY <1>8 DEF RefreshState, ControlOK, Control, Local, Recomputing
<1>9. CASE FindCheckpoints(r) \/ InsertCheckpoints(r) \/ LoadCheckpoint(r)
           \/ FinishCheckpoint(r)
  BY <1>9 DEF FindCheckpoints, InsertCheckpoints, LoadCheckpoint, FinishCheckpoint
<1> QED
  BY <1>1, <1>2, <1>3, <1>4, <1>5, <1>6, <1>7, <1>8, <1>9, <1>10
  DEF Handle, AssessmentNext, KnowledgeNext, RetentionNext

LEMMA PendingFinite ==
    ASSUME NEW r \in Request, PendingOK(r) PROVE IsFiniteSet(writes[r].evidence)
<1>1. CASE writes[r].evidence = {}
  BY <1>1, FS_EmptySet
<1>2. ASSUME NEW e \in writes[r].evidence PROVE IsFiniteSet(writes[r].evidence)
  <2>1. writes[r].evidence = {e}
    BY DEF PendingOK
  <2> QED
    BY <2>1, FS_Singleton
<1> QED
  BY <1>1, <1>2

LEMMA EvidenceStep ==
    ASSUME PublishedInv, EvidenceOK, NEW r \in Request, Handle(r) \/ Crash(r)
    PROVE  EvidenceOK'
<1>0. TypeInv /\ PendingOK(r)
  BY DEF PublishedInv, HandlerOK
<1>1. \A q \in Request \ {r} : pc'[q] = pc[q] /\ writes'[q] = writes[q]
  BY <1>0, OthersUntouched
<1>2. /\ \/ writes'[r].evidence \in {{}, writes[r].evidence}
         \/ /\ pc[r] = "insert_evidence"
            /\ writes'[r].evidence = {NewEvidence(r)}
      /\ pc'[r] \in Unwritten \cup Recording => pc[r] \in Unwritten \cup Recording
  BY <1>0, EvidenceWrites
<1>3. \A q \in Request : \A e \in writes'[q].evidence : e.id = q
  BY <1>1, <1>2 DEF EvidenceOK, NewEvidence
<1>4. CASE UNCHANGED evidence
  <2>1. pc'[r] \in Unwritten \cup Recording \/ writes'[r].evidence # {} =>
          pc[r] \in Unwritten \cup Recording \/ writes[r].evidence # {}
    BY <1>2 DEF Recording
  <2> QED
    BY <1>1, <1>3, <1>4, <2>1 DEF EvidenceOK
<1>5. CASE pc[r] \in {"commit", "save_state"} /\ Commit(r)
  <2>1. evidence' = evidence \cup writes[r].evidence /\ writes'[r] = NoWrites
    BY <1>0, <1>5 DEF Commit, TypeInv, TypeOK
  <2>2. IsFiniteSet(evidence')
    <3>1. IsFiniteSet(writes[r].evidence)
      BY <1>0, PendingFinite
    <3> QED
      BY <2>1, <3>1, FS_Union DEF EvidenceOK
  <2>3. Unique(evidence')
    BY <1>0, <2>1 DEF EvidenceOK, PendingOK, Unique
  <2>4. pc'[r] \notin Unwritten \cup Recording /\ writes'[r].evidence = {}
    BY <1>2, <1>5, <2>1 DEF Unwritten, Recording, NoWrites
  <2>5. ASSUME NEW q \in Request \ {r},
               pc[q] \in Unwritten \cup Recording \/ writes[q].evidence # {}
        PROVE  \A e \in evidence' : e.id # q
    BY <2>1, <2>5 DEF EvidenceOK
  <2> QED
    BY <1>1, <1>3, <2>2, <2>3, <2>4, <2>5 DEF EvidenceOK, Unique
<1>6. CASE WriteMode(r)
  <2> DEFINE new(e) == IF e.id = call[r].evidence
                       THEN [e EXCEPT !.mode = call[r].mode] ELSE e
  <2>1. evidence' = {new(e) : e \in evidence} /\ writes' = writes
    BY <1>6 DEF WriteMode
  <2>2. \A e \in evidence : new(e).id = e.id
    BY <1>0 DEF TypeInv, TypeOK, EvidenceRow
  <2>3. IsFiniteSet(evidence')
    <3> HIDE DEF new
    <3> DEFINE f == [e \in evidence |-> new(e)]
    <3>1. f \in Surjection(evidence, evidence')
      BY <2>1 DEF Surjection
    <3> HIDE DEF f
    <3> QED
      BY <3>1, FS_Surjection DEF EvidenceOK
  <2>4. pc'[r] \notin Unwritten \cup Recording
    BY <1>0, <1>6 DEF WriteMode, Return, Goto, TypeInv, TypeOK, Unwritten, Recording
  <2> HIDE DEF new
  <2>5. Unique(evidence')
    BY <2>1, <2>2 DEF EvidenceOK, Unique
  <2>6. ASSUME NEW q \in Request, pc[q] \in Unwritten \cup Recording \/ writes[q].evidence # {}
        PROVE  \A e \in evidence' : e.id # q
    BY <2>1, <2>2, <2>6 DEF EvidenceOK
  <2> QED
    BY <1>1, <1>3, <2>1, <2>3, <2>4, <2>5, <2>6 DEF EvidenceOK, Unique
<1> QED
  BY <1>4, <1>5, <1>6, TablesChange DEF FinishCheckpoint

\* What was certain stays so, and so do the origins of checkpoints.
LEMMA CertaintyStays ==
    ASSUME PublishedInv, EvidenceOK, TypeInv', NEW r \in Request, Handle(r) \/ Crash(r),
           NEW q \in Request
    PROVE  /\ Carried(evidence, evidence')
           /\ Carried(VisibleEvidence(q), evidence' \cup writes[q].evidence)
           /\ \A l : Certain(evidence, l) => Certain(evidence', l)
           /\ \A l : Certain(VisibleEvidence(q), l)
                     => Certain(evidence' \cup writes[q].evidence, l)
<1> DEFINE own == writes[q].evidence
<1>1. TypeInv /\ TypeInv' /\ PendingOK(q) /\ EvidenceOK' /\ Grows
  BY EvidenceStep, StepGrows DEF PublishedInv, HandlerOK
<1>2. /\ evidence \in SUBSET EvidenceRow /\ evidence' \in SUBSET EvidenceRow
      /\ own \in SUBSET EvidenceRow
  BY <1>1 DEF TypeInv, TypeOK, Writes
<1>3. Carried(evidence, evidence')
  BY <1>1, <1>2 DEF Grows, Carried, EvidenceRow
<1>4. Carried(VisibleEvidence(q), evidence' \cup own)
  BY <1>3 DEF Carried, VisibleEvidence
<1>5. IsFiniteSet(own)
  BY <1>1, PendingFinite
<1>6. /\ IsFiniteSet(evidence) /\ IsFiniteSet(evidence')
      /\ IsFiniteSet(VisibleEvidence(q)) /\ IsFiniteSet(evidence' \cup own)
  BY <1>1, <1>5, FS_Union DEF EvidenceOK, VisibleEvidence
<1>7. Unique(evidence) /\ Unique(VisibleEvidence(q))
  BY <1>1 DEF EvidenceOK, Unique, VisibleEvidence, PendingOK
<1>8. \A l : Certain(evidence, l) => Certain(evidence', l)
  BY <1>2, <1>3, <1>6, <1>7, CertainCarried
<1>9. \A l : Certain(VisibleEvidence(q), l) => Certain(evidence' \cup own, l)
  <2>1. VisibleEvidence(q) \in SUBSET EvidenceRow /\ evidence' \cup own \in SUBSET EvidenceRow
    BY <1>2 DEF VisibleEvidence
  <2> QED
    BY <1>4, <1>6, <1>7, <2>1, CertainCarried
<1> QED
  BY <1>3, <1>4, <1>8, <1>9

LEMMA GroundedStays ==
    ASSUME PublishedInv, EvidenceOK, TypeInv', NEW r \in Request, Handle(r) \/ Crash(r)
    PROVE  \A c : Grounded(c) => Grounded(c)'
<1>1. Carried(evidence, evidence') /\ \A l : Certain(evidence, l) => Certain(evidence', l)
  BY CertaintyStays
<1>2. ASSUME NEW l, NEW e \in Relevant(evidence, l)
      PROVE  \E f \in Relevant(evidence', l) : f.id = e.id
  BY <1>1 DEF Carried, Relevant
<1> QED
  BY <1>1, <1>2 DEF Grounded

\* The checkpoints that a step leaves in the table and uncommitted.
CheckpointsMove(r) ==
    \/ /\ writes'[r].checkpoints \in {{}, writes[r].checkpoints}
       /\ \/ UNCHANGED checkpoints
          \/ FinishCheckpoint(r)
    \/ /\ writes'[r].checkpoints = {}
       /\ checkpoints' = checkpoints \cup writes[r].checkpoints
    \/ InsertCheckpoints(r) /\ ~Conflict(r)

\* Where a step takes its handler on the way to the checkpoints.
Elsewhere(r) ==
    /\ pc'[r] \notin Scheduling
    /\ pc'[r] \in Recomputing =>
         pc'[r] = "read_evidence" /\ local'[r].resume # "insert_checkpoints"

LEMMA HandlerMoves ==
    ASSUME TypeInv, NEW r \in Request, Handle(r) \/ Crash(r)
    PROVE  /\ CheckpointsMove(r)
           /\ \/ Elsewhere(r)
              \/ InsertEvidence(r) \/ FindCheckpoints(r) \/ ReadEvidence(r) \/ ReadState(r)
              \/ SaveState(r) \/ RefreshState(r)
<1> USE DEF TypeInv, TypeOK, Writes, NoWrites, Goto, Return, Answer, Conflict, Step,
            Elsewhere, CheckpointsMove, Scheduling, Recomputing, tables
<1>1. ASSUME NEW how, Answer(r, how) PROVE CheckpointsMove(r) /\ Elsewhere(r)
  BY <1>1
<1>2. CASE SubmitAttempt(r) \/ EvaluateAttempt(r) \/ RecordObservation(r)
           \/ ClassifyFailureMode(r) \/ CompleteCheckpoint(r)
  BY <1>2 DEF SubmitAttempt, EvaluateAttempt, RecordObservation, ClassifyFailureMode,
     CompleteCheckpoint, Begin
<1>3. CASE GetKnowledgeState(r)
  BY <1>3 DEF GetKnowledgeState, Local
<1>4. ASSUME AttemptReturned(r) PROVE Elsewhere(r)
  BY <1>4 DEF AttemptReturned, Local
<1>5. CASE FindAttempt(r) /\ ~Answer(r, "rejected")
  BY <1>4, <1>5 DEF FindAttempt
<1>6. CASE InsertAttempt(r) /\ ~Conflict(r)
  BY <1>6 DEF InsertAttempt
<1>7. CASE FindObservation(r) \/ (InsertObservation(r) /\ ~Conflict(r))
  BY <1>7 DEF FindObservation, InsertObservation, ObservationReturned
<1>8. CASE FinalCommit(r)
  BY <1>4, <1>8 DEF FinalCommit, Commit
<1>9. CASE /\ LoadAttempt(r) \/ LoadEvidence(r) \/ LoadCheckpoint(r)
           /\ ~Answer(r, "rejected")
  BY <1>9 DEF LoadAttempt, LoadEvidence, LoadCheckpoint
<1>19. CASE FindSubject(r) /\ ~Answer(r, "rejected") /\ ~Answer(r, "ok")
  BY <1>19 DEF FindSubject
<1>10. CASE WriteMode(r)
  BY <1>10 DEF WriteMode
<1>11. CASE InsertEvidence(r)
  BY <1>11 DEF InsertEvidence
<1>12. CASE ReadEvidence(r) \/ ReadState(r) \/ RefreshState(r)
  BY <1>12 DEF ReadEvidence, ReadState, RefreshState
<1>13. CASE SaveState(r) /\ ~Conflict(r)
  BY <1>13 DEF SaveState, Commit
<1>14. CASE FindCheckpoints(r)
  BY <1>14 DEF FindCheckpoints
<1>15. CASE InsertCheckpoints(r) /\ ~Conflict(r)
  BY <1>15 DEF InsertCheckpoints
<1>16. CASE FinishCheckpoint(r)
  BY <1>16 DEF FinishCheckpoint
<1>17. CASE ReturnState(r) \/ Crash(r)
  BY <1>1, <1>17 DEF ReturnState, Crash
<1>18. Conflict(r) => \E how : Answer(r, how)
  OBVIOUS
<1> QED
  BY <1>1, <1>2, <1>3, <1>5, <1>6, <1>7, <1>8, <1>9, <1>10, <1>11, <1>12, <1>13,
     <1>14, <1>15, <1>16, <1>17, <1>18, <1>19
  DEF Handle, AssessmentNext, KnowledgeNext, RetentionNext

\* The locks of a pair: no other handler writes about its learner.
Apart ==
    \A r, s \in Request : r # s =>
        \A c \in writes[r].checkpoints, d \in writes[s].checkpoints :
            c.learner # d.learner

LEMMA ApartStep ==
    ASSUME TypeInv, Apart, NEW r \in Request, Handle(r) \/ Crash(r)
    PROVE  Apart'
<1>1. \A q \in Request \ {r} : writes'[q] = writes[q]
  BY OthersUntouched
<1>2. CASE writes'[r].checkpoints \subseteq writes[r].checkpoints
  BY <1>1, <1>2 DEF Apart
<1>3. CASE InsertCheckpoints(r) /\ ~Conflict(r)
  <2>1. /\ ~CheckpointHeld(r, local[r].learner)
        /\ writes'[r].checkpoints = {NewCheckpoint(r, days) : days \in CheckpointDays}
    BY <1>3 DEF InsertCheckpoints, TypeInv, TypeOK, Writes
  <2>2. \A c \in writes'[r].checkpoints : c.learner = local[r].learner
    BY <2>1 DEF NewCheckpoint
  <2> QED
    BY <1>1, <2>1, <2>2 DEF Apart, CheckpointHeld
<1> QED
  BY <1>2, <1>3, HandlerMoves DEF CheckpointsMove

\* Completing a checkpoint keeps what it predicted.
LEMMA CompletedKeeps ==
    ASSUME TypeInv, NEW c \in checkpoints, NEW a
    PROVE  LET d == Completed(c, a) IN
           /\ d.learner = c.learner /\ d.days = c.days /\ d.origin = c.origin
           /\ d.label = c.label /\ d.mastered = c.mastered
BY DEF TypeInv, TypeOK, CheckpointRow, Completed

LEMMA CheckpointsScheduled ==
    ASSUME PublishedInv, ScheduleInv, TypeInv', NEW r \in Request, Handle(r) \/ Crash(r)
    PROVE  Paired(checkpoints') /\ \A c \in checkpoints' : Grounded(c)'
<1>0. TypeInv /\ ScheduleOK(r) /\ \A c : Grounded(c) => Grounded(c)'
  BY GroundedStays DEF PublishedInv, ScheduleInv
<1>1. CASE UNCHANGED checkpoints
  BY <1>0, <1>1 DEF ScheduleInv
<1>2. CASE checkpoints' = checkpoints \cup writes[r].checkpoints
  <2>1. \A c \in checkpoints' : Grounded(c)'
    BY <1>0, <1>2 DEF ScheduleInv, ScheduleOK
  <2>2. /\ Paired(checkpoints) /\ Paired(writes[r].checkpoints)
        /\ \A c \in writes[r].checkpoints, d \in checkpoints : d.learner # c.learner
    BY <1>0 DEF ScheduleInv, ScheduleOK
  <2>3. Paired(checkpoints')
    BY <1>2, <2>2 DEF Paired
  <2> QED
    BY <2>1, <2>3
<1>3. CASE FinishCheckpoint(r)
  <2>1. PICK a \in attempts :
          checkpoints' = {IF c \in Named(r) THEN Completed(c, a) ELSE c : c \in checkpoints}
    BY <1>3 DEF FinishCheckpoint
  <2> DEFINE new(c) == IF c \in Named(r) THEN Completed(c, a) ELSE c
  <2>2. ASSUME NEW c \in checkpoints
        PROVE  /\ new(c).learner = c.learner /\ new(c).days = c.days
               /\ new(c).origin = c.origin
               /\ new(c).label = c.label /\ new(c).mastered = c.mastered
    BY <1>0, CompletedKeeps
  <2>3. checkpoints' = {new(c) : c \in checkpoints}
    BY <2>1
  <2> HIDE DEF new
  <2>4. ASSUME NEW d \in checkpoints' PROVE Grounded(d)'
    <3>1. PICK c \in checkpoints : d = new(c)
      BY <2>3
    <3>2. Grounded(c)'
      BY <1>0 DEF ScheduleInv
    <3> QED
      BY <2>2, <3>1, <3>2 DEF Grounded
  <2>5. Paired(checkpoints')
    <3>1. ASSUME NEW c \in checkpoints, NEW days \in CheckpointDays
          PROVE  \E d \in checkpoints' : d.learner = new(c).learner /\ d.days = days
      <4>1. PICK d \in checkpoints : d.learner = c.learner /\ d.days = days
        BY DEF ScheduleInv, Paired
      <4> QED
        BY <2>2, <2>3, <4>1
    <3>2. ASSUME NEW c \in checkpoints, NEW d \in checkpoints, new(c).learner = new(d).learner
          PROVE  /\ new(c).origin = new(d).origin /\ new(c).label = new(d).label
                 /\ new(c).mastered = new(d).mastered
                 /\ new(c).days = new(d).days => new(c) = new(d)
      BY <2>2, <3>2 DEF ScheduleInv, Paired
    <3> QED
      BY <2>3, <3>1, <3>2 DEF Paired
  <2> QED
    BY <2>4, <2>5
<1>4. CASE InsertCheckpoints(r) /\ ~Conflict(r)
  BY <1>0, <1>4 DEF InsertCheckpoints, Step, tables, ScheduleInv
<1> QED
  BY <1>0, <1>1, <1>2, <1>3, <1>4, HandlerMoves DEF CheckpointsMove

\* No step takes the ground from another handler.
LEMMA OthersScheduled ==
    ASSUME PublishedInv, ScheduleInv, TypeInv', NEW r \in Request, Handle(r) \/ Crash(r),
           NEW q \in Request, q # r
    PROVE  ScheduleOK(q)'
<1>0. TypeInv /\ ScheduleOK(q) /\ Apart /\ EvidenceOK
  BY DEF PublishedInv, ScheduleInv, Apart
<1>1. pc'[q] = pc[q] /\ local'[q] = local[q] /\ writes'[q] = writes[q]
  BY <1>0, OthersUntouched
<1>2. /\ Carried(VisibleEvidence(q), evidence' \cup writes[q].evidence)
      /\ \A l : Certain(evidence, l) => Certain(evidence', l)
      /\ \A l : Certain(VisibleEvidence(q), l)
                => Certain(evidence' \cup writes[q].evidence, l)
  BY <1>0, CertaintyStays
<1>3. \A c : Grounded(c) => Grounded(c)'
  BY <1>0, GroundedStays
<1>4. \A l, e : e \in Relevant(VisibleEvidence(q), l) =>
        \E f \in Relevant(evidence' \cup writes[q].evidence, l) : f.id = e.id
  BY <1>2 DEF Carried, Relevant
<1>5. ASSUME NEW c \in writes[q].checkpoints, NEW d \in checkpoints' PROVE d.learner # c.learner
  <2>1. CASE d \in checkpoints \cup writes[r].checkpoints
    BY <1>0, <2>1 DEF ScheduleOK, Apart
  <2>2. CASE FinishCheckpoint(r)
    <3>1. PICK a \in attempts, b \in checkpoints :
            d = IF b \in Named(r) THEN Completed(b, a) ELSE b
      BY <2>2 DEF FinishCheckpoint
    <3>2. d.learner = b.learner
      BY <1>0, <3>1, CompletedKeeps
    <3> QED
      BY <1>0, <3>2 DEF ScheduleOK
  <2>3. CASE InsertCheckpoints(r) /\ ~Conflict(r)
    BY <2>1, <2>3 DEF InsertCheckpoints, Step, tables
  <2> QED
    BY <1>0, <2>1, <2>2, <2>3, HandlerMoves DEF CheckpointsMove
<1>6. VisibleEvidence(q)' = evidence' \cup writes[q].evidence
  BY <1>1 DEF VisibleEvidence
<1> DEFINE l == local[q].learner
<1>7. pc[q] \in Scheduling \/ (pc[q] \in Recomputing /\ local[q].resume = "insert_checkpoints")
      => \E e \in Relevant(VisibleEvidence(q)', l) : e.id = q
  BY <1>0, <1>4, <1>6 DEF ScheduleOK
<1>8. pc[q] \in {"read_state", "save_state"} /\ local[q].state.label = "high_confidence"
      => Certain(VisibleEvidence(q)', l)
  BY <1>0, <1>2, <1>6 DEF ScheduleOK
<1>9. pc[q] = "insert_checkpoints" => Certain(evidence', l)
  BY <1>0, <1>2 DEF ScheduleOK
<1>10. \A c \in writes[q].checkpoints : Grounded(c)'
  BY <1>0, <1>3 DEF ScheduleOK
<1> QED
  BY <1>0, <1>1, <1>5, <1>7, <1>8, <1>9, <1>10 DEF ScheduleOK

\* A pair that is about to be committed.
LEMMA OwnPairs ==
    ASSUME PublishedInv, ScheduleInv, TypeInv', NEW r \in Request, Handle(r) \/ Crash(r)
    PROVE  /\ Paired(writes'[r].checkpoints)
           /\ \A c \in writes'[r].checkpoints :
                Grounded(c)' /\ \A d \in checkpoints' : d.learner # c.learner
<1>0. /\ TypeInv /\ ScheduleOK(r) /\ EvidenceOK
      /\ \A c : Grounded(c) => Grounded(c)'
  BY GroundedStays DEF PublishedInv, ScheduleInv
<1>1. CASE writes'[r].checkpoints = {}
  BY <1>1 DEF Paired
<1>2. CASE writes'[r].checkpoints = writes[r].checkpoints /\ UNCHANGED checkpoints
  BY <1>0, <1>2 DEF ScheduleOK
<1>3. CASE writes'[r].checkpoints = writes[r].checkpoints /\ FinishCheckpoint(r)
  <2>1. PICK a \in attempts :
          checkpoints' = {IF c \in Named(r) THEN Completed(c, a) ELSE c : c \in checkpoints}
    BY <1>3 DEF FinishCheckpoint
  <2>2. \A d \in checkpoints' : \E c \in checkpoints : d.learner = c.learner
    BY <1>0, <2>1, CompletedKeeps
  <2> QED
    BY <1>0, <1>3, <2>2 DEF ScheduleOK
<1>4. CASE InsertCheckpoints(r) /\ ~Conflict(r)
  <2> DEFINE l == local[r].learner
  <2>1. /\ pc[r] = "insert_checkpoints"
        /\ writes'[r].checkpoints = {NewCheckpoint(r, days) : days \in CheckpointDays}
        /\ \A c \in checkpoints : c.learner # l
        /\ UNCHANGED <<evidence, checkpoints>>
    BY <1>0, <1>4 DEF InsertCheckpoints, Step, tables, TypeInv, TypeOK, Writes
  <2>2. /\ Certain(evidence, l)
        /\ \E e \in Relevant(evidence, l) : e.id = r
    BY <1>0, <2>1 DEF ScheduleOK, Scheduling, VisibleEvidence
  <2>3. \A days : LET c == NewCheckpoint(r, days) IN
          /\ c.learner = l /\ c.days = days /\ c.origin = r
          /\ c.label = local[r].state.label /\ c.mastered = local[r].state.mastered
    BY DEF NewCheckpoint
  <2>4. ASSUME NEW c \in writes'[r].checkpoints
        PROVE  c.learner = l /\ Grounded(c)'
    <3>1. c.learner = l /\ c.origin = r
      BY <2>1, <2>3
    <3>2. Grounded(c)
      BY <2>2, <3>1 DEF Grounded
    <3> QED
      BY <1>0, <3>1, <3>2
  <2>5. Paired(writes'[r].checkpoints)
    BY <2>1, <2>3 DEF Paired
  <2> QED
    BY <2>1, <2>4, <2>5
<1> QED
  BY <1>0, <1>1, <1>2, <1>3, <1>4, HandlerMoves DEF CheckpointsMove

\* What a handler knows on its way to them.
LEMMA OwnPath ==
    ASSUME PublishedInv, CacheInv, ScheduleInv, TypeInv',
           NEW r \in Request, Handle(r) \/ Crash(r)
    PROVE  /\ pc'[r] \in Scheduling
                  \/ (pc'[r] \in Recomputing /\ local'[r].resume = "insert_checkpoints")
              => \E e \in Relevant(VisibleEvidence(r)', local'[r].learner) : e.id = r
           /\ pc'[r] \in {"read_state", "save_state"}
              /\ local'[r].state.label = "high_confidence"
              => Certain(VisibleEvidence(r)', local'[r].learner)
           /\ pc'[r] \in {"refresh_state", "insert_checkpoints"} => writes'[r].evidence = {}
           /\ pc'[r] = "insert_checkpoints" => Certain(evidence', local'[r].learner)
<1> DEFINE l == local[r].learner
           rows == VisibleEvidence(r)
<1>0. TypeInv /\ ScheduleOK(r) /\ EvidenceOK /\ writes[r] \in Writes /\ local[r] \in Local
  BY DEF PublishedInv, ScheduleInv, TypeInv, TypeOK
<1> USE DEF Scheduling, Recomputing
<1>1. CASE Elsewhere(r)
  BY <1>1 DEF Elsewhere
<1>2. CASE InsertEvidence(r)
  <2> DEFINE e == NewEvidence(r)
             attempt == local[r].attempt
  <2>1. /\ pc'[r] = IF FacetOf[attempt.question] = "application"
                    THEN "find_checkpoints" ELSE "commit"
        /\ e \in VisibleEvidence(r)'
        /\ local'[r].learner = LearnerOf(attempt)
    BY <1>0, <1>2
    DEF InsertEvidence, Step, Goto, TypeInv, TypeOK, Local, Writes, VisibleEvidence
  <2>2. e.learner = LearnerOf(attempt) /\ e.facet = FacetOf[attempt.question] /\ e.id = r
    BY DEF NewEvidence
  <2> HIDE DEF e, attempt
  <2>3. pc'[r] = "find_checkpoints" => e \in Relevant(VisibleEvidence(r)', local'[r].learner)
    BY <2>1, <2>2 DEF Relevant
  <2> QED
    BY <2>1, <2>2, <2>3
<1>3. CASE FindCheckpoints(r)
  <2>1. /\ pc[r] = "find_checkpoints" /\ pc'[r] \in {"commit", "read_evidence"}
        /\ local' = local /\ VisibleEvidence(r)' = rows
    BY <1>0, <1>3 DEF FindCheckpoints, Step, Goto, TypeInv, TypeOK, tables, VisibleEvidence
  <2> QED
    BY <1>0, <2>1 DEF ScheduleOK
<1>4. CASE ReadEvidence(r)
  <2>1. /\ pc[r] = "read_evidence" /\ pc'[r] = "read_state"
        /\ VisibleEvidence(r)' = rows
        /\ local'[r].state.label = LabelOf(Relevant(rows, l))
        /\ local'[r].learner = l /\ local'[r].resume = local[r].resume
    BY <1>0, <1>4
    DEF ReadEvidence, Step, Goto, TypeInv, TypeOK, Local, tables, VisibleEvidence, Posterior
  <2> QED
    BY <1>0, <2>1 DEF ScheduleOK, Certain
<1>5. CASE ReadState(r)
  <2>1. /\ pc[r] = "read_state" /\ pc'[r] = "save_state"
        /\ VisibleEvidence(r)' = rows
        /\ local'[r].state = local[r].state
        /\ local'[r].learner = l /\ local'[r].resume = local[r].resume
    BY <1>0, <1>5
    DEF ReadState, Step, Goto, TypeInv, TypeOK, Local, tables, VisibleEvidence
  <2> QED
    BY <1>0, <2>1 DEF ScheduleOK
<1>6. CASE SaveState(r) /\ ~Conflict(r)
  <2>1. /\ pc[r] = "save_state" /\ pc'[r] = "refresh_state" /\ local' = local
        /\ evidence' = rows /\ writes'[r].evidence = {}
    BY <1>0, <1>6 DEF SaveState, Commit, Goto, TypeInv, TypeOK, VisibleEvidence, NoWrites
  <2>2. VisibleEvidence(r)' = rows
    BY <2>1 DEF VisibleEvidence
  <2> QED
    BY <1>0, <2>1, <2>2 DEF ScheduleOK
<1>7. CASE SaveState(r) /\ Conflict(r)
  BY <1>0, <1>7 DEF Conflict, Answer, Return, Goto, TypeInv, TypeOK
<1>8. CASE RefreshState(r)
  <2>1. PICK s \in states :
          /\ s.learner = l
          /\ local' = [local EXCEPT ![r].state = s]
          /\ Step(r, IF /\ local[r].resume = "insert_checkpoints"
                        /\ s.label # "high_confidence"
                     THEN "commit" ELSE local[r].resume)
    BY <1>8 DEF RefreshState
  <2>2. /\ pc[r] = "refresh_state"
        /\ pc'[r] \in {"commit", local[r].resume}
        /\ pc'[r] = "insert_checkpoints" => s.label = "high_confidence"
        /\ local'[r].learner = l /\ local'[r].resume = local[r].resume
        /\ UNCHANGED <<evidence, writes>>
    BY <1>0, <1>8, <2>1 DEF RefreshState, Step, Goto, TypeInv, TypeOK, Local, tables
  <2>3. VisibleEvidence(r)' = rows
    BY <2>2 DEF VisibleEvidence
  <2>4. local[r].resume \notin Recomputing \cup {"find_checkpoints"}
    BY <1>0 DEF Local
  <2>5. s.label = "high_confidence" => Certain(evidence, l)
    BY <2>1 DEF ScheduleInv
  <2> QED
    BY <1>0, <2>2, <2>3, <2>4, <2>5 DEF ScheduleOK
<1> QED
  BY <1>0, <1>1, <1>2, <1>3, <1>4, <1>5, <1>6, <1>7, <1>8, HandlerMoves

\* What the cache calls certain is.
LEMMA StatesScheduled ==
    ASSUME PublishedInv, CacheInv, ScheduleInv, TypeInv',
           NEW r \in Request, Handle(r) \/ Crash(r)
    PROVE  \A s \in states' : s.label = "high_confidence" => Certain(evidence', s.learner)
<1>0. /\ TypeInv /\ ScheduleOK(r) /\ EvidenceOK
      /\ \A l : Certain(evidence, l) => Certain(evidence', l)
  BY CertaintyStays DEF PublishedInv, ScheduleInv
<1>1. CASE states' = states
  BY <1>0, <1>1 DEF ScheduleInv
<1>2. CASE SaveState(r) /\ ~Conflict(r)
  <2> DEFINE l == local[r].learner
             new == local[r].state
  <2>1. /\ pc[r] = "save_state" /\ Commit(r)
        /\ states' \subseteq states \cup {new}
             \cup {Updated(s, local[r].seen, new) : s \in Cached(l)}
    BY <1>2 DEF SaveState
  <2>2. evidence' = VisibleEvidence(r)
    BY <2>1 DEF Commit, VisibleEvidence
  <2>3. new.learner = l /\ (new.label = "high_confidence" => Certain(evidence', l))
    BY <1>0, <2>1, <2>2 DEF CacheInv, ScheduleOK
  <2>4. ASSUME NEW s \in Cached(l)
        PROVE  LET t == Updated(s, local[r].seen, new) IN
                 t.learner = s.learner /\ t.label \in {s.label, new.label}
    BY <1>0, <2>4 DEF Updated, Cached, TypeInv, TypeOK, StateRow
  <2>5. \A s \in states : s.label = "high_confidence" => Certain(evidence', s.learner)
    BY <1>0 DEF ScheduleInv
  <2>6. ASSUME NEW s \in Cached(l), Updated(s, local[r].seen, new).label = "high_confidence"
        PROVE  Certain(evidence', Updated(s, local[r].seen, new).learner)
    BY <2>3, <2>4, <2>5, <2>6 DEF Cached
  <2> QED
    BY <2>1, <2>3, <2>5, <2>6
<1>3. states' = states \/ (SaveState(r) /\ ~Conflict(r))
  <2>1. CASE \E how : Answer(r, how)
    BY <2>1 DEF Answer, tables
  <2>2. CASE AttemptReturned(r) /\ UNCHANGED <<tables, writes>>
    BY <2>2 DEF tables
  <2> QED
    BY <2>1, <2>2
    DEF Handle, AssessmentNext, KnowledgeNext, RetentionNext, SubmitAttempt, EvaluateAttempt,
        RecordObservation, ClassifyFailureMode, CompleteCheckpoint, Begin, FindAttempt,
        InsertAttempt, FindObservation, InsertObservation, InsertEvidence, FinalCommit,
        LoadAttempt, FindSubject, LoadEvidence, WriteMode, GetKnowledgeState, ReadEvidence,
        ReadState, RefreshState, ReturnState, FindCheckpoints, InsertCheckpoints,
        LoadCheckpoint, FinishCheckpoint, Conflict, Crash, Step, tables
<1> QED
  BY <1>1, <1>2, <1>3

LEMMA InitSchedule == Init => ScheduleInv
<1> SUFFICES ASSUME Init PROVE ScheduleInv
  OBVIOUS
<1>1. EvidenceOK
  BY FS_EmptySet DEF Init, EvidenceOK, NoWrites
<1>2. Paired(checkpoints) /\ \A c \in checkpoints : Grounded(c)
  BY DEF Init, Paired
<1>3. ASSUME NEW r \in Request PROVE ScheduleOK(r)
  BY DEF Init, ScheduleOK, Paired, NoWrites, Scheduling, Recomputing
<1> QED
  BY <1>1, <1>2, <1>3 DEF Init, ScheduleInv, NoWrites

LEMMA ScheduleStep ==
    PublishedInv /\ CacheInv /\ ScheduleInv /\ [Next]_vars => ScheduleInv'
<1> SUFFICES ASSUME PublishedInv, CacheInv, ScheduleInv, [Next]_vars PROVE ScheduleInv'
  OBVIOUS
<1>0. TypeInv /\ TypeInv' /\ Apart
  BY StepTypeInv DEF PublishedInv, ScheduleInv, Apart
<1>1. ASSUME NEW r \in Request, Handle(r) \/ Crash(r) PROVE ScheduleInv'
  <2>1. EvidenceOK'
    BY <1>1, EvidenceStep DEF ScheduleInv
  <2>2. Apart'
    BY <1>0, <1>1, ApartStep
  <2>3. Paired(checkpoints') /\ \A c \in checkpoints' : Grounded(c)'
    BY <1>0, <1>1, CheckpointsScheduled
  <2>4. \A s \in states' : s.label = "high_confidence" => Certain(evidence', s.learner)
    BY <1>0, <1>1, StatesScheduled
  <2>5. ScheduleOK(r)'
    <3>1. /\ Paired(writes'[r].checkpoints)
          /\ \A c \in writes'[r].checkpoints :
               Grounded(c)' /\ \A d \in checkpoints' : d.learner # c.learner
      BY <1>0, <1>1, OwnPairs
    <3> QED
      BY <1>0, <1>1, <3>1, OwnPath DEF ScheduleOK
  <2>6. \A q \in Request \ {r} : ScheduleOK(q)'
    BY <1>0, <1>1, OthersScheduled
  <2> QED
    BY <2>1, <2>2, <2>3, <2>4, <2>5, <2>6 DEF ScheduleInv, Apart
<1>2. CASE UNCHANGED vars
  <2>1. EvidenceOK'
    BY <1>2 DEF vars, ScheduleInv, EvidenceOK
  <2>2. \A c \in checkpoints' : Grounded(c)'
    BY <1>2 DEF vars, ScheduleInv, Grounded
  <2>3. ASSUME NEW r \in Request PROVE ScheduleOK(r)'
    <3>1. ScheduleOK(r)
      BY DEF ScheduleInv
    <3> QED
      BY <1>2, <3>1 DEF vars, ScheduleOK, Grounded, VisibleEvidence
  <2> QED
    BY <1>2, <2>1, <2>2, <2>3 DEF vars, ScheduleInv
<1> QED
  BY <1>1, <1>2 DEF Next, Finished

LEMMA AlwaysScheduled == Spec => [](PublishedInv /\ CacheInv /\ ScheduleInv)
  BY InitSchedule, ScheduleStep, AlwaysPublished, AlwaysCache, PTL DEF Spec

\* However recomputations race with the transactions that carry new evidence,
\* and whatever a row is joined from, the cached posterior is one of committed
\* evidence about that learner's application facet, and it is not called highly
\* confident before that evidence is.
THEOREM CacheSound == Spec => []CacheRestsOnEvidence
<1>1. CacheInv /\ ScheduleInv => CacheRestsOnEvidence
  BY DEF CacheInv, ScheduleInv, CacheRestsOnEvidence, Ids, Certain
<1> QED
  BY <1>1, AlwaysScheduled, PTL

\* A checkpoint is never scheduled on less than high confidence, nor alone:
\* the transaction that inserts the pair has committed, in the middle of its
\* handler, evidence that suffices, and no other inserts for that learner.
THEOREM ScheduledSoundly == Spec => []ScheduledOnHighConfidence
<1>1. PublishedInv /\ ScheduleInv => ScheduledOnHighConfidence
  <2> SUFFICES ASSUME PublishedInv, ScheduleInv,
                      NEW l \in {c.learner : c \in checkpoints},
                      NEW pair, pair = {c \in checkpoints : c.learner = l}
               PROVE  /\ {c.days : c \in pair} = CheckpointDays
                      /\ Cardinality(pair) = Cardinality(CheckpointDays)
                      /\ Cardinality({<<c.origin, c.label, c.mastered>> : c \in pair}) = 1
                      /\ \A c \in pair : \E e \in Relevant(evidence, l) : e.id = c.origin
                      /\ LabelOf(Relevant(evidence, l)) = "high_confidence"
    BY DEF ScheduledOnHighConfidence
  <2>0. PICK b \in checkpoints : b.learner = l
    OBVIOUS
  <2>1. /\ \A c \in pair : c \in checkpoints /\ c.learner = l
        /\ \A c \in checkpoints : c.learner = l => c \in pair
        /\ b \in pair
    BY <2>0
  <2>2. \A c \in pair : c.days \in CheckpointDays
    BY <2>1 DEF PublishedInv, TypeInv, TypeOK, CheckpointRow
  <2>3. \A days \in CheckpointDays : \E d \in pair : d.days = days
    BY <2>0, <2>1 DEF ScheduleInv, Paired
  <2>4. \A c, d \in pair : c.days = d.days => c = d
    BY <2>1 DEF ScheduleInv, Paired
  <2>5. {c.days : c \in pair} = CheckpointDays
    BY <2>2, <2>3
  <2>6. Cardinality(pair) = Cardinality(CheckpointDays)
    <3> DEFINE f == [days \in CheckpointDays |-> CHOOSE d \in pair : d.days = days]
    <3>1. \A days \in CheckpointDays : f[days] \in pair /\ f[days].days = days
      BY <2>3
    <3>2. \A c \in pair : f[c.days] = c
      BY <2>2, <2>4, <3>1
    <3>3. f \in [CheckpointDays -> pair]
      BY <3>1
    <3>4. f \in Bijection(CheckpointDays, pair)
      <4> HIDE DEF f
      <4> QED
        BY <2>2, <3>1, <3>2, <3>3 DEF Bijection, Injection, IsInjective, Surjection
    <3>5. IsFiniteSet(CheckpointDays)
      <4>1. CheckpointDays = ({} \cup {14}) \cup {28}
        BY DEF CheckpointDays
      <4>2. IsFiniteSet({} \cup {14})
        BY FS_EmptySet, FS_AddElement
      <4>3. IsFiniteSet(({} \cup {14}) \cup {28})
        BY <4>2, FS_AddElement
      <4> QED
        BY <4>1, <4>3
    <3>6. ExistsBijection(CheckpointDays, pair)
      BY <3>4 DEF ExistsBijection
    <3> QED
      BY <3>5, <3>6, FS_Bijection
  <2>7. {<<c.origin, c.label, c.mastered>> : c \in pair}
            = {<<b.origin, b.label, b.mastered>>}
    BY <2>1 DEF ScheduleInv, Paired
  <2>8. Cardinality({<<c.origin, c.label, c.mastered>> : c \in pair}) = 1
    BY <2>7, FS_Singleton
  <2>9. \A c \in pair : \E e \in Relevant(evidence, l) : e.id = c.origin
    BY <2>1 DEF ScheduleInv, Grounded
  <2>10. LabelOf(Relevant(evidence, l)) = "high_confidence"
    BY <2>0 DEF ScheduleInv, Grounded, Certain
  <2> QED
    BY <2>5, <2>6, <2>8, <2>9, <2>10
<1> QED
  BY <1>1, AlwaysScheduled, PTL

=============================================================================
