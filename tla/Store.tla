------------------------------- MODULE Store -------------------------------
(***************************************************************************)
(* The PostgreSQL tables the learning loop writes, and the transactions    *)
(* through which the request handlers of apps/api write them.              *)
(*                                                                         *)
(* A handler runs in one thread of the server's pool with a Session of its *)
(* own (db/session.py).  Rows it has flushed are invisible to the other    *)
(* handlers until it commits (READ COMMITTED) and vanish when it fails.    *)
(* An insert that meets a committed row with the same unique key fails; an *)
(* insert or update that meets another transaction's uncommitted row waits *)
(* for that transaction to end.                                            *)
(*                                                                         *)
(* One tenant is modelled: every query of these services filters by        *)
(* tenant_id, and every unique constraint starts with it.                  *)
(***************************************************************************)
EXTENDS Domain, Integers, FiniteSets, FiniteSetsExt

CONSTANTS
    Request,      \* the API calls that are ever made, each handled once
    Student, Skill, Question,
    SkillOf,      \* the skill a question targets
    FacetOf,      \* the facet of that skill the question tests
    Gradable,     \* the questions with a stored correct_answer
    Key,          \* idempotency keys that clients choose for attempts
    Calls,        \* the calls, with their arguments, that clients make
    None          \* SQL NULL, and Python's None

ASSUME QuestionAssumption ==
    /\ SkillOf \in [Question -> Skill]
    /\ FacetOf \in [Question -> Facet]
    /\ Gradable \subseteq Question

ASSUME NoneAssumption ==
    /\ None \notin Question
    /\ None \notin Key
    /\ None \notin Student

-----------------------------------------------------------------------------
(* Rows.  Only the columns that some handler tests or some property reads  *)
(* are kept.  Evidence is identified by the request that inserted it,      *)
(* since a request inserts at most one such row.                           *)

\* An observation's idempotency_key is the attempt's own key with a suffix,
\* or ("client") a string that a client chose for POST /observations.
ObservationKey == Key \X {"submitted", "evaluated", "client"}

Learner == Student \X Skill
CheckpointDays == {14, 28}

Correctness == {"unknown", "correct", "incorrect"}    \* Attempt.is_correct
Structural == {"transfer_failure", "retention_failure"}
Classified == {"lack_of_knowledge", "retrieval_failure", "careless_error",
               "misconception"}
FailureMode == Structural \cup Classified
Verdict == {"pending", "supported", "not_supported", "inconclusive"}

\* "by" stands for the generated primary key: which call inserted the row.
AttemptRow == [key: Key, student: Student, question: Question,
               result: Correctness, by: Request]

ObservationRow == [key: ObservationKey, by: Request]

EvidenceRow == [id: Request, observation: ObservationKey, learner: Learner,
                facet: Facet, positive: BOOLEAN, weight: Nat,
                mode: FailureMode \cup {None}]

\* The cached posterior of the application facet: the evidence it rests on,
\* its confidence label, and whether mastery_probability exceeds one half.
StateRow == [learner: Learner, basis: SUBSET Request, label: Label,
             mastered: BOOLEAN]

\* A checkpoint and its one hypothesis, which are inserted together.
CheckpointRow == [learner: Learner, days: CheckpointDays, origin: Request,
                  label: Label, mastered: BOOLEAN,
                  status: {"pending", "completed"},
                  delayed: Key \cup {None}, verdict: Verdict]

-----------------------------------------------------------------------------
VARIABLES
    attempts, observations, evidence, states, checkpoints,  \* committed rows
    writes,    \* writes[r]: the rows that r has flushed and not committed
    pc,        \* pc[r]: the statement of its handler that r runs next
    call,      \* call[r]: the operation r was called for, and its arguments
    local,     \* local[r]: what the handler of r holds in its variables
    outcome    \* outcome[r]: how the call ended

tables == <<attempts, observations, evidence, states, checkpoints>>
vars == <<attempts, observations, evidence, states, checkpoints,
          writes, pc, call, local, outcome>>

Writes == [attempts: SUBSET AttemptRow, observations: SUBSET ObservationRow,
           evidence: SUBSET EvidenceRow, checkpoints: SUBSET CheckpointRow]

NoWrites == [attempts |-> {}, observations |-> {},
             evidence |-> {}, checkpoints |-> {}]

-----------------------------------------------------------------------------
\* The transaction of r waits: another one holds an uncommitted row that
\* satisfies Same, in the given table.
AttemptHeld(r, k) ==
    \E s \in Request \ {r} : \E a \in writes[s].attempts : a.key = k

ObservationHeld(r, k) ==
    \E s \in Request \ {r} : \E o \in writes[s].observations : o.key = k

CheckpointHeld(r, l) ==
    \E s \in Request \ {r} : \E c \in writes[s].checkpoints : c.learner = l

\* What the queries of r see: committed rows, overlaid with its own.
VisibleEvidence(r) == evidence \cup writes[r].evidence

\* Session.commit(): everything that r flushed becomes visible at once.
Commit(r) ==
    /\ attempts' = {a \in attempts :
                      \A b \in writes[r].attempts : b.key # a.key}
                   \cup writes[r].attempts
    /\ observations' = observations \cup writes[r].observations
    /\ evidence' = evidence \cup writes[r].evidence
    /\ checkpoints' = checkpoints \cup writes[r].checkpoints
    /\ writes' = [writes EXCEPT ![r] = NoWrites]

Goto(r, next) == pc' = [pc EXCEPT ![r] = next]

Return(r, how) ==
    /\ Goto(r, "done")
    /\ outcome' = [outcome EXCEPT ![r] = how]
    /\ UNCHANGED <<call, local>>

\* Mutant: get_db leaves the Session, and so its transaction, open.
AnswerUnclosed(r, how) == Return(r, how) /\ UNCHANGED <<tables, writes>>

\* The handler ends without a commit; get_db closes the Session, which rolls
\* back whatever was not committed.
Answer(r, how) ==
    /\ Return(r, how)
    /\ writes' = [writes EXCEPT ![r] = NoWrites]
    /\ UNCHANGED tables

\* The IntegrityError of a unique constraint, which no handler catches.
Conflict(r) == Answer(r, "conflict")

\* Whatever stopped the process, the connection or the client's wait: nothing
\* that was not committed survives.
Crash(r) ==
    /\ pc[r] \notin {"idle", "done"}
    /\ Answer(r, "crashed")

\* A thread of the pool picks up a call and starts its handler at "first".
Begin(r, op, first) ==
    /\ pc[r] = "idle"
    /\ \E c \in Calls :
         /\ c.op = op
         /\ call' = [call EXCEPT ![r] = c]
    /\ Goto(r, first)
    /\ UNCHANGED <<tables, writes, local, outcome>>

\* A statement that commits nothing: the handler of r goes on at "next".
Step(r, next) ==
    /\ Goto(r, next)
    /\ UNCHANGED <<tables, call, outcome>>

=============================================================================
