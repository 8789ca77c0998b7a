# A TLA+ model of the EduPulse API

EduPulse (`src/`) is a tutoring platform: a FastAPI service over PostgreSQL and Redis
(`apps/api`), a Next.js front end (`apps/web`) and the infrastructure around them. The API turns
what a student does into *observations*, these into *evidence*, evidence into a probabilistic
*knowledge state*, and a confident state into a *falsifiable prediction* that a delayed attempt
confirms or refutes. From the knowledge states it also *decides* what the student should do
next, and *shows* all that on dashboards. This directory models the parts of it where many
requests meet on the same rows, checks them with TLC on small instances and proves the main
invariants with TLAPS for all instances.

Paths below are relative to `src/apps/api/app/` unless they start with `docs/`.

## 1. The system

| component | state it keeps | operations that change it | hard behaviour | what makes it correct |
|---|---|---|---|---|
| Assessment (`services/assessment_service.py`) | `assessment_attempts`, `observations`, `evidence` | submit an attempt, grade one by hand, post an observation, classify a failure, create a question | idempotency keys looked up and then inserted; the commit of another service in the middle of the handler; one-shot grading and classification guarded by a read | an attempt is graded once; evidence has its observation; what is acknowledged is durable; nothing committed is lost |
| Knowledge state (`services/knowledge_state_service.py`) | `knowledge_states`, a cache of one posterior per student, skill and facet | recompute, upsert, commit, reread | commits its caller's transaction; read-modify-write without a lock; column-wise updates | the cached row rests on committed evidence of its learner only, and claims no confidence that the evidence does not have |
| Retention (`services/retention_service.py`) | `retention_checkpoints`, `retention_hypotheses` | schedule (within grading), complete | scheduling decided on one transaction's view; completion in three transactions; a client's key reused | checkpoints come in pairs with one frozen high-confidence prediction; a verdict is decided; a completed checkpoint stays so, whichever verdict it ends with |
| Database sessions (`db/session.py`) | one transaction per request | flush, commit, rollback on close | READ COMMITTED visibility, waits on unique keys | waits never form a cycle |
| Decision engine (`services/decision_engine_service.py`, `decision_policy.py`, `authorization_service.py`, `task_service.py`) | `decisions`; it refreshes `knowledge_states` | decide (recompute, score, authorise, insert), recompute for a dashboard; tasks are resolved without writing | a snapshot reread row by row after a commit; age, consent and cited evidence read later still; ties between scores | a decision cites all evidence its snapshot rests on; personalised actions only on confident evidence; consent for minors |
| Authentication (`services/auth_service.py`, `api/routes/auth.py`) | `users`, `user_sessions`, `password_reset_tokens`; the browser's cookie | register, log in, refresh (rotate), log out, request and confirm a password reset | rotation and reset are check-then-act; a reset revokes only what it sees; answers arrive in another order than they were made, or never | nobody acts on a token who had not found it valid before it was used; no session outlives a reset it did not race with; a browser keeps a session that works |
| Entitlements (`services/entitlement_service.py`) | the plan of a tenant; what is used is counted from rows | enrol a user, use the AI, switch plans | the limit is read and compared in statements of their own, long before the row that counts is inserted | by how much concurrency may exceed a limit |
| AI gateway (`ai/gateway.py`, `ai/router.py`, `ai/providers/`) | `ai_usage_records` | answer a prompt, with fallback providers | several failure exits; seconds pass in the middle of a transaction | one usage record per call, of the provider that answered (which one exit breaks, section 5) |
| Rate limiter (`api/deps.py`) | Redis counters | count a request | INCR and EXPIRE are two commands; fails open | a subject is eventually let in again |
| Curriculum (`services/curriculum_service.py`) | subjects, topics, concepts, skills, facets, prerequisites | add a row under a parent, a facet, a prerequisite | lookups before inserts; the cycle check searches a copy of the graph | the tree is whole and names are unique; the search is right and ends; cycles need races |
| Dashboards and tasks (`services/dashboard_service.py`, `task_service.py`) | none | show a student, a teacher, an administrator; find the question that carries out a decision | one page is put together from up to four queries per student, with commits in between; estimates that age | what a page says agrees with itself and is explained by the rows |
| Relationships, audit, e-mail, process, web, workflow, migrations | see `PROJECT.json` | single inserts, or none | none of their own | not modelled, see section 8 |

**Interactions.** They are all synchronous calls within one request and shared rows between
requests:

    submit_attempt ──┐                      ┌─► get_or_recompute_knowledge_state (COMMIT)
    evaluate_attempt ┴► _apply_evaluation ──┤   maybe_schedule_checkpoints
                        (observation,       └─►   (reads checkpoints, then the state,
                         evidence)                 then inserts checkpoints; caller commits)
    complete_checkpoint ─► submit_attempt ─► get_or_recompute_… ─► verdict, commit

Handlers are plain `def` functions: FastAPI runs each in a thread of a pool, with a Session of
its own, so two of them interleave at every statement that talks to the database. Nothing takes
a row lock explicitly and nothing catches `IntegrityError`.

    request_next_action ─► get_knowledge_states_for_skill (COMMIT, rereads)
                        ─► score_candidates ─► authorize ─► insert, commit
    create_tenant_user ┐                       ┌─► find address ─► insert, commit
    create_explanation ┴► rate limit ─► plan   ┤
                          limit, rows counted  └─► provider, fallback ─► usage record, commit

    dashboards, GET task ─► several queries of the tables that all of the above write
    browser ─► login | refresh | logout ─► sessions; the answer sets or deletes its cookie

The hazards this causes are listed with their lines in `PROJECT.json`.

## 2. Modules

| module | models | extends |
|---|---|---|
| `Store` | the tables, rows, per-request transactions, visibility, commit, rollback, crash | |
| `Assessment` | the four handlers of the assessment service, statement by statement | `Store` |
| `KnowledgeCache` | the recomputation of the cached application facet, and `GET knowledge-state` | `Store` |
| `Retention` | scheduling inside a grading, and completion | `Assessment`, `KnowledgeCache` |
| `LearningLoop` | the composition: `Init`, `Next`, `Spec`, `FairSpec`, all properties | `Retention` |
| `MCLearningLoop` | the small instances | `LearningLoop` |
| `LearningLoopProofs` | theorems | `LearningLoop`, `TLAPS` |
| `PublicationProofs` | theorems on what commits publish and keep | `LearningLoopProofs`, `SumProofs` |
| `SumProofs` | lemmas on least numbers, induction and finite sums, about no program in particular | `TLAPS` |
| `Domain` | facets and confidence labels, shared by the families | |
| `DecisionPolicy` | the scores of the twelve candidate actions, selection, authorisation, as operators | `Domain` |
| `Decisions` | `generate_decision` and the recomputation of five facets, statement by statement; their properties | `DecisionPolicy` |
| `MCDecisions` | its small instances | `Decisions` |
| `DecisionProofs` | theorems | `Decisions`, `TLAPS` |
| `Connections` | requests over the engine's connection pool | |
| `RateLimit` | the counter in Redis | `Connections` |
| `Entitlements` | plan limits, enrolment, plan switching | `RateLimit` |
| `AiGateway` | one AI call: providers, validation, record | `Entitlements` |
| `Metering` | the composition of the last four, and their properties | `AiGateway` |
| `MCMetering` | its small instances | `Metering` |
| `MeteringProofs` | theorems | `Metering`, `TLAPS` |
| `Curriculum` | the tree, facets and the prerequisite graph, statement by statement, with the cycle search round by round | `Domain` |
| `MCCurriculum`, `CurriculumProofs` | its small instance, theorems | `Curriculum` |
| `OneTimeToken` | abstract: what can be promised of a token that is checked and used without a lock | |
| `Sessions` | accounts, sessions, reset tokens and browsers; refines `OneTimeToken` twice | |
| `MCSessions`, `SessionProofs` | its small instances, theorems | `Sessions` |
| `Posterior` | `compute_knowledge_state` with decay, exactly, over half-lives | `Domain` |
| `TaskChoice` | the question that carries out a decision, as operators | `Domain` |
| `Dashboards` | what the dashboards conclude from the rows they have read, as operators | `Posterior` |
| `Views` | the pages, query by query, over tables that whole commits of the other handlers change | `Dashboards`, `TaskChoice`, `DecisionPolicy` |
| `MCViews`, `ViewProofs` | its small instance, theorems | `Views` |

The first three families share no state: grading writes evidence and one cached row, which the
decision engine takes as its input (`Estimate`, `Grade`), and metering touches neither.
`Curriculum` and `Sessions` touch tables of their own. `Views` composes the first two: its
`Grade`, `ScheduleCheckpoints`, `CompleteCheckpoint`, `Recompute` and `Decide` are what their
handlers commit, in one step per commit, since a page sees commits only. What a handler read
before an earlier commit of its own may be out of date at the next one, and is so in `Views`:
see `completing` and `Estimates` below.

### State of `LearningLoop`

`attempts`, `observations`, `evidence`, `states` and `checkpoints` are the committed rows of the
tables of those names (a checkpoint and its hypothesis are inserted together and are one
record). Rows keep only the columns that a handler tests or a property needs. `Request` is the
set of calls that are ever made; for each of them

* `pc[r]` is the next database statement of its handler,
* `call[r]` the operation and its arguments,
* `local[r]` the handler's variables (the attempt at hand, the observation key, the recomputed
  posterior, the cached row it read, where to go on after the recomputation),
* `writes[r]` the rows flushed and not yet committed,
* `outcome[r]` how the call ended: `ok`, `rejected` (a 4xx the service raises), `conflict` (an
  `IntegrityError`, a 500) or `crashed`.

Generated ids are replaced by the request that inserted the row, which inserts at most one of
each kind; the pair of checkpoints is told apart by its days.

### Actions of `LearningLoop`

An action is one statement of a handler up to the next one. Its name is the statement's:

| code | actions |
|---|---|
| `submit_attempt` | `SubmitAttempt`, `FindAttempt`, `InsertAttempt`, `FindObservation`, `InsertObservation`, [evaluation], `FinalCommit` |
| `evaluate_attempt` | `EvaluateAttempt`, `LoadAttempt`, [evaluation], `FinalCommit` |
| `_apply_evaluation` = [evaluation] | `FindObservation`, `InsertObservation`, `InsertEvidence`, [scheduling] for the application facet |
| `record_observation` | `RecordObservation`, `FindSubject`, `FindObservation`, `InsertObservation`, `FinalCommit` |
| `classify_failure_mode` | `ClassifyFailureMode`, `LoadEvidence`, `WriteMode` |
| `get_or_recompute_knowledge_state` = [recomputation] | `ReadEvidence`, `ReadState`, `SaveState`, `RefreshState` |
| `GET knowledge-state` | `GetKnowledgeState`, [recomputation], `ReturnState` |
| `maybe_schedule_checkpoints` = [scheduling] | `FindCheckpoints`, [recomputation], `InsertCheckpoints` |
| `complete_checkpoint` | `CompleteCheckpoint`, `LoadCheckpoint`, [`submit_attempt`], [recomputation], `FinishCheckpoint` |
| anything that cuts a handler short | `Crash` |

An insert whose unique key another transaction has flushed is disabled until that transaction
ends, which is how PostgreSQL waits; one that meets a committed row ends the handler with
`conflict`. The ORM flushes an attempt's changed result with the next INSERT; if another
transaction has flushed an update of that row, the flush waits and then overwrites it.
`SaveState` updates, like the ORM, the columns that differ from those that were read and no
others.

### State and actions of `Decisions`

`evidence`, `states` (the rows of five facets), `minor` and `consent` (what staff have
recorded), and `decisions` are committed; `pc[r]`, `facets[r]` (all five, or the one that a
knowledge-state request recomputes) and `local[r]` belong to a handler.

| code | actions |
|---|---|
| `request_next_action`, `get_knowledge_state` | `Start` |
| `get_knowledge_states_for_skill` | `ReadEvidence`, `ReadStates`, `SaveStates` (with its commit), `Refresh`, once per facet |
| `generate_decision` | `ReadStudent`, `ReadConsent`, `ReadEvidenceIds`, `InsertDecision` (scores, authorises, inserts, commits) |
| grading, `set_date_of_birth`, `create_parent_link` | `Grade`, `SetDateOfBirth`, `CreateParentLink`, by others at any time |

`Scores` translates `score_candidates` over integers: probabilities are multiples of `1/Grain`,
weights are 0, 1/2, 1, and `Scale` clears the denominators. `Selected` is the sort by score and
declaration order.

### State and actions of `Metering`

`plan`, `users`, `usage` and `month` are the tenant's; `counter[p]` is the Redis key of an
operation, `[n, ttl]`; `admitted[p]` remembers which calls the present window let through.
Handlers have `pc`, `call`, `outcome`, `limit` (as read), `asked` (a position in the list of
providers) and `verdict`. A handler that has begun holds a connection until it has committed.

| code | actions |
|---|---|
| the pool, `get_db`, authentication | `Begin`, which fails if no connection is free |
| `enforce_rate_limit` | `CountCall` (INCR and the comparison), `SetExpiry`; either may fail before or after it took effect, and lets the caller through |
| Redis | `WindowEnds` |
| `enforce_…_limit`, `enforce_…_quota` | `ReadLimit`, `CountUsed` |
| `create_tenant_user` | `FindEmail`, `InsertUser` |
| `AIGateway.generate`, `ModelRouter`, the providers | `AskProvider` (once per provider), `RecordUsage` |
| `switch_tenant_plan` | `SwitchTenantPlan` |

### State and actions of `Curriculum`

`content` (rows of the four levels, with parent and slug), `facets` and `edges` are committed. A
handler has `call`, `graph` (the edges it has read), `frontier` and `visited` of its search, and
`answer`. `seen[e]` is a history variable: the graph that the adding of `e` had read.

| code | actions |
|---|---|
| the routes | `Submit` |
| `create_subject`, `create_topic`, `create_concept`, `create_skill` | `FindParent`, `FindSlug`, `InsertRow` (with the constraint) |
| `add_skill_facet` | `FindSkill`, `InsertFacet` |
| `add_prerequisite` | `FindSkill`, `FindPrerequisite`, `CheckSelf`, `ReadEdges`, `SearchStep` (a round of the loop), `InsertEdge` |

The list that the search pops from is a set, of which any member may come next: the code's order
is one of those.

### State and actions of `Sessions`

`password`, `session`, `revoked`, `token`, `used` are the tables; `cookie[b]` and `mailed` are
outside. A session or token has the id of the request that added it. `resets`, `known`, `raced`,
`lost` and `left` are history.

| code | actions |
|---|---|
| a browser, the routes | `Send`; `Deliver`, which sets or deletes the cookie, or `Lose` |
| `register` | `FindEmail`, `InsertUser`, `InsertSession` |
| `authenticate`, `create_session` | `FindUser`, `InsertSession` |
| `rotate_session` | `FindSession`, `Rotate` |
| `revoke_session` | `FindOwnSession`, `Revoke` |
| `request_password_reset` | `FindAccount`, `InsertToken`, `SendMail`, which may fail |
| `reset_password` | `FindToken`, then the bulk update: `SelectSessions` (its snapshot), `Sweep` (locks, and looks again), then `CommitReset` |
| time | `Expire` |

`SessionLocal` does not flush by itself (`db/session.py:11`), so an assignment to a row is
written with the commit; the bulk update alone is a statement of its own, whose row locks last
until then. An update by key waits for them (`Locked`). A refused refresh means to delete the
cookie (`api/routes/auth.py:109`), but the `HTTPException` that follows makes a response of its
own, without that header; `ClearsCookie` says what happens, not what is meant.

### State and actions of `Views`

`now` is the time in half-lives. The tables are `evidence` (series of attempts, with their day),
`states`, `decisions`, `checkpoints`, `questions`; `due` holds the learners between the two
commits of a grading, `completing` the checkpoints that some handler found pending and has yet
to complete. One page is in the making at a time: `page`, `pc` (its next query), `seen` (what it
has read). `began` and `races` are history.

| code | actions |
|---|---|
| `get_student_dashboard` | `OpenStudent`, `ReadStates`, `ReadDecisions`, `ReadCheckpoints`, `Answer` |
| `get_teacher_dashboard` | `OpenTeacher`, then for each linked student `_summarize_student`: `ReadStates`, `ReadDecisions`, `ReadHypotheses`; `Answer` |
| `get_admin_dashboard` | `OpenAdmin`, the same for all students, `CountCheckpoints`, `CountHypotheses`, `CountDecisions`, `Answer` |
| `resolve_task_for_decision` | `OpenTask`, `ReadAttempts`, `ReadQuestions`, `Answer` |
| the commits of grading | `Grade`, `ScheduleCheckpoints` |
| `complete_checkpoint` | `LoadCheckpoint` (the test of the status), `Grade` (its attempt), `Recompute`, `CompleteCheckpoint` or `AbandonCheckpoint` |
| `generate_decision` | `Recompute` (the commit of the states), `Decide` (the commit of the decision) |
| `GET knowledge-state`, `create_question` | `Recompute`, `CreateQuestion` |
| sixty days | `Tick` |

`complete_checkpoint` tests the status (`services/retention_service.py:174`), commits twice, and
writes the delayed attempt and the verdict without looking at the status again. So
`CompleteCheckpoint` asks only that a handler had found the checkpoint pending: any number of
handlers may have, and each that decides a verdict replaces the one before. One that does not
decide any (its attempt is ungraded) leaves the verdict alone. Likewise `Decide` inserts a
decision from an estimate that may have missed any part of the day's evidence (`Estimates`),
whatever the states and other decisions are by then; handlers that take less than sixty days
miss no older evidence. A day, here and in the properties, is the time from one `Tick` to the
next, through which nothing ages.

What a page concludes (`MasteryLabel`, `LatestDecision`, `Improving`, `Escalated`,
`NeedsAttention`, `TaskChoices`) are operators over what it has read; the properties are about
their values when the page is answered.

### Abstractions

* One tenant. Every query filters by `tenant_id`, every unique key starts with it.
* The application facet alone has a cached row: it is the only one scheduling and completion
  read. The other facets are computed by the same function and are read only by the decision
  engine.
* Evidence weights are tenths of the code's; the posterior is represented by the evidence it
  rests on, its label, and whether its probability exceeds one half. Weights do not decay here:
  two computations in one behaviour differ by the evidence they see, not by the time between
  them.
* Due dates do not appear: `complete_checkpoint` never compares `scheduled_for` with the
  present, they only filter a listing.
* In `Decisions`, arithmetic is exact where the code's is in floating point: the two could
  differ only where two scores that different formulas compute are equal. A cached row's label
  may belong to other evidence than its probability in a snapshot as well. The shadow flag, the
  audit row of an escalation and the resolution of a task, which only reads, are left out.
* In `Metering`, the attempts a provider makes before it gives up are one step, audit rows are
  left out, and so are accounts of other tenants. A schema error and an unsafe output, which the
  gateway records and refuses alike, are one outcome. `lost` is the outcome of a call that
  committed but could not answer, because the process stopped or the reread found no connection.
* In `Curriculum`, names and descriptions are left out, and the reread after a commit; a
  constraint's refusal (a 500) is the answer `conflict`.
* In `Sessions`, a process that stops between two statements leaves nothing that `Lose` and an
  unanswered request do not; deadlocks between two resets, which PostgreSQL resolves by refusing
  one, are left out. No code deactivates an account. Tokens are not guessed: who sends one holds
  it.
* In `Views`, arithmetic is exact: time passes in half-lives, so every weight is a power of two.
  The code's floating point may differ where an estimate meets a boundary exactly (0.6 - 0.5 is
  less than 0.1 there). That a reread row may join the label of one computation to the
  probability of another is left to `Decisions` and `LearningLoop`: here an estimate is one
  computation's, though perhaps a late one's. The tables of decisions and questions are in the
  order of their commits; the code sorts by `created_at`, the time of the insert in the handler,
  which precedes its commit by the audit row at most. No request is under way when sixty days
  pass. Users, links, skills and plans do not change; misconceptions, AI usage,
  plan and seats are left out, as is the rejection of a caller who may not see a page.
* Authorisation of the caller, existence of students and skills, and input validation by
  Pydantic happen before the first statement and are assumed passed, except where the service
  itself rejects.

## 3. Properties

In `LearningLoop`:

| property | what it says | why it could fail |
|---|---|---|
| `TypeOK` | rows fit the schema, control and variables fit | |
| `EvaluationPublishedWhole` | an attempt has a result exactly when evidence of that result is committed, and evidence has an observation | the recomputation commits in the middle of grading; two graders |
| `GradedExactlyOnce` | an auto-gradable attempt has one evidence row | retries, crashes, shared keys |
| `AcknowledgedIsDurable` | what a client was told is in the tables | three transactions per completion, early returns |
| `ScheduledOnHighConfidence` | checkpoints come in pairs with one prediction, on committed evidence that reaches high confidence | lookup and insert separated by a commit; a reread that may return another handler's row |
| `VerdictIsDecided` | no verdict is inconclusive; a pending checkpoint has no verdict | two completions; the prediction taken from the reread row |
| `CacheRestsOnEvidence` | a cached row rests on committed evidence of its learner's application facet, and says high confidence only where all the committed evidence reaches it | computed from uncommitted rows, which the same commit publishes and a crash before it takes back; label and posterior may come from different computations, either of them overtaken |
| `HistoryKept` (action property) | no committed row is lost, no completed checkpoint reopens, no prediction changes (a verdict may) | blind overwrites by stale handlers |
| `EveryCallAnswered` (liveness) | a started call is answered | waits on one another's rows |

In `Decisions`:

| property | what it says | why it could fail |
|---|---|---|
| `TypeOK` | rows and decisions fit the schema; a decision's snapshot has all five facets | a facet's row may not exist before the first recomputation |
| `EvidenceCited` | a decision cites all evidence its snapshot rests on | rows are reread one at a time, after the handler's own computation, and the ids are queried later |
| `PersonalizedOnHighConfidence` | an action that presumes knowledge is selected only on a confident application facet, and so is never rejected | formulas and authorisation are independent code |
| `DeadCandidates` | four of the twelve candidates are never selected | declaration order breaks ties |
| `MinorsNeedConsent` | an action allowed to a student whom the handler found to be a minor has a consent | age and consent are read apart |

In `Metering`:

| property | what it says | why it could fail |
|---|---|---|
| `TypeOK` | in particular no provider beyond the last one is asked | the router's loop |
| `OvershootBounded` | whatever plans are switched and months begin, some row's inserter read a limit that all rows exceed by less than the pool's size | check and insert are apart; every connection may hold a call that has passed the check |
| `AnswersMatchRows` | an enrolment leaves the account its answer implies; an AI call that was answered, validated and refused, or given up by every provider leaves one record, of the provider it ended with; any other call leaves none | fallback mutates the router; five exits; a race for an address |
| `WithinRate` | of the calls counted in a window at most the limit pass | the first caller's second command comes late |

In `Curriculum`:

| property | what it says | why it could fail |
|---|---|---|
| `TypeOK` | rows and handler variables fit | |
| `CyclesNeedRaces` | edges no two of which were added concurrently form no cycle | the search looks at a copy, in one direction of two |
| `SearchDecides` | the search refuses an edge exactly if the skill reaches the prerequisite in the graph it has read | graphs with cycles, early exits |
| `AnswersMatchRows` | no orphan and no two siblings of one name; who is answered "created" has one row, others none, and who lost finds the winner's | lookups and inserts apart |
| `EdgesBelong` | facets and edges belong to skills; of the requests for one edge, one is answered "created" | nothing looks for the edge first |
| `EveryCallAnswered` (liveness) | the search ends, also on a graph with a cycle | the loop's only protection is `visited` |

In `Sessions`:

| property | what it says | why it could fail |
|---|---|---|
| `TypeOK` | in particular a session belongs to an account | |
| `ResetEndsSessions` | a session that survives a reset of its account was made or rotated by a handler that raced one | the bulk update sees what is committed when it starts, and waits for row locks |
| `CookieLive` | a browser that waits for no answer and lost none holds a live session, or asked for a logout | answers out of order; two refreshes of one cookie; a refused one |
| `RotatedWhileValid` (refinement) | rotation implements `OneTimeToken` | check and update apart; logouts and resets in between |
| `ResetWhileUnused` (refinement) | consuming a reset token implements `OneTimeToken` | the same, over four statements |

`OneTimeToken` is what remains of "exactly once" without a lock: several holders may act on a
token, but only holders who had checked it before it was first used. The stronger claim,
`TokenConsumedOnce`, is refuted (section 5).

In `Views`:

| property | what it says | why it could fail |
|---|---|---|
| `TypeOK` | in particular no verdict is inconclusive, and the scores of the estimates select only actions there are | |
| `CausesStayVisible` | a student once escalated, or who failed a prediction that nobody was completing a second time, needs attention on the teacher's and the administrator's page, whatever is decided or committed later | first, last and ever-decisions in one loop; several queries; replaced verdicts |
| `AdminCountsAgree` | flags of students never exceed the totals of decisions and verdicts, and every checkpoint is pending, under a verdict, or completed without one; a student whose failed prediction is counted nowhere has had it replaced by its opposite in between, which is counted | totals are queried after the flags: in the other order this fails |
| `PageIsCurrent` | a student's page shows no shadow decision, and nothing that was superseded before the page was asked for; it misses no checkpoint that was pending all the while | three queries joined in memory |
| `NoNeedlessRepeat` | a task repeats a question only once all there were are attempted | attempts are read before questions |
| `EasiestFirst` | an easier task is no harder than any unattempted question of the facet there was | the same |
| `ImprovementExplained` | a skill listed as improving was answered correctly between its first and its latest decision; or both decisions estimated it below one half and time passed between them; or both are of a day of wrong answers that the latest had not seen | decay raises estimates below one half; a decision is inserted long after its evidence was read |
| `FadesTowardsDoubt` (action property) | time alone never raises confidence nor moves an estimate away from one half or across it | two sums that decay apart |

Four properties that the documentation states and the modules keep apart are violated; section
5.

## 4. Runs that pass

### `LearningLoop`

Three requests, one student, one skill. `Calls` limits what may be called; each request picks
any of them, so a run covers every combination of three calls and every interleaving of their
statements.

| run | calls | thresholds | distinct states | what it shows |
|---|---|---|---|---|
| `Grading` | submissions under two keys of an automatic, an open and no question; manual grading; completions with own and shared keys; readings | 8, 10 | 1,506,076 | all of grading, scheduling and completion, with crashes at every statement |
| `Answering` | calls of every kind around one attempt, among them observations under a derived key and classifications | 10, 10 | 348,036 | observations the service finds instead of writing; structural and human failure modes; no circular wait |

**Why the bounds suffice.** A table of another learner shares nothing with these but the
idempotency keys, and two keys of one learner exercise those. Two requests make a race; the
third lets a race happen on top of what an earlier call left behind (an attempt, a cached row,
checkpoints), and lets one handler overtake two others. The code's thresholds 10 and 40 need
four full-weight evidence rows. In `Grading` an automatic grade (weight 10) reaches high
confidence alone, so that there are requests left to race with the checkpoints it schedules, and
a manual one (weight 8) is of low confidence until it meets another; all three labels occur.
`ScheduleMissed` takes 10 and 16, which two submissions reach together and neither alone.
Requests are interchangeable and symmetric;
`Answering`, a liveness run, uses no symmetry. Calls that name evidence range over all requests,
so the symmetry is sound.

Deadlock is checked in all these runs of `LearningLoop`; `Finished` lets a behaviour stop once
every request is answered, so a set of handlers waiting for each other would be reported.

### `Decisions`

| run | instance | distinct states | what it shows |
|---|---|---|---|
| `Deciding` | two requests; two series of application evidence, one of retention | 473,624 | what a decision cites and whom it is allowed to, with every interleaving |
| `Choosing` | one request; seven series over five facets | 455,014 | what can be selected on every combination of evidence that may come in between the handler's statements |

A piece of evidence in these instances is a series of graded attempts between which nobody
looks: two correct attempts leave low confidence, twenty-one more reach 0.96, eight failures
turn it around. With them each label, the ambiguous band around one half and each score's
extremes occur. Two requests suffice for a snapshot that mixes computations, since a handler
rereads what any other may have saved; `Choosing` gets the mixture from evidence that comes in
between. Requests are symmetric in `Deciding`; the series are not.

### `Metering`

| run | instance | distinct states | what it shows |
|---|---|---|---|
| `Metering` | three requests over two connections, two plans, two months, two addresses, two providers, limits 2 (seats), 1 (AI), rates 2 and 1, failing Redis | 4,504,921 | the four properties |

One call uses up each limit, a second one next to it overshoots, and a third one finds the limit
exceeded or the pool exhausted. With one connection less in the bound `OvershootBounded` is
violated, so the bound is tight. The second plan has no AI limit, as the code's has none;
`Months` bounds `NewMonth`. Addresses and requests are symmetric.

### `Curriculum`, `Sessions` and `Views`

| run | instance | distinct states | what it shows |
|---|---|---|---|
| `Curriculum` | three requests; a chapter with three skills, edges that close cycles of two and three, a facet, a new skill with a facet, a new subject with a topic | 138,145 | the five invariants and that the search ends |
| `Sessions` | four requests of one browser; two accounts, two sessions and a token at the start, of which one session and the token may expire | 2,102,469 | the refinements and invariants, with every interleaving and order of answers |
| `Views` | one student and skill, a series of four failures and one of two correct answers in either order, three questions, a checkpoint, two decisions, two half-lives, one commit within a page | 4,732,349 | the pages, with every state of the tables they can be asked for in, stale reads and second completions included |

Three requests close a cycle of three edges, or one of two with a third request searching the
cyclic graph. Requests are not symmetric in `Curriculum`: the calls name the row that the first
one adds. Four requests let two refreshes of one cookie, a reset and a login overlap; requests
are symmetric, and the calls that name tokens range over all. In `Views`, `MaxRaces` = 1 allows
one commit while a page is put together. A page reads a table at most once per student, so a
commit matters by where it falls between two queries, and one commit falls between any two.
`MaxDecisions` = 2 gives a first and a last decision; `Horizon` = 2 takes high confidence below
both thresholds. A single student suffices because summaries of different students share
nothing; the order in which they are made is left open. Deadlock is checked in all of them: a
behaviour may stop only when requests are answered.

### Fairness

`FairSpec` of `LearningLoop` assumes weak fairness of `Work(r)`, the statements of a handler
that has started: its thread is scheduled and its queries return. Nothing is assumed of `Crash`,
nor of a call being made. Weak fairness suffices for an insert that waits: it stays enabled once
the row's holder has ended, because a holder that ends leaves at most the committed row behind,
which turns the wait into a conflict, or another waiter becomes the holder, of which there are
finitely many. `FairSpec` of `Metering` assumes the same of its handlers, and that Redis removes
a key whose time to live is over. `FairSpec` of `Curriculum` assumes weak fairness of `Step(r)`:
a handler always has a next statement that is possible, since a wait for a colliding insert
lasts as long as the other's commit. `Sessions` and `Views` state no liveness.

## 5. Runs that refute a documented claim

| run | property | what happens |
|---|---|---|
| `ScheduleMissed` | `ScheduledWhenConfident`: ADR-014 schedules the first time the facet reaches high confidence | two submissions reach it together; under READ COMMITTED each sees its own evidence only, neither schedules, and nothing looks again until the next graded application attempt |
| `UsageMissed` | `UsageAlwaysRecorded`: every `AIGateway.generate()` call writes exactly one usage record, success or failure (ADR-015, line 86; `ai/gateway.py:4-5`) | only a `ProviderError` is caught (`ai/gateway.py:65`); a provider that raises anything else, as the Ollama provider does on an answer that is valid JSON but `null` or a number (`ai/providers/ollama.py:65`), ends the call without a record, and it does not count towards the tenant's quota |
| `LimiterStuck` | `WindowAlwaysEnds`: a fixed-window limiter that fails open | the call that counts 1 fails at EXPIRE, or gets no answer to its INCR; the key stays without a time to live, and who reaches the limit is refused for good |
| `ResetTwice` | `TokenConsumedOnce`: a reset consumes its token exactly once (`services/auth_service.py:230`) | two requests read `used_at` before either writes it; both reset the password, and the later one's stands |

Remarks that no run states. Two graders who both pass the `evaluated_at` test
(`services/assessment_service.py:183`) leave two evidence rows that share one observation,
though evidence is said to come from an observation written in the same call (line 4). A
completion whose idempotency key belongs to an open, ungraded attempt completes the checkpoint
with its verdict pending for good; ADR-014 (line 71) says that a verdict needs a definite
result. An upsert leaves the columns alone that it believes unchanged, so that concurrent
recomputations may leave one's label next to the other's probability
(`services/knowledge_state_service.py:166`; line 4 calls the result a pure function of the
evidence). Two prerequisites added at once can close a cycle, which
`models/curriculum.py:118-122` leaves to the service to prevent; `CyclesNeedRaces` says that
nothing else can. A session rotated or made while a reset runs survives it
(`services/auth_service.py:247`), which `ResetEndsSessions` delimits. The trend on the teacher's
page is called "a genuine trend, not an invented one" (`services/dashboard_service.py:184`);
time alone can list a skill that stays weak as improving, and so can a decision that is inserted
after a newer one although it was computed before a failure was graded. `ImprovementExplained`
says that there is no third way without right answers. The student's page names decisions that
no task carries out, since it does not ask whether they are executable. ADR-014 (line 193) lists
tests of all three verdicts, but through the services `inconclusive` is unreachable, which
`VerdictIsDecided` shows. And `classify_failure_mode` accepts evidence of either polarity, so a
correct answer can be given a failure mode. Two concurrent classifications both succeed, the
later one replacing the earlier (ADR-014, line 130, calls it one-shot). Two completions of one
checkpoint that both find it pending both succeed, the later one's delayed attempt and verdict
replacing the earlier's (`services/retention_service.py:205-219`): a student may be listed as
forgetting on one page and not on the next. A completion under an idempotency key that was used
before takes the attempt found there, of whatever question, as the delayed one. Two rotations of
one refresh token, both checked before either commits, leave two live sessions;
`RotatedWhileValid` says only that both had found it valid. Once checkpoints exist, grading
returns from `maybe_schedule_checkpoints` before it recomputes, so the dashboard's remark that
evidence triggers a recomputation (`services/dashboard_service.py:14`) holds only until then,
and dashboards judge by older states. `authorize`'s rejection of a personalised action cannot
happen through the engine, which `PersonalizedOnHighConfidence` shows. ADR-013 (lines 187-190)
says when `DEFER_DECISION` is selected: never, since `TEACHER_INTERVENTION` scores at least 0.05
and is declared before it; and of `INSUFFICIENT_EVIDENCE_ACTION` at the prior (lines 207-209)
that it is strictly higher than every other action, where `RETRIEVAL_QUESTION` may also score
1.0 and loses by declaration order. "A tenant at its plan's seat limit cannot create another
account" (`services/entitlement_service.py:100`) holds of requests that come one after the
other; `OvershootBounded` says by how many it fails of concurrent ones.

## 6. Theorems

`LearningLoopProofs` proves, for any sets of requests, students, skills, questions and keys, any
calls and thresholds, and with or without crashes:

* `TypeCorrect`: `Spec => []TypeOK`. `TypeOK` is not inductive: that the row a handler inserts
  is well-formed depends on the statements that led there. The invariant is `TypeInv == TypeOK
  /\ ControlOK`, where `Control(pc, call, local)` says for each statement which operation can be
  there and which of its variables are set.
* `VerdictsDecided`: `Spec => []VerdictIsDecided`. A verdict is decided because the label it is
  computed from was high when the checkpoint was inserted; the invariant, `PredictionInv`, says
  that of committed and flushed checkpoints and of the state a handler holds when it is about to
  insert them. The last is what the reread in `RefreshState` could break, and does not since the
  code tests the label after it.

It also proves the first half of what is cached: `CacheInv` says that a cached posterior rests
on committed evidence, that the posterior a handler has computed and not saved rests on rows
that are committed or its own flushed ones, which the same commit publishes, and that evidence
keeps its id, learner and facet when it is classified.

`PublicationProofs` goes on to what transactions publish. Its invariant, `PublishedInv`, adds
the argument of row locks: of the rows with one key at most one is uncommitted (`Locked`), since
a handler that meets another's waits; so what a commit replaces is what its own handler has read
(`PendingOK`), and a handler between its attempt and the evidence of it holds either nothing or
that one row (`RecordingOK`). `Grows` says what every step does to the tables.

* `PublishedWhole`: `Spec => []EvaluationPublishedWhole`. The commit in the middle of
  `get_or_recompute_knowledge_state` comes after the evidence is flushed, on every route to it.
* `GradedOnce`: `Spec => []GradedExactlyOnce`. A gradable attempt is inserted already on its way
  to be evaluated, and its key admits one such insertion.
* `Acknowledged`: `Spec => []AcknowledgedIsDurable`. For each operation, `PromiseOK` follows
  what it will tell its client of from the flush to the commit.
* `HistoryIsKept`: `Spec => HistoryKept`, from `Grows`.
* `ScheduledSoundly`: `Spec => []ScheduledOnHighConfidence`. The invariant is `ScheduleInv`: a
  label of high confidence, cached or held, is borne out by evidence (`Certain`), by what is
  committed and what the handler itself has flushed before the commit in its middle, and by what
  is committed alone after it (`ScheduleOK`); the checkpoints of a learner, committed or
  flushed, are a pair with one prediction (`Paired`) on such evidence (`Grounded`); and no two
  handlers hold checkpoints for one learner, since an insert waits for the other's. What keeps
  `Certain` true is that evidence is only added or classified, which never lowers the sum of its
  weights: `CertaintyStays`, by `SumCovered`, as the rows before map one to one to rows of the
  same weight after.
* `CacheSound`: `Spec => []CacheRestsOnEvidence`, from `CacheInv` and `ScheduleInv`: the column
  that an upsert leaves alone was certain when it was written, and evidence only grows since.

`SumProofs` states what these arguments need of sums over finite sets. Induction is first-order
there: a set of subsets of S that has a subset whenever it has all with one element less has all
of them (`SetInduction`, from the well-foundedness of the order on cardinalities). The recursion
that the community modules define a sum by is shown to have exactly one solution (`SumsExist`,
`SumsAgree`, `SumUnfolds`). From it follow that a sum does not depend on the order of its terms
(`SumRemove`), is monotone, is twice the sum of halves, is positive if and only if a term is,
and is covered by a sum of at least its terms.

Their assumptions are those the modules name: `QuestionAssumption` (a question has a skill and a
facet), `NoneAssumption` (NULL is not an id), `ThresholdAssumption` (0 <= insufficient <= low),
`CrashAssumption` and `CallAssumption`.

`DecisionProofs` proves, for any requests, any set of evidence, any assignment of estimates to
sets of evidence and any grid of probabilities:

* `DecisionTypes`: `Spec => []TypeOK`. That a snapshot has all five rows needs, for each
  statement, which rows the handler has computed, and that a row once saved stays; the invariant
  is `TypeOK /\ Control`, with `Holds(r)` for each handler.
* `DeadForever`: `Spec => []DeadCandidates`, and `NeverRejected`: `Spec =>
  []PersonalizedOnHighConfidence`. They rest on lemmas about the scores alone (`HarderBehind`,
  `HalvesBehind`, `DeferBehind`, `PersonalBehind`): for *any* five inputs, an earlier declared
  candidate scores at least as much.
* `ConsentForMinors`: `Spec => []MinorsNeedConsent`. The invariant `ConsentStands` says that the
  consent a handler has read is on file, since none is withdrawn.
* `CitedWhole`: `Spec => []EvidenceCited`. The invariant `BasesCommitted` says that every row,
  saved, computed or reread, rests on committed evidence, and what was reread before the ids
  were queried on evidence they cover.

Their assumptions are `GrainAssumption` (the grid is not empty), `EvidenceAssumption` (a facet
for each piece of evidence, a probability and a label for each set, and "insufficient evidence"
for the empty one) and `NoneAssumption`.

`MeteringProofs` proves, for any requests, calls, plans, limits, rates, pool size, list of
providers and number of months, whether Redis fails or not:

* `MeteringTypes`: `Spec => []TypeOK`. The invariant `Control` says, with `Holds(r)` for each
  handler, which operation can be at each statement, which provider it is asking, and that it
  has inserted nothing yet.
* `RowsMatchAnswers`: `Spec => []AnswersMatchRows`, from `Control`.
* `RateKept`: `Spec => []WithinRate`. The invariant `Counts` says that the counter is at least
  the number of calls that the window let through, which the limit bounds; the counter is reset
  only with the window.
* `LimitsHold`: `Spec => []OvershootBounded`. The invariant `Bounded` is the heart of the
  matter. A handler that has passed its check and not yet inserted counts against nobody, so the
  property alone is not inductive. It becomes so when it is stated for *every* set X of handlers
  past their check: were all of X to insert now, some one among them and the inserters so far
  has read a limit that the sum exceeds by less than the pool's size. A handler that passes
  explains every set it belongs to, since no set has more handlers than there are connections;
  one that inserts moves from X to the rows; a new month empties the rows.

Their assumptions are `PoolAssumption`, `RateAssumption`, `PlanAssumption`, `CallAssumption` and
`ProviderAssumption`: the pool is not empty, limits are natural numbers or absent, tenants begin
with finitely many accounts, calls are of the two kinds, and there is a provider.

`CurriculumProofs` proves, for any seed of rows, any calls and any number of requests:

* `TypesCorrect`: `Spec => []TypeOK`.
* `SearchCorrect`: `Spec => []SearchDecides`. Reachability is second-order here: `Reaches(a, b,
  E)` says that every set that holds a and is closed under E holds b. The loop invariant is the
  textbook's: the frontier and what was visited are reachable from the skill, what was visited
  is closed under the edges up to the frontier, and does not hold the prerequisite. When the
  frontier is empty, what was visited is itself the closed set that separates the two.
* `CyclesAreRaces`: `Spec => []CyclesNeedRaces`. Together with `SearchFits` (the loop invariant)
  and `SeenEarlier` (what an edge's check has read was there) the property is inductive: an edge
  that is added has been in nobody's graph yet, so whatever is not concurrent with it is in the
  graph that its own check has read; there its skill does not reach its prerequisite, and it
  closes no cycle.
* `AnswersTrue`: `Spec => []AnswersMatchRows`, and `EdgesHaveOneMaker`: `Spec => []EdgesBelong`.
  The invariant `TreeInv` says of each handler which parents and skills it has found, that they
  are still there since nothing is deleted, and of each edge that one request has made it.

`SessionProofs` proves, for any accounts, browsers, sessions, tokens, calls and any number of
requests:

* `SessionTypes`: `Spec => []TypeOK`, with `Control`, which says what each statement's handler
  holds.
* `ResetsEnd`: `Spec => []ResetEndsSessions`. The invariant is `Endings`: a live session that
  raced nothing goes back to a password check since the last reset (`SteadyIsFresh`), a rotation
  knows how many resets there were when its session was such (`RotationFits`), and a running
  reset has selected, and then locked, every such session (`SweepFits`).
* `SessionsAreOneTime` and `ResetTokensAreOneTime`: the refinements. The initial state maps to
  the abstract one; `FindSession` and `FindToken` are `Check`, `Rotate` and `CommitReset` are
  `Act`, `Revoke` (and for sessions `CommitReset`) is `Withdraw`, all others stutter.

* `CookiesLive`: `Spec => []CookieLive`. The invariant `Cookies` says that what a browser holds,
  or has sent, is what it began with or what an answer delivered to it (`Owns`), that a browser
  never comes back to a cookie once the answer that replaces it has arrived (`RequestFits`), and
  that as long as no account was reset, requests of browsers have ended all that is revoked.

`ViewProofs` proves, for any students, skills, checkpoints, decisions and questions and any
number of commits while a page is put together:

* `CausesVisible`: `Spec => []CausesStayVisible`, `CountsAgree`: `Spec => []AdminCountsAgree`,
  and `PagesCurrent`: `Spec => []PageIsCurrent`. The invariant `ViewInv` has two halves. The
  tables only move forward (`Longer`, `Further`): decisions are appended, a checkpoint that is
  no longer pending never is again, a verdict is replaced by verdicts only, and only while a
  handler that found the checkpoint pending is still completing it, which nobody begins once it
  is completed. So a `Settled` verdict stays, and who lost a failed prediction has a supported
  one. And the loop over students has summarised all that it no longer has to do (`Summaries`),
  each with all there was when the page was requested. The numbers agree because there is an
  injection from the students that are named to the rows that are counted, the rows being
  counted last.
* `TypeCorrect`: `Spec => []TypeOK`. A posterior is a pair of sums over the rows of a learner,
  so `RowsInv` adds that these are finitely many, and none is dated after the present.
* `TimeFades`: `Spec => FadesTowardsDoubt`. A half-life adds one to the age of
  every row, so all weights, and with them both sums, become half of what they were
  (`AmountHalves`); the rest is arithmetic (`HalvesFade`).
* `ImprovementHasCause`: `Spec => []ImprovementExplained`. The invariant `Trend` says of every
  pair of decisions that show an improvement what explains it, and of every decision what it
  rested on (`Grounded`): on its own day, the posterior of some of the rows there are, with all
  of the earlier days; later on, that the learner's posterior from the rows before the present
  is `NotAbove` it, unless something was answered correctly since. This holds since wrong
  answers lower a posterior (`WrongLowers`) and time does not raise it from one half or above
  (`TimeLowers`), nor to one half from below. A later decision, which rests on these rows and
  perhaps wrong answers of its day, is then no improvement, except from below one half. On one
  day, the first decision must have counted wrong answers that the latest has missed.
* `NoQuestionRepeated`: `Spec => []NoNeedlessRepeat`, and `EasierIsEasiest`: `Spec =>
  []EasiestFirst`. The invariant `TaskFits` brackets what the page has read: the attempts are
  among those there are, and the questions are those there were when it was requested, and
  perhaps later ones.

Their assumptions are `SeedAssumption`, `CookieAssumption`, `IdAssumption`, `NoneAssumption`,
`CallsAssumption`, `ViewAssumption` and `FiniteAssumption`: ids of the seed differ from those of
requests, the seed is a whole tree, NULL is no answer, sessions at the start belong to an
account, no two browsers begin with one cookie, and tables are finite. For the later theorems
`SeriesAssumption` and `QuestionAssumption` are used too: a series has natural numbers of right
and wrong attempts, a question a facet and a difficulty.

Every safety and action property that a passing run checks is proved. Only model-checked are the
liveness properties `EveryCallAnswered`, of `LearningLoop` and of `Curriculum`, since the prover
does not handle fairness.

## 7. Plan

In this order; the modules of one line are independent of those of the next.

1. *Done*: `Store`, `Assessment`, `KnowledgeCache`, `Retention`, `LearningLoop` and the first
   proofs.
2. *Done*: `DecisionPolicy`, `Decisions` and their proofs.
3. *Done*: `RateLimit`, `Entitlements`, `AiGateway`, `Metering` and their proofs.
4. *Done*: `OneTimeToken`, `Sessions`, their refinements and proofs.
5. *Done*: `Curriculum` and its proofs.
6. *Done*: `Posterior`, `TaskChoice`, `Dashboards`, `Views`.
7. *Done*: the proofs of what is published (`PublicationProofs`), of the rest of `Curriculum`
   and `Sessions`, and of `Views`; the theory of sums (`SumProofs`) and with it the proofs of
   when checkpoints are scheduled, and of what time does to a posterior.
8. Left: `GradeLedger`, an abstract specification of grading (a set of keys, each graded at most
   once and in one step), implemented by `LearningLoop` for questions that are graded
   automatically. `GradedExactlyOnce` and `EvaluationPublishedWhole` say most of it already.

The set of runs is kept small enough to be repeated with every change: a new run replaces a
weaker one (the refutations that section 5 keeps as remarks went that way).

## 8. Not modelled

Audit rows and e-mail are single statements that nothing else reads back; of relationships, only
what the decision engine reads is modelled. Listings (subjects, questions, evidence, due
checkpoints, decisions, plans) are one query each and write nothing. Access tokens are verified
without a table. Middleware, metrics, logging and configuration keep no state that a property
could be about. The front end calls the API; the n8n workflow polls a listing; migrations and
seeds run before the service does. Of the administrator's page, the AI usage, plan and seat
numbers are left out: they are sums that `Metering` counts. Key lengths are not modelled: an
attempt's key of 100 characters overflows the observations table once the suffix is added, which
a unit test reaches.
