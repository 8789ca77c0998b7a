--------------------------- MODULE MeteringProofs ---------------------------
(***************************************************************************)
(* Theorems about Metering, for any number of requests and connections,    *)
(* any plans, limits, rates and providers.                                 *)
(***************************************************************************)
EXTENDS Metering, FiniteSetTheorems, TLAPS

(* What a handler holds at each statement, and that it has left no row     *)
(* before it has answered.                                                 *)

RowsOf(r) == {u \in users : u.by = r} \cup {u \in usage : u.by = r}

Holds(r) ==
    /\ pc[r] # "idle" => call[r] \in Call
    /\ pc[r] \in {"find_email", "insert_user"} => call[r].op = Enrol
    /\ pc[r] \in {"ask_provider", "record_usage"} => call[r].op = Explain
    /\ pc[r] = "record_usage" => verdict[r] \in Ending
    /\ pc[r] # "done" => RowsOf(r) = {}

Control == \A r \in Request : Holds(r)

LEMMA InitControl == Init => TypeOK /\ Control
<1> SUFFICES ASSUME Init PROVE TypeOK /\ Control
  OBVIOUS
<1> USE DEF Init
<1>1. Provider # <<>> /\ Len(Provider) \in Nat /\ Len(Provider) >= 1
  BY ProviderAssumption
<1>2. TypeOK
  BY <1>1, PlanAssumption, RateAssumption
     DEF TypeOK, Statement, Outcome, Counter, NoKey, User, Usage
<1>3. Control
  BY PlanAssumption DEF Control, Holds, RowsOf
<1>4. QED
  BY <1>2, <1>3

\* The steps that move one handler, told apart.
LEMMA ServeCases ==
    ASSUME NEW r \in Request, Serve(r), NEW G,
           Begin(r) /\ UNCHANGED <<limiter, tenant, gateway>> => G,
           CountCall(r) /\ UNCHANGED <<tenant, gateway>> => G,
           SetExpiry(r) /\ UNCHANGED <<tenant, gateway>> => G,
           ReadLimit(r) /\ UNCHANGED gateway => G,
           CountUsed(r) /\ UNCHANGED gateway => G,
           FindEmail(r) /\ UNCHANGED gateway => G,
           InsertUser(r) /\ UNCHANGED gateway => G,
           AskProvider(r) => G,
           RecordUsage(r) => G
    PROVE  G
  BY DEF Serve

LEMMA OthersHold ==
    ASSUME NEW r \in Request, Control, Holds(r)',
           \A q \in Request \ {r} :
               /\ pc'[q] = pc[q] /\ call'[q] = call[q] /\ verdict'[q] = verdict[q]
               /\ RowsOf(q)' = RowsOf(q)
    PROVE  Control'
  BY DEF Control, Holds

LEMMA CountedOnce == ASSUME NEW c \in Counter PROVE [c EXCEPT !.n = @ + 1] \in Counter
<1>1. c.n + 1 \in Nat
  BY DEF Counter
<1>2. QED
  BY <1>1, Zenon DEF Counter

LEMMA ServeControl ==
    ASSUME TypeOK, Control, NEW r \in Request, Serve(r)
    PROVE  TypeOK' /\ Control'
<1>. USE PlanAssumption, CallAssumption, RateAssumption
<1>. USE DEF TypeOK, Statement, Outcome, Ending
<1>0. Holds(r)
  BY DEF Control
<1>1. CASE Begin(r) /\ UNCHANGED <<limiter, tenant, gateway>>
  <2>. USE <1>1 DEF Begin, limiter, tenant, gateway
  <2>1. PICK c \in Call : call' = [call EXCEPT ![r] = c]
    OBVIOUS
  <2>2. TypeOK'
    BY <2>1
  <2>3. Holds(r)'
    BY <2>1, <1>0 DEF Holds, RowsOf
  <2>4. QED
    BY <2>1, <2>2, <2>3, OthersHold DEF RowsOf
<1>2. CASE CountCall(r) /\ UNCHANGED <<tenant, gateway>>
  <2>. USE <1>2 DEF CountCall, Goto, Answer, tenant, gateway
  <2>1. call[r].op \in Prefix
    BY <1>0 DEF Holds
  <2>. DEFINE p == call[r].op
  <2>2. Incremented(p) \in [Prefix -> Counter]
    <3>1. counter[p] \in Counter
      <4>1. counter \in [Prefix -> Counter]
        BY DEF TypeOK
      <4>2. QED
        BY <2>1, <4>1
    <3>2. [counter[p] EXCEPT !.n = @ + 1] \in Counter
      BY <3>1, CountedOnce
    <3>3. Incremented(p) = [counter EXCEPT ![p] = [counter[p] EXCEPT !.n = @ + 1]]
      BY DEF Incremented
    <3>4. QED
      BY <2>1, <3>2, <3>3
  <2>3. TypeOK'
    <3>1. counter' \in [Prefix -> Counter]
      BY <2>2
    <3>2. admitted' \in [Prefix -> SUBSET Request]
      BY <2>1
    <3>3. pc' \in [Request -> Statement] /\ outcome' \in [Request -> Outcome \cup {None}]
      OBVIOUS
    <3>4. call' = call
      OBVIOUS
    <3>5. QED
      BY <3>1, <3>2, <3>3, <3>4
  <2>4. Holds(r)'
    BY <1>0 DEF Holds, RowsOf
  <2>5. QED
    BY <2>3, <2>4, OthersHold DEF RowsOf
<1>3. CASE SetExpiry(r) /\ UNCHANGED <<tenant, gateway>>
  <2>. USE <1>3 DEF SetExpiry, Goto, tenant, gateway
  <2>1. call[r].op \in Prefix
    BY <1>0 DEF Holds
  <2>2. Expiring(call[r].op) \in [Prefix -> Counter]
    BY <2>1 DEF Expiring, Counter
  <2>3. TypeOK'
    BY <2>1, <2>2
  <2>4. Holds(r)'
    BY <1>0 DEF Holds, RowsOf
  <2>5. QED
    BY <2>3, <2>4, OthersHold DEF RowsOf
<1>4. CASE ReadLimit(r) /\ UNCHANGED gateway
  <2>. USE <1>4 DEF ReadLimit, Goto, limiter, gateway
  <2>1. limit'[r] \in Nat \cup {None} /\ limit' = [limit EXCEPT ![r] = limit'[r]]
    BY DEF KeyOf, Key
  <2>2. TypeOK'
    BY <2>1
  <2>3. Holds(r)'
    BY <1>0 DEF Holds, RowsOf
  <2>4. QED
    BY <2>2, <2>3, OthersHold DEF RowsOf
<1>5. CASE CountUsed(r) /\ UNCHANGED gateway
  <2>. USE <1>5 DEF CountUsed, Goto, Answer, tenant, limiter, gateway
  <2>1. TypeOK'
    <3>1. pc' \in [Request -> Statement] /\ outcome' \in [Request -> Outcome \cup {None}]
      OBVIOUS
    <3>2. UNCHANGED <<call, counter, admitted, plan, users, usage, month, limit, asked, verdict>>
      OBVIOUS
    <3>3. QED
      BY <3>1, <3>2
  <2>2. Holds(r)'
    BY <1>0 DEF Holds, RowsOf
  <2>3. QED
    BY <2>1, <2>2, OthersHold DEF RowsOf
<1>6. CASE FindEmail(r) /\ UNCHANGED gateway
  <2>. USE <1>6 DEF FindEmail, Goto, Answer, tenant, limiter, gateway
  <2>1. TypeOK'
    <3>1. pc' \in [Request -> Statement] /\ outcome' \in [Request -> Outcome \cup {None}]
      OBVIOUS
    <3>2. UNCHANGED <<call, counter, admitted, plan, users, usage, month, limit, asked, verdict>>
      OBVIOUS
    <3>3. QED
      BY <3>1, <3>2
  <2>2. Holds(r)'
    BY <1>0 DEF Holds, RowsOf
  <2>3. QED
    BY <2>1, <2>2, OthersHold DEF RowsOf
<1>7. CASE InsertUser(r) /\ UNCHANGED gateway
  <2>. USE <1>7 DEF InsertUser, Answer, Committed, limiter, gateway
  <2>1. [email |-> call[r].email, by |-> r] \in User
    BY <1>0 DEF Holds, User, Enrol, Explain
  <2>2. TypeOK'
    <3>1. pc' \in [Request -> Statement] /\ outcome' \in [Request -> Outcome \cup {None}]
      OBVIOUS
    <3>2. users' \subseteq User
      BY <2>1
    <3>3. UNCHANGED <<call, counter, admitted, plan, usage, month, limit, asked, verdict>>
      OBVIOUS
    <3>4. QED
      BY <3>1, <3>2, <3>3
  <2>3. Holds(r)'
    BY <1>0 DEF Holds
  <2>4. \A q \in Request \ {r} : RowsOf(q)' = RowsOf(q)
    BY DEF RowsOf
  <2>5. QED
    BY <2>2, <2>3, <2>4, OthersHold
<1>8. CASE AskProvider(r)
  <2>. USE <1>8 DEF AskProvider, Answered, GivenUp, Goto, Answer, handlers, tenant, limiter, gateway
  <2>1. TypeOK'
    <3>1. Len(Provider) \in Nat
      BY ProviderAssumption
    <3>2. asked' \in [Request -> 1..Len(Provider)]
      <4>1. CASE Answered(r) \/ (Answer(r, "error") /\ UNCHANGED gateway)
        BY <4>1
      <4>2. CASE GivenUp(r)
        BY <4>2, <3>1
      <4>3. QED
        BY <4>1, <4>2
    <3>3. verdict' \in [Request -> Ending \cup {None}]
      OBVIOUS
    <3>4. pc' \in [Request -> Statement] /\ outcome' \in [Request -> Outcome \cup {None}]
      OBVIOUS
    <3>5. QED
      BY <3>2, <3>3, <3>4
  <2>2. Holds(r)'
    BY <1>0 DEF Holds, RowsOf
  <2>3. QED
    BY <2>1, <2>2, OthersHold DEF RowsOf
<1>9. CASE RecordUsage(r)
  <2>. USE <1>9 DEF RecordUsage, Answer, Committed, limiter, gateway
  <2>1. Record(r, asked[r]) \in Usage
    BY ProviderAssumption DEF Record, Usage
  <2>2. TypeOK'
    <3>1. pc' \in [Request -> Statement] /\ outcome' \in [Request -> Outcome \cup {None}]
      BY <1>0 DEF Holds
    <3>2. usage' \subseteq Usage
      BY <2>1
    <3>3. UNCHANGED <<call, counter, admitted, plan, users, month, limit, asked, verdict>>
      OBVIOUS
    <3>4. QED
      BY <3>1, <3>2, <3>3
  <2>3. Holds(r)'
    BY <1>0 DEF Holds
  <2>4. \A q \in Request \ {r} : RowsOf(q)' = RowsOf(q)
    BY DEF RowsOf, Record
  <2>5. QED
    BY <2>2, <2>3, <2>4, OthersHold
<1>10. QED
  BY <1>1, <1>2, <1>3, <1>4, <1>5, <1>6, <1>7, <1>8, <1>9, ServeCases

LEMMA ControlStep ==
    ASSUME TypeOK, Control, [Next]_vars PROVE TypeOK' /\ Control'
<1>. USE DEF TypeOK, Control, Holds, RowsOf
<1>1. CASE \E r \in Request : Serve(r)
  BY <1>1, ServeControl
<1>2. CASE \E p \in Prefix : WindowEnds(p) /\ UNCHANGED <<tenant, gateway>>
  BY <1>2 DEF WindowEnds, NoKey, Counter, handlers, tenant, gateway
<1>3. CASE \E p \in Plan : SwitchTenantPlan(p) /\ UNCHANGED gateway
  BY <1>3 DEF SwitchTenantPlan, handlers, limiter, gateway
<1>4. CASE NewMonth /\ UNCHANGED gateway
  BY <1>4 DEF NewMonth, handlers, limiter, gateway
<1>5. CASE UNCHANGED vars
  BY <1>5 DEF vars, handlers, limiter, tenant, gateway
<1>6. QED
  BY <1>1, <1>2, <1>3, <1>4, <1>5 DEF Next

\* Type correctness: rows fit the schema, no provider beyond the last one is
\* asked, and each statement is reached by the call it belongs to.
THEOREM MeteringTypes == Spec => []TypeOK
<1>1. Init => TypeOK /\ Control
  BY InitControl
<1>2. TypeOK /\ Control /\ [Next]_vars => (TypeOK /\ Control)'
  BY ControlStep
<1>3. QED
  BY <1>1, <1>2, PTL DEF Spec

-----------------------------------------------------------------------------
(* Answers and rows.                                                       *)

Matches(r) ==
    pc[r] = "done" =>
        OwnRows(r) = IF outcome[r] \in Ending \cup {"lost"} THEN DueRows(r) ELSE NoRows

LEMMA NothingYet ==
    ASSUME NEW r \in Request, Control, pc[r] # "done" PROVE OwnRows(r) = NoRows
<1>1. RowsOf(r) = {}
  BY DEF Control, Holds
<1>2. /\ {v \in users : v.by = r} = {}
      /\ {v \in usage : v.by = r} = {}
  BY <1>1 DEF RowsOf
<1>3. QED
  BY <1>2 DEF OwnRows, NoRows

LEMMA SameRows ==
    ASSUME NEW r, {v \in users' : v.by = r} = {v \in users : v.by = r},
           {v \in usage' : v.by = r} = {v \in usage : v.by = r}
    PROVE  OwnRows(r)' = OwnRows(r)
  BY DEF OwnRows

LEMMA OneAccount ==
    ASSUME NEW r, NEW row, {v \in users' : v.by = r} = {row}, {v \in usage' : v.by = r} = {}
    PROVE  OwnRows(r)' = [accounts |-> {row.email}, records |-> {}]
<1>1. {u.email : u \in {v \in users' : v.by = r}} = {row.email}
  OBVIOUS
<1>2. {[provider |-> u.provider, success |-> u.success] :
         u \in {v \in usage' : v.by = r}} = {}
  OBVIOUS
<1>3. QED
  BY <1>1, <1>2 DEF OwnRows

LEMMA OneRecord ==
    ASSUME NEW r, NEW row, {v \in users' : v.by = r} = {}, {v \in usage' : v.by = r} = {row}
    PROVE  OwnRows(r)' = [accounts |-> {},
                          records |-> {[provider |-> row.provider, success |-> row.success]}]
<1>1. {u.email : u \in {v \in users' : v.by = r}} = {}
  OBVIOUS
<1>2. {[provider |-> u.provider, success |-> u.success] :
         u \in {v \in usage' : v.by = r}}
          = {[provider |-> row.provider, success |-> row.success]}
  OBVIOUS
<1>3. QED
  BY <1>1, <1>2 DEF OwnRows

LEMMA OthersMatch ==
    ASSUME NEW r \in Request, AnswersMatchRows, Matches(r)',
           \A q \in Request \ {r} :
               /\ pc'[q] = pc[q] /\ call'[q] = call[q] /\ outcome'[q] = outcome[q]
               /\ asked'[q] = asked[q] /\ verdict'[q] = verdict[q]
               /\ OwnRows(q)' = OwnRows(q)
    PROVE  AnswersMatchRows'
<1>1. \A q \in Request \ {r} : Matches(q) /\ DueRows(q)' = DueRows(q)
  BY DEF AnswersMatchRows, Matches, DueRows
<1>2. \A q \in Request \ {r} : Matches(q)'
  BY <1>1 DEF Matches, NoRows
<1>3. QED
  BY <1>2 DEF AnswersMatchRows, Matches

\* A step that leaves both tables alone, and answers only with a refusal or failure.
LEMMA NoRowLeft ==
    ASSUME NEW r \in Request, Control, AnswersMatchRows, UNCHANGED <<users, usage>>,
           pc[r] # "done",
           pc'[r] = "done" => outcome'[r] \notin Ending \cup {"lost"},
           \A q \in Request \ {r} :
               /\ pc'[q] = pc[q] /\ call'[q] = call[q] /\ outcome'[q] = outcome[q]
               /\ asked'[q] = asked[q] /\ verdict'[q] = verdict[q]
    PROVE  AnswersMatchRows'
<1>1. \A q \in Request : OwnRows(q)' = OwnRows(q)
  BY DEF OwnRows
<1>2. NoRows' = NoRows
  BY DEF NoRows
<1>3. Matches(r)'
  BY <1>1, <1>2, NothingYet DEF Matches
<1>4. QED
  BY <1>1, <1>3, OthersMatch

LEMMA ServeAnswers ==
    ASSUME TypeOK, Control, AnswersMatchRows, NEW r \in Request, Serve(r)
    PROVE  AnswersMatchRows'
<1>. USE DEF TypeOK, Ending
<1>0. (Holds(r) /\ RowsOf(r) = {}) \/ pc[r] = "done"
  BY DEF Control, Holds
<1>1. CASE Begin(r) /\ UNCHANGED <<limiter, tenant, gateway>>
  BY <1>1, NoRowLeft DEF Begin, tenant, gateway
<1>2. CASE CountCall(r) /\ UNCHANGED <<tenant, gateway>>
  BY <1>2, NoRowLeft DEF CountCall, Goto, Answer, tenant, gateway
<1>3. CASE SetExpiry(r) /\ UNCHANGED <<tenant, gateway>>
  BY <1>3, NoRowLeft DEF SetExpiry, Goto, tenant, gateway
<1>4. CASE ReadLimit(r) /\ UNCHANGED gateway
  BY <1>4, NoRowLeft DEF ReadLimit, Goto, gateway
<1>5. CASE CountUsed(r) /\ UNCHANGED gateway
  BY <1>5, NoRowLeft DEF CountUsed, Goto, Answer, tenant, gateway
<1>6. CASE FindEmail(r) /\ UNCHANGED gateway
  BY <1>6, NoRowLeft DEF FindEmail, Goto, Answer, tenant, gateway
<1>7. CASE InsertUser(r) /\ UNCHANGED gateway
  <2>. USE <1>7 DEF InsertUser, Answer, Committed, gateway
  <2>1. CASE \E u \in users : u.email = call[r].email
    BY <2>1, NoRowLeft
  <2>2. CASE ~\E u \in users : u.email = call[r].email
    <3>1. /\ users' = users \cup {[email |-> call[r].email, by |-> r]}
          /\ usage' = usage /\ call' = call
          /\ outcome'[r] \in Ending \cup {"lost"}
      BY <2>2
    <3>2. \A q \in Request \ {r} : OwnRows(q)' = OwnRows(q)
      <4>1. \A q \in Request \ {r} :
                /\ {v \in users' : v.by = q} = {v \in users : v.by = q}
                /\ {v \in usage' : v.by = q} = {v \in usage : v.by = q}
        BY <3>1
      <4>2. QED
        BY <4>1, SameRows
    <3>3. /\ {v \in users' : v.by = r} = {[email |-> call[r].email, by |-> r]}
          /\ {v \in usage' : v.by = r} = {}
      BY <1>0, <3>1 DEF RowsOf
    <3>4. OwnRows(r)' = [accounts |-> {call[r].email}, records |-> {}]
      <4>1. PICK row : row = [email |-> call[r].email, by |-> r]
        OBVIOUS
      <4>2. /\ {v \in users' : v.by = r} = {row}
            /\ {v \in usage' : v.by = r} = {}
        BY <3>3, <4>1
      <4>3. OwnRows(r)' = [accounts |-> {row.email}, records |-> {}]
        BY ONLY <4>2, OneAccount, Zenon
      <4>4. QED
        BY <4>1, <4>3
    <3>5. DueRows(r)' = [accounts |-> {call[r].email}, records |-> {}]
      BY <1>0, <3>1 DEF DueRows, NoRows, Holds
    <3>6. Matches(r)'
      BY <3>1, <3>4, <3>5 DEF Matches
    <3>7. QED
      BY <3>2, <3>6, OthersMatch
  <2>3. QED
    BY <2>1, <2>2
<1>8. CASE AskProvider(r)
  BY <1>8, NoRowLeft DEF AskProvider, Answered, GivenUp, Goto, Answer, handlers, tenant, gateway
<1>9. CASE RecordUsage(r)
  <2>. USE <1>9 DEF RecordUsage, Answer, Committed, gateway
  <2>. DEFINE record == [provider |-> Provider[asked[r]], success |-> verdict[r] = "ok"]
  <2>1. /\ usage' = usage \cup {Record(r, asked[r])}
        /\ users' = users /\ call' = call /\ asked' = asked /\ verdict' = verdict
        /\ outcome'[r] \in Ending \cup {"lost"}
    BY <1>0 DEF Holds
  <2>2. \A q \in Request \ {r} : OwnRows(q)' = OwnRows(q)
    <3>1. \A q \in Request \ {r} :
              /\ {v \in users' : v.by = q} = {v \in users : v.by = q}
              /\ {v \in usage' : v.by = q} = {v \in usage : v.by = q}
      BY <2>1 DEF Record
    <3>2. QED
      BY <3>1, SameRows
  <2>3. /\ {v \in users' : v.by = r} = {}
        /\ {v \in usage' : v.by = r} = {Record(r, asked[r])}
    BY <1>0, <2>1 DEF RowsOf, Record
  <2>4. OwnRows(r)' = [accounts |-> {}, records |-> {record}]
    <3>1. PICK row : row = Record(r, asked[r])
      OBVIOUS
    <3>2. /\ {v \in users' : v.by = r} = {}
          /\ {v \in usage' : v.by = r} = {row}
      BY <2>3, <3>1
    <3>3. OwnRows(r)' = [accounts |-> {},
                         records |-> {[provider |-> row.provider, success |-> row.success]}]
      BY <3>2, OneRecord
    <3>4. QED
      BY <3>1, <3>3 DEF Record
  <2>5. DueRows(r)' = [accounts |-> {}, records |-> {record}]
    BY <1>0, <2>1 DEF DueRows, NoRows, Holds, Enrol, Explain
  <2>6. Matches(r)'
    BY <2>1, <2>4, <2>5 DEF Matches
  <2>7. QED
    BY <2>2, <2>6, OthersMatch
<1>10. QED
  BY <1>1, <1>2, <1>3, <1>4, <1>5, <1>6, <1>7, <1>8, <1>9, ServeCases

LEMMA AnswersStep ==
    ASSUME TypeOK, Control, AnswersMatchRows, [Next]_vars PROVE AnswersMatchRows'
<1>1. CASE \E r \in Request : Serve(r)
  BY <1>1, ServeAnswers
<1>2. CASE UNCHANGED <<pc, call, outcome, users, usage, asked, verdict>>
  BY <1>2 DEF AnswersMatchRows, OwnRows, DueRows, NoRows
<1>3. QED
  BY <1>1, <1>2 DEF Next, vars, WindowEnds, SwitchTenantPlan, NewMonth,
     handlers, limiter, tenant, gateway

\* An account or a usage record is there if and only if the call it was due from
\* committed, whichever exit it took and however the handlers interleaved.
THEOREM RowsMatchAnswers == Spec => []AnswersMatchRows
<1>1. Init => TypeOK /\ Control /\ AnswersMatchRows
  BY InitControl DEF Init, AnswersMatchRows
<1>2. TypeOK /\ Control /\ AnswersMatchRows /\ [Next]_vars
          => (TypeOK /\ Control /\ AnswersMatchRows)'
  BY ControlStep, AnswersStep
<1>3. QED
  BY <1>1, <1>2, PTL DEF Spec

-----------------------------------------------------------------------------
(* The rate limit.                                                         *)

\* Each call let through was counted; failures of Redis count some twice.
Counts ==
    \A p \in Prefix : /\ Cardinality(admitted[p]) <= counter[p].n
                      /\ Cardinality(admitted[p]) <= RateLimit[p]

LEMMA AdmittedFinite ==
    ASSUME TypeOK, NEW p \in Prefix
    PROVE  IsFiniteSet(admitted[p]) /\ Cardinality(admitted[p]) \in Nat
<1>1. admitted[p] \subseteq Request
  BY DEF TypeOK
<1>2. QED
  BY <1>1, PoolAssumption, FS_Subset, FS_CardinalityType

\* A counter that goes up, or expires, does not admit anyone by itself.
LEMMA CounterGrows ==
    ASSUME TypeOK, Counts, admitted' = admitted, NEW p \in Prefix,
           counter' \in {counter, Incremented(p), Expiring(p)}
    PROVE  Counts'
<1>1. \A q \in Prefix : counter[q].n \in Nat /\ counter'[q].n \in {counter[q].n, counter[q].n + 1}
  <2>1. counter \in [Prefix -> Counter]
    BY DEF TypeOK
  <2>2. \A q \in Prefix : counter[q].n \in Nat
    BY <2>1 DEF Counter
  <2>3. CASE counter' = counter
    BY <2>2, <2>3
  <2>4. CASE counter' = Incremented(p)
    <3>1. \A q \in Prefix : counter'[q].n = IF q = p THEN counter[q].n + 1 ELSE counter[q].n
      BY <2>1, <2>4 DEF Incremented, Counter
    <3>2. QED
      BY <2>2, <3>1
  <2>5. CASE counter' = Expiring(p)
    <3>1. \A q \in Prefix : counter'[q].n = counter[q].n
      BY <2>1, <2>5 DEF Expiring, Counter
    <3>2. QED
      BY <2>2, <3>1
  <2>6. QED
    BY <2>3, <2>4, <2>5
<1>2. \A q \in Prefix : Cardinality(admitted[q]) \in Nat
  BY AdmittedFinite
<1>3. QED
  BY <1>1, <1>2 DEF Counts

LEMMA CountCallCounts ==
    ASSUME TypeOK, Control, Counts, NEW r \in Request, CountCall(r)
    PROVE  Counts'
<1>. USE DEF CountCall, Goto, Answer
<1>. DEFINE p == call[r].op
            n == counter[p].n + 1
<1>1. p \in Prefix
  BY RateAssumption DEF Control, Holds
<1>2. CASE admitted' = admitted
  BY <1>1, <1>2, CounterGrows
<1>3. CASE admitted' # admitted
  <2>1. /\ counter' = Incremented(p)
        /\ admitted' = [admitted EXCEPT ![p] = @ \cup {r}]
        /\ ~(n > 1 /\ ~Admits(p, n))
    BY <1>3
  <2>2. counter[p].n \in Nat /\ RateLimit[p] \in Nat /\ RateLimit[p] >= 1
    BY <1>1, RateAssumption DEF TypeOK, Counter
  <2>3. n <= RateLimit[p]
    BY <2>1, <2>2 DEF Admits
  <2>4. admitted'[p] = admitted[p] \cup {r} /\ counter'[p].n = n
    BY <1>1, <2>1 DEF TypeOK, Incremented, Counter
  <2>5. /\ Cardinality(admitted[p]) \in Nat /\ Cardinality(admitted'[p]) \in Nat
        /\ Cardinality(admitted'[p]) <= Cardinality(admitted[p]) + 1
    <3>1. IsFiniteSet(admitted[p])
      BY <1>1, AdmittedFinite
    <3>2. /\ IsFiniteSet(admitted[p] \cup {r})
          /\ Cardinality(admitted[p] \cup {r}) = IF r \in admitted[p] THEN Cardinality(admitted[p])
                                                 ELSE Cardinality(admitted[p]) + 1
      BY <3>1, FS_AddElement
    <3>3. QED
      BY <2>4, <3>1, <3>2, FS_CardinalityType
  <2>6. Cardinality(admitted'[p]) <= counter'[p].n /\ Cardinality(admitted'[p]) <= RateLimit[p]
    BY <1>1, <2>2, <2>3, <2>4, <2>5 DEF Counts
  <2>7. \A q \in Prefix \ {p} : admitted'[q] = admitted[q] /\ counter'[q] = counter[q]
    BY <2>1 DEF TypeOK, Incremented
  <2>8. QED
    BY <2>6, <2>7 DEF Counts
<1>4. QED
  BY <1>2, <1>3

LEMMA CountsStep == ASSUME TypeOK, Control, Counts, [Next]_vars PROVE Counts'
<1>1. ASSUME NEW r \in Request, Serve(r) PROVE Counts'
  <2>1. CASE CountCall(r)
    BY <2>1, CountCallCounts
  <2>2. CASE SetExpiry(r)
    <3>1. call[r].op \in Prefix
      BY <2>2, RateAssumption DEF Control, Holds, SetExpiry
    <3>2. QED
      BY <2>2, <3>1, CounterGrows DEF SetExpiry
  <2>3. CASE UNCHANGED limiter
    BY <2>3 DEF Counts, limiter
  <2>4. QED
    BY <1>1, <2>1, <2>2, <2>3 DEF Serve, ReadLimit, CountUsed, FindEmail, InsertUser,
       AskProvider, RecordUsage
<1>2. ASSUME NEW p \in Prefix, WindowEnds(p) PROVE Counts'
  <2>1. counter'[p].n = 0 /\ admitted'[p] = {}
    BY <1>2 DEF WindowEnds, TypeOK, NoKey
  <2>2. \A q \in Prefix \ {p} : admitted'[q] = admitted[q] /\ counter'[q] = counter[q]
    BY <1>2 DEF WindowEnds, TypeOK
  <2>3. RateLimit[p] \in Nat
    BY RateAssumption
  <2>4. Cardinality(admitted'[p]) = 0
    BY <2>1, FS_EmptySet
  <2>5. Cardinality(admitted'[p]) <= counter'[p].n /\ Cardinality(admitted'[p]) <= RateLimit[p]
    BY <2>1, <2>3, <2>4
  <2>6. QED
    BY <2>2, <2>5 DEF Counts
<1>3. CASE UNCHANGED limiter
  BY <1>3 DEF Counts, limiter
<1>4. QED
  BY <1>1, <1>2, <1>3 DEF Next, SwitchTenantPlan, NewMonth, vars

\* A window lets no more calls through than the limit, though the comparison and
\* the time to live are set by different calls, and whatever Redis loses.
THEOREM RateKept == Spec => []WithinRate
<1>1. Init => TypeOK /\ Control /\ Counts
  <2>1. ASSUME Init PROVE Counts
    <3>1. \A p \in Prefix : counter[p].n = 0 /\ admitted[p] = {} /\ RateLimit[p] \in Nat
      BY <2>1, RateAssumption DEF Init, NoKey
    <3>2. QED
      BY <3>1, FS_EmptySet DEF Counts
  <2>2. QED
    BY <2>1, InitControl
<1>2. TypeOK /\ Control /\ Counts /\ [Next]_vars => (TypeOK /\ Control /\ Counts)'
  BY ControlStep, CountsStep
<1>3. Counts => WithinRate
  BY DEF Counts, WithinRate
<1>4. QED
  BY <1>1, <1>2, <1>3, PTL DEF Spec

-----------------------------------------------------------------------------
(* Limits and the pool.                                                    *)

AfterCheck == {"find_email", "insert_user", "ask_provider", "record_usage"}

\* The handlers that found room and may still insert, and those that have.
Passed(key) == {r \in Request : pc[r] \in AfterCheck /\ KeyOf(r) = key}
Inserted(key) == {row.by : row \in {u \in Counted(key) : u.by # None}}

Sizes ==
    /\ IsFiniteSet(users) /\ IsFiniteSet(usage)
    /\ Cardinality(InFlight) <= PoolSize
    /\ \A u \in usage : u.month <= month
    /\ \A r \in Request : pc[r] \in AfterCheck => limit[r] = None \/ limit[r] >= 1

\* If of those that passed just the handlers in X went on to insert, some
\* inserter's limit would explain the rows that there would be then.
Explained(key, X) ==
    \E r \in Inserted(key) \cup X :
        \/ limit[r] = None
        \/ Cardinality(Counted(key)) + Cardinality(X) < limit[r] + PoolSize

AllExplained(key) ==
    \A X \in SUBSET Passed(key) : Inserted(key) \cup X # {} => Explained(key, X)

Bounded == Sizes /\ \A key \in Key : AllExplained(key)

LEMMA CountedFinite ==
    ASSUME Sizes, NEW key
    PROVE  IsFiniteSet(Counted(key)) /\ Cardinality(Counted(key)) \in Nat
<1>1. {u \in usage : u.month = month} \subseteq usage
  OBVIOUS
<1>2. IsFiniteSet(Counted(key))
  BY <1>1, FS_Subset DEF Sizes, Counted
<1>3. QED
  BY <1>2, FS_CardinalityType

LEMMA PassedSmall ==
    ASSUME TypeOK, Sizes, NEW key, NEW X \in SUBSET Passed(key)
    PROVE  IsFiniteSet(X) /\ Cardinality(X) \in Nat /\ Cardinality(X) <= PoolSize
<1>1. X \subseteq InFlight /\ InFlight \subseteq Request
  BY DEF Passed, InFlight, AfterCheck
<1>2. IsFiniteSet(InFlight)
  BY <1>1, PoolAssumption, FS_Subset
<1>3. /\ IsFiniteSet(X) /\ Cardinality(X) <= Cardinality(InFlight)
      /\ Cardinality(X) \in Nat /\ Cardinality(InFlight) \in Nat
  BY <1>1, <1>2, FS_Subset, FS_CardinalityType
<1>4. QED
  BY <1>3, PoolAssumption DEF Sizes

\* Nothing that counts against the limit changes, and nobody newly passes.
LEMMA StillExplained ==
    ASSUME NEW key, AllExplained(key), Counted(key)' = Counted(key),
           Passed(key)' \subseteq Passed(key),
           \A q \in Inserted(key) \cup Passed(key) : limit'[q] = limit[q]
    PROVE  AllExplained(key)'
<1>1. Inserted(key)' = Inserted(key)
  BY DEF Inserted
<1>2. SUFFICES ASSUME NEW X \in SUBSET Passed(key)', Inserted(key) \cup X # {}
               PROVE  Explained(key, X)'
  BY <1>1 DEF AllExplained
<1>3. X \in SUBSET Passed(key)
  OBVIOUS
<1>4. PICK r \in Inserted(key) \cup X :
          \/ limit[r] = None
          \/ Cardinality(Counted(key)) + Cardinality(X) < limit[r] + PoolSize
  BY <1>2, <1>3 DEF AllExplained, Explained
<1>5. limit'[r] = limit[r]
  BY <1>3
<1>6. QED
  BY <1>1, <1>4, <1>5 DEF Explained

\* A handler finds room.
LEMMA PassingExplained ==
    ASSUME TypeOK, Sizes, Sizes', TypeOK', NEW key, AllExplained(key), NEW r \in Request,
           Counted(key)' = Counted(key), limit' = limit,
           Passed(key)' = Passed(key) \cup {r},
           limit[r] = None \/ Cardinality(Counted(key)) < limit[r]
    PROVE  AllExplained(key)'
<1>1. Inserted(key)' = Inserted(key)
  BY DEF Inserted
<1>2. SUFFICES ASSUME NEW X \in SUBSET Passed(key)', Inserted(key) \cup X # {}
               PROVE  Explained(key, X)'
  BY <1>1 DEF AllExplained
<1>3. CASE r \notin X
  <2>1. X \in SUBSET Passed(key)
    BY <1>3
  <2>2. QED
    BY <1>1, <1>2, <2>1 DEF AllExplained, Explained
<1>4. CASE r \in X
  <2>1. Cardinality(X) \in Nat /\ Cardinality(X) <= PoolSize
    <3>1. X \subseteq InFlight' /\ InFlight' \subseteq Request
      BY DEF Passed, InFlight, AfterCheck
    <3>2. IsFiniteSet(InFlight')
      BY <3>1, PoolAssumption, FS_Subset
    <3>3. /\ Cardinality(X) <= Cardinality(InFlight')
          /\ Cardinality(X) \in Nat /\ Cardinality(InFlight') \in Nat
      BY <3>1, <3>2, FS_Subset, FS_CardinalityType
    <3>4. QED
      BY <3>3, PoolAssumption DEF Sizes
  <2>2. Cardinality(Counted(key)) \in Nat /\ PoolSize \in Nat
    BY CountedFinite, PoolAssumption
  <2>3. limit[r] \in Nat \cup {None}
    BY DEF TypeOK
  <2>4. limit[r] = None \/ Cardinality(Counted(key)) + Cardinality(X) < limit[r] + PoolSize
    BY <2>1, <2>2, <2>3
  <2>5. QED
    BY <1>4, <2>4 DEF Explained
<1>5. QED
  BY <1>3, <1>4

\* A handler that had found room inserts its row.
LEMMA InsertingExplained ==
    ASSUME TypeOK, Sizes, NEW key, AllExplained(key), NEW r \in Passed(key), NEW row,
           row.by = r, Counted(key)' = Counted(key) \cup {row}, limit' = limit,
           Passed(key)' \subseteq Passed(key) \ {r}
    PROVE  AllExplained(key)'
<1>1. r # None
  BY PlanAssumption DEF Passed
<1>2. Inserted(key)' = Inserted(key) \cup {r}
  BY <1>1 DEF Inserted
<1>3. SUFFICES ASSUME NEW X \in SUBSET Passed(key)' PROVE Explained(key, X)'
  BY DEF AllExplained
<1>4. X \cup {r} \in SUBSET Passed(key) /\ r \notin X
  OBVIOUS
<1>5. PICK s \in Inserted(key) \cup (X \cup {r}) :
          \/ limit[s] = None
          \/ Cardinality(Counted(key)) + Cardinality(X \cup {r}) < limit[s] + PoolSize
  BY <1>4 DEF AllExplained, Explained
<1>6. s \in Request
  <2>1. Inserted(key) \subseteq Request
    BY DEF Inserted, Counted, TypeOK, User, Usage
  <2>2. QED
    BY <1>4, <1>5, <2>1 DEF Passed
<1>7. limit[s] \in Nat \cup {None} /\ PoolSize \in Nat
  BY <1>6, PoolAssumption DEF TypeOK
<1>8. /\ Cardinality(X) \in Nat /\ IsFiniteSet(X)
      /\ Cardinality(X \cup {r}) = Cardinality(X) + 1
  <2>1. X \in SUBSET Passed(key)
    BY <1>4
  <2>2. IsFiniteSet(X) /\ Cardinality(X) \in Nat
    BY <2>1, PassedSmall
  <2>3. QED
    BY <1>4, <2>2, FS_AddElement
<1>9. /\ Cardinality(Counted(key)) \in Nat /\ Cardinality(Counted(key)') \in Nat
      /\ Cardinality(Counted(key)') <= Cardinality(Counted(key)) + 1
  BY CountedFinite, FS_AddElement, FS_CardinalityType
<1>10. limit[s] = None \/ Cardinality(Counted(key)') + Cardinality(X) < limit[s] + PoolSize
  BY <1>5, <1>7, <1>8, <1>9
<1>11. QED
  BY <1>2, <1>5, <1>10 DEF Explained

LEMMA FewerInFlight ==
    ASSUME Sizes, InFlight' \subseteq InFlight PROVE Cardinality(InFlight') <= PoolSize
<1>1. IsFiniteSet(InFlight)
  BY PoolAssumption, FS_Subset DEF InFlight
<1>2. /\ Cardinality(InFlight') <= Cardinality(InFlight)
      /\ Cardinality(InFlight') \in Nat /\ Cardinality(InFlight) \in Nat
  BY <1>1, FS_Subset, FS_CardinalityType
<1>3. QED
  BY <1>2, PoolAssumption DEF Sizes

LEMMA GrownFinite ==
    ASSUME NEW S, IsFiniteSet(S), NEW T, T = S \/ \E x : T = S \cup {x}
    PROVE  IsFiniteSet(T)
<1>1. CASE T = S
  BY <1>1
<1>2. ASSUME NEW x, T = S \cup {x} PROVE IsFiniteSet(T)
  BY <1>2, FS_AddElement
<1>3. QED
  BY <1>1, <1>2

LEMMA ServeSizes ==
    ASSUME TypeOK, Control, Sizes, NEW r \in Request, Serve(r) PROVE Sizes'
<1>. USE DEF TypeOK
<1>1. CASE Begin(r) /\ UNCHANGED <<limiter, tenant, gateway>>
  <2>. USE <1>1 DEF Begin, tenant
  <2>1. Cardinality(InFlight') <= PoolSize
    <3>1. CASE Cardinality(InFlight) < PoolSize
      <4>1. InFlight' = InFlight \cup {r}
        BY <3>1 DEF InFlight
      <4>2. IsFiniteSet(InFlight)
        BY PoolAssumption, FS_Subset DEF InFlight
      <4>3. r \notin InFlight
        BY DEF InFlight
      <4>4. /\ Cardinality(InFlight) \in Nat
            /\ Cardinality(InFlight') = Cardinality(InFlight) + 1
        <5>1. Cardinality(InFlight \cup {r}) = Cardinality(InFlight) + 1
          BY <4>2, <4>3, FS_AddElement
        <5>2. QED
          BY <4>1, <4>2, <5>1, FS_CardinalityType
      <4>5. QED
        BY <3>1, <4>4, PoolAssumption
    <3>2. CASE ~(Cardinality(InFlight) < PoolSize)
      <4>1. InFlight' \subseteq InFlight
        BY <3>2 DEF InFlight
      <4>2. QED
        BY <4>1, FewerInFlight
    <3>3. QED
      BY <3>1, <3>2
  <2>2. QED
    BY <2>1 DEF Sizes, AfterCheck
<1>2. CASE pc[r] \notin {"idle", "done"} /\ \E next : pc' = [pc EXCEPT ![r] = next]
  <2>1. Cardinality(InFlight') <= PoolSize
    <3>1. InFlight' \subseteq InFlight
      BY <1>2 DEF InFlight
    <3>2. QED
      BY <3>1, FewerInFlight
  <2>2. IsFiniteSet(users') /\ IsFiniteSet(usage')
    <3>1. \/ users' = users
          \/ \E row : users' = users \cup {row}
      BY <1>2 DEF Serve, Begin, CountCall, SetExpiry, ReadLimit, CountUsed, FindEmail,
         InsertUser, AskProvider, RecordUsage, tenant
    <3>2. \/ usage' = usage
          \/ \E row : usage' = usage \cup {row}
      BY <1>2 DEF Serve, Begin, CountCall, SetExpiry, ReadLimit, CountUsed, FindEmail,
         InsertUser, AskProvider, RecordUsage, tenant
    <3>3. IsFiniteSet(users) /\ IsFiniteSet(usage)
      BY DEF Sizes
    <3>4. IsFiniteSet(users')
      BY <3>1, <3>3, GrownFinite
    <3>5. IsFiniteSet(usage')
      BY <3>2, <3>3, GrownFinite
    <3>6. QED
      BY <3>4, <3>5
  <2>3. \A u \in usage' : u.month <= month'
    <3>1. month' = month
      BY DEF Serve, Begin, CountCall, SetExpiry, ReadLimit, CountUsed, FindEmail,
         InsertUser, AskProvider, RecordUsage, tenant
    <3>2. \A u \in usage' : u \in usage \/ u.month = month
      BY DEF Serve, Begin, CountCall, SetExpiry, ReadLimit, CountUsed, FindEmail,
         InsertUser, AskProvider, RecordUsage, Record, tenant
    <3>3. QED
      BY <3>1, <3>2 DEF Sizes
  <2>4. \A q \in Request : pc'[q] \in AfterCheck => limit'[q] = None \/ limit'[q] >= 1
    <3>1. CASE ReadLimit(r)
      BY <3>1 DEF ReadLimit, Goto, Sizes, AfterCheck
    <3>2. CASE CountUsed(r)
      <4>1. limit' = limit /\ \A q \in Request \ {r} : pc'[q] = pc[q]
        BY <3>2 DEF CountUsed, Goto, Answer, tenant
      <4>2. pc'[r] \in AfterCheck => Within(r)
        BY <3>2 DEF CountUsed, Answer, AfterCheck
      <4>3. Within(r) => limit[r] = None \/ limit[r] >= 1
        <5>1. Cardinality(Counted(KeyOf(r))) \in Nat /\ limit[r] \in Nat \cup {None}
          BY CountedFinite
        <5>2. QED
          BY <5>1 DEF Within
      <4>4. QED
        BY <4>1, <4>2, <4>3 DEF Sizes
    <3>3. CASE limit' = limit /\ (pc'[r] \in AfterCheck => pc[r] \in AfterCheck)
      BY <1>2, <3>3 DEF Sizes
    <3>4. QED
      BY <1>2, <3>1, <3>2, <3>3 DEF Serve, Begin, CountCall, SetExpiry, FindEmail, InsertUser,
         AskProvider, Answered, GivenUp, RecordUsage, Goto, Answer, AfterCheck, handlers, tenant
  <2>5. QED
    BY <2>1, <2>2, <2>3, <2>4 DEF Sizes
<1>3. QED
  BY <1>1, <1>2 DEF Serve, CountCall, SetExpiry, ReadLimit, CountUsed, FindEmail, InsertUser,
     AskProvider, Answered, GivenUp, RecordUsage, Goto, Answer, handlers

\* A handler's step that leaves the tables and the limits that were read alone,
\* and by which nobody newly passes.
LEMMA QuietExplained ==
    ASSUME \A key \in Key : AllExplained(key), UNCHANGED <<users, usage, month, limit>>,
           \A q \in Request : pc'[q] \in AfterCheck =>
               pc[q] \in AfterCheck /\ call'[q] = call[q]
    PROVE  \A key \in Key : AllExplained(key)'
<1>. SUFFICES ASSUME NEW key \in Key PROVE AllExplained(key)'
  OBVIOUS
<1>1. Counted(key)' = Counted(key)
  BY DEF Counted
<1>2. Passed(key)' \subseteq Passed(key)
  BY DEF Passed, KeyOf
<1>3. QED
  BY <1>1, <1>2, StillExplained

\* A row that r inserts, which had passed the check of its key.
LEMMA InsertedExplained ==
    ASSUME TypeOK, Sizes, \A key \in Key : AllExplained(key),
           NEW r \in Request, NEW row, row.by = r, pc[r] \in AfterCheck, pc'[r] = "done",
           \A q \in Request \ {r} : pc'[q] = pc[q],
           call' = call, limit' = limit,
           \A key \in Key : Counted(key)' = IF key = KeyOf(r) THEN Counted(key) \cup {row}
                                           ELSE Counted(key)
    PROVE  \A key \in Key : AllExplained(key)'
<1>. SUFFICES ASSUME NEW key \in Key PROVE AllExplained(key)'
  OBVIOUS
<1>1. Passed(key)' \subseteq Passed(key) \ {r}
  BY DEF Passed, KeyOf, AfterCheck
<1>2. CASE key = KeyOf(r)
  <2>1. r \in Passed(key)
    BY <1>2 DEF Passed
  <2>2. Counted(key)' = Counted(key) \cup {row}
    BY <1>2
  <2>3. QED
    BY <1>1, <2>1, <2>2, InsertingExplained
<1>3. CASE key # KeyOf(r)
  <2>1. Counted(key)' = Counted(key)
    BY <1>3
  <2>2. QED
    BY <1>1, <2>1, StillExplained
<1>4. QED
  BY <1>2, <1>3

LEMMA ServeBounded ==
    ASSUME TypeOK, TypeOK', Control, Bounded, Sizes', NEW r \in Request, Serve(r)
    PROVE  \A key \in Key : AllExplained(key)'
<1>. USE DEF Bounded
<1>1. CASE UNCHANGED <<users, usage, month, limit>>
           /\ \A q \in Request : pc'[q] \in AfterCheck =>
                  pc[q] \in AfterCheck /\ call'[q] = call[q]
  BY <1>1, QuietExplained
<1>2. CASE ReadLimit(r) /\ UNCHANGED gateway
  <2>. SUFFICES ASSUME NEW key \in Key PROVE AllExplained(key)'
    OBVIOUS
  <2>1. Counted(key)' = Counted(key)
    BY <1>2 DEF ReadLimit, Counted
  <2>2. Passed(key)' \subseteq Passed(key)
    BY <1>2 DEF ReadLimit, Goto, Passed, KeyOf, AfterCheck, TypeOK
  <2>3. r \notin Inserted(key) /\ r \notin Passed(key)
    <3>1. RowsOf(r) = {}
      BY <1>2 DEF Control, Holds, ReadLimit
    <3>2. QED
      BY <1>2, <3>1 DEF RowsOf, Inserted, Counted, Passed, ReadLimit, AfterCheck
  <2>4. Inserted(key) \cup Passed(key) \subseteq Request
    BY PlanAssumption DEF TypeOK, Inserted, Counted, Passed, User, Usage
  <2>5. \A q \in Inserted(key) \cup Passed(key) : limit'[q] = limit[q]
    BY <1>2, <2>3, <2>4 DEF ReadLimit, TypeOK
  <2>6. QED
    BY <2>1, <2>2, <2>5, StillExplained
<1>3. CASE CountUsed(r) /\ Within(r)
  <2>. SUFFICES ASSUME NEW key \in Key PROVE AllExplained(key)'
    OBVIOUS
  <2>1. /\ Counted(key)' = Counted(key) /\ limit' = limit /\ call' = call
        /\ pc' = [pc EXCEPT ![r] = IF call[r].op = Enrol THEN "find_email" ELSE "ask_provider"]
    BY <1>3 DEF CountUsed, Goto, tenant, Counted
  <2>2. CASE key = KeyOf(r)
    <3>1. Passed(key)' = Passed(key) \cup {r}
      BY <2>1, <2>2 DEF Passed, KeyOf, AfterCheck, TypeOK
    <3>2. limit[r] = None \/ Cardinality(Counted(key)) < limit[r]
      BY <1>3, <2>2 DEF Within
    <3>3. QED
      BY <2>1, <3>1, <3>2, PassingExplained
  <2>3. CASE key # KeyOf(r)
    <3>1. Passed(key)' \subseteq Passed(key)
      BY <2>1, <2>3 DEF Passed, KeyOf, TypeOK
    <3>2. QED
      BY <2>1, <3>1, StillExplained
  <2>4. QED
    BY <2>2, <2>3
<1>4. CASE InsertUser(r) /\ users' # users
  <2>1. PICK row : row = [email |-> call[r].email, by |-> r]
    OBVIOUS
  <2>2. /\ users' = users \cup {row} /\ row.by = r
        /\ UNCHANGED <<usage, month, limit, call>>
        /\ pc[r] = "insert_user" /\ pc'[r] = "done"
        /\ \A q \in Request \ {r} : pc'[q] = pc[q]
    BY <1>4, <2>1 DEF InsertUser, Answer, TypeOK
  <2>3. KeyOf(r) = "max_tenant_users"
    BY <2>2 DEF Control, Holds, KeyOf
  <2>4. \A key \in Key : Counted(key)' = IF key = KeyOf(r) THEN Counted(key) \cup {row}
                                       ELSE Counted(key)
    BY <2>2, <2>3 DEF Counted, Key
  <2>5. QED
    BY <2>2, <2>4, InsertedExplained DEF AfterCheck
<1>5. CASE RecordUsage(r)
  <2>1. PICK row : row = Record(r, asked[r])
    OBVIOUS
  <2>2. /\ usage' = usage \cup {row} /\ row.by = r /\ row.month = month
        /\ UNCHANGED <<users, month, limit, call>>
        /\ pc[r] = "record_usage" /\ pc'[r] = "done"
        /\ \A q \in Request \ {r} : pc'[q] = pc[q]
    BY <1>5, <2>1 DEF RecordUsage, Record, Answer, TypeOK
  <2>3. KeyOf(r) = "ai_explanations_monthly_limit"
    BY <2>2 DEF Control, Holds, KeyOf, Enrol, Explain
  <2>4. \A key \in Key : Counted(key)' = IF key = KeyOf(r) THEN Counted(key) \cup {row}
                                       ELSE Counted(key)
    BY <2>2, <2>3 DEF Counted, Key
  <2>5. QED
    BY <2>2, <2>4, InsertedExplained DEF AfterCheck
<1>6. QED
  BY <1>1, <1>2, <1>3, <1>4, <1>5
     DEF Serve, Begin, CountCall, SetExpiry, CountUsed, FindEmail, InsertUser, AskProvider,
     Answered, GivenUp, Goto, Answer, handlers, tenant, AfterCheck, TypeOK

LEMMA BoundedStep ==
    ASSUME TypeOK, TypeOK', Control, Bounded, [Next]_vars PROVE Bounded'
<1>. USE DEF Bounded
<1>1. ASSUME NEW r \in Request, Serve(r) PROVE Bounded'
  <2>1. Sizes'
    BY <1>1, ServeSizes
  <2>2. QED
    BY <1>1, <2>1, ServeBounded
<1>2. CASE UNCHANGED <<handlers, users, usage, month, limit>>
  <2>1. Sizes'
    BY <1>2 DEF Sizes, InFlight, handlers
  <2>2. QED
    BY <1>2, <2>1, QuietExplained DEF handlers
<1>3. CASE NewMonth
  <2>. USE <1>3 DEF NewMonth, handlers
  <2>1. Sizes'
    BY DEF Sizes, InFlight, TypeOK, Usage
  <2>2. ASSUME NEW key \in Key PROVE AllExplained(key)'
    <3>1. Passed(key)' = Passed(key)
      BY DEF Passed, KeyOf
    <3>2. CASE key = "max_tenant_users"
      <4>1. Counted(key)' = Counted(key)
        BY <3>2 DEF Counted
      <4>2. QED
        BY <3>1, <4>1, StillExplained
    <3>3. CASE key # "max_tenant_users"
      <4>1. Counted(key)' = {}
        <5>1. \A u \in usage : u.month \in Nat /\ u.month <= month /\ month \in Nat
          BY DEF Sizes, TypeOK, Usage
        <5>2. QED
          BY <3>3, <5>1 DEF Counted
      <4>2. Inserted(key)' = {}
        BY <4>1 DEF Inserted
      <4>3. SUFFICES ASSUME NEW X \in SUBSET Passed(key), X # {} PROVE Explained(key, X)'
        BY <3>1, <4>2 DEF AllExplained
      <4>4. PICK r \in X : TRUE
        BY <4>3
      <4>5. /\ limit[r] = None \/ limit[r] >= 1
            /\ limit[r] \in Nat \cup {None}
        BY <4>4 DEF Sizes, Passed, TypeOK
      <4>6. Cardinality(X) \in Nat /\ Cardinality(X) <= PoolSize /\ PoolSize \in Nat
        BY PassedSmall, PoolAssumption
      <4>7. Cardinality(Counted(key)') = 0
        BY <4>1, FS_EmptySet
      <4>8. limit[r] = None \/ Cardinality(Counted(key)') + Cardinality(X) < limit[r] + PoolSize
        BY <4>5, <4>6, <4>7
      <4>9. QED
        BY <4>4, <4>8 DEF Explained
    <3>4. QED
      BY <3>2, <3>3
  <2>3. QED
    BY <2>1, <2>2
<1>4. QED
  BY <1>1, <1>2, <1>3 DEF Next, vars, WindowEnds, SwitchTenantPlan, handlers, tenant

LEMMA InitBounded == Init => Bounded
<1>. SUFFICES ASSUME Init PROVE Bounded
  OBVIOUS
<1>. USE DEF Init
<1>1. InFlight = {}
  BY DEF InFlight
<1>2. IsFiniteSet(users)
  <2>1. \A u \in users : u.email \in Seed
    OBVIOUS
  <2>. DEFINE account == [e \in Seed |-> [email |-> e, by |-> None]]
  <2>2. account \in Surjection(Seed, users)
    BY DEF Surjection
  <2>3. QED
    BY <2>2, PlanAssumption, FS_Surjection
<1>3. Sizes
  BY <1>1, <1>2, FS_EmptySet, PoolAssumption DEF Sizes, AfterCheck
<1>4. ASSUME NEW key \in Key PROVE AllExplained(key)
  <2>1. Passed(key) = {}
    BY DEF Passed, AfterCheck
  <2>2. Inserted(key) = {}
    BY DEF Inserted, Counted
  <2>3. QED
    BY <2>1, <2>2 DEF AllExplained
<1>5. QED
  BY <1>3, <1>4 DEF Bounded

\* However many requests there are, a limit of a plan is exceeded by less than
\* the pool's size, whatever plans are switched and months begin in between.
THEOREM LimitsHold == Spec => []OvershootBounded
<1>1. Init => TypeOK /\ Control /\ Bounded
  BY InitControl, InitBounded
<1>2. TypeOK /\ Control /\ Bounded /\ [Next]_vars => (TypeOK /\ Control /\ Bounded)'
  BY ControlStep, BoundedStep
<1>3. TypeOK /\ Bounded => OvershootBounded
  <2>. SUFFICES ASSUME TypeOK, Bounded, NEW key \in Key,
                       {row \in Counted(key) : row.by # None} # {}
                PROVE  \E row \in {u \in Counted(key) : u.by # None} :
                           \/ limit[row.by] = None
                           \/ Cardinality(Counted(key)) < limit[row.by] + PoolSize
    BY DEF OvershootBounded
  <2>1. Inserted(key) # {}
    BY DEF Inserted
  <2>2. PICK r \in Inserted(key) \cup {} :
            \/ limit[r] = None
            \/ Cardinality(Counted(key)) + Cardinality({}) < limit[r] + PoolSize
    <3>1. {} \in SUBSET Passed(key)
      OBVIOUS
    <3>2. QED
      BY <2>1, <3>1 DEF Bounded, AllExplained, Explained
  <2>3. PICK row \in Counted(key) : row.by # None /\ row.by = r
    BY <2>2 DEF Inserted
  <2>4. Cardinality(Counted(key)) \in Nat /\ Cardinality({}) = 0
    BY CountedFinite, FS_EmptySet DEF Bounded
  <2>5. QED
    BY <2>2, <2>3, <2>4
<1>4. QED
  BY <1>1, <1>2, <1>3, PTL DEF Spec

=============================================================================
