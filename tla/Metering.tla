------------------------------ MODULE Metering ------------------------------
(***************************************************************************)
(* POST /auth/tenant/users, POST /ai/explanations and PUT /plans/tenant of *)
(* one tenant, called concurrently by one administrator: rate limit, plan  *)
(* limit, and the row that is counted.                                     *)
(***************************************************************************)
EXTENDS AiGateway

vars == <<handlers, limiter, tenant, gateway>>

Init ==
    /\ pc = [r \in Request |-> "idle"]
    /\ call \in [Request -> {None}]
    /\ outcome = [r \in Request |-> None]
    /\ counter = [p \in Prefix |-> NoKey]
    /\ admitted = [p \in Prefix |-> {}]
    /\ plan \in Plan \cup {None}
    /\ users = {[email |-> e, by |-> None] : e \in Seed}
    /\ usage = {} /\ month = 0
    /\ limit = [r \in Request |-> None]
    /\ asked = [r \in Request |-> 1]
    /\ verdict = [r \in Request |-> None]

Serve(r) ==
    \/ Begin(r) /\ UNCHANGED <<limiter, tenant, gateway>>
    \/ (CountCall(r) \/ SetExpiry(r)) /\ UNCHANGED <<tenant, gateway>>
    \/ (ReadLimit(r) \/ CountUsed(r) \/ FindEmail(r) \/ InsertUser(r))
       /\ UNCHANGED gateway
    \/ AskProvider(r)
    \/ RecordUsage(r)

Next ==
    \/ \E r \in Request : Serve(r)
    \/ \E p \in Prefix : WindowEnds(p) /\ UNCHANGED <<tenant, gateway>>
    \/ \E p \in Plan : SwitchTenantPlan(p) /\ UNCHANGED gateway
    \/ NewMonth /\ UNCHANGED gateway

Spec == Init /\ [][Next]_vars

FairSpec ==
    /\ Spec
    /\ \A r \in Request : WF_vars(Serve(r) /\ r \in InFlight)
    /\ \A p \in Prefix : WF_vars(WindowEnds(p) /\ UNCHANGED <<tenant, gateway>>)

-----------------------------------------------------------------------------
Statement == {"idle", "count_call", "set_expiry", "read_limit", "count_used",
              "find_email", "insert_user", "ask_provider", "record_usage", "done"}

Outcome == Ending \cup {"rate_limited", "quota_exceeded", "email_taken", "error", "lost"}

TypeOK ==
    /\ pc \in [Request -> Statement]
    /\ call \in [Request -> Call \cup {None}]
    /\ outcome \in [Request -> Outcome \cup {None}]
    /\ counter \in [Prefix -> Counter]
    /\ admitted \in [Prefix -> SUBSET Request]
    /\ plan \in Plan \cup {None}
    /\ users \subseteq User /\ usage \subseteq Usage /\ month \in Nat
    /\ limit \in [Request -> Nat \cup {None}]
    /\ asked \in [Request -> 1..Len(Provider)]
    /\ verdict \in [Request -> Ending \cup {None}]

\* Concurrent requests may exceed a limit that each of them found room under,
\* but by no more than the pool's connections less one: there is a row whose
\* inserter read a limit that explains all the rows there are, however plans are
\* switched and months begin meanwhile.
OvershootBounded ==
    \A key \in Key :
        LET inserted == {row \in Counted(key) : row.by # None} IN
        inserted # {} =>
            \E row \in inserted :
                \/ limit[row.by] = None
                \/ Cardinality(Counted(key)) < limit[row.by] + PoolSize

\* The rows that a request has left, and those that it leaves if it succeeds or
\* fails for a reason worth recording.
OwnRows(r) ==
    [accounts |-> {u.email : u \in {v \in users : v.by = r}},
     records |-> {[provider |-> u.provider, success |-> u.success] :
                    u \in {v \in usage : v.by = r}}]

NoRows == [accounts |-> {}, records |-> {}]

DueRows(r) ==
    IF call[r].op = Enrol THEN [NoRows EXCEPT !.accounts = {call[r].email}]
    ELSE [NoRows EXCEPT !.records = {[provider |-> Provider[asked[r]],
                                      success |-> verdict[r] = "ok"]}]

\* An account exists just if its creator was told so, and an AI call that was
\* answered, validated and refused, or given up by all providers has left one
\* record, of the provider that it ended with and saying how.  A caller whose
\* answer is lost finds the row there.  A call that an error of its provider other
\* than a ProviderError cuts short leaves none; see UsageAlwaysRecorded.
AnswersMatchRows ==
    \A r \in Request : pc[r] = "done" =>
        OwnRows(r) = IF outcome[r] \in Ending \cup {"lost"} THEN DueRows(r) ELSE NoRows

\* Of the calls that the counter counted in one window, no more than the limit
\* were let through, whichever of them set its time to live and whenever.
WithinRate == \A p \in Prefix : Cardinality(admitted[p]) <= RateLimit[p]

-----------------------------------------------------------------------------
(* What the documentation says and the code does not do; see the README.   *)

\* enforce_rate_limit is a "fixed-window limiter": who exceeds the limit is let
\* in again when the window ends.
WindowAlwaysEnds ==
    \A p \in Prefix : counter[p].n > RateLimit[p] ~> counter[p].n = 0

\* ADR-015, section 5: every AIGateway.generate() call writes exactly one
\* AIUsageRecord, success or failure.  A call that ends has left its record.
UsageAlwaysRecorded ==
    [][\A r \in Request :
         /\ pc[r] \in {"ask_provider", "record_usage"}
         /\ pc'[r] = "done"
         => Cardinality({u \in usage' : u.by = r}) = 1]_<<pc, usage>>

=============================================================================
