---------------------------- MODULE Entitlements ----------------------------
(***************************************************************************)
(* services/entitlement_service.py, and create_tenant_user of              *)
(* services/auth_service.py: one tenant, whose plan limits its accounts    *)
(* and the AI calls of a month.  A limit is checked before the row that    *)
(* counts against it is inserted, in a statement of its own.               *)
(*                                                                         *)
(* Roles are checked before; audit rows, which the same transactions       *)
(* insert, are left out.                                                   *)
(***************************************************************************)
EXTENDS RateLimit

CONSTANTS
    Plan,         \* the plans a tenant may switch to
    DefaultPlan,  \* the one with the slug "free"
    Limit,        \* what a plan entitles to; None is unlimited
    Email,
    Seed,         \* the addresses of the accounts that were there before
    Months        \* bound: months that a behaviour looks at

Enrol == "enrol"
Explain == "explain"

\* EntitlementKey
Key == {"max_tenant_users", "ai_explanations_monthly_limit"}

ASSUME PlanAssumption == /\ IsFiniteSet(Plan)
                         /\ DefaultPlan \in Plan
                         /\ Limit \in [Plan -> [Key -> Nat \cup {None}]]
                         /\ None \notin Nat \cup Plan \cup Request
                         /\ IsFiniteSet(Seed) /\ Seed \subseteq Email

ASSUME CallAssumption ==
    \A c \in Call : c.op = Explain \/ (c.op = Enrol /\ c.email \in Email)

VARIABLES
    plan,         \* the tenant's plan_id
    users,        \* the tenant's accounts
    usage,        \* the AIUsageRecord rows
    month,        \* the calendar month
    limit         \* the limit that each handler has read

tenant == <<plan, users, usage, month, limit>>

User == [email: Email, by: Request \cup {None}]

KeyOf(r) == IF call[r].op = Enrol THEN "max_tenant_users"
            ELSE "ai_explanations_monthly_limit"

\* The tenant's plan and then its entitlement, which only operators change.
ReadLimit(r) ==
    LET current == IF plan = None THEN DefaultPlan ELSE plan IN
    /\ pc[r] = "read_limit"
    /\ limit' = [limit EXCEPT ![r] = Limit[current][KeyOf(r)]]
    /\ Goto(r, "count_used")
    /\ UNCHANGED <<plan, users, usage, month, limiter>>

\* What counts against a limit.
Counted(key) == IF key = "max_tenant_users" THEN users
                ELSE {u \in usage : u.month = month}

\* Mutant: the check passes at the limit.
WithinInclusive(r) == limit[r] = None \/ Cardinality(Counted(KeyOf(r))) <= limit[r]

Within(r) == limit[r] = None \/ Cardinality(Counted(KeyOf(r))) < limit[r]

CountUsed(r) ==
    /\ pc[r] = "count_used"
    /\ IF Within(r)
       THEN Goto(r, IF call[r].op = Enrol THEN "find_email" ELSE "ask_provider")
       ELSE Answer(r, "quota_exceeded")
    /\ UNCHANGED <<tenant, limiter>>

-----------------------------------------------------------------------------
FindEmail(r) ==
    /\ pc[r] = "find_email"
    /\ IF \E u \in users : u.email = call[r].email
       THEN Answer(r, "email_taken")
       ELSE Goto(r, "insert_user")
    /\ UNCHANGED <<tenant, limiter>>

\* The insert and its commit; the address is unique.
InsertUser(r) ==
    /\ pc[r] = "insert_user"
    /\ IF \E u \in users : u.email = call[r].email
       THEN Answer(r, "error") /\ UNCHANGED users
       ELSE /\ users' = users \cup {[email |-> call[r].email, by |-> r]}
            /\ \E how \in Committed("ok") : Answer(r, how)
    /\ UNCHANGED <<plan, usage, month, limit, limiter>>

\* switch_tenant_plan, in either direction.
SwitchTenantPlan(p) ==
    /\ plan # p
    /\ plan' = p
    /\ UNCHANGED <<users, usage, month, limit, limiter, handlers>>

NewMonth ==
    /\ month < Months
    /\ month' = month + 1
    /\ UNCHANGED <<plan, users, usage, limit, limiter, handlers>>

=============================================================================
