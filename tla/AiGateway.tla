----------------------------- MODULE AiGateway ------------------------------
(***************************************************************************)
(* ai/gateway.py, ai/router.py and ai/providers: one AI call.  Providers   *)
(* are asked in order until one answers; the answer is validated, and how  *)
(* the call ended is recorded and committed before the handler returns or  *)
(* raises.  The attempts that a provider makes before it gives up are one  *)
(* step: they have no effect but the time they take.                       *)
(***************************************************************************)
EXTENDS Entitlements

CONSTANTS
    ProviderName,
    Provider,     \* a sequence of them: the primary one, then the fallbacks
    Unchecked     \* those that assume that a JSON body is an object

ASSUME ProviderAssumption == /\ Provider \in Seq(ProviderName)
                             /\ Provider # <<>>

VARIABLES
    asked,        \* the provider that each handler is asking, by position
    verdict       \* what came of the call: how the handler will answer

gateway == <<asked, verdict>>

\* How generate ends, once the record is written: with output that is valid and
\* safe, without output, or with output that is refused.
Ending == {"ok", "provider_failed", "bad_output"}

Usage == [by: Request, provider: ProviderName, success: BOOLEAN, month: Nat]

\* Validation of the schema, then of the safety of its text.
Answered(r) ==
    /\ \E v \in {"ok", "bad_output"} : verdict' = [verdict EXCEPT ![r] = v]
    /\ Goto(r, "record_usage")
    /\ UNCHANGED asked

\* Mutant: the providers are asked round after round.
GivenUpNever(r) ==
    /\ asked' = [asked EXCEPT ![r] = @ + 1]
    /\ UNCHANGED <<verdict, handlers>>

\* A ProviderError: the next provider is asked, if there is one.
GivenUp(r) ==
    IF asked[r] < Len(Provider)
    THEN /\ asked' = [asked EXCEPT ![r] = @ + 1]
         /\ UNCHANGED <<verdict, handlers>>
    ELSE /\ verdict' = [verdict EXCEPT ![r] = "provider_failed"]
         /\ Goto(r, "record_usage")
         /\ UNCHANGED asked

\* One provider: its text, a ProviderError once no attempt is left or for a
\* body without the expected fields, or the TypeError of a body that is no object.
AskProvider(r) ==
    /\ pc[r] = "ask_provider"
    /\ \/ Answered(r)
       \/ GivenUp(r)
       \/ /\ Provider[asked[r]] \in Unchecked
          /\ Answer(r, "error")
          /\ UNCHANGED gateway
    /\ UNCHANGED <<tenant, limiter>>

Record(r, i) == [by |-> r, provider |-> Provider[i], success |-> verdict[r] = "ok",
                 month |-> month]

\* Mutant: the record names the primary provider, whoever answered.
RecordPrimary(r) ==
    /\ pc[r] = "record_usage"
    /\ usage' = usage \cup {Record(r, 1)}
    /\ \E how \in Committed(verdict[r]) : Answer(r, how)
    /\ UNCHANGED <<plan, users, month, limit, limiter, gateway>>

\* _record_usage: the insert and its commit.
RecordUsage(r) ==
    /\ pc[r] = "record_usage"
    /\ usage' = usage \cup {Record(r, asked[r])}
    /\ \E how \in Committed(verdict[r]) : Answer(r, how)
    /\ UNCHANGED <<plan, users, month, limit, limiter, gateway>>

=============================================================================
