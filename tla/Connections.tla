---------------------------- MODULE Connections -----------------------------
(***************************************************************************)
(* The requests that the metered services answer.  Each holds a connection *)
(* of the engine's pool from its first query, which authenticates the      *)
(* caller, to its answer: neither enrolling a user nor explaining a skill  *)
(* ends its transaction before, not even while an AI provider is asked.    *)
(***************************************************************************)
EXTENDS Integers, FiniteSets, Sequences

CONSTANTS
    Request,      \* the calls that are ever made
    Call,         \* what may be called, with arguments
    PoolSize,     \* connections of the engine, overflow included
    None          \* SQL NULL, an attribute that is not there

ASSUME PoolAssumption == /\ IsFiniteSet(Request)
                         /\ PoolSize \in Nat \ {0}

VARIABLES
    pc,           \* the statement that each handler runs next
    call,         \* what was called
    outcome       \* how the call ended

handlers == <<pc, call, outcome>>

Goto(r, next) == /\ pc' = [pc EXCEPT ![r] = next]
                 /\ UNCHANGED <<call, outcome>>

Answer(r, how) == /\ pc' = [pc EXCEPT ![r] = "done"]
                  /\ outcome' = [outcome EXCEPT ![r] = how]
                  /\ UNCHANGED call

InFlight == {r \in Request : pc[r] \notin {"idle", "done"}}

\* The handler gets a connection, or gives up waiting for one.
Begin(r) ==
    /\ pc[r] = "idle"
    /\ \E c \in Call : call' = [call EXCEPT ![r] = c]
    /\ IF Cardinality(InFlight) < PoolSize
       THEN pc' = [pc EXCEPT ![r] = "count_call"] /\ UNCHANGED outcome
       ELSE /\ pc' = [pc EXCEPT ![r] = "done"]
            /\ outcome' = [outcome EXCEPT ![r] = "error"]

\* How a call ends that has committed.  The handler then rereads what it has
\* committed, for which it needs a connection again: it may find none, or the
\* process may stop, and the caller does not learn what became of the call.
\* (A process that stops earlier has done less than one whose caller is told.)
Committed(how) == {how, "lost"}

=============================================================================
