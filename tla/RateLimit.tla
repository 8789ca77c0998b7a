----------------------------- MODULE RateLimit ------------------------------
(***************************************************************************)
(* enforce_rate_limit of api/deps.py: a counter per operation and user in  *)
(* Redis.  The first call of a window sets its time to live.  Redis may    *)
(* fail at each command, before or after executing it; the caller is then  *)
(* let through.                                                            *)
(***************************************************************************)
EXTENDS Connections

CONSTANTS
    Prefix,       \* operations that are counted apart
    RateLimit,    \* calls per window
    RedisFails    \* whether commands may fail

ASSUME RateAssumption == /\ RateLimit \in [Prefix -> Nat \ {0}]
                         /\ RedisFails \in BOOLEAN
                         /\ \A c \in Call : c.op \in Prefix

VARIABLES
    counter,      \* the key of each operation: [n, ttl]; n = 0 if absent
    admitted      \* the calls that the present window's counts let through

limiter == <<counter, admitted>>

Counter == [n: Nat, ttl: BOOLEAN]

NoKey == [n |-> 0, ttl |-> FALSE]

\* INCR creates the key without a time to live.
Incremented(p) == [counter EXCEPT ![p].n = @ + 1]

Expiring(p) == [counter EXCEPT ![p].ttl = TRUE]

\* Mutant: the comparison is off by one.
AdmitsOneMore(p, n) == n <= RateLimit[p] + 1

Admits(p, n) == n <= RateLimit[p]

CountCall(r) ==
    LET p == call[r].op
        n == counter[p].n + 1 IN
    /\ pc[r] = "count_call"
    /\ \/ /\ counter' = Incremented(p)
          /\ IF n > 1 /\ ~Admits(p, n)
             THEN Answer(r, "rate_limited") /\ UNCHANGED admitted
             ELSE /\ admitted' = [admitted EXCEPT ![p] = @ \cup {r}]
                  /\ Goto(r, IF n = 1 THEN "set_expiry" ELSE "read_limit")
       \/ /\ RedisFails
          /\ counter' \in {counter, Incremented(p)}
          /\ Goto(r, "read_limit")
          /\ UNCHANGED admitted

SetExpiry(r) ==
    LET p == call[r].op IN
    /\ pc[r] = "set_expiry"
    /\ \/ counter' = Expiring(p)
       \/ RedisFails /\ counter' \in {counter, Expiring(p)}
    /\ Goto(r, "read_limit")
    /\ UNCHANGED admitted

WindowEnds(p) ==
    /\ counter[p].ttl
    /\ counter' = [counter EXCEPT ![p] = NoKey]
    /\ admitted' = [admitted EXCEPT ![p] = {}]
    /\ UNCHANGED handlers

=============================================================================
