----------------------------- MODULE MCMetering -----------------------------
(***************************************************************************)
(* Small instances of Metering.                                            *)
(***************************************************************************)
EXTENDS Metering, TLC

CONSTANTS r1, r2, r3, free, school, ann, bob, cyd, ollama, fallback

EnrolCalls == [op: {Enrol}, email: {bob, cyd}]
ExplainCalls == [op: {Explain}]

AllCalls == EnrolCalls \cup ExplainCalls

\* One account more on either plan; AI calls are unlimited on the second one.
MCLimit == free :> [k \in Key |-> IF k = "max_tenant_users" THEN 2 ELSE 1]
           @@ school :> [k \in Key |-> IF k = "max_tenant_users" THEN 2 ELSE None]

MCRateLimit == [p \in Prefix |-> IF p = Enrol THEN 2 ELSE 1]

MCPrefix == {Enrol, Explain}

ExplainPrefix == {Explain}

MCProvider == <<ollama, fallback>>

Symmetry == Permutations(Request) \cup Permutations(Email \ Seed)

=============================================================================
