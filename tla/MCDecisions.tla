---------------------------- MODULE MCDecisions -----------------------------
(***************************************************************************)
(* Small instances of Decisions.  A piece of evidence stands for a series  *)
(* of graded attempts between which nobody looks at the knowledge state.   *)
(***************************************************************************)
EXTENDS Decisions, FiniteSetsExt, TLC

CONSTANTS r1, r2, few, many, failed, recognised, forgotten, transferred, retained

\* Series on the application facet: 2 and 21 correct attempts, which together
\* bring it from low confidence to 0.96, and 8 failed ones.
OnApplication == few :> 2 @@ many :> 21 @@ failed :> 0

MCFacetOf ==
    [e \in Evidence |-> IF e \in DOMAIN OnApplication THEN "application"
                        ELSE IF e = recognised THEN "recognition"
                        ELSE IF e = forgotten THEN "recall"
                        ELSE IF e = transferred THEN "transfer"
                        ELSE "retention"]

Correct(e) == IF e \in DOMAIN OnApplication THEN OnApplication[e]
              ELSE IF e = forgotten THEN 0 ELSE 23
Failed(e) == IF e \in {failed, forgotten} THEN 8 ELSE 0

MCEstimate ==
    [rows \in SUBSET Evidence |->
        LET right == MapThenSumSet(Correct, rows)
            all == right + MapThenSumSet(Failed, rows) IN
        [p |-> (Grain * (1 + right)) \div (2 + all),
         label |-> IF all < 1 THEN "insufficient_evidence"
                   ELSE IF all < 4 THEN "low_confidence"
                   ELSE "high_confidence"]]

Symmetry == Permutations(Request)

=============================================================================
