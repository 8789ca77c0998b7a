------------------------------- MODULE Domain -------------------------------
(***************************************************************************)
(* The vocabulary that the services of apps/api share.                     *)
(***************************************************************************)

\* A skill is known in five independent ways.
Facet == {"recognition", "recall", "application", "transfer", "retention"}

\* How much evidence a posterior rests on.
Label == {"insufficient_evidence", "low_confidence", "high_confidence"}

=============================================================================
