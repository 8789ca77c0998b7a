------------------------------ MODULE MCViews -------------------------------
(***************************************************************************)
(* A small instance of Views: one learner, who fails four attempts at one  *)
(* question and gets two at others right, in either order.  With these, a  *)
(* wrong estimate is confident, and a teacher is asked to intervene while  *)
(* old failures meet fresh success.                                        *)
(***************************************************************************)
EXTENDS Views, TLC

CONSTANTS ann, k1, q1, q2, q3, many, failed

MCRight == many :> 2 @@ failed :> 0
MCWrong == many :> 0 @@ failed :> 4
MCTakenBy == many :> <<ann, k1>> @@ failed :> <<ann, k1>>
MCAsked == many :> {q2, q3} @@ failed :> {q1}
MCFacetOf == [q \in Question |-> "application"]
MCDifficulty == q1 :> 2 @@ q2 :> 1 @@ q3 :> 0
MCOldQuestions == <<q1, q2>>

\* Live and shadow decisions, none of them of a minor.
MCMode == [minor: {FALSE}, shadow: BOOLEAN]

=============================================================================
