---------------------------- MODULE OneTimeToken ----------------------------
(***************************************************************************)
(* What can be promised of a token that is checked in one statement and    *)
(* marked as used in a later one, without a lock between the two.  Several *)
(* holders may act on one token, but only holders that had checked it      *)
(* before it was used: from then on nobody joins them.                     *)
(***************************************************************************)
CONSTANTS Token, Holder

VARIABLES
    checked,    \* pairs of a holder that found a token unused, and the token
    acted,      \* pairs of a holder that has acted on a token, and the token
    used        \* the tokens that are used, or withdrawn

vars == <<checked, acted, used>>

Init == checked = {} /\ acted = {} /\ used = {}

Check(h, t) ==
    /\ t \notin used
    /\ checked' = checked \cup {<<h, t>>}
    /\ UNCHANGED <<acted, used>>

Act(h, t) ==
    /\ <<h, t>> \in checked
    /\ used' = used \cup {t}
    /\ checked' = checked \ {<<h, t>>}
    /\ acted' = acted \cup {<<h, t>>}

\* Tokens become useless in other ways: a logout, a password reset.
Withdraw ==
    /\ used \subseteq used' /\ used' \subseteq Token
    /\ UNCHANGED <<checked, acted>>

Next ==
    \/ Withdraw
    \/ \E h \in Holder, t \in Token : Check(h, t) \/ Act(h, t)

Spec == Init /\ [][Next]_vars

=============================================================================
