----------------------------- MODULE MCSessions -----------------------------
(***************************************************************************)
(* Small instances of Sessions: the account ann has a session in the       *)
(* browser and another one elsewhere, and a reset token; bob has none.     *)
(***************************************************************************)
EXTENDS Sessions, TLC

CONSTANTS r1, r2, r3, r4, laptop, ann, bob, sesame, changed, s1, s2, t1

MCSeedCookie == laptop :> s1

Ask(op, email, pass, tok) ==
    [op |-> op, browser |-> laptop, email |-> email, password |-> pass, token |-> tok]

MCCalls ==
    {Ask("login", ann, sesame, None), Ask("login", ann, changed, None),
     Ask("register", bob, sesame, None), Ask("refresh", None, None, None),
     Ask("logout", None, None, None), Ask("forgot", ann, None, None)}
    \cup {Ask("reset", None, changed, t) : t \in TokenId}

Symmetry == Permutations(Request)

=============================================================================
