----------------------------- MODULE MCAuthStore -----------------------------
(* Small browsers for AuthStore: u1 is an administrator, u2 a guest who is   *)
(* never let in; all sessions are of u1, so that they need not be told apart. *)
EXTENDS AuthStore, TLC

CONSTANTS u1, u2

Owners == [s \in Session |-> u1]
Admins == {u1}
Guests == {u2}

\* For the safety properties: neither tabs nor requests nor sessions are told
\* apart.
Symmetry == Permutations(Tab) \cup Permutations(Call) \cup Permutations(Session)
=============================================================================
