----------------------------- MODULE MCUserCache -----------------------------
(* Model-checking instances of UserCache. *)
EXTENDS UserCache, TLC

CONSTANTS t1, t2, u1, u2
MCTasks2 == {t1, t2}
MCUsers2 == {u1, u2}
Symmetric == Permutations(Tasks) \cup Permutations(Users)
=============================================================================
