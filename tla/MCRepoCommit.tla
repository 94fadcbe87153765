---------------------------- MODULE MCRepoCommit ----------------------------
(* Model-checking instances of RepoCommit.  The requests cross: one creates *)
(* two classes, another one of them, a third the two in the other order.    *)
EXTENDS RepoCommit, TLC

CONSTANTS t1, t2, t3, n1, n2, n3

MCTasks1 == {t1}
MCTasks2 == {t1, t2}
MCTasks3 == {t1, t2, t3}
MCNames  == {n1, n2, n3}
MCCrossing == {<<n1, n2>>, <<n2, n1>>, <<n3>>}
MCSingles  == {<<n1>>, <<n2>>, <<n3>>}
MCDisjoint == {<<n1, n2>>, <<n3>>}

Symmetric == Permutations(Tasks)
=============================================================================
