----------------------------- MODULE MCTaskPool -----------------------------
(* Model values and symmetry for checking TaskPool. *)
EXTENDS TaskPool, TLC

CONSTANTS w1, w2, w3, t1, t2, t3

TwoWorkers == {w1, w2}
ThreeWorkers == {w1, w2, w3}
TwoTasks == {t1, t2}
ThreeTasks == {t1, t2, t3}

PoolSymmetry == Permutations(ThreeWorkers) \cup Permutations(ThreeTasks)

=============================================================================
