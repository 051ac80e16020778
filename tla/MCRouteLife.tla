---------------------------- MODULE MCRouteLife ----------------------------
(* Model values and symmetry for checking RouteLife. *)
EXTENDS RouteLife, TLC

CONSTANTS c1, c2, u1, u2

TwoCpus == {c1, c2}
TwoUsers == {u1, u2}

LifeSymmetry == Permutations(TwoCpus) \cup Permutations(TwoUsers)

=============================================================================
