--------------------------- MODULE MCRouteDevice ---------------------------
(* Model values, CPU placements and symmetry for checking RouteDevice. *)
EXTENDS RouteDevice, TLC

CONSTANTS c1, c2, r1, r2, p1, p2, big, elsewhere

OneCpu == {c1}
TwoCpus == {c1, c2}
OneReader == {r1}
TwoReaders == {r1, r2}

TwoPackets == {p1, big}
BigPackets == {big}

\* No reader shares a CPU with the hook (receive interrupts pinned elsewhere).
ReadersApart == [r \in Readers |-> elsewhere]

\* The readers run on the CPU that takes the receive interrupts.
ReadersOnFirstCpu == [r \in Readers |-> c1]

ReaderSymmetry == Permutations(TwoReaders)

=============================================================================
