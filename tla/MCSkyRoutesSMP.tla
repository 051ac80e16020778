--------------------------- MODULE MCSkyRoutesSMP ---------------------------
(* CPUs, endpoints, stack contents and a hash for checking SkyRoutesSMP. *)
EXTENDS SkyRoutesSMP

CONSTANTS p1, p2

TwoCpus == {p1, p2}
CpuSymmetry == Permutations(TwoCpus)

TwoClients == {"a", "b"}
TwoTails == {"x", "y"}
\* Zeros, and what an earlier IPv6 option left.
TwoResidues == {[code |-> 0, ep |-> "zero", tail |-> "x"],
                [code |-> 254, ep |-> "junk", tail |-> "y"]}

Option(kind, data) == [kind |-> kind, data |-> data]
Nop == Option("nop", ZeroData)
\* A client may ask for the endpoint of another.
FourLists ==
  {<<Nop, Option("sky4", V4("d", "x"))>>,
   <<Option("other", ZeroData), Option("sky4", V4("b", "x"))>>,
   <<Option("end", ZeroData), Option("sky4", V4("d", "x"))>>,
   <<Option("sky6", [code |-> 254, ep |-> "junk", tail |-> "y"])>>}

TwoBuckets == {0, 1}
ByTail(data) == IF data.tail = "y" THEN 1 ELSE 0

SixJobs ==
  {[kind |-> "syn", c |-> "a", data |-> V4("b", "x")],
   [kind |-> "syn", c |-> "b", data |-> V4("d", "x")]}
    \cup [kind : {"fin", "data"}, c : TwoClients]

=============================================================================
