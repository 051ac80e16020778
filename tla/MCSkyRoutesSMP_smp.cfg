\* Two CPUs share the table; pages of four slots, uninitialized tails, SYNs
\* without an option, a client that is asked for itself.
SPECIFICATION SMPSpec
CONSTANTS
  p1 = p1  p2 = p2
  Cpus <- TwoCpus
  Jobs <- SixJobs
  SharedTail = "x"
  USED_MOD = 8
  MaxCrowd = 3
  MaxShared = 2
  Clients <- TwoClients
  Options <- FourLists
  Residues <- TwoResidues
  Tails <- TwoTails
  Buckets <- TwoBuckets
  Bucket <- ByTail
  PAIRS = 4
  MaxSyns = 3
SYMMETRY CpuSymmetry
INVARIANTS UsedUnlessOverlapped CrossTalkOnlyIfTorn RouteFoundUnlessOverlapped
PROPERTY OthersKeptUnlessOverlapped
