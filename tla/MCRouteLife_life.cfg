\* Two CPUs, two programs, loads and unloads over and over.  When every program
\* has died in the device nothing is left to do.
SPECIFICATION Spec
CONSTANTS
  c1 = c1  c2 = c2  u1 = u1  u2 = u2
  Cpus <- TwoCpus
  Users <- TwoUsers
SYMMETRY LifeSymmetry
INVARIANTS EarlyOnlyByEarlyOpen GoneOnlyByOvertaking ExitIsQuiet
CHECK_DEADLOCK FALSE
