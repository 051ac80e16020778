\* Two CPUs take configurations, captures and others, on either kind of machine.
SPECIFICATION Spec
CONSTANTS
  c1 = c1  c2 = c2
  Cpus <- TwoCpus
  Orders <- BothOrders
  Packets <- SomePackets
  MaxMaps = 4
INVARIANTS MapsBalanced ReadsItsOwn NothingTakesEffect
