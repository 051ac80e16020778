\* One CPU runs the hook, two programs open, read and close: copies race with
\* pushes, closes with hooks, opens with one another.
SPECIFICATION DeviceSpec
CONSTANTS
  c1 = c1  c2 = c2  r1 = r1  r2 = r2
  p1 = p1  p2 = p2  big = big  elsewhere = elsewhere
  NoPacket = NoPacket
  NoSize = NoSize
  Free = Free
  Oversized <- BigPackets
  Pushers <- OneCpu
  Readers <- TwoReaders
  Packets <- TwoPackets
  RunsOn <- ReadersApart
  QSIZE = 3
  SIZE_MOD = 6
SYMMETRY ReaderSymmetry
INVARIANTS AlignedUnlessLate CongruentUnlessLate CopyStable NoStuckBusy ClosedDeviceDrained
