\* One CPU runs the hook, one thread reads.
SPECIFICATION Spec
CONSTANTS
  c1 = c1  r1 = r1
  p1 = p1  p2 = p2  p3 = p3  big = big
  Pushers <- OnePusher
  Readers <- OneReader
  Packets <- FourPackets
  Oversized <- BigPackets
  QSIZE = 3
  SIZE_MOD = 6
  NoPacket = NoPacket
  Free = Free
INVARIANTS HaveBounded RingShape
PROPERTY ImplementsFifo
