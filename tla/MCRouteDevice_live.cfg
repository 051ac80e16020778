\* Two CPUs run the hook, the reader shares the first.  Once a CPU has
\* deadlocked on its reader nothing may be left to do.
SPECIFICATION FairDeviceSpec
CONSTANTS
  c1 = c1  c2 = c2  r1 = r1  r2 = r2
  p1 = p1  p2 = p2  big = big  elsewhere = elsewhere
  NoPacket = NoPacket
  NoSize = NoSize
  Free = Free
  Oversized <- BigPackets
  Pushers <- TwoCpus
  Readers <- OneReader
  Packets <- TwoPackets
  RunsOn <- ReadersOnFirstCpu
  QSIZE = 2
  SIZE_MOD = 4
INVARIANTS NoLostWakeup SlotsWhole
PROPERTIES HookReturns SleeperWoken
CHECK_DEADLOCK FALSE
