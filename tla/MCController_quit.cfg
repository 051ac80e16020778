\* The controller from its start to its end while four lines are downloaded.
\* The process stops when main returns or an exception ends it.
SPECIFICATION FairSpec
CONSTANTS
  a = a  b = b
  Other = Other
  List <- FourLines
  MaxRead = 6
  w1 = w1
  Free = Free
  Workers <- OneWorker
  Tasks = {}
INVARIANTS LostExplained CrashExplained
PROPERTY QuitEnds
CHECK_DEADLOCK FALSE
