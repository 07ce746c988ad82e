SPECIFICATION FairSpec
CONSTANTS
  t1 = t1
  t2 = t2
  Threads <- MCThreads
  Hosts = {"windows", "xnu"}
  ClockTables <- MCClockTables
  NsecPerSec = 2
  RealSecs = 8
  MaxSec = 9
  BootTime = 16
  Asks <- MCAsks
  Jumps <- MCJumps
  LastTick = 4
  MaxSets = 1
  MaxCalls = 1
INVARIANTS TypeOK InTime OnlyBadTimes
PROPERTY WaitsEnd
CHECK_DEADLOCK FALSE
