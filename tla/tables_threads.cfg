SPECIFICATION FairSpec
CONSTANTS
  Procs <- TwoProcs
  Root = "app"
  Frames <- AllFrames
  ProcOf <- AllProc
  Handlers <- SignalHandlers
  Over <- OverT1
  Groups = {"errno", "so"}
  Rows <- MCRows
  LinuxCol <- MCLinuxCol
  HostCol <- MCHostCol
  SockGroups = {"so"}
  ErrnoChain <- ErrnoOnly
  Plans <- OptionPlans
  MaxSignals = 1
  FairFrames = {"t2", "h1"}
INVARIANTS TypeOK ExclusiveFill WholeTables SockoptsNeverRaw
PROPERTIES ImplementsOnceTable ConsultsFinish OnlyForkAbandons
