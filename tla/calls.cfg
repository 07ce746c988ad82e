SPECIFICATION Spec
CONSTANTS
  Hosts = {"windows", "xnu"}
  Tables <- MCTables
  PollAsked <- Asked
  Outgoing <- MCOutgoing
  Incoming <- MCIncoming
  Caps = {0, 20, 40, 72}
  CtlMax = 64
  Stale = FALSE
  MaxSignals = 1
INVARIANTS TypeOK ErrnoTranslatedOnce ErrnoOnlyByFailure ErrorsAreStds PollFaithful SendsAllOrNone RightsAccounted ControlHonest
