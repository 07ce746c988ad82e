SPECIFICATION Spec
CONSTANTS
  Hosts = {"xnu"}
  Tables <- MCTables
  PollAsked <- Asked
  Outgoing <- MCOutgoing
  Incoming <- MCIncoming
  Caps = {0, 20, 40, 72}
  CtlMax = 64
  Stale = TRUE
  MaxSignals = 1
INVARIANTS ErrnoOnlyByFailure
