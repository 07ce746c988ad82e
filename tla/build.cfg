SPECIFICATION FairSpec
CONSTANTS
  Version <- MCVersion
  RESPONSE_FILE_AT = 30
  ResponseFiles <- MCResponseFiles
  Natives <- MCNatives
  Outers = {"release", "dist"}
  DirOf <- MCDirOf
  Packages <- MCPackages
  Names = {"app", "demo"}
  PipeSize = 1
  MaxRuns = 2
  MaxEvents = 1
INVARIANTS TypeOK RefusedIsReported FinishedIsCurrent LinkedAsAsked
CHECK_DEADLOCK FALSE
PROPERTIES BuildsEnd
