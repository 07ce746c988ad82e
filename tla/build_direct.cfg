SPECIFICATION FairSpec
CONSTANTS
  Version <- MCVersion
  RESPONSE_FILE_AT = 30
  ResponseFiles <- MCResponseFiles
  Natives <- MCNatives
  Outers = {"release", "dist"}
  DirOf <- MCDirOf
  Packages <- OnlyDirect
  Names = {"app", "demo"}
  PipeSize = 1
  MaxRuns = 2
  MaxEvents = 0
PROPERTY EveryBuildEnds
CHECK_DEADLOCK FALSE
