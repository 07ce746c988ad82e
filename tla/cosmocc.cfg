SPECIFICATION FairSpec
CONSTANTS
  Builds = {"b1", "b2"}
  Tools <- ThreeTools
  Hosts = {"linux", "macos", "windows"}
  MaxRuns = 3
  MaxOverlaps = 2
INVARIANTS TypeOK OkMeansReady VerifiedOnly
PROPERTIES BuildsEnd
