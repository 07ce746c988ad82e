SPECIFICATION Spec
CONSTANTS
  Builds = {"b1", "b2"}
  Tools <- ThreeTools
  Hosts = {"linux"}
  MaxRuns = 3
  MaxOverlaps = 2
INVARIANTS OkAfterStops
