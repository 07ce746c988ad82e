SPECIFICATION Spec
CONSTANTS
  Builds = {b1, b2}
  Serial = FALSE
  Hosts = {"unix", "windows"}
  Deaths = TRUE
  Failures = TRUE
  Deletions = TRUE
  Damage = FALSE
  MaxRuns = 2
SYMMETRY BuildSymmetry
INVARIANTS TypeOK GlueIsWhole LeftoversFailNobody
PROPERTY ImplementsSharedCache
