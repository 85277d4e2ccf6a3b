SPECIFICATION FairSpec
CONSTANTS
  b0 = b0
  b1 = b1
  None = None
  Miners = {m1, m2}
  Steady = {m1}
  Binaries = {b0, b1}
  MaxVersion = 2
  Broken = {1}
  Manifests <- Releases
INVARIANTS TypeOK BoundedRestarts OwnInstallRuns
PROPERTIES StartEnds KeepsAsking
