SPECIFICATION HubSpec
CONSTANTS
  dbt = dbt
  hcl = hcl
  c1 = c1
  c2 = c2
  c3 = c3
  c4 = c4
  f1 = f1
  f2 = f2
  None = None
  Package = {dbt, hcl}
  Content = {c1, c2, c3, c4}
  d1 = d1
  d2 = d2
  Digest = {d1, d2}
  File = {f1, f2}
  Components <- MCComponents
  Wheel <- MCWheel
  Recorded <- MCRecorded
  Unclean = {c3}
  Registry <- MCRegistry
  Manifests <- MCManifests
  MaxReleases = 1
  MaxCommands = 2
INVARIANTS InstalledAsPinned OthersKeepPins
CHECK_DEADLOCK FALSE
