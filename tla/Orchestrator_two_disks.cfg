SPECIFICATION Spec
CONSTANTS
  ds1 = ds1
  ds2 = ds2
  d1 = d1
  d2 = d2
  NoDatastore = NoDatastore
  Datastores = {ds1, ds2}
  Disks = {d1, d2}
  Vms <- ReducedVms
  FaultSets = {{}}
  MaxRuns = 1
CHECK_DEADLOCK FALSE
INVARIANTS
  NoFileDropped
