SPECIFICATION FairSpec
CONSTANTS
  ds1 = ds1
  ds2 = ds2
  d1 = d1
  d2 = d2
  NoDatastore = NoDatastore
  Datastores = {ds1, ds2}
  Disks = {d1, d2}
  Vms <- SimpleVms
  FaultSets = {{"staging"}, {"misplaced"}}
  MaxRuns = 1
CHECK_DEADLOCK FALSE
PROPERTIES
  FirstRunMigrates
