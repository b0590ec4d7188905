SPECIFICATION FairSpec
CONSTANTS
  ds1 = ds1
  ds2 = ds2
  d1 = d1
  d2 = d2
  NoDatastore = NoDatastore
  Datastores = {ds1, ds2}
  Disks = {d1, d2}
  Vms <- AllVms
  FaultSets <- Weathers
  MaxRuns = 2
CHECK_DEADLOCK FALSE
INVARIANTS
  TypeOK
  MigratedIsEarned
  RegistersVerifiedImage
  NothingFromUnresolved
  NamedApplianceIsLeftAlone
  AuditIsComplete
  SilentFailureIsRetriedOnce
  OneDiskIsWhole
  HealthyRunIsUnattended
PROPERTIES
  RefinesMigrationGate
  KnownRunningVmNeverCopied
  RunEnds
  HealthyRunMigrates
