SPECIFICATION FairSpec
CONSTANTS
  r1 = r1
  r2 = r2
  v1 = v1
  s1 = s1
  s2 = s2
  p1 = p1
  Runs = {r1}
  Vmids = {v1}
  Storages = {s1}
  Pools = {p1}
  Target <- SoloTarget
  Storage <- SoloStorage
  Pool <- SoloPool
  NoPool = NoPool
  Nothing = Nothing
  Partial = Partial
  Foreign = Foreign
  Preexisting = {}
  ImportTruthful = TRUE
  MaxCalls = 3
CHECK_DEADLOCK FALSE
INVARIANTS
  TypeOK
  VerifiedIsOurs
  NoBootWithoutDisk
  RerunRecovers
  ResultShape
PROPERTIES
  CallsEnd
