SPECIFICATION Spec
CONSTANTS
  r1 = r1
  r2 = r2
  v1 = v1
  s1 = s1
  s2 = s2
  p1 = p1
  Runs = {r1, r2}
  Vmids = {v1}
  Storages = {s1, s2}
  Pools = {p1}
  Target <- SharedTarget
  Storage <- SharedStorage
  Pool <- SharedPool
  NoPool = NoPool
  Nothing = Nothing
  Partial = Partial
  Foreign = Foreign
  Preexisting = {v1}
  ImportTruthful = TRUE
  MaxCalls = 1
CHECK_DEADLOCK FALSE
INVARIANTS
  VerifiedIsSettled
PROPERTIES
  RefinesRegistration
