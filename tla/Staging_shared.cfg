SPECIFICATION Spec
CONSTANTS
  r1 = r1
  r2 = r2
  dirA = dirA
  dirB = dirB
  NoDatastore = NoDatastore
  Runs = {r1, r2}
  Dirs = {dirA, dirB}
  Names <- AllNames
  Plans <- AllPlans
  Capacities = {25, 150}
  MaxCalls = 1
CHECK_DEADLOCK FALSE
INVARIANTS
  TypeOK
  VerifiedImageIsFresh
  CheckedCopyFits
  RerunGoesThrough
