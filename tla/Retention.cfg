CONSTANTS
  r1 = r1
  r2 = r2
  a1 = a1
  c1 = c1
  c2 = c2
  w1 = w1
  NoConn = NoConn
  Replicas = {r1, r2}
  Admins = {a1}
  Conns = {c1, c2}
  Stages = {1}
  Held <- MCHeld
  HalfWritten = {1}
  Claims = {w1}
  Opening = 1
  MaxCeiling = 1
  MaxFailures = 1
  MaxDepth = 1
SPECIFICATION FairSpec
INVARIANTS
  TypeOK
  ReleaseIsCovered
  MarkIsBacked
PROPERTIES
  RetentionReachesStage
