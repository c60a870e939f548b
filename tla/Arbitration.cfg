CONSTANTS
  p1 = p1
  p2 = p2
  p3 = p3
  d1 = d1
  d2 = d2
  NoStage = NoStage
  NoDispute = NoDispute
  NoSession = NoSession
  Sessions = {p1, p2}
  Stages = {1}
  Disputes = {d1, d2}
  Net <- MCNet
  Amounts = {1, 2}
  Opening = 2
  MaxBudget = 2
  Requests = {"verify", "upload", "markPaid", "open", "act"}
SPECIFICATION Spec
SYMMETRY Symmetry
INVARIANTS
  SettledIsBacked
  MirrorMatchesLedger
  DedupeIsCurrent
PROPERTIES
  RefundIsNotPaidOver
