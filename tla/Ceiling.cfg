CONSTANTS
  p1 = p1
  p2 = p2
  p3 = p3
  d1 = d1
  d2 = d2
  NoStage = NoStage
  NoDispute = NoDispute
  NoSession = NoSession
  Sessions = {p1, p2}
  Stages = {1}
  Disputes = {d1}
  Net <- MCNet
  Amounts = {1, 2}
  Opening = 2
  MaxBudget = 3
  Requests = {"verify", "upload", "markPaid", "open", "withdraw", "deposit", "adjustment_down", "terminate", "act"}
SPECIFICATION Spec
SYMMETRY Symmetry
INVARIANTS
  RInv
PROPERTIES
  MoneyRespectsFreeze
  ImplementsLedger
