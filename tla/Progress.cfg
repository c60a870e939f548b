CONSTANTS
  p1 = p1
  p2 = p2
  p3 = p3
  d1 = d1
  d2 = d2
  NoStage = NoStage
  NoDispute = NoDispute
  NoSession = NoSession
  Sessions = {p1, p2}
  Stages = {1}
  Disputes = {d1}
  Net <- MCNet
  Amounts = {1}
  Opening = 2
  MaxBudget = 2
  Requests = {"verify", "upload", "markPaid", "open", "act", "withdraw", "terminate"}
SPECIFICATION FairSpec
PROPERTIES
  EveryRequestEnds
