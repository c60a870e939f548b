CONSTANTS
  q1 = q1
  q2 = q2
  w1 = w1
  w2 = w2
  f1 = f1
  f2 = f2
  f3 = f3
  Clients = {q1, q2}
  References = {1, 2, 3}
  Funds = 2
  DesignMilestones = {1}
  BuildMilestones = {2}
  LegalMilestones = {3}
  HandedOver = {"design", "construction", "legal"}
  PhaseLists <- MCLists
  Snags = {1}
  Extensions = {1}
  MaxDeadline = 2
  StagePrice = 1
  MaxPassword = 2
  MaxTokens = 2
  MaxHits = 2
  Mails = {1, 2, 3}
  Refused = {1}
  Batch = 2
  MaxFaults = 2
  Workers = {w1, w2}
  Members = {1, 2}
  Bookings = {1, 2}
  MaxPending = 2
  Documents = {1, 2}
  Pictures = {3}
  Files = {f1, f2, f3}
  NoFile = NoFile
  Stations = {1, 2, 3}
  MaxDays = 2
  MaxLinks = 2
  Shelves = {"comment", "note", "report", "log", "house", "room", "question", "material", "preference", "member", "firm", "project", "review", "engineering", "store", "notification", "thread", "sandbox", "search", "rating"}
SPECIFICATION Spec
INVARIANTS
  TypeOK
  RateIsBounded
PROPERTIES
  
  AcceptedHasPhases
  MailIsSent
CHECK_DEADLOCK FALSE
