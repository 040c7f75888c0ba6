SPECIFICATION Spec
CONSTANTS
  None = None
  r1 = r1  r2 = r2
  h1 = h1  h2 = h2
  sA = sA  sB = sB
  t1 = t1  t2 = t2
  Requests = {r1, r2}
  Handlers = {h1}
  Supis = {sA, sB}
  SupiOf <- TwoSubscribers
  TIds = {t1, t2}
  Gnbs = {1}
  NumGnb = 1
  DetermineNumGnb = FALSE
  MaxRedeliveries = 0
  LateTrpAnswers = FALSE
SYMMETRY IdSymmetry
INVARIANTS
  FreedIdReusable
