SPECIFICATION Spec
CONSTANTS
  None = None
  r1 = r1  r2 = r2
  h1 = h1  h2 = h2
  sA = sA  sB = sB
  t1 = t1  t2 = t2
  Requests = {r1}
  Handlers = {h1, h2}
  Supis = {sA}
  SupiOf <- OneSubscriber
  TIds = {t1, t2}
  Gnbs = {1, 2}
  NumGnb = 2
  DetermineNumGnb = TRUE
  MaxRedeliveries = 1
  LateTrpAnswers = TRUE
SYMMETRY IdSymmetry
INVARIANTS
  TypeOK
  
