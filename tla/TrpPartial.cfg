SPECIFICATION Spec
CONSTANTS
  None = None
  r1 = r1  r2 = r2
  g1 = g1  g2 = g2
  Requests = {r1, r2}
  Gnbs = {g1, g2}
  Faulty = {g2}
  TrpCount = 2
  MaxGnb = 2
INVARIANTS
  DoneIfAlreadyDone
