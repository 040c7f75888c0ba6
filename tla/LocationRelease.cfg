SPECIFICATION Spec
CONSTANTS
  None = None
  NonUe = NonUe
  r1 = r1  r2 = r2
  s1 = s1  s2 = s2
  Requests = {r1, r2}
  Supis = {s1, s2}
  Unserved = {r1}
  MaxThreads = 3
  MaxLost = 1
SYMMETRY SupiSymmetry
INVARIANTS
  OthersUnharmed
