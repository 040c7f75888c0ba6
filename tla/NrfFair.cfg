SPECIFICATION FairSpec
CONSTANTS
  None = None
  c1 = c1  c2 = c2  c3 = c3
  Conns = {c1, c2, c3}
  HeartBeat = 3
  Retry = 2
  MaxWait = 2
  MaxLag = 3
  MaxFailures = 3
  EarlySignal = FALSE
INVARIANTS
  TypeOK
  OneTimer
  NoCallAfterDelete
PROPERTIES
  RegisteredInTheEnd
  ShutdownEnds
