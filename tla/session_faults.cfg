SPECIFICATION FairSpec
CONSTANTS
  c1 = c1
  c2 = c2
  c3 = c3
  g1 = g1
  g2 = g2
  Session = {s1}
  Account = {a1}
  Conn = {c1, c3}
  Gateway = {g1, g2}
  Host <- MCHost
  MaxEpoch = 3
  MaxFaults = 1
  Lapsing = {s1}
  NoSession = NoSession
  NoConn = NoConn
  NoRec = NoRec
CHECK_DEADLOCK FALSE
INVARIANTS OneConnectionPerEpoch 
PROPERTIES NoResurrection StaleCloseHarmless ClaimReleasedByOwner GraceEnds CloseDetaches
