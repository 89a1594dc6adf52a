SPECIFICATION Spec
CONSTANTS
  c1 = c1
  c2 = c2
  c3 = c3
  g1 = g1
  g2 = g2
  Session = {s1}
  Account = {a1}
  Conn = {c1, c2}
  Gateway = {g1}
  Host <- MCHost
  MaxEpoch = 2
  MaxFaults = 0
  Lapsing = {s1}
  NoSession = NoSession
  NoConn = NoConn
  NoRec = NoRec
CHECK_DEADLOCK FALSE
PROPERTY ResumedSessionSurvives
