SPECIFICATION FairSpec
CONSTANTS
  c1 = c1
  c2 = c2
  c3 = c3
  g1 = g1
  g2 = g2
  k1 = k1
  Conn = {c1, c3}
  Client = {k1}
  Gateway = {g1, g2}
  Host <- MCHost
  Owner <- MCOwner
  Targets <- MCTargets
  Leaving = {g1}
  QueueCap = 1
  MaxAttempts = 2
  MaxFaults = 1
  NoConn = NoConn
  NoEvent = NoEvent
CHECK_DEADLOCK FALSE
  
PROPERTY CloseReturns
