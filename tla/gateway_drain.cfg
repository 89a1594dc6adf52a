SPECIFICATION DrainFairSpec
CONSTANTS
  Conn = {c1, c2}
  SendBuffer = 1
CHECK_DEADLOCK FALSE
INVARIANTS NoticeBeforeClose OnlyLateStayOpen
PROPERTY ShutdownEnds
