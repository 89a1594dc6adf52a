SPECIFICATION FairSpec
CONSTANTS
  Request = {r1, r2}
  Instance = {i1, i2}
  Hash = {h1, h2}
  MaxFaults = 2
  MaxExpiries = 1
  NoRequest = NoRequest
  NoRec = NoRec
CHECK_DEADLOCK FALSE
INVARIANTS AnswersAreRecorded ExecutedOnce
PROPERTY EveryRequestReturns
