SPECIFICATION LoginFairSpec
CONSTANTS
  Caller = {c1, c2}
  Threshold = 2
  MaxAttempts = 2
  Burst = 1
INVARIANTS HalfOpenIsDecided AnswersMatch RetryMeansOutage
PROPERTIES  CircuitMovesOn EveryMessageAnswered
