SPECIFICATION Spec
CONSTANTS
    p1 = p1
    p2 = p2
    gold = gold
    s1 = s1
    s2 = s2
    s3 = s3
    Player = {p1, p2}
    Asset = {gold}
    SettlementId = {s1, s2, s3}
    Delta <- Deltas
    Submission <- Submissions
    Request = {r1, r2, r3}
    Missing = {p2}
    MaxFaults = 1
    MaxRestores = 2
    NoEntry = NoEntry
    NoSnapshot = NoSnapshot
SYMMETRY RequestSymmetry
CHECK_DEADLOCK FALSE
INVARIANTS LedgerBalances VersionsAreStates
PROPERTIES  ImplementsLedger
