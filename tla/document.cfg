SPECIFICATION DocSpec
CONSTANTS
    Type <- Types
    Key = {k1, k2}
    Val = {v1, v2}
    MaxLen = 2
    Nil = Nil
SYMMETRY DocumentSymmetry
CHECK_DEADLOCK FALSE
INVARIANTS DirtyPathsDisjoint SavedIsStored
