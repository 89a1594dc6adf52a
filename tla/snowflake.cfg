SPECIFICATION IdgenSpec
CONSTANTS
    NodeCount = 3
    SeqCount = 2
    Node = {0, 2}
    MaxClock = 2
    MaxIds = 4
INVARIANT ParseInvertsNext
PROPERTY IdsAreFresh
