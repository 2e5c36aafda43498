SPECIFICATION BoardSpec
CONSTANTS
    t1 = t1
    k1 = k1
    c1 = c1
    c2 = c2
    Caller <- MCCallers
    Text <- MCText1
    Loop <- MCLoops
    NoLoop = NoLoop
    Asked <- MCAsked
    MaxMinutes = 2
    MinRearm = 1
    EruptionCooldown = 2
    Attempts = 2
    MaxTask = 1
    MaxTime = 2
    MaxMisses = 2
    MaxOrders = 1
    MaxIds = 1
SYMMETRY Symmetry
INVARIANTS
    BoardTypeOK
PROPERTIES
    MissesKept
    MissMovesClockOn
