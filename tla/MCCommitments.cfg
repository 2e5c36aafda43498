SPECIFICATION FairSpec
CONSTANTS
    l1 = l1
    l2 = l2
    t1 = t1
    t2 = t2
    c1 = c1
    c2 = c2
    Loop <- MCLoops2
    Text <- MCTexts
    Client <- MCClients
    MaxCandidates = 2
    ListLimit = 1
CONSTRAINT Apart
INVARIANTS
    TypeOK
    LiveFingerprintUnique
PROPERTIES
    ProposalAcceptedFirst
    ImplementsLedger
    UntouchedGoesStale
    SlotComesBack
