SPECIFICATION Spec
CONSTANTS
    c1 = c1
    c2 = c2
    a1 = a1
    p1 = p1
    p2 = p2
    s1 = s1
    Client <- MCClients
    Address <- MCAddresses
    Password <- MCPasswords
    Weak <- MCWeak
    None = None
    Config <- MCConfigs
    MaxTokens = 2
    Ticket <- MCTickets
    MaxPending = 1
    PerKey = 1
    Total = 1
    PruneAbove = 1
    Window = 2
    SessionTTL = 2
    TouchEvery = 1
    PendingTTL = 0
    HandoffTTL = 0
    MaxTime = 2
SYMMETRY Symmetry
CONSTRAINT Bound
INVARIANTS
    TypeOK
    OldPasswordOut
    BudgetsAgree
PROPERTIES
    ImplementsTickets
    SignedOutStaysOut
