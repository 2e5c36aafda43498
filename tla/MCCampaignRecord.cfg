SPECIFICATION Spec
CONSTANTS
    r1 = r1
    r2 = r2
    q1 = q1
    p1 = p1
    p2 = p2
    t1 = t1
    o1 = o1
    c1 = c1
    c2 = c2
    Client <- MCClients
    Reviewer = Reviewer
    Campaign <- MCCampaign1
    Quarter <- MCQuarters
    Prediction <- MCPredictions
    Text <- MCTexts
    Objective <- MCObjectives
    Note <- MCNoNote
    Chance <- MCChances
    Outcome = {"called"}
    Unfiled = Unfiled
SYMMETRY Symmetry
CONSTRAINT Apart
INVARIANTS
    TypeOK
    RecordConsistent
PROPERTIES
    ClosedIsFinal
