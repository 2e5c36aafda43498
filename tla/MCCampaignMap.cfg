CONSTANTS
    i1 = i1
    i2 = i2
    f1 = f1
    Item = {i1, i2}
    Front = {f1}
    Name = {"work"}
    Starters = {"work"}
    Text = {"t"}
    Loop = {l1}
    Client = {c1, c2}
    Patch <- MCPatch
    Draft <- MCDraft
    MaxProposals = 1
    MaxSorties = 1
    Nowhere = Nowhere
    Same = Same
SPECIFICATION Spec
SYMMETRY Clients
CONSTRAINT Apart
INVARIANTS TypeOK KeptFirst AimsFit
CHECK_DEADLOCK FALSE
