SPECIFICATION ChatSpec
CONSTANTS
    c1 = c1
    c2 = c2
    Client <- MCClients
    Mode = {"open"}
    ByHand = {}
    Interrogation = "interrogation"
    Depth <- MCDepth1
    Cooldown = 2
    KeepRecent = 4
    MaxMessages = 6
SYMMETRY Symmetry
CHECK_DEADLOCK FALSE
INVARIANTS
    ChatTypeOK
    SuggestionsSpaced
    SummaryIsOfOld
