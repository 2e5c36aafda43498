CONSTANTS
    embed = embed
    apiKey = apiKey
    m1 = m1
    m2 = m2
    k1 = k1
    r1 = r1
    r2 = r2
    p1 = p1
    s1 = s1
    w1 = w1
    Unset = Unset
    NoSeal = NoSeal
    Keys <- MCKeys
    Secrets <- MCSecrets
    Values <- MCValues
    Shaped <- MCShaped
    Releases = {r1, r2}
    Accepts <- MCAccepts
    Environments <- MCEnvironments
    SealKeys = {s1}
    MaxUpdates = 2
    MaxBoots = 2
    EmbedKey = embed
    ApiKey = apiKey
    DefaultModel = m1
    NeedsKey = m1
    Rosters <- MCRosters
    MemoSize = 2
    Batch = 2
    Writers = {w1}
    MaxRows = 2
    MaxEdits = 1
    MaxRuns = 1
SPECIFICATION Spec
INVARIANTS TypeOK RunsWhatIsStored MemoFits BuildsCatchUp
PROPERTY RoundsProgress
CONSTRAINT Apart
CHECK_DEADLOCK FALSE
