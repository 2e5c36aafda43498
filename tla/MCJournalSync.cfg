CONSTANTS
    a = a
    s = s
    about = about
    short = short
    long = long
    NoFile = NoFile
    Blank = Blank
    Paths = {a, s, about}
    Excluded = {about}
    Sub = {s}
    Texts = {short, long}
    Chunks <- MCChunks
    Pool = 9
    MaxEdits = 3
    MaxFails = 1
    MaxStarts = 2
SPECIFICATION Spec
INVARIANTS TypeOK OneVersion
PROPERTY InStepUnlessHarmed
CHECK_DEADLOCK FALSE
