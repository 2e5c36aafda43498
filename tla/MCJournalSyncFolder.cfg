CONSTANTS
    a = a
    s = s
    about = about
    short = short
    long = long
    NoFile = NoFile
    Blank = Blank
    Paths = {s}
    Excluded = {}
    Sub = {s}
    Texts = {short, long}
    Chunks <- MCChunks
    Pool = 9
    MaxEdits = 1
    MaxFails = 0
    MaxStarts = 1
SPECIFICATION Spec
PROPERTY SavedIsIngested
CHECK_DEADLOCK FALSE
