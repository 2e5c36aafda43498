CONSTANTS
    a = a
    s = s
    about = about
    short = short
    long = long
    NoFile = NoFile
    Blank = Blank
    Paths = {a}
    Excluded = {}
    Sub = {}
    Texts = {short, long}
    Chunks <- MCChunks
    Pool = 2
    MaxEdits = 2
    MaxFails = 0
    MaxStarts = 1
SPECIFICATION Spec
PROPERTY SavedIsIngested
CHECK_DEADLOCK FALSE
