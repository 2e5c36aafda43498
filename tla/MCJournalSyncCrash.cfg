CONSTANTS
    a = a
    s = s
    about = about
    short = short
    long = long
    NoFile = NoFile
    Blank = Blank
    Paths = {a}
    Excluded = {}
    Sub = {}
    Texts = {short, long}
    Chunks <- MCChunks
    Pool = 9
    MaxEdits = 1
    MaxFails = 0
    MaxStarts = 2
SPECIFICATION Spec
PROPERTY SavedIsIngested
CHECK_DEADLOCK FALSE
