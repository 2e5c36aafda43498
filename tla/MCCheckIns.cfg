SPECIFICATION FairSpec
CONSTANTS
    c1 = c1
    s1 = s1
    Client = {c1}
    Slots <- MCSlots
    DayLength = 2
    LastTime = 2
    Grace = 1
    IdleAfter = 1
    Loop = {"l1"}
    MaxStale = 1
    MaxRows = 2
    Session = {s1}
CONSTRAINT Apart
INVARIANTS
    TypeOK
    NoCallWasted
    StaleNamedOnce
PROPERTIES
    NudgedWhenQuiet
    TickEnds
