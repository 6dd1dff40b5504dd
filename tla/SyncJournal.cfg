SPECIFICATION FairSpec
CONSTANTS
    Device = {d1, d2}
    Container = Container
    Date = {p, q}
    Id = {a}
    Suffix <- Plain
    MaxStamp = 3
    Verify = FALSE
    Env = {"crash", "remove", "tombread"}
    MaxFaults = 1
    NoFile = NoFile
    NoMove = NoMove
INVARIANTS QuietOnceInSync
PROPERTIES NewestWins ImplementsJournal ViewsMeet
