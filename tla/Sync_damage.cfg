SPECIFICATION FairSpec
CONSTANTS
    Device = {d1, d2}
    Container = Container
    Date = {p, q}
    Id = {a}
    Suffix <- Plain
    MaxStamp = 3
    Verify = TRUE
    Env = {"corrupt", "crash"}
    MaxFaults = 2
    NoFile = NoFile
    NoMove = NoMove
PROPERTIES Converges DamageStaysPut DeletedNeverReturns
