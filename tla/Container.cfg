SPECIFICATION FairSpecUpgrade
CONSTANTS
    Device = {d1, d2}
    Container = Container
    Date = {p, q}
    Id = {a}
    Suffix <- Plain
    MaxStamp = 2
    Verify = FALSE
    Env = {"overlap"}
    MaxFaults = 0
    NoFile = NoFile
    NoMove = NoMove
INVARIANTS TypeOKUpgrade NewestSurvives
PROPERTIES Converges DeletesConverge AllUpgraded
