SPECIFICATION FairSpec
CONSTANTS
    Device = {d1, d2}
    Container = Container
    Date = {p, q}
    Id = {a}
    Suffix <- Plain
    MaxStamp = 3
    Verify = FALSE
    Env = {"overlap", "crash", "write", "remove", "tombread"}
    MaxFaults = 2
    NoFile = NoFile
    NoMove = NoMove
INVARIANTS TypeOK NewestSurvives PullsAreBehind
PROPERTIES Converges DeletesConverge
