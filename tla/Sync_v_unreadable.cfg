SPECIFICATION Spec
CONSTANTS
    Device = {d1, d2}
    Container = Container
    Date = {p, q}
    Id = {a}
    Suffix <- Plain
    MaxStamp = 3
    Verify = FALSE
    Env = {"read"}
    MaxFaults = 1
    NoFile = NoFile
    NoMove = NoMove
INVARIANT NewestSurvives
