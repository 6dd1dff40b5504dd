SPECIFICATION FairSpec
CONSTANTS
    Device = {d1, d2, d3}
    Container = Container
    MaxStamp = 2
    Env = {"overlap", "crash", "write"}
    MaxFaults = 1
    NoFile = NoFile
INVARIANTS TypeOK
PROPERTIES OnlyAdvances QuietOnceAgreed MarkersMeet
