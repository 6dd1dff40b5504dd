SPECIFICATION FairSpec
CONSTANTS
    File = {f1, f2}
    Key = {dek, m1, m2}
    MaxSave = 1
    Env = {"stage", "commit", "remove", "damage", "busy"}
    MaxFaults = 2
    NoFile = NoFile
INVARIANTS Recoverable
PROPERTIES Completes
