SPECIFICATION Spec
CONSTANTS
    File = {f1, f2}
    Key = {dek, m1, m2}
    MaxSave = 1
    Env = {"stage", "remove", "damage"}
    MaxFaults = 3
    NoFile = NoFile
SYMMETRY Symmetry
INVARIANTS TypeOK KeysAgree LatestKept
PROPERTIES AllOrNothing
