SPECIFICATION Spec
CONSTANTS
    Tree <- SomeTree
    Link <- SomeLink
    Vault <- SomeVault
    Cwd <- SomeCwd
    Asked <- SomeAsked
    Id = {a}
    Date = {p, q}
    Key = {dek, k1, k2}
    Dek = dek
    WrongKey = wrong
    NoKey = none
    Env = {"crash", "damage", "write"}
    MaxSave = 4
    MaxRun = 2
    MaxFaults = 1
    NoFile = NoFile
SYMMETRY Symmetry
INVARIANTS TypeOK StaysOutside SealKept ReaderAccounts BundleWhole BundleOpens
CHECK_DEADLOCK FALSE
