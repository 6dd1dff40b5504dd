SPECIFICATION Spec
CONSTANTS
    a = a
    b = b
    v1 = v1
    Id = {a}
    Date = {1, 2}
    Audio = {v1}
    Legacy <- NoLegacy
    LegacyVoice <- NoLegacyVoice
    MaxStamp = 2
    Env = {"crash"}
    MaxFaults = 1
    NoFile = NoFile
    NoVoice = NoVoice
INVARIANTS ShowsLatest
