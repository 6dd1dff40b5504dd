SPECIFICATION Spec
CONSTANTS
    a = a
    b = b
    v1 = v1
    Id = {a, b}
    Date = {1, 2}
    Audio = {v1, v2}
    Legacy <- TwoLegacy
    LegacyVoice <- OneLegacyVoice
    MaxStamp = 4
    Env = {"crash", "remove", "read"}
    MaxFaults = 2
    NoFile = NoFile
    NoVoice = NoVoice
INVARIANTS TypeOK SavedIsKept DeletedStaysDeleted
PROPERTIES VoiceKept
