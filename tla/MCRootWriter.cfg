SPECIFICATION Spec
CONSTANTS
    w1 = w1
    w2 = w2
    p1 = p1
    p2 = p2
    NoFile = NoFile
    Empty = Empty
    Garbled = Garbled
    NotLoaded = NotLoaded
    MaxKills = 1
    Writer <- MCWriter
    Payload <- MCPayload
    Edits <- MCEdits
INVARIANTS
    TypeOK
    KillsOnlyAfterIdleCheck
    WritesOnlyAfterDeath
    OkMeansWritten
    DamageHasACause
SYMMETRY Sym
