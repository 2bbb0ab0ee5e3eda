SPECIFICATION MCSpec
CONSTANTS
    None = None
    Free = Free
    Garbled <- MCGarbled
    US = us
    NoLocale = nowhere
    Locale = {us, xx}
    Device <- MCDevice
    DexFile <- MCDexFile
    Method <- MCMethod
    Compact = Compact
    Unmappable = Unmappable
INVARIANTS
    TypeOK
    FailSafe
    SomeoneCompletes
    HooksAreReferenced
    MissHasACause
    NoDexTwice
    WalkersAgree
PROPERTIES
    NoSpeechIsMade
    InstallationEnds
