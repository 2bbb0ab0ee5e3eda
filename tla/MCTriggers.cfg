SPECIFICATION Spec
CONSTANTS
    None = None
    Garbled = Garbled
    SetOnce = 7
    MaxEvents = 2
    Book <- MCBook
    Interval <- MCInterval
    FirstFile <- MCFirstFile
INVARIANTS
    TypeOK
    ScheduleIsStored
    ClearHoldsUnlessLate
PROPERTIES
    SyncIsExact
    StuckHasACause
    GreenHasACause
    Converges
