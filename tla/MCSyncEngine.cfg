SPECIFICATION Safety
CONSTANTS
    t1 = t1
    t2 = t2
    j1 = j1
    j2 = j2
    n1 = n1
    NoFile = NoFile
    Empty = Empty
    Garbled = Garbled
    NotLoaded = NotLoaded
    None = None
    Main = Main
    MaxKills = 1
    MaxBacklog = 2
    Thread <- MCThread
    Job <- MCJob
    Number <- MCNumber
    Faults <- NoFaults
INVARIANTS
    TypeOK
    LockHasOneHolder
    OverlapNeedsDeferral
    ClearHolds
SYMMETRY Sym
VIEW Present
