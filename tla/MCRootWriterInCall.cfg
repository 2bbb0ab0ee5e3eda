SPECIFICATION Spec
CONSTANTS
    w1 = w1
    p1 = p1
    p2 = p2
    NoFile = NoFile
    Empty = Empty
    Garbled = Garbled
    NotLoaded = NotLoaded
    MaxKills = 3
    Writer <- MCWriter
    Payload <- MCPayload
    Edits <- MCEdits
PROPERTIES
    NeverKilledInCall
