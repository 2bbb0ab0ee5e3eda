SPECIFICATION Spec
CONSTANTS
    None = None
    Absent = Absent
    Wild = Wild
    Image <- MCImage
    Side <- MCSide
    Question <- MCQuestion
    NamedClass <- MCClass
    NamedField <- MCField
    NamedMethod <- MCMethod
INVARIANTS
    TypeOK
    CachesAreScans
    MethodIndexIsAName
    IndicesDecodeBack
    AnswersAreRight
    MissHasACause
    SameAnswerAgain
