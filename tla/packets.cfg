SPECIFICATION FairSpec
CONSTANTS
    WordSize = 2
    Values <- MCValues
    Offset <- MCOffset
    MaxSize = 99
    Requests <- MCRequests
    Answers <- MCAnswers
    ToValue <- pyObjectToValue
    ToPyObject <- valueToPyObject
    SameRequest <- Means
    SameAnswer <- Says
    BufferStep = 8
    Capacity = 28
    MaxSent = 2
INVARIANTS
    RequestsIntact
    AnswersIntact
    SendBufferFits
PROPERTIES
    EverythingReceived
