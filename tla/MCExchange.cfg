SPECIFICATION FairSpec
CONSTANTS
    MaxNestingDepth = 4
    LargestPlain = 60000
    LeastPlain <- MCLeastPlain
    BatchSize = 2
    MaxFrames = 3
    Asked <- MCAsked
    Accepts <- MCAccepts
    Rows <- MCRows
    Reports <- MCReports
    Values <- MCValues
    Documents <- MCDocuments
    Bases <- MCBases
    Anomalies <- MCAnomalies
    Frames <- MCFrames
    ResultValue <- FromResult
    StreamValue <- FromStreamed
    ClientWrites <- ClientBody
    ReadBody <- ParseAs
    WriteBody <- Serialize
    PrintRow <- PrintEdn
    RequestIdIn <- ExtractRequestId
CHECK_DEADLOCK FALSE
INVARIANTS
    FormatsAgree
    AnswersReadBack
    AnswersPair
    PiecesComplete
    StreamAsksAlike
PROPERTIES
    ExchangesEnd
