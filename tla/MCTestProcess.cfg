SPECIFICATION Spec
CONSTANTS
    Queues <- MCQueues
    MaxNews = 2
    CommandLines <- MCCommandLines
    None = None
    Sources = {"a.i"}
    Targets = {"a.bc", "b.bc"}
    MaxDescriptors = 6
    MaxCompilations = 3
INVARIANTS
    TypeOK
    CountersAgree
    NoReentry
    MapIsWhatIsLive
    LeaksAreReported
    HarnessMemorySurvives
    FailureBlindsOneTest
    UndefinedNeedsALeak
    NamedFilesAreUsed
    WritesNeedAnOutput
    DescriptorsAreAccountedFor
PROPERTIES
    ProcessEnds
CHECK_DEADLOCK FALSE
