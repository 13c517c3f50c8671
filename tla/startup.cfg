SPECIFICATION FairSpec
CONSTANTS
    Cases <- MCCases
    Ports = {0, 4}
    MaxQueued = 3
    MaxStarts = 2
INVARIANTS
    StartedAsAsked
    ConfiguredAsWritten
    ListedAsConfigured
PROPERTIES
    AnswersListed
    SignalEndsRun
