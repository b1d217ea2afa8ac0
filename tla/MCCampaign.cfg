SPECIFICATION FairSpec
CONSTANTS
    Runs <- OneRun
    Factors <- TwoFactors
    Intervals <- OneInterval
    Offsets <- ThreeArrays
    ArraySize = 1
    Submissions <- FirstTwice
    Detailed = TRUE
    NoFile = NoFile
    Partial = Partial
    Garbled = Garbled
INVARIANTS
    TypeOK
    SummaryTrue
    TornOnlyByKillOrRace
    SoleJobExact
PROPERTIES
    NoneForgotten
CHECK_DEADLOCK FALSE
