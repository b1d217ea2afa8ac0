SPECIFICATION Spec
CONSTANTS
    TMax = 10
    TRes = 1
    Near = 1
    Distances <- NearOrFar
    SampleEvery = 2
    MaxDelay = 4
INVARIANTS
    SeriesIsAge
    AverageIsMeanAge
    HistogramCountsDwell
    SectionsCutTheSeries
    SectionPeaksPrecedeDrops
    SectionHistogramStopsShort
CHECK_DEADLOCK FALSE
