SPECIFICATION DataPathSpec
CONSTANTS
    Tables <- SmallTables
    Attributes = {"a", "b"}
    Single = 0
    Null = Null
    NaN = NaN
    Series = {i1, i2}
    Lengths <- BacktestLengths
    Horizons <- BacktestHorizons
    WindowCounts <- BacktestCounts
    Seasons <- BacktestSeasons
    g1 = g1
    g2 = g2
    N = 2
    TrainedLengths <- PredictionLengths
    Periods <- PredictionPeriods
    Horizon = 3
    Ends <- PredictionEnds
    Gaps <- PredictionGaps
    Day = 2
    Kinds = {g1, g2}
    Limit = 1
    NotGiven = NotGiven
    b1 = b1
    b2 = b2
    Forecasts <- TwoForecasts
    Keys = {k1}
    Bytes = {b1, b2}
    Backends = {"local", "r2"}
    None = None
SYMMETRY Symmetry
CHECK_DEADLOCK FALSE
INVARIANTS
    RowsKept
    ValuesUsable
    TypeOK
    NoLookahead
    ScoredOnce
    BaselineInPhase
    RowsContinue
    TotalsComplete
    ColdStartInPhase
    ReportsStand
