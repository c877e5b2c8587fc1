SPECIFICATION Spec
CONSTANTS
    btc = btc
    eth = eth
    aapl = aapl
    csv = csv
    binance = binance
    upbit = upbit
    q1 = q1
    q2 = q2
    partial = partial
    every = every
    closed = closed
    none = none
    None = none
    All = every
    Partial = partial
    FillSymbols <- BtcAndEth
    MaxQty = 2
    MaxFills = 4
    CandleSymbols <- BtcAndAapl
    Supported <- OnlyBtc
    Frames <- DayAndHour
    DayFrame = "1d"
    Csv = csv
    LastTime = 3
    Limit = 1
    MaxCandleEvents = 4
    KlineLoads <- ThreeLoads
    NoKlines <- NoCandles
    Steps <- OneOrTwo
    MaxReplayEvents = 4
    BoardSymbols <- TwoMarkets
    BoardCandles <- OneCandle
    Bubbles <- TwoBubbles
    BoardTrades <- ThreeTrades
    BoardPositions <- OnePosition
    Actions <- BuyAndSell
    PanelSize = 1
    MaxBoardEvents = 1
    Now = 7
    Day = 2
    Week = 3
    Month = 5
    Width = 7
    SmartLimit = 4
    RecentLimit = 3
    MaxMarkers = 3
    Spacing <- Pixels
    Plan <- TwoThenOne
    MaxVisits = 1
    MaxFresh = 1
    MaxWire = 2
    LastDay = 3
    MaxDayTrades = 2
    MaxCompletions = 2
    DayRequests <- TwoRequests
    NoteSymbols <- BtcAndEth
    CardsPerPage = 1
    Slice = 2
    MaxNotes = 2
    MaxChanges = 3
    MaxGens = 2
    MaxTurns = 2
    FetchVenues <- OneVenue
    TotalVenues <- TwoVenues
    MaxAsks = 3
    MaxFails = 1
    MaxLoads = 2
    MaxTotalTrades = 2
    HeldVenues <- Held
    Statuses <- EveryAndClosed
    HeldPositions <- PositionsHeld
    HeldPages <- PagesHeld
    HeldTrades <- TradesHeld
    HeldFills <- FillsHeld
    PageSize = 1
CONSTRAINT Bounded
INVARIANTS TypeOK    MarkersAreTrue   FiguresFit
PROPERTIES ReplayIsHonest SummariesAreFresh
CHECK_DEADLOCK FALSE
