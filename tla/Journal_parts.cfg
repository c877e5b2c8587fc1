SPECIFICATION Spec
CONSTANTS
    t1 = t1
    c1 = c1
    c2 = c2
    ann = ann
    guest = guest
    f1 = f1
    w1 = w1
    w2 = w2
    buy = buy
    sell = sell
    manual = manual
    every = every
    upbit = upbit
    spot = spot
    binance = binance
    intended = intended
    mistake = mistake
    Tabs <- OneTab
    Calls <- TwoCalls
    Users <- MemberAndGuest
    Guest = guest
    Nobody = none
    MaxPairs = 2
    MaxFaults = 1
    Fetchers <- OneLoader
    Manual = manual
    ListsStore <- WhileListing
    ImportStore <- WhileImporting
    LibraryStore <- WhileBrowsing
    ActionOf <- Actions
    MaxOpens = 1
    TradeFilters <- ThreeFilters
    Everything = every
    Count <- Counts
    PageSize = 2
    None = none
    MaxCalls = 3
    MaxOpenings = 2
    MaxEdits = 2
    MaxBuilds = 2
    Retries = 2
    MaxAsks = 2
    Limit = 1
    MaxNotes = 2
    MaxRevs = 1
    MaxWire = 2
    MaxGets = 1
    MaxOthers = 1
    New = new
    Venues <- OneVenue
    Verdicts <- TwoVerdicts
    MaxTrades = 2
    MaxTime = 2
    Window = 1
    CardLimit = 2
    MaxLoads = 2
    MaxSubmits = 2
CONSTRAINT Bounded
INVARIANTS TypeOK RenewalsAreSafe AccountsStayApart  OneBubblePerTrade ViewIsSound AnswersFit  CardIsTrue FormFits
PROPERTIES  VerdictForAll TypedIsKept
CHECK_DEADLOCK FALSE
