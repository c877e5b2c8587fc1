SPECIFICATION LiveSpec
CONSTANTS
    s1 = s1
    s2 = s2
    none = none
    poller = poller
    m1 = m1
    Symbol <- TwoSymbols
    NoSymbol = none
    Dead <- SecondDead
    Poller = poller
    Manual <- NoManual
    PageLimit = 1
    Window = 1
    MaxTime = 1
    MaxTrades = 2
    MaxFaults = 1
PROPERTIES EveryTradeStored
