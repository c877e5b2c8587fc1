SPECIFICATION Spec
CONSTANTS
    s1 = s1
    s2 = s2
    none = none
    poller = poller
    m1 = m1
    Symbol <- OneSymbol
    NoSymbol = none
    Dead = {}
    Poller = poller
    Manual <- OneManual
    PageLimit = 2
    Window = 1
    MaxTime = 2
    MaxTrades = 2
    MaxFaults = 1
INVARIANTS TypeOK CursorSound OrphansNeedFaults
