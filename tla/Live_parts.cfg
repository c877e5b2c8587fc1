SPECIFICATION FairSpec
CONSTANTS
    t1 = t1
    c1 = c1
    c2 = c2
    guest = guest
    binance = binance
    mistake = mistake
    btc = btc
    every = every
    new = new
    none = none
PROPERTIES WaitingCallsSettle WaitsEnd
CHECK_DEADLOCK FALSE
