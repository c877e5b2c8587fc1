SPECIFICATION LiveSpec
CONSTANTS
    u1 = u1
    u2 = u2
    q1 = q1
    q2 = q2
    openai = openai
    claude = claude
    free = free
    gold = gold
    User <- TwoUsers
    Req <- NoReq
    Provider <- OneProvider
    ServiceKey <- OneProvider
    Tier <- Tiers
    Free = free
    Quota <- QuotaOf
    Cap = 0
    DaysPerMonth = 2
    MaxDay = 3
    MaxFaults = 1
PROPERTIES  MissedResetIsMadeUp
