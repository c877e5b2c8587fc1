SPECIFICATION Spec
CONSTANTS
    u1 = u1
    u2 = u2
    q1 = q1
    q2 = q2
    openai = openai
    claude = claude
    free = free
    gold = gold
    User <- OneUser
    Req <- TwoReqs
    Provider <- OneProvider
    ServiceKey <- OneProvider
    Tier <- Tiers
    Free = free
    Quota <- QuotaOf
    Cap = 1
    DaysPerMonth = 1
    MaxDay = 1
    MaxFaults = 0
INVARIANT CapHolds
