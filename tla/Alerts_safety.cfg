SPECIFICATION Spec
CONSTANTS
    r1 = r1
    r2 = r2
    openai = openai
    claude = claude
    hour = hour
    day = day
    noRule = noRule
    NoRule = noRule
    Rule <- OneRule
    Provider <- OneProvider
    Period <- OnePeriod
    Due <- DueOne
    Cooldown = 1
    ExpireAfter = 1
    MaxAlerts = 2
    MaxTime = 2
    MaxFaults = 1
INVARIANTS TypeOK CooldownHolds OutcomesAreDue CascadeComplete
CHECK_DEADLOCK FALSE
