SPECIFICATION LiveSpec
CONSTANTS
    r1 = r1
    r2 = r2
    openai = openai
    claude = claude
    hour = hour
    day = day
    noRule = noRule
    NoRule = noRule
    Rule <- OneRule
    Provider <- OneProvider
    Period <- TwoPeriods
    Due <- DueTwo
    Cooldown = 1
    ExpireAfter = 1
    MaxAlerts = 1
    MaxTime = 2
    MaxFaults = 1
PROPERTIES DecisionsEvaluated OpenAlertsExpire
CHECK_DEADLOCK FALSE
