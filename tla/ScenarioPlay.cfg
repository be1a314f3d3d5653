SPECIFICATION Spec
CONSTANTS
    Scenarios <- Catalogue
    MaxBatch = 2
    OrderSensitive <- WifiOffHoliday
    Unfinished <- NoConversion
    Leaky <- TellingTheTime
INVARIANTS
    GoodPlaysScoreFull
    CreditIsEarned
    OutcomeIgnoresTheRoute
    ForbiddenCallsNullify
    InformationIsWithheld
PROPERTY EveryTaskCanBeDone
CHECK_DEADLOCK FALSE
