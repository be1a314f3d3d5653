SPECIFICATION Spec
CONSTANTS
    k1 = k1  k2 = k2  k3 = k3  t1 = t1  t2 = t2  f1 = f1  f2 = f2
    NoEntry = NoEntry  Nothing = Nothing
    ToolNames = {t1, t2}
    Keys = {k1, k2, k3}
    GenerationAllowed = {k1, k2}
    N = 3
    Family <- MCFamily
    Observable <- MCObservable
    Routes <- MCRoutes
    Suggested <- MCSuggested
    Broader <- MCBroader
    Producible <- MCProducible
    RequiredFamilies <- MCRequiredFamilies
    RecurrenceThreshold = 2
    MaxRejections = 1
    Repairing = TRUE
    MaxCrashes = 1
    MaxCalls = 1
INVARIANT ClaimsNeedDiverseEvidence
