SPECIFICATION Spec
CONSTANTS
    Absent = Absent  Torn = Torn
    MaxRuns = 2  MaxSaves = 1  Scenarios = 1  MaxKills = 0
INVARIANT FollowUpsAreClean
