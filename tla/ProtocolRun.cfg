SPECIFICATION FairSpec
CONSTANTS
    Absent = Absent  Torn = Torn
    MaxRuns = 2  MaxSaves = 1  Scenarios = 1  MaxKills = 1
INVARIANTS TypeOK GateFollowsBothArms FailedGateRestores PassedBirthsStay
PROPERTIES EveryRunEnds
