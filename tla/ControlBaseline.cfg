SPECIFICATION Spec
CONSTANTS
    ScenarioA = ScenarioA  ScenarioB = ScenarioB
    Manifest <- MCManifest
    NoAnswer = NoAnswer  NoRow = NoRow
    MinCompatibleRuns = 2
    ControlCacheModes = {"use-if-eligible"}
    ResponseCacheModes = {"read_write"}
    MaxRuns = 4  MaxChanges = 1  MaxFailures = 1  MaxKills = 1  MaxMishaps = 2
INVARIANTS
    AnswersStayInTheirContext RecordsAreOfControlPlays BaselinesMatchTheRun
    ControlIsComplete ResumeKeepsFinishedPlays
