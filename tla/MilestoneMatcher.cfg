SPECIFICATION Spec
CONSTANTS
    CONTACT = CONTACT  SETTING = SETTING  SANDBOX = SANDBOX
    NoReference = NoReference  NoEdgeList = NoEdgeList
    Databases = {CONTACT, SETTING}
    Unit = 2
    Problems <- MCProblems
    Likeness <- TableLikeness
INVARIANT MatchIsOptimal
CHECK_DEADLOCK FALSE
