SPECIFICATION RetrieveSpec
CONSTANTS
    Ents = {1, 2, 3, 4}
    Rels = {11, 12, 13}
    Ends <- Path
    NameOf <- Names
    Questions = 2
    Settings <- Configs
    Stores <- Contents
    Weights <- Strengths
    Full = 4
    TauA = 1
    MaxHops = 2
    TopHits = 1
    BatchSize = 2
    TopE = 2
    TopR = 1
    Floor = 1
    Scorings <- Scores
    Dated = {3}
    MaxAttempts = 2
CHECK_DEADLOCK FALSE
INVARIANTS ContextIsFound RowsTellTheRun
