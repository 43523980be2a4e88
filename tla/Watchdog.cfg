SPECIFICATION FairSpec
CONSTANTS
    NDatasets = 2
    NSessions = 1
    MAX_SAME_PROGRESS_RESUMES = 1
    MaxRestarts = 1
    MaxErrors = 1
INVARIANTS SingleBatch BudgetsAreKept
PROPERTY SupervisionEnds
CHECK_DEADLOCK FALSE
