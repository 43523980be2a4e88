SPECIFICATION FairSpec
CONSTANTS
    NDatasets = 2
    NSessions = 2
    Every = 1
INVARIANTS CountsAreTrue AnswersAreBacked GraphIsolated
PROPERTIES RunnerIsABatchRun RunEnds
