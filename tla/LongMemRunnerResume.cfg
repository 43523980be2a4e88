SPECIFICATION Spec
CONSTANTS
    NDatasets = 2
    NSessions = 2
    Every = 2
INVARIANTS AnswersOnCompleteGraph
