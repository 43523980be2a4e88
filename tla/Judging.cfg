SPECIFICATION Spec
CONSTANTS
    NQuestions = 3
    VoteCounts = {1, 3}
    SaveEvery = 2
    MaxAttempts = 1
    None = None
INVARIANTS CarryRule ResultsInPlace SummaryIsComplete
PROPERTY VerdictsAreFinal
