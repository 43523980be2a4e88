SPECIFICATION Spec
CONSTANTS
    NDatasets = 2
    Abstentions = {2}
    Golden = {1, 2}
    p = p
    q = q
    Reruns = {p, q}
    Selection <- Shares
    VoteCounts = {1, 3}
    MaxAnswers = 2
    Budgets <- Bounds
    Nobody = Nobody
CHECK_DEADLOCK FALSE
INVARIANTS VerdictsFit ProgressKept AggregateCountsAll
