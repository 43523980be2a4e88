SPECIFICATION Spec
CONSTANTS
    NSamples = 2
    NSessions <- MCNSessions
    Settings = {c1, c2}
    None = None
    Torn = Torn
    c1 = c1
    c2 = c2
INVARIANTS SnapshotsAreSound ContinuesTheSnapshots AnswersOverWholeIngest ArchivesAreOwn
SYMMETRY MCSymmetry
CONSTRAINT MCBound
