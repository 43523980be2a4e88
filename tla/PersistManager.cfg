SPECIFICATION FairSpec
CONSTANTS
    Callers = {c1, c2}
    Owner = c1
    Entities = {e1}
    Relationships = {r1}
    None = None
INVARIANTS ManagerSound NoFailureForgotten Durable
PROPERTIES FlushCovers RestartKeepsPromise LockReleased
