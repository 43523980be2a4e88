SPECIFICATION IngestSpec
CONSTANTS
    a = a
    b = b
    Sessions <- MCSessions
    Ents = {a, b}
    Anchors = {b}
    Facts = {f, g}
    MaxNames = 2
    MaxRetries = 1
CHECK_DEADLOCK FALSE
INVARIANT StoresAgree
PROPERTY RelationshipsAccumulate
