SPECIFICATION RefineFairSpec
CONSTANTS
    Rows <- Conversation
    Ending <- EndsWith
    Within <- Contained
    Replies <- Mouths
    Audits <- Rulings
    Configs <- Setups
    Contexts <- Retrieved
    Stored <- InStore
    MaxCalls = 5
    MaxSids = 3
    MaxLines = 2
    TopN = 1
    Window = 1
CHECK_DEADLOCK FALSE
INVARIANTS ContextIsSound PatienceIsConsecutive
PROPERTIES RefinementEnds
