CONSTANTS
    Files <- MCFiles
    PruneOptions <- MCPruneOptions
    Graphs <- MCGraphs
    StripeOptions <- MCStripeOptions
    Slack = 1
    MetaMin = 2
    MetaMax = 3
    BatchMax = 30
    Wrap = 1024
SPECIFICATION StagesSpec
INVARIANT WithinAvailableMemory
CHECK_DEADLOCK FALSE
