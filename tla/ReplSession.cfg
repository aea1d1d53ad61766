SPECIFICATION ReplFairSpec
CONSTANTS
    Codes = {200, 400}
    Framings = {"length", "chunked", "close"}
    MaxFaults = 2
    MaxPosts = 3
INVARIANTS OwnAnswer ErrorHasCause NoOrphan
PROPERTIES PromptReturns
CHECK_DEADLOCK FALSE
