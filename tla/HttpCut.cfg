SPECIFICATION Spec
CONSTANTS
    Codes = {200}
    Framings = {"length", "chunked"}
    MaxFaults = 1
    MaxPosts = 1
INVARIANT AnswerWhole
CHECK_DEADLOCK FALSE
