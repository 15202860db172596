SPECIFICATION FairSpec
CONSTANTS
    r1 = r1
    r2 = r2
    r3 = r3
    t1 = t1
    t2 = t2
    Run = {r1, r2, r3}
    Thread = {t1, t2}
    Runner = {k1, k2}
    ThreadOf <- MCThreadOf
    Temporary = {}
    AssistantRuns <- MCAssistantRuns
    Endless = {r1}
    MaxRetries = 1
    MaxOps = 1
    Requests = {"enqueue"}
    ListenTimeouts = FALSE
    EarlyFailures = FALSE
PROPERTIES
    AvailableRunStarts
CHECK_DEADLOCK FALSE
