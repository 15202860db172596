SPECIFICATION FairSpec
CONSTANTS
    r1 = r1
    r2 = r2
    r3 = r3
    t1 = t1
    t2 = t2
    Run = {r1, r2}
    Thread = {t1}
    Runner = {k1}
    ThreadOf <- MCThreadOf
    Temporary = {}
    AssistantRuns <- MCAssistantRuns
    Endless = {}
    MaxRetries = 1
    MaxOps = 1
    Requests = {"enqueue", "interrupt", "rollback", "delay", "cancel"}
    ListenTimeouts = FALSE
    EarlyFailures = FALSE
PROPERTIES
    EveryDueRunSettles
CHECK_DEADLOCK FALSE
