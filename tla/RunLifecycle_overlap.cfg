SPECIFICATION Spec
CONSTANTS
    r1 = r1
    r2 = r2
    r3 = r3
    t1 = t1
    t2 = t2
    Run = {r1, r2}
    Thread = {t1}
    Runner = {k1, k2}
    ThreadOf <- MCThreadOf
    Temporary = {}
    AssistantRuns <- MCAssistantRuns
    Endless = {}
    MaxRetries = 1
    MaxOps = 1
    Requests = {"rollback"}
    ListenTimeouts = FALSE
    EarlyFailures = FALSE
INVARIANTS
    OneExecutionPerThread
CHECK_DEADLOCK FALSE
