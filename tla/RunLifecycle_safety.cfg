SPECIFICATION Spec
CONSTANTS
    r1 = r1
    r2 = r2
    r3 = r3
    t1 = t1
    t2 = t2
    Run = {r1, r2}
    Thread = {t1}
    Runner = {k1, k2}
    ThreadOf <- MCThreadOf
    Temporary = {}
    AssistantRuns <- MCAssistantRuns
    Endless = {}
    MaxRetries = 1
    MaxOps = 1
    Requests = {"put-thread", "delete-thread", "delete-run", "reject", "enqueue", "interrupt", "rollback", "delay", "cancel", "cancel-unscoped"}
    ListenTimeouts = TRUE
    EarlyFailures = TRUE
SYMMETRY RunnerSymmetry
INVARIANTS
    TypeOK
    OneRunningPerThread
    SoleExecutor
    RunnersSuffice
    WebhookAtMostOnce
    BusyWhileInflight
    NoLostCancel
PROPERTIES
    OutcomeIsFinal
CHECK_DEADLOCK FALSE
