SPECIFICATION Spec
CONSTANTS
  Sessions = {s1, s2}
  Mixes <- MCMixes
  NRuns = 2
  NVersions = 3
  PgConfigs = {f1, f2}
  PgRuns = {r1, r2}
  Tooled = {r1, r2}
  Workers = {w1, w2}
  Concurrency = 1
  MaxCrashes = 1
  Joiners = {j1, j2}
  PoolSize = 2
  Processes = {w1, w2}
  Jobs <- MCJobs
  MaxRetries = 1
  QueueSize = 1
  MaxFaults = 1
  ServerRuns = {r1, r2}
  MaxStarts = 3
  Callers = {c1, c2}
  FreshFor = 1
  MaxAge = 2
  NLoads = 2
  MaxWrites = 2
  MaxTicks = 2
  Sidecars = {"graphs", "http"}
  Graphs = "graphs"
  ReadyPolls = 1
  Calls = {"c1"}
  MaxHangs = 1
INVARIANTS ServicesTypeOK TransactionsAgree  SuccessIsWhole 
PROPERTIES WorkEnds
CHECK_DEADLOCK FALSE
