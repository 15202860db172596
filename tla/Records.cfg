SPECIFICATION Spec
CONSTANTS
  ThreadIds = {t1, t2}
  Users = {u1, u2}
  Requests = {q1, q2}
  Suspending = {"create", "read", "update"}
  MaxRecords = 2
  AssistantIds = {a1}
  Configs = {f1, f2}
  CronIds = {k1}
  Period <- MCPeriod
  Poison = {}
  MaxVersion = 2
  MaxClock = 3
  Updates = {e1, e2}
  StateRuns = {r1}
  MaxCheckpoints = 2
  NRows = 3
  NStored = 2
  PageLimit = 1
  MaxChanges = 2
  Queries <- MCQueries
  PgCrons = {"c1", "c2"}
  Schedulers = {"p1"}
  Keepers = {"k1"}
  MaxDate = 2
  CoreIds = {"i1", "i2"}
  CoreUsers = {"u1", "u2"}
  Callers = {"c1", "c2"}
  PruneLists <- MCPruneLists
  UserOf <- MCUserOf
  BatchSize = 2
  MaxMade = 2
  MaxRefusals = 1
  Tenants = {"t1"}
  Keys = {"k1", "k2"}
  Allowed = {"k1"}
  Skipped = {"k2"}
  CronNames = {"c1", "c2"}
  MaxSaves = 2
  Redeploys <- MCRedeploys
INVARIANTS
  RecordsTypeOK   NoCronLeftBehind
  DatesFireOnce  ListingsAgree 
CHECK_DEADLOCK FALSE
