SPECIFICATION ToolsSpec
\* Calls end, and every bound may be reached.
CHECK_DEADLOCK FALSE
CONSTANTS
  Names = {n1, n2, n3}
  Sessions = {s1, s2}
  NoSession = none
  Torn = torn
  Cut = cut
  MaxSize = 2
  MaxEntries = 5
  GroupNames = {g1, g2}
  Hosts = {h1, h2}
  MaxHosts = 3
  Handlers = {handler1, handler2}
  Empty = empty
  Publishers = {p1}
  MaxArrays = 3
  Permissions = {read, write}
  NoDecision = nodecision
  Threads = {t1, t2}
  MaxRequests = 2
  MaxCrashes = 1
  Users = {u1, u2}
  MaxLoads = 2
  MaxClients = 2
  Clients = {c1, c2}
  StepIDs = {step1, step2}
  NoStep = nostep
  MaxSteps = 2
  MaxMessages = 2
  OwnPatterns = {pattern1}
  OwnRules = {rule1}
  MaxAdded = 2
INVARIANTS
  NamesResolve
  IDsIdentify
  GlobalShowsRecent
  GroupsSaved
  DeliveredOnce
  OnlyAllowed
  UninstallLeavesNothing
  AgentsSettle
  ResultsAreTrue
  GuardsHold
