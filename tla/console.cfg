SPECIFICATION ConsoleSpec
CONSTANTS
  InstThreads = {r1, r2}
  InstIds = {1, 2}
  Servers = {s1, s2}
  Spellings = {"any", "host"}
  AccountOf <- MCAccountOf
  RowOf <- MCRowOf
  Meets <- MCMeets
  Secrets = {p1, p2}
  InstRequests = 2
  InstChanges = 1
  HostThreads = {r1, r2}
  HostIds = {1, 2}
  ClusterIds = {1, 2}
  Environments = {e1, e2}
  ExporterUrls = {u1, u2}
  Kubeconfigs = {k1, k2}
  HostForms <- MCHostForms
  ClusterForms <- MCClusterForms
  e1 = e1
  e2 = e2
  u1 = u1
  u2 = u2
  k1 = k1
  k2 = k2
  HostRequests = 2
  HostChanges = 1
  Batches = {r1, r2}
  Writers = {w1}
  RedisKeys = {ka, kb}
  ka = ka
  kb = kb
  Uploads <- MCUploads
  RedisWrites = 1
  PoolHandlers = {h1, h2, h3}
  Leases = {l1, l2}
  PoolAccounts = {a1, a2}
  Breaks = 1
  PlatThreads = {r1, r2}
  PlatIds = {1, 2}
  PlatPlaces = {q1, q2}
  PlatRequests = 3
  Workloads = {"w"}
  Templates = {1}
  MaxUids = 5
  MaxEvents = 5
  N = 2
  Thread = {r1, r2}
  NoOne = NoOne
  MaxVersion = 2
  MaxSession = 1
SYMMETRY Symmetry
CONSTRAINTS SmallAtFirst FewChanges
INVARIANTS ConsoleTypeOK WrongNeverSaved TlsAgrees SummaryTrue PoolLocks RowsTrue AcceptedIsCurrent NoLockCycle
PROPERTIES SavedIsTrue SavedUnlessRaced KeepsUnlessRaced StaysResolved AuthorisedCommit
CHECK_DEADLOCK FALSE
