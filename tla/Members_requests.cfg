SPECIFICATION CallersSpec
CONSTANTS
  None = None
  ann = ann  mo = mo  joiner = joiner  g = g
  Users = {ann, mo, joiner}
  Groups = {g}
  Requests = {r1, r2}
  Kinds = {"role", "remove", "account", "groups", "platform", "login", "signup"}
  Failing = {r1, r2}
  FirstRoles <- TwoAdminsOneNew
  Asked = {"member"}
  FirstGroups <- Both
  MaxCalls = 3
  agent = agent joining = joining owner = owner k1 = k1 k2 = k2 k3 = k3
  Clients = {agent, joining}
  Owners = {owner}
  Keys = {k1, k2, k3}
  Tokens = {t1}
  Asks = {r1, r2}
  Asking = {"mint", "rotate", "revoke", "expiry", "promote", "demote", "token", "authorize", "refresh", "register"}
  Robot <- OneRobot
  FirstKeys <- LiveAndDev
  FirstScopes <- DevPolicy
  FirstGrant <- Granted
  Wanted <- AllOrNothing
  KeyLife = 1
  MaxKeys = 2
  MaxDay = 1
  MaxAsks = 2
  Accounts = {a1, a2}
  Attempts = {r1, r2}
  Callers = {d1, d2, d3}
  MaxFailures = 2
  LockTime = 2
  RequestTime = 1
  CallsPerWindow = 2
  WindowTime = 2
  MaxTracked = 1
  MaxTime = 4
  MaxSignIns = 3
  MaxArrivals = 6
  op = op sc = sc dft = dft w1 = w1 p1 = p1 p2 = p2 pinnedApp = pinnedApp robotApp = robotApp
  Ids = {dft, w1}
  People = {p1, p2}
  Apps = {pinnedApp, robotApp}
  PlatformKeys = {op, sc}
  DefaultId = dft
  Calls = {r1, r2}
  FirstManaged <- Operator
  FirstPinned <- PinnedThere
  FirstHeadless <- Robots
  FirstMembers <- FirstRows
  Operations = {"create", "delete", "seed", "client", "switch", "write"}
  MaxRequests = 4
  Terminals = {r1, r2}
  Checkouts <- MCCheckouts
  Yml <- MCYml
  Legacy <- MCLegacy
  Moved = 4
  MaxStarts = 2
  MaxStops = 1
  MaxMishaps = 1
SYMMETRY Alike

  
PROPERTIES
  AloneKeepsAdmin
  KeysCorrect   StackCorrect
