SPECIFICATION OperatorSpec
CONSTANTS
  None = None
  ann = ann  mo = mo  g = g
  Users = {ann, mo}
  Groups = {g}
  Requests = {r1}
  Kinds = {"groups"}
  Failing = {}
  Asked = {}
  FirstGroups <- InGroup
  FirstRoles <- AdminAndManager
  MaxCalls = 3
  Envs = {"live"}
  Fields = {x, y}
  DefaultExpiry = 1
  Deciders = {d1, d2}
  Callers = {c1}
  FirstGrants <- SomeGrants
  MaxGrants = 3
  MaxTime = 1
  orders = orders papers = papers
  Names = {orders, papers}
  Projects <- Steps
  Boots = {d1, d2}
  LiveRows = {r1}
  MaxTurns = 2
  MaxStarts = 2
  MaxStops = 1
  Written <- MCWritten
  Edits <- MCEdits
  Overlays <- MCOverlays
  Variables = {"DB_URL", "MY_URL"}
  Values = {"set", ""}
  Misnamed = {"no__pe"}
  BytesOf <- MCBytes
  TsvOf <- MCTsv
  MaxChanges = 2
  supabase = supabase
  neon = neon
  plain = plain
  docker = docker
  fly = fly
  brew = brew
  npm = npm
  scoop = scoop
  winget = winget
  apt = apt
  alba = alba
  Providers <- MCProviders
  Hosts <- MCHosts
  LocalHosts <- MCLocalHosts
  OrgHosts = {supabase}
  Targets = {fly}
  DefaultTarget = fly
  Docker = docker
  Candidates <- MCCandidates
  Installers <- MCInstallers
  NeedsRoot = {apt}
  Machines <- MCMachines
  Folders <- MCFolders
  Titles <- MCTitles
  MaxLabel = 2
  NewIgnore <- MCNewIgnore
  Drafts <- MCDrafts
  MaxRuns = 2
  Torn = Torn
  Setups <- MCSetups
  Later <- MCLater
  Flags <- MCFlags
  Under <- MCUnder
  MaxCommands = 2
  MaxEdits = 1
  MaxMigrations = 1
  MaxFaults = 1
  MaxKills = 1
  Columns = {"name", "pay"}
  Layouts <- MCLayouts
  FirstLayout <- FirstFile
  Requester = ann
  Approvers = {ann, mo}
  VerbSets <- MCVerbSets
  Soon = 2
  MaxAsks = 2
  MaxDay = 1
  MaxRewrites = 1
SYMMETRY Alike
INVARIANTS
  EndedIsEnded SecondPerson
  SchemaCorrect FilesCorrect ReachCorrect
PROPERTIES
  DecisionsStand LossIsWarned
  DeployCorrect
