SPECIFICATION BackgroundSpec
CONSTANTS
  None = None
  Mutators = {m1, m2}
  Importers = {i1}
  Collections = {c1, c2}
  Readable = {c1}
  Limit = 1
  MaxBatch = 2
  MaxXid = 3
  MaxSeq = 2
  Wrap = 1000
  staff = staff teams = teams op = op ana = ana
  Machines = {m1, m2}
  Regens = {r1}
  Tenants = {dflt, acme}
  Default = dflt
  Seeds = {1, 2}
  BootSeed = 1
  Tables <- InOrder
  Parent <- ParentOf
  Source <- SourceOf
  RowsEach = 1
  Roles = {reader}
  MaxTries = 1
  AppVersions = 2
  Operator = op
  Personas <- Demo
  RoleOf <- DemoRoles
  Granted = {ana}
  MaxBoots = 2
  MaxRoleEdits = 1
  Decisions = {q1, q2}
  BatchSize = 2
  MaxTroubles = 2
INVARIANTS
  MissedAreYounger FeedIsExact
  TrailCorrect
PROPERTIES
  Drains WorkEnds
  BootCorrect
