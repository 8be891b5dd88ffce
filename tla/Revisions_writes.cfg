SPECIFICATION ReadsSpec
CONSTANTS
  None = None
  writer = writer  proposer = proposer  approver = approver
  title = title  state = state  val = val
  Docs = {d1}
  Fields = {title, state}
  Values = {val}
  Null = Null
  Users = {writer, proposer}
  Proposers = {proposer}
  Approvers = {writer}
  Allowed <- MCAllowed
  Reach <- MCReach
  Patches <- Columns
  Calls <- WriterDecides
  MaxBatch = 1
  AuditOn = FALSE
  Sessions = {s1, s2}
  Revs = {1, 2, 3, 4}
  NoRev = NoRev
  own = own others = others
  Colls = {1, 2}
  Keyed = {1, 2}
  DocKeys = {1, 2, 3}
  Cols = {"id", "rank", "pay", "note"}
  Pk = "id"
  Rank = "rank"
  MaskedCols = {"pay"}
  NullableCols = {"note"}
  Stamps = {}
  Me = {own}
  FirstDocs <- Ties
  Contents <- New
  GrantsFor <- SomeGrants
  Intents <- Asked
  Batches <- SomeBatches
  SearchLimit = 3
  ReadOps = {"query", "batch", "search", "get"}
  MaxPages = 2
  MaxEdits = 1
  Readers = {ana}
  DataColumns = {"team", "pay"}
  CellValues = {0, 1}
  Created <- Unpaid
  MaskedColumns = {"pay"}
  Hides <- Dots
  Scope = "team"
  Grants <- Shapes
  MaxRevs = 3
  MaxTurns = 1
  Self = Self
  Subjects = {"ana", "bo"}
  Definitions <- Types
  Scopes <- Sets
  Cells <- CellsOf
  Spelt <- Named
  Tick = 10
  Widest = 500
  MaxDeployments = 1
  MaxFilterEdits = 1
SYMMETRY Symmetric
INVARIANTS
  OneCurrent Contiguous NoLostUpdate ProposalFresh
  ReadsCorrect HistoryCorrect FiltersCorrect
PROPERTIES
  IfMatchHolds IsDocumentHistory
