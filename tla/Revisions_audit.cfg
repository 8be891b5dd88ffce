SPECIFICATION EntrySpec
CONSTANTS
  None = None
  writer = writer  proposer = proposer  approver = approver
  title = title  state = state  val = val
  Docs = {d1}
  Fields = {title, state}
  Values = {val}
  Null = Null
  Users = {proposer, approver}
  Proposers = {proposer}
  Approvers = {proposer, approver}
  Allowed <- MCAllowed
  Reach <- MCReach
  Patches <- TwoPatches
  Calls <- AllDecide
  MaxBatch = 1
  AuditOn = TRUE
  Sessions = {s1, s2}
  Revs = {1, 2, 3, 4}
  NoRev = NoRev
  Documents <- MCDocuments
  ContentsOf <- MCContentsOf
  Readers <- MCReaders
  Lists <- MCLists
  Subfields <- MCSubfields
  Limit = 1
  Managers = {s1, s2}
  WithAcl = {"target"}
  MaxWrites = 4
  Collections <- MCCollections
  Vocab <- MCVocab
  Slugs = {"x", "y"}
  FileVersions <- MCVersions
  TextOf <- MCTextOf
  Carries <- MCCarries
  HeldBefore <- MCBefore
  Folders <- MCFolders
  Pool = {s1, s2}
  MaxAttempts = 2
  MaxActs = 4
  MaxPicks = 2
  MaxTroubles = 1
  Pages <- AllPages
  Targets = {"c1", "c2"}
  KeyedTargets = {"c1"}
  Uploadable = {"f1", "f2"}
  PageSizes = {1, 2}
  Total = 3
  Params = {"user", "collection"}
  Words = {"", "w"}
  AskedFor <- FieldsAsked
  VocabularyOf <- TermsOffered
  Papers = {"d1", "d2"}
  People_ = {"p", "q"}
  Lines = {"l1", "l2"}
  Edited = {"v1", "v2"}
  MaxSent <- AsksOf
  MaxOthers = 1
  Importers = {s1, s2}
  ImportFiles <- SomeFiles
  Sheets <- SomeSheets
  Workbooks <- SomeBooks
  Importable <- Both
  Source <- SourceOfClient
  YamlTerms = {}
  Slug <- SlugOf
  BlankCell = ""
  Parsed <- ParsedAs
  Shapes <- ShapesOf
  FieldName <- Normal
  MaxErrors = 2
  MaxRows = 3
  MaxRuns = 2
  MaxMishaps = 1
SYMMETRY Symmetric
INVARIANTS
  AuditedWrites NoEscape SecondPerson
  ComposedCorrect ImportCorrect PagesCorrect
PROPERTIES
  UploadsCorrect
