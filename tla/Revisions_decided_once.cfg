SPECIFICATION Spec
CONSTANTS
  writer = writer  proposer = proposer  approver = approver
  title = title  state = state  val = val
  Docs = {d1}
  Fields = {title, state}
  Values = {val}
  Null = Null
  Users = {writer, proposer}
  Proposers = {proposer}
  Approvers = {writer}
  Allowed <- MCAllowed
  Reach <- MCReach
  Patches <- OnePatch
  Calls <- ProposeOrDecide
  MaxBatch = 1
  AuditOn = FALSE
  Sessions = {s1, s2}
  Revs = {1, 2, 3}
  NoRev = NoRev
SYMMETRY Symmetric
PROPERTIES DecidedOnce
