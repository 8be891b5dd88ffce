SPECIFICATION FairSpec
CONSTANTS
  short = short  long = long  u1 = u1
  Paths = {1, 2}
  Mirror = {1}
  Versions = {1, 2, 3}
  Texts = {short, long}
  Text <- Extracted
  Size <- Pieces
  Rejected = {1}
  None = None
  Indexers = {i1}
  Uploaders = {u1}
  Sweepers = {e1}
  Corpus <- Two
  Embedding = {u1}
  Failing = {i1, u1}
  Batch = 1
  Keys = {1, 2, 3, 4, 5}
  MaxCalls = 3
INVARIANTS
  SearchSeesTheText
PROPERTIES
  RunMirrors Embedded
