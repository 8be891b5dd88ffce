SPECIFICATION Spec
CONSTANTS
  short = short  long = long  u1 = u1
  Paths = {1, 2}
  Mirror = {}
  Versions = {1, 3}
  Texts = {short, long}
  Text <- Extracted
  Size <- Pieces
  Rejected = {}
  None = None
  Indexers = {}
  Uploaders = {u1}
  Sweepers = {}
  Corpus <- Two
  Embedding = {u1}
  Failing = {u1}
  Batch = 1
  Keys = {1, 2, 3, 4, 5}
  MaxCalls = 3
PROPERTY ResumeIsComplete
