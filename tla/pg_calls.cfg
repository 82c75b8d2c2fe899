SPECIFICATION Spec
CONSTANTS
  Calls = {c1, c2, c3}
  NoExt = NoExt
  Requests <- StoreRequests
  Procs <- OneProcs
  EmbedderOf <- OneEmbedder
  TokenizerOf <- OneTokenizer
  Exhaustive = TRUE
SYMMETRY Symmetry
CHECK_DEADLOCK FALSE
INVARIANTS
  TypeOK
  UniqueKeys
  IdNamesOneChunk
  RetrySameIds
PROPERTIES
  BatchIsAtomic
  DeleteExact
  OrgIsolation
  Implements
