SPECIFICATION AuditSpec
CONSTANTS
  Calls = {c1, c2, c3}
  NoExt = NoExt
  Requests <- MixedRequests
  Procs <- MixedProcs
  EmbedderOf <- MixedEmbedders
  TokenizerOf <- MixedTokenizers
  Exhaustive = FALSE
SYMMETRY Symmetry
CHECK_DEADLOCK FALSE
INVARIANTS
  NoSuccessInAlienStore
  MixNeedsRace
