SPECIFICATION Spec
CONSTANTS
  Calls = {c1, c2, c3, c4}
  NoExt = NoExt
  Requests <- TornRequests
  Procs <- TwoProcs
  EmbedderOf <- TwoEmbedders
  TokenizerOf <- TwoTokenizers
SYMMETRY Symmetry
CHECK_DEADLOCK FALSE
INVARIANTS
  IndexInStep
  SingleSpace
  IdNamesOneChunk
  ScoresOfSameChunk
PROPERTY
  Implements
