SPECIFICATION FairSpec
CONSTANTS
  Calls = {c1, c2, c3}
  NoExt = NoExt
  Requests <- WaitRequests
  Procs <- OneProcs
  EmbedderOf <- OneEmbedder
  TokenizerOf <- OneTokenizer
  Exhaustive = TRUE
CHECK_DEADLOCK FALSE
PROPERTY
  AllAnswered
