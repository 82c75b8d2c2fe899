SPECIFICATION EvalFairSpec
CONSTANTS
  p1 = p1
  p2 = p2
  Procs = {p1, p2}
  ModelOf <- OneModel
  Texts = {"a", "b"}
  Calls <- MCCalls
  BatchSize = 1
  MaxPulls = 1
  Mortal = {p1}
  Hole = Hole
  Absent = Absent
  Torn = Torn
  Broken = Broken
  Unranked = Unranked
  KValues = {1, 2}
  LongerThan = 520
  LongGoldKeys = {"k1", "k3"}
  Inputs <- MCInputs
  Samples <- MCSamples
  DbOf <- OneDb
  SetsOf <- MCSetsOf
  Vocabulary = {"t"}
  Reserved = {"d1"}
  IngestBatchSize = 1
  Limit = 2
  Rounds = 2
  Score <- MCScore
  RunesOf <- MCRunesOf
  Nobody = Nobody
  NoDigest = NoDigest
CHECK_DEADLOCK FALSE
INVARIANTS
  EvalTypeOK
  AnswersInOrder
  ReportIsTrue
  DigestIsOfWeights
  MetricsAgree
PROPERTIES
  FailsForCause
  RunsEnd
