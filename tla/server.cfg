SPECIFICATION CtlFairSpec
CONSTANTS
  Absent = Absent
  c1 = c1
  Conns = {c1, c2}
  Clients = {c1}
  Invocations <- AllInvocations
  Float32 <- Weights
  NotInJSON <- NoNumbers
  Requests <- CtlRequests
  Probes <- WiredProbes
CHECK_DEADLOCK FALSE
INVARIANTS
  AnswerTellsEffect
  SearchIsHonest
  HealthReportsWorst
  ServesOnlyMigrated
  NoHandleLeft
  CleanExitCutsNobody
  ExitTells
  AsksValidly
PROPERTY
  SignalStops
