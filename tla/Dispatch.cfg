SPECIFICATION Spec
CONSTANTS
  Batches <- MCBatches
  Policies <- AllPolicies
  MaxWorkers = 3
  MaxInFlight <- MCMaxInFlight
  MaxBatchSize = 3
  Cycle <- MCCycle
  NoMode = NoMode
  NoPool = NoPool
INVARIANTS
  DispatchTypeOK
  ParentsFirst
  OneBackendAtATime
  InFlightBound
  SerialIsDeterministic
PROPERTIES
  ImplementsExecution
  DispatchReturns
