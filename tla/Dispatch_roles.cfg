SPECIFICATION Spec
CONSTANTS
  Batches <- MCAlternating
  Policies <- AllPolicies
  MaxWorkers = 3
  MaxInFlight <- MCMaxInFlight
  MaxBatchSize = 3
  Cycle <- MCCycle
  NoMode = NoMode
  NoPool = NoPool
INVARIANTS
  RolesAdjacent
