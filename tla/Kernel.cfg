CONSTANTS
  Kernels <- MCKernels
  Agents <- KernelAgents
  Outsiders = {}
  NoMessage = 0
  NoReceipt = NoReceipt
  NoActivation = NoActivation
  Emissions <- KernelEmissions
  Replies <- KernelReplies
  MaxEventsPerTick = 32
  InboxLimit <- KernelInboxLimit
  RunSteps = 4
  Policies = {FALSE}
  MaxLag = 1
  Faults = {}
SPECIFICATION KernelSpec
INVARIANTS ShapeAsExpected KernelVerified LastWriteWins
