CONSTANTS
  hub = hub
  s1 = s1
  s2 = s2
  stranger = stranger
  Agents <- MCAgents
  Outsiders = {stranger}
  NoMessage = 0
  NoReceipt = NoReceipt
  NoActivation = NoActivation
  Emissions <- UniformEmissions
  Replies <- UrgentReplies
  MaxEventsPerTick = 8
  InboxLimit = 2
  RunSteps = 3
  Policies = {FALSE}
  MaxLag = 1
  Faults = {}
SPECIFICATION Spec
INVARIANTS NoMessageSkipped
