CONSTANTS
  hub = hub
  s1 = s1
  s2 = s2
  stranger = stranger
  Agents <- MCAgents
  Outsiders = {stranger}
  NoMessage = 0
  NoReceipt = NoReceipt
  NoActivation = NoActivation
  Emissions <- MixedEmissions
  Replies <- MixedReplies
  MaxEventsPerTick = 2
  InboxLimit = 8
  RunSteps = 3
  Policies = {TRUE}
  MaxLag = 1
  Faults = {}
SPECIFICATION Spec
INVARIANTS EngineTypeOK SingleWave CausallyClosed NoStrandedMessage
