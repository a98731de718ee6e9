CONSTANTS
  hub = hub
  s1 = s1
  s2 = s2
  stranger = stranger
  Agents <- MCAgents
  Outsiders = {stranger}
  NoMessage = 0
  NoReceipt = NoReceipt
  NoActivation = NoActivation
  Emissions <- UniformEmissions
  Replies <- UniformReplies
  MaxEventsPerTick = 2
  InboxLimit = 2
  RunSteps = 3
  Policies = {TRUE, FALSE}
  MaxLag = 2
  Faults = {"raises", "malformed", "action_raises"}
SPECIFICATION Spec
INVARIANTS NoConflict EnvironmentFollowsTrace FailedStepAllOrNone
