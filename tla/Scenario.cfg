CONSTANTS
  AgentCoordinator = "agent_coordinator"
  None = None
  NaN = NaN
  Regions <- MCRegions
  Responses <- MCResponses
  Setups <- MCSetups
  MaxFailures = 1
SPECIFICATION Spec
INVARIANTS CallsAccounted ResultObeysPolicy OwnAnswerStands FallbackLikeRule RoundsOfThree RoundIsAnswered
