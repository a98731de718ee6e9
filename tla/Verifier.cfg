CONSTANT Traces <- MCTraces
SPECIFICATION Spec
INVARIANTS VerifierTypeOK CyclesExact InOrderNeedsNoStack AcceptedIffReplayable NoForkedHistory MetricsExact
