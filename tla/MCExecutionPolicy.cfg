CONSTANTS
  Calls = {c1, c2, c3}
  MaxAttempts = 2
  FailureThreshold = 2
  HalfOpenMaxSuccesses = 2
  MaxFailures = 2
SPECIFICATION FairPolicySpec
INVARIANTS
  PolicyTypeOK
  CooldownHeld
PROPERTIES
  OpenShedsLoad
  ImplementsBreaker
  EverySubmitSettles
  RecoversOnceHealthy
