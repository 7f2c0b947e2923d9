SPECIFICATION Spec
CONSTANTS
  Requests = {r1, r2}
  CliLimit = 0
  EnvLimit = 1
  DefaultMaxConcurrency = 2
  MaxStarts = 1
INVARIANT ConfiguredLimitHolds
