SPECIFICATION FairSpec
CONSTANTS
  Requests = {r1, r2, r3}
  CliLimit = 2
  EnvLimit = 0
  DefaultMaxConcurrency = 8
  MaxStarts = 2
INVARIANTS
  TypeOK
  PermitsConserved
  CompletedIsStored
  FailedIsNotStored
  ReplyIsWhole
PROPERTIES
  WaitingIsAnswered
  UpstreamIsLeft
  DrainingEnds
