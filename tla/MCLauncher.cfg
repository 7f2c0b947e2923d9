SPECIFICATION FairSpec
CONSTANTS
  Flows = {f1, f2}
  Procs = {p1, p2}
  None = None
INVARIANTS
  TypeOK
  ChildrenAreManaged
  StopIsOffered
PROPERTIES
  CallbackSparesAwaited
  BusyEnds
