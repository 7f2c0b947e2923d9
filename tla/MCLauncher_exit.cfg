SPECIFICATION Spec
CONSTANTS
  Flows = {f1, f2}
  Procs = {p1}
  None = None
INVARIANT ExitStopsAdapter
