SPECIFICATION Spec
CONSTANTS
  Projects = {1, 2}
  Tools = {t1, t2}
  Handlers = {h1}
  MaxTokens = 2
INVARIANTS
  EntriesSurvive
  GlobalTokenAccepted
PROPERTY RefreshCatchesUp
