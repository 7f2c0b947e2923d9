SPECIFICATION Spec
CONSTANTS
  Projects = {1, 2}
  Tools = {t1}
  Handlers = {}
  MaxTokens = 2
INVARIANT NewProjectCanBeLoaded
