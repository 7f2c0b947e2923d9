SPECIFICATION Spec
CONSTANTS
  Projects = {1, 2}
  Tools = {t1}
  Handlers = {h1, h2}
  MaxTokens = 2
PROPERTY RegisteredStaysLoaded
