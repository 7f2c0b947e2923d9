SPECIFICATION Spec
CONSTANTS
  Events <- MCEvents
  MaxEvents = 3
  ToolDefs <- MCToolDefs
  MaxTools = 4
  MaxLen = 5
  ToolSearchName <- MCToolSearchName
  Characters <- MCCharacters
  Legal <- MCLegal
  MaxNumber = 10
  Decimal <- MCDecimal
  Changes <- MCChanges
  Dirs = {1, 2, 3}
  ParentDir <- MCParentDir
  Environments <- MCEnvironments
  Flags <- MCFlags
  MaxSecrets = 2
  MaxEdits = 1
INVARIANTS
  EventsIntact
  ChatNamesUsable
  NamesComeBack
  AllOrNothing
  FilesStayWhole
  CheckIsAccepted
