CONSTANTS
  None = None
  Broken = Broken
  Directory <- MCDirectory
  Candidates <- MCCandidates
  Libraries <- MCLibraries
  DocumentSets <- MCDocumentSets
  Packages <- MCPackages
  AliasOf <- MCAliasOf
  Unsupported = {4}
  Invalid = {7}
  Private = {9}
  MaxRuns = 3
SPECIFICATION Spec
INVARIANTS OutputFollowsItsSources
PROPERTIES ErrorsChangeNothing RepeatIsQuiet
CHECK_DEADLOCK FALSE
