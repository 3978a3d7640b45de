SPECIFICATION Spec
CONSTANTS
  Paths <- MCPaths
  PatternLists <- MCPatternLists
INVARIANTS
  FirstDescriptionWins
  PathIsRecoverable
  PatternFaultIsTheServers
CHECK_DEADLOCK FALSE
