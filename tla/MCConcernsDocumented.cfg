SPECIFICATION Spec
CONSTANTS
  Templates <- MCTemplates
  Lists <- MCDocumentedLists
  MaxLost = 0
  MaxRuns = 2
  MaxEdits = 1
INVARIANTS
  DocumentedOrderEnables
CHECK_DEADLOCK FALSE
