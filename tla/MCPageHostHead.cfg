SPECIFICATION Spec
CONSTANTS
  Methods = {"GET", "HEAD"}
  Requests <- SomeRequests
  Routes <- OneRoute
  Pages <- MCPages
  MaxHeaderCount = 3
  MaxHeaderBytes = 14
  MaxHeaderValueBytes = 6
  MaxCookieCount = 2
  MaxCookieBytes = 4
  MaxCookieTotalBytes = 7
  MaxRawPathBytes = 4
  MaxRawQueryBytes = 4
  MaxPageBodyBytes = 4
INVARIANTS
  HeadRejectionHasNoBody
CHECK_DEADLOCK FALSE
