SPECIFICATION Spec
CONSTANTS
  Methods = {"GET", "HEAD", "POST"}
  Requests <- MCRequests
  Routes <- MCRoutes
  Pages <- AdmittingPages
  MaxHeaderCount = 3
  MaxHeaderBytes = 14
  MaxHeaderValueBytes = 6
  MaxCookieCount = 2
  MaxCookieBytes = 4
  MaxCookieTotalBytes = 7
  MaxRawPathBytes = 4
  MaxRawQueryBytes = 4
  MaxPageBodyBytes = 4
INVARIANTS
  TypeOK
  HostsAgree
  CookieLimitsHold
CHECK_DEADLOCK FALSE
