SPECIFICATION PushSpec
CONSTANTS
  s1 = s1
  Sessions <- MCSessions
  Policies <- MCPolicies
  Guints = 4
  MaxLoad = 3
  PushFaults = {"info_fails", "call_fails", "show_fails"}
INVARIANTS
  PushTypeOK
  IconCounts
PROPERTIES
  AcceptedOnlyIfAllowed
  RejectedIsSilent
  EveryOfferAnswered
