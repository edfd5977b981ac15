CONSTANTS
  Policies <- MCPolicies
  MaxAge = 2
  Lease = 2
  MaxFaults = 1
  MaxTransitions = 2
  MaxEdits = 1
  MaxRefreshes = 1
SPECIFICATION MCSpec
INVARIANT
  FlappingKeepsBudget
PROPERTIES
  AnnouncementsArePaced
  AnnouncedInTheEnd
  ProtectionFollowsEvidence
  TransitionsAreKept
  ToldInTheEnd
