\* One organization fails while the other one grows.
CONSTANTS
  a1 = a1
  a2 = a2
  a3 = a3
  b1 = b1
  a4 = a4
  a5 = a5
  orgA = orgA
  orgB = orgB
  Sites <- MCSites
  OrgOf <- MCOrgOf
  AllowedOrgs <- MCAllowedOrgs
  Invalid = {}
  MAX_TOTAL_SITES = 3
  PAGE_LIMIT = 2
  MAX_PAGES_PER_ORG = 2
  MaxChanges = 1
  MaxFailures = 1
SPECIFICATION Spec
INVARIANTS NeverRejectedOversized
