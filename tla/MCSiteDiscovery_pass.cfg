\* Two pages of two, an entry to skip, a cap of three that the tenants can hit, a
\* tenant that can have more entries than two pages; tenants and
\* the network quieten down in the end.
CONSTANTS
  a1 = a1
  a2 = a2
  a3 = a3
  b1 = b1
  a4 = a4
  a5 = a5
  orgA = orgA
  orgB = orgB
  Sites <- MCSites
  OrgOf <- MCOrgOf
  AllowedOrgs <- MCAllowedOrgs
  Invalid = {a2}
  MAX_TOTAL_SITES = 3
  PAGE_LIMIT = 2
  MAX_PAGES_PER_ORG = 2
  MaxChanges = 1
  MaxFailures = 2
SPECIFICATION FairSpec
PROPERTIES FailedOrgKeepsSites CompletePassExact Converges
