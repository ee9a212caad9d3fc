\* A caller with a token or without one, two regions, lists of up to three records.
\* A caller whose token lost its scope has every further request refused.
CONSTANTS
  listOrg = listOrg
  searchSite = searchSite
  Callers = {ann}
  Ops = {listOrg, searchSite}
  Capability <- MCCapability
  Selector <- MCSelector
  Pagination <- MCPagination
  AllowedOrgs = {orgA}
  OtherOrgs = {orgX}
  SiteIds = {siteA}
  Origins = {eu, us}
  MaxItems = 3
  MAX_LIMIT = 2
  MaxEdits = 1
  MaxReloads = 1
  None = None
SPECIFICATION Spec
CHECK_DEADLOCK FALSE
INVARIANTS WalkHasOneSource WalkExact
PROPERTIES EveryPageReauthorised
