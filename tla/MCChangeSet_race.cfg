\* Two change sets of one object, two concurrent calls, other administrators.
CONSTANTS
  ChangeSets = {c1, c2}
  Calls = {p1, p2}
  Principals = {alice, bob}
  Humans = {bob}
  Devices = {net}
  Existing = {net}
  Orgs = {org}
  Values = {v1, v2}
  HomeOrg <- MCHomeOrg
  None = None
  LabMode = FALSE
  EvidenceOn = TRUE
  Faults = {}
  PlanTTL = 0
  MaxTime = 0
  MaxEdits = 2
  MaxCrashes = 0
SYMMETRY Symmetry
SPECIFICATION Spec
INVARIANTS ApprovalSpentOnce StrandedOnlyAfterFault DriftedNeverWritten
PROPERTIES NoLostUpdate
