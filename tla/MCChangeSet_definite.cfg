\* No faults at all: what the receipts say of a write that Mist answered.
CONSTANTS
  ChangeSets = {c1}
  Calls = {p1}
  Principals = {bob, agent}
  Humans = {bob}
  Devices = {net}
  Existing = {net}
  Orgs = {org1}
  Values = {v1, v2}
  HomeOrg <- MCHomeOrg
  None = None
  LabMode = FALSE
  EvidenceOn = TRUE
  Faults = {}
  PlanTTL = 0
  MaxTime = 0
  MaxEdits = 0
  MaxCrashes = 0
SPECIFICATION Spec
INVARIANTS FailureReceiptDefinite
