\* One change set, an update or a create, every fault, crash and restart with
\* another allowlist, an owner who is an agent.
CONSTANTS
  ChangeSets = {c1}
  Calls = {p1, p2}
  Principals = {bob, agent}
  Humans = {bob}
  Devices = {net, newkey}
  Existing = {net}
  Orgs = {org1, org2}
  Values = {v1, v2}
  HomeOrg <- MCHomeOrg
  None = None
  LabMode = FALSE
  EvidenceOn = TRUE
  Faults = {"state", "evidence", "crash"}
  PlanTTL = 0
  MaxTime = 0
  MaxEdits = 1
  MaxCrashes = 1
SYMMETRY Symmetry
SPECIFICATION Spec
INVARIANTS TypeOK WriteAuthorised UnmarkedNeverSent ReceiptMatchesState AppliedWasHeld
PROPERTIES ImplementsLedger
