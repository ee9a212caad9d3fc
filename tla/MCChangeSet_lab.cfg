\* Lab mode without an evidence recorder, fair calls: staged plans are waived, a
\* human may approve one before its waiver or after a failed one, and every apply
\* that waits for the guard is answered, also when its plan expired in the queue.
CONSTANTS
  ChangeSets = {c1}
  Calls = {p1, p2}
  Principals = {bob, agent}
  Humans = {bob}
  Devices = {net}
  Existing = {net}
  Orgs = {org1}
  Values = {v1, v2}
  HomeOrg <- MCHomeOrg
  None = None
  LabMode = TRUE
  EvidenceOn = FALSE
  Faults = {"state"}
  PlanTTL = 0
  MaxTime = 1
  MaxEdits = 0
  MaxCrashes = 0
SPECIFICATION FairSpec
PROPERTIES ApplyReturns
