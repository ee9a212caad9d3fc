\* Three callers, two permits, a budget of two with one unit for humans, windows
\* that roll over between any two steps.
CONSTANTS
  Callers = {p1, p2, p3}
  MaxConcurrency = 2
  HourlyLimit = 2
  HumanReserve = 1
  Max429Retries = 1
  MaxRetryWait = 1
  MaxHeader = 2
  WINDOW = 2
SPECIFICATION FairSpec
INVARIANTS TypeOK HumanHeadroom PermitsConserved WireBounded
PROPERTIES CallReturns
