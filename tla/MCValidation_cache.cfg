\* Two threads, three validations between them, in any order and overlap.
\* Validations stop when MaxCalls have been made.
CONSTANTS
  op = op
  unknown = unknown
  pathVal = pathVal
  queryVal = queryVal
  bodyVal = bodyVal
  okVal = okVal
  altVal = altVal
  newVal = newVal
  errVal = errVal
  hugeVal = hugeVal
  Threads = {t1, t2}
  Values = {pathVal, queryVal, bodyVal, okVal, altVal, newVal, errVal, hugeVal}
  Slots <- MCSlots
  Admits <- MCAdmits
  Broken <- MCBroken
  Jobs <- MCJobs
  Messages <- MCMessages
  Steps <- MCSteps
  MaxCalls = 3
  None = None
  Ops = {op}
  Parameters <- MCParameters
  Body <- MCBody
  Responses <- MCResponses
  Oversized = {hugeVal}
  MAX_PATH_VALUES = 1
  MAX_QUERY_VALUES = 1
SPECIFICATION Spec
SYMMETRY ThreadSymmetry
CHECK_DEADLOCK FALSE
INVARIANTS CacheTypeOK VerdictExact NoRecompile AcceptedAsDeclared
