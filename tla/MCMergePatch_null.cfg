\* Every patch on every object of the bounded universe; a plan ends the call.
CONSTANTS
  JSON <- MCMergeJSON
  Nesting <- MCMergeNesting
  Befores <- MCBefores
  Patches <- MCPatches
SPECIFICATION Spec
CHECK_DEADLOCK FALSE
INVARIANTS NullDeletesField
