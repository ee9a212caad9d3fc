\* Every input of the bounded universes; each algorithm ends with its result, and
\* every process with its exit.
CONSTANTS
  JSON <- MCJSON
  Nesting <- MCNesting
  Befores <- MCBefores
  Patches <- MCPatches
  Schemas <- MCSchemas
  Bodies <- MCBodies
  MAX_VALUE_DEPTH = 2
  MAX_VALUE_MEMBERS = 2
  Documents <- MCDocuments
  UpperCase <- MCUpperCase
  NoId = NoId
  LowerCase <- MCLowerCase
  Catalogued <- MCCatalogued
  Unknown <- MCUnknown
  HasCmd <- MCHasCmd
  HasDevice <- MCHasDevice
  MAX_SUGGESTIONS = 3
  SuffixLength = 2
  SuffixDistance = 1
  CatalogOps <- MCCatalogOps
  CatalogOrder <- MCCatalogOrder
  Canonical <- MCCanonical
  Callers <- MCCallers
  ToolCalls <- MCToolCalls
  Searches <- MCSearches
  NoCaller = NoCaller
  NoRequest = NoRequest
  Processes = {"p1", "p2"}
  CommandLines <- MCCommandLines
  InitialFiles <- MCInitialFiles
  MaxEdits = 1
  NoKey = NoKey
  NoTokens = NoTokens
  NoLine = NoLine
SPECIFICATION PartsSpec
CHECK_DEADLOCK FALSE
INVARIANTS StagedIsMergePatch RefusedNeverStaged
           BoundsExact NothingDeclaredLost StructureSurvives
           MutationsVerifiable BestSuggested
           NamedToolsFit SentWithinScope FoundIsInvocable
           SignedKeyKept RotationSurvived SpoolDelivered TokensAsConfigured
