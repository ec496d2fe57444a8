SPECIFICATION BuildSpec
CONSTANTS
  HelperResults = 1
  Script <- MCScript
  MaxJumps = 3
  HookFragment <- MCHookFragment
  HelperFragment <- MCHelperFragment
  DeadFragment <- MCDeadFragment
  HelperPrologue <- Initialised
  MaxFragments = 5
  NestingLimit = 3
  Bases <- MCBases
  Inits <- MCInits
  Segments <- MCSegments
  MemorySize = 3
  MaxParts = 4
  MaxCalls = 5
CHECK_DEADLOCK FALSE
INVARIANTS
  StaysValid
  BehaviourKept
  GuardsKept
  MeaningKept
  CleanIsComplete
  RefusedForCause
PROPERTIES
  NestingNeverGrows
  IterationsShrink
