SPECIFICATION Spec
CONSTANTS
  HelperResults = 0
  Script <- MCScript
  MaxJumps = 3
  HookFragment <- MCLoopHook
  HelperFragment <- MCLoopHelper
  DeadFragment = {}
  HelperPrologue <- Bare
  MaxFragments = 6
  NestingLimit = 3
CHECK_DEADLOCK FALSE
INVARIANT BehaviourKept
