SPECIFICATION FairSpec
CONSTANTS
  hook = hook  other = other  ns1 = ns1  ns2 = ns2  k1 = k1  k2 = k2
  v1 = v1  big = big  h1 = h1  e1 = e1  e2 = e2  t1 = t1  t2 = t2
  n1 = n1  n2 = n2  p1 = p1  p2 = p2  g1 = g1  g2 = g2  seedTxn = seedTxn
  Missing = Missing  BadKey = BadKey  NoHash = NoHash  Wildcard = Wildcard
  NoDetails = NoDetails  NoParam = NoParam
  HookAccount = hook  OwnNamespace = ns1
  Account = {hook, other}  Namespace = {ns1, ns2}  Key = {k1, k2}
  Value = {v1, big}  Oversized = {big}  Hash = {h1}
  SeedStates <- MCCrowdedSeed  Grants <- MCGrants
  Entry = {e1, e2}  HasCbak <- MCHasCbak  CanEmit <- MCCanEmit  StrictCanEmit = TRUE
  TxType = {t1}  SeedOtxn <- MCSeedOtxn  BaseFee = 1
  ParamName = {n1}  ParamValue = {p1}  GuardId = {g1}  MaxIter <- MCMaxIter
  HookCalls <- MCStateOrControl
  MaxReserve = 1  MaxStateModifications = 2  MaxNonces = 1  MaxNamespaces = 1
  MaxParamOverrides = 1  MaxU64 = 7  MaxI64 = 3  MaxU32 = 3
  MaxInvocations = 2  MaxAttempts = 1  MaxSkips = 3  MaxTraces = 1
CHECK_DEADLOCK FALSE
INVARIANTS
  SkipLogCoherent
  NoncesUnique
  NamespaceBudget
  WriteBudget
PROPERTIES
  Terminates
  OnlyGranted
  DenialIsFinal
  Atomicity
