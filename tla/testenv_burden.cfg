SPECIFICATION Spec
CONSTANTS
  hook = hook  other = other  ns1 = ns1  ns2 = ns2  k1 = k1  k2 = k2
  v1 = v1  big = big  h1 = h1  e1 = e1  e2 = e2  t1 = t1  t2 = t2
  n1 = n1  n2 = n2  p1 = p1  p2 = p2  g1 = g1  g2 = g2  seedTxn = seedTxn
  Missing = Missing  BadKey = BadKey  NoHash = NoHash  Wildcard = Wildcard
  NoDetails = NoDetails  NoParam = NoParam
  HookAccount = hook  OwnNamespace = ns1
  Account = {hook}  Namespace = {ns1}  Key = {k1}
  Value = {v1}  Oversized = {}  Hash = {h1}
  SeedStates <- MCEmptySeed  Grants <- MCNoGrants
  Entry = {e1, e2}  HasCbak <- MCHasCbak  CanEmit <- MCCanEmit  StrictCanEmit = TRUE
  TxType = {t1}  SeedOtxn <- MCHeavyOtxn  BaseFee = 0
  ParamName = {n1}  ParamValue = {p1}  GuardId = {g1}  MaxIter <- MCMaxIter
  HookCalls <- MCEmissions
  MaxReserve = 2  MaxStateModifications = 1  MaxNonces = 2  MaxNamespaces = 1
  MaxParamOverrides = 1  MaxU64 = 9  MaxI64 = 4  MaxU32 = 2
  MaxInvocations = 2  MaxAttempts = 2  MaxSkips = 1  MaxTraces = 1
CHECK_DEADLOCK FALSE
INVARIANT
  OtxnBurdenFits
