SPECIFICATION Spec
CONSTANTS
  sfSequence = sfSequence  sfSigningPubKey = sfSigningPubKey
  sfFirstLedgerSequence = sfFirstLedgerSequence
  sfLastLedgerSequence = sfLastLedgerSequence
  sfFee = sfFee  sfAccount = sfAccount  sfTransactionType = sfTransactionType
  sfAmount = sfAmount  sfMemoData = sfMemoData
  sfEntry = sfEntry  sfEntries = sfEntries
  PlainField = {}  AmountField = {sfAmount}  VlField = {sfMemoData}
  ObjectField = {sfEntry}  ArrayField = {sfEntries}
  Length <- MCLength  Resumed <- MCResumed  Nested = {sfAccount}
  Capacity = 14  MaxDepth = 3  MaxWalkDepth = 3
  DetailsMaxLen = 3  DetailsLen = 2
  HookAccount = 7  LedgerSeq = 20  BaseFee = 10  FeePerByte = 1
  MaxNonces = 2  MaxFresh = 2  MaxAfter = 5
CONSTRAINT Explored
CHECK_DEADLOCK FALSE
INVARIANTS
  PreparedHasPlumbing
