SPECIFICATION EmitSpec
CONSTANTS
  sfSequence = sfSequence  sfSigningPubKey = sfSigningPubKey
  sfFirstLedgerSequence = sfFirstLedgerSequence
  sfLastLedgerSequence = sfLastLedgerSequence
  sfFee = sfFee  sfAccount = sfAccount  sfTransactionType = sfTransactionType
  sfAmount = sfAmount  sfMemoData = sfMemoData
  sfEntry = sfEntry  sfEntries = sfEntries
  sfFlags = sfFlags  sfDestination = sfDestination
  PlainField = {}  AmountField = {sfAmount}  VlField = {sfMemoData}
  ObjectField = {sfEntry}  ArrayField = {sfEntries}
  Length <- MCLength  Resumed <- MCResumed  Nested = {}
  Capacity = 14  MaxDepth = 4  MaxWalkDepth = 4
  DetailsMaxLen = 3  DetailsLen = 2
  HookAccount = 7  LedgerSeq = 20  BaseFee = 10  FeePerByte = 1
  MaxNonces = 2  MaxFresh = 1  MaxAfter = 5
  sfcode <- MCsfcode  sti <- MCsti  Declarations <- MCDeclarations
  NativeLen = 1  IssuedLen = 3  ShortVl = 1  MaxNops = 13  Inputs = {1}
CONSTRAINT EmitExplored
CHECK_DEADLOCK FALSE
INVARIANTS
  FramesMatchBlob
  PreparedIsAcceptable
  ReadAsDeclared
  PreparedIsAccepted
  FillsShareNoBudget
  NeverBothAcceptable
PROPERTIES
  FailedCallsChangeNothing
  OneFieldPerCall
