SPECIFICATION Spec
CONSTANTS
  entry = entry  txn = txn  md = md  xtxn = xtxn  array = array
  element = element  amount = amount  kind = kind  otherKind = otherKind
  sfEntries = sfEntries  sfAmount = sfAmount  sfType = sfType  i0 = i0
  kl1 = kl1  kl2 = kl2
  MaxSlot = 3  Free = Free  Absent = Absent
  Item = {entry, txn, md, xtxn, array, element, amount, kind, otherKind}
  Field = {sfEntries, sfAmount, sfType}  Index = {i0}
  Keylet = {kl1, kl2}  TxnHash = TxnHash
  Type <- MCType  Child <- MCChild  Malformed = {md}  World <- MCWorld
  FieldMarker <- MCFieldMarker  ScalarType = {"UInt16"}
  AssumeTarget = {"STArray"}  TypeField = sfType  ViewType = kind
INVARIANTS
  HandlesDenote
  HandlesTyped
  SlotsAccounted
PROPERTIES
  FailedCallsLoadNothing
