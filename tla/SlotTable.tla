----------------------------- MODULE SlotTable -----------------------------
(***************************************************************************)
(* host::slots and InvocationContext: the numbered slots one invocation    *)
(* loads ledger objects, transactions and their parts into.  A serialized  *)
(* value is an Item; Child says what a field or an index of it holds.      *)
(*                                                                         *)
(* Each host function that writes a slot is an operator from a table to    *)
(* [table, code, at]: the table after the call, "ok" or the error, and the *)
(* slot number a successful call returns.  The functions that only read    *)
(* (slot, slot_size, slot_count, slot_type, slot_float) are not modelled.  *)
(***************************************************************************)
EXTENDS Integers, FiniteSets

CONSTANTS
  MaxSlot,        \* 255
  Item,           \* serialized values
  Type,           \* item -> its serialized type (high half of the field code)
  Field, Index,   \* how a child is named: in an object, in an array
  Child,          \* item -> (field or index -> item, or Absent)
  Malformed,      \* seeded bytes that the strict field walk rejects
  Keylet,         \* 34-byte keylets
  TxnHash,        \* data of any other length, such as a transaction hash
  World,          \* what seeds a table: [ledger, otxn, meta, xpop]
  Free, Absent

(* STI_TRANSACTION, STI_LEDGERENTRY, STI_METADATA: a value with no          *)
(* enclosing object.                                                        *)
RootType == {"Transaction", "LedgerEntry", "Metadata"}
ObjectType == RootType \cup {"STObject"}

Slot == 1..MaxSlot
Table == [Slot -> Item \cup {Free}]

HasType(i, ty) == i \in Item /\ Type[i] = ty

ASSUME ItemAssumption ==
  /\ MaxSlot \in Nat /\ MaxSlot < 256
  /\ Free \notin Item /\ Absent \notin Item
  /\ Field \cap Index = {}
  /\ TxnHash \notin Keylet
  /\ \A i \in Item, k \in Field \cup Index : Child[i][k] \in Item \cup {Absent}
  /\ \A i \in Item, x \in Index :
       Child[i][x] # Absent => HasType(Child[i][x], "STObject")

ASSUME SeedAssumption ==
  \A w \in World :
    /\ \A k \in Keylet : w.ledger[k] = Absent \/ HasType(w.ledger[k], "LedgerEntry")
    /\ HasType(w.otxn, "Transaction")
    /\ w.meta = Absent \/ HasType(w.meta, "Metadata")
    /\ w.xpop = Absent \/ (/\ HasType(w.xpop.tx, "Transaction")
                           /\ HasType(w.xpop.meta, "Metadata"))

VARIABLES
  slots,   \* InvocationContext::slots
  world,   \* the seeds this invocation reads
  ret      \* [code, at] of the latest call

-----------------------------------------------------------------------------
(* Results of a call.                                                       *)

Ok(t, n) == [table |-> t, code |-> "ok", at |-> n]
Fail(t, error) == [table |-> t, code |-> error, at |-> 0]

FreeSlots(t) == {n \in Slot : t[n] = Free}
Holds(t, n) == n \in Slot /\ t[n] # Free
ClearSlot(t, n) == [t EXCEPT ![n] = Free]

(* The slots in use are taken for the first ones.                           *)
LowestFreeCounted(t) == Cardinality({n \in Slot : t[n] # Free}) + 1

LowestFree(t) == CHOOSE n \in FreeSlots(t) : \A m \in FreeSlots(t) : n <= m

ResolveSlot(t, requested) ==
  IF requested = 0
  THEN IF FreeSlots(t) = {} THEN Fail(t, "NO_FREE_SLOTS") ELSE Ok(t, LowestFree(t))
  ELSE IF requested > MaxSlot THEN Fail(t, "INVALID_ARGUMENT") ELSE Ok(t, requested)

(* Resolve the target, then write the item to it.                           *)
Load(t, item, requested) ==
  LET target == ResolveSlot(t, requested)
  IN  IF target.code # "ok" THEN target
      ELSE Ok([t EXCEPT ![target.at] = item], target.at)

-----------------------------------------------------------------------------
(* The host functions.                                                      *)

SlotClear(t, n) ==
  IF Holds(t, n) THEN Ok(ClearSlot(t, n), 1) ELSE Fail(t, "DOESNT_EXIST")

SlotSet(t, data, into) ==
  IF data \notin Keylet \/ into > MaxSlot THEN Fail(t, "INVALID_ARGUMENT")
  ELSE IF into = 0 /\ FreeSlots(t) = {} THEN Fail(t, "NO_FREE_SLOTS")
  ELSE IF world.ledger[data] = Absent THEN Fail(t, "DOESNT_EXIST")
  ELSE Load(t, world.ledger[data], into)

OtxnSlot(t, into) == Load(t, world.otxn, into)

MetaSlot(t, into) ==
  IF world.meta = Absent THEN Fail(t, "PREREQUISITE_NOT_MET")
  ELSE Load(t, world.meta, into)

Packed(tx, meta) == tx * 2^16 + meta

(* The transaction half stays when the metadata half finds no slot.         *)
XpopSlotKeepsHalf(t, tx, meta) ==
  IF tx > MaxSlot \/ meta > MaxSlot \/ (tx # 0 /\ tx = meta)
  THEN Fail(t, "INVALID_ARGUMENT")
  ELSE IF world.xpop = Absent THEN Fail(t, "DOESNT_EXIST")
  ELSE LET first == Load(t, world.xpop.tx, tx)
           second == Load(first.table, world.xpop.meta, meta)
       IN  IF first.code # "ok" THEN first
           ELSE IF second.code # "ok" THEN second
                ELSE Ok(second.table, Packed(first.at, second.at))

XpopSlot(t, tx, meta) ==
  IF tx > MaxSlot \/ meta > MaxSlot \/ (tx # 0 /\ tx = meta)
  THEN Fail(t, "INVALID_ARGUMENT")
  ELSE IF world.xpop = Absent THEN Fail(t, "DOESNT_EXIST")
  ELSE LET first == Load(t, world.xpop.tx, tx)
           second == Load(first.table, world.xpop.meta, meta)
       IN  IF first.code # "ok" THEN first
           ELSE IF second.code # "ok"
                THEN Fail(ClearSlot(first.table, first.at), second.code)
                ELSE Ok(second.table, Packed(first.at, second.at))

(* A child is copied out of its parent: the parent may be the target.       *)
Extract(t, parent, k, into, containers, mismatch) ==
  IF ~Holds(t, parent) THEN Fail(t, "DOESNT_EXIST")
  ELSE IF Type[t[parent]] \notin containers \/ t[parent] \in Malformed THEN Fail(t, mismatch)
  ELSE IF Child[t[parent]][k] = Absent THEN Fail(t, "DOESNT_EXIST")
  ELSE Load(t, Child[t[parent]][k], into)

SlotSubfield(t, parent, f, into) ==
  Extract(t, parent, f, into, ObjectType, "NOT_AN_OBJECT")
SlotSubarray(t, parent, x, into) ==
  Extract(t, parent, x, into, {"STArray"}, "NOT_AN_ARRAY")

-----------------------------------------------------------------------------
(* A hook that manages slot numbers itself.                                 *)

Request == 0..(MaxSlot + 1)

Return(r) == slots' = r.table /\ ret' = [code |-> r.code, at |-> r.at]

NumberedCall ==
  \/ \E n \in Request : Return(SlotClear(slots, n))
  \/ \E data \in Keylet \cup {TxnHash}, into \in Request :
       Return(SlotSet(slots, data, into))
  \/ \E into \in Request : Return(OtxnSlot(slots, into))
  \/ \E into \in Request : Return(MetaSlot(slots, into))
  \/ \E tx, meta \in Request : Return(XpopSlot(slots, tx, meta))
  \/ \E parent \in Request, f \in Field, into \in Request :
       Return(SlotSubfield(slots, parent, f, into))
  \/ \E parent \in Request, x \in Index, into \in Request :
       Return(SlotSubarray(slots, parent, x, into))

EmptyTable ==
  /\ slots = [n \in Slot |-> Free]
  /\ ret = [code |-> "none", at |-> 0]

ErrorCode == {"DOESNT_EXIST", "INVALID_ARGUMENT", "NO_FREE_SLOTS", "NOT_AN_ARRAY",
              "NOT_AN_OBJECT", "PREREQUISITE_NOT_MET", "DOES_NOT_MATCH"}
SlotNumbers == 0..MaxSlot \cup {Packed(a, b) : a \in Slot, b \in Slot}
=============================================================================
