------------------------------ MODULE MCSlots ------------------------------
(***************************************************************************)
(* A ledger with one object that holds an array of one object, an amount   *)
(* and its type; transactions with and without metadata and xpop.          *)
(***************************************************************************)
EXTENDS SlotObjects

CONSTANTS entry, txn, md, xtxn, array, element, amount, kind, otherKind,
          sfEntries, sfAmount, sfType, i0, kl1, kl2

MCType ==
  [i \in Item |->
     CASE i = entry -> "LedgerEntry"
       [] i \in {txn, xtxn} -> "Transaction"
       [] i = md -> "Metadata"
       [] i = array -> "STArray"
       [] i = element -> "STObject"
       [] i = amount -> "Amount"
       [] i \in {kind, otherKind} -> "UInt16"]

Parts ==
  {<<entry, sfEntries, array>>, <<entry, sfType, kind>>, <<array, i0, element>>,
   <<element, sfAmount, amount>>, <<txn, sfAmount, amount>>,
   <<txn, sfType, otherKind>>}

MCChild ==
  [i \in Item |-> [k \in Field \cup Index |->
     IF \E p \in Parts : p[1] = i /\ p[2] = k
     THEN (CHOOSE p \in Parts : p[1] = i /\ p[2] = k)[3]
     ELSE Absent]]

MCFieldMarker ==
  [f \in Field |-> CASE f = sfEntries -> "STArray"
                     [] f = sfAmount -> "Opaque"
                     [] f = sfType -> "UInt16"]

Ledger == [k \in Keylet |-> IF k = kl1 THEN entry ELSE Absent]

MCWorld ==
  {[ledger |-> Ledger, otxn |-> txn, meta |-> Absent, xpop |-> Absent],
   [ledger |-> Ledger, otxn |-> txn, meta |-> md,
    xpop |-> [tx |-> xtxn, meta |-> md]]}
=============================================================================
