----------------------------- MODULE SlotProofs -----------------------------
(***************************************************************************)
(* The slot table and its handles, for any number of slots and any values. *)
(* Every host call either loads one item into one slot, free if the host   *)
(* picked it, or changes nothing; every handle operation then is one of    *)
(* five moves (take a slot, retype, rewrite, release, abandon), and each   *)
(* keeps the correspondence between handles and slots.                     *)
(***************************************************************************)
EXTENDS SlotObjects, WellFoundedInduction, TLAPS

USE DEF Slot, Table

(* A call that loads one item, or fails and changes nothing.                *)
Loads(r, t, item, into) ==
  /\ r.code = "ok"
  /\ r.at \in Slot
  /\ r.table = [t EXCEPT ![r.at] = item]
  /\ into = 0 => t[r.at] = Free
  /\ into # 0 => r.at = into

Fails(r, t) == r.code \in ErrorCode /\ r.at = 0 /\ r.table = t

-----------------------------------------------------------------------------
(* The slot allocator.                                                      *)

(* resolve_slot(0) finds the lowest free slot whenever there is one.        *)
LEMMA LowestFreeIsFree ==
  ASSUME NEW t, FreeSlots(t) # {}
  PROVE  LowestFree(t) \in FreeSlots(t)
<1>1. FreeSlots(t) \subseteq Nat
  BY ItemAssumption DEF FreeSlots
<1>2. \E n \in FreeSlots(t) : \A m \in FreeSlots(t) : ~(<<m, n>> \in OpToRel(<, Nat))
  BY <1>1, NatLessThanWellFounded, WFMin
<1>3. PICK n \in FreeSlots(t) : \A m \in FreeSlots(t) : ~(<<m, n>> \in OpToRel(<, Nat))
  BY <1>2
<1>4. \A m \in FreeSlots(t) : n <= m
  <2> TAKE m \in FreeSlots(t)
  <2>1. ~(<<m, n>> \in OpToRel(<, Nat))
    BY <1>3
  <2>2. m \in Nat /\ n \in Nat
    BY <1>1
  <2>3. ~(m < n)
    BY <2>1, <2>2 DEF OpToRel
  <2> QED BY <2>2, <2>3
<1> QED BY <1>4 DEF LowestFree

(* set_slot of what resolve_slot returned.                                  *)
LEMMA LoadLoads ==
  ASSUME NEW t \in Table, NEW item, NEW into \in Nat
  PROVE  LET r == Load(t, item, into) IN Loads(r, t, item, into) \/ Fails(r, t)
<1>1. CASE into = 0 /\ FreeSlots(t) = {}
  BY <1>1 DEF Load, ResolveSlot, Fail, Fails, ErrorCode
<1>2. CASE into = 0 /\ FreeSlots(t) # {}
  <2>1. LowestFree(t) \in FreeSlots(t)
    BY <1>2, LowestFreeIsFree
  <2>2. LowestFree(t) \in Slot /\ t[LowestFree(t)] = Free
    BY <2>1 DEF FreeSlots
  <2> QED BY <1>2, <2>2 DEF Load, ResolveSlot, Ok, Loads
<1>3. CASE into > MaxSlot
  BY <1>3, ItemAssumption DEF Load, ResolveSlot, Fail, Fails, ErrorCode
<1>4. CASE into # 0 /\ into <= MaxSlot
  BY <1>4, ItemAssumption DEF Load, ResolveSlot, Ok, Loads
<1> QED BY <1>1, <1>2, <1>3, <1>4, ItemAssumption

(* The loaders.                                                             *)
LEMMA SlotSetLoads ==
  ASSUME NEW t \in Table, world \in World, NEW data, NEW into \in Nat
  PROVE  LET r == SlotSet(t, data, into)
         IN  \/ data \in Keylet /\ Loads(r, t, world.ledger[data], into)
                /\ HasType(world.ledger[data], "LedgerEntry")
             \/ Fails(r, t)
<1>1. Fails(Fail(t, "INVALID_ARGUMENT"), t) /\ Fails(Fail(t, "NO_FREE_SLOTS"), t)
      /\ Fails(Fail(t, "DOESNT_EXIST"), t)
  BY DEF Fails, Fail, ErrorCode
<1>2. LET r == Load(t, world.ledger[data], into)
      IN  Loads(r, t, world.ledger[data], into) \/ Fails(r, t)
  BY LoadLoads
<1>3. data \in Keylet /\ world.ledger[data] # Absent
        => HasType(world.ledger[data], "LedgerEntry")
  BY SeedAssumption
<1> QED BY <1>1, <1>2, <1>3 DEF SlotSet

LEMMA OtxnSlotLoads ==
  ASSUME NEW t \in Table, world \in World, NEW into \in Nat
  PROVE  LET r == OtxnSlot(t, into)
         IN  \/ Loads(r, t, world.otxn, into) /\ HasType(world.otxn, "Transaction")
             \/ Fails(r, t)
BY LoadLoads, SeedAssumption DEF OtxnSlot

LEMMA MetaSlotLoads ==
  ASSUME NEW t \in Table, world \in World, NEW into \in Nat
  PROVE  LET r == MetaSlot(t, into)
         IN  \/ Loads(r, t, world.meta, into) /\ HasType(world.meta, "Metadata")
             \/ Fails(r, t)
<1>1. Fails(Fail(t, "PREREQUISITE_NOT_MET"), t)
  BY DEF Fails, Fail, ErrorCode
<1>2. LET r == Load(t, world.meta, into)
      IN  Loads(r, t, world.meta, into) \/ Fails(r, t)
  BY LoadLoads
<1> QED BY <1>1, <1>2, SeedAssumption DEF MetaSlot

(* A child is loaded from a slot that holds its parent.                     *)
LEMMA ExtractLoads ==
  ASSUME NEW t \in Table, NEW parent \in Nat, NEW k, NEW into \in Nat,
         NEW containers, NEW mismatch \in ErrorCode
  PROVE  LET r == Extract(t, parent, k, into, containers, mismatch)
             child == Child[t[parent]][k]
         IN  \/ /\ Loads(r, t, child, into)
                /\ Holds(t, parent) /\ Type[t[parent]] \in containers
                /\ child # Absent
             \/ Fails(r, t)
<1>1. Fails(Fail(t, mismatch), t) /\ Fails(Fail(t, "DOESNT_EXIST"), t)
  BY DEF Fails, Fail, ErrorCode
<1>2. LET r == Load(t, Child[t[parent]][k], into)
      IN  Loads(r, t, Child[t[parent]][k], into) \/ Fails(r, t)
  BY LoadLoads
<1> QED BY <1>1, <1>2 DEF Extract

(* get and step: the child under key k of what the parent's slot holds, of  *)
(* the type its key claims.                                                 *)
LEMMA ResolveLoads ==
  ASSUME NEW t \in Table, NEW parent \in Slot, NEW k \in Field \cup Index,
         NEW into \in Nat
  PROVE  LET r == Resolve(t, parent, k, into)
             child == Child[t[parent]][k]
         IN  \/ /\ Loads(r, t, child, into)
                /\ child \in Item /\ Claim(Out(k), child)
             \/ Fails(r, t)
<1> DEFINE child == Child[t[parent]][k]
<1>1. parent \in Nat
  BY ItemAssumption
<1>2. LET r == Resolve(t, parent, k, into)
      IN  \/ Loads(r, t, child, into) /\ Holds(t, parent) /\ child # Absent
          \/ Fails(r, t)
  <2>1. CASE k \in Field
    BY <1>1, <2>1, ExtractLoads DEF Resolve, SlotSubfield, ErrorCode
  <2>2. CASE k \notin Field
    BY <1>1, <2>2, ExtractLoads DEF Resolve, SlotSubarray, ErrorCode
  <2> QED BY <2>1, <2>2
<1>3. ASSUME Holds(t, parent), child # Absent
      PROVE  child \in Item /\ Claim(Out(k), child)
  <2>1. t[parent] \in Item
    BY <1>3 DEF Holds
  <2>2. child \in Item
    BY <2>1, <1>3, ItemAssumption
  <2>3. CASE k \in Field
    <3>1. Accepts(FieldMarker[k], Type[child])
      BY <2>1, <2>3, <1>3, MarkerAssumption
    <3>2. FieldMarker[k] # "View"
      BY <2>3, MarkerAssumption
    <3> QED BY <2>2, <2>3, <3>1, <3>2 DEF Claim, Out
  <2>4. CASE k \in Index
    <3>1. HasType(child, "STObject") /\ k \notin Field
      BY <2>1, <2>4, <1>3, ItemAssumption
    <3> QED BY <2>2, <3>1 DEF Claim, Out, Accepts, HasType
  <2> QED BY <2>2, <2>3, <2>4
<1> QED BY <1>2, <1>3

-----------------------------------------------------------------------------
(* The inductive invariant: an invocation that uses no handle has none, and *)
(* one that has called nothing yet has an empty table.                      *)
LayerInv ==
  /\ layer # "handles" => handles = {} /\ leaked = {}
  /\ layer = "none" => \A n \in Slot : slots[n] = Free

IInv == TypeOK /\ HandlesDenote /\ HandlesTyped /\ SlotsAccounted /\ LayerInv

LEMMA Occupied ==
  ASSUME IInv
  PROVE  /\ \A h \in handles : h.no \in Slot /\ slots[h.no] # Free
         /\ \A h \in handles : slots[h.no] \in Item /\ slots[h.no] = h.item
         /\ layer # "numbers" =>
              \A n \in Slot : slots[n] # Free <=> (n \in leaked \/ \E h \in handles : h.no = n)
<1>1. \A h \in handles : h.no \in Slot /\ slots[h.no] = h.item
  BY DEF IInv, TypeOK, Handle, HandlesDenote
<1>2. layer # "numbers" =>
        \A n \in Slot : slots[n] # Free <=> (n \in leaked \/ \E h \in handles : h.no = n)
  <2>1. CASE layer = "none"
    BY <2>1 DEF IInv, LayerInv
  <2>2. CASE layer = "handles"
    BY <2>2 DEF IInv, SlotsAccounted, TypeOK
  <2> QED BY <2>1, <2>2 DEF IInv, TypeOK
<1>3. \A h \in handles : layer = "handles"
  BY DEF IInv, LayerInv
<1>4. \A h \in handles : slots[h.no] # Free
  BY <1>1, <1>2, <1>3
<1>5. \A h \in handles : slots[h.no] \in Item
  BY <1>1, <1>4 DEF IInv, TypeOK
<1> QED BY <1>1, <1>2, <1>4, <1>5

(* The same facts rebuild the invariant after a step of the handle layer.   *)
LEMMA Rebuild ==
  ASSUME TypeOK', layer' = "handles", HandlesTyped',
         \A h \in handles' : slots'[h.no] = h.item /\ h.no \notin leaked',
         \A g, h \in handles' : g.no = h.no => g = h,
         \A n \in Slot : slots'[n] # Free <=>
                          (n \in leaked' \/ \E h \in handles' : h.no = n)
  PROVE  IInv'
<1>1. HandlesDenote'
  BY DEF HandlesDenote
<1>2. SlotsAccounted'
  BY DEF SlotsAccounted
<1>3. LayerInv'
  BY DEF LayerInv
<1> QED BY <1>1, <1>2, <1>3 DEF IInv

LEMMA ResultTyped ==
  ASSUME NEW r, r.code \in {"none", "ok"} \cup ErrorCode, r.at \in 0..MaxSlot,
         ret' = [code |-> r.code, at |-> r.at]
  PROVE  ret' \in [code : {"none", "ok"} \cup ErrorCode, at : SlotNumbers]
BY DEF SlotNumbers

(* A handle is made for a slot the host just filled, or nothing happens.    *)
LEMMA AcquireKeeps ==
  ASSUME IInv, UseHandles, NEW r, NEW marker \in Marker, NEW item,
         NEW walking \in BOOLEAN,
         Acquire(r, marker, item, walking),
         \/ Loads(r, slots, item, 0) /\ item \in Item /\ Claim(marker, item)
         \/ Fails(r, slots)
  PROVE  IInv'
<1> DEFINE h0 == Wrap(r.at, marker, item, walking)
<1>0. h0 = [no |-> r.at, marker |-> marker, checked |-> TRUE,
             walking |-> walking, item |-> item]
  BY DEF Wrap
<1>1. layer' = "handles" /\ layer # "numbers" /\ world' = world /\ leaked' = leaked
      /\ slots' = r.table /\ ret' = [code |-> r.code, at |-> r.at]
  BY DEF UseHandles, Acquire, Return
<1>2. CASE Fails(r, slots)
  <2>1. slots' = slots /\ r.code # "ok" /\ r.at \in 0..MaxSlot /\ r.code \in ErrorCode
    BY <1>1, <1>2, ItemAssumption DEF Fails, ErrorCode
  <2>2. handles' = handles
    BY <2>1 DEF Acquire
  <2>3. TypeOK'
    BY <1>1, <2>1, <2>2, ResultTyped DEF IInv, TypeOK
  <2>4. HandlesTyped'
    BY <2>1, <2>2 DEF IInv, HandlesTyped
  <2>5. \A g, h \in handles' : g.no = h.no => g = h
    BY <2>2 DEF IInv, HandlesDenote
  <2> QED BY <1>1, <2>1, <2>2, <2>3, <2>4, <2>5, Occupied, Rebuild
             DEF IInv, HandlesDenote
<1>3. CASE Loads(r, slots, item, 0) /\ item \in Item /\ Claim(marker, item)
  <2>1. r.at \in Slot /\ slots[r.at] = Free /\ slots' = [slots EXCEPT ![r.at] = item]
        /\ r.code = "ok" /\ r.at \in 0..MaxSlot
    BY <1>1, <1>3, ItemAssumption DEF Loads
  <2>2. handles' = handles \cup {h0}
    BY <2>1 DEF Acquire
  <2>3. h0 \in Handle
    BY <1>0, <1>3, <2>1 DEF Handle
  <2>4. slots \in [Slot -> Item \cup {Free}]
    BY DEF IInv, TypeOK
  <2>5. /\ slots'[r.at] = item /\ item # Free
        /\ \A n \in Slot : n # r.at => slots'[n] = slots[n]
    BY <1>3, <2>1, <2>4, ItemAssumption
  <2>6. \A h \in handles : h.no # r.at /\ h.no \in Slot
    BY <2>1, Occupied
  <2>7. r.at \notin leaked
    BY <1>1, <2>1, Occupied
  <2>8. TypeOK'
    <3>1. slots' \in Table
      BY <1>3, <2>1, <2>4
    <3>2. ret' \in [code : {"none", "ok"} \cup ErrorCode, at : SlotNumbers]
      BY <1>1, <2>1, ResultTyped
    <3> QED BY <1>1, <2>2, <2>3, <3>1, <3>2 DEF IInv, TypeOK
  <2>9. HandlesTyped'
    <3>1. \A h \in handles : slots'[h.no] = slots[h.no]
      BY <2>5, <2>6
    <3>2. \A h \in handles : h.checked => slots'[h.no] # Free /\ Claim(h.marker, slots'[h.no])
      BY <3>1 DEF IInv, HandlesTyped
    <3>3. h0.no = r.at /\ h0.marker = marker
      BY <1>0
    <3>4. slots'[h0.no] # Free /\ Claim(h0.marker, slots'[h0.no])
      BY <1>3, <2>5, <3>3
    <3> QED BY <2>2, <3>2, <3>4 DEF HandlesTyped
  <2>10. h0.no = r.at /\ h0.item = item
    BY <1>0
  <2>11. \A h \in handles' : slots'[h.no] = h.item /\ h.no \notin leaked'
    BY <1>1, <2>2, <2>5, <2>6, <2>7, <2>10 DEF IInv, HandlesDenote
  <2>12. \A g, h \in handles' : g.no = h.no => g = h
    BY <2>2, <2>6, <2>10 DEF IInv, HandlesDenote
  <2>13. \A n \in Slot : slots'[n] # Free <=>
                          (n \in leaked' \/ \E h \in handles' : h.no = n)
    <3> SUFFICES ASSUME NEW n \in Slot
                 PROVE  slots'[n] # Free <=>
                          (n \in leaked' \/ \E h \in handles' : h.no = n)
      OBVIOUS
    <3>1. CASE n = r.at
      BY <3>1, <2>2, <2>5, <2>10
    <3>2. CASE n # r.at
      <4>1. slots'[n] = slots[n]
        BY <3>2, <2>5
      <4>2. (\E h \in handles' : h.no = n) <=> (\E h \in handles : h.no = n)
        BY <3>2, <2>2, <2>10
      <4> QED BY <4>1, <4>2, <1>1, Occupied
    <3> QED BY <3>1, <3>2
  <2> QED BY <1>1, <2>8, <2>9, <2>11, <2>12, <2>13, Rebuild
<1> QED BY <1>2, <1>3

(* A handle is moved into another one for the same slot, whose value is the *)
(* new handle's.                                                            *)
LEMMA RetypeKeeps ==
  ASSUME IInv, UseHandles, NEW h \in handles, NEW g \in Handle,
         Retype(h, g), g.no = h.no, g.item \in Item,
         g.checked => Claim(g.marker, g.item),
         slots' \in Table, slots'[h.no] = g.item,
         \A n \in Slot : n # h.no => slots'[n] = slots[n],
         ret' \in [code : {"none", "ok"} \cup ErrorCode, at : SlotNumbers]
  PROVE  IInv'
<1>1. layer' = "handles" /\ layer # "numbers" /\ world' = world /\ leaked' = leaked
      /\ handles' = (handles \ {h}) \cup {g}
  BY DEF UseHandles, Retype
<1>2. h.no \in Slot /\ g.item # Free /\ h.no \notin leaked
  BY Occupied, ItemAssumption DEF IInv, HandlesDenote
<1>3. \A f \in handles : f # h => f.no # h.no /\ f.no \in Slot /\ slots'[f.no] = slots[f.no]
  BY Occupied DEF IInv, HandlesDenote
<1>4. TypeOK'
  BY <1>1 DEF IInv, TypeOK
<1>5. HandlesTyped'
  <2>1. \A f \in handles : f # h /\ f.checked =>
           slots'[f.no] # Free /\ Claim(f.marker, slots'[f.no])
    BY <1>3 DEF IInv, HandlesTyped
  <2>2. g.checked => slots'[g.no] # Free /\ Claim(g.marker, slots'[g.no])
    BY <1>2
  <2> QED BY <1>1, <2>1, <2>2 DEF HandlesTyped
<1>6. \A f \in handles' : slots'[f.no] = f.item /\ f.no \notin leaked'
  BY <1>1, <1>2, <1>3 DEF IInv, HandlesDenote
<1>7. \A e, f \in handles' : e.no = f.no => e = f
  BY <1>1, <1>3 DEF IInv, HandlesDenote
<1>8. \A n \in Slot : slots'[n] # Free <=>
                          (n \in leaked' \/ \E f \in handles' : f.no = n)
  <2> SUFFICES ASSUME NEW n \in Slot
               PROVE  slots'[n] # Free <=>
                        (n \in leaked' \/ \E f \in handles' : f.no = n)
    OBVIOUS
  <2>1. CASE n = h.no
    BY <2>1, <1>1, <1>2
  <2>2. CASE n # h.no
    <3>1. (\E f \in handles' : f.no = n) <=> (\E f \in handles : f.no = n)
      BY <2>2, <1>1
    <3> QED BY <2>2, <3>1, <1>1, Occupied
  <2> QED BY <2>1, <2>2
<1> QED BY <1>1, <1>4, <1>5, <1>6, <1>7, <1>8, Rebuild

(* A handle is given up and its slot emptied, or left as it is.             *)
LEMMA DropKeeps ==
  ASSUME IInv, UseHandles, NEW h \in handles,
         handles' = handles \ {h},
         \/ slots' = [slots EXCEPT ![h.no] = Free] /\ leaked' = leaked
         \/ slots' = slots /\ leaked' = leaked \cup {h.no},
         ret' \in [code : {"none", "ok"} \cup ErrorCode, at : SlotNumbers]
  PROVE  IInv'
<1>1. layer' = "handles" /\ layer # "numbers" /\ world' = world
  BY DEF UseHandles
<1>2. h.no \in Slot /\ h.no \notin leaked
  BY Occupied DEF IInv, HandlesDenote
<1>3. slots \in [Slot -> Item \cup {Free}]
  BY DEF IInv, TypeOK
<1>4. \A n \in Slot : n # h.no => slots'[n] = slots[n] /\ (n \in leaked' <=> n \in leaked)
  BY <1>2, <1>3
<1>5. \A f \in handles' : f.no # h.no /\ f.no \in Slot /\ slots'[f.no] = slots[f.no]
  BY <1>4, Occupied DEF IInv, HandlesDenote
<1>6. TypeOK'
  <2>1. slots' \in Table
    BY <1>2, <1>3
  <2> QED BY <1>1, <1>2, <2>1 DEF IInv, TypeOK
<1>7. HandlesTyped'
  BY <1>5 DEF IInv, HandlesTyped
<1>8. \A f \in handles' : slots'[f.no] = f.item /\ f.no \notin leaked'
  BY <1>4, <1>5 DEF IInv, HandlesDenote
<1>9. \A e, f \in handles' : e.no = f.no => e = f
  BY DEF IInv, HandlesDenote
<1>10. \A n \in Slot : slots'[n] # Free <=>
                          (n \in leaked' \/ \E f \in handles' : f.no = n)
  <2> SUFFICES ASSUME NEW n \in Slot
               PROVE  slots'[n] # Free <=>
                        (n \in leaked' \/ \E f \in handles' : f.no = n)
    OBVIOUS
  <2>1. CASE n = h.no
    <3>1. ~\E f \in handles' : f.no = n
      BY <2>1, <1>5
    <3>2. slots[n] # Free
      BY <2>1, Occupied
    <3>3. CASE slots' = [slots EXCEPT ![h.no] = Free] /\ leaked' = leaked
      BY <2>1, <3>1, <3>3, <1>2, <1>3
    <3>4. CASE slots' = slots /\ leaked' = leaked \cup {h.no}
      BY <2>1, <3>2, <3>4
    <3> QED BY <3>3, <3>4
  <2>2. CASE n # h.no
    <3>1. (\E f \in handles' : f.no = n) <=> (\E f \in handles : f.no = n)
      BY <2>2
    <3> QED BY <2>2, <3>1, <1>1, <1>4, Occupied
  <2> QED BY <2>1, <2>2
<1> QED BY <1>1, <1>6, <1>7, <1>8, <1>9, <1>10, Rebuild

(* A call that leaves slots and handles alone.                              *)
LEMMA CallKeeps ==
  ASSUME IInv, UseHandles, UNCHANGED <<slots, handles, leaked>>,
         ret' \in [code : {"none", "ok"} \cup ErrorCode, at : SlotNumbers]
  PROVE  IInv'
<1>1. layer' = "handles" /\ layer # "numbers" /\ world' = world
  BY DEF UseHandles
<1>2. TypeOK'
  BY <1>1 DEF IInv, TypeOK
<1>3. HandlesTyped'
  BY DEF IInv, HandlesTyped
<1>4. \A g, h \in handles' : g.no = h.no => g = h
  BY DEF IInv, HandlesDenote
<1> QED BY <1>1, <1>2, <1>3, <1>4, Occupied, Rebuild DEF IInv, HandlesDenote

-----------------------------------------------------------------------------
(* What a step may do to the slots when the call it makes fails.            *)
Quiet ==
  ret'.code \notin {"ok", "none"} => \A n \in Slot : slots'[n] \in {slots[n], Free}

Result == [code : {"none", "ok"} \cup ErrorCode, at : SlotNumbers]

(* self is consumed and its slot cleared.                                   *)
LEMMA ReleaseKeeps ==
  ASSUME IInv, UseHandles, NEW h \in handles, NEW r, r.table = slots,
         NEW code \in {"ok"} \cup ErrorCode, Release(h, r, code)
  PROVE  IInv' /\ Quiet
<1>1. Holds(slots, h.no)
  BY Occupied DEF Holds
<1>2. SlotClear(slots, h.no).table = [slots EXCEPT ![h.no] = Free]
  BY <1>1 DEF SlotClear, Ok, ClearSlot
<1>3. /\ slots' = [slots EXCEPT ![h.no] = Free] /\ leaked' = leaked
      /\ handles' = handles \ {h} /\ ret' = [code |-> code, at |-> 0]
  BY <1>2 DEF Release
<1>4. ret' \in Result
  BY <1>3, ItemAssumption DEF Result, SlotNumbers
<1>5. IInv'
  BY <1>3, <1>4, DropKeeps DEF Result
<1>6. Quiet
  BY <1>3, Occupied DEF Quiet, IInv, TypeOK
<1> QED BY <1>5, <1>6

(* get followed by a clear of what it loaded leaves the table as it was.    *)
LEMMA TakenRestores ==
  ASSUME IInv, NEW r, NEW item \in Item,
         Loads(r, slots, item, 0) \/ Fails(r, slots)
  PROVE  Taken(r) = slots
<1>1. CASE Fails(r, slots)
  BY <1>1 DEF Fails, Taken, ErrorCode
<1>2. CASE Loads(r, slots, item, 0)
  <2>1. slots \in [Slot -> Item \cup {Free}] /\ r.at \in Slot
        /\ r.table = [slots EXCEPT ![r.at] = item] /\ slots[r.at] = Free
    BY <1>2 DEF Loads, IInv, TypeOK
  <2>2. Holds(r.table, r.at)
    BY <2>1, ItemAssumption DEF Holds
  <2>3. Taken(r) = [r.table EXCEPT ![r.at] = Free]
    BY <1>2, <2>2 DEF Loads, Taken, SlotClear, Ok, ClearSlot
  <2> QED BY <2>1, <2>3
<1> QED BY <1>1, <1>2

(* A handle is made, or the call fails.                                     *)
LEMMA AcquireIsQuiet ==
  ASSUME NEW r, NEW marker, NEW item, NEW walking,
         Acquire(r, marker, item, walking),
         Loads(r, slots, item, 0) \/ Fails(r, slots)
  PROVE  Quiet
BY DEF Acquire, Return, Loads, Fails, Quiet

-----------------------------------------------------------------------------
(* One lemma per group of operations.                                       *)

LEMMA RootKeeps ==
  ASSUME IInv, (\E k \in Keylet : FromKeylet(k)) \/ FromTxnHash \/ FromOtxn \/ FromMeta
  PROVE  IInv' /\ Quiet
<1>1. slots \in Table /\ world \in World /\ 0 \in Nat
  BY DEF IInv, TypeOK
<1>2. "STObject" \in Marker
  BY DEF Marker, CastTarget
<1>3. ASSUME NEW i, NEW ty \in RootType, HasType(i, ty)
      PROVE  i \in Item /\ Claim("STObject", i)
  BY <1>3 DEF HasType, Claim, Accepts, RootType
<1>4. ASSUME NEW k \in Keylet, FromKeylet(k)  PROVE IInv' /\ Quiet
  <2> DEFINE r == SlotSet(slots, k, 0)
  <2>1. \/ Loads(r, slots, world.ledger[k], 0) /\ HasType(world.ledger[k], "LedgerEntry")
        \/ Fails(r, slots)
    BY <1>1, SlotSetLoads
  <2>2. UseHandles /\ Acquire(r, "STObject", world.ledger[k], FALSE)
    BY <1>4 DEF FromKeylet
  <2>3. HasType(world.ledger[k], "LedgerEntry") =>
          world.ledger[k] \in Item /\ Claim("STObject", world.ledger[k])
    BY <1>3 DEF RootType
  <2> HIDE DEF r
  <2> QED BY <1>2, <2>1, <2>2, <2>3, AcquireKeeps, AcquireIsQuiet
<1>5. ASSUME FromTxnHash  PROVE IInv' /\ Quiet
  <2> DEFINE r == SlotSet(slots, TxnHash, 0)
  <2>1. Fails(r, slots)
    BY <1>1, SlotSetLoads, ItemAssumption
  <2>2. UseHandles /\ Acquire(r, "STObject", Absent, FALSE)
    BY <1>5 DEF FromTxnHash
  <2> HIDE DEF r
  <2> QED BY <1>2, <2>1, <2>2, AcquireKeeps, AcquireIsQuiet
<1>6. ASSUME FromOtxn  PROVE IInv' /\ Quiet
  <2> DEFINE r == OtxnSlot(slots, 0)
  <2>1. \/ Loads(r, slots, world.otxn, 0) /\ HasType(world.otxn, "Transaction")
        \/ Fails(r, slots)
    BY <1>1, OtxnSlotLoads
  <2>2. UseHandles /\ Acquire(r, "STObject", world.otxn, FALSE)
    BY <1>6 DEF FromOtxn
  <2>3. HasType(world.otxn, "Transaction") =>
          world.otxn \in Item /\ Claim("STObject", world.otxn)
    BY <1>3 DEF RootType
  <2> HIDE DEF r
  <2> QED BY <1>2, <2>1, <2>2, <2>3, AcquireKeeps, AcquireIsQuiet
<1>7. ASSUME FromMeta  PROVE IInv' /\ Quiet
  <2> DEFINE r == MetaSlot(slots, 0)
  <2>1. \/ Loads(r, slots, world.meta, 0) /\ HasType(world.meta, "Metadata")
        \/ Fails(r, slots)
    BY <1>1, MetaSlotLoads
  <2>2. UseHandles /\ Acquire(r, "STObject", world.meta, FALSE)
    BY <1>7 DEF FromMeta
  <2>3. HasType(world.meta, "Metadata") =>
          world.meta \in Item /\ Claim("STObject", world.meta)
    BY <1>3 DEF RootType
  <2> HIDE DEF r
  <2> QED BY <1>2, <2>1, <2>2, <2>3, AcquireKeeps, AcquireIsQuiet
<1> QED BY <1>4, <1>5, <1>6, <1>7

(* The parameter a key gives its child.                                     *)
LEMMA OutIsMarker ==
  ASSUME NEW k \in Field \cup Index
  PROVE  Out(k) \in Marker
BY MarkerAssumption DEF Out, Marker, CastTarget

LEMMA GetKeeps ==
  ASSUME IInv, NEW h \in handles, NEW k \in Field \cup Index, NEW walking \in BOOLEAN,
         Get(h, k, walking)
  PROVE  IInv' /\ Quiet
<1> DEFINE r == Resolve(slots, h.no, k, 0)
           child == Child[h.item][k]
<1>1. slots \in Table /\ h.no \in Slot /\ slots[h.no] = h.item /\ 0 \in Nat
  BY Occupied DEF IInv, TypeOK
<1>2. \/ Loads(r, slots, child, 0) /\ child \in Item /\ Claim(Out(k), child)
      \/ Fails(r, slots)
  BY <1>1, ResolveLoads
<1>3. UseHandles /\ Acquire(r, Out(k), child, walking)
  BY DEF Get
<1>4. Out(k) \in Marker
  BY OutIsMarker
<1> HIDE DEF r, child
<1> QED BY <1>2, <1>3, <1>4, AcquireKeeps, AcquireIsQuiet

LEMMA WalkStepKeeps ==
  ASSUME IInv, NEW w \in handles, NEW k \in Field \cup Index, WalkStep(w, k)
  PROVE  IInv' /\ Quiet
<1> DEFINE r == Resolve(slots, w.no, k, w.no)
           child == Child[w.item][k]
           g == Wrap(r.at, Out(k), child, TRUE)
<1>1. slots \in Table /\ w.no \in Slot /\ slots[w.no] = w.item
      /\ w.no \in Nat /\ w.no # 0
  BY Occupied, ItemAssumption DEF IInv, TypeOK
<1>2. \/ Loads(r, slots, child, w.no) /\ child \in Item /\ Claim(Out(k), child)
      \/ Fails(r, slots)
  BY <1>1, ResolveLoads
<1>3. /\ UseHandles
      /\ \/ r.code = "ok" /\ Return(r) /\ Retype(w, g)
         \/ r.code # "ok" /\ Release(w, r, r.code)
  BY DEF WalkStep
<1>4. Out(k) \in Marker
  BY OutIsMarker
<1>5. CASE Fails(r, slots)
  <2>1. r.code # "ok" /\ r.table = slots /\ r.code \in {"ok"} \cup ErrorCode
    BY <1>5 DEF Fails, ErrorCode
  <2> HIDE DEF r
  <2> QED BY <1>3, <2>1, ReleaseKeeps
<1>6. CASE Loads(r, slots, child, w.no) /\ child \in Item /\ Claim(Out(k), child)
  <2> HIDE DEF r, child
  <2>1. r.code = "ok" /\ r.at = w.no /\ r.table = [slots EXCEPT ![w.no] = child]
    BY <1>1, <1>6 DEF Loads
  <2>2. /\ slots' = [slots EXCEPT ![w.no] = child]
        /\ ret' = [code |-> "ok", at |-> w.no] /\ Retype(w, g)
    BY <1>3, <2>1 DEF Return
  <2>3. g = [no |-> w.no, marker |-> Out(k), checked |-> TRUE, walking |-> TRUE,
             item |-> child]
    BY <2>1 DEF Wrap
  <2> HIDE DEF g
  <2>4. g \in Handle
    BY <1>1, <1>4, <1>6, <2>3 DEF Handle
  <2>5. slots' \in Table /\ slots'[w.no] = child
        /\ \A n \in Slot : n # w.no => slots'[n] = slots[n]
    BY <1>1, <1>6, <2>2
  <2>6. ret' \in Result
    BY <1>1, <2>2, ItemAssumption DEF Result, SlotNumbers
  <2>7. g.no = w.no /\ g.item = child /\ g.marker = Out(k)
    BY <2>3
  <2>8. IInv'
    BY <1>3, <1>6, <2>2, <2>4, <2>5, <2>6, <2>7, RetypeKeeps DEF Result
  <2>9. Quiet
    BY <2>2 DEF Quiet
  <2> QED BY <2>8, <2>9
<1> QED BY <1>2, <1>5, <1>6

(* The operations that only change a handle's parameter.                    *)
LEMMA RetypeOnlyKeeps ==
  ASSUME IInv, UseHandles, NEW h \in handles, NEW g \in Handle, Retype(h, g),
         g.no = h.no, g.item = h.item,
         g.checked => Claim(g.marker, slots[h.no]),
         slots' = slots, ret' \in Result
  PROVE  IInv' /\ Quiet
<1>1. slots[h.no] = h.item /\ h.item \in Item
  BY Occupied DEF IInv, TypeOK
<1>2. slots' \in Table
  BY DEF IInv, TypeOK
<1>3. IInv'
  BY <1>1, <1>2, RetypeKeeps DEF Result
<1> QED BY <1>3 DEF Quiet

LEMMA WalkDoneKeeps ==
  ASSUME IInv, NEW w \in handles, WalkDone(w)
  PROVE  IInv' /\ Quiet
<1> DEFINE g == [w EXCEPT !.walking = FALSE]
<1>1. w \in Handle /\ (w.checked => Claim(w.marker, slots[w.no]))
  BY DEF IInv, TypeOK, HandlesTyped
<1>2. /\ g \in Handle /\ g.no = w.no /\ g.item = w.item
      /\ g.checked = w.checked /\ g.marker = w.marker
  BY <1>1 DEF Handle
<1>3. UseHandles /\ Retype(w, g) /\ slots' = slots /\ ret' \in Result
  BY DEF WalkDone, IInv, TypeOK, Result
<1> HIDE DEF g
<1> QED BY <1>1, <1>2, <1>3, RetypeOnlyKeeps

LEMMA AssumeTypeKeeps ==
  ASSUME IInv, NEW h \in handles, NEW m \in AssumeTarget, AssumeType(h, m)
  PROVE  IInv' /\ Quiet
<1> DEFINE g == [h EXCEPT !.marker = m, !.checked = FALSE]
<1>1. h \in Handle /\ m \in Marker
  BY MarkerAssumption DEF IInv, TypeOK
<1>2. g \in Handle /\ g.no = h.no /\ g.item = h.item /\ g.checked = FALSE
  BY <1>1 DEF Handle
<1>3. UseHandles /\ Retype(h, g) /\ slots' = slots /\ ret' \in Result
  BY DEF AssumeType, IInv, TypeOK, Result
<1> HIDE DEF g
<1> QED BY <1>2, <1>3, RetypeOnlyKeeps

LEMMA IntoSlotKeeps ==
  ASSUME IInv, NEW h \in handles, IntoSlot(h)
  PROVE  IInv' /\ Quiet
<1> DEFINE g == [h EXCEPT !.marker = "STObject"]
<1>1. h \in Handle /\ (h.checked => Claim("STObject", slots[h.no]))
  BY DEF IInv, TypeOK, HandlesTyped, IntoSlot, Claim
<1>2. "STObject" \in Marker
  BY DEF Marker, CastTarget
<1>3. /\ g \in Handle /\ g.no = h.no /\ g.item = h.item
      /\ g.checked = h.checked /\ g.marker = "STObject"
  BY <1>1, <1>2 DEF Handle
<1>4. UseHandles /\ Retype(h, g) /\ slots' = slots /\ ret' \in Result
  BY DEF IntoSlot, IInv, TypeOK, Result
<1> HIDE DEF g
<1> QED BY <1>1, <1>3, <1>4, RetypeOnlyKeeps

LEMMA TryCastKeeps ==
  ASSUME IInv, NEW h \in handles, NEW m \in CastTarget, TryCast(h, m)
  PROVE  IInv' /\ Quiet
<1>1. h \in Handle /\ m \in Marker /\ m # "View"
  BY MarkerAssumption DEF IInv, TypeOK, Marker, CastTarget
<1>2. UseHandles
  BY DEF TryCast
<1>3. Unchanged("ok").table = slots /\ "ok" \in {"ok"} \cup ErrorCode
      /\ "NOT_AN_OBJECT" \in ErrorCode /\ "DOESNT_EXIST" \in ErrorCode
  BY DEF Unchanged, ErrorCode
<1>4. CASE /\ Accepts(m, Type[slots[h.no]])
           /\ Return(Unchanged("ok"))
           /\ Retype(h, [h EXCEPT !.marker = m, !.checked = TRUE])
  <2> DEFINE g == [h EXCEPT !.marker = m, !.checked = TRUE]
  <2>1. g \in Handle /\ g.no = h.no /\ g.item = h.item /\ g.marker = m
    BY <1>1 DEF Handle
  <2>2. slots' = slots /\ ret' \in Result
    BY <1>4, ItemAssumption DEF Return, Unchanged, Result, SlotNumbers
  <2>3. Retype(h, g)
    BY <1>4
  <2>4. Claim(g.marker, slots[h.no])
    BY <1>1, <1>4, <2>1 DEF Claim
  <2> HIDE DEF g
  <2> QED BY <1>2, <2>1, <2>2, <2>3, <2>4, RetypeOnlyKeeps
<1>5. CASE Release(h, Unchanged("ok"), "NOT_AN_OBJECT")
  BY <1>2, <1>3, <1>5, ReleaseKeeps
<1>6. CASE Release(h, Unchanged("ok"), "DOESNT_EXIST")
  BY <1>2, <1>3, <1>6, ReleaseKeeps
<1> QED BY <1>4, <1>5, <1>6 DEF TryCast

LEMMA ForgetKeeps ==
  ASSUME IInv, NEW h \in handles, Forget(h)
  PROVE  IInv' /\ Quiet
<1>1. /\ UseHandles /\ handles' = handles \ {h}
      /\ slots' = slots /\ leaked' = leaked \cup {h.no}
      /\ ret' = [code |-> "ok", at |-> 0]
  BY DEF Forget, Return, Unchanged, Abandon
<1>2. ret' \in Result
  BY <1>1, ItemAssumption DEF Result, SlotNumbers
<1>3. IInv'
  BY <1>1, <1>2, DropKeeps DEF Result
<1> QED BY <1>1, <1>3 DEF Quiet

LEMMA ClearKeeps ==
  ASSUME IInv, NEW h \in handles, Clear(h)
  PROVE  IInv' /\ Quiet
<1>1. UseHandles /\ Release(h, Unchanged("ok"), "ok")
  BY DEF Clear
<1>2. Unchanged("ok").table = slots
  BY DEF Unchanged
<1> QED BY <1>1, <1>2, ReleaseKeeps

(* What an object's handle finds under a field.                             *)
LEMMA SubfieldLoads ==
  ASSUME IInv, NEW h \in handles, NEW f \in Field
  PROVE  LET r == SlotSubfield(slots, h.no, f, 0)
             child == Child[slots[h.no]][f]
         IN  \/ /\ Loads(r, slots, child, 0) /\ child \in Item
                /\ Type[slots[h.no]] \in ObjectType
             \/ Fails(r, slots)
<1>1. slots \in Table /\ h.no \in Nat /\ 0 \in Nat /\ slots[h.no] \in Item
  BY Occupied, ItemAssumption DEF IInv, TypeOK
<1>2. "NOT_AN_OBJECT" \in ErrorCode
  BY DEF ErrorCode
<1>3. Child[slots[h.no]][f] # Absent => Child[slots[h.no]][f] \in Item
  BY <1>1, ItemAssumption
<1> QED BY <1>1, <1>2, <1>3, ExtractLoads DEF SlotSubfield

LEMMA ViewReadKeeps ==
  ASSUME IInv, NEW h \in handles, NEW f \in Field, ViewRead(h, f)
  PROVE  IInv' /\ Quiet
<1> DEFINE r == SlotSubfield(slots, h.no, f, 0)
           child == Child[slots[h.no]][f]
<1>1. (Loads(r, slots, child, 0) /\ child \in Item) \/ Fails(r, slots)
  BY SubfieldLoads
<1>2. /\ UseHandles /\ slots' = Taken(r) /\ ret' = [code |-> r.code, at |-> 0]
      /\ UNCHANGED <<handles, leaked>>
  BY DEF ViewRead
<1>3. Taken(r) = slots
  <2> HIDE DEF r, child
  <2>1. CASE Fails(r, slots)
    BY <2>1 DEF Fails, Taken, ErrorCode
  <2>2. CASE Loads(r, slots, child, 0) /\ child \in Item
    BY <2>2, TakenRestores
  <2> QED BY <1>1, <2>1, <2>2
<1>4. r.code \in {"ok"} \cup ErrorCode
  <2> HIDE DEF r, child
  <2> QED BY <1>1 DEF Loads, Fails
<1> HIDE DEF r, child
<1>5. ret' \in Result
  BY <1>2, <1>4, ItemAssumption DEF Result, SlotNumbers
<1>6. IInv'
  BY <1>2, <1>3, <1>5, CallKeeps DEF Result
<1> QED BY <1>2, <1>3, <1>6 DEF Quiet

LEMMA FromSlotKeeps ==
  ASSUME IInv, NEW h \in handles, FromSlot(h)
  PROVE  IInv' /\ Quiet
<1> DEFINE r == SlotSubfield(slots, h.no, TypeField, 0)
           child == Child[slots[h.no]][TypeField]
           matches == r.code = "ok" /\ r.table[r.at] = ViewType
<1>1. \/ /\ Loads(r, slots, child, 0) /\ child \in Item
         /\ Type[slots[h.no]] \in ObjectType
      \/ Fails(r, slots)
  BY SubfieldLoads, MarkerAssumption
<1>2. UseHandles
  BY DEF FromSlot
<1>3. \/ /\ matches
         /\ slots' = Taken(r) /\ ret' = [code |-> "ok", at |-> 0]
         /\ Retype(h, [h EXCEPT !.marker = "View", !.checked = TRUE])
      \/ /\ r.code = "ok" /\ ~matches
         /\ Release(h, [r EXCEPT !.table = Taken(r)], "DOES_NOT_MATCH")
      \/ /\ r.code # "ok"
         /\ Release(h, r, r.code)
  BY DEF FromSlot
<1> HIDE DEF r, child
<1>4. CASE Fails(r, slots)
  <2>1. r.code # "ok" /\ r.table = slots /\ r.code \in {"ok"} \cup ErrorCode
    BY <1>4 DEF Fails, ErrorCode
  <2> QED BY <1>2, <1>3, <2>1, ReleaseKeeps
<1>5. CASE /\ Loads(r, slots, child, 0) /\ child \in Item
           /\ Type[slots[h.no]] \in ObjectType
  <2>1. Taken(r) = slots
    BY <1>5, TakenRestores
  <2>2. r.code = "ok" /\ r.at \in Slot /\ r.table = [slots EXCEPT ![r.at] = child]
    BY <1>5 DEF Loads
  <2>3. r.table[r.at] = child
    BY <2>2 DEF IInv, TypeOK
  <2>4. CASE ~matches
    <3> DEFINE q == [r EXCEPT !.table = Taken(r)]
    <3>1. Release(h, q, "DOES_NOT_MATCH")
      BY <1>3, <2>2, <2>4
    <3>2. slots' = SlotClear(slots, h.no).table
          /\ ret' = [code |-> "DOES_NOT_MATCH", at |-> 0]
          /\ handles' = handles \ {h} /\ leaked' = leaked
      <4>1. q.table = slots
        BY <2>1, <2>2 DEF SlotSubfield, Extract, Load, ResolveSlot, Ok, Fail, r
      <4> QED BY <3>1, <4>1 DEF Release
    <3>3. Release(h, Unchanged("ok"), "DOES_NOT_MATCH")
      BY <3>2 DEF Release, Unchanged
    <3>4. Unchanged("ok").table = slots /\ "DOES_NOT_MATCH" \in {"ok"} \cup ErrorCode
      BY DEF Unchanged, ErrorCode
    <3> QED BY <1>2, <3>3, <3>4, ReleaseKeeps
  <2>5. CASE matches
    <3> DEFINE g == [h EXCEPT !.marker = "View", !.checked = TRUE]
    <3>1. h \in Handle /\ "View" \in Marker
      BY DEF IInv, TypeOK, Marker
    <3>2. g \in Handle /\ g.no = h.no /\ g.item = h.item /\ g.marker = "View"
      BY <3>1 DEF Handle
    <3>3. Claim("View", slots[h.no])
      BY <1>5, <2>3, <2>5 DEF Claim, Accepts, ObjectType, child
    <3>4. slots' = slots /\ ret' \in Result
      BY <1>3, <2>1, <2>2, <2>5, ItemAssumption DEF Result, SlotNumbers
    <3>5. Retype(h, g)
      BY <1>3, <2>2, <2>5
    <3> HIDE DEF g
    <3> QED BY <1>2, <3>2, <3>3, <3>4, <3>5, RetypeOnlyKeeps
  <2> QED BY <2>4, <2>5
<1> QED BY <1>1, <1>4, <1>5

-----------------------------------------------------------------------------
(* The numbered layer.                                                      *)

(* A call's outcome: typed, and a failure leaves nothing new in a slot.     *)
Outcome(r) ==
  /\ r.table \in Table
  /\ r.code \in {"ok"} \cup ErrorCode
  /\ r.at \in SlotNumbers
  /\ r.code # "ok" => \A n \in Slot : r.table[n] \in {slots[n], Free}

LEMMA LoadsOutcome ==
  ASSUME slots \in Table, NEW r, NEW item, NEW into,
         (Loads(r, slots, item, into) /\ item \in Item) \/ Fails(r, slots)
  PROVE  Outcome(r)
<1>1. CASE Loads(r, slots, item, into) /\ item \in Item
  <2>1. r.table \in Table
    BY <1>1 DEF Loads
  <2>2. r.at \in SlotNumbers
    BY <1>1, ItemAssumption DEF Loads, SlotNumbers
  <2> QED BY <1>1, <2>1, <2>2 DEF Loads, Outcome
<1>2. CASE Fails(r, slots)
  <2>1. r.at \in SlotNumbers
    BY <1>2, ItemAssumption DEF Fails, SlotNumbers
  <2> QED BY <1>2, <2>1 DEF Fails, Outcome, ErrorCode
<1> QED BY <1>1, <1>2

(* slot_clear empties a slot or fails.                                      *)
LEMMA SlotClearOutcome ==
  ASSUME slots \in Table, NEW n \in Nat
  PROVE  Outcome(SlotClear(slots, n))
<1> DEFINE r == SlotClear(slots, n)
<1> SUFFICES Outcome(r)
  OBVIOUS
<1>1. 0 \in SlotNumbers /\ (1 \in Slot => 1 \in SlotNumbers)
  BY ItemAssumption DEF SlotNumbers
<1>2. CASE Holds(slots, n)
  <2>1. n \in Slot /\ r.table = [slots EXCEPT ![n] = Free] /\ r.code = "ok" /\ r.at = 1
    BY <1>2 DEF SlotClear, Ok, ClearSlot, Holds
  <2>2. 1 \in Slot
    BY <2>1, ItemAssumption
  <2> HIDE DEF r
  <2>3. r.table \in Table
    BY <2>1
  <2> QED BY <1>1, <2>1, <2>2, <2>3 DEF Outcome
<1>3. CASE ~Holds(slots, n)
  <2>1. r.table = slots /\ r.code = "DOESNT_EXIST" /\ r.at = 0
    BY <1>3 DEF SlotClear, Fail
  <2> HIDE DEF r
  <2> QED BY <1>1, <2>1 DEF Outcome, ErrorCode
<1> QED BY <1>2, <1>3

(* xpop_slot undoes its first half when the second finds no slot.           *)
LEMMA XpopSlotOutcome ==
  ASSUME slots \in Table, world \in World, NEW tx \in Nat, NEW meta \in Nat
  PROVE  Outcome(XpopSlot(slots, tx, meta))
<1> DEFINE first == Load(slots, world.xpop.tx, tx)
           second == Load(first.table, world.xpop.meta, meta)
           undone == Fail(ClearSlot(first.table, first.at), second.code)
           both == Ok(second.table, Packed(first.at, second.at))
<1>1. Outcome(Fail(slots, "INVALID_ARGUMENT")) /\ Outcome(Fail(slots, "DOESNT_EXIST"))
  BY ItemAssumption DEF Outcome, Fail, ErrorCode, SlotNumbers
<1>2. CASE world.xpop = Absent
  BY <1>1, <1>2 DEF XpopSlot
<1>3. CASE world.xpop # Absent
  <2>1. world.xpop.tx \in Item /\ world.xpop.meta \in Item
    BY <1>3, SeedAssumption DEF HasType
  <2>2. Loads(first, slots, world.xpop.tx, tx) \/ Fails(first, slots)
    BY LoadLoads
  <2>3. Outcome(first)
    <3> HIDE DEF first
    <3> QED BY <2>1, <2>2, LoadsOutcome
  <2>4. first.table \in Table
    BY <2>3 DEF Outcome
  <2>5. Loads(second, first.table, world.xpop.meta, meta) \/ Fails(second, first.table)
    <3> HIDE DEF first
    <3> QED BY <2>4, LoadLoads
  <2>6. ASSUME Loads(first, slots, world.xpop.tx, tx), Fails(second, first.table)
        PROVE  Outcome(undone)
    <3> DEFINE r == undone
    <3> SUFFICES Outcome(r)
      OBVIOUS
    <3>1. r.table = [first.table EXCEPT ![first.at] = Free]
          /\ r.code = second.code /\ r.at = 0
      BY DEF Fail, ClearSlot
    <3>2. first.at \in Slot /\ first.table = [slots EXCEPT ![first.at] = world.xpop.tx]
          /\ second.code \in ErrorCode
      BY <2>6 DEF Loads, Fails
    <3> HIDE DEF first, second, undone, both, r
    <3>3. r.table \in Table /\ \A n \in Slot : r.table[n] \in {slots[n], Free}
      BY <2>4, <3>1, <3>2
    <3>4. r.at \in SlotNumbers
      BY <3>1, ItemAssumption DEF SlotNumbers
    <3> QED BY <3>1, <3>2, <3>3, <3>4 DEF Outcome
  <2>7. ASSUME Loads(first, slots, world.xpop.tx, tx),
               Loads(second, first.table, world.xpop.meta, meta)
        PROVE  Outcome(both)
    <3> DEFINE r == both
    <3> SUFFICES Outcome(r)
      OBVIOUS
    <3>1. r.table = second.table /\ r.code = "ok" /\ r.at = Packed(first.at, second.at)
      BY DEF Ok
    <3>2. first.at \in Slot /\ second.at \in Slot
          /\ second.table = [first.table EXCEPT ![second.at] = world.xpop.meta]
      BY <2>7 DEF Loads
    <3> HIDE DEF first, second, undone, both, r
    <3>3. r.table \in Table
      BY <2>1, <2>4, <3>1, <3>2
    <3>4. r.at \in SlotNumbers
      BY <3>1, <3>2 DEF SlotNumbers
    <3> QED BY <3>1, <3>3, <3>4 DEF Outcome
  <2>8. CASE Fails(first, slots)
    BY <1>1, <2>3, <2>8, <1>3 DEF XpopSlot, Fails, ErrorCode
  <2>9. Loads(first, slots, world.xpop.tx, tx) => first.code = "ok"
    BY DEF Loads
  <2>10. /\ Loads(second, first.table, world.xpop.meta, meta) => second.code = "ok"
         /\ Fails(second, first.table) => second.code # "ok"
    BY DEF Loads, Fails, ErrorCode
  <2>11. CASE Loads(first, slots, world.xpop.tx, tx)
    <3>1. XpopSlot(slots, tx, meta) \in
            {Fail(slots, "INVALID_ARGUMENT"),
             IF second.code # "ok" THEN undone ELSE both}
      BY <1>3, <2>9, <2>11 DEF XpopSlot
    <3> QED BY <1>1, <2>5, <2>6, <2>7, <2>10, <2>11, <3>1
  <2> QED BY <2>2, <2>8, <2>11
<1> QED BY <1>2, <1>3

LEMMA NumberedCallOutcome ==
  ASSUME IInv, NumberedCall
  PROVE  \E r : Return(r) /\ Outcome(r)
<1>1. slots \in Table /\ world \in World /\ Request \subseteq Nat
  BY ItemAssumption DEF IInv, TypeOK, Request
<1>2. ASSUME NEW n \in Request
      PROVE  Outcome(SlotClear(slots, n))
  BY <1>1, SlotClearOutcome
<1>3. ASSUME NEW data \in Keylet \cup {TxnHash}, NEW into \in Request
      PROVE  Outcome(SlotSet(slots, data, into))
  <2> DEFINE r == SlotSet(slots, data, into)
  <2>1. \/ Loads(r, slots, world.ledger[data], into) /\ world.ledger[data] \in Item
        \/ Fails(r, slots)
    BY <1>1, SlotSetLoads DEF HasType
  <2> HIDE DEF r
  <2>2. Outcome(r)
    BY <1>1, <2>1, LoadsOutcome
  <2> QED BY <2>2 DEF r
<1>4. ASSUME NEW into \in Request
      PROVE  Outcome(OtxnSlot(slots, into))
  <2> DEFINE r == OtxnSlot(slots, into)
  <2>1. \/ Loads(r, slots, world.otxn, into) /\ world.otxn \in Item
        \/ Fails(r, slots)
    BY <1>1, OtxnSlotLoads DEF HasType
  <2> HIDE DEF r
  <2>2. Outcome(r)
    BY <1>1, <2>1, LoadsOutcome
  <2> QED BY <2>2 DEF r
<1>5. ASSUME NEW into \in Request
      PROVE  Outcome(MetaSlot(slots, into))
  <2> DEFINE r == MetaSlot(slots, into)
  <2>1. \/ Loads(r, slots, world.meta, into) /\ world.meta \in Item
        \/ Fails(r, slots)
    BY <1>1, MetaSlotLoads DEF HasType
  <2> HIDE DEF r
  <2>2. Outcome(r)
    BY <1>1, <2>1, LoadsOutcome
  <2> QED BY <2>2 DEF r
<1>6. ASSUME NEW tx \in Request, NEW meta \in Request
      PROVE  Outcome(XpopSlot(slots, tx, meta))
  BY <1>1, XpopSlotOutcome
<1>7. ASSUME NEW parent \in Request, NEW k \in Field \cup Index, NEW into \in Request,
             NEW containers, NEW mismatch \in ErrorCode
      PROVE  Outcome(Extract(slots, parent, k, into, containers, mismatch))
  <2> DEFINE r == Extract(slots, parent, k, into, containers, mismatch)
             child == Child[slots[parent]][k]
  <2>1. \/ Loads(r, slots, child, into) /\ Holds(slots, parent) /\ child # Absent
        \/ Fails(r, slots)
    BY <1>1, ExtractLoads
  <2>2. Holds(slots, parent) /\ child # Absent => child \in Item
    BY <1>1, ItemAssumption DEF Holds
  <2> HIDE DEF r, child
  <2>3. Outcome(r)
    BY <1>1, <2>1, <2>2, LoadsOutcome
  <2> QED BY <2>3 DEF r
<1>8. ASSUME NEW parent \in Request, NEW f \in Field, NEW into \in Request
      PROVE  Outcome(SlotSubfield(slots, parent, f, into))
  BY <1>7 DEF SlotSubfield, ErrorCode
<1>9. ASSUME NEW parent \in Request, NEW x \in Index, NEW into \in Request
      PROVE  Outcome(SlotSubarray(slots, parent, x, into))
  BY <1>7 DEF SlotSubarray, ErrorCode
<1> QED BY <1>2, <1>3, <1>4, <1>5, <1>6, <1>8, <1>9 DEF NumberedCall

LEMMA UseNumbersKeeps ==
  ASSUME IInv, UseNumbers
  PROVE  IInv' /\ Quiet
<1>1. /\ layer' = "numbers" /\ layer # "handles"
      /\ handles' = handles /\ leaked' = leaked /\ world' = world
  BY DEF UseNumbers
<1>2. PICK r : Return(r) /\ Outcome(r)
  BY NumberedCallOutcome DEF UseNumbers
<1>3. slots' = r.table /\ ret' = [code |-> r.code, at |-> r.at]
  BY <1>2 DEF Return
<1>4. handles' = {} /\ leaked' = {}
  BY <1>1 DEF IInv, LayerInv
<1>5. TypeOK'
  BY <1>1, <1>2, <1>3 DEF Outcome, IInv, TypeOK
<1>6. HandlesDenote' /\ HandlesTyped' /\ SlotsAccounted' /\ LayerInv'
  BY <1>1, <1>4 DEF HandlesDenote, HandlesTyped, SlotsAccounted, LayerInv
<1>7. Quiet
  BY <1>2, <1>3 DEF Outcome, Quiet
<1> QED BY <1>5, <1>6, <1>7 DEF IInv

LEMMA StartKeeps ==
  ASSUME NewInvocation
  PROVE  IInv' /\ Quiet
<1>1. TypeOK'
  BY ItemAssumption DEF NewInvocation, TypeOK, SlotNumbers
<1>2. HandlesDenote' /\ HandlesTyped' /\ SlotsAccounted' /\ LayerInv'
  BY DEF NewInvocation, HandlesDenote, HandlesTyped, SlotsAccounted, LayerInv
<1> QED BY <1>1, <1>2 DEF IInv, NewInvocation, Quiet

LEMMA InitEstablishes == Init => IInv
<1> SUFFICES ASSUME Init PROVE IInv
  OBVIOUS
<1>1. TypeOK
  BY ItemAssumption DEF Init, EmptyTable, TypeOK, SlotNumbers
<1>2. HandlesDenote /\ HandlesTyped /\ SlotsAccounted /\ LayerInv
  BY DEF Init, EmptyTable, HandlesDenote, HandlesTyped, SlotsAccounted, LayerInv
<1> QED BY <1>1, <1>2 DEF IInv

LEMMA UseHandleKeeps ==
  ASSUME IInv, NEW h \in handles, UseHandle(h)
  PROVE  IInv' /\ Quiet
BY GetKeeps, WalkStepKeeps, WalkDoneKeeps, ForgetKeeps, ClearKeeps, TryCastKeeps,
   AssumeTypeKeeps, ViewReadKeeps, FromSlotKeeps, IntoSlotKeeps DEF UseHandle

LEMMA NextKeeps ==
  ASSUME IInv, [Next]_vars
  PROVE  IInv'
<1>1. CASE Next
  BY <1>1, RootKeeps, UseHandleKeeps, UseNumbersKeeps, StartKeeps DEF Next
<1>2. CASE UNCHANGED vars
  BY <1>2 DEF vars, IInv, TypeOK, HandlesDenote, HandlesTyped, SlotsAccounted, LayerInv
<1> QED BY <1>1, <1>2

(* The invariant holds throughout: what the theorems below rest on.         *)
THEOREM SlotsInductive == Spec => []IInv
<1>1. IInv /\ [Next]_vars => IInv'
  BY NextKeeps
<1> QED BY <1>1, InitEstablishes, PTL DEF Spec

-----------------------------------------------------------------------------
(* The host never assigns or returns a slot outside the table, and every    *)
(* handle names a slot of it (host/slots.rs, slot_obj.rs).                  *)
THEOREM SlotTypesCorrect == Spec => []TypeOK
BY SlotsInductive, PTL DEF IInv

(* A live handle's slot holds the value the handle was made for, and no     *)
(* other handle shares it, for any number of slots and any program: moving  *)
(* handles instead of copying them is enough (slot_obj.rs:36-49).           *)
THEOREM HandlesAreAffine == Spec => []HandlesDenote
BY SlotsInductive, PTL DEF IInv

(* A type parameter that was checked or navigated to is true of the slot's  *)
(* value (slot_obj.rs CastTarget, SlotKey; views/source.rs slot_of_type).   *)
THEOREM HandlesAreTyped == Spec => []HandlesTyped
BY SlotsInductive, PTL DEF IInv

(* No operation of the handle layer occupies a slot it does not hand out,   *)
(* whichever of its calls fails (slot_obj.rs:921-923).                      *)
THEOREM SlotsAreAccounted == Spec => []SlotsAccounted
BY SlotsInductive, PTL DEF IInv

(* A failed call, the two loads of xpop_slot included, leaves no new value  *)
(* in any slot (host/slots.rs:303-354).                                     *)
THEOREM FailuresLoadNothing == Spec => FailedCallsLoadNothing
<1>1. IInv /\ [Next]_vars =>
        [ret'.code \notin {"ok", "none"} =>
           \A n \in Slot : slots'[n] \in {slots[n], Free}]_vars
  <2> SUFFICES ASSUME IInv, Next  PROVE Quiet
    BY DEF Quiet
  <2> QED BY RootKeeps, UseHandleKeeps, UseNumbersKeeps, StartKeeps DEF Next
<1> QED BY <1>1, SlotsInductive, PTL DEF Spec, FailedCallsLoadNothing

=============================================================================
