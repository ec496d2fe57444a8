---------------------------- MODULE SlotObjects ----------------------------
(***************************************************************************)
(* slot_obj and views: typed, affine handles over the numbered slots.  A   *)
(* handle is moved, never copied, and nothing is released when one goes    *)
(* out of scope.  Every operation is the sequence of host calls its        *)
(* wrapper makes.                                                          *)
(*                                                                         *)
(* "Pick one layer per hook": an invocation uses handles or slot numbers,  *)
(* whichever its first call picks.                                         *)
(***************************************************************************)
EXTENDS SlotTable

CONSTANTS
  FieldMarker,    \* field -> the type parameter of its SField constant
  ScalarType,     \* the serialized types with no part of their own
  TypeField,      \* sfLedgerEntryType / sfTransactionType
  ViewType,       \* the value of TypeField a view was generated for
  AssumeTarget    \* the parameters the hook gives assume_type

(* Type parameters a handle may have; a generated view owns its root slot   *)
(* and is a handle whose parameter is the view.                             *)
CastTarget == {"STObject", "STArray", "Amount"} \cup ScalarType
Marker == CastTarget \cup {"Opaque", "View"}

(* CastTargetSealed::accepts; an opaque handle claims nothing.              *)
Accepts(m, ty) ==
  \/ m = "Opaque"
  \/ m = ty
  \/ m = "STObject" /\ ty \in RootType

(* What a handle with this parameter claims about the value in its slot.    *)
Claim(m, i) ==
  IF m = "View" THEN Accepts("STObject", Type[i]) /\ Child[i][TypeField] = ViewType
                ELSE Accepts(m, Type[i])

ASSUME MarkerAssumption ==
  /\ FieldMarker \in [Field -> Marker \ {"View"}]
  /\ TypeField \in Field /\ ViewType \in Item
  /\ ScalarType \cap {"Opaque", "View"} = {}
  /\ AssumeTarget \subseteq Marker \ {"View"}
  /\ \A i \in Item, f \in Field :
       Child[i][f] # Absent => Accepts(FieldMarker[f], Type[Child[i][f]])

VARIABLES
  handles,  \* the live handles: slot, parameter, whether the parameter was
            \* checked, whether slot_path! is still walking, and (for the
            \* properties) the value the handle was made for
  leaked,   \* slots whose handle is gone but which were not cleared
  layer     \* "none", "handles" or "numbers"

vars == <<slots, world, ret, handles, leaked, layer>>

Handle == [no : Slot, marker : Marker, checked : BOOLEAN, walking : BOOLEAN,
           item : Item \cup {Absent}]

Init ==
  /\ EmptyTable
  /\ world \in World
  /\ handles = {} /\ leaked = {} /\ layer = "none"

-----------------------------------------------------------------------------
(* What a call does to the handles.                                         *)

UseHandles == layer # "numbers" /\ layer' = "handles" /\ UNCHANGED world

Wrap(no, marker, item, walking) ==
  [no |-> no, marker |-> marker, checked |-> TRUE, walking |-> walking, item |-> item]

(* A handle for the slot the host assigned, or the host's error.            *)
Acquire(r, marker, item, walking) ==
  /\ Return(r)
  /\ handles' = IF r.code = "ok"
                THEN handles \cup {Wrap(r.at, marker, item, walking)}
                ELSE handles
  /\ UNCHANGED leaked

(* self is moved into a handle with another parameter.                      *)
Retype(h, g) == handles' = (handles \ {h}) \cup {g} /\ UNCHANGED leaked

(* self is moved and its slot cleared, best effort.                         *)
Release(h, r, code) ==
  /\ slots' = SlotClear(r.table, h.no).table
  /\ ret' = [code |-> code, at |-> 0]
  /\ handles' = handles \ {h}
  /\ UNCHANGED leaked

(* self is moved and its slot keeps its value until the hook ends.          *)
Abandon(h) == handles' = handles \ {h} /\ leaked' = leaked \cup {h.no}

Unchanged(code) == [table |-> slots, code |-> code, at |-> 0]

-----------------------------------------------------------------------------
(* Roots: from_keylet, from_txn_hash, from_otxn, from_meta.                 *)

FromKeylet(k) ==
  /\ UseHandles
  /\ Acquire(SlotSet(slots, k, 0), "STObject", world.ledger[k], FALSE)

FromTxnHash ==
  /\ UseHandles
  /\ Acquire(SlotSet(slots, TxnHash, 0), "STObject", Absent, FALSE)

FromOtxn ==
  /\ UseHandles
  /\ Acquire(OtxnSlot(slots, 0), "STObject", world.otxn, FALSE)

FromMeta ==
  /\ UseHandles
  /\ Acquire(MetaSlot(slots, 0), "STObject", world.meta, FALSE)

-----------------------------------------------------------------------------
(* Navigation: SlotKey.                                                     *)

Navigates(m, k) ==
  \/ k \in Field /\ m \in {"STObject", "Opaque", "View"}
  \/ k \in Index /\ m \in {"STArray", "Opaque"}

Out(k) == IF k \in Field THEN FieldMarker[k] ELSE "STObject"

Resolve(t, parent, k, into) ==
  IF k \in Field THEN SlotSubfield(t, parent, k, into)
                 ELSE SlotSubarray(t, parent, k, into)

(* get, get_opt and a view's subobject; walking when it is the first hop of *)
(* a slot_path! with more hops to come (a view is not a slot_path! root).   *)
Get(h, k, walking) ==
  /\ ~h.walking /\ Navigates(h.marker, k)
  /\ walking => h.marker # "View"
  /\ UseHandles
  /\ Acquire(Resolve(slots, h.no, k, 0), Out(k), Child[h.item][k], walking)

(* A hop that fails drops the handle and returns the error.                 *)
WalkStepLeaks(w, k) ==
  LET r == Resolve(slots, w.no, k, w.no)
  IN  /\ w.walking /\ Navigates(w.marker, k)
      /\ UseHandles
      /\ Return(r)
      /\ \/ /\ r.code = "ok"
            /\ Retype(w, Wrap(r.at, Out(k), Child[w.item][k], TRUE))
         \/ r.code # "ok" /\ handles' = handles \ {w} /\ UNCHANGED leaked

(* step: a later hop rewrites the walk's own slot; a hop that fails clears  *)
(* it.  The key of a hop is an expression: anything may run between hops.   *)
WalkStep(w, k) ==
  LET r == Resolve(slots, w.no, k, w.no)
  IN  /\ w.walking /\ Navigates(w.marker, k)
      /\ UseHandles
      /\ \/ /\ r.code = "ok"
            /\ Return(r)
            /\ Retype(w, Wrap(r.at, Out(k), Child[w.item][k], TRUE))
         \/ r.code # "ok" /\ Release(w, r, r.code)

WalkDone(w) ==
  /\ w.walking
  /\ UseHandles
  /\ Retype(w, [w EXCEPT !.walking = FALSE])
  /\ UNCHANGED <<slots, ret>>

-----------------------------------------------------------------------------
(* The end of a handle.                                                     *)

(* The plain terminal reads and a handle that goes out of scope, an early   *)
(* return inside a slot_path! key included: the slot keeps its value.       *)
Forget(h) ==
  /\ UseHandles
  /\ Return(Unchanged("ok"))
  /\ Abandon(h)

(* clear, and the take_* reads, which clear whatever the read returned.     *)
Clear(h) ==
  /\ ~h.walking /\ h.marker # "View"
  /\ UseHandles
  /\ Release(h, Unchanged("ok"), "ok")

TryCastUnchecked(h, m) ==
  /\ ~h.walking /\ h.marker # "View"
  /\ UseHandles
  /\ Return(Unchanged("ok"))
  /\ Retype(h, [h EXCEPT !.marker = m, !.checked = TRUE])

TryCast(h, m) ==
  /\ ~h.walking /\ h.marker # "View"
  /\ UseHandles
  /\ \/ /\ Holds(slots, h.no) /\ Accepts(m, Type[slots[h.no]])
        /\ Return(Unchanged("ok"))
        /\ Retype(h, [h EXCEPT !.marker = m, !.checked = TRUE])
     \/ /\ Holds(slots, h.no) /\ ~Accepts(m, Type[slots[h.no]])
        /\ Release(h, Unchanged("ok"), "NOT_AN_OBJECT")
     \/ /\ ~Holds(slots, h.no)
        /\ Release(h, Unchanged("ok"), "DOESNT_EXIST")

AssumeType(h, m) ==
  /\ ~h.walking /\ h.marker # "View"
  /\ UseHandles
  /\ Retype(h, [h EXCEPT !.marker = m, !.checked = FALSE])
  /\ UNCHANGED <<slots, ret>>

-----------------------------------------------------------------------------
(* Views: every read is get, read, clear.                                   *)

Taken(r) == IF r.code = "ok" THEN SlotClear(r.table, r.at).table ELSE r.table

ViewRead(h, f) ==
  LET r == SlotSubfield(slots, h.no, f, 0)
  IN  /\ h.marker = "View"
      /\ UseHandles
      /\ slots' = Taken(r) /\ ret' = [code |-> r.code, at |-> 0]
      /\ UNCHANGED <<handles, leaked>>

(* from_slot: slot_of_type reads the type field, and clears the root when   *)
(* it is missing, unreadable or of another type.                            *)
FromSlot(h) ==
  LET r == SlotSubfield(slots, h.no, TypeField, 0)
      matches == r.code = "ok" /\ r.table[r.at] = ViewType
  IN  /\ ~h.walking /\ h.marker = "STObject"
      /\ UseHandles
      /\ \/ /\ matches
            /\ slots' = Taken(r) /\ ret' = [code |-> "ok", at |-> 0]
            /\ Retype(h, [h EXCEPT !.marker = "View", !.checked = TRUE])
         \/ /\ r.code = "ok" /\ ~matches
            /\ Release(h, [r EXCEPT !.table = Taken(r)], "DOES_NOT_MATCH")
         \/ /\ r.code # "ok"
            /\ Release(h, r, r.code)

IntoSlot(h) ==
  /\ h.marker = "View"
  /\ UseHandles
  /\ Retype(h, [h EXCEPT !.marker = "STObject"])
  /\ UNCHANGED <<slots, ret>>

-----------------------------------------------------------------------------
UseNumbers ==
  /\ layer # "handles" /\ layer' = "numbers"
  /\ NumberedCall
  /\ UNCHANGED <<world, handles, leaked>>

(* InvocationContext::new: the hook ended and another invocation begins.    *)
NewInvocation ==
  /\ slots' = [n \in Slot |-> Free]
  /\ ret' = [code |-> "none", at |-> 0]
  /\ world' \in World
  /\ handles' = {} /\ leaked' = {} /\ layer' = "none"

UseHandle(h) ==
  \/ \E k \in Field \cup Index, walking \in BOOLEAN : Get(h, k, walking)
  \/ \E k \in Field \cup Index : WalkStep(h, k)
  \/ WalkDone(h)
  \/ Forget(h)
  \/ Clear(h)
  \/ \E m \in CastTarget : TryCast(h, m)
  \/ \E m \in AssumeTarget : AssumeType(h, m)
  \/ \E f \in Field : ViewRead(h, f)
  \/ FromSlot(h)
  \/ IntoSlot(h)

Next ==
  \/ \E k \in Keylet : FromKeylet(k)
  \/ FromTxnHash
  \/ FromOtxn
  \/ FromMeta
  \/ \E h \in handles : UseHandle(h)
  \/ UseNumbers
  \/ NewInvocation

Spec == Init /\ [][Next]_vars

-----------------------------------------------------------------------------
(* Every variable keeps its type; a call returns no slot number outside     *)
(* the table (host/slots.rs, invocation.rs).                                *)
TypeOK ==
  /\ slots \in Table
  /\ world \in World
  /\ ret \in [code : {"none", "ok"} \cup ErrorCode, at : SlotNumbers]
  /\ handles \in SUBSET Handle
  /\ leaked \in SUBSET Slot
  /\ layer \in {"none", "handles", "numbers"}

(* Affinity: whatever is cleared, retyped, walked or leaked meanwhile, the  *)
(* slot of a live handle still holds the value the handle was made for, and *)
(* no other handle and no leaked slot shares its number (slot_obj.rs:36-49). *)
HandlesDenote ==
  \A h \in handles :
    /\ slots[h.no] = h.item
    /\ h.no \notin leaked
    /\ \A g \in handles : g.no = h.no => g = h

(* A handle's type parameter is true of the value in its slot, unless it    *)
(* comes from assume_type: through navigation, walks rewritten in place,    *)
(* casts and views (slot_obj.rs CastTarget, SlotKey; views/source.rs).      *)
HandlesTyped ==
  \A h \in handles : h.checked => slots[h.no] # Free /\ Claim(h.marker, slots[h.no])

(* The slot budget: the occupied slots are those of live handles and those  *)
(* the hook chose not to clear.  A failed walk, a failed cast, a view read  *)
(* or a failed view check costs nothing (slot_obj.rs:921-923,               *)
(* views/source.rs:42-60).                                                  *)
SlotsAccounted ==
  layer = "handles" =>
    \A n \in Slot :
      slots[n] # Free <=> (n \in leaked \/ \E h \in handles : h.no = n)

(* A call that fails leaves no value in a slot that did not hold it before, *)
(* the two-slot xpop_slot included (host/slots.rs xpop_slot).               *)
FailedCallsLoadNothing ==
  [][ret'.code \notin {"ok", "none"} =>
       \A n \in Slot : slots'[n] \in {slots[n], Free}]_vars
=============================================================================
