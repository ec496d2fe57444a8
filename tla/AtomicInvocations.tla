------------------------- MODULE AtomicInvocations -------------------------
(***************************************************************************)
(* What the test environment promises of its invocations: the world that   *)
(* outlives them (hook state, emissions, parameter overrides, hook_again,  *)
(* skip directives) changes in one step, when an invocation is accepted,   *)
(* by a bounded batch of authorized changes; an invocation that ends any   *)
(* other way changes nothing.  No snapshot, no staging, no context.        *)
(***************************************************************************)
EXTENDS Integers, Sequences, FiniteSets, SequencesExt

CONSTANTS
  Address, Value, Missing, HookHash, OverrideKey, NoParam,
  SeedStates,
  WritableBy,             \* hash -> the addresses a hook of that hash may change
  MaxStateModifications, MaxReserve, MaxParamOverrides

VARIABLES
  store,      \* hook state between invocations
  emitted,    \* transactions emitted by accepted invocations
  overrides,  \* hook parameters set by accepted invocations
  again,      \* whether the latest accepted invocation asked to run again
  skips,      \* skip directives of accepted invocations
  position,   \* the hash of the hook being invoked
  outcome     \* "running" during an invocation; else how the latest one ended

vars == <<store, emitted, overrides, again, skips, position, outcome>>

Init ==
  /\ store \in SeedStates
  /\ emitted = <<>>
  /\ overrides = [k \in OverrideKey |-> NoParam]
  /\ again = FALSE
  /\ skips = <<>>
  /\ position \in HookHash
  /\ outcome = "none"

ChangedStore == {a \in Address : store'[a] # store[a]}
ChangedParams == {k \in OverrideKey : overrides'[k] # overrides[k]}

Start ==
  /\ outcome # "running"
  /\ outcome' = "running"
  /\ UNCHANGED <<store, emitted, overrides, again, skips, position>>

Commit ==
  /\ outcome = "running"
  /\ outcome' = "accept"
  /\ ChangedStore \subseteq WritableBy[position]
  /\ Cardinality(ChangedStore) <= MaxStateModifications
  /\ IsPrefix(emitted, emitted')
  /\ Len(emitted') <= Len(emitted) + MaxReserve
  /\ Cardinality(ChangedParams) <= MaxParamOverrides
  /\ again' \in BOOLEAN
  /\ IsPrefix(skips, skips')
  /\ UNCHANGED position

Discard ==
  /\ outcome = "running"
  /\ outcome' \in {"rollback", "return", "panic"}
  /\ UNCHANGED <<store, emitted, overrides, again, skips, position>>

Reposition ==
  /\ outcome # "running"
  /\ position' \in HookHash
  /\ UNCHANGED <<store, emitted, overrides, again, skips, outcome>>

Next == Start \/ Commit \/ Discard \/ Reposition

Spec == Init /\ [][Next]_vars
=============================================================================
