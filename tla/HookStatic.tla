----------------------------- MODULE HookStatic -----------------------------
(***************************************************************************)
(* HookStatic::take: how the threads of one process come by exclusive      *)
(* references to the contents of static cells.  The plain take hands out   *)
(* the cell's own storage, once for the life of the process.  In a build   *)
(* with the testenv feature a thread with a backend installed gets a fresh *)
(* copy instead, once in each invocation, and one lock serializes every    *)
(* decision, on any cell.  Each step below is one access to shared memory. *)
(***************************************************************************)
EXTENDS Naturals

CONSTANTS Thread, Cell, Nobody

ASSUME NobodyAssumption == Nobody \notin Thread

VARIABLES
  testenv,   \* how the process was built
  inside,    \* the threads with a backend installed, in an invocation
  claimed,   \* thread -> the cells its invocation has asked for
  pc, cell,  \* thread -> where its take stands, and of which cell
  lock,      \* the thread that holds CLAIM_LOCK, or Nobody
  taken,     \* the cells whose flag is set
  storage,   \* cell -> "pristine", or "dirty" once its holder wrote to it
  granted,   \* cell -> how often its storage was handed out
  handed,    \* thread -> cell -> copies handed out in this invocation
  copies     \* what the copies handed out so far held

decision == <<pc, cell, lock>>
memory == <<taken, storage, granted>>
invocation == <<inside, claimed, handed>>
vars == <<testenv, invocation, decision, memory, copies>>

Init ==
  /\ testenv \in BOOLEAN
  /\ inside = {} /\ claimed = [t \in Thread |-> {}]
  /\ handed = [t \in Thread |-> [c \in Cell |-> 0]]
  /\ pc = [t \in Thread |-> "idle"] /\ cell \in [Thread -> Cell] /\ lock = Nobody
  /\ taken = {} /\ storage = [c \in Cell |-> "pristine"]
  /\ granted = [c \in Cell |-> 0]
  /\ copies = {}

-----------------------------------------------------------------------------
Goto(t, from, to) == pc[t] = from /\ pc' = [pc EXCEPT ![t] = to]

(* The guard of CLAIM_LOCK goes out of scope; in a build without testenv    *)
(* there is no lock.                                                        *)
Unlock == lock' = Nobody

(* install and the BackendGuard's drop, with the take-set of the            *)
(* invocation's context.                                                    *)
BeginInvocationKeepingClaims(t) ==
  /\ testenv /\ pc[t] = "idle" /\ t \notin inside
  /\ inside' = inside \cup {t}
  /\ handed' = [handed EXCEPT ![t] = [c \in Cell |-> 0]]
  /\ UNCHANGED <<testenv, claimed, decision, memory, copies>>

BeginInvocation(t) ==
  /\ testenv /\ pc[t] = "idle" /\ t \notin inside
  /\ inside' = inside \cup {t}
  /\ claimed' = [claimed EXCEPT ![t] = {}]
  /\ handed' = [handed EXCEPT ![t] = [c \in Cell |-> 0]]
  /\ UNCHANGED <<testenv, decision, memory, copies>>

EndInvocation(t) ==
  /\ pc[t] = "idle" /\ t \in inside
  /\ inside' = inside \ {t}
  /\ UNCHANGED <<testenv, claimed, handed, decision, memory, copies>>

-----------------------------------------------------------------------------
(* take.                                                                    *)

Take(t, c) ==
  /\ Goto(t, "idle", IF testenv THEN "lock" ELSE "swap")
  /\ cell' = [cell EXCEPT ![t] = c]
  /\ UNCHANGED <<testenv, invocation, lock, memory, copies>>

(* A poisoned lock is entered like any other.                               *)
AcquireFree(t) ==
  /\ Goto(t, "lock", "consult")
  /\ lock' = t
  /\ UNCHANGED <<testenv, invocation, cell, memory, copies>>

Acquire(t) ==
  /\ Goto(t, "lock", "consult")
  /\ lock = Nobody /\ lock' = t
  /\ UNCHANGED <<testenv, invocation, cell, memory, copies>>

(* with_backend and static_take_allowed, which records the claim even when  *)
(* the flag turns out to be set.                                            *)
Consult(t) ==
  /\ IF t \notin inside
     THEN Goto(t, "consult", "swap") /\ UNCHANGED <<lock, claimed>>
     ELSE /\ claimed' = [claimed EXCEPT ![t] = claimed[t] \cup {cell[t]}]
          /\ IF cell[t] \in claimed[t]
             THEN Goto(t, "consult", "idle") /\ Unlock
             ELSE Goto(t, "consult", "load") /\ UNCHANGED lock
  /\ UNCHANGED <<testenv, inside, handed, cell, memory, copies>>

(* The copying take does not look at the flag.                              *)
LoadIgnored(t) ==
  /\ Goto(t, "load", "clone")
  /\ UNCHANGED <<testenv, invocation, cell, lock, memory, copies>>

LoadTaken(t) ==
  /\ IF cell[t] \in taken
     THEN Goto(t, "load", "idle") /\ Unlock
     ELSE Goto(t, "load", "clone") /\ UNCHANGED lock
  /\ UNCHANGED <<testenv, invocation, cell, memory, copies>>

(* The clone is complete; it began when pc became "clone".                  *)
Clone(t) ==
  /\ Goto(t, "clone", "idle") /\ Unlock
  /\ handed' = [handed EXCEPT ![t][cell[t]] = handed[t][cell[t]] + 1]
  /\ copies' = copies \cup {storage[cell[t]]}
  /\ UNCHANGED <<testenv, inside, claimed, cell, memory>>

(* The contents' clone panics: the lock is poisoned and released, and the   *)
(* invocation ends.                                                         *)
ClonePanics(t) ==
  /\ Goto(t, "clone", "idle") /\ Unlock
  /\ inside' = inside \ {t}
  /\ UNCHANGED <<testenv, claimed, handed, cell, memory, copies>>

Granted(t) ==
  /\ taken' = taken \cup {cell[t]}
  /\ granted' = [granted EXCEPT ![cell[t]] = granted[cell[t]] + 1]

(* A load and a store in place of the swap.                                 *)
SwapInTwo(t) ==
  /\ \/ cell[t] \in taken /\ Goto(t, "swap", "idle") /\ Unlock /\ UNCHANGED memory
     \/ cell[t] \notin taken /\ Goto(t, "swap", "store") /\ UNCHANGED <<lock, memory>>
     \/ Goto(t, "store", "idle") /\ Unlock /\ Granted(t) /\ UNCHANGED storage
  /\ UNCHANGED <<testenv, invocation, cell, copies>>

(* The plain take: only the thread that finds the flag clear gets the       *)
(* storage.                                                                 *)
Swap(t) ==
  /\ Goto(t, "swap", "idle") /\ Unlock
  /\ \/ cell[t] \in taken /\ UNCHANGED memory
     \/ cell[t] \notin taken /\ Granted(t) /\ UNCHANGED storage
  /\ UNCHANGED <<testenv, invocation, cell, copies>>

(* Whoever holds a cell's own storage writes to it.                         *)
WriteStorage(c) ==
  /\ granted[c] > 0
  /\ storage' = [storage EXCEPT ![c] = "dirty"]
  /\ UNCHANGED <<testenv, invocation, decision, taken, granted, copies>>

Step(t) ==
  \/ BeginInvocation(t) \/ EndInvocation(t)
  \/ \E c \in Cell : Take(t, c)
  \/ Acquire(t) \/ Consult(t) \/ LoadTaken(t)
  \/ Clone(t) \/ ClonePanics(t) \/ Swap(t)

Next ==
  \/ \E t \in Thread : Step(t)
  \/ \E c \in Cell : WriteStorage(c)

Spec == Init /\ [][Next]_vars

-----------------------------------------------------------------------------
Deciding(t) ==
  pc[t] \in {"consult", "load", "clone"} \/ (pc[t] = "swap" /\ testenv)

(* Every variable keeps its type, and the lock is held exactly by the       *)
(* thread whose decision is under way (static_cell.rs:126-135).             *)
TypeOK ==
  /\ testenv \in BOOLEAN
  /\ inside \subseteq Thread
  /\ claimed \in [Thread -> SUBSET Cell]
  /\ pc \in [Thread -> {"idle", "lock", "consult", "load", "clone", "swap"}]
  /\ cell \in [Thread -> Cell]
  /\ lock \in Thread \cup {Nobody}
  /\ taken \subseteq Cell
  /\ storage \in [Cell -> {"pristine", "dirty"}]
  /\ granted \in [Cell -> Nat]
  /\ handed \in [Thread -> [Cell -> Nat]]
  /\ copies \subseteq {"pristine", "dirty"}
  /\ \A t \in Thread : lock = t <=> Deciding(t)

(* "Two aliasing &mut to the same static can never be produced": the        *)
(* storage of a cell is handed out at most once in the life of the process, *)
(* by any thread, with or without a lock (static_cell.rs:12-14, 94-97).     *)
NeverAliased == \A c \in Cell : granted[c] <= 1

(* "Take-once": an invocation gets at most one copy of a cell               *)
(* (invocation.rs:342-347, static_cell.rs:108-116).                         *)
OncePerInvocation == \A t \in Thread, c \in Cell : handed[t][c] <= 1

(* "The clone read is never racing a live &mut to the same storage"         *)
(* (static_cell.rs:118-123): nobody holds the storage while it is cloned.   *)
NoRacingClone ==
  \A t \in Thread : pc[t] = "clone" => granted[cell[t]] = 0

(* Every invocation starts from the pristine contents, whatever the plain   *)
(* takes of other threads wrote (static_cell.rs:113-115).                   *)
CopiesArePristine == copies \subseteq {"pristine"}

(* take answers None only if this invocation already has its copy, or the   *)
(* storage itself was handed out: "the two claim paths degrade to None"     *)
(* (static_cell.rs:122-123), for no other reason.                           *)
NoneIsJustified ==
  [][\A t \in Thread :
       /\ pc[t] \notin {"idle", "clone"} /\ pc'[t] = "idle"
       /\ UNCHANGED <<granted, handed>>
       => cell[t] \in taken \/ (t \in inside /\ handed[t][cell[t]] > 0)]_vars
=============================================================================
