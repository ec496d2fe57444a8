-------------------------- MODULE HookStaticProofs --------------------------
(***************************************************************************)
(* The safety of HookStatic::take, for any threads and any cells.          *)
(***************************************************************************)
EXTENDS HookStatic, TLAPS

(* The storage is out exactly when the flag is set, and untouched before.   *)
FlagInv ==
  /\ \A c \in Cell : granted[c] = IF c \in taken THEN 1 ELSE 0
  /\ \A c \in Cell : c \notin taken => storage[c] = "pristine"

(* Only a testenv build decides under the lock, and what it saw of the flag *)
(* is still true when it clones.                                            *)
CloneInv ==
  /\ \A t \in Thread : pc[t] \in {"lock", "consult", "load", "clone"} => testenv
  /\ \A t \in Thread : pc[t] = "clone" => cell[t] \notin taken
  /\ copies \subseteq {"pristine"}

(* A claim stands for a copy, for one under way, or for a refusal by the    *)
(* flag, which is never cleared.                                            *)
ClaimInv ==
  /\ \A t \in Thread : pc[t] \in {"load", "clone"} =>
       t \in inside /\ cell[t] \in claimed[t] /\ handed[t][cell[t]] = 0
  /\ \A t \in Thread, c \in Cell :
       /\ handed[t][c] \in {0, 1}
       /\ handed[t][c] = 1 => c \in claimed[t]
       /\ t \in inside /\ c \in claimed[t] =>
            \/ handed[t][c] = 1
            \/ c \in taken
            \/ pc[t] \in {"load", "clone"} /\ cell[t] = c

IInv == TypeOK /\ FlagInv /\ CloneInv /\ ClaimInv

(* The invariants hold of a process that has not taken anything.            *)
LEMMA InitIInv == Init => IInv
  BY NobodyAssumption DEF Init, IInv, TypeOK, Deciding, FlagInv, CloneInv, ClaimInv

(* Handing something out keeps the types of what counts it.                 *)
LEMMA GrantedTypes ==
  ASSUME NEW t \in Thread, cell \in [Thread -> Cell], taken \subseteq Cell,
         granted \in [Cell -> Nat], Granted(t)
  PROVE  taken' \subseteq Cell /\ granted' \in [Cell -> Nat]
  BY DEF Granted

LEMMA HandedTypes ==
  ASSUME NEW t \in Thread, cell \in [Thread -> Cell],
         handed \in [Thread -> [Cell -> Nat]],
         handed' = [handed EXCEPT ![t][cell[t]] = handed[t][cell[t]] + 1]
  PROVE  handed' \in [Thread -> [Cell -> Nat]]
  OBVIOUS

(* The lock and the program counters agree after every step.                *)
LEMMA StepType == IInv /\ [Next]_vars => TypeOK'
<1> SUFFICES ASSUME IInv, [Next]_vars PROVE TypeOK'
  OBVIOUS
<1> USE NobodyAssumption DEF IInv, TypeOK, CloneInv, Deciding
<1> USE DEF vars, invocation, decision, memory, Goto, Unlock
<1>1. ASSUME NEW t \in Thread, BeginInvocation(t) PROVE TypeOK'
  BY <1>1 DEF BeginInvocation
<1>2. ASSUME NEW t \in Thread, EndInvocation(t) PROVE TypeOK'
  BY <1>2 DEF EndInvocation
<1>3. ASSUME NEW t \in Thread, NEW c \in Cell, Take(t, c) PROVE TypeOK'
  BY <1>3 DEF Take
<1>4. ASSUME NEW t \in Thread, Acquire(t) PROVE TypeOK'
  BY <1>4 DEF Acquire
<1>5. ASSUME NEW t \in Thread, Consult(t) PROVE TypeOK'
  <2>1. claimed' \in [Thread -> SUBSET Cell]
    BY <1>5 DEF Consult
  <2>2. /\ pc' \in [Thread -> {"idle", "lock", "consult", "load", "clone", "swap"}]
        /\ lock' \in Thread \cup {Nobody}
    BY <1>5 DEF Consult
  <2>3. lock = t /\ testenv
    BY <1>5 DEF Consult
  <2>4. \A u \in Thread : lock' = u <=> Deciding(u)'
    BY <1>5, <2>3 DEF Consult
  <2>5. QED
    BY <1>5, <2>1, <2>2, <2>4 DEF Consult
<1>6. ASSUME NEW t \in Thread, LoadTaken(t) PROVE TypeOK'
  BY <1>6 DEF LoadTaken
<1>7. ASSUME NEW t \in Thread, Clone(t) PROVE TypeOK'
  <2>1. handed' \in [Thread -> [Cell -> Nat]]
    <3>1. /\ cell \in [Thread -> Cell] /\ handed \in [Thread -> [Cell -> Nat]]
          /\ handed' = [handed EXCEPT ![t][cell[t]] = handed[t][cell[t]] + 1]
      BY <1>7, Zenon DEF Clone
    <3>2. QED
      BY <3>1, HandedTypes, Zenon
  <2>2. \A u \in Thread : lock' = u <=> Deciding(u)'
    BY <1>7 DEF Clone
  <2>3. QED
    BY <1>7, <2>1, <2>2 DEF Clone
<1>8. ASSUME NEW t \in Thread, ClonePanics(t) PROVE TypeOK'
  BY <1>8 DEF ClonePanics
<1>9. ASSUME NEW t \in Thread, Swap(t) PROVE TypeOK'
  <2>1. taken' \subseteq Cell /\ granted' \in [Cell -> Nat]
    <3>1. cell \in [Thread -> Cell] /\ taken \subseteq Cell /\ granted \in [Cell -> Nat]
      BY Zenon
    <3>2. CASE Granted(t)
      BY <3>1, <3>2, GrantedTypes, Zenon
    <3>3. CASE UNCHANGED memory
      BY <3>1, <3>3, Zenon
    <3>4. QED
      BY <1>9, <3>2, <3>3, Zenon DEF Swap
  <2>2. \A u \in Thread : lock' = u <=> Deciding(u)'
    BY <1>9 DEF Swap
  <2>3. QED
    BY <1>9, <2>1, <2>2 DEF Swap, Granted
<1>10. ASSUME NEW c \in Cell, WriteStorage(c) PROVE TypeOK'
  BY <1>10 DEF WriteStorage
<1>11. CASE UNCHANGED vars
  BY <1>11
<1>12. QED
  BY <1>1, <1>2, <1>3, <1>4, <1>5, <1>6, <1>7, <1>8, <1>9, <1>10, <1>11 DEF Next, Step

(* Only a swap sets the flag and hands out the storage, both at once.       *)
LEMMA StepFlag == IInv /\ [Next]_vars => FlagInv'
<1> SUFFICES ASSUME IInv, [Next]_vars PROVE FlagInv'
  OBVIOUS
<1> USE DEF IInv, TypeOK, FlagInv, invocation, decision, memory, vars
<1>1. ASSUME NEW t \in Thread, Swap(t) PROVE FlagInv'
  BY <1>1 DEF Swap, Granted
<1>2. ASSUME NEW c \in Cell, WriteStorage(c) PROVE FlagInv'
  BY <1>2 DEF WriteStorage
<1>3. CASE UNCHANGED <<taken, storage, granted>>
  BY <1>3
<1>4. QED
  BY <1>1, <1>2, <1>3 DEF Next, Step, BeginInvocation, EndInvocation, Take, Acquire,
     Consult, LoadTaken, Clone, ClonePanics

(* A swap in a testenv build needs the lock, which a cloning thread holds.  *)
LEMMA StepClone == IInv /\ [Next]_vars => CloneInv'
<1> SUFFICES ASSUME IInv, [Next]_vars PROVE CloneInv'
  OBVIOUS
<1> USE DEF IInv, TypeOK, CloneInv, Deciding, vars, invocation, decision, memory, Goto, Unlock
<1>1. ASSUME NEW t \in Thread, BeginInvocation(t) PROVE CloneInv'
  BY <1>1 DEF BeginInvocation
<1>2. ASSUME NEW t \in Thread, EndInvocation(t) PROVE CloneInv'
  BY <1>2 DEF EndInvocation
<1>3. ASSUME NEW t \in Thread, NEW c \in Cell, Take(t, c) PROVE CloneInv'
  BY <1>3 DEF Take
<1>4. ASSUME NEW t \in Thread, Acquire(t) PROVE CloneInv'
  BY <1>4 DEF Acquire
<1>5. ASSUME NEW t \in Thread, Consult(t) PROVE CloneInv'
  BY <1>5 DEF Consult
<1>6. ASSUME NEW t \in Thread, LoadTaken(t) PROVE CloneInv'
  BY <1>6 DEF LoadTaken
<1>7. ASSUME NEW t \in Thread, Clone(t) PROVE CloneInv'
  BY <1>7 DEF Clone, FlagInv
<1>8. ASSUME NEW t \in Thread, ClonePanics(t) PROVE CloneInv'
  BY <1>8 DEF ClonePanics
<1>9. ASSUME NEW t \in Thread, Swap(t) PROVE CloneInv'
  <2>1. \A u \in Thread : pc[u] # "clone"
    BY <1>9 DEF Swap
  <2>2. QED
    BY <1>9, <2>1 DEF Swap, Granted
<1>10. ASSUME NEW c \in Cell, WriteStorage(c) PROVE CloneInv'
  BY <1>10 DEF WriteStorage
<1>11. CASE UNCHANGED vars
  BY <1>11
<1>12. QED
  BY <1>1, <1>2, <1>3, <1>4, <1>5, <1>6, <1>7, <1>8, <1>9, <1>10, <1>11 DEF Next, Step

(* A claim made by this invocation is accounted for by its later steps.     *)
LEMMA StepClaim == IInv /\ [Next]_vars => ClaimInv'
<1> SUFFICES ASSUME IInv, [Next]_vars PROVE ClaimInv'
  OBVIOUS
<1> USE DEF IInv, TypeOK, ClaimInv, vars, invocation, decision, memory, Goto
<1>1. ASSUME NEW t \in Thread, BeginInvocation(t) PROVE ClaimInv'
  BY <1>1 DEF BeginInvocation
<1>2. ASSUME NEW t \in Thread, EndInvocation(t) PROVE ClaimInv'
  BY <1>2 DEF EndInvocation
<1>3. ASSUME NEW t \in Thread, NEW c \in Cell, Take(t, c) PROVE ClaimInv'
  BY <1>3 DEF Take
<1>4. ASSUME NEW t \in Thread, Acquire(t) PROVE ClaimInv'
  BY <1>4 DEF Acquire
<1>5. ASSUME NEW t \in Thread, Consult(t) PROVE ClaimInv'
  <2>1. CASE t \notin inside
    BY <1>5, <2>1 DEF Consult
  <2>2. CASE t \in inside /\ cell[t] \in claimed[t]
    BY <1>5, <2>2 DEF Consult
  <2>3. CASE t \in inside /\ cell[t] \notin claimed[t]
    BY <1>5, <2>3 DEF Consult
  <2>4. QED
    BY <2>1, <2>2, <2>3
<1>6. ASSUME NEW t \in Thread, LoadTaken(t) PROVE ClaimInv'
  BY <1>6 DEF LoadTaken
<1>7. ASSUME NEW t \in Thread, Clone(t) PROVE ClaimInv'
  BY <1>7 DEF Clone
<1>8. ASSUME NEW t \in Thread, ClonePanics(t) PROVE ClaimInv'
  BY <1>8 DEF ClonePanics
<1>9. ASSUME NEW t \in Thread, Swap(t) PROVE ClaimInv'
  BY <1>9 DEF Swap, Granted
<1>10. ASSUME NEW c \in Cell, WriteStorage(c) PROVE ClaimInv'
  BY <1>10 DEF WriteStorage
<1>11. CASE UNCHANGED vars
  BY <1>11
<1>12. QED
  BY <1>1, <1>2, <1>3, <1>4, <1>5, <1>6, <1>7, <1>8, <1>9, <1>10, <1>11 DEF Next, Step

(* IInv is an invariant of take, whatever the threads do.                   *)
THEOREM StaticInductive == Spec => []IInv
<1>1. IInv /\ [Next]_vars => IInv'
  BY StepType, StepFlag, StepClone, StepClaim DEF IInv
<1>2. QED
  BY InitIInv, <1>1, PTL DEF Spec

(* Every variable of HookStatic keeps its type; CLAIM_LOCK has one holder.  *)
THEOREM StaticTypesCorrect == Spec => []TypeOK
<1>1. IInv => TypeOK
  BY DEF IInv
<1>2. QED
  BY StaticInductive, <1>1, PTL

(* take never produces two aliasing references to a cell's storage.         *)
THEOREM StorageIsNeverAliased == Spec => []NeverAliased
<1>1. IInv => NeverAliased
  BY DEF IInv, FlagInv, NeverAliased
<1>2. QED
  BY StaticInductive, <1>1, PTL

(* take hands out at most one copy of a cell in one invocation.             *)
THEOREM CopiesOncePerInvocation == Spec => []OncePerInvocation
<1>1. IInv => OncePerInvocation
  BY DEF IInv, ClaimInv, OncePerInvocation
<1>2. QED
  BY StaticInductive, <1>1, PTL

(* take never clones storage that somebody may be writing.                  *)
THEOREM ClonesDoNotRace == Spec => []NoRacingClone
<1>1. IInv => NoRacingClone
  BY DEF IInv, TypeOK, FlagInv, CloneInv, NoRacingClone
<1>2. QED
  BY StaticInductive, <1>1, PTL

(* take copies what the cell was declared with.                             *)
THEOREM CopiesStayPristine == Spec => []CopiesArePristine
<1>1. IInv => CopiesArePristine
  BY DEF IInv, CloneInv, CopiesArePristine
<1>2. QED
  BY StaticInductive, <1>1, PTL

(* A take that answers None follows one that did not, of the same           *)
(* invocation or of the storage itself.                                     *)
THEOREM NoneIsAlwaysJustified == Spec => NoneIsJustified
<1> DEFINE Justified ==
      \A t \in Thread :
        /\ pc[t] \notin {"idle", "clone"} /\ pc'[t] = "idle"
        /\ UNCHANGED <<granted, handed>>
        => cell[t] \in taken \/ (t \in inside /\ handed[t][cell[t]] > 0)
<1>1. IInv /\ [Next]_vars => [Justified]_vars
  <2> SUFFICES ASSUME IInv, Next, NEW t \in Thread,
                      pc[t] \notin {"idle", "clone"}, pc'[t] = "idle",
                      UNCHANGED <<granted, handed>>
               PROVE  cell[t] \in taken \/ (t \in inside /\ handed[t][cell[t]] > 0)
    OBVIOUS
  <2> USE DEF IInv, TypeOK, ClaimInv, decision, memory, invocation, Goto, Granted
  <2>1. Consult(t) \/ LoadTaken(t) \/ Swap(t)
    BY DEF Next, Step, BeginInvocation, EndInvocation, Take, Acquire, Consult, LoadTaken,
       Clone, ClonePanics, Swap, WriteStorage
  <2>2. CASE Consult(t)
    BY <2>2 DEF Consult
  <2>3. CASE LoadTaken(t)
    BY <2>3 DEF LoadTaken
  <2>4. CASE Swap(t)
    BY <2>4 DEF Swap
  <2>5. QED
    BY <2>1, <2>2, <2>3, <2>4
<1>2. QED
  BY StaticInductive, <1>1, PTL DEF Spec, NoneIsJustified
=============================================================================
