--------------------------- MODULE TestEnvProofs ---------------------------
(***************************************************************************)
(* Type correctness and the safety properties of TestEnv, for every value  *)
(* of its constants, and that it implements AtomicInvocations.             *)
(***************************************************************************)
EXTENDS TestEnv, SequenceTheorems, FiniteSetTheorems, TLAPS

USE DEF running, Reserved

-----------------------------------------------------------------------------
(* Type correctness. *)

LEMMA Limits ==
  /\ MaxReserve \in Nat /\ MaxStateModifications \in Nat /\ MaxNonces \in Nat
  /\ MaxNamespaces \in Nat /\ MaxParamOverrides \in Nat
  /\ MaxU64 \in Nat /\ MaxI64 \in Nat /\ MaxU32 \in Nat
  /\ MaxInvocations \in Nat /\ MaxAttempts \in Nat /\ MaxSkips \in Nat
  /\ MaxTraces \in Nat /\ BaseFee \in Nat
  BY LimitAssumption

LEMMA SeedOtxnType == SeedOtxn \in Otxn /\ SeedOtxn.id \in TxnId
  <1>1. SeedOtxn.id \in TxnId
    BY DEF TxnId
  <1> QED BY <1>1, OtxnAssumption, Limits DEF Otxn

LEMMA FreshContext ==
  ASSUME NewContext, handed' \in Seq(Nonce)
  PROVE  ContextType'
  <1>1. NewEtxn \in EtxnContext
    BY Limits, EmptySeq DEF NewEtxn, EtxnContext
  <1>2. NewNonces \in NonceContext
    BY Limits DEF NewNonces, NonceContext
  <1>3. NewControl \in ControlContext
    BY Limits, EmptySeq DEF NewControl, ControlContext
  <1>4. 0 \in 0..MaxStateModifications
    BY Limits
  <1>5. [g \in GuardId |-> 0] \in [GuardId -> Nat]
    OBVIOUS
  <1> QED BY <1>1, <1>2, <1>3, <1>4, <1>5, Zenon DEF NewContext, ContextType

LEMMA InitType == Init => TypeOK
  <1> SUFFICES ASSUME Init PROVE TypeOK
    OBVIOUS
  <1>1. WorldType
    BY WorldAssumption, EmptySeq DEF Init, WorldType
  <1>2. FrameType
    <2>1. NoInvocation \in InvocationInfo
      BY DEF NoInvocation, InvocationInfo
    <2>2. state \in [Address -> Value \cup {Missing}]
      BY <1>1 DEF WorldType
    <2> QED BY <2>1, <2>2, SeedOtxnType, Limits DEF Init, FrameType, Status
  <1>3. ContextType
    <2>1. NewEtxn \in EtxnContext
      BY Limits, EmptySeq DEF NewEtxn, EtxnContext
    <2>2. NewNonces \in NonceContext
      BY Limits DEF NewNonces, NonceContext
    <2>3. NewControl \in ControlContext
      BY Limits, EmptySeq DEF NewControl, ControlContext
    <2>4. 0 \in 0..MaxStateModifications /\ <<>> \in Seq(Nonce)
      BY Limits, EmptySeq
    <2>5. [g \in GuardId |-> 0] \in [GuardId -> Nat]
      OBVIOUS
    <2> QED BY <2>1, <2>2, <2>3, <2>4, <2>5, Zenon DEF Init, ContextType
  <1> QED BY <1>1, <1>2, <1>3 DEF TypeOK

(* What each group of actions leaves alone keeps its type. *)
LEMMA FrameUnchanged == FrameType /\ UNCHANGED frameVars => FrameType'
  BY DEF FrameType, frameVars

LEMMA StateCallType ==
  ASSUME TypeOK, StateCall
  PROVE  TypeOK'
  <1> USE DEF TypeOK
  <1>1. ASSUME NEW acc \in Account, NEW ns \in Namespace, NEW k \in Key,
               NEW v \in Value \cup {Missing}, Modify(acc, ns, k, v)
        PROVE  TypeOK'
    <2>1. WorldType'
      BY <1>1 DEF WorldType, Modify, journalVars, commitVars, Address
    <2>2. FrameType'
      BY <1>1, FrameUnchanged DEF Modify
    <2>3. state_mod_count' \in 0..MaxStateModifications
      BY <1>1, Limits DEF ContextType, Modify, WriteResult
    <2>4. ContextType'
      BY <1>1, <2>3 DEF ContextType, Modify, nonceVars
    <2> QED BY <2>1, <2>2, <2>4
  <1>2. ASSUME DenyForeignWrite PROVE TypeOK'
    <2>1. WorldType'
      BY <1>2 DEF WorldType, DenyForeignWrite, journalVars, commitVars
    <2>2. FrameType'
      BY <1>2, FrameUnchanged DEF DenyForeignWrite
    <2>3. ContextType'
      BY <1>2 DEF ContextType, DenyForeignWrite, nonceVars
    <2> QED BY <2>1, <2>2, <2>3
  <1>3. ASSUME UNCHANGED vars PROVE TypeOK'
    BY <1>3 DEF WorldType, FrameType, ContextType, vars, stateVars, journalVars,
                commitVars, frameVars, nonceVars
  <1>4. PICK k \in Key \cup {BadKey}, v \in Value \cup {Missing} :
          \/ StateSet(k, v)
          \/ \E acc \in Account, ns \in Namespace : StateForeignSet(acc, ns, k, v)
    BY DEF StateCall
  <1>5. CASE StateSet(k, v)
    BY <1>1, <1>3, <1>5, WorldAssumption DEF StateSet, Write, Refuse
  <1>6. CASE \E acc \in Account, ns \in Namespace : StateForeignSet(acc, ns, k, v)
    BY <1>1, <1>2, <1>3, <1>6 DEF StateForeignSet, ForeignWrite, Write, Refuse
  <1> QED BY <1>4, <1>5, <1>6

LEMMA NextNonceType == TypeOK => NextNonce \in Nonce
  BY DEF TypeOK, FrameType, ContextType, NextNonce, Nonce, NonceContext, InvocationInfo

LEMMA NewDetailsType == TypeOK => NewDetails \in EmitDetails
  <1> SUFFICES ASSUME TypeOK PROVE NewDetails \in EmitDetails
    OBVIOUS
  <1>1. otxn.burden \in Nat /\ otxn.generation \in Nat /\ otxn.id \in TxnId
    BY DEF TypeOK, FrameType, Otxn
  <1>2. etxn.reserve \in Nat
    BY Limits DEF TypeOK, ContextType, EtxnContext
  <1>3. EtxnBurden \in Nat /\ EtxnGeneration \in Nat
    BY <1>1, <1>2 DEF EtxnBurden, EtxnGeneration
  <1>4. hook_hash \in HookHash /\ invocation.callback \in BOOLEAN
    BY DEF TypeOK, FrameType, InvocationInfo
  <1> QED BY <1>1, <1>3, <1>4, NextNonceType DEF NewDetails, EmitDetails

LEMMA EmitContextType ==
  ASSUME TypeOK, etxn' \in EtxnContext, nonces' \in NonceContext, handed' \in Seq(Nonce),
         UNCHANGED <<stateVars, journalVars, commitVars, frameVars, control, guard_counts>>
  PROVE  TypeOK'
  <1>1. WorldType'
    BY DEF TypeOK, WorldType, stateVars, journalVars, commitVars
  <1>2. FrameType'
    BY FrameUnchanged DEF TypeOK
  <1>3. ContextType'
    BY DEF TypeOK, ContextType, stateVars
  <1> QED BY <1>1, <1>2, <1>3 DEF TypeOK

LEMMA DrawNonceType ==
  ASSUME TypeOK, NEW budget \in {"ledger", "emit"}, NonceAvailable(budget), DrawNonce(budget)
  PROVE  nonces' \in NonceContext /\ handed' \in Seq(Nonce)
  <1>1. handed' \in Seq(Nonce)
    BY NextNonceType, AppendProperties DEF DrawNonce, TypeOK, ContextType
  <1>2. nonces \in NonceContext /\ nonces[budget] < MaxNonces
    BY DEF NonceAvailable, TypeOK, ContextType
  <1>3. CASE budget = "ledger"
    <2>1. nonces' = [nonces EXCEPT !.ledger = @ + 1, !.call_counter = @ + 1]
      BY <1>3 DEF DrawNonce
    <2>2. nonces.ledger + 1 \in 0..MaxNonces /\ nonces.call_counter + 1 \in Nat
      BY <1>2, <1>3, Limits DEF NonceContext
    <2> QED BY <2>1, <2>2, <1>1, <1>2 DEF NonceContext
  <1>4. CASE budget = "emit"
    <2>1. nonces' = [nonces EXCEPT !.emit = @ + 1, !.call_counter = @ + 1]
      BY <1>4 DEF DrawNonce
    <2>2. nonces.emit + 1 \in 0..MaxNonces /\ nonces.call_counter + 1 \in Nat
      BY <1>2, <1>4, Limits DEF NonceContext
    <2> QED BY <2>1, <2>2, <1>1, <1>2 DEF NonceContext
  <1> QED BY <1>3, <1>4

LEMMA EmitCallType ==
  ASSUME TypeOK, EmitCall
  PROVE  TypeOK'
  <1>0. etxn \in EtxnContext /\ nonces \in NonceContext /\ handed \in Seq(Nonce)
    BY DEF TypeOK, ContextType
  <1>1. ASSUME UNCHANGED vars PROVE TypeOK'
    BY <1>1, <1>0, EmitContextType DEF vars, nonceVars
  <1>2. ASSUME NEW n \in 0..(MaxReserve + 1), EtxnReserve(n) PROVE TypeOK'
    <2>1. CASE UNCHANGED vars
      BY <2>1, <1>1
    <2>2. CASE /\ n \in 1..MaxReserve
               /\ etxn' = [etxn EXCEPT !.reserve = n]
               /\ UNCHANGED <<stateVars, journalVars, commitVars, frameVars, nonceVars,
                              control, guard_counts>>
      <3>1. n \in 0..MaxReserve
        BY <2>2, Limits
      <3>2. etxn' \in EtxnContext
        BY <2>2, <3>1, <1>0 DEF EtxnContext
      <3> QED BY <2>2, <3>2, <1>0, EmitContextType DEF nonceVars
    <2> QED BY <1>2, <2>1, <2>2, Zenon DEF EtxnReserve, Refuse
  <1>3. ASSUME LedgerNonce PROVE TypeOK'
    BY <1>3, <1>0, <1>1, DrawNonceType, EmitContextType DEF LedgerNonce, Refuse
  <1>4. ASSUME EtxnNonce PROVE TypeOK'
    BY <1>4, <1>0, <1>1, DrawNonceType, EmitContextType DEF EtxnNonce, Refuse
  <1>5. ASSUME EtxnDetails PROVE TypeOK'
    <2>1. CASE DetailsResult # "OK"
      BY <1>5, <2>1, <1>1 DEF EtxnDetails, Refuse
    <2>2. CASE DetailsResult = "OK"
      <3>1. etxn' = [etxn EXCEPT !.details = NewDetails, !.shown = @ \cup {NewDetails}]
        BY <1>5, <2>2 DEF EtxnDetails
      <3>2. etxn' \in EtxnContext
        BY <3>1, <1>0, NewDetailsType DEF EtxnContext
      <3>3. NonceAvailable("emit")
        BY <2>2 DEF DetailsResult
      <3> QED BY <1>5, <2>2, <3>2, <3>3, DrawNonceType, EmitContextType DEF EtxnDetails
    <2> QED BY <2>1, <2>2
  <1>6. ASSUME NEW b \in Blobs, NEW ok \in BOOLEAN, Emit(b, ok) PROVE TypeOK'
    <2> DEFINE attempt == [blob |-> b, outcome |-> EmitResult(b, ok)]
    <2>1. b \in Blob
      BY <1>0 DEF Blobs, Blob, EtxnContext
    <2>2. attempt \in Attempt
      BY <2>1 DEF Attempt, EmitResult
    <2>3. Append(etxn.attempts, attempt) \in Seq(Attempt)
      BY <2>2, <1>0, AppendProperties DEF EtxnContext
    <2>4. CASE etxn' = [etxn EXCEPT !.attempts = Append(@, attempt)]
      <3>1. etxn' \in EtxnContext
        BY <2>4, <2>3, <1>0 DEF EtxnContext
      <3> QED BY <1>6, <3>1, <1>0, EmitContextType DEF Emit, nonceVars
    <2>5. CASE /\ EmitResult(b, ok) = "Ok"
               /\ etxn' = [etxn EXCEPT !.emit_count = @ + 1,
                                       !.attempts = Append(@, attempt),
                                       !.pending = Append(@, b)]
      <3>1. b.details = etxn.details /\ etxn.details # NoDetails
        BY <2>5 DEF EmitResult, ValidBlob
      <3>2. b \in Emission
        BY <3>1, <2>1, <1>0 DEF Blob, Emission, EtxnContext
      <3>3. Append(etxn.pending, b) \in Seq(Emission)
        BY <3>2, <1>0, AppendProperties DEF EtxnContext
      <3>4. etxn.emit_count + 1 \in Nat
        BY <1>0 DEF EtxnContext
      <3>5. etxn' \in EtxnContext
        BY <2>5, <2>3, <3>3, <3>4, <1>0 DEF EtxnContext
      <3> QED BY <1>6, <3>5, <1>0, EmitContextType DEF Emit, nonceVars
    <2> QED BY <1>6, <2>4, <2>5 DEF Emit
  <1> QED BY <1>2, <1>3, <1>4, <1>5, <1>6 DEF EmitCall

LEMMA ControlCallType ==
  ASSUME TypeOK, ControlCall
  PROVE  TypeOK'
  <1>0. control \in ControlContext
    BY DEF TypeOK, ContextType
  <1>1. ASSUME UNCHANGED vars PROVE TypeOK'
    BY <1>1, EmitContextType DEF TypeOK, ContextType, vars, nonceVars
  <1>2. ASSUME NEW c \in ControlContext, Stage(c) PROVE TypeOK'
    <2>1. WorldType'
      BY <1>2 DEF TypeOK, WorldType, Stage, stateVars, journalVars, commitVars
    <2>2. FrameType'
      BY <1>2, FrameUnchanged DEF TypeOK, Stage
    <2>3. ContextType'
      BY <1>2 DEF TypeOK, ContextType, Stage, stateVars, nonceVars
    <2> QED BY <2>1, <2>2, <2>3 DEF TypeOK
  <1>3. ASSUME HookAgain PROVE TypeOK'
    <2>1. [control EXCEPT !.again = TRUE] \in ControlContext
      BY <1>0, Zenon DEF ControlContext
    <2> QED BY <1>3, <2>1, <1>1, <1>2 DEF HookAgain, Refuse
  <1>4. ASSUME NEW h \in HookHash, NEW flags \in 0..2, HookSkip(h, flags) PROVE TypeOK'
    <2>1. CASE UNCHANGED vars
      BY <2>1, <1>1
    <2>2. CASE /\ h \in Hash /\ flags \in {0, 1}
               /\ Stage([control EXCEPT !.skips = Append(@, <<h, flags>>)])
      <3>1. Append(control.skips, <<h, flags>>) \in Seq(Hash \X {0, 1})
        BY <2>2, <1>0, AppendProperties DEF ControlContext
      <3>2. [control EXCEPT !.skips = Append(@, <<h, flags>>)] \in ControlContext
        BY <3>1, <1>0 DEF ControlContext
      <3> QED BY <2>2, <3>2, <1>2
    <2> QED BY <1>4, <2>1, <2>2 DEF HookSkip, Refuse
  <1>5. ASSUME NEW h \in HookHash, NEW n \in ParamName, NEW v \in ParamValue \cup {NoParam},
               HookParamSet(h, n, v)
        PROVE  TypeOK'
    <2> DEFINE c == [control EXCEPT !.params[<<h, n>>] = v, !.param_count = @ + 1]
    <2>1. CASE UNCHANGED vars
      BY <2>1, <1>1
    <2>2. CASE h \in Hash /\ control.param_count < MaxParamOverrides /\ Stage(c)
      <3>1. c \in ControlContext
        <4>1. control.param_count + 1 \in 0..MaxParamOverrides
          BY <2>2, <1>0, Limits DEF ControlContext
        <4>2. [control.params EXCEPT ![<<h, n>>] = v]
                \in [OverrideKey -> ParamValue \cup {NoParam}]
          BY <2>2, <1>0 DEF ControlContext, OverrideKey
        <4> QED BY <4>1, <4>2, <1>0 DEF ControlContext
      <3> QED BY <2>2, <3>1, <1>2
    <2> QED BY <1>5, <2>1, <2>2 DEF HookParamSet, Refuse
  <1>6. ASSUME Trace PROVE TypeOK'
    <2>1. WorldType'
      BY <1>6 DEF TypeOK, WorldType, Trace, stateVars, commitVars
    <2>2. FrameType'
      BY <1>6, FrameUnchanged DEF TypeOK, Trace
    <2>3. ContextType'
      BY <1>6 DEF TypeOK, ContextType, Trace, stateVars, nonceVars
    <2> QED BY <2>1, <2>2, <2>3 DEF TypeOK
  <1> QED BY <1>3, <1>4, <1>5, <1>6 DEF ControlCall

-----------------------------------------------------------------------------
(***************************************************************************)
(* The steps of Next, sorted by what they do to the World.  Each theorem   *)
(* below is proved by one case per sort.                                   *)
(***************************************************************************)
ModifyStep ==
  \E acc \in Account, ns \in Namespace, k \in Key, v \in Value \cup {Missing} :
    /\ running
    /\ acc = HookAccount \/ (~retry_blocked /\ Authorized(acc, ns))
    /\ Modify(acc, ns, k, v)

QuietStep ==
  /\ UNCHANGED <<state, state_mod_count, emit_attempts, commitVars, frameVars>>
  /\ traces' \in {traces, traces + 1}

(* A callback is called for an emission of the hook at the current position *)
(* that asked for one.                                                     *)
OwnCallbacks ==
  {i \in 1..Len(committed_emissions) :
     /\ committed_emissions[i].details.callback
     /\ committed_emissions[i].details.hook_hash = hook_hash}
Originating ==
  {otxn} \cup {CallbackOtxn(committed_emissions[i], failed) :
                 i \in OwnCallbacks, failed \in BOOLEAN}

BeginningStep == ~running /\ \E e \in Entry, t \in Originating : Begin(e, t)

DiscardStep ==
  /\ Restore
  /\ \E kind \in {"rollback", "return", "panic"} : End(kind)
  /\ \/ UNCHANGED invocation_counter
     \/ /\ invocation_counter < MaxInvocations
        /\ invocation_counter' = invocation_counter + 1

RepositionStep == \E h \in HookHash : Reposition(h)

LEMMA StepCases ==
  ASSUME [Next]_vars
  PROVE  ModifyStep \/ QuietStep \/ BeginningStep \/ DiscardStep
           \/ Accept \/ StrictViolation \/ RepositionStep
  <1>1. UNCHANGED vars => QuietStep
    BY DEF vars, stateVars, journalVars, commitVars, frameVars, QuietStep
  <1>2. CASE StateCall
    <2>1. PICK k \in Key \cup {BadKey}, v \in Value \cup {Missing} :
            \/ StateSet(k, v)
            \/ \E acc \in Account, ns \in Namespace : StateForeignSet(acc, ns, k, v)
      BY <1>2 DEF StateCall
    <2>2. CASE StateSet(k, v)
      BY <1>1, <2>2, WorldAssumption DEF StateSet, Write, Refuse, Calls, ModifyStep
    <2>3. ASSUME NEW acc \in Account, NEW ns \in Namespace, StateForeignSet(acc, ns, k, v)
          PROVE  ModifyStep \/ QuietStep
      <3>1. DenyForeignWrite => QuietStep
        BY DEF DenyForeignWrite, QuietStep, journalVars
      <3> QED BY <1>1, <2>3, <3>1
          DEF StateForeignSet, ForeignWrite, Write, Refuse, Calls, ModifyStep
    <2> QED BY <2>1, <2>2, <2>3
  <1>3. CASE EmitCall
    <2>1. \A n : EtxnReserve(n) => QuietStep
      BY <1>1 DEF EtxnReserve, Refuse, QuietStep, stateVars, journalVars
    <2>2. LedgerNonce \/ EtxnNonce \/ EtxnDetails => QuietStep
      BY <1>1 DEF LedgerNonce, EtxnNonce, EtxnDetails, Refuse, QuietStep, stateVars, journalVars
    <2>3. \A b, ok : Emit(b, ok) => QuietStep
      BY DEF Emit, QuietStep, stateVars, journalVars
    <2> QED BY <1>3, <2>1, <2>2, <2>3 DEF EmitCall
  <1>4. CASE ControlCall
    <2>1. \A c : Stage(c) => QuietStep
      BY DEF Stage, QuietStep, stateVars, journalVars
    <2>2. HookAgain => QuietStep
      BY <1>1, <2>1 DEF HookAgain, Refuse
    <2>3. \A h, flags : HookSkip(h, flags) => QuietStep
      BY <1>1, <2>1 DEF HookSkip, Refuse
    <2>4. \A h, n, v : HookParamSet(h, n, v) => QuietStep
      BY <1>1, <2>1 DEF HookParamSet, Refuse
    <2>5. Trace => QuietStep
      BY DEF Trace, QuietStep, stateVars, journalVars
    <2> QED BY <1>4, <2>2, <2>3, <2>4, <2>5 DEF ControlCall
  <1>5. CASE BeginStep
    <2>1. \A e \in Entry : Invoke(e) => BeginningStep
      BY DEF Invoke, BeginningStep, Originating
    <2>2. \A e \in Entry, failed \in BOOLEAN, i \in 1..Len(committed_emissions) :
            InvokeCbak(e, committed_emissions[i], failed) => BeginningStep
      BY DEF InvokeCbak, BeginningStep, Originating, OwnCallbacks
    <2> QED BY <1>5, <2>1, <2>2 DEF BeginStep
  <1>6. CASE EndStep
    BY <1>6 DEF EndStep, Rollback, Return, HookPanics, ReentrantInvoke, Discard, DiscardStep
  <1>7. ASSUME NEW g \in GuardId, GuardHit(g) PROVE QuietStep \/ DiscardStep
    BY <1>7 DEF GuardHit, Discard, DiscardStep, QuietStep, stateVars, journalVars
  <1> QED BY <1>1, <1>2, <1>3, <1>4, <1>5, <1>6, <1>7 DEF Next, RepositionStep

-----------------------------------------------------------------------------
(***************************************************************************)
(* The type invariant is inductive once it says that a snapshot is never   *)
(* of a longer emission list than the World's: Restore truncates to it.    *)
(***************************************************************************)
SnapshotCurrent ==
  /\ snapshot.emitted = Len(committed_emissions)
  /\ ~running => snapshot.state = state

WorldInv == TypeOK /\ SnapshotCurrent

LEMMA RestoreIsState ==
  ASSUME WorldInv, Restore
  PROVE  state' = snapshot.state /\ UNCHANGED commitVars
  <1>1. committed_emissions \in Seq(Emission)
    BY DEF WorldInv, TypeOK, WorldType
  <1> QED BY <1>1, SubSeqFull DEF Restore, WorldInv, SnapshotCurrent, commitVars

LEMMA BeginType ==
  ASSUME WorldInv, NEW e \in Entry, NEW t \in Originating, Begin(e, t)
  PROVE  TypeOK'
  <1> USE DEF WorldInv, TypeOK
  <1>1. WorldType'
    BY DEF WorldType, Begin, journalVars, commitVars
  <1>2. t \in Otxn
    <2>1. CASE t = otxn
      BY <2>1 DEF FrameType
    <2>2. ASSUME NEW i \in 1..Len(committed_emissions), NEW failed \in BOOLEAN,
                 t = CallbackOtxn(committed_emissions[i], failed)
          PROVE  t \in Otxn
      <3>1. committed_emissions[i] \in Emission
        BY ElementOfSeq DEF WorldType
      <3> DEFINE em == committed_emissions[i]
      <3>2. /\ em.type \in TxType /\ em.details.nonce \in Nonce
            /\ em.details.burden \in Nat /\ em.details.generation \in Nat
        BY <3>1 DEF Emission, EmitDetails
      <3>3. EmissionId(em, failed) \in TxnId
        BY <3>2 DEF EmissionId, TxnId
      <3> QED BY <2>2, <3>2, <3>3 DEF CallbackOtxn, Otxn
    <2> QED BY <2>1, <2>2 DEF Originating, OwnCallbacks
  <1>3. FrameType'
    <2>1. invocation_counter' \in 0..MaxInvocations
      BY Limits DEF FrameType, Begin
    <2>2. invocation' \in InvocationInfo
      <3>1. HookCalls[e] \in SUBSET HostCall
        BY DEF HostCall
      <3> QED BY <3>1, Limits, HookAssumption DEF FrameType, Begin, InvocationInfo
    <2>3. snapshot' \in [state : [Address -> Value \cup {Missing}], emitted : Nat]
      BY LenProperties DEF WorldType, Begin
    <2>4. status' \in Status
      BY DEF Begin, Status
    <2> QED BY <1>2, <2>1, <2>2, <2>3, <2>4 DEF FrameType, Begin
  <1>4. ContextType'
    BY FreshContext DEF Begin, ContextType
  <1> QED BY <1>1, <1>3, <1>4

LEMMA EndType ==
  ASSUME WorldInv, NEW kind \in {"accept", "rollback", "return", "panic"}, End(kind),
         state' \in [Address -> Value \cup {Missing}],
         committed_emissions' \in Seq(Emission),
         hook_param_overrides' \in [OverrideKey -> ParamValue \cup {NoParam}],
         hook_again_requested' \in BOOLEAN,
         skip_directives' \in Seq(Hash \X {0, 1}),
         invocation_counter' \in 0..MaxInvocations
  PROVE  TypeOK'
  <1> USE DEF WorldInv, TypeOK
  <1>1. emit_attempts' \in Seq(Attempt)
    BY ConcatProperties DEF WorldType, ContextType, EtxnContext, End, RecordAttempts
  <1>2. WorldType'
    BY <1>1 DEF WorldType, End
  <1>3. FrameType'
    <2>1. snapshot' \in [state : [Address -> Value \cup {Missing}], emitted : Nat]
      BY LenProperties DEF End
    <2>2. invocation' \in InvocationInfo
      BY DEF End, NoInvocation, InvocationInfo
    <2>3. status' \in Status /\ otxn' \in Otxn /\ original' \in Otxn /\ hook_hash' \in HookHash
      BY DEF FrameType, End, RestoreOtxn, Status
    <2> QED BY <2>1, <2>2, <2>3 DEF FrameType
  <1>4. ContextType'
    BY FreshContext DEF End, ContextType
  <1> QED BY <1>2, <1>3, <1>4

LEMMA DiscardType ==
  ASSUME WorldInv, DiscardStep
  PROVE  TypeOK'
  <1>1. PICK kind \in {"rollback", "return", "panic"} : End(kind)
    BY DEF DiscardStep
  <1>2. state' = snapshot.state /\ UNCHANGED commitVars
    BY RestoreIsState DEF DiscardStep
  <1>3. invocation_counter' \in 0..MaxInvocations
    BY Limits DEF DiscardStep, WorldInv, TypeOK, FrameType
  <1>4. snapshot.state \in [Address -> Value \cup {Missing}]
    BY DEF WorldInv, TypeOK, FrameType
  <1> QED BY <1>1, <1>2, <1>3, <1>4, EndType DEF WorldInv, TypeOK, WorldType, commitVars

LEMMA MergeType ==
  ASSUME NEW s \in [OverrideKey -> ParamValue \cup {NoParam}],
         NEW t \in [OverrideKey -> ParamValue \cup {NoParam}]
  PROVE  Merge(s, t) \in [OverrideKey -> ParamValue \cup {NoParam}]
  BY DEF Merge

LEMMA AcceptType ==
  ASSUME WorldInv, Accept
  PROVE  TypeOK'
  <1> USE DEF WorldInv, TypeOK
  <1>1. /\ etxn.pending \in Seq(Emission) /\ control.skips \in Seq(Hash \X {0, 1})
        /\ control.params \in [OverrideKey -> ParamValue \cup {NoParam}]
        /\ control.again \in BOOLEAN
    BY DEF ContextType, EtxnContext, ControlContext
  <1>2. committed_emissions' \in Seq(Emission) /\ skip_directives' \in Seq(Hash \X {0, 1})
    BY <1>1, ConcatProperties DEF WorldType, Accept
  <1>3. hook_param_overrides' \in [OverrideKey -> ParamValue \cup {NoParam}]
    BY <1>1, MergeType DEF WorldType, Accept
  <1>4. hook_again_requested' \in BOOLEAN
    BY <1>1 DEF Accept
  <1>5. invocation_counter' \in 0..MaxInvocations /\ state' \in [Address -> Value \cup {Missing}]
    BY DEF Accept, FrameType, WorldType
  <1>6. End("accept")
    BY DEF Accept
  <1> QED BY <1>2, <1>3, <1>4, <1>5, <1>6, EndType

LEMMA StrictViolationType ==
  ASSUME WorldInv, StrictViolation
  PROVE  TypeOK'
  BY EndType DEF WorldInv, TypeOK, WorldType, FrameType, StrictViolation, commitVars

LEMMA RepositionType ==
  ASSUME WorldInv, RepositionStep
  PROVE  TypeOK'
  <1> USE DEF WorldInv, TypeOK
  <1>1. PICK h \in HookHash : Reposition(h)
    BY DEF RepositionStep
  <1>2. WorldType'
    BY <1>1 DEF WorldType, Reposition, stateVars, journalVars, commitVars
  <1>3. FrameType'
    BY <1>1 DEF FrameType, Reposition
  <1>4. ContextType'
    BY <1>1 DEF ContextType, Reposition, stateVars, nonceVars
  <1> QED BY <1>2, <1>3, <1>4

LEMMA GuardHitType ==
  ASSUME WorldInv, NEW g \in GuardId, GuardHit(g)
  PROVE  TypeOK'
  <1> USE DEF WorldInv, TypeOK
  <1>1. CASE Discard("rollback")
    BY <1>1, DiscardType DEF Discard, DiscardStep
  <1>2. CASE /\ guard_counts' = [guard_counts EXCEPT ![g] = @ + 1]
             /\ UNCHANGED <<stateVars, journalVars, commitVars, frameVars, nonceVars,
                            etxn, control>>
    <2>1. WorldType'
      BY <1>2 DEF WorldType, stateVars, journalVars, commitVars
    <2>2. FrameType'
      BY <1>2, FrameUnchanged
    <2>3. ContextType'
      BY <1>2 DEF ContextType, stateVars, nonceVars
    <2> QED BY <2>1, <2>2, <2>3
  <1> QED BY <1>1, <1>2 DEF GuardHit

LEMMA TypeStep ==
  ASSUME WorldInv, [Next]_vars
  PROVE  TypeOK'
  <1>1. CASE StateCall
    BY <1>1, StateCallType DEF WorldInv
  <1>2. CASE EmitCall
    BY <1>2, EmitCallType DEF WorldInv
  <1>3. CASE ControlCall
    BY <1>3, ControlCallType DEF WorldInv
  <1>4. CASE BeginStep
    <2>1. PICK e \in Entry, t \in Originating : Begin(e, t)
      BY <1>4 DEF BeginStep, Invoke, InvokeCbak, Originating, OwnCallbacks
    <2> QED BY <2>1, BeginType
  <1>5. CASE EndStep
    <2>1. CASE Accept
      BY <2>1, AcceptType
    <2>2. CASE StrictViolation
      BY <2>2, StrictViolationType
    <2>3. CASE Rollback \/ Return \/ HookPanics \/ ReentrantInvoke
      BY <2>3, DiscardType DEF Rollback, Return, HookPanics, Discard, ReentrantInvoke, DiscardStep
    <2> QED BY <1>5, <2>1, <2>2, <2>3 DEF EndStep
  <1>6. CASE \E g \in GuardId : GuardHit(g)
    BY <1>6, GuardHitType
  <1>7. CASE \E h \in HookHash : Reposition(h)
    BY <1>7, RepositionType DEF RepositionStep
  <1>8. CASE UNCHANGED vars
    BY <1>8, EmitContextType DEF WorldInv, TypeOK, ContextType, vars, nonceVars
  <1> QED BY <1>1, <1>2, <1>3, <1>4, <1>5, <1>6, <1>7, <1>8 DEF Next

LEMMA SnapshotStep ==
  ASSUME WorldInv, [Next]_vars
  PROVE  SnapshotCurrent'
  <1> USE DEF SnapshotCurrent
  <1>1. CASE ModifyStep
    BY <1>1 DEF ModifyStep, Modify, commitVars, frameVars, WorldInv
  <1>2. CASE QuietStep
    BY <1>2 DEF QuietStep, commitVars, frameVars, WorldInv
  <1>3. CASE BeginningStep
    BY <1>3 DEF BeginningStep, Begin, commitVars
  <1>4. CASE DiscardStep
    BY <1>4 DEF DiscardStep, End
  <1>5. CASE Accept \/ StrictViolation
    BY <1>5 DEF Accept, StrictViolation, End
  <1>6. CASE RepositionStep
    BY <1>6 DEF RepositionStep, Reposition, stateVars, commitVars, WorldInv
  <1> QED BY <1>1, <1>2, <1>3, <1>4, <1>5, <1>6, StepCases

LEMMA WorldInvInductive == Spec => []WorldInv
  <1>1. Init => WorldInv
    <2> SUFFICES ASSUME Init PROVE WorldInv
      OBVIOUS
    <2>1. TypeOK
      BY InitType
    <2>2. SnapshotCurrent
      BY EmptySeq DEF Init, SnapshotCurrent
    <2> QED BY <2>1, <2>2 DEF WorldInv
  <1>2. WorldInv /\ [Next]_vars => WorldInv'
    BY TypeStep, SnapshotStep DEF WorldInv
  <1> QED BY <1>1, <1>2, PTL DEF Spec

(* Every variable keeps its type: budgets stay within the host's limits,   *)
(* whatever the hook calls and however its invocations end.                *)
THEOREM TypeCorrect == Spec => []TypeOK
  <1>1. WorldInv => TypeOK
    BY DEF WorldInv
  <1> QED BY <1>1, WorldInvInductive, PTL

-----------------------------------------------------------------------------
(* Nonces: every id handed out is older than invocation_counter, and the   *)
(* running invocation has drawn only numbers below its call_counter.       *)
NoncesDrawn ==
  \A i \in 1..Len(handed) :
    /\ handed[i][1] < invocation_counter
    /\ running /\ handed[i][1] = invocation.id => handed[i][2] < nonces.call_counter
IdTaken == running => invocation.id < invocation_counter
NonceInv == NoncesUnique /\ NoncesDrawn /\ IdTaken

(* The steps, sorted by what they do to the nonces. *)
DrawingStep == running /\ (\E budget \in {"ledger", "emit"} : DrawNonce(budget)) /\ UNCHANGED frameVars
KeepingStep == UNCHANGED <<handed, invocation, invocation_counter, status, nonces>>
LeavingStep == UNCHANGED handed /\ status' # "running" /\ invocation_counter' >= invocation_counter

LEMMA NonceStepCases ==
  ASSUME TypeOK, [Next]_vars
  PROVE  DrawingStep \/ KeepingStep \/ BeginningStep \/ LeavingStep
  <1>0. invocation_counter \in Int
    BY DEF TypeOK, FrameType
  <1>1. UNCHANGED vars => KeepingStep
    BY DEF vars, frameVars, nonceVars, KeepingStep
  <1>2. CASE StateCall
    <2>1. PICK k \in Key \cup {BadKey}, v \in Value \cup {Missing} :
            \/ StateSet(k, v)
            \/ \E acc \in Account, ns \in Namespace : StateForeignSet(acc, ns, k, v)
      BY <1>2 DEF StateCall
    <2>2. \A acc, ns, n, w : Modify(acc, ns, n, w) => KeepingStep
      BY DEF Modify, KeepingStep, frameVars, nonceVars
    <2>3. DenyForeignWrite => KeepingStep
      BY DEF DenyForeignWrite, KeepingStep, frameVars, nonceVars
    <2> QED BY <1>1, <2>1, <2>2, <2>3
        DEF StateSet, StateForeignSet, ForeignWrite, Write, Refuse
  <1>3. CASE EmitCall
    <2>1. \A n : EtxnReserve(n) => KeepingStep
      BY <1>1 DEF EtxnReserve, Refuse, KeepingStep, frameVars, nonceVars
    <2>2. LedgerNonce => KeepingStep \/ DrawingStep
      BY <1>1 DEF LedgerNonce, Refuse, DrawingStep, Calls
    <2>3. EtxnNonce => KeepingStep \/ DrawingStep
      BY <1>1 DEF EtxnNonce, Refuse, DrawingStep, Calls
    <2>4. EtxnDetails => KeepingStep \/ DrawingStep
      BY <1>1 DEF EtxnDetails, Refuse, DrawingStep, Calls
    <2>5. \A b, ok : Emit(b, ok) => KeepingStep
      BY DEF Emit, KeepingStep, frameVars, nonceVars
    <2> QED BY <1>3, <2>1, <2>2, <2>3, <2>4, <2>5 DEF EmitCall
  <1>4. CASE ControlCall
    <2>1. \A c : Stage(c) => KeepingStep
      BY DEF Stage, KeepingStep, frameVars, nonceVars
    <2>2. Trace => KeepingStep
      BY DEF Trace, KeepingStep, frameVars, nonceVars
    <2> QED BY <1>1, <1>4, <2>1, <2>2 DEF ControlCall, HookAgain, HookSkip, HookParamSet, Refuse
  <1>5. CASE BeginStep
    BY <1>5 DEF BeginStep, Invoke, InvokeCbak, BeginningStep, Originating, OwnCallbacks
  <1>6. CASE EndStep
    BY <1>0, <1>6 DEF EndStep, Rollback, Return, HookPanics, ReentrantInvoke, Discard, Accept,
                StrictViolation, End, LeavingStep
  <1>7. ASSUME NEW g \in GuardId, GuardHit(g) PROVE KeepingStep \/ LeavingStep
    BY <1>0, <1>7 DEF GuardHit, Discard, End, KeepingStep, LeavingStep, frameVars, nonceVars
  <1>8. ASSUME NEW h \in HookHash, Reposition(h) PROVE KeepingStep
    BY <1>8 DEF Reposition, KeepingStep, nonceVars
  <1> QED BY <1>1, <1>2, <1>3, <1>4, <1>5, <1>6, <1>7, <1>8 DEF Next

LEMMA NonceInvStep ==
  ASSUME TypeOK, TypeOK', NonceInv, [Next]_vars
  PROVE  NonceInv'
  <1> USE DEF NonceInv
  <1>1. /\ handed \in Seq(Nonce) /\ nonces.call_counter \in Nat
        /\ invocation.id \in Nat /\ invocation_counter \in Int
    BY DEF TypeOK, FrameType, ContextType, NonceContext, InvocationInfo
  <1>2. \A i \in 1..Len(handed) : handed[i] \in Nonce /\ handed[i][1] \in Int
    BY <1>1, ElementOfSeq DEF Nonce
  <1>3. CASE DrawingStep
    <2>1. /\ handed' = Append(handed, NextNonce)
          /\ UNCHANGED <<invocation, invocation_counter, status>>
          /\ running
      BY <1>3 DEF DrawingStep, DrawNonce, frameVars
    <2>2. nonces'.call_counter = nonces.call_counter + 1
      BY <1>3 DEF DrawingStep, DrawNonce, TypeOK, ContextType, NonceContext
    <2>3. NextNonce \in Nonce
      BY NextNonceType
    <2>4. /\ Len(handed') = Len(handed) + 1
          /\ handed'[Len(handed) + 1] = NextNonce
          /\ \A i \in 1..Len(handed) : handed'[i] = handed[i]
      BY <1>1, <2>1, <2>3, AppendProperties
    <2>5. Len(handed) \in Nat
      BY <1>1, LenProperties
    <2>6. ASSUME NEW i \in 1..Len(handed), handed[i] = NextNonce PROVE FALSE
      <3>1. handed[i][1] = invocation.id /\ handed[i][2] = nonces.call_counter
        BY <2>6 DEF NextNonce
      <3>2. handed[i][2] < nonces.call_counter
        BY <2>1, <3>1 DEF NoncesDrawn
      <3> QED BY <1>1, <3>1, <3>2
    <2>7. NoncesUnique'
      BY <2>4, <2>5, <2>6 DEF NoncesUnique
    <2>8. NoncesDrawn'
      <3> SUFFICES ASSUME NEW i \in 1..Len(handed')
                   PROVE  /\ handed'[i][1] < invocation_counter'
                          /\ running' /\ handed'[i][1] = invocation'.id
                               => handed'[i][2] < nonces'.call_counter
        BY DEF NoncesDrawn
      <3>1. CASE i = Len(handed) + 1
        BY <1>1, <2>1, <2>2, <2>4, <3>1 DEF NextNonce, IdTaken
      <3>2. CASE i \in 1..Len(handed)
        BY <1>1, <1>2, <2>1, <2>2, <2>4, <3>2 DEF NoncesDrawn, Nonce
      <3> QED BY <2>4, <2>5, <3>1, <3>2
    <2> QED BY <2>1, <2>7, <2>8 DEF IdTaken
  <1>4. CASE KeepingStep
    BY <1>4 DEF KeepingStep, NoncesUnique, NoncesDrawn, IdTaken
  <1>5. CASE BeginningStep
    <2>1. /\ UNCHANGED handed /\ invocation_counter' = invocation_counter + 1
          /\ invocation'.id = invocation_counter
      BY <1>5 DEF BeginningStep, Begin
    <2> QED BY <1>1, <1>2, <2>1 DEF NoncesUnique, NoncesDrawn, IdTaken, Nonce
  <1>6. CASE LeavingStep
    <2>1. invocation_counter' \in Int
      BY DEF TypeOK, FrameType
    <2>2. handed' = handed /\ ~running' /\ invocation_counter' >= invocation_counter
      BY <1>6 DEF LeavingStep
    <2>3. NoncesDrawn'
      BY <1>1, <1>2, <2>1, <2>2 DEF NoncesDrawn
    <2> QED BY <2>2, <2>3 DEF NoncesUnique, IdTaken
  <1> QED BY <1>3, <1>4, <1>5, <1>6, NonceStepCases

(* No two nonces of a TestEnv are equal, across families and invocations:  *)
(* the pair hash_counters digests never recurs.                            *)
THEOREM NoncesNeverRepeat == Spec => []NoncesUnique
  <1>1. Init => NonceInv
    BY EmptySeq DEF Init, NonceInv, NoncesUnique, NoncesDrawn, IdTaken
  <1>2. TypeOK /\ TypeOK' /\ NonceInv /\ [Next]_vars => NonceInv'
    BY NonceInvStep
  <1>3. NonceInv => NoncesUnique
    BY DEF NonceInv
  <1> QED BY <1>1, <1>2, <1>3, TypeCorrect, PTL DEF Spec

-----------------------------------------------------------------------------
(* Foreign entries the running hook may not write are those of the         *)
(* snapshot: without this, Restore could change one.                       *)
ForeignIntact ==
  running => \A a \in Address \ Writable(hook_hash) : state[a] = snapshot.state[a]

LEMMA ModifyTarget ==
  ASSUME TypeOK, ModifyStep
  PROVE  \E b \in Address, v \in Value \cup {Missing} :
           /\ state' = [state EXCEPT ![b] = v]
           /\ b \in Writable(hook_hash)
           /\ state_mod_count < MaxStateModifications
           /\ state_mod_count' = state_mod_count + 1
           /\ WithinNamespaceBudget(b[1], b[2])
           /\ UNCHANGED frameVars
  <1>1. PICK acc \in Account, ns \in Namespace, k \in Key, v \in Value \cup {Missing} :
          /\ acc = HookAccount \/ (~retry_blocked /\ Authorized(acc, ns))
          /\ Modify(acc, ns, k, v)
    BY DEF ModifyStep
  <1> DEFINE b == <<acc, ns, k>>
  <1>2. b \in Address /\ b[1] = acc /\ b[2] = ns
    BY DEF Address
  <1>3. b \in Writable(hook_hash)
    BY <1>1, <1>2 DEF Writable, Authorized, Matches
  <1>4. state_mod_count < MaxStateModifications /\ WithinNamespaceBudget(acc, ns)
    BY <1>1, Limits DEF Modify, WriteResult, TypeOK, ContextType
  <1>5. /\ state' = [state EXCEPT ![b] = v]
        /\ state_mod_count' = state_mod_count + 1
        /\ UNCHANGED frameVars
    BY <1>1 DEF Modify
  <1>6. WithinNamespaceBudget(b[1], b[2])
    BY <1>2, <1>4
  <1> HIDE DEF b
  <1> QED BY <1>2, <1>3, <1>4, <1>5, <1>6

LEMMA ForeignIntactStep ==
  ASSUME WorldInv, ForeignIntact, [Next]_vars
  PROVE  /\ ForeignIntact'
         /\ \A a \in Address \ Writable(hook_hash) : state'[a] = state[a]
  <1>0. state \in [Address -> Value \cup {Missing}]
    BY DEF WorldInv, TypeOK, WorldType
  <1>1. CASE ModifyStep
    <2>1. PICK b \in Address, v \in Value \cup {Missing} :
            state' = [state EXCEPT ![b] = v] /\ b \in Writable(hook_hash) /\ UNCHANGED frameVars
      BY <1>1, ModifyTarget DEF WorldInv
    <2>2. \A a \in Address \ Writable(hook_hash) : state'[a] = state[a]
      BY <1>0, <2>1
    <2> QED BY <2>1, <2>2 DEF ForeignIntact, Writable, frameVars
  <1>2. CASE QuietStep
    BY <1>2 DEF QuietStep, ForeignIntact, Writable, frameVars
  <1>3. CASE BeginningStep
    BY <1>3 DEF BeginningStep, Begin, ForeignIntact
  <1>4. CASE DiscardStep
    BY <1>4, RestoreIsState DEF DiscardStep, End, ForeignIntact, WorldInv, SnapshotCurrent
  <1>5. CASE Accept \/ StrictViolation
    BY <1>5 DEF Accept, StrictViolation, End, ForeignIntact
  <1>6. CASE RepositionStep
    BY <1>6 DEF RepositionStep, Reposition, ForeignIntact, stateVars
  <1> QED BY <1>1, <1>2, <1>3, <1>4, <1>5, <1>6, StepCases

(* No step, a Restore included, changes an entry of another account that   *)
(* no grant opens to the hook at the current position.                     *)
THEOREM GrantsAreHonoured == Spec => OnlyGranted
  <1>1. Init => ForeignIntact
    BY DEF Init, ForeignIntact
  <1>2. WorldInv /\ ForeignIntact /\ [Next]_vars => ForeignIntact'
    BY ForeignIntactStep
  <1>3. WorldInv /\ ForeignIntact /\ [Next]_vars =>
          [\A a \in Address \ Writable(hook_hash) : state'[a] = state[a]]_vars
    BY ForeignIntactStep
  <1> QED BY <1>1, <1>2, <1>3, WorldInvInductive, PTL DEF Spec, OnlyGranted

(* After a denied foreign write no foreign entry changes while the         *)
(* invocation runs: retry_blocked is tested before the grants.             *)
THEOREM DenialsAreFinal == Spec => DenialIsFinal
  <1>1. ASSUME WorldInv, [Next]_vars,
               NEW a \in Address, a[1] # HookAccount, retry_blocked, running'
        PROVE  state'[a] = state[a]
    <2>1. CASE ModifyStep
      <3>1. PICK acc \in Account, ns \in Namespace, k \in Key, v \in Value \cup {Missing} :
              (acc = HookAccount \/ ~retry_blocked) /\ Modify(acc, ns, k, v)
        BY <2>1 DEF ModifyStep
      <3>2. acc = HookAccount
        BY <1>1, <3>1
      <3>3. state' = [state EXCEPT ![<<acc, ns, k>>] = v] /\ a # <<acc, ns, k>>
        BY <1>1, <3>1, <3>2 DEF Modify
      <3> QED BY <1>1, <3>3 DEF WorldInv, TypeOK, WorldType
    <2>2. CASE QuietStep \/ BeginningStep \/ RepositionStep
      BY <2>2 DEF QuietStep, BeginningStep, Begin, RepositionStep, Reposition, stateVars
    <2>3. CASE DiscardStep \/ Accept \/ StrictViolation
      BY <1>1, <2>3 DEF DiscardStep, Accept, StrictViolation, End
    <2> QED BY <1>1, <2>1, <2>2, <2>3, StepCases
  <1>2. WorldInv /\ [Next]_vars =>
          [\A a \in Address :
             a[1] # HookAccount /\ retry_blocked /\ running' => state'[a] = state[a]]_vars
    BY <1>1
  <1> QED BY <1>2, WorldInvInductive, PTL DEF Spec, DenialIsFinal

-----------------------------------------------------------------------------
LEMMA AddressFinite == IsFiniteSet(Address)
  <1> DEFINE Nested == (Account \X Namespace) \X Key
             flatten == [p \in Nested |-> <<p[1][1], p[1][2], p[2]>>]
  <1>1. IsFiniteSet(Nested)
    BY FiniteAssumption, FS_Product
  <1>2. flatten \in Surjection(Nested, Address)
    <2>1. flatten \in [Nested -> Address]
      BY DEF Address
    <2>2. ASSUME NEW a \in Address PROVE \E p \in Nested : flatten[p] = a
      <3>1. PICK acc \in Account, ns \in Namespace, k \in Key : a = <<acc, ns, k>>
        BY DEF Address
      <3>2. <<<<acc, ns>>, k>> \in Nested /\ flatten[<<<<acc, ns>>, k>>] = a
        BY <3>1
      <3> QED BY <3>2
    <2> QED BY <2>1, <2>2 DEF Surjection
  <1> QED BY <1>1, <1>2, FS_Surjection

LEMMA WriteBudgetStep ==
  ASSUME WorldInv, WriteBudget, [Next]_vars
  PROVE  WriteBudget'
  <1>0. state \in [Address -> Value \cup {Missing}] /\ state_mod_count \in Nat
    BY Limits DEF WorldInv, TypeOK, WorldType, ContextType
  <1>1. CASE ModifyStep
    <2>1. PICK b \in Address, v \in Value \cup {Missing} :
            /\ state' = [state EXCEPT ![b] = v]
            /\ state_mod_count < MaxStateModifications
            /\ state_mod_count' = state_mod_count + 1
            /\ UNCHANGED frameVars
      BY <1>1, ModifyTarget DEF WorldInv
    <2>2. Changed' \subseteq Changed \cup {b}
      BY <1>0, <2>1 DEF Changed, frameVars
    <2>3. IsFiniteSet(Changed) /\ IsFiniteSet(Changed')
      BY AddressFinite, FS_Subset DEF Changed
    <2>4. /\ IsFiniteSet(Changed \cup {b})
          /\ Cardinality(Changed \cup {b}) <= Cardinality(Changed) + 1
          /\ Cardinality(Changed) \in Nat
      <3>1. Cardinality(Changed) \in Nat
        BY <2>3, FS_CardinalityType
      <3>2. /\ IsFiniteSet(Changed \cup {b})
            /\ \/ Cardinality(Changed \cup {b}) = Cardinality(Changed)
               \/ Cardinality(Changed \cup {b}) = Cardinality(Changed) + 1
        BY <2>3, FS_AddElement
      <3> QED BY <3>1, <3>2
    <2>5. Cardinality(Changed') <= Cardinality(Changed \cup {b})
      BY <2>2, <2>4, FS_Subset
    <2>6. Cardinality(Changed') \in Nat /\ Cardinality(Changed \cup {b}) \in Nat
      BY <2>3, <2>4, FS_CardinalityType
    <2> QED BY <1>0, <2>1, <2>4, <2>5, <2>6, Limits DEF WriteBudget
  <1>2. CASE QuietStep
    BY <1>2 DEF QuietStep, WriteBudget, Changed, frameVars
  <1>3. ASSUME state_mod_count' = 0, snapshot'.state = state' PROVE WriteBudget'
    <2>1. Changed' = {}
      BY <1>3 DEF Changed
    <2> QED BY <1>3, <2>1, FS_EmptySet, Limits DEF WriteBudget
  <1>4. CASE BeginningStep
    BY <1>3, <1>4 DEF BeginningStep, Begin, NewContext
  <1>5. CASE DiscardStep \/ Accept \/ StrictViolation
    BY <1>3, <1>5 DEF DiscardStep, Accept, StrictViolation, End, NewContext
  <1>6. CASE RepositionStep
    BY <1>6 DEF RepositionStep, Reposition, stateVars, WriteBudget, Changed
  <1> QED BY <1>1, <1>2, <1>4, <1>5, <1>6, StepCases

(* An invocation never changes more entries than it has counted, and never *)
(* counts more than MAX_STATE_MODIFICATIONS.                               *)
THEOREM WritesAreBudgeted == Spec => []WriteBudget
  <1>1. Init => WriteBudget
    <2> SUFFICES ASSUME Init PROVE WriteBudget
      OBVIOUS
    <2>1. Changed = {} /\ state_mod_count = 0
      BY DEF Init, Changed
    <2> QED BY <2>1, FS_EmptySet, Limits DEF WriteBudget
  <1>2. WorldInv /\ WriteBudget /\ [Next]_vars => WriteBudget'
    BY WriteBudgetStep
  <1> QED BY <1>1, <1>2, WorldInvInductive, PTL DEF Spec

-----------------------------------------------------------------------------
(* The namespace budget holds of the live map and of the snapshot it may   *)
(* go back to.                                                             *)
Budgeted(st) ==
  \A acc \in Account :
    LET live == Cardinality(LiveNamespaces(st, acc))
    IN \/ live <= MaxNamespaces
       \/ \E s \in SeedStates : live <= Cardinality(LiveNamespaces(s, acc))
BudgetInv == Budgeted(state) /\ Budgeted(snapshot.state)

LEMMA LiveFinite ==
  ASSUME NEW st, NEW acc
  PROVE  IsFiniteSet(LiveNamespaces(st, acc)) /\ Cardinality(LiveNamespaces(st, acc)) \in Nat
  <1>1. LiveNamespaces(st, acc) \in SUBSET Namespace
    BY DEF LiveNamespaces
  <1> QED BY <1>1, FiniteAssumption, FS_Subset, FS_CardinalityType

LEMMA SmallerIsBudgeted ==
  ASSUME NEW st, NEW tt, Budgeted(st),
         \A acc \in Account :
           \/ Cardinality(LiveNamespaces(tt, acc)) <= Cardinality(LiveNamespaces(st, acc))
           \/ Cardinality(LiveNamespaces(tt, acc)) <= MaxNamespaces
  PROVE  Budgeted(tt)
  <1> SUFFICES ASSUME NEW acc \in Account,
                      ~(Cardinality(LiveNamespaces(tt, acc)) <= MaxNamespaces)
               PROVE  \E s \in SeedStates : Cardinality(LiveNamespaces(tt, acc))
                                              <= Cardinality(LiveNamespaces(s, acc))
    BY DEF Budgeted
  <1>1. Cardinality(LiveNamespaces(tt, acc)) <= Cardinality(LiveNamespaces(st, acc))
    OBVIOUS
  <1>2. PICK s \in SeedStates :
          Cardinality(LiveNamespaces(st, acc)) <= Cardinality(LiveNamespaces(s, acc))
    BY <1>1, LiveFinite, Limits DEF Budgeted
  <1>3. /\ Cardinality(LiveNamespaces(tt, acc)) \in Nat
        /\ Cardinality(LiveNamespaces(st, acc)) \in Nat
        /\ Cardinality(LiveNamespaces(s, acc)) \in Nat
    BY LiveFinite
  <1> QED BY <1>1, <1>2, <1>3

LEMMA ModifyIsBudgeted ==
  ASSUME WorldInv, Budgeted(state), ModifyStep
  PROVE  Budgeted(state')
  <1>1. PICK b \in Address, v \in Value \cup {Missing} :
          state' = [state EXCEPT ![b] = v] /\ WithinNamespaceBudget(b[1], b[2])
    BY ModifyTarget DEF WorldInv
  <1>2. state \in [Address -> Value \cup {Missing}]
    BY DEF WorldInv, TypeOK, WorldType
  <1> DEFINE live(acc) == LiveNamespaces(state, acc)
             next(acc) == LiveNamespaces(state', acc)
  <1>3. ASSUME NEW acc \in Account
        PROVE  Cardinality(next(acc)) <= Cardinality(live(acc)) \/ Cardinality(next(acc)) <= MaxNamespaces
    <2>1. next(acc) \subseteq live(acc) \cup (IF acc = b[1] THEN {b[2]} ELSE {})
      <3> SUFFICES ASSUME NEW ns \in next(acc), ns \notin live(acc)
                   PROVE  acc = b[1] /\ ns = b[2]
        OBVIOUS
      <3>1. PICK k \in Key : state'[<<acc, ns, k>>] # Missing
        BY DEF LiveNamespaces
      <3>2. state[<<acc, ns, k>>] = Missing /\ <<acc, ns, k>> \in Address
        BY DEF LiveNamespaces, Address
      <3>3. <<acc, ns, k>> = b
        BY <1>1, <1>2, <3>1, <3>2
      <3> QED BY <3>3
    <2>2. CASE next(acc) \subseteq live(acc)
      BY <2>2, LiveFinite, FS_Subset
    <2>3. CASE ~(next(acc) \subseteq live(acc))
      <3>1. acc = b[1] /\ b[2] \notin live(acc) /\ next(acc) \subseteq live(acc) \cup {b[2]}
        BY <2>1, <2>3
      <3>2. Cardinality(live(acc)) < MaxNamespaces
        BY <1>1, <3>1 DEF WithinNamespaceBudget
      <3>3. /\ IsFiniteSet(live(acc) \cup {b[2]})
            /\ Cardinality(live(acc) \cup {b[2]}) = Cardinality(live(acc)) + 1
        BY <3>1, LiveFinite, FS_AddElement
      <3>4. Cardinality(next(acc)) <= Cardinality(live(acc) \cup {b[2]})
        BY <3>1, <3>3, FS_Subset
      <3>5. Cardinality(live(acc)) \in Nat /\ Cardinality(next(acc)) \in Nat
        BY LiveFinite
      <3>6. Cardinality(next(acc)) <= MaxNamespaces
        BY <3>2, <3>3, <3>4, <3>5, Limits
      <3> QED BY <3>6
    <2> QED BY <2>2, <2>3
  <1> QED BY <1>3, SmallerIsBudgeted

LEMMA BudgetInvStep ==
  ASSUME WorldInv, BudgetInv, [Next]_vars
  PROVE  BudgetInv'
  <1> USE DEF BudgetInv
  <1>1. CASE ModifyStep
    <2>1. UNCHANGED snapshot
      BY <1>1 DEF ModifyStep, Modify, frameVars
    <2> QED BY <1>1, <2>1, ModifyIsBudgeted
  <1>2. CASE QuietStep
    BY <1>2 DEF QuietStep, frameVars
  <1>3. CASE BeginningStep
    BY <1>3 DEF BeginningStep, Begin
  <1>4. CASE DiscardStep
    BY <1>4, RestoreIsState DEF DiscardStep, End
  <1>5. CASE Accept \/ StrictViolation
    BY <1>5 DEF Accept, StrictViolation, End
  <1>6. CASE RepositionStep
    BY <1>6 DEF RepositionStep, Reposition, stateVars
  <1> QED BY <1>1, <1>2, <1>3, <1>4, <1>5, <1>6, StepCases

(* No account ever has more live namespaces than MAX_NAMESPACES or than    *)
(* the builders seeded for it.                                             *)
THEOREM NamespacesAreBudgeted == Spec => []NamespaceBudget
  <1>1. Init => BudgetInv
    <2> SUFFICES ASSUME Init PROVE BudgetInv
      OBVIOUS
    <2>1. state \in SeedStates /\ snapshot.state = state
      BY DEF Init
    <2>2. \A acc \in Account :
            Cardinality(LiveNamespaces(state, acc)) <= Cardinality(LiveNamespaces(state, acc))
      BY LiveFinite
    <2>3. Budgeted(state)
      BY <2>1, <2>2 DEF Budgeted
    <2> QED BY <2>1, <2>3 DEF BudgetInv
  <1>2. WorldInv /\ BudgetInv /\ [Next]_vars => BudgetInv'
    BY BudgetInvStep
  <1>3. BudgetInv => NamespaceBudget
    BY DEF BudgetInv, Budgeted, NamespaceBudget
  <1> QED BY <1>1, <1>2, <1>3, WorldInvInductive, PTL DEF Spec

-----------------------------------------------------------------------------
(* The steps, sorted by what they do to the emission context. *)
LEMMA EtxnCases ==
  ASSUME [Next]_vars
  PROVE  \/ UNCHANGED etxn
         \/ etxn' = NewEtxn
         \/ /\ \E n \in 1..MaxReserve : ~Reserved /\ etxn' = [etxn EXCEPT !.reserve = n]
            /\ running /\ UNCHANGED <<commitVars, frameVars>>
         \/ /\ Reserved
            /\ etxn' = [etxn EXCEPT !.details = NewDetails, !.shown = @ \cup {NewDetails}]
            /\ running /\ UNCHANGED <<commitVars, frameVars>>
         \/ \E b \in Blobs, ok \in BOOLEAN : Emit(b, ok)
  <1>0. UNCHANGED vars => UNCHANGED etxn
    BY DEF vars
  <1>1. CASE StateCall
    <2>1. PICK k \in Key \cup {BadKey}, v \in Value \cup {Missing} :
            \/ StateSet(k, v)
            \/ \E acc \in Account, ns \in Namespace : StateForeignSet(acc, ns, k, v)
      BY <1>1 DEF StateCall
    <2>2. \A acc, ns, n, w : Modify(acc, ns, n, w) => UNCHANGED etxn
      BY DEF Modify
    <2> QED BY <1>0, <2>1, <2>2
        DEF StateSet, StateForeignSet, ForeignWrite, DenyForeignWrite, Write, Refuse
  <1>2. CASE EmitCall
    <2>1. EtxnDetails => UNCHANGED etxn \/ Reserved
      BY <1>0 DEF EtxnDetails, DetailsResult, Refuse
    <2> QED BY <1>0, <1>2, <2>1
        DEF EmitCall, EtxnReserve, LedgerNonce, EtxnNonce, EtxnDetails, Calls, Refuse
  <1>3. CASE ControlCall
    BY <1>0, <1>3 DEF ControlCall, HookAgain, HookSkip, HookParamSet, Trace, Stage, Refuse
  <1>4. CASE BeginStep
    BY <1>4 DEF BeginStep, Invoke, InvokeCbak, Begin, NewContext
  <1>5. CASE EndStep
    BY <1>5 DEF EndStep, Rollback, Return, HookPanics, ReentrantInvoke, Discard, Accept,
                StrictViolation, End, NewContext
  <1>6. ASSUME NEW g \in GuardId, GuardHit(g) PROVE UNCHANGED etxn \/ etxn' = NewEtxn
    BY <1>6 DEF GuardHit, Discard, End, NewContext
  <1>7. ASSUME NEW h \in HookHash, Reposition(h) PROVE UNCHANGED etxn
    BY <1>7 DEF Reposition
  <1> QED BY <1>0, <1>1, <1>2, <1>3, <1>4, <1>5, <1>6, <1>7 DEF Next

LEMMA ReserveHonouredStep ==
  ASSUME TypeOK, ReserveHonoured, [Next]_vars
  PROVE  ReserveHonoured'
  <1> USE DEF ReserveHonoured
  <1>0. etxn \in EtxnContext
    BY DEF TypeOK, ContextType
  <1>1. CASE etxn' = NewEtxn
    BY <1>1, EmptySeq DEF NewEtxn
  <1>2. ASSUME NEW n \in 1..MaxReserve, ~Reserved, etxn' = [etxn EXCEPT !.reserve = n]
        PROVE  ReserveHonoured'
    <2>1. etxn.emit_count <= 0
      BY <1>2
    <2>2. /\ etxn'.reserve = n /\ etxn'.emit_count = etxn.emit_count
          /\ etxn'.pending = etxn.pending
      BY <1>0, <1>2 DEF EtxnContext
    <2> QED BY <1>0, <2>1, <2>2, Limits DEF EtxnContext
  <1>3. CASE etxn' = [etxn EXCEPT !.details = NewDetails, !.shown = @ \cup {NewDetails}]
    <2>1. /\ etxn'.reserve = etxn.reserve /\ etxn'.emit_count = etxn.emit_count
          /\ etxn'.pending = etxn.pending
      BY <1>0, <1>3 DEF EtxnContext
    <2> QED BY <2>1
  <1>4. ASSUME NEW b \in Blobs, NEW ok \in BOOLEAN, Emit(b, ok) PROVE ReserveHonoured'
    <2> DEFINE attempt == [blob |-> b, outcome |-> EmitResult(b, ok)]
    <2>1. CASE etxn' = [etxn EXCEPT !.attempts = Append(@, attempt)]
      <3>1. /\ etxn'.reserve = etxn.reserve /\ etxn'.emit_count = etxn.emit_count
            /\ etxn'.pending = etxn.pending
        BY <1>0, <2>1 DEF EtxnContext
      <3> QED BY <3>1
    <2>2. CASE /\ EmitResult(b, ok) = "Ok"
               /\ etxn' = [etxn EXCEPT !.emit_count = @ + 1,
                                       !.attempts = Append(@, attempt),
                                       !.pending = Append(@, b)]
      <3>1. ~(etxn.emit_count >= etxn.reserve)
        BY <2>2 DEF EmitResult, ReserveSpent
      <3>2. /\ etxn'.reserve = etxn.reserve /\ etxn'.emit_count = etxn.emit_count + 1
            /\ etxn'.pending = Append(etxn.pending, b)
        BY <1>0, <2>2 DEF EtxnContext
      <3>3. etxn.emit_count \in Nat /\ etxn.reserve \in Nat /\ etxn.pending \in Seq(Emission)
        BY <1>0, Limits DEF EtxnContext
      <3>4. Len(Append(etxn.pending, b)) = Len(etxn.pending) + 1
        BY <3>3
      <3> QED BY <3>1, <3>2, <3>3, <3>4
    <2> QED BY <1>4, <2>1, <2>2 DEF Emit
  <1> QED BY <1>1, <1>2, <1>3, <1>4, EtxnCases

(* An invocation never emits more than it reserved, and every emission it  *)
(* counted is pending.                                                     *)
THEOREM ReservesAreHonoured == Spec => []ReserveHonoured
  <1>1. Init => ReserveHonoured
    BY EmptySeq DEF Init, NewEtxn, ReserveHonoured
  <1>2. TypeOK /\ ReserveHonoured /\ [Next]_vars => ReserveHonoured'
    BY ReserveHonouredStep
  <1> QED BY <1>1, <1>2, TypeCorrect, PTL DEF Spec

-----------------------------------------------------------------------------
OtxnInv ==
  /\ OtxnRestored
  /\ ~running => otxn = SeedOtxn
  /\ running => original = SeedOtxn

LEMMA OtxnInvStep ==
  ASSUME WorldInv, OtxnInv, [Next]_vars
  PROVE  OtxnInv'
  <1> USE DEF OtxnInv
  <1>1. CASE ModifyStep
    BY <1>1 DEF ModifyStep, Modify, commitVars, frameVars, OtxnRestored, CallbackOtxn, EmissionId
  <1>2. CASE QuietStep
    BY <1>2 DEF QuietStep, commitVars, frameVars, OtxnRestored, CallbackOtxn, EmissionId
  <1>3. CASE BeginningStep
    <2>1. PICK e \in Entry, t \in Originating : ~running /\ Begin(e, t)
      BY <1>3 DEF BeginningStep
    <2>2. /\ otxn = SeedOtxn /\ otxn' = t /\ original' = otxn /\ running'
          /\ UNCHANGED committed_emissions
      BY <2>1 DEF Begin, commitVars
    <2> QED BY <2>2 DEF Originating, OwnCallbacks, OtxnRestored, CallbackOtxn, EmissionId
  <1>4. CASE DiscardStep \/ Accept \/ StrictViolation
    BY <1>4 DEF DiscardStep, Accept, StrictViolation, End, RestoreOtxn, OtxnRestored
  <1>5. CASE RepositionStep
    BY <1>5 DEF RepositionStep, Reposition, OtxnRestored
  <1> QED BY <1>1, <1>2, <1>3, <1>4, <1>5, StepCases

(* Between invocations the originating transaction is the seeded one:      *)
(* OtxnRestoreGuard restores it on every way out of invoke_cbak.           *)
THEOREM OtxnAlwaysRestored == Spec => []OtxnRestored
  <1>1. Init => OtxnInv
    BY DEF Init, OtxnInv, OtxnRestored
  <1>2. WorldInv /\ OtxnInv /\ [Next]_vars => OtxnInv'
    BY OtxnInvStep
  <1>3. OtxnInv => OtxnRestored
    BY DEF OtxnInv
  <1> QED BY <1>1, <1>2, <1>3, WorldInvInductive, PTL DEF Spec

-----------------------------------------------------------------------------
LEMMA PrefixOfConcat ==
  ASSUME NEW S, NEW s \in Seq(S), NEW t \in Seq(S)
  PROVE  IsPrefix(s, s \o t)
  <1>1. Len(s) \in Nat /\ Len(s \o t) = Len(s) + Len(t) /\ Len(t) \in Nat
    BY LenProperties, ConcatProperties
  <1>2. SubSeq(s \o t, 1, Len(s)) = SubSeq(s, 1, Len(s))
    BY <1>1, SubSeqOfConcat1
  <1> QED BY <1>1, <1>2 DEF IsPrefix

LEMMA PrefixOfItself ==
  ASSUME NEW S, NEW s \in Seq(S)
  PROVE  IsPrefix(s, s)
  BY LenProperties DEF IsPrefix

JournalStep ==
  /\ IsPrefix(emit_attempts, emit_attempts')
  /\ IsPrefix(committed_emissions, committed_emissions')
  /\ IsPrefix(skip_directives, skip_directives')
  /\ traces <= traces'

LEMMA JournalGrows ==
  ASSUME WorldInv, [Next]_vars
  PROVE  JournalStep
  <1>0. /\ committed_emissions \in Seq(Emission) /\ emit_attempts \in Seq(Attempt)
        /\ skip_directives \in Seq(Hash \X {0, 1}) /\ traces \in Nat
        /\ etxn.attempts \in Seq(Attempt) /\ etxn.pending \in Seq(Emission)
        /\ control.skips \in Seq(Hash \X {0, 1})
    BY DEF WorldInv, TypeOK, WorldType, ContextType, EtxnContext, ControlContext
  <1>1. /\ IsPrefix(emit_attempts, emit_attempts)
        /\ IsPrefix(committed_emissions, committed_emissions)
        /\ IsPrefix(skip_directives, skip_directives)
        /\ IsPrefix(emit_attempts, emit_attempts \o etxn.attempts)
        /\ IsPrefix(committed_emissions, committed_emissions \o etxn.pending)
        /\ IsPrefix(skip_directives, skip_directives \o control.skips)
    BY <1>0, PrefixOfConcat, PrefixOfItself
  <1>2. CASE ModifyStep
    BY <1>0, <1>1, <1>2 DEF ModifyStep, Modify, journalVars, commitVars, JournalStep
  <1>3. CASE QuietStep
    BY <1>0, <1>1, <1>3 DEF QuietStep, commitVars, JournalStep
  <1>4. CASE BeginningStep
    BY <1>0, <1>1, <1>4 DEF BeginningStep, Begin, journalVars, commitVars, JournalStep
  <1>5. CASE DiscardStep
    <2>1. UNCHANGED commitVars
      BY <1>5, RestoreIsState DEF DiscardStep
    <2> QED BY <1>0, <1>1, <1>5, <2>1 DEF DiscardStep, End, RecordAttempts, commitVars, JournalStep
  <1>6. CASE Accept
    BY <1>0, <1>1, <1>6 DEF Accept, End, RecordAttempts, JournalStep
  <1>7. CASE StrictViolation
    BY <1>0, <1>1, <1>7 DEF StrictViolation, End, RecordAttempts, commitVars, JournalStep
  <1>8. CASE RepositionStep
    BY <1>0, <1>1, <1>8 DEF RepositionStep, Reposition, journalVars, commitVars, JournalStep
  <1> QED BY <1>2, <1>3, <1>4, <1>5, <1>6, <1>7, <1>8, StepCases

(* What a test reads of past invocations is never lost: a restore cuts off *)
(* nothing an earlier invocation committed.                                *)
THEOREM JournalsGrow == Spec => JournalsOnlyGrow
  <1>1. WorldInv /\ [Next]_vars =>
          [/\ IsPrefix(emit_attempts, emit_attempts')
           /\ IsPrefix(committed_emissions, committed_emissions')
           /\ IsPrefix(skip_directives, skip_directives')
           /\ traces <= traces']_vars
    BY JournalGrows DEF JournalStep
  <1> QED BY <1>1, WorldInvInductive, PTL DEF Spec, JournalsOnlyGrow

-----------------------------------------------------------------------------
(* The skip log: coherent logs, one of which ends where the other begins,   *)
(* join to a coherent log.                                                  *)
CoherentSkips(log) ==
  \A i \in 1..Len(log) :
    log[i][2] = 1 =>
      \E j \in 1..(i - 1) :
        /\ log[j] = <<log[i][1], 0>>
        /\ \A k \in (j + 1)..(i - 1) : log[k][1] # log[i][1]
SkipInv == CoherentSkips(skip_directives) /\ CoherentSkips(control.skips)

Directive == Hash \X {0, 1}

LEMMA CoherentAppend ==
  ASSUME NEW log \in Seq(Directive), NEW h \in Hash, NEW flags \in {0, 1},
         CoherentSkips(log), flags = 1 => SkipActive(log, h)
  PROVE  CoherentSkips(Append(log, <<h, flags>>))
  <1> DEFINE longer == Append(log, <<h, flags>>)
             n == Len(log)
  <1>1. /\ n \in Nat /\ Len(longer) = n + 1 /\ longer[n + 1] = <<h, flags>>
        /\ \A i \in 1..n : longer[i] = log[i]
    BY AppendProperties, LenProperties DEF Directive
  <1> SUFFICES ASSUME NEW i \in 1..(n + 1), longer[i][2] = 1
               PROVE  \E j \in 1..(i - 1) :
                        /\ longer[j] = <<longer[i][1], 0>>
                        /\ \A k \in (j + 1)..(i - 1) : longer[k][1] # longer[i][1]
    BY <1>1 DEF CoherentSkips
  <1> HIDE DEF longer
  <1>2. CASE i \in 1..n
    <2>1. PICK j \in 1..(i - 1) :
            /\ log[j] = <<log[i][1], 0>>
            /\ \A k \in (j + 1)..(i - 1) : log[k][1] # log[i][1]
      BY <1>1, <1>2 DEF CoherentSkips
    <2>2. longer[i] = log[i] /\ longer[j] = log[j]
          /\ \A k \in (j + 1)..(i - 1) : longer[k] = log[k]
      BY <1>1, <1>2
    <2> QED BY <2>1, <2>2
  <1>3. CASE i = n + 1
    <2>1. SkipActive(log, h) /\ longer[i] = <<h, flags>>
      BY <1>1, <1>3
    <2>2. PICK j \in 1..n : log[j] = <<h, 0>> /\ \A k \in (j + 1)..n : log[k][1] # h
      BY <2>1 DEF SkipActive
    <2>3. j \in 1..(i - 1) /\ longer[j] = <<h, 0>>
      BY <1>1, <1>3, <2>2
    <2>4. \A k \in (j + 1)..(i - 1) : longer[k][1] # h
      BY <1>1, <1>3, <2>2
    <2> QED BY <2>1, <2>3, <2>4
  <1> QED BY <1>1, <1>2, <1>3

LEMMA CoherentConcat ==
  ASSUME NEW s \in Seq(Directive), NEW t \in Seq(Directive),
         CoherentSkips(s), CoherentSkips(t)
  PROVE  CoherentSkips(s \o t)
  <1> DEFINE joined == s \o t
             n == Len(s)
  <1>1. /\ n \in Nat /\ Len(t) \in Nat /\ Len(joined) = n + Len(t)
        /\ \A i \in 1..n : joined[i] = s[i]
        /\ \A i \in 1..Len(t) : joined[n + i] = t[i]
    <2>1. /\ Len(joined) = n + Len(t) /\ n \in Nat /\ Len(t) \in Nat
          /\ \A i \in 1..(n + Len(t)) : joined[i] = IF i <= n THEN s[i] ELSE t[i - n]
      BY ConcatProperties, LenProperties
    <2>2. ASSUME NEW i \in 1..Len(t) PROVE joined[n + i] = t[i]
      <3>1. n + i \in 1..(n + Len(t)) /\ ~(n + i <= n) /\ (n + i) - n = i
        BY <2>1
      <3> QED BY <2>1, <3>1
    <2> QED BY <2>1, <2>2
  <1> SUFFICES ASSUME NEW i \in 1..Len(joined), joined[i][2] = 1
               PROVE  \E j \in 1..(i - 1) :
                        /\ joined[j] = <<joined[i][1], 0>>
                        /\ \A k \in (j + 1)..(i - 1) : joined[k][1] # joined[i][1]
    BY DEF CoherentSkips
  <1> HIDE DEF joined
  <1>2. CASE i \in 1..n
    <2>1. PICK j \in 1..(i - 1) :
            /\ s[j] = <<s[i][1], 0>>
            /\ \A k \in (j + 1)..(i - 1) : s[k][1] # s[i][1]
      BY <1>1, <1>2 DEF CoherentSkips
    <2>a. j \in 1..n /\ \A k \in (j + 1)..(i - 1) : k \in 1..n
      BY <1>1, <1>2
    <2>2. joined[i] = s[i] /\ joined[j] = s[j]
          /\ \A k \in (j + 1)..(i - 1) : joined[k] = s[k]
      BY <1>1, <1>2, <2>a
    <2> QED BY <2>1, <2>2
  <1>3. CASE i \notin 1..n
    <2> DEFINE m == i - n
    <2>1. m \in 1..Len(t) /\ i = n + m
      BY <1>1, <1>3
    <2>2. joined[i] = t[m]
      BY <1>1, <2>1
    <2> HIDE DEF m
    <2>3. PICK j \in 1..(m - 1) :
            /\ t[j] = <<t[m][1], 0>>
            /\ \A k \in (j + 1)..(m - 1) : t[k][1] # t[m][1]
      BY <2>1, <2>2 DEF CoherentSkips
    <2>4. n + j \in 1..(i - 1) /\ joined[n + j] = t[j]
      <3>1. j \in 1..Len(t) /\ n + j \in 1..(i - 1)
        BY <1>1, <2>1
      <3> QED BY <1>1, <3>1
    <2>5. ASSUME NEW k \in (n + j + 1)..(i - 1) PROVE joined[k][1] # joined[i][1]
      <3>1. k - n \in (j + 1)..(m - 1) /\ k - n \in 1..Len(t) /\ k = n + (k - n)
        BY <1>1, <2>1
      <3>2. joined[k] = t[k - n]
        BY <1>1, <3>1
      <3> QED BY <2>2, <2>3, <3>1, <3>2
    <2> QED BY <2>2, <2>3, <2>4, <2>5
  <1> QED BY <1>2, <1>3

(* The steps, sorted by what they do to the staged directives. *)
LEMMA SkipCases ==
  ASSUME TypeOK, [Next]_vars
  PROVE  \/ UNCHANGED control
         \/ control' = NewControl
         \/ control' \in ControlContext /\ control'.skips = control.skips
         \/ \E h \in Hash, flags \in {0, 1} :
              /\ flags = 1 => SkipActive(control.skips, h)
              /\ control'.skips = Append(control.skips, <<h, flags>>)
  <1>0. UNCHANGED vars => UNCHANGED control
    BY DEF vars
  <1>a. control \in ControlContext
    BY DEF TypeOK, ContextType
  <1>1. CASE StateCall
    <2>1. PICK k \in Key \cup {BadKey}, v \in Value \cup {Missing} :
            \/ StateSet(k, v)
            \/ \E acc \in Account, ns \in Namespace : StateForeignSet(acc, ns, k, v)
      BY <1>1 DEF StateCall
    <2>2. \A acc, ns, n, w : Modify(acc, ns, n, w) => UNCHANGED control
      BY DEF Modify
    <2> QED BY <1>0, <2>1, <2>2
        DEF StateSet, StateForeignSet, ForeignWrite, DenyForeignWrite, Write, Refuse
  <1>2. CASE EmitCall
    BY <1>0, <1>2 DEF EmitCall, EtxnReserve, LedgerNonce, EtxnNonce, EtxnDetails, Emit, Refuse
  <1>3. CASE ControlCall
    <2>1. CASE HookAgain
      <3>1. control.again => UNCHANGED control
        BY <1>0, <2>1 DEF HookAgain, Refuse
      <3>2. ~control.again => control' = [control EXCEPT !.again = TRUE]
        BY <2>1 DEF HookAgain, Stage
      <3>3. [control EXCEPT !.again = TRUE].skips = control.skips
        BY <1>a DEF ControlContext
      <3> QED BY <1>a, <3>1, <3>2, <3>3 DEF ControlContext
    <2>2. ASSUME NEW h \in HookHash, NEW flags \in 0..2, HookSkip(h, flags)
          PROVE  \/ UNCHANGED control
                 \/ /\ h \in Hash /\ flags \in {0, 1}
                    /\ flags = 1 => SkipActive(control.skips, h)
                    /\ control'.skips = Append(control.skips, <<h, flags>>)
      <3>1. CASE UNCHANGED vars
        BY <1>0, <3>1
      <3>2. CASE /\ h \in Hash
                 /\ flags = 0 \/ (flags = 1 /\ SkipActive(control.skips, h))
                 /\ Stage([control EXCEPT !.skips = Append(@, <<h, flags>>)])
        <4>1. control' = [control EXCEPT !.skips = Append(control.skips, <<h, flags>>)]
          BY <3>2 DEF Stage
        <4>2. control'.skips = Append(control.skips, <<h, flags>>)
          BY <4>1, <1>a DEF ControlContext
        <4> QED BY <3>2, <4>2
      <3> QED BY <2>2, <3>1, <3>2 DEF HookSkip, Refuse
    <2>3. ASSUME NEW h \in HookHash, NEW n \in ParamName, NEW v \in ParamValue \cup {NoParam},
                 HookParamSet(h, n, v)
          PROVE  UNCHANGED control \/ control'.skips = control.skips
      BY <1>0, <2>3, <1>a DEF HookParamSet, Refuse, Stage, ControlContext
    <2>4. CASE Trace
      BY <2>4 DEF Trace
    <2>5. TypeOK'
      BY <1>3, ControlCallType
    <2> QED BY <1>3, <2>1, <2>2, <2>3, <2>4, <2>5 DEF ControlCall, TypeOK, ContextType
  <1>4. CASE BeginStep
    BY <1>4 DEF BeginStep, Invoke, InvokeCbak, Begin, NewContext
  <1>5. CASE EndStep
    BY <1>5 DEF EndStep, Rollback, Return, HookPanics, ReentrantInvoke, Discard, Accept,
                StrictViolation, End, NewContext
  <1>6. ASSUME NEW g \in GuardId, GuardHit(g) PROVE UNCHANGED control \/ control' = NewControl
    BY <1>6 DEF GuardHit, Discard, End, NewContext
  <1>7. ASSUME NEW h \in HookHash, Reposition(h) PROVE UNCHANGED control
    BY <1>7 DEF Reposition
  <1> QED BY <1>0, <1>1, <1>2, <1>3, <1>4, <1>5, <1>6, <1>7 DEF Next

LEMMA SkipInvStep ==
  ASSUME WorldInv, SkipInv, [Next]_vars
  PROVE  SkipInv'
  <1>0. skip_directives \in Seq(Directive) /\ control.skips \in Seq(Directive)
    BY DEF WorldInv, TypeOK, WorldType, ContextType, ControlContext, Directive
  <1>1. CoherentSkips(control'.skips)
    <2>1. CASE control' = NewControl
      BY <2>1, EmptySeq DEF NewControl, CoherentSkips
    <2>2. ASSUME NEW h \in Hash, NEW flags \in {0, 1},
                 flags = 1 => SkipActive(control.skips, h),
                 control'.skips = Append(control.skips, <<h, flags>>)
          PROVE  CoherentSkips(control'.skips)
      BY <1>0, <2>2, CoherentAppend DEF SkipInv
    <2> QED BY <2>1, <2>2, SkipCases DEF SkipInv, WorldInv
  <1>2. CoherentSkips(skip_directives')
    <2>1. CASE ModifyStep \/ QuietStep \/ BeginningStep \/ StrictViolation \/ RepositionStep
      BY <2>1 DEF SkipInv, ModifyStep, Modify, QuietStep, BeginningStep, Begin, StrictViolation,
                  RepositionStep, Reposition, commitVars
    <2>2. CASE DiscardStep
      BY <2>2, RestoreIsState DEF DiscardStep, commitVars, SkipInv
    <2>3. CASE Accept
      BY <2>3, <1>0, CoherentConcat DEF Accept, SkipInv
    <2> QED BY <2>1, <2>2, <2>3, StepCases
  <1> QED BY <1>1, <1>2 DEF SkipInv

(* Every delete in the accumulated skip log undoes the latest directive of  *)
(* its hash, an add that hook_skip saw in its own invocation's staging.     *)
THEOREM SkipLogsAreCoherent == Spec => []SkipLogCoherent
  <1>1. Init => SkipInv
    BY EmptySeq DEF Init, NewControl, SkipInv, CoherentSkips
  <1>2. WorldInv /\ SkipInv /\ [Next]_vars => SkipInv'
    BY SkipInvStep
  <1>3. SkipInv => SkipLogCoherent
    BY DEF SkipInv, CoherentSkips, SkipLogCoherent
  <1> QED BY <1>1, <1>2, <1>3, WorldInvInductive, PTL DEF Spec

-----------------------------------------------------------------------------
(* Counting in sequences. *)
LEMMA OccurrencesType ==
  ASSUME NEW S, NEW s \in Seq(S), NEW x
  PROVE  /\ IsFiniteSet({i \in 1..Len(s) : s[i] = x})
         /\ Occurrences(s, x) \in Nat
  <1>1. IsFiniteSet(1..Len(s))
    BY LenProperties, FS_Interval
  <1>2. {i \in 1..Len(s) : s[i] = x} \in SUBSET (1..Len(s))
    OBVIOUS
  <1>3. IsFiniteSet({i \in 1..Len(s) : s[i] = x})
    BY <1>1, <1>2, FS_Subset
  <1> QED BY <1>3, FS_CardinalityType DEF Occurrences

LEMMA OccurrencesConcat ==
  ASSUME NEW S, NEW s \in Seq(S), NEW t \in Seq(S), NEW x
  PROVE  Occurrences(s \o t, x) = Occurrences(s, x) + Occurrences(t, x)
  <1> DEFINE joined == s \o t
             n == Len(s)
             inS == {i \in 1..n : s[i] = x}
             inT == {i \in 1..Len(t) : t[i] = x}
             later == {i \in (n + 1)..(n + Len(t)) : t[i - n] = x}
             shift == [i \in inT |-> n + i]
  <1>1. /\ n \in Nat /\ Len(t) \in Nat /\ Len(joined) = n + Len(t)
        /\ \A i \in 1..n : joined[i] = s[i]
        /\ \A i \in (n + 1)..(n + Len(t)) : joined[i] = t[i - n]
    <2>1. /\ Len(joined) = n + Len(t) /\ n \in Nat /\ Len(t) \in Nat
          /\ \A i \in 1..(n + Len(t)) : joined[i] = IF i <= n THEN s[i] ELSE t[i - n]
      BY ConcatProperties, LenProperties
    <2> QED BY <2>1
  <1>2. {i \in 1..Len(joined) : joined[i] = x} = inS \cup later
    <2> HIDE DEF joined
    <2>1. 1..Len(joined) = (1..n) \cup ((n + 1)..(n + Len(t)))
      BY <1>1
    <2> QED BY <1>1, <2>1
  <1>3. inS \cap later = {}
    BY <1>1
  <1>4. IsFiniteSet(inS) /\ IsFiniteSet(inT)
    BY OccurrencesType
  <1>5. shift \in Bijection(inT, later)
    <2>1. shift \in [inT -> later]
      <3>1. ASSUME NEW i \in inT PROVE n + i \in later
        <4>1. i \in 1..Len(t) /\ t[i] = x
          OBVIOUS
        <4>2. n + i \in (n + 1)..(n + Len(t)) /\ (n + i) - n = i
          BY <1>1, <4>1
        <4> QED BY <4>1, <4>2
      <3> QED BY <3>1
    <2>2. \A i, j \in inT : shift[i] = shift[j] => i = j
      BY <1>1
    <2>3. ASSUME NEW k \in later PROVE \E i \in inT : shift[i] = k
      <3>1. k - n \in inT /\ n + (k - n) = k
        BY <1>1
      <3> QED BY <3>1
    <2> QED BY <2>1, <2>2, <2>3 DEF Bijection, Injection, Surjection, IsInjective
  <1>6. IsFiniteSet(later) /\ Cardinality(later) = Cardinality(inT)
    BY <1>4, <1>5, FS_Bijection DEF ExistsBijection
  <1>7. Cardinality(inS \cup later)
          = Cardinality(inS) + Cardinality(later) - Cardinality(inS \cap later)
    BY <1>4, <1>6, FS_Union
  <1>8. Cardinality(inS) \in Nat /\ Cardinality(inT) \in Nat /\ Cardinality({}) = 0
    BY <1>4, FS_CardinalityType, FS_EmptySet
  <1>9. Cardinality(inS \cup later) = Cardinality(inS) + Cardinality(inT)
    <2>1. Cardinality(inS \cap later) = 0
      BY <1>3, <1>8
    <2> QED BY <1>6, <1>7, <1>8, <2>1
  <1> QED BY <1>2, <1>9 DEF Occurrences

LEMMA OccurrencesAppend ==
  ASSUME NEW S, NEW s \in Seq(S), NEW y \in S, NEW x
  PROVE  Occurrences(Append(s, y), x) = Occurrences(s, x) + (IF y = x THEN 1 ELSE 0)
  <1>1. Append(s, y) = s \o <<y>> /\ <<y>> \in Seq(S)
    BY AppendIsConcat
  <1>2. Occurrences(<<y>>, x) = IF y = x THEN 1 ELSE 0
    <2> DEFINE hits == {i \in 1..Len(<<y>>) : <<y>>[i] = x}
    <2>1. hits = IF y = x THEN {1} ELSE {}
      OBVIOUS
    <2>2. Cardinality({1}) = 1 /\ Cardinality({}) = 0
      BY FS_Singleton, FS_EmptySet
    <2> QED BY <2>1, <2>2 DEF Occurrences
  <1>3. Occurrences(s \o <<y>>, x) = Occurrences(s, x) + Occurrences(<<y>>, x)
    BY <1>1, OccurrencesConcat
  <1> QED BY <1>1, <1>2, <1>3

(* An emission is matched by the Ok attempt of its blob: pending ones by    *)
(* attempts of the running invocation, committed ones by those on record.   *)
OkAttempt(e) == [blob |-> e, outcome |-> "Ok"]
AttemptInv ==
  \A e \in Emission :
    /\ Occurrences(etxn.pending, e) <= Occurrences(etxn.attempts, OkAttempt(e))
    /\ Occurrences(committed_emissions, e) <= Occurrences(emit_attempts, OkAttempt(e))

LEMMA AttemptInvStep ==
  ASSUME WorldInv, AttemptInv, [Next]_vars
  PROVE  AttemptInv'
  <1>a. etxn \in EtxnContext
    BY DEF WorldInv, TypeOK, ContextType
  <1>b. /\ committed_emissions \in Seq(Emission) /\ emit_attempts \in Seq(Attempt)
        /\ etxn.pending \in Seq(Emission) /\ etxn.attempts \in Seq(Attempt)
    BY <1>a DEF WorldInv, TypeOK, WorldType, EtxnContext
  <1>c. ASSUME NEW e \in Emission
        PROVE  /\ Occurrences(etxn.pending, e) \in Nat
               /\ Occurrences(etxn.attempts, OkAttempt(e)) \in Nat
               /\ Occurrences(committed_emissions, e) \in Nat
               /\ Occurrences(emit_attempts, OkAttempt(e)) \in Nat
    BY <1>b, OccurrencesType
  <1>1. ASSUME NEW e \in Emission
        PROVE  Occurrences(etxn'.pending, e) <= Occurrences(etxn'.attempts, OkAttempt(e))
    <2>1. CASE UNCHANGED etxn
      BY <2>1 DEF AttemptInv
    <2>2. CASE etxn' = NewEtxn
      <3>1. \A x : Occurrences(<<>>, x) = 0
        <4>1. \A x : {i \in 1..Len(<<>>) : <<>>[i] = x} = {}
          BY EmptySeq
        <4> QED BY <4>1, FS_EmptySet DEF Occurrences
      <3> QED BY <2>2, <3>1 DEF NewEtxn
    <2>3. CASE etxn'.pending = etxn.pending /\ etxn'.attempts = etxn.attempts
      BY <2>3 DEF AttemptInv
    <2>4. ASSUME NEW b \in Blobs, NEW ok \in BOOLEAN, Emit(b, ok)
          PROVE  Occurrences(etxn'.pending, e) <= Occurrences(etxn'.attempts, OkAttempt(e))
      <3> DEFINE attempt == [blob |-> b, outcome |-> EmitResult(b, ok)]
      <3>1. b \in Blob
        BY <1>a DEF Blobs, Blob, EtxnContext
      <3>2. attempt \in Attempt
        BY <3>1 DEF Attempt, EmitResult
      <3>3. Occurrences(Append(etxn.attempts, attempt), OkAttempt(e))
              = Occurrences(etxn.attempts, OkAttempt(e))
                + (IF attempt = OkAttempt(e) THEN 1 ELSE 0)
        BY <1>b, <3>2, OccurrencesAppend
      <3>4. CASE etxn' = [etxn EXCEPT !.attempts = Append(@, attempt)]
        <4>1. etxn'.pending = etxn.pending /\ etxn'.attempts = Append(etxn.attempts, attempt)
          BY <1>a, <3>4 DEF EtxnContext
        <4> HIDE DEF attempt
        <4> QED BY <1>c, <3>3, <4>1 DEF AttemptInv
      <3>5. CASE /\ EmitResult(b, ok) = "Ok"
                 /\ etxn' = [etxn EXCEPT !.emit_count = @ + 1,
                                         !.attempts = Append(@, attempt),
                                         !.pending = Append(@, b)]
        <4>1. /\ etxn'.pending = Append(etxn.pending, b)
              /\ etxn'.attempts = Append(etxn.attempts, attempt)
          BY <1>a, <3>5 DEF EtxnContext
        <4>2. b \in Emission
          BY <3>1, <3>5, <1>a DEF EmitResult, ValidBlob, Blob, Emission, EtxnContext
        <4>3. Occurrences(Append(etxn.pending, b), e)
                = Occurrences(etxn.pending, e) + (IF b = e THEN 1 ELSE 0)
          BY <1>b, <4>2, OccurrencesAppend
        <4>4. b = e => attempt = OkAttempt(e)
          BY <3>5 DEF OkAttempt
        <4> HIDE DEF attempt
        <4> QED BY <1>c, <3>3, <4>1, <4>3, <4>4 DEF AttemptInv
      <3> QED BY <2>4, <3>4, <3>5 DEF Emit
    <2>5. ASSUME NEW n \in 1..MaxReserve, etxn' = [etxn EXCEPT !.reserve = n]
          PROVE  etxn'.pending = etxn.pending /\ etxn'.attempts = etxn.attempts
      BY <1>a, <2>5 DEF EtxnContext
    <2>6. ASSUME etxn' = [etxn EXCEPT !.details = NewDetails, !.shown = @ \cup {NewDetails}]
          PROVE  etxn'.pending = etxn.pending /\ etxn'.attempts = etxn.attempts
      BY <1>a, <2>6 DEF EtxnContext
    <2> QED BY <2>1, <2>2, <2>3, <2>4, <2>5, <2>6, EtxnCases
  <1>2. ASSUME NEW e \in Emission
        PROVE  Occurrences(committed_emissions', e) <= Occurrences(emit_attempts', OkAttempt(e))
    <2>0. Occurrences(emit_attempts \o etxn.attempts, OkAttempt(e))
            = Occurrences(emit_attempts, OkAttempt(e)) + Occurrences(etxn.attempts, OkAttempt(e))
      BY <1>b, OccurrencesConcat
    <2>1. CASE ModifyStep \/ QuietStep \/ BeginningStep \/ RepositionStep
      <3>1. UNCHANGED <<committed_emissions, emit_attempts>>
        BY <2>1 DEF ModifyStep, Modify, QuietStep, BeginningStep, Begin, RepositionStep,
                    Reposition, journalVars, commitVars
      <3> QED BY <3>1 DEF AttemptInv
    <2>2. CASE DiscardStep \/ StrictViolation
      <3>1. UNCHANGED committed_emissions
        BY <2>2, RestoreIsState DEF DiscardStep, StrictViolation, commitVars
      <3>2. emit_attempts' = emit_attempts \o etxn.attempts
        BY <2>2 DEF DiscardStep, StrictViolation, End, RecordAttempts
      <3> QED BY <1>c, <2>0, <3>1, <3>2 DEF AttemptInv
    <2>3. CASE Accept
      <3>1. /\ committed_emissions' = committed_emissions \o etxn.pending
            /\ emit_attempts' = emit_attempts \o etxn.attempts
        BY <2>3 DEF Accept, End, RecordAttempts
      <3>2. Occurrences(committed_emissions \o etxn.pending, e)
              = Occurrences(committed_emissions, e) + Occurrences(etxn.pending, e)
        BY <1>b, OccurrencesConcat
      <3> QED BY <1>c, <2>0, <3>1, <3>2 DEF AttemptInv
    <2> QED BY <2>1, <2>2, <2>3, StepCases
  <1> QED BY <1>1, <1>2 DEF AttemptInv

(* No emission is committed more often than it was emitted with success:   *)
(* the attempts of every invocation, discarded ones included, stay on       *)
(* record.                                                                  *)
THEOREM EmissionsAreAttempted == Spec => []EmissionsWereAttempted
  <1>1. Init => AttemptInv
    <2> SUFFICES ASSUME Init PROVE AttemptInv
      OBVIOUS
    <2>1. \A x : {i \in 1..Len(<<>>) : <<>>[i] = x} = {}
      BY EmptySeq
    <2>2. \A x : Occurrences(<<>>, x) = 0
      BY <2>1, FS_EmptySet DEF Occurrences
    <2> QED BY <2>2 DEF Init, NewEtxn, AttemptInv
  <1>2. WorldInv /\ AttemptInv /\ [Next]_vars => AttemptInv'
    BY AttemptInvStep
  <1>3. WorldInv /\ AttemptInv => EmissionsWereAttempted
    <2> SUFFICES ASSUME WorldInv, AttemptInv, NEW i \in 1..Len(committed_emissions)
                 PROVE  Occurrences(committed_emissions, committed_emissions[i])
                          <= Occurrences(emit_attempts,
                               [blob |-> committed_emissions[i], outcome |-> "Ok"])
      BY DEF EmissionsWereAttempted
    <2>1. committed_emissions[i] \in Emission
      BY ElementOfSeq DEF WorldInv, TypeOK, WorldType
    <2> QED BY <2>1 DEF AttemptInv, OkAttempt
  <1> QED BY <1>1, <1>2, <1>3, WorldInvInductive, PTL DEF Spec

-----------------------------------------------------------------------------
(* What a hook was shown in this invocation descends from the transaction   *)
(* that originated it, which is the seeded one or an emission of the same   *)
(* hook; what it has emitted carries details it was shown.                  *)
OriginKnown ==
  \/ otxn = SeedOtxn
  \/ \E i \in OwnCallbacks, failed \in BOOLEAN :
       otxn = CallbackOtxn(committed_emissions[i], failed)
ShownDescend ==
  \A d \in etxn.shown :
    Descends(d, otxn.id, otxn.burden, otxn.generation) /\ d.hook_hash = hook_hash
EmittedShown ==
  /\ etxn.details \in etxn.shown \cup {NoDetails}
  /\ \A i \in 1..Len(etxn.pending) : etxn.pending[i].details \in etxn.shown
LineageInv ==
  /\ CallbackLineage
  /\ running => OriginKnown
  /\ ~running => etxn = NewEtxn
  /\ ShownDescend
  /\ EmittedShown

(* Details are issued for a reserve that is set, one generation deeper.     *)
LEMMA NewDetailsDescend ==
  ASSUME TypeOK, Reserved
  PROVE  /\ Descends(NewDetails, otxn.id, otxn.burden, otxn.generation)
         /\ NewDetails.hook_hash = hook_hash
  <1>1. etxn.reserve \in 1..MaxReserve
    BY Limits DEF TypeOK, ContextType, EtxnContext
  <1>2. /\ NewDetails.parent = otxn.id /\ NewDetails.generation = otxn.generation + 1
        /\ NewDetails.burden = otxn.burden * etxn.reserve /\ NewDetails.hook_hash = hook_hash
    BY DEF NewDetails, EtxnGeneration, EtxnBurden
  <1> QED BY <1>1, <1>2 DEF Descends

LEMMA FreshEtxn ==
  ASSUME etxn' = NewEtxn
  PROVE  ShownDescend' /\ EmittedShown'
  BY EmptySeq DEF NewEtxn, ShownDescend, EmittedShown

(* The parts about the running invocation, when a call leaves the frame     *)
(* alone.                                                                   *)
LEMMA CallLineage ==
  ASSUME TypeOK, ShownDescend, EmittedShown, [Next]_vars, UNCHANGED <<otxn, hook_hash>>
  PROVE  ShownDescend' /\ EmittedShown'
  <1>0. etxn \in EtxnContext /\ Len(etxn.pending) \in Nat
    BY LenProperties DEF TypeOK, ContextType, EtxnContext
  <1>1. CASE UNCHANGED etxn
    BY <1>1 DEF ShownDescend, EmittedShown, Descends
  <1>2. CASE etxn' = NewEtxn
    BY <1>2, FreshEtxn
  <1>3. ASSUME NEW n \in 1..MaxReserve, etxn' = [etxn EXCEPT !.reserve = n]
        PROVE  ShownDescend' /\ EmittedShown'
    <2>1. /\ etxn'.shown = etxn.shown /\ etxn'.details = etxn.details
          /\ etxn'.pending = etxn.pending
      BY <1>0, <1>3 DEF EtxnContext
    <2> QED BY <2>1 DEF ShownDescend, EmittedShown, Descends
  <1>4. CASE /\ Reserved
             /\ etxn' = [etxn EXCEPT !.details = NewDetails, !.shown = @ \cup {NewDetails}]
    <2>1. /\ etxn'.shown = etxn.shown \cup {NewDetails} /\ etxn'.details = NewDetails
          /\ etxn'.pending = etxn.pending
      BY <1>0, <1>4 DEF EtxnContext
    <2>2. ShownDescend'
      BY <1>4, <2>1, NewDetailsDescend DEF ShownDescend, Descends
    <2>3. EmittedShown'
      BY <2>1 DEF EmittedShown
    <2> QED BY <2>2, <2>3
  <1>5. ASSUME NEW b \in Blobs, NEW ok \in BOOLEAN, Emit(b, ok)
        PROVE  ShownDescend' /\ EmittedShown'
    <2>1. etxn'.shown = etxn.shown /\ etxn'.details = etxn.details
      BY <1>0, <1>5 DEF Emit, EtxnContext
    <2>2. \/ etxn'.pending = etxn.pending
          \/ EmitResult(b, ok) = "Ok" /\ etxn'.pending = Append(etxn.pending, b)
      BY <1>0, <1>5 DEF Emit, EtxnContext
    <2>3. CASE EmitResult(b, ok) = "Ok" /\ etxn'.pending = Append(etxn.pending, b)
      <3>1. b.details = etxn.details /\ etxn.details # NoDetails
        BY <2>3 DEF EmitResult, ValidBlob
      <3>2. b.details \in etxn.shown
        BY <3>1 DEF EmittedShown
      <3>3. b \in Emission
        BY <3>1, <1>0 DEF Blobs, Emission, EtxnContext
      <3>4. etxn.pending \in Seq(Emission)
        BY <1>0 DEF EtxnContext
      <3>5. /\ Len(Append(etxn.pending, b)) = Len(etxn.pending) + 1
            /\ Append(etxn.pending, b)[Len(etxn.pending) + 1] = b
            /\ \A i \in 1..Len(etxn.pending) : Append(etxn.pending, b)[i] = etxn.pending[i]
        BY <3>3, <3>4, AppendProperties
      <3>6. \A i \in 1..Len(etxn'.pending) : etxn'.pending[i].details \in etxn.shown
        BY <1>0, <2>3, <3>2, <3>5 DEF EmittedShown
      <3> QED BY <2>1, <3>6 DEF ShownDescend, EmittedShown, Descends
    <2>4. CASE etxn'.pending = etxn.pending
      BY <2>1, <2>4 DEF ShownDescend, EmittedShown, Descends
    <2> QED BY <2>2, <2>3, <2>4
  <1> QED BY <1>1, <1>2, <1>3, <1>4, <1>5, EtxnCases

(* What an accepted invocation commits descends as the lineage asks: from   *)
(* the seeded transaction or from an emission committed before it.          *)
LEMMA AcceptLineage ==
  ASSUME TypeOK, CallbackLineage, OriginKnown, ShownDescend, EmittedShown,
         committed_emissions' = committed_emissions \o etxn.pending
  PROVE  CallbackLineage'
  <1> DEFINE old == committed_emissions
             new == committed_emissions'
             n == Len(old)
  <1>0. old \in Seq(Emission) /\ etxn.pending \in Seq(Emission)
    BY DEF TypeOK, WorldType, ContextType, EtxnContext
  <1>1. /\ n \in Nat /\ Len(etxn.pending) \in Nat
        /\ Len(new) = n + Len(etxn.pending)
        /\ \A i \in 1..n : new[i] = old[i]
        /\ \A i \in (n + 1)..(n + Len(etxn.pending)) : new[i] = etxn.pending[i - n]
    <2>1. /\ Len(new) = n + Len(etxn.pending) /\ n \in Nat /\ Len(etxn.pending) \in Nat
          /\ \A i \in 1..(n + Len(etxn.pending)) :
               new[i] = IF i <= n THEN old[i] ELSE etxn.pending[i - n]
      BY <1>0, ConcatProperties, LenProperties
    <2> QED BY <2>1
  <1> SUFFICES ASSUME NEW i \in 1..Len(new)
               PROVE  LET d == new[i].details
                      IN \/ Descends(d, SeedOtxn.id, SeedOtxn.burden, SeedOtxn.generation)
                         \/ \E j \in 1..(i - 1), failed \in BOOLEAN :
                              LET p == new[j]
                              IN /\ Descends(d, EmissionId(p, failed), p.details.burden,
                                             p.details.generation)
                                 /\ p.details.callback
                                 /\ p.details.hook_hash = d.hook_hash
    BY DEF CallbackLineage, Descends, EmissionId
  <1> HIDE DEF new
  <1>2. CASE i \in 1..n
    <2>1. new[i] = old[i] /\ \A j \in 1..(i - 1) : new[j] = old[j]
      BY <1>1, <1>2
    <2> QED BY <1>2, <2>1 DEF CallbackLineage
  <1>3. CASE i \notin 1..n
    <2> DEFINE d == etxn.pending[i - n].details
    <2>1. i - n \in 1..Len(etxn.pending) /\ new[i] = etxn.pending[i - n]
      BY <1>1, <1>3
    <2>2. d \in etxn.shown
      BY <2>1 DEF EmittedShown
    <2>3. Descends(d, otxn.id, otxn.burden, otxn.generation) /\ d.hook_hash = hook_hash
      BY <2>2 DEF ShownDescend
    <2>4. CASE otxn = SeedOtxn
      BY <2>1, <2>3, <2>4
    <2>5. ASSUME NEW j \in OwnCallbacks, NEW failed \in BOOLEAN,
                 otxn = CallbackOtxn(old[j], failed)
          PROVE  /\ j \in 1..(i - 1)
                 /\ Descends(d, EmissionId(new[j], failed), new[j].details.burden,
                             new[j].details.generation)
                 /\ new[j].details.callback
                 /\ new[j].details.hook_hash = d.hook_hash
      <3>1. j \in 1..n /\ old[j].details.callback /\ old[j].details.hook_hash = hook_hash
        BY DEF OwnCallbacks
      <3>2. j \in 1..(i - 1) /\ new[j] = old[j]
        BY <1>1, <1>3, <3>1
      <3>3. /\ otxn.id = EmissionId(old[j], failed)
            /\ otxn.burden = old[j].details.burden
            /\ otxn.generation = old[j].details.generation
        BY <2>5 DEF CallbackOtxn
      <3> QED BY <2>3, <3>1, <3>2, <3>3
    <2> HIDE DEF d
    <2>6. new[i].details = d
      BY <2>1 DEF d
    <2> QED BY <2>4, <2>5, <2>6 DEF OriginKnown
  <1> QED BY <1>2, <1>3

(* Nothing committed, nothing to show anew.                                 *)
LEMMA LineageUnchanged ==
  ASSUME CallbackLineage, UNCHANGED committed_emissions
  PROVE  CallbackLineage'
  <1> DEFINE Known(list, i) ==
        LET d == list[i].details
        IN \/ Descends(d, SeedOtxn.id, SeedOtxn.burden, SeedOtxn.generation)
           \/ \E j \in 1..(i - 1), failed \in BOOLEAN :
                LET p == list[j]
                IN /\ Descends(d, EmissionId(p, failed), p.details.burden,
                               p.details.generation)
                   /\ p.details.callback
                   /\ p.details.hook_hash = d.hook_hash
  <1>1. \A i \in 1..Len(committed_emissions) : Known(committed_emissions, i)
    BY Zenon DEF CallbackLineage
  <1>2. CallbackLineage' <=> \A i \in 1..Len(committed_emissions') : Known(committed_emissions', i)
    BY Zenon DEF CallbackLineage
  <1> HIDE DEF Known
  <1>3. \A i \in 1..Len(committed_emissions') : Known(committed_emissions', i)
    BY <1>1
  <1> QED BY <1>2, <1>3

LEMMA LineageStep ==
  ASSUME WorldInv, OtxnInv, LineageInv, [Next]_vars
  PROVE  LineageInv'
  <1>0. TypeOK
    BY DEF WorldInv
  <1>1. CASE ModifyStep \/ QuietStep
    <2>1. UNCHANGED <<committed_emissions, otxn, hook_hash, status>>
      BY <1>1 DEF ModifyStep, Modify, QuietStep, commitVars, frameVars
    <2>2. CallbackLineage' /\ (running' => OriginKnown')
      BY <2>1, LineageUnchanged DEF LineageInv, OriginKnown, OwnCallbacks
    <2>3. ShownDescend' /\ EmittedShown'
      BY <1>0, <2>1, CallLineage DEF LineageInv
    <2>4. ~running' => etxn' = NewEtxn
      <3> SUFFICES ASSUME ~running' PROVE etxn' = NewEtxn
        OBVIOUS
      <3>1. ~running /\ etxn = NewEtxn
        BY <2>1 DEF LineageInv
      <3>2. \A b, ok : ~Emit(b, ok)
        BY <3>1 DEF Emit, Calls
      <3> QED BY <3>1, <3>2, EtxnCases
    <2> QED BY <2>2, <2>3, <2>4 DEF LineageInv
  <1>2. CASE BeginningStep
    <2>1. PICK e \in Entry, t \in Originating : ~running /\ Begin(e, t)
      BY <1>2 DEF BeginningStep
    <2>2. /\ otxn = SeedOtxn /\ otxn' = t /\ running' /\ etxn' = NewEtxn
          /\ UNCHANGED <<committed_emissions, hook_hash>>
      BY <2>1 DEF Begin, NewContext, commitVars, OtxnInv
    <2>3. OriginKnown'
      BY <2>2 DEF Originating, OwnCallbacks, OriginKnown, CallbackOtxn, EmissionId
    <2>4. CallbackLineage'
      BY <2>2, LineageUnchanged DEF LineageInv
    <2> QED BY <2>2, <2>3, <2>4, FreshEtxn DEF LineageInv
  <1>3. ASSUME NEW kind \in {"accept", "rollback", "return", "panic"}, End(kind),
               CallbackLineage'
        PROVE  LineageInv'
    <2>1. ~running' /\ etxn' = NewEtxn
      BY <1>3 DEF End, NewContext
    <2> QED BY <1>3, <2>1, FreshEtxn DEF LineageInv
  <1>4. UNCHANGED committed_emissions => CallbackLineage'
    BY LineageUnchanged DEF LineageInv
  <1>5. CASE DiscardStep
    BY <1>3, <1>4, <1>5, RestoreIsState DEF DiscardStep, commitVars
  <1>6. CASE StrictViolation
    BY <1>3, <1>4, <1>6 DEF StrictViolation, commitVars
  <1>7. CASE Accept
    <2>1. running /\ committed_emissions' = committed_emissions \o etxn.pending /\ End("accept")
      BY <1>7 DEF Accept, End
    <2>2. CallbackLineage'
      BY <1>0, <2>1, AcceptLineage DEF LineageInv
    <2> QED BY <1>3, <2>1, <2>2
  <1>8. CASE RepositionStep
    <2>1. ~running /\ UNCHANGED <<committed_emissions, status, etxn>>
      BY <1>8 DEF RepositionStep, Reposition, commitVars
    <2> QED BY <1>4, <2>1, FreshEtxn DEF LineageInv
  <1> QED BY <1>1, <1>2, <1>5, <1>6, <1>7, <1>8, StepCases

(* Every committed emission descends, one generation deeper and with a      *)
(* burden multiplied by a legal reserve, from the seeded transaction or     *)
(* from an earlier emission of the same hook that asked for a callback.     *)
THEOREM LineageIsCallback == Spec => []CallbackLineage
  <1>1. Init => OtxnInv /\ LineageInv
    BY EmptySeq DEF Init, OtxnInv, OtxnRestored, LineageInv, CallbackLineage, NewEtxn,
                    ShownDescend, EmittedShown
  <1>2. WorldInv /\ OtxnInv /\ LineageInv /\ [Next]_vars => OtxnInv' /\ LineageInv'
    BY OtxnInvStep, LineageStep
  <1>3. LineageInv => CallbackLineage
    BY DEF LineageInv
  <1> QED BY <1>1, <1>2, <1>3, WorldInvInductive, PTL DEF Spec

-----------------------------------------------------------------------------
(***************************************************************************)
(* TestEnv implements AtomicInvocations as long as assert_can_emit does    *)
(* not panic on the accept arm: every other step is a step or a stutter of *)
(* the abstract specification.                                             *)
(***************************************************************************)
USE DEF running, Reserved
(* The staged overrides are never more than were counted. *)
Staged == {k \in OverrideKey : control.params[k] # NoParam}
StagingCounted == Cardinality(Staged) <= control.param_count

LEMMA OverrideKeyFinite == IsFiniteSet(OverrideKey)
  BY FiniteAssumption, FS_Product DEF OverrideKey

LEMMA StagedFinite == IsFiniteSet(Staged) /\ Cardinality(Staged) \in Nat
  BY OverrideKeyFinite, FS_Subset, FS_CardinalityType DEF Staged

(* The steps, sorted by what they do to the staged overrides. *)
SameParams == control'.params = control.params /\ control'.param_count = control.param_count
ParamStep ==
  \E h \in Hash, n \in ParamName, v \in ParamValue :
    control' = [control EXCEPT !.params[<<h, n>>] = v, !.param_count = @ + 1]

LEMMA ControlCases ==
  ASSUME TypeOK, [Next]_vars
  PROVE  SameParams \/ control' = NewControl \/ ParamStep
  <1>0. UNCHANGED control => SameParams
    BY DEF SameParams
  <1>1. UNCHANGED vars => UNCHANGED control
    BY DEF vars
  <1>2. control \in ControlContext
    BY DEF TypeOK, ContextType
  <1>3. CASE StateCall
    <2>1. PICK k \in Key \cup {BadKey}, v \in Value \cup {Missing} :
            \/ StateSet(k, v)
            \/ \E acc \in Account, ns \in Namespace : StateForeignSet(acc, ns, k, v)
      BY <1>3 DEF StateCall
    <2>2. \A acc, ns, n, w : Modify(acc, ns, n, w) => UNCHANGED control
      BY DEF Modify
    <2> QED BY <1>0, <1>1, <2>1, <2>2
        DEF StateSet, StateForeignSet, ForeignWrite, DenyForeignWrite, Write, Refuse
  <1>4. CASE EmitCall
    BY <1>0, <1>1, <1>4
    DEF EmitCall, EtxnReserve, LedgerNonce, EtxnNonce, EtxnDetails, Emit, Refuse
  <1>5. CASE ControlCall
    <2>1. HookAgain => SameParams
      BY <1>0, <1>1, <1>2 DEF HookAgain, Stage, Refuse, SameParams, ControlContext
    <2>2. \A h, flags : HookSkip(h, flags) => SameParams
      BY <1>0, <1>1, <1>2 DEF HookSkip, Stage, Refuse, SameParams, ControlContext
    <2>3. \A h \in HookHash, n \in ParamName, v \in ParamValue \cup {NoParam} :
            HookParamSet(h, n, v) => SameParams \/ ParamStep
      BY <1>0, <1>1 DEF HookParamSet, Stage, Refuse, ParamStep
    <2>4. Trace => SameParams
      BY <1>0 DEF Trace
    <2> QED BY <1>5, <2>1, <2>2, <2>3, <2>4 DEF ControlCall
  <1>6. CASE BeginStep
    BY <1>6 DEF BeginStep, Invoke, InvokeCbak, Begin, NewContext
  <1>7. CASE EndStep
    BY <1>7 DEF EndStep, Rollback, Return, HookPanics, ReentrantInvoke, Discard, Accept,
                StrictViolation, End, NewContext
  <1>8. ASSUME NEW g \in GuardId, GuardHit(g) PROVE SameParams \/ control' = NewControl
    BY <1>0, <1>8 DEF GuardHit, Discard, End, NewContext
  <1>9. ASSUME NEW h \in HookHash, Reposition(h) PROVE SameParams
    BY <1>0, <1>9 DEF Reposition
  <1> QED BY <1>0, <1>1, <1>3, <1>4, <1>5, <1>6, <1>7, <1>8, <1>9 DEF Next

LEMMA StagingStep ==
  ASSUME TypeOK, StagingCounted, [Next]_vars
  PROVE  StagingCounted'
  <1> USE DEF StagingCounted
  <1>1. CASE SameParams
    BY <1>1 DEF SameParams, Staged
  <1>2. CASE control' = NewControl
    <2>1. Staged' = {} /\ control'.param_count = 0
      BY <1>2 DEF Staged, NewControl
    <2> QED BY <2>1, FS_EmptySet
  <1>3. CASE ParamStep
    <2>1. PICK h \in Hash, n \in ParamName, v \in ParamValue :
            control' = [control EXCEPT !.params[<<h, n>>] = v, !.param_count = @ + 1]
      BY <1>3 DEF ParamStep
    <2>2. control \in ControlContext /\ <<h, n>> \in OverrideKey
      BY DEF TypeOK, ContextType, OverrideKey
    <2>3. /\ control'.params = [control.params EXCEPT ![<<h, n>>] = v]
          /\ control'.param_count = control.param_count + 1
          /\ control.param_count \in Nat
      BY <2>1, <2>2, Limits DEF ControlContext
    <2>4. Staged' \subseteq Staged \cup {<<h, n>>}
      BY <2>2, <2>3 DEF Staged, ControlContext
    <2>5. /\ IsFiniteSet(Staged \cup {<<h, n>>})
          /\ \/ Cardinality(Staged \cup {<<h, n>>}) = Cardinality(Staged)
             \/ Cardinality(Staged \cup {<<h, n>>}) = Cardinality(Staged) + 1
      BY StagedFinite, FS_AddElement
    <2>6. IsFiniteSet(Staged')
          /\ Cardinality(Staged') <= Cardinality(Staged \cup {<<h, n>>})
      BY <2>4, <2>5, FS_Subset
    <2>7. Cardinality(Staged') \in Nat /\ Cardinality(Staged) \in Nat
      BY <2>6, StagedFinite, FS_CardinalityType
    <2> QED BY <2>3, <2>5, <2>6, <2>7
  <1> QED BY <1>1, <1>2, <1>3, ControlCases

-----------------------------------------------------------------------------
(* The invariant the refinement rests on. *)
RefinementInv ==
  WorldInv /\ ForeignIntact /\ WriteBudget /\ ReserveHonoured /\ StagingCounted

LEMMA RefinementInvariant == Spec => []RefinementInv
  <1>1. Init => ForeignIntact /\ StagingCounted
    <2> SUFFICES ASSUME Init PROVE ForeignIntact /\ StagingCounted
      OBVIOUS
    <2>1. Staged = {} /\ control.param_count = 0
      BY DEF Init, NewControl, Staged
    <2> QED BY <2>1, FS_EmptySet DEF Init, ForeignIntact, StagingCounted
  <1>2. WorldInv /\ ForeignIntact /\ [Next]_vars => ForeignIntact'
    BY ForeignIntactStep
  <1>3. WorldInv /\ StagingCounted /\ [Next]_vars => StagingCounted'
    BY StagingStep DEF WorldInv
  <1>4. WorldInv /\ ForeignIntact /\ WriteBudget /\ ReserveHonoured /\ StagingCounted
          => RefinementInv
    BY DEF RefinementInv
  <1> QED BY <1>1, <1>2, <1>3, <1>4, WorldInvInductive, WritesAreBudgeted,
             ReservesAreHonoured, PTL DEF Spec

(* The library operators, seen through the instance. *)
LEMMA InstanceCardinality == ASSUME NEW S PROVE Atomic!Cardinality(S) = Cardinality(S)
  BY DEF Atomic!Cardinality, Cardinality

LEMMA InstanceIsPrefix == ASSUME NEW s, NEW t PROVE Atomic!IsPrefix(s, t) <=> IsPrefix(s, t)
  BY DEF Atomic!IsPrefix, IsPrefix

LEMMA AcceptCommits ==
  ASSUME RefinementInv, Accept
  PROVE  Atomic!Commit
  <1> USE DEF RefinementInv
  <1>1. /\ running /\ status' = "accept" /\ UNCHANGED <<state, hook_hash>>
        /\ committed_emissions' = committed_emissions \o etxn.pending
        /\ hook_again_requested' = control.again
        /\ skip_directives' = skip_directives \o control.skips
        /\ hook_param_overrides' = Merge(control.params, hook_param_overrides)
    BY DEF Accept, End
  <1>2. /\ committed_emissions \in Seq(Emission) /\ etxn.pending \in Seq(Emission)
        /\ skip_directives \in Seq(Hash \X {0, 1}) /\ control.skips \in Seq(Hash \X {0, 1})
        /\ control.again \in BOOLEAN /\ hook_hash \in HookHash
    BY DEF WorldInv, TypeOK, WorldType, FrameType, ContextType, EtxnContext, ControlContext
  <1>3. Atomic!ChangedStore = Changed
    BY <1>1 DEF Atomic!ChangedStore, Changed
  <1>4. Changed \subseteq Writable(hook_hash)
    BY <1>1 DEF ForeignIntact, Changed
  <1>5. Cardinality(Changed) <= MaxStateModifications
    <2>1. Cardinality(Changed) \in Nat
      BY AddressFinite, FS_Subset, FS_CardinalityType DEF Changed
    <2>2. state_mod_count \in Nat
      BY Limits DEF WorldInv, TypeOK, ContextType
    <2> QED BY <2>1, <2>2, Limits DEF WriteBudget
  <1>6. IsPrefix(committed_emissions, committed_emissions')
        /\ Len(committed_emissions') <= Len(committed_emissions) + MaxReserve
    <2>1. IsPrefix(committed_emissions, committed_emissions')
      BY <1>1, <1>2, PrefixOfConcat
    <2>2. Len(committed_emissions') = Len(committed_emissions) + Len(etxn.pending)
      BY <1>1, <1>2, ConcatProperties
    <2>3. Len(etxn.pending) <= MaxReserve
      <3>1. etxn.reserve <= MaxReserve /\ etxn.reserve \in Nat /\ etxn.emit_count \in Nat
        BY Limits DEF WorldInv, TypeOK, ContextType, EtxnContext
      <3> QED BY <3>1, Limits DEF ReserveHonoured
    <2> QED BY <1>2, <2>1, <2>2, <2>3, LenProperties, Limits
  <1>7. Cardinality(Atomic!ChangedParams) <= MaxParamOverrides
    <2>1. Atomic!ChangedParams \subseteq Staged
      BY <1>1 DEF Atomic!ChangedParams, Staged, Merge
    <2>2. Cardinality(Atomic!ChangedParams) <= Cardinality(Staged)
          /\ Cardinality(Atomic!ChangedParams) \in Nat
      BY <2>1, StagedFinite, FS_Subset, FS_CardinalityType
    <2>3. control.param_count \in 0..MaxParamOverrides
      BY DEF WorldInv, TypeOK, ContextType, ControlContext
    <2> QED BY <2>2, <2>3, StagedFinite, Limits DEF StagingCounted
  <1>8. IsPrefix(skip_directives, skip_directives')
    BY <1>1, <1>2, PrefixOfConcat
  <1>9. hook_again_requested' \in BOOLEAN
    BY <1>1, <1>2
  <1>10. Atomic!ChangedStore \subseteq [h \in HookHash |-> Writable(h)][hook_hash]
    BY <1>2, <1>3, <1>4
  <1>11. Cardinality(Atomic!ChangedStore) <= MaxStateModifications
    BY <1>3, <1>5
  <1>12. status = "running" /\ status' = "accept" /\ hook_hash' = hook_hash
    BY <1>1
  <1> QED BY <1>6, <1>7, <1>8, <1>9, <1>10, <1>11, <1>12, InstanceCardinality,
             InstanceIsPrefix DEF Atomic!Commit

LEMMA RefinementStep ==
  ASSUME RefinementInv, [Next]_vars, ~StrictViolation
  PROVE  [Atomic!Next]_Atomic!vars
  <1> USE DEF RefinementInv
  <1>1. CASE ModifyStep
    BY <1>1 DEF ModifyStep, Modify, commitVars, frameVars, Atomic!vars
  <1>2. CASE QuietStep
    BY <1>2 DEF QuietStep, commitVars, frameVars, Atomic!vars
  <1>3. CASE BeginningStep
    <2>1. Atomic!Start
      BY <1>3 DEF BeginningStep, Begin, commitVars, Atomic!Start
    <2> QED BY <2>1 DEF Atomic!Next
  <1>4. CASE DiscardStep
    <2>1. state' = snapshot.state /\ UNCHANGED commitVars
      BY <1>4, RestoreIsState DEF DiscardStep
    <2>2. Atomic!Discard
      BY <1>4, <2>1 DEF DiscardStep, End, commitVars, Atomic!Discard
    <2> QED BY <2>2 DEF Atomic!Next
  <1>5. CASE Accept
    BY <1>5, AcceptCommits DEF Atomic!Next
  <1>6. CASE RepositionStep
    <2>1. Atomic!Reposition
      BY <1>6 DEF RepositionStep, Reposition, stateVars, commitVars, Atomic!Reposition
    <2> QED BY <2>1 DEF Atomic!Next
  <1> QED BY <1>1, <1>2, <1>3, <1>4, <1>5, <1>6, StepCases

(* Invocations are atomic: a test that looks between them sees whole       *)
(* accepted invocations and nothing of the others, unless assert_can_emit  *)
(* panicked in between.                                                    *)
THEOREM InvocationsAreAtomic == Spec /\ [][~StrictViolation]_vars => Atomicity
  <1>1. Init => Atomic!Init
    BY DEF Init, Atomic!Init
  <1>2. RefinementInv /\ [Next]_vars /\ [~StrictViolation]_vars
          => [Atomic!Next]_Atomic!vars
    <2>1. ASSUME UNCHANGED vars PROVE UNCHANGED Atomic!vars
      BY <2>1 DEF vars, stateVars, commitVars, frameVars, Atomic!vars
    <2> QED BY <2>1, RefinementStep
  <1> QED BY <1>1, <1>2, RefinementInvariant, PTL DEF Spec, Atomicity, Atomic!Spec
=============================================================================
