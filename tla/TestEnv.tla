------------------------------ MODULE TestEnv ------------------------------
(***************************************************************************)
(* rshooks-testenv: the off-chain host a hook runs against.  A World       *)
(* persists across invocations; each TestEnv::invoke / invoke_cbak takes a *)
(* snapshot of it, installs a Backend over a fresh InvocationContext, runs *)
(* the hook body, and maps the way the body ended to a commit or to a      *)
(* restore.  State writes are applied LIVE to the World; emissions, skip   *)
(* directives, parameter overrides and hook_again are staged in the        *)
(* context and merged into the World only on accept!.                      *)
(*                                                                         *)
(* The hook body is arbitrary: it may make any host call in HookCalls, in  *)
(* any order, and stop in any way at any time.                             *)
(***************************************************************************)
EXTENDS Integers, Sequences, FiniteSets, SequencesExt

CONSTANTS
  Account, Namespace, Key, Value, Hash,
  HookAccount,    \* the account the hook is installed on
  OwnNamespace,   \* the hook's own namespace
  Oversized,      \* the values longer than max_state_value_len
  Missing,        \* no entry; as data, the empty string that deletes one
  BadKey,         \* a key of 0 or of more than 32 bytes
  NoHash,         \* hook_pos has no seeded hash (read as the zero hash)
  SeedStates,     \* the state maps the builders may have seeded
  Grants,         \* (account, namespace) -> the grants seeded for it
  Wildcard,       \* the half of a grant that any hook or account matches
  Entry,          \* entries of the chain under test
  HasCbak,        \* entry -> whether it declares a #[cbak] body
  CanEmit,        \* entry -> its can_emit list; all types if it declares none
  StrictCanEmit,  \* TestEnv::strict_can_emit
  TxType,
  SeedOtxn,       \* the seeded originating transaction
  NoDetails,      \* etxn_details has not been called
  BaseFee,        \* base_fee_drops
  ParamName, ParamValue, NoParam,
  GuardId, MaxIter,           \* guard ids and their maxiter argument
  HookCalls                   \* entry -> the host functions its body calls

CONSTANTS            \* the host's limits
  MaxReserve,             \* MAX_RESERVE
  MaxStateModifications,  \* MAX_STATE_MODIFICATIONS
  MaxNonces,              \* MAX_NONCES
  MaxNamespaces,          \* MAX_NAMESPACES
  MaxParamOverrides,      \* MAX_PARAM_OVERRIDES
  MaxU64, MaxI64, MaxU32  \* widths of a burden, of a fee, of a generation

CONSTANTS            \* bounds of the exploration, not of the program
  MaxInvocations,         \* invocations of one TestEnv (below 2^64)
  MaxAttempts,            \* emit calls of one TestEnv
  MaxSkips,               \* hook_skip calls of one invocation
  MaxTraces               \* trace calls of one TestEnv

Address == Account \X Namespace \X Key
Matcher == [hash : Hash \cup {Wildcard}, account : Account \cup {Wildcard}]
HookHash == Hash \cup {NoHash}
OverrideKey == Hash \X ParamName

ASSUME WorldAssumption ==
  /\ HookAccount \in Account /\ OwnNamespace \in Namespace
  /\ Oversized \subseteq Value
  /\ Missing \notin Value /\ BadKey \notin Key
  /\ NoHash \notin Hash /\ Wildcard \notin Hash \cup Account
  /\ SeedStates \subseteq [Address -> Value \cup {Missing}]
  /\ Grants \in [Account \X Namespace -> SUBSET Matcher]

ASSUME HookAssumption ==
  /\ HasCbak \in [Entry -> BOOLEAN]
  /\ CanEmit \in [Entry -> SUBSET TxType]
  /\ StrictCanEmit \in BOOLEAN
  /\ NoParam \notin ParamValue
  /\ MaxIter \in [GuardId -> Nat]

ASSUME LimitAssumption ==
  /\ {MaxReserve, MaxStateModifications, MaxNonces, MaxNamespaces,
      MaxParamOverrides, MaxU64, MaxI64, MaxU32} \subseteq Nat
  /\ {MaxInvocations, MaxAttempts, MaxSkips, MaxTraces, BaseFee} \subseteq Nat

(***************************************************************************)
(* The finite sets the exploration bounds; a world of the program is       *)
(* finite because memory is.                                               *)
(***************************************************************************)
ASSUME FiniteAssumption ==
  /\ IsFiniteSet(Account) /\ IsFiniteSet(Namespace) /\ IsFiniteSet(Key)
  /\ IsFiniteSet(Hash) /\ IsFiniteSet(ParamName)

VARIABLES            \* World
  state,                  \* Address -> value, or Missing
  committed_emissions,    \* what accepted invocations emitted
  emit_attempts,          \* every emit call of every invocation
  hook_param_overrides,   \* (hash, name) -> value, or NoParam
  hook_again_requested,
  skip_directives,
  traces,                 \* how many trace lines were captured
  invocation_counter,
  otxn,                   \* originating transaction: id, burden, generation
  hook_hash               \* the hash seeded at the current hook_pos

VARIABLES            \* run_entry / invoke_cbak: their locals and the registry
  invocation,             \* invocation_id, has_callback, the entry's can_emit
  snapshot,               \* World::snapshot
  original,               \* the otxn OtxnRestoreGuard puts back
  status                  \* "running" while a Backend is installed; else how the
                          \* latest invocation ended

VARIABLES            \* InvocationContext
  state_mod_count,
  retry_blocked,
  etxn,                   \* reserve, emit_count, details, pending, attempts
  nonces,                 \* call_counter and the two nonce budgets
  control,                \* hook_again, hook_skip, hook_param_set staging
  guard_counts

VARIABLE handed           \* every nonce hooks were given (history variable)

stateVars   == <<state, state_mod_count, retry_blocked>>
journalVars == <<emit_attempts, traces>>
commitVars  == <<committed_emissions, hook_param_overrides,
                 hook_again_requested, skip_directives>>
frameVars   == <<invocation_counter, otxn, hook_hash, invocation, snapshot,
                 original, status>>
nonceVars   == <<nonces, handed>>
contextVars == <<state_mod_count, retry_blocked, etxn, nonces, control, guard_counts>>
vars == <<stateVars, journalVars, commitVars, frameVars, nonceVars, etxn,
          control, guard_counts>>

-----------------------------------------------------------------------------
(***************************************************************************)
(* Types.  A nonce is the pair hash_counters digests; a transaction id is  *)
(* the hash of its bytes, which the nonce and the type tell apart; failed  *)
(* marks the ttEMIT_FAILURE pseudo-transaction that stands for it.         *)
(***************************************************************************)
Nonce == Nat \X Nat
EmissionId(e, failed) == [nonce |-> e.details.nonce, type |-> e.type, failed |-> failed]
TxnId == {SeedOtxn.id} \cup [nonce : Nonce, type : TxType, failed : BOOLEAN]
Otxn == [id : TxnId, burden : Nat, generation : Nat]

EmitDetails == [generation : Nat, burden : Nat, parent : TxnId, nonce : Nonce,
                hook_hash : HookHash, callback : BOOLEAN]
Emission == [type : TxType, details : EmitDetails]
Blob == [type : TxType, details : EmitDetails \cup {NoDetails}]
Attempt == [blob : Blob, outcome : {"Ok", "NoReserve", "ReserveExceeded", "InvalidBlob"}]
Status == {"none", "running", "accept", "rollback", "return", "panic"}

ASSUME OtxnAssumption ==
  /\ SeedOtxn \in [id : {SeedOtxn.id}, burden : 0..MaxI64, generation : 0..MaxU32]
  /\ NoDetails \notin EmitDetails

-----------------------------------------------------------------------------
(* Outside an invocation its locals have one normal form. *)
NoInvocation == [id |-> 0, callback |-> FALSE, allowed |-> TxType, calls |-> {}]

(* InvocationContext::new *)
NewEtxn == [reserve |-> 0, emit_count |-> 0, details |-> NoDetails, shown |-> {},
            pending |-> <<>>, attempts |-> <<>>]
NewNonces == [call_counter |-> 0, ledger |-> 0, emit |-> 0]
NewControl == [again |-> FALSE, skips |-> <<>>,
               params |-> [k \in OverrideKey |-> NoParam], param_count |-> 0]

NewContext ==
  /\ state_mod_count' = 0
  /\ retry_blocked' = FALSE
  /\ etxn' = NewEtxn
  /\ nonces' = NewNonces
  /\ control' = NewControl
  /\ guard_counts' = [g \in GuardId |-> 0]

Init ==
  /\ state \in SeedStates
  /\ committed_emissions = <<>>
  /\ emit_attempts = <<>>
  /\ hook_param_overrides = [k \in OverrideKey |-> NoParam]
  /\ hook_again_requested = FALSE
  /\ skip_directives = <<>>
  /\ traces = 0
  /\ invocation_counter = 0
  /\ otxn = SeedOtxn
  /\ hook_hash \in HookHash
  /\ invocation = NoInvocation
  /\ snapshot = [state |-> state, emitted |-> 0]
  /\ original = SeedOtxn
  /\ status = "none"
  /\ state_mod_count = 0
  /\ retry_blocked = FALSE
  /\ etxn = NewEtxn
  /\ nonces = NewNonces
  /\ control = NewControl
  /\ guard_counts = [g \in GuardId |-> 0]
  /\ handed = <<>>

-----------------------------------------------------------------------------
running == status = "running"

(* A host call: the hook body is running, and calls this function. *)
Calls(f) == running /\ f \in invocation.calls

(* A call the host refuses with this error code, and with no effect. *)
Refuse(code) == UNCHANGED vars

(***************************************************************************)
(* Hook state: Backend::state_set, Backend::state_foreign_set.             *)
(***************************************************************************)
MatchesEither(g) ==  \* mutant
  g.hash \in {hook_hash, Wildcard} \/ g.account \in {HookAccount, Wildcard}

Matches(g) == g.hash \in {hook_hash, Wildcard} /\ g.account \in {HookAccount, Wildcard}

Authorized(acc, ns) == \E g \in Grants[<<acc, ns>>] : Matches(g)

LiveNamespaces(st, acc) == {ns \in Namespace : \E k \in Key : st[<<acc, ns, k>>] # Missing}

WithinNamespaceBudgetOffByOne(acc, ns) ==  \* mutant
  \/ ns \in LiveNamespaces(state, acc)
  \/ Cardinality(LiveNamespaces(state, acc)) <= MaxNamespaces

WithinNamespaceBudget(acc, ns) ==
  \/ ns \in LiveNamespaces(state, acc)
  \/ Cardinality(LiveNamespaces(state, acc)) < MaxNamespaces

(* The first check of a write to fail, in the order of the code. *)
WriteResult(acc, ns, v) ==
  IF v \in Oversized THEN "TOO_BIG"
  ELSE IF state_mod_count >= MaxStateModifications THEN "TOO_MANY_STATE_MODIFICATIONS"
  ELSE IF ~WithinNamespaceBudget(acc, ns) THEN "TOO_MANY_NAMESPACES"
  ELSE "OK"

ModifyFreeDelete(acc, ns, k, v) ==  \* mutant
  /\ WriteResult(acc, ns, v) = "OK"
  /\ state' = [state EXCEPT ![<<acc, ns, k>>] = v]
  /\ state_mod_count' = IF v = Missing THEN state_mod_count ELSE state_mod_count + 1
  /\ UNCHANGED <<retry_blocked, journalVars, commitVars, frameVars, nonceVars,
                 etxn, control, guard_counts>>

Modify(acc, ns, k, v) ==
  /\ WriteResult(acc, ns, v) = "OK"
  /\ state' = [state EXCEPT ![<<acc, ns, k>>] = v]
  /\ state_mod_count' = state_mod_count + 1
  /\ UNCHANGED <<retry_blocked, journalVars, commitVars, frameVars, nonceVars,
                 etxn, control, guard_counts>>

Write(acc, ns, k, v) ==
  \/ Modify(acc, ns, k, v)
  \/ WriteResult(acc, ns, v) # "OK" /\ Refuse(WriteResult(acc, ns, v))

StateSet(k, v) ==
  /\ Calls("state_set")
  /\ \/ k = BadKey /\ Refuse("BAD_KEY")
     \/ k # BadKey /\ Write(HookAccount, OwnNamespace, k, v)

DenyForeignWrite ==
  /\ retry_blocked' = TRUE
  /\ UNCHANGED <<state, state_mod_count, journalVars, commitVars, frameVars,
                 nonceVars, etxn, control, guard_counts>>

ForeignWriteRetried(acc, ns, k, v) ==  \* mutant
  \/ ~Authorized(acc, ns) /\ DenyForeignWrite
  \/ Authorized(acc, ns) /\ Write(acc, ns, k, v)

ForeignWrite(acc, ns, k, v) ==
  \/ retry_blocked /\ Refuse("PREVIOUS_FAILURE_PREVENTS_RETRY")
  \/ ~retry_blocked /\ ~Authorized(acc, ns) /\ DenyForeignWrite
  \/ ~retry_blocked /\ Authorized(acc, ns) /\ Write(acc, ns, k, v)

(* The hook's own account is not foreign, whatever the namespace. *)
StateForeignSet(acc, ns, k, v) ==
  /\ Calls("state_foreign_set")
  /\ \/ k = BadKey /\ Refuse("BAD_KEY")
     \/ k # BadKey /\ acc = HookAccount /\ Write(acc, ns, k, v)
     \/ k # BadKey /\ acc # HookAccount /\ ForeignWrite(acc, ns, k, v)

-----------------------------------------------------------------------------
(***************************************************************************)
(* Emission: etxn_reserve, etxn_details, the nonces, emit.                 *)
(***************************************************************************)
Reserved == etxn.reserve # 0

EtxnReserve(count) ==
  /\ Calls("etxn_reserve")
  /\ \/ Reserved /\ Refuse("ALREADY_SET")
     \/ ~Reserved /\ count = 0 /\ Refuse("TOO_SMALL")
     \/ ~Reserved /\ count > MaxReserve /\ Refuse("TOO_BIG")
     \/ /\ ~Reserved /\ count \in 1..MaxReserve
        /\ etxn' = [etxn EXCEPT !.reserve = count]
        /\ UNCHANGED <<stateVars, journalVars, commitVars, frameVars, nonceVars,
                       control, guard_counts>>

(* compute_etxn_burden, compute_etxn_generation and etxn_fee_base. *)
EtxnBurden == otxn.burden * etxn.reserve
EtxnGeneration == otxn.generation + 1
EtxnFee == BaseFee * EtxnBurden

BurdenTooLarge == EtxnBurden > MaxU64
FeeTooLarge == BurdenTooLarge \/ EtxnFee > MaxI64

(* draw_nonce, on the budget it is given the name of. *)
NonceAvailable(budget) == nonces[budget] < MaxNonces
NextNonce == <<invocation.id, nonces.call_counter>>
DrawNonce(budget) ==
  /\ nonces' = [nonces EXCEPT ![budget] = @ + 1, !.call_counter = @ + 1]
  /\ handed' = Append(handed, NextNonce)

LedgerNonce ==
  /\ Calls("ledger_nonce")
  /\ \/ ~NonceAvailable("ledger") /\ Refuse("TOO_MANY_NONCES")
     \/ /\ NonceAvailable("ledger")
        /\ DrawNonce("ledger")
        /\ UNCHANGED <<stateVars, journalVars, commitVars, frameVars, etxn,
                       control, guard_counts>>

EtxnNonce ==
  /\ Calls("etxn_nonce")
  /\ \/ ~NonceAvailable("emit") /\ Refuse("TOO_MANY_NONCES")
     \/ /\ NonceAvailable("emit")
        /\ DrawNonce("emit")
        /\ UNCHANGED <<stateVars, journalVars, commitVars, frameVars, etxn,
                       control, guard_counts>>

NewDetails ==
  [generation |-> EtxnGeneration, burden |-> EtxnBurden, parent |-> otxn.id,
   nonce |-> NextNonce, hook_hash |-> hook_hash, callback |-> invocation.callback]

DetailsResult ==
  IF ~Reserved THEN "PREREQUISITE_NOT_MET"
  ELSE IF BurdenTooLarge \/ EtxnGeneration > MaxU32 THEN "FEE_TOO_LARGE"
  ELSE IF ~NonceAvailable("emit") THEN "INTERNAL_ERROR"
  ELSE "OK"

EtxnDetails ==
  /\ Calls("etxn_details")
  /\ \/ DetailsResult # "OK" /\ Refuse(DetailsResult)
     \/ /\ DetailsResult = "OK"
        /\ DrawNonce("emit")
        /\ etxn' = [etxn EXCEPT !.details = NewDetails, !.shown = @ \cup {NewDetails}]
        /\ UNCHANGED <<stateVars, journalVars, commitVars, frameVars, control,
                       guard_counts>>

(***************************************************************************)
(* validate_emit_blob: the blob carries exactly the latest EmitDetails and *)
(* obeys the other rules (account, sequence, signing key, ledger window,   *)
(* fee, required fields), which wellFormed stands for.                     *)
(***************************************************************************)
ValidBlob(blob, wellFormed) ==
  /\ wellFormed
  /\ etxn.details # NoDetails
  /\ blob.details = etxn.details

ReserveSpentOffByOne == etxn.emit_count > etxn.reserve  \* mutant
ReserveSpent == etxn.emit_count >= etxn.reserve

EmitResult(blob, wellFormed) ==
  IF ~Reserved THEN "NoReserve"
  ELSE IF ReserveSpent THEN "ReserveExceeded"
  ELSE IF FeeTooLarge \/ ~ValidBlob(blob, wellFormed) THEN "InvalidBlob"
  ELSE "Ok"

Emit(blob, wellFormed) ==
  /\ Calls("emit")
  /\ Len(emit_attempts) + Len(etxn.attempts) < MaxAttempts
  /\ LET outcome == EmitResult(blob, wellFormed)
         attempt == [blob |-> blob, outcome |-> outcome]
     IN \/ /\ outcome = "Ok"
           /\ etxn' = [etxn EXCEPT !.emit_count = @ + 1,
                                   !.attempts = Append(@, attempt),
                                   !.pending = Append(@, blob)]
        \/ /\ outcome # "Ok"
           /\ etxn' = [etxn EXCEPT !.attempts = Append(@, attempt)]
  /\ UNCHANGED <<stateVars, journalVars, commitVars, frameVars, nonceVars,
                 control, guard_counts>>

-----------------------------------------------------------------------------
(***************************************************************************)
(* Control calls: hook_again, hook_skip, hook_param_set; trace; _g.        *)
(***************************************************************************)
Stage(c) ==
  /\ control' = c
  /\ UNCHANGED <<stateVars, journalVars, commitVars, frameVars, nonceVars, etxn,
                 guard_counts>>

HookAgain ==
  /\ Calls("hook_again")
  /\ \/ control.again /\ Refuse("ALREADY_SET")
     \/ ~control.again /\ Stage([control EXCEPT !.again = TRUE])

SkipEverAdded(dirs, h) == \E i \in 1..Len(dirs) : dirs[i] = <<h, 0>>  \* mutant

(* The last directive that names h is an add. *)
SkipActive(dirs, h) ==
  \E i \in 1..Len(dirs) :
    /\ dirs[i] = <<h, 0>>
    /\ \A j \in (i + 1)..Len(dirs) : dirs[j][1] # h

(* flags = 0 adds, 1 deletes; a hash that is not 32 bytes, or other flags, are refused. *)
HookSkip(h, flags) ==
  /\ Calls("hook_skip")
  /\ Len(control.skips) < MaxSkips
  /\ \/ (flags \notin {0, 1} \/ h \notin Hash) /\ Refuse("INVALID_ARGUMENT")
     \/ /\ flags = 1 /\ h \in Hash /\ ~SkipActive(control.skips, h)
        /\ Refuse("DOESNT_EXIST")
     \/ /\ h \in Hash
        /\ flags = 0 \/ (flags = 1 /\ SkipActive(control.skips, h))
        /\ Stage([control EXCEPT !.skips = Append(@, <<h, flags>>)])

(* NoHash and NoParam stand for a hash, name or value of an illegal length. *)
HookParamSet(h, name, v) ==
  /\ Calls("hook_param_set")
  /\ \/ (h \notin Hash \/ v \notin ParamValue) /\ Refuse("BAD_LENGTH")
     \/ /\ h \in Hash /\ v \in ParamValue
        /\ \/ control.param_count >= MaxParamOverrides /\ Refuse("TOO_MANY_PARAMS")
           \/ /\ control.param_count < MaxParamOverrides
              /\ Stage([control EXCEPT !.params[<<h, name>>] = v,
                                       !.param_count = @ + 1])

(* trace, trace_num: captured at once, never undone. *)
Trace ==
  /\ Calls("trace")
  /\ traces < MaxTraces
  /\ traces' = traces + 1
  /\ UNCHANGED <<stateVars, emit_attempts, commitVars, frameVars, nonceVars, etxn,
                 control, guard_counts>>

-----------------------------------------------------------------------------
(***************************************************************************)
(* The invocation: run_entry, invoke, invoke_cbak.                         *)
(***************************************************************************)
Begin(e, originating) ==
  /\ invocation_counter < MaxInvocations
  /\ invocation_counter' = invocation_counter + 1
  /\ invocation' = [id |-> invocation_counter, callback |-> HasCbak[e],
                    allowed |-> CanEmit[e], calls |-> HookCalls[e]]
  /\ status' = "running"
  /\ snapshot' = [state |-> state, emitted |-> Len(committed_emissions)]
  /\ otxn' = originating
  /\ original' = otxn
  /\ NewContext
  /\ UNCHANGED <<state, journalVars, commitVars, hook_hash, handed>>

Invoke(e) == ~running /\ Begin(e, otxn)

(* The transaction a callback sees: the emission, or the pseudo-transaction *)
(* of its failure, with the emission's own burden and generation.           *)
CallbackOtxn(e, failed) ==
  [id |-> EmissionId(e, failed), burden |-> e.details.burden,
   generation |-> e.details.generation]

InvokeCbakAnyHook(e, emission, failed) ==  \* mutant
  /\ ~running
  /\ HasCbak[e]
  /\ emission.details.callback
  /\ Begin(e, CallbackOtxn(emission, failed))

InvokeCbak(e, emission, failed) ==
  /\ ~running
  /\ HasCbak[e]
  /\ emission.details.callback
  /\ emission.details.hook_hash = hook_hash
  /\ Begin(e, CallbackOtxn(emission, failed))

(* The attempts are on record whatever the outcome. *)
RecordAttemptsIfDiscarded ==  \* mutant
  emit_attempts' = IF status' = "accept" THEN emit_attempts ELSE emit_attempts \o etxn.attempts
RecordAttempts == emit_attempts' = emit_attempts \o etxn.attempts

(* OtxnRestoreGuard::drop, when invoke_cbak returns or unwinds. *)
RestoreOtxnOnReturn == otxn' = IF status' = "panic" THEN otxn ELSE original  \* mutant

RestoreOtxn == otxn' = original

(* Every way out of run_entry uninstalls the backend and drops the context  *)
(* and the snapshot, which are put back to their normal form.               *)
End(kind) ==
  /\ running
  /\ status' = kind
  /\ RecordAttempts
  /\ RestoreOtxn
  /\ invocation' = NoInvocation
  /\ NewContext
  /\ snapshot' = [state |-> state', emitted |-> Len(committed_emissions')]
  /\ UNCHANGED <<original, hook_hash, handed, traces>>

(* World::restore *)
RestoreEmissionsOnly ==  \* mutant
  /\ committed_emissions' = SubSeq(committed_emissions, 1, snapshot.emitted)
  /\ UNCHANGED <<state, hook_param_overrides, hook_again_requested, skip_directives>>

Restore ==
  /\ state' = snapshot.state
  /\ committed_emissions' = SubSeq(committed_emissions, 1, snapshot.emitted)
  /\ UNCHANGED <<hook_param_overrides, hook_again_requested, skip_directives>>

DiscardAndRewind(kind) ==  \* mutant
  /\ Restore
  /\ End(kind)
  /\ invocation_counter' = invocation.id

Discard(kind) ==
  /\ Restore
  /\ End(kind)
  /\ UNCHANGED invocation_counter

Rollback == Discard("rollback")

Return == Discard("return")
HookPanics == Discard("panic")

(* An invoke from inside the hook body takes an invocation id, then panics *)
(* on the installed backend; the panic unwinds the outer invocation too.   *)
ReentrantInvoke ==
  /\ invocation_counter < MaxInvocations
  /\ invocation_counter' = invocation_counter + 1
  /\ Restore
  /\ End("panic")

(* assert_can_emit *)
EmitsAllowed ==
  \A i \in 1..Len(etxn.pending) : etxn.pending[i].type \in invocation.allowed

Merge(staged, into) == [k \in OverrideKey |-> IF staged[k] = NoParam THEN into[k] ELSE staged[k]]

Accept ==
  /\ StrictCanEmit => EmitsAllowed
  /\ UNCHANGED <<state, invocation_counter>>
  /\ committed_emissions' = committed_emissions \o etxn.pending
  /\ hook_again_requested' = control.again
  /\ skip_directives' = skip_directives \o control.skips
  /\ hook_param_overrides' = Merge(control.params, hook_param_overrides)
  /\ End("accept")

(* assert_can_emit panics on the accept arm, which restores nothing. *)
StrictViolation ==
  /\ StrictCanEmit /\ ~EmitsAllowed
  /\ UNCHANGED <<state, commitVars, invocation_counter>>
  /\ End("panic")

(* _g: counts, then ends the invocation like rollback! past maxiter. *)
GuardHitWraps(g) ==  \* mutant
  /\ Calls("_g")
  /\ guard_counts' = [guard_counts EXCEPT ![g] = (@ + 1) % (MaxIter[g] + 1)]
  /\ UNCHANGED <<stateVars, journalVars, commitVars, frameVars, nonceVars,
                 etxn, control>>

GuardHit(g) ==
  /\ Calls("_g")
  /\ \/ /\ guard_counts[g] < MaxIter[g]
        /\ guard_counts' = [guard_counts EXCEPT ![g] = @ + 1]
        /\ UNCHANGED <<stateVars, journalVars, commitVars, frameVars, nonceVars,
                       etxn, control>>
     \/ guard_counts[g] >= MaxIter[g] /\ Discard("rollback")

(* TestEnv::hook_pos / hook_hash, between invocations. *)
Reposition(h) ==
  /\ ~running
  /\ hook_hash' = h
  /\ UNCHANGED <<stateVars, journalVars, commitVars, invocation_counter, otxn,
                 invocation, snapshot, original, status, nonceVars, etxn, control,
                 guard_counts>>

-----------------------------------------------------------------------------
(* The details a hook can present: none, or any it was handed in this invocation. *)
Blobs == {[type |-> t, details |-> d] : t \in TxType, d \in etxn.shown \cup {NoDetails}}

StateCall ==
  \E k \in Key \cup {BadKey}, v \in Value \cup {Missing} :
    \/ StateSet(k, v)
    \/ \E acc \in Account, ns \in Namespace : StateForeignSet(acc, ns, k, v)

EmitCall ==
  \/ \E n \in 0..(MaxReserve + 1) : EtxnReserve(n)
  \/ LedgerNonce
  \/ EtxnNonce
  \/ EtxnDetails
  \/ \E b \in Blobs, ok \in BOOLEAN : Emit(b, ok)

ControlCall ==
  \/ HookAgain
  \/ \E h \in HookHash, flags \in 0..2 : HookSkip(h, flags)
  \/ \E h \in HookHash, n \in ParamName, v \in ParamValue \cup {NoParam} :
       HookParamSet(h, n, v)
  \/ Trace

BeginStep ==
  \/ \E e \in Entry : Invoke(e)
  \/ \E e \in Entry, failed \in BOOLEAN :
       \E i \in 1..Len(committed_emissions) :
         InvokeCbak(e, committed_emissions[i], failed)

EndStep ==
  \/ Accept
  \/ StrictViolation
  \/ Rollback
  \/ Return
  \/ HookPanics
  \/ ReentrantInvoke

Next ==
  \/ StateCall
  \/ EmitCall
  \/ ControlCall
  \/ BeginStep
  \/ EndStep
  \/ \E g \in GuardId : GuardHit(g)
  \/ \E h \in HookHash : Reposition(h)

Spec == Init /\ [][Next]_vars

(* A hook that has not exited keeps reaching a _g call: the build pipeline  *)
(* refuses a loop without one, and nothing preempts the hook's thread.      *)
FairSpec == Spec /\ WF_vars(\E g \in GuardId : GuardHit(g))

-----------------------------------------------------------------------------
(***************************************************************************)
(* Properties.                                                             *)
(***************************************************************************)
HostCall == UNION {HookCalls[e] : e \in Entry}
InvocationInfo ==
  [id : Nat, callback : BOOLEAN, allowed : SUBSET TxType, calls : SUBSET HostCall]
EtxnContext == [reserve : 0..MaxReserve, emit_count : Nat, details : EmitDetails \cup {NoDetails},
                shown : SUBSET EmitDetails, pending : Seq(Emission), attempts : Seq(Attempt)]
NonceContext == [call_counter : Nat, ledger : 0..MaxNonces, emit : 0..MaxNonces]
ControlContext == [again : BOOLEAN, skips : Seq(Hash \X {0, 1}),
                   params : [OverrideKey -> ParamValue \cup {NoParam}],
                   param_count : 0..MaxParamOverrides]

WorldType ==
  /\ state \in [Address -> Value \cup {Missing}]
  /\ committed_emissions \in Seq(Emission)
  /\ emit_attempts \in Seq(Attempt)
  /\ hook_param_overrides \in [OverrideKey -> ParamValue \cup {NoParam}]
  /\ hook_again_requested \in BOOLEAN
  /\ skip_directives \in Seq(Hash \X {0, 1})
  /\ traces \in Nat
FrameType ==
  /\ invocation_counter \in 0..MaxInvocations
  /\ otxn \in Otxn
  /\ hook_hash \in HookHash
  /\ invocation \in InvocationInfo
  /\ snapshot \in [state : [Address -> Value \cup {Missing}], emitted : Nat]
  /\ original \in Otxn
  /\ status \in Status
ContextType ==
  /\ state_mod_count \in 0..MaxStateModifications
  /\ retry_blocked \in BOOLEAN
  /\ etxn \in EtxnContext
  /\ nonces \in NonceContext
  /\ control \in ControlContext
  /\ guard_counts \in [GuardId -> Nat]
  /\ handed \in Seq(Nonce)

(* Type correctness; the budgets of an invocation stay within their limits. *)
TypeOK == WorldType /\ FrameType /\ ContextType

(* An account never has more live namespaces than MAX_NAMESPACES, unless   *)
(* the builders seeded more: check_namespace_budget recounts the live map, *)
(* and deletes, rollbacks and re-creations cannot get round it.            *)
NamespaceBudget ==
  \A acc \in Account :
    LET live == Cardinality(LiveNamespaces(state, acc))
    IN \/ live <= MaxNamespaces
       \/ \E s \in SeedStates : live <= Cardinality(LiveNamespaces(s, acc))

(* An invocation changes at most state_mod_count entries of the world it   *)
(* started from, deletions of absent entries included in the count, and    *)
(* the count never passes MAX_STATE_MODIFICATIONS.                         *)
Changed == {a \in Address : state[a] # snapshot.state[a]}
WriteBudget ==
  /\ Cardinality(Changed) <= state_mod_count
  /\ state_mod_count <= MaxStateModifications

(* The entries a hook of hash h may change. *)
Writable(h) ==
  {a \in Address :
     \/ a[1] = HookAccount
     \/ \E g \in Grants[<<a[1], a[2]>>] :
          g.hash \in {h, Wildcard} /\ g.account \in {HookAccount, Wildcard}}

(* No step changes an entry of another account that no grant opens to the  *)
(* hook at the current position: not a write, not a commit, not a restore. *)
OnlyGranted ==
  [][\A a \in Address \ Writable(hook_hash) : state'[a] = state[a]]_vars

(* Once a foreign write of an invocation was denied, no foreign entry      *)
(* changes before the invocation ends, granted ones included.              *)
DenialIsFinal ==
  [][\A a \in Address :
       a[1] # HookAccount /\ retry_blocked /\ running' => state'[a] = state[a]]_vars

(* No nonce is handed out twice, by either family, in any invocation:      *)
(* rolled back, panicking and reentrant ones use up their id.              *)
NoncesUnique == \A i, j \in 1..Len(handed) : handed[i] = handed[j] => i = j

(* Every committed emission descends, one generation deeper and with a     *)
(* burden multiplied by a legal reserve, from the seeded transaction or    *)
(* from an earlier emission of the same hook that asked for a callback.    *)
Descends(d, id, burden, generation) ==
  /\ d.parent = id
  /\ d.generation = generation + 1
  /\ \E r \in 1..MaxReserve : d.burden = burden * r
CallbackLineage ==
  \A i \in 1..Len(committed_emissions) :
    LET d == committed_emissions[i].details
    IN \/ Descends(d, SeedOtxn.id, SeedOtxn.burden, SeedOtxn.generation)
       \/ \E j \in 1..(i - 1), failed \in BOOLEAN :
            LET p == committed_emissions[j]
            IN /\ Descends(d, EmissionId(p, failed), p.details.burden, p.details.generation)
               /\ p.details.callback
               /\ p.details.hook_hash = d.hook_hash

(* Between invocations the originating transaction is the seeded one, and  *)
(* during one it is that or a committed emission's: a callback's swap      *)
(* outlives neither its return nor a panic.                                *)
OtxnRestored ==
  \/ otxn = SeedOtxn
  \/ /\ running
     /\ \E i \in 1..Len(committed_emissions), failed \in BOOLEAN :
          otxn = CallbackOtxn(committed_emissions[i], failed)

(* Every emission was the outcome of an Ok attempt that is on record, once *)
(* per emission: attempts of discarded invocations are kept beside them.   *)
Occurrences(s, x) == Cardinality({i \in 1..Len(s) : s[i] = x})
EmissionsWereAttempted ==
  \A i \in 1..Len(committed_emissions) :
    LET e == committed_emissions[i]
    IN Occurrences(committed_emissions, e)
         <= Occurrences(emit_attempts, [blob |-> e, outcome |-> "Ok"])

(* The pending emissions of an invocation are exactly its Ok attempts, and *)
(* there are never more of them than it reserved.                          *)
ReserveHonoured ==
  /\ Len(etxn.pending) = etxn.emit_count
  /\ etxn.emit_count <= etxn.reserve

(* The records a test reads only grow, whatever way an invocation ends.    *)
JournalsOnlyGrow ==
  [][/\ IsPrefix(emit_attempts, emit_attempts')
     /\ IsPrefix(committed_emissions, committed_emissions')
     /\ IsPrefix(skip_directives, skip_directives')
     /\ traces <= traces']_vars

(* In the accumulated skip log each delete undoes an add that no other     *)
(* delete has undone: directives of different invocations never mix.       *)
SkipLogCoherent ==
  \A i \in 1..Len(skip_directives) :
    skip_directives[i][2] = 1 =>
      \E j \in 1..(i - 1) :
        /\ skip_directives[j] = <<skip_directives[i][1], 0>>
        /\ \A k \in (j + 1)..(i - 1) : skip_directives[k][1] # skip_directives[i][1]

(* Every invocation of a hook that keeps calling _g ends.                  *)
Terminates == running ~> ~running

(* A failed invocation leaks no world mutation: whatever makes it panic,   *)
(* the hook state is that of the snapshot.                                 *)
PanicLeaksNothing == [][running /\ status' = "panic" => state' = snapshot.state]_vars

(* otxn_burden() converts the burden to the i64 it returns and relies on   *)
(* the builder having checked it.                                          *)
OtxnBurdenFits == otxn.burden <= MaxI64

(* An invocation is atomic: the world a test sees between invocations      *)
(* changes only by one whole accepted invocation at a time.                *)
Atomic == INSTANCE AtomicInvocations WITH
  WritableBy   <- [h \in HookHash |-> Writable(h)],
  store        <- IF running THEN snapshot.state ELSE state,
  emitted      <- committed_emissions,
  overrides    <- hook_param_overrides,
  again        <- hook_again_requested,
  skips        <- skip_directives,
  position     <- hook_hash,
  outcome      <- status

Atomicity == Atomic!Spec
=============================================================================
