------------------------------ MODULE EmitHost ------------------------------
(***************************************************************************)
(* What the two producers of emitted transactions, StoWriter and a compiled *)
(* template, share: the fields that every emission needs, the host calls    *)
(* that fill them, and what the host then asks of them.                     *)
(***************************************************************************)
EXTENDS Integers, Sequences, FiniteSets

CONSTANTS
  sfSequence, sfSigningPubKey,                    \* checked for presence
  sfFirstLedgerSequence, sfLastLedgerSequence,    \* patched
  sfFee, sfAccount,
  sfTransactionType

CONSTANTS
  MaxDepth,       \* STO_WRITER_MAX_DEPTH
  DetailsMaxLen,  \* EMIT_DETAILS_MAX_LEN
  DetailsLen,     \* what etxn_details returns in this invocation
  HookAccount, LedgerSeq, BaseFee, FeePerByte,
  MaxWalkDepth,   \* STO_MAX_RECURSION_DEPTH
  MaxNonces       \* etxn_details calls of one invocation

Presence == {sfSequence, sfSigningPubKey}
Patched == {sfFirstLedgerSequence, sfLastLedgerSequence, sfFee, sfAccount}
Plumbing == Presence \cup Patched

ASSUME HostAssumption ==
  /\ Cardinality(Plumbing) = 6
  /\ {MaxDepth, DetailsMaxLen, DetailsLen, LedgerSeq, BaseFee, FeePerByte,
      MaxWalkDepth, MaxNonces} \subseteq Nat
  /\ HookAccount \in Int /\ MaxDepth > 0 /\ 0 < DetailsLen /\ DetailsLen <= DetailsMaxLen

VARIABLE nonces    \* etxn_details calls so far; the latest one's nonce

FeeBase(len) == BaseFee + FeePerByte * len

(* fails says which host call of a prepare_for_emit returns an error:       *)
(* "account" for hook_account, "details" for etxn_details, "fee" for        *)
(* etxn_fee_base, or "none".                                                *)
Failures == {"account", "details", "fee", "none"}

(* etxn_details is answered, and spends a nonce.                            *)
Answers(fails) == fails \in {"fee", "none"} /\ nonces < MaxNonces

(* What prepare_for_emit writes: Sequence and SigningPubKey it leaves.      *)
Patch(f, fee) ==
  CASE f = sfFirstLedgerSequence -> LedgerSeq + 1
    [] f = sfLastLedgerSequence -> LedgerSeq + 5
    [] f = sfAccount -> HookAccount
    [] f = sfFee -> fee

(* Any details of this invocation would do.                                 *)
DetailsIssued(details) == details \cap 1..nonces # {}

(* last_etxn_details: only the latest will do.                              *)
DetailsAccepted(details) == nonces \in details

(* validate_emit_blob on the fields of a blob of len bytes that parses:     *)
(* values[f] is what the top-level fields f hold, details the nonces of its *)
(* EmitDetails.                                                             *)
FieldsAccepted(values, details, len) ==
  /\ values[sfTransactionType] # {}
  /\ HookAccount \in values[sfAccount]
  /\ 0 \in values[sfSequence] /\ 0 \in values[sfSigningPubKey]
  /\ DetailsAccepted(details)
  /\ \E l \in values[sfLastLedgerSequence] :
       /\ LedgerSeq + 1 <= l /\ l <= LedgerSeq + 5
       /\ \E f \in values[sfFirstLedgerSequence] : f <= l
  /\ \E v \in values[sfFee] : v >= FeeBase(len)
=============================================================================
