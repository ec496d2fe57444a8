----------------------------- MODULE StoWriter -----------------------------
(***************************************************************************)
(* StoWriter: the cursor with which a hook serializes a transaction whose  *)
(* shape is only known at run time, and prepare_for_emit, which completes  *)
(* it for the host's emit.  The bytes are a sequence of tokens, one for    *)
(* each field, container header and terminator, and an offset is the index *)
(* of a token; lengths stay in bytes.                                      *)
(*                                                                         *)
(* The hook writes anything its field types allow, in any order.  What the *)
(* host asks of an emitted transaction is the operator Accepts.            *)
(***************************************************************************)
EXTENDS EmitHost, SequencesExt

CONSTANTS
  PlainField,     \* other fields written by a u16, u32 or account_id call
  AmountField,    \* other fields of an amount
  VlField,        \* the fields the hook writes with vl or vl_fixed
  ObjectField, ArrayField,
  Nested,         \* plumbing fields the hook also writes inside a container
  Length,         \* field -> bytes of its header, prefix and value
  Resumed,        \* what resume may find in the buffer: token sequences
  Capacity        \* the length of buf

Field == Plumbing \cup {sfTransactionType} \cup PlainField \cup AmountField \cup VlField

Token == [kind : {"field"}, code : Field, value : Int]
    \cup [kind : {"object"}, code : ObjectField, value : {0}]
    \cup [kind : {"array"}, code : ArrayField, value : {0}]
    \cup [kind : {"end_object", "end_array", "details"}, code : {"none"}, value : Nat]

ASSUME WriterAssumption ==
  /\ Capacity \in Nat
  /\ Nested \subseteq Plumbing
  /\ Length \in [Field \cup ObjectField \cup ArrayField -> Nat \ {0}]
  /\ Resumed \subseteq Seq(Token)
  /\ "none" \notin Field /\ Field \cap (ObjectField \cup ArrayField) = {}

VARIABLES
  written,    \* the tokens of buf[..pos]
  pos,
  frames,     \* the kinds of the top level and of the open containers
  seen,       \* the Presence fields written
  offset,     \* Patched field -> where its value is, or 0
  finalized,
  ret         \* "ok" or "error": how the latest call ended

writer == <<written, pos, frames, seen, offset, finalized>>
vars == <<writer, nonces, ret>>

-----------------------------------------------------------------------------
(* The host.                                                                *)

(* walk_fields, walk_array_body: what is open after token n, of the         *)
(* containers open before it.  A terminator closes the innermost one.       *)
Walk(blob, before, n) ==
  CASE blob[n].kind \in {"object", "array"} -> Append(before, n)
    [] blob[n].kind \in {"end_object", "end_array"} /\ before # <<>> -> Front(before)
    [] OTHER -> before

(* The containers open before each token, by index, and last those open at  *)
(* the end.                                                                 *)
Open(blob) ==
  LET open[n \in 0..Len(blob)] ==
        IF n = 0 THEN <<<<>>>>
        ELSE LET before == open[n - 1]
             IN  Append(before, Walk(blob, Last(before), n))
  IN  open[Len(blob)]

Scope(open, n) == IF open[n] = <<>> THEN 0 ELSE Last(open[n])

(* What may come next inside the top level, an object, an array.            *)
Follows(blob, n, scope) ==
  IF scope = 0 THEN blob[n].kind \notin {"end_object", "end_array"}
  ELSE IF blob[scope].kind = "object" THEN blob[n].kind # "end_array"
  ELSE blob[n].kind \in {"object", "end_array"}

Walks(blob) ==
  LET open == Open(blob)
  IN  \A n \in 1..Len(blob) :
        Follows(blob, n, Scope(open, n)) /\ Len(open[n + 1]) <= MaxWalkDepth

TopLevel(blob, code) ==
  LET open == Open(blob)
  IN  {n \in 1..Len(blob) : blob[n].code = code /\ Scope(open, n) = 0}

IsData(token) == token.kind \in {"field", "object", "array", "details"}

(* reject_duplicate_fields: the codes found twice in one object; the        *)
(* elements of one array share theirs.                                      *)
Siblings(blob, open, i, j) ==
  /\ IsData(blob[i]) /\ IsData(blob[j])
  /\ Scope(open, i) = Scope(open, j)
  /\ Scope(open, i) # 0 => blob[Scope(open, i)].kind = "object"

Repeated(blob) ==
  LET open == Open(blob)
  IN  {blob[j].code : j \in {k \in 1..Len(blob) :
         \E i \in 1..(k - 1) : Siblings(blob, open, i, k) /\ blob[i].code = blob[k].code}}

(* The values of a required top-level field: none if it is missing.         *)
Values(blob, code) == {blob[n].value : n \in TopLevel(blob, code)}

(* validate_emit_blob, with the latest details the host handed out.         *)
Accepts(blob, len) ==
  /\ Walks(blob) /\ Last(Open(blob)) = <<>>
  /\ Repeated(blob) = {}
  /\ FieldsAccepted([f \in Plumbing \cup {sfTransactionType} |-> Values(blob, f)],
       {blob[n].value : n \in {m \in TopLevel(blob, "none") : blob[m].kind = "details"}}, len)

-----------------------------------------------------------------------------
(* The writer's helpers.                                                    *)

Depth == Len(frames) - 1

(* reserve_capacity.                                                        *)
Fits(n) == ~finalized /\ pos + n <= Capacity

CheckWrite(allow_in_array) == ~finalized /\ (Last(frames) = "array" => allow_in_array)

PlumbingAlreadySet(code) ==
  code \in seen \/ (code \in Patched /\ offset[code] # 0)

Reject == ret' = "error" /\ UNCHANGED writer

Put(token, n) ==
  /\ written' = Append(written, token)
  /\ pos' = pos + n
  /\ ret' = "ok"
  /\ UNCHANGED finalized

FieldToken(f) == [kind |-> "field", code |-> f, value |-> 0]
Marker(kind) == [kind |-> kind, code |-> "none", value |-> 0]

(* u16_field, u32_field, account_id, empty_vl, native_amount.  encodes says *)
(* whether the drops of a native amount fit in 62 bits.                     *)
WriteField(f, encodes) ==
  LET legal == ~PlumbingAlreadySet(f) /\ encodes /\ CheckWrite(FALSE) /\ Fits(Length[f])
  IN  \/ ~legal /\ Reject
      \/ /\ legal
         /\ Put(FieldToken(f), Length[f])
         /\ seen' = IF f \in Presence THEN seen \cup {f} ELSE seen
         /\ offset' = IF f \in Patched
                      THEN [offset EXCEPT ![f] = Len(written) + 1] ELSE offset
         /\ UNCHANGED frames

(* vl and vl_fixed, and iou_amount, whose host call may fail: no plumbing.  *)
WriteOther(f, answered) ==
  LET legal == CheckWrite(FALSE) /\ Fits(Length[f]) /\ answered
  IN  \/ ~legal /\ Reject
      \/ /\ legal
         /\ Put(FieldToken(f), Length[f])
         /\ UNCHANGED <<frames, seen, offset>>

(* An array may open directly inside an array.                              *)
BeginUnchecked(kind, f) ==
  LET legal == CheckWrite(TRUE) /\ Depth + 1 < MaxDepth /\ Fits(Length[f])
  IN  \/ ~legal /\ Reject
      \/ /\ legal
         /\ Put([kind |-> kind, code |-> f, value |-> 0], Length[f])
         /\ frames' = Append(frames, kind)
         /\ UNCHANGED <<seen, offset>>

(* begin_object, begin_array: only an object may open inside an array.      *)
Begin(kind, f) ==
  LET legal == CheckWrite(kind = "object") /\ Depth + 1 < MaxDepth /\ Fits(Length[f])
  IN  \/ ~legal /\ Reject
      \/ /\ legal
         /\ Put([kind |-> kind, code |-> f, value |-> 0], Length[f])
         /\ frames' = Append(frames, kind)
         /\ UNCHANGED <<seen, offset>>

(* end_object, end_array: the top level has no terminator.                  *)
EndContainer(kind) ==
  LET legal == ~finalized /\ Depth # 0 /\ Last(frames) = kind /\ Fits(1)
  IN  \/ ~legal /\ Reject
      \/ /\ legal
         /\ Put(Marker(IF kind = "object" THEN "end_object" ELSE "end_array"), 1)
         /\ frames' = Front(frames)
         /\ UNCHANGED <<seen, offset>>

(* emit_plumbing: the offsets of a resumed prefix.                          *)
EmitPlumbing(offsets) ==
  LET legal == /\ ~finalized
               /\ \A f \in Plumbing : ~PlumbingAlreadySet(f)
               /\ \A f \in Patched : offsets[f] <= Len(written)
  IN  \/ ~legal /\ Reject
      \/ /\ legal
         /\ seen' = Presence /\ offset' = offsets /\ ret' = "ok"
         /\ UNCHANGED <<written, pos, frames, finalized>>

-----------------------------------------------------------------------------
(* prepare_for_emit.                                                        *)

Ready ==
  /\ ~finalized /\ Depth = 0
  /\ seen = Presence /\ \A f \in Patched : offset[f] # 0
  /\ Fits(DetailsMaxLen)

PatchedBlob(fee) ==
  [n \in 1..Len(written) |->
     IF \E f \in Patched : offset[f] = n
     THEN [written[n] EXCEPT !.value =
             Patch(CHOOSE f \in Patched : offset[f] = n, fee)]
     ELSE written[n]]

(* The fee is sized before the details are appended.                        *)
FeeLengthBare == pos

(* total_len: what etxn_fee_base is asked about.                            *)
FeeLength == pos + DetailsLen

Commit ==
  /\ written' = Append(PatchedBlob(FeeBase(FeeLength)),
                       [kind |-> "details", code |-> "none", value |-> nonces + 1])
  /\ pos' = pos + DetailsLen
  /\ UNCHANGED <<frames, seen, offset>>

(* The details are committed before the fee is known.                       *)
PrepareForEmitEarly(fails) ==
  \/ ~(Ready /\ Answers(fails)) /\ Reject /\ UNCHANGED nonces
  \/ /\ Ready /\ Answers(fails)
     /\ Commit /\ nonces' = nonces + 1
     /\ finalized' = (fails = "none")
     /\ ret' = IF fails = "none" THEN "ok" ELSE "error"

(* etxn_details writes past the cursor and spends a nonce before            *)
(* etxn_fee_base may still fail.                                            *)
PrepareForEmit(fails) ==
  \/ ~(Ready /\ Answers(fails)) /\ Reject /\ UNCHANGED nonces
  \/ /\ Ready /\ Answers(fails) /\ fails = "fee"
     /\ Reject /\ nonces' = nonces + 1
  \/ /\ Ready /\ Answers(fails) /\ fails = "none"
     /\ Commit /\ nonces' = nonces + 1
     /\ finalized' = TRUE /\ ret' = "ok"

(* The hook, or another template it prepares, asks for details of its own.  *)
EtxnDetails ==
  /\ nonces < MaxNonces /\ nonces' = nonces + 1
  /\ UNCHANGED <<writer, ret>>

-----------------------------------------------------------------------------
Size(token) ==
  CASE token.kind = "details" -> DetailsLen
    [] token.kind \in {"end_object", "end_array"} -> 1
    [] OTHER -> Length[token.code]

BlobLength(blob) ==
  LET length[n \in 0..Len(blob)] ==
        IF n = 0 THEN 0 ELSE length[n - 1] + Size(blob[n])
  IN  length[Len(blob)]

(* "The caller guarantees buf[..prefix_len] already holds a valid           *)
(* serialized prefix": its containers are closed and no object repeats a    *)
(* field.  Whoever calls emit_plumbing declares that it holds all six, so a *)
(* prefix with the patched four has the other two, as emit wants them.      *)
Codes(blob) == {blob[n].code : n \in 1..Len(blob)}

ASSUME ResumedAssumption ==
  \A p \in Resumed :
    /\ Walks(p) /\ Last(Open(p)) = <<>> /\ Repeated(p) = {}
    /\ Patched \subseteq Codes(p) => Presence \subseteq Codes(p)
    /\ \A n \in 1..Len(p) :
         /\ p[n].code \in Plumbing \ Nested => Scope(Open(p), n) = 0
         /\ p[n].code \in Presence => p[n].value = 0

(* STO_WRITER_MAX_DEPTH and STO_MAX_RECURSION_DEPTH are both 10, and the    *)
(* writer's counts the top level.                                           *)
ASSUME DepthAssumption == MaxDepth - 1 <= MaxWalkDepth

(* new is resume with an empty prefix; every token has a byte at least.     *)
Init ==
  /\ written \in Resumed
  /\ pos \in Len(written)..Capacity /\ pos = BlobLength(written)
  /\ frames = <<"object">>
  /\ seen = {} /\ offset = [f \in Patched |-> 0]
  /\ finalized = FALSE
  /\ nonces = 0 /\ ret = "ok"

(* Where a prefix keeps its plumbing; a prefix without it names none, and a *)
(* wrong length names a place behind the cursor.                            *)
OffsetsOf ==
  [p \in Resumed |->
     [f \in Patched |-> IF \E n \in 1..Len(p) : p[n].code = f
                      THEN CHOOSE n \in 1..Len(p) : p[n].code = f ELSE Capacity + 1]]

(* A hook writes plumbing inside a container only if Nested says so, and    *)
(* does not repeat that of a prefix it has not declared.                    *)
Placed(f) ==
  /\ f \in Plumbing \ Nested => Depth = 0
  /\ f \in Plumbing /\ (\E n \in 1..Len(written) : written[n].code = f)
       => PlumbingAlreadySet(f)

Write ==
  \/ \E f \in Field \ (VlField \cup AmountField \cup {sfFee}) :
       Placed(f) /\ WriteField(f, TRUE)
  \/ \E f \in AmountField \cup {sfFee}, encodes \in BOOLEAN :
       Placed(f) /\ WriteField(f, encodes)
  \/ \E f \in VlField : WriteOther(f, TRUE)
  \/ \E f \in AmountField, answered \in BOOLEAN : WriteOther(f, answered)
  \/ \E f \in ObjectField : Begin("object", f)
  \/ \E f \in ArrayField : Begin("array", f)
  \/ \E kind \in {"object", "array"} : EndContainer(kind)
  \/ \E p \in Resumed : IsPrefix(p, written) /\ EmitPlumbing(OffsetsOf[p])

Next ==
  \/ Write /\ UNCHANGED nonces
  \/ \E fails \in Failures : PrepareForEmit(fails)
  \/ EtxnDetails

Spec == Init /\ [][Next]_vars

-----------------------------------------------------------------------------
(* Every variable keeps its type: the cursor stays in the buffer and the    *)
(* frames in their array (sto_writer.rs:277-318, 651-706).                  *)
TypeOK ==
  /\ written \in Seq(Token)
  /\ pos \in 0..Capacity
  /\ frames \in Seq({"object", "array"}) /\ Len(frames) \in 1..MaxDepth
  /\ seen \subseteq Presence
  /\ offset \in [Patched -> 0..Len(written)]
  /\ finalized \in BOOLEAN
  /\ nonces \in 0..MaxNonces
  /\ ret \in {"ok", "error"}

(* Whatever the calls, refused ones included, the bytes are always a legal  *)
(* beginning for the host's parser, which would find the same containers    *)
(* open as the writer's frames, at the same length (sto_writer.rs:29-37     *)
(* against emit_walk.rs walk_fields).                                       *)
FramesMatchBlob ==
  LET open == Last(Open(written))
  IN  /\ Walks(written)
      /\ Tail(frames) = [n \in 1..Len(open) |-> written[open[n]].kind]
      /\ pos = BlobLength(written)

(* What prepare_for_emit returns is what emit accepts: with one type, no    *)
(* other field repeated in an object, and no etxn_details since, the host   *)
(* finds every field it asks for, once, at the top level, with a legal      *)
(* value (sto_writer.rs prepare_for_emit, emit_walk.rs validate_emit_blob). *)
PreparedIsAcceptable ==
  /\ finalized /\ Last(written).value = nonces
  /\ TopLevel(written, sfTransactionType) # {}
  /\ Repeated(written) \subseteq Plumbing \ Nested
  => Accepts(written, pos)

(* A plumbing field inside a container is not plumbing: "an sfAccount nested *)
(* in a Signer object must not satisfy the top-level sfAccount"             *)
(* (txn.rs:1179-1180, said of the fields StoWriter detects too).            *)
PreparedHasPlumbing ==
  finalized => \A f \in Plumbing : TopLevel(written, f) # {}

(* "Every method is all-or-nothing": a refused call, a prepare_for_emit    *)
(* whose last host call fails included, changes neither the bytes up to the *)
(* cursor nor any record, so that it can be retried (sto_writer.rs:150-154).*)
FailedCallsChangeNothing ==
  [][ret' # "ok" => UNCHANGED writer]_vars
=============================================================================
