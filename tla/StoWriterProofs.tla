--------------------------- MODULE StoWriterProofs ---------------------------
(***************************************************************************)
(* Theorems about StoWriter, for any fields, lengths and buffers.          *)
(***************************************************************************)
EXTENDS StoWriter, SequenceTheorems, FiniteSetTheorems, TLAPS

-----------------------------------------------------------------------------
(* Induction over numbers: a set that holds 0 and the successor of each     *)
(* member holds every natural number, and a function that starts at base    *)
(* and follows a step exists.                                               *)

(* The members of 0..n outside S would be mapped into fewer by k |-> k - 1.  *)
LEMMA SetInduction ==
  ASSUME NEW S, 0 \in S, \A n \in Nat : n \in S => n + 1 \in S
  PROVE  Nat \subseteq S
<1> SUFFICES ASSUME NEW n \in Nat, n \notin S PROVE FALSE
  OBVIOUS
<1> DEFINE T == {k \in 0..n : k \notin S}
           f == [k \in T |-> k - 1]
<1>1. IsFiniteSet(T)
  <2>1. IsFiniteSet(0..n)
    BY FS_Interval
  <2> QED BY <2>1, FS_Subset
<1>2. n \in T
  OBVIOUS
<1>3. \A k \in T : k - 1 \in T \ {n}
  <2> SUFFICES ASSUME NEW k \in T PROVE k - 1 \in T \ {n}
    OBVIOUS
  <2>1. k # 0 /\ k - 1 \in Nat /\ k - 1 < n
    OBVIOUS
  <2>2. k - 1 \notin S
    BY <2>1
  <2> QED BY <2>1, <2>2
<1>4. f \in [T -> T \ {n}] /\ \A k \in T : f[k] = k - 1 /\ k \in Nat
  BY <1>3
<1> HIDE DEF T, f
<1>5. IsFiniteSet(T \ {n}) /\ Cardinality(T \ {n}) = Cardinality(T) - 1
  BY <1>1, <1>2, FS_RemoveElement
<1>6. Cardinality(T) \in Nat
  BY <1>1, FS_CardinalityType
<1>7. Cardinality(T \ {n}) < Cardinality(T)
  BY <1>5, <1>6
<1>8. \E x, y \in T : x # y /\ f[x] = f[y]
  BY <1>1, <1>4, <1>5, <1>7, FS_PigeonHole
<1> QED BY <1>4, <1>8

(* f[n] is step n's value for f[n - 1].                                     *)
Iterates(f, N, S, base, step) ==
  /\ f \in [0..N -> S]
  /\ f[0] = base /\ \A n \in 1..N : f[n] = step[n][f[n - 1]]

LEMMA Iteration ==
  ASSUME NEW N \in Nat, NEW S, NEW base \in S, NEW step \in [1..N -> [S -> S]]
  PROVE  \E f : Iterates(f, N, S, base, step)
<1> DEFINE P(m, f) == f[0] = base /\ \A n \in 1..m : f[n] = step[n][f[n - 1]]
           Reach == {m \in Nat : m <= N => \E f \in [0..m -> S] : P(m, f)}
<1>1. 0 \in Reach
  <2>1. P(0, [n \in 0..0 |-> base])
    OBVIOUS
  <2>2. [n \in 0..0 |-> base] \in [0..0 -> S]
    OBVIOUS
  <2> QED BY <2>1, <2>2
<1>2. ASSUME NEW m \in Nat, m \in Reach
      PROVE  m + 1 \in Reach
  <2> SUFFICES ASSUME m + 1 <= N
               PROVE  \E f \in [0..(m + 1) -> S] : P(m + 1, f)
    OBVIOUS
  <2>1. PICK f \in [0..m -> S] : P(m, f)
    BY <1>2
  <2> DEFINE g == [n \in 0..(m + 1) |-> IF n = m + 1 THEN step[m + 1][f[m]] ELSE f[n]]
  <2>2. step[m + 1][f[m]] \in S
    <3>1. m + 1 \in 1..N /\ f[m] \in S
      OBVIOUS
    <3> QED BY <3>1
  <2>3. g \in [0..(m + 1) -> S]
    BY <2>2
  <2>4. g[0] = base /\ g[m + 1] = step[m + 1][g[m]]
    BY <2>1
  <2>5. ASSUME NEW n \in 1..m PROVE g[n] = step[n][g[n - 1]]
    <3>1. g[n] = f[n] /\ g[n - 1] = f[n - 1]
      OBVIOUS
    <3> QED BY <2>1, <3>1
  <2>6. ASSUME NEW n \in 1..(m + 1) PROVE g[n] = step[n][g[n - 1]]
    <3>1. CASE n = m + 1
      <4>1. n - 1 = m
        BY <3>1
      <4> QED BY <2>4, <3>1, <4>1
    <3>2. CASE n # m + 1
      <4>1. n \in 1..m
        BY <3>2
      <4> QED BY <2>5, <4>1
    <3> QED BY <3>1, <3>2
  <2>7. P(m + 1, g)
    BY <2>4, <2>6
  <2> QED BY <2>3, <2>7
<1> HIDE DEF Reach
<1>3. Nat \subseteq Reach
  BY <1>1, <1>2, SetInduction
<1> QED BY <1>3 DEF Reach, Iterates

(* Whatever satisfies the same equations is the same function.              *)
LEMMA IterationUnique ==
  ASSUME NEW N \in Nat, NEW S, NEW base, NEW step, NEW f, Iterates(f, N, S, base, step),
         NEW g, g[0] = base, \A n \in 1..N : g[n - 1] \in S => g[n] = step[n][g[n - 1]]
  PROVE  \A n \in 0..N : g[n] = f[n] /\ g[n] \in S
<1> DEFINE Same == {n \in Nat : n <= N => g[n] = f[n] /\ g[n] \in S}
<1>1. 0 \in Same
  BY DEF Iterates
<1>2. ASSUME NEW n \in Nat, n \in Same
      PROVE  n + 1 \in Same
  <2> SUFFICES ASSUME n + 1 <= N PROVE g[n + 1] = f[n + 1] /\ g[n + 1] \in S
    OBVIOUS
  <2>1. n + 1 \in 1..N /\ n + 1 \in 0..N /\ n + 1 - 1 = n /\ n <= N
    OBVIOUS
  <2>2. g[n + 1] = step[n + 1][g[n]]
    BY <1>2, <2>1
  <2>3. f[n + 1] = step[n + 1][f[n]] /\ f[n + 1] \in S
    BY <2>1 DEF Iterates
  <2> QED BY <1>2, <2>1, <2>2, <2>3
<1> HIDE DEF Same
<1>3. Nat \subseteq Same
  BY <1>1, <1>2, SetInduction
<1> QED BY <1>3 DEF Same

-----------------------------------------------------------------------------
(* The writer.                                                              *)

(* What a Patched record points at is a field, and of that code: patching   *)
(* it cannot hit anything else.                                             *)
OffsetsPoint ==
  \A f \in Patched :
    offset[f] # 0 => written[offset[f]].kind = "field" /\ written[offset[f]].code = f

(* Every token has a byte at least, so that an offset behind the buffer is  *)
(* behind the cursor.                                                       *)
TokensFit == Len(written) <= pos

WriterInv == TypeOK /\ OffsetsPoint /\ TokensFit

LEMMA Constants ==
  /\ MaxDepth \in Nat \ {0} /\ DetailsMaxLen \in Nat /\ DetailsLen \in Nat
  /\ LedgerSeq \in Nat /\ BaseFee \in Nat /\ FeePerByte \in Nat
  /\ MaxNonces \in Nat /\ Capacity \in Nat /\ HookAccount \in Int /\ MaxWalkDepth \in Nat
  /\ 0 < DetailsLen /\ DetailsLen <= DetailsMaxLen
  BY HostAssumption, WriterAssumption DEF HostAssumption, WriterAssumption

LEMMA FieldTokens ==
  /\ \A f \in Field : FieldToken(f) \in Token /\ Length[f] \in Nat \ {0}
  /\ \A f \in ObjectField : Length[f] \in Nat \ {0}
  /\ \A f \in ArrayField : Length[f] \in Nat \ {0}
  /\ \A f \in ObjectField : [kind |-> "object", code |-> f, value |-> 0] \in Token
  /\ \A f \in ArrayField : [kind |-> "array", code |-> f, value |-> 0] \in Token
  /\ Marker("end_object") \in Token /\ Marker("end_array") \in Token
  /\ \A n \in Nat : [kind |-> "details", code |-> "none", value |-> n] \in Token
  BY WriterAssumption DEF WriterAssumption, FieldToken, Marker, Token

(* A token with the code of a field is one.                                 *)
LEMMA FieldsAreFields ==
  ASSUME NEW t \in Token, t.code \in Field
  PROVE  t.kind = "field" /\ \A v \in Int : [t EXCEPT !.value = v] \in Token
  BY WriterAssumption DEF WriterAssumption, Token

LEMMA PatchIsInt ==
  ASSUME NEW f \in Patched, NEW len \in Nat
  PROVE  Patch(f, FeeBase(len)) \in Int
<1>1. f \in {sfFirstLedgerSequence, sfLastLedgerSequence, sfFee, sfAccount}
  BY DEF Patched
<1>2. FeeBase(len) \in Int
  BY Constants DEF FeeBase
<1> QED
  BY <1>1, <1>2, Constants DEF Patch

-----------------------------------------------------------------------------
(* Invariance, one lemma for each operation.                                *)

LEMMA TypeInit ==
  ASSUME Init
  PROVE  WriterInv
<1>1. written \in Seq(Token)
  BY WriterAssumption DEF Init, WriterAssumption
<1>2. offset \in [Patched -> 0..Len(written)]
  BY <1>1 DEF Init
<1>3. frames \in Seq({"object", "array"}) /\ Len(frames) \in 1..MaxDepth
  BY Constants DEF Init
<1>4. pos \in 0..Capacity /\ TokensFit
  BY <1>1, Constants DEF Init, TokensFit
<1>5. seen \subseteq Presence /\ finalized \in BOOLEAN /\ ret \in {"ok", "error"}
  BY DEF Init
<1>6. nonces \in 0..MaxNonces
  BY Constants DEF Init
<1>7. OffsetsPoint
  BY DEF Init, OffsetsPoint
<1> QED
  BY <1>1, <1>2, <1>3, <1>4, <1>5, <1>6, <1>7 DEF WriterInv, TypeOK

(* A token written at the cursor leaves the records of earlier ones true.   *)
LEMMA PutKeeps ==
  ASSUME WriterInv, NEW token \in Token, NEW n \in Nat \ {0}, Fits(n), Put(token, n)
  PROVE  /\ written' \in Seq(Token) /\ pos' \in 0..Capacity
         /\ Len(written') = Len(written) + 1
         /\ written'[Len(written) + 1] = token
         /\ \A k \in 1..Len(written) : written'[k] = written[k]
         /\ finalized' \in BOOLEAN /\ ret' \in {"ok", "error"} /\ TokensFit'
         /\ offset \in [Patched -> 0..Len(written')]
         /\ \A f \in Patched :
              offset[f] # 0 => written'[offset[f]].kind = "field"
                               /\ written'[offset[f]].code = f
<1>1. written \in Seq(Token) /\ pos \in 0..Capacity /\ offset \in [Patched -> 0..Len(written)]
  BY DEF WriterInv, TypeOK
<1>2. written' = Append(written, token)
  BY DEF Put
<1>3. /\ written' \in Seq(Token)
      /\ Len(written') = Len(written) + 1
      /\ written'[Len(written) + 1] = token
      /\ \A k \in 1..Len(written) : written'[k] = written[k]
  BY <1>1, <1>2
<1>4. pos' \in 0..Capacity /\ TokensFit'
  BY <1>1, <1>3, Constants DEF Put, Fits, WriterInv, TokensFit
<1>5. offset \in [Patched -> 0..Len(written')]
  BY <1>1, <1>3
<1>6. ASSUME NEW f \in Patched, offset[f] # 0
      PROVE  written'[offset[f]].kind = "field" /\ written'[offset[f]].code = f
  BY <1>1, <1>3, <1>6 DEF WriterInv, OffsetsPoint
<1> QED
  BY <1>3, <1>4, <1>5, <1>6 DEF Put, WriterInv, TypeOK

LEMMA RejectKeeps ==
  ASSUME WriterInv, Reject, nonces' \in 0..MaxNonces
  PROVE  WriterInv'
  BY DEF WriterInv, TypeOK, OffsetsPoint, TokensFit, Reject, writer

LEMMA WriteFieldKeeps ==
  ASSUME WriterInv, NEW f \in Field, NEW encodes, WriteField(f, encodes), UNCHANGED nonces
  PROVE  WriterInv'
<1>1. nonces' \in 0..MaxNonces
  BY DEF WriterInv, TypeOK
<1>2. CASE Reject
  BY <1>1, <1>2, RejectKeeps
<1>3. CASE /\ Fits(Length[f]) /\ Put(FieldToken(f), Length[f])
           /\ seen' = IF f \in Presence THEN seen \cup {f} ELSE seen
           /\ offset' = IF f \in Patched
                        THEN [offset EXCEPT ![f] = Len(written) + 1] ELSE offset
           /\ UNCHANGED frames
  <2> DEFINE K == /\ written' \in Seq(Token) /\ pos' \in 0..Capacity
                  /\ Len(written') = Len(written) + 1
                  /\ written'[Len(written) + 1] = FieldToken(f)
                  /\ finalized' \in BOOLEAN /\ ret' \in {"ok", "error"} /\ TokensFit'
                  /\ offset \in [Patched -> 0..Len(written')]
                  /\ \A g \in Patched :
                       offset[g] # 0 => written'[offset[g]].kind = "field"
                                        /\ written'[offset[g]].code = g
  <2>1. K
    BY <1>3, PutKeeps, FieldTokens
  <2>2. FieldToken(f).kind = "field" /\ FieldToken(f).code = f
    BY DEF FieldToken
  <2>3. frames' \in Seq({"object", "array"}) /\ Len(frames') \in 1..MaxDepth
        /\ seen' \subseteq Presence
    BY <1>3 DEF WriterInv, TypeOK
  <2>4. offset' \in [Patched -> 0..Len(written')]
    <3>1. Len(written) \in Nat
      BY DEF WriterInv, TypeOK
    <3> QED
      BY <1>3, <2>1, <3>1
  <2>5. OffsetsPoint'
    <3>1. ASSUME NEW g \in Patched, offset'[g] # 0
          PROVE  written'[offset'[g]].kind = "field" /\ written'[offset'[g]].code = g
      <4>1. CASE g = f
        BY <1>3, <2>1, <2>2, <3>1, <4>1
      <4>2. CASE g # f
        BY <1>3, <2>1, <3>1, <4>2
      <4> QED
        BY <4>1, <4>2
    <3> QED
      BY <3>1 DEF OffsetsPoint
  <2> QED
    BY <1>1, <2>1, <2>3, <2>4, <2>5 DEF WriterInv, TypeOK
<1> QED
  BY <1>2, <1>3 DEF WriteField

(* What the other operations have in common.                                *)
LEMMA OtherKeeps ==
  ASSUME WriterInv, NEW token \in Token, NEW n \in Nat \ {0}, Fits(n), Put(token, n),
         UNCHANGED <<seen, offset, nonces>>,
         frames' \in Seq({"object", "array"}), Len(frames') \in 1..MaxDepth
  PROVE  WriterInv'
<1>1. /\ written' \in Seq(Token) /\ pos' \in 0..Capacity
      /\ finalized' \in BOOLEAN /\ ret' \in {"ok", "error"} /\ TokensFit'
      /\ offset' \in [Patched -> 0..Len(written')]
      /\ \A f \in Patched :
           offset'[f] # 0 => written'[offset'[f]].kind = "field"
                             /\ written'[offset'[f]].code = f
  BY PutKeeps
<1> QED
  BY <1>1 DEF WriterInv, TypeOK, OffsetsPoint

LEMMA WriteOtherKeeps ==
  ASSUME WriterInv, NEW f \in VlField \cup AmountField, NEW answered,
         WriteOther(f, answered), UNCHANGED nonces
  PROVE  WriterInv'
<1>1. CASE Reject
  BY <1>1, RejectKeeps DEF WriterInv, TypeOK
<1>2. CASE /\ Fits(Length[f]) /\ Put(FieldToken(f), Length[f])
           /\ UNCHANGED <<frames, seen, offset>>
  <2>1. f \in Field
    BY DEF Field
  <2>2. FieldToken(f) \in Token /\ Length[f] \in Nat \ {0}
    BY <2>1, FieldTokens
  <2>3. frames' \in Seq({"object", "array"}) /\ Len(frames') \in 1..MaxDepth
    BY <1>2 DEF WriterInv, TypeOK
  <2> QED
    BY <1>2, <2>2, <2>3, OtherKeeps
<1> QED
  BY <1>1, <1>2 DEF WriteOther

LEMMA BeginKeeps ==
  ASSUME WriterInv, NEW kind \in {"object", "array"}, NEW f, UNCHANGED nonces,
         f \in IF kind = "object" THEN ObjectField ELSE ArrayField, Begin(kind, f)
  PROVE  WriterInv'
<1> DEFINE token == [kind |-> kind, code |-> f, value |-> 0]
<1>1. CASE Reject
  BY <1>1, RejectKeeps DEF WriterInv, TypeOK
<1>2. CASE /\ Depth + 1 < MaxDepth /\ Fits(Length[f]) /\ Put(token, Length[f])
           /\ frames' = Append(frames, kind)
           /\ UNCHANGED <<seen, offset>>
  <2>1. token \in Token /\ Length[f] \in Nat \ {0}
    BY FieldTokens
  <2>2. frames' \in Seq({"object", "array"}) /\ Len(frames') \in 1..MaxDepth
    BY <1>2, Constants DEF WriterInv, TypeOK, Depth
  <2> QED
    BY <1>2, <2>1, <2>2, OtherKeeps
<1> QED
  BY <1>1, <1>2 DEF Begin

LEMMA EndKeeps ==
  ASSUME WriterInv, NEW kind \in {"object", "array"}, EndContainer(kind), UNCHANGED nonces
  PROVE  WriterInv'
<1> DEFINE token == Marker(IF kind = "object" THEN "end_object" ELSE "end_array")
<1>1. CASE Reject
  BY <1>1, RejectKeeps DEF WriterInv, TypeOK
<1>2. CASE /\ Depth # 0 /\ Fits(1) /\ Put(token, 1)
           /\ frames' = Front(frames)
           /\ UNCHANGED <<seen, offset>>
  <2>1. token \in Token
    BY FieldTokens
  <2>2. frames' \in Seq({"object", "array"}) /\ Len(frames') \in 1..MaxDepth
    <3>1. frames \in Seq({"object", "array"}) /\ Len(frames) \in 2..MaxDepth
      <4>1. frames \in Seq({"object", "array"}) /\ Len(frames) \in 1..MaxDepth
        BY DEF WriterInv, TypeOK
      <4>2. MaxDepth \in Nat /\ Len(frames) \in Nat
        BY <4>1, Constants
      <4>3. Len(frames) # 1
        BY <1>2, <4>2 DEF Depth
      <4>4. \A l \in 1..MaxDepth : l # 1 => l \in 2..MaxDepth
        BY <4>2
      <4> QED
        BY <4>1, <4>3, <4>4
    <3>2. frames' = SubSeq(frames, 1, Len(frames) - 1)
      BY <1>2 DEF Front
    <3> QED
      BY <3>1, <3>2, Constants
  <2> QED
    BY <1>2, <2>1, <2>2, OtherKeeps
<1> QED
  BY <1>1, <1>2 DEF EndContainer

(* The offsets found in a prefix hold in what was written after it.         *)
LEMMA EmitPlumbingKeeps ==
  ASSUME WriterInv, NEW p \in Resumed, IsPrefix(p, written),
         EmitPlumbing(OffsetsOf[p]), UNCHANGED nonces
  PROVE  WriterInv'
<1> DEFINE found == OffsetsOf[p]
<1>1. CASE Reject
  BY <1>1, RejectKeeps DEF WriterInv, TypeOK
<1>2. CASE /\ \A f \in Patched : found[f] <= Len(written)
           /\ seen' = Presence /\ offset' = found /\ ret' = "ok"
           /\ UNCHANGED <<written, pos, frames, finalized>>
  <2>1. p \in Seq(Token) /\ written \in Seq(Token)
    BY WriterAssumption DEF WriterAssumption, WriterInv, TypeOK
  <2>2. Len(p) <= Len(written) /\ \A n \in 1..Len(p) : p[n] = written[n]
    <3>1. Len(p) <= Len(written) /\ SubSeq(p, 1, Len(p)) = SubSeq(written, 1, Len(p))
      BY DEF IsPrefix
    <3>2. ASSUME NEW n \in 1..Len(p)
          PROVE  p[n] = written[n]
      <4>1. SubSeq(p, 1, Len(p))[n] = p[n] /\ SubSeq(written, 1, Len(p))[n] = written[n]
        BY <2>1, <3>1
      <4> QED
        BY <3>1, <4>1
    <3> QED
      BY <3>1, <3>2
  <2>3. ASSUME NEW f \in Patched
        PROVE  /\ found[f] \in 1..Len(written)
               /\ written[found[f]].kind = "field" /\ written[found[f]].code = f
    <3>1. found[f] = IF \E n \in 1..Len(p) : p[n].code = f
                     THEN CHOOSE n \in 1..Len(p) : p[n].code = f ELSE Capacity + 1
      BY DEF OffsetsOf
    <3>2. CASE \E n \in 1..Len(p) : p[n].code = f
      <4>1. found[f] \in 1..Len(p) /\ p[found[f]].code = f
        BY <3>1, <3>2
      <4>2. f \in Field
        BY DEF Field, Plumbing
      <4>3. p[found[f]] \in Token /\ written[found[f]] = p[found[f]]
        BY <2>1, <2>2, <4>1
      <4>4. written[found[f]].kind = "field"
        BY <4>1, <4>2, <4>3, FieldsAreFields
      <4> QED
        BY <2>1, <2>2, <4>1, <4>3, <4>4
    <3>3. CASE ~\E n \in 1..Len(p) : p[n].code = f
      <4>1. found[f] = Capacity + 1 /\ found[f] <= Len(written)
        BY <1>2, <3>1, <3>3
      <4>2. Len(written) <= Capacity
        BY <2>1, Constants DEF WriterInv, TypeOK, TokensFit
      <4> QED
        BY <2>1, <4>1, <4>2, Constants
    <3> QED
      BY <3>2, <3>3
  <2>4. offset' \in [Patched -> 0..Len(written')]
    <3>1. offset' = found /\ written' = written /\ Len(written) \in Nat
      BY <1>2, <2>1
    <3>2. found = [f \in Patched |-> found[f]]
      BY DEF OffsetsOf
    <3> QED
      BY <2>3, <3>1, <3>2
  <2>5. OffsetsPoint'
    BY <1>2, <2>3 DEF OffsetsPoint
  <2>6. seen' \subseteq Presence /\ ret' \in {"ok", "error"}
    BY <1>2
  <2> QED
    BY <1>2, <2>4, <2>5, <2>6 DEF WriterInv, TypeOK, TokensFit
<1> QED
  BY <1>1, <1>2 DEF EmitPlumbing

(* Only the tokens that are pointed at are patched, and they stay fields.   *)
LEMMA PatchedShape ==
  ASSUME WriterInv, NEW len \in Nat
  PROVE  LET patched == PatchedBlob(FeeBase(len))
         IN  /\ patched \in Seq(Token) /\ Len(patched) = Len(written)
             /\ \A n \in 1..Len(written) :
                  patched[n].kind = written[n].kind /\ patched[n].code = written[n].code
<1> DEFINE fee == FeeBase(len)
           patched == PatchedBlob(fee)
<1>1. written \in Seq(Token) /\ offset \in [Patched -> 0..Len(written)]
  BY DEF WriterInv, TypeOK
<1>2. ASSUME NEW n \in 1..Len(written)
      PROVE  /\ patched[n] \in Token
             /\ patched[n].kind = written[n].kind /\ patched[n].code = written[n].code
  <2>1. CASE \E f \in Patched : offset[f] = n
    <3> DEFINE f == CHOOSE f \in Patched : offset[f] = n
    <3>1. f \in Patched /\ offset[f] = n
      BY <2>1
    <3>2. f \in Field /\ written[n].code = f
      BY <3>1 DEF Field, Plumbing, WriterInv, OffsetsPoint
    <3>3. patched[n] = [written[n] EXCEPT !.value = Patch(f, fee)]
      BY <2>1 DEF PatchedBlob
    <3>4. written[n] \in Token
      BY <1>1
    <3>5. patched[n] \in Token
      <4>1. Patch(f, fee) \in Int
        BY <3>1, PatchIsInt
      <4>2. written[n].code \in Field
        BY <3>2
      <4>3. \A v \in Int : [written[n] EXCEPT !.value = v] \in Token
        BY <3>4, <4>2, FieldsAreFields
      <4> QED
        BY <3>3, <4>1, <4>3
    <3> QED
      BY <3>3, <3>4, <3>5 DEF Token
  <2>2. CASE ~\E f \in Patched : offset[f] = n
    BY <1>1, <2>2 DEF PatchedBlob
  <2> QED
    BY <2>1, <2>2
<1>3. patched = [n \in 1..Len(written) |-> patched[n]]
  BY DEF PatchedBlob
<1>4. patched \in Seq(Token) /\ Len(patched) = Len(written)
  BY <1>1, <1>2, <1>3
<1> QED
  BY <1>2, <1>4

LEMMA PrepareKeeps ==
  ASSUME WriterInv, NEW fails, PrepareForEmit(fails)
  PROVE  WriterInv'
<1>0. nonces \in 0..MaxNonces
  BY DEF WriterInv, TypeOK
<1>1. CASE Reject /\ UNCHANGED nonces
  BY <1>0, <1>1, RejectKeeps
<1>2. CASE Reject /\ Answers(fails) /\ nonces' = nonces + 1
  <2>1. nonces' \in 0..MaxNonces
    BY <1>0, <1>2, Constants DEF Answers
  <2> QED
    BY <1>2, <2>1, RejectKeeps
<1>3. CASE /\ Ready /\ Answers(fails) /\ Commit /\ nonces' = nonces + 1
           /\ finalized' = TRUE /\ ret' = "ok"
  <2> DEFINE patched == PatchedBlob(FeeBase(FeeLength))
             details == [kind |-> "details", code |-> "none", value |-> nonces + 1]
  <2>1. /\ written \in Seq(Token) /\ pos \in 0..Capacity /\ Len(written) <= pos
        /\ offset \in [Patched -> 0..Len(written)]
    BY DEF WriterInv, TypeOK, TokensFit
  <2>2. FeeLength \in Nat
    BY <2>1, Constants DEF FeeLength
  <2>3. /\ patched \in Seq(Token) /\ Len(patched) = Len(written)
        /\ \A n \in 1..Len(written) :
             patched[n].kind = written[n].kind /\ patched[n].code = written[n].code
    BY <2>2, PatchedShape
  <2>4. details \in Token
    BY <1>0, FieldTokens
  <2>5. written' = Append(patched, details)
    BY <1>3 DEF Commit
  <2>6. /\ written' \in Seq(Token) /\ Len(written') = Len(written) + 1
        /\ \A n \in 1..Len(written) :
             written'[n].kind = written[n].kind /\ written'[n].code = written[n].code
    BY <2>1, <2>3, <2>4, <2>5
  <2>7. pos + DetailsMaxLen <= Capacity /\ pos' = pos + DetailsLen
    BY <1>3 DEF Ready, Fits, Commit
  <2>8. pos' \in 0..Capacity /\ TokensFit'
    BY <2>1, <2>6, <2>7, Constants DEF TokensFit
  <2>9. UNCHANGED <<frames, seen, offset>>
    BY <1>3 DEF Commit
  <2>10. offset' \in [Patched -> 0..Len(written')]
    BY <2>1, <2>6, <2>9
  <2>11. OffsetsPoint'
    <3>1. ASSUME NEW f \in Patched, offset[f] # 0
          PROVE  written'[offset[f]].kind = "field" /\ written'[offset[f]].code = f
      <4>1. offset[f] \in 1..Len(written)
        BY <2>1, <3>1
      <4>2. written[offset[f]].kind = "field" /\ written[offset[f]].code = f
        BY <3>1 DEF WriterInv, OffsetsPoint
      <4> QED
        BY <2>6, <4>1, <4>2
    <3> QED
      BY <2>9, <3>1 DEF OffsetsPoint
  <2>12. nonces' \in 0..MaxNonces
    BY <1>0, <1>3, Constants DEF Answers
  <2>13. finalized' \in BOOLEAN /\ ret' \in {"ok", "error"}
    BY <1>3
  <2> QED
    BY <2>6, <2>8, <2>9, <2>10, <2>11, <2>12, <2>13 DEF WriterInv, TypeOK
<1> QED
  BY <1>1, <1>2, <1>3 DEF PrepareForEmit

LEMMA WriterStep ==
  ASSUME WriterInv, [Next]_vars
  PROVE  WriterInv'
<1>1. CASE Write /\ UNCHANGED nonces
  <2>1. ASSUME NEW f \in Field, NEW encodes, WriteField(f, encodes)
        PROVE  WriterInv'
    BY <1>1, <2>1, WriteFieldKeeps
  <2>2. ASSUME NEW f \in VlField \cup AmountField, NEW answered, WriteOther(f, answered)
        PROVE  WriterInv'
    BY <1>1, <2>2, WriteOtherKeeps
  <2>3. ASSUME NEW f \in ObjectField, Begin("object", f)
        PROVE  WriterInv'
    BY <1>1, <2>3, BeginKeeps
  <2>4. ASSUME NEW f \in ArrayField, Begin("array", f)
        PROVE  WriterInv'
    BY <1>1, <2>4, BeginKeeps
  <2>5. ASSUME NEW kind \in {"object", "array"}, EndContainer(kind)
        PROVE  WriterInv'
    BY <1>1, <2>5, EndKeeps
  <2>6. ASSUME NEW p \in Resumed, IsPrefix(p, written), EmitPlumbing(OffsetsOf[p])
        PROVE  WriterInv'
    BY <1>1, <2>6, EmitPlumbingKeeps
  <2>7. AmountField \cup {sfFee} \subseteq Field
    BY DEF Field, Plumbing, Patched
  <2> QED
    BY <1>1, <2>1, <2>2, <2>3, <2>4, <2>5, <2>6, <2>7 DEF Write
<1>2. ASSUME NEW fails \in Failures, PrepareForEmit(fails)
      PROVE  WriterInv'
  BY <1>2, PrepareKeeps
<1>3. CASE EtxnDetails
  BY <1>3, Constants DEF EtxnDetails, writer, WriterInv, TypeOK, OffsetsPoint, TokensFit
<1>4. CASE UNCHANGED vars
  BY <1>4 DEF vars, writer, WriterInv, TypeOK, OffsetsPoint, TokensFit
<1> QED
  BY <1>1, <1>2, <1>3, <1>4 DEF Next

(* The cursor stays in the buffer, the frames in their array, and every     *)
(* recorded offset points at a field of its own code, a resumed prefix's    *)
(* included: prepare_for_emit patches nothing else (sto_writer.rs:838-889). *)
THEOREM WriterTypesCorrect == Spec => [](TypeOK /\ OffsetsPoint)
<1>1. Init => WriterInv
  BY TypeInit
<1>2. WriterInv /\ [Next]_vars => WriterInv'
  BY WriterStep
<1>3. WriterInv => TypeOK /\ OffsetsPoint
  BY DEF WriterInv
<1> QED
  BY <1>1, <1>2, <1>3, PTL DEF Spec

-----------------------------------------------------------------------------
(* Only a successful call touches the writer.                               *)
LEMMA RefusedOrOk ==
  ASSUME Next
  PROVE  UNCHANGED writer \/ ret' = "ok"
<1>1. ASSUME NEW f, NEW encodes, WriteField(f, encodes)
      PROVE  UNCHANGED writer \/ ret' = "ok"
  BY <1>1 DEF WriteField, Reject, Put
<1>2. ASSUME NEW f, NEW answered, WriteOther(f, answered)
      PROVE  UNCHANGED writer \/ ret' = "ok"
  BY <1>2 DEF WriteOther, Reject, Put
<1>3. ASSUME NEW kind, NEW f, Begin(kind, f)
      PROVE  UNCHANGED writer \/ ret' = "ok"
  BY <1>3 DEF Begin, Reject, Put
<1>4. ASSUME NEW kind, EndContainer(kind)
      PROVE  UNCHANGED writer \/ ret' = "ok"
  BY <1>4 DEF EndContainer, Reject, Put
<1>5. ASSUME NEW offsets, EmitPlumbing(offsets)
      PROVE  UNCHANGED writer \/ ret' = "ok"
  BY <1>5 DEF EmitPlumbing, Reject
<1>6. ASSUME NEW fails, PrepareForEmit(fails)
      PROVE  UNCHANGED writer \/ ret' = "ok"
  BY <1>6 DEF PrepareForEmit, Reject
<1>7. CASE EtxnDetails
  BY <1>7 DEF EtxnDetails
<1> QED
  BY <1>1, <1>2, <1>3, <1>4, <1>5, <1>6, <1>7 DEF Next, Write

(* "Every method is all-or-nothing": a call that fails leaves the writer as *)
(* it was, whichever call and however late it fails (sto_writer.rs:150).    *)
THEOREM FailuresCanBeRetried == Spec => FailedCallsChangeNothing
<1>1. [Next]_vars => (ret' # "ok" => UNCHANGED writer) \/ UNCHANGED vars
  BY RefusedOrOk
<1> QED
  BY <1>1, PTL DEF Spec, FailedCallsChangeNothing

-----------------------------------------------------------------------------
(* The host's parser.                                                       *)

LEMMA WalkType ==
  ASSUME NEW blob, NEW n \in Nat \ {0}, NEW before \in Seq(1..(n - 1))
  PROVE  Walk(blob, before, n) \in Seq(1..n)
<1>1. before \in Seq(1..n)
  <2>1. 1..(n - 1) \subseteq 1..n
    OBVIOUS
  <2> QED BY <2>1, SeqDef
<1>2. before # <<>> => Front(before) \in Seq(1..n)
  <2> SUFFICES ASSUME before # <<>> PROVE SubSeq(before, 1, Len(before) - 1) \in Seq(1..n)
    BY DEF Front
  <2>1. Len(before) \in Nat \ {0}
    BY <1>1, EmptySeq
  <2> QED BY <1>1, <2>1, SubSeqProperties
<1>3. Append(before, n) \in Seq(1..n)
  BY <1>1, AppendProperties
<1> QED BY <1>1, <1>2, <1>3 DEF Walk

(* What Open computes: the stack before each token follows from the one     *)
(* before its predecessor.                                                  *)
Extended(blob, s, n) == Append(s, Walk(blob, Last(s), n))

(* What the stacks of a blob look like up to token n.                       *)
OpenUpTo(blob, s, n) ==
  /\ s \in Seq(Seq(Nat)) /\ Len(s) = n + 1 /\ s[1] = <<>>
  /\ \A k \in 1..n : s[k + 1] = Walk(blob, s[k], k)
  /\ \A k \in 1..(n + 1) : s[k] \in Seq(1..(k - 1))

LEMMA OpenedStep ==
  ASSUME NEW blob, NEW s, NEW n \in Nat \ {0}, OpenUpTo(blob, s, n - 1)
  PROVE  OpenUpTo(blob, Extended(blob, s, n), n)
<1> DEFINE w == Walk(blob, s[n], n)
           t == Append(s, w)
<1>1. Len(s) = n /\ s \in Seq(Seq(Nat)) /\ s[n] \in Seq(1..(n - 1))
  <2>1. n - 1 + 1 = n /\ n \in 1..(n - 1 + 1)
    OBVIOUS
  <2> QED BY <2>1 DEF OpenUpTo
<1>2. Extended(blob, s, n) = t
  BY <1>1 DEF Extended, Last
<1>3. w \in Seq(1..n)
  BY <1>1, WalkType
<1>4. w \in Seq(Nat)
  <2>1. 1..n \subseteq Nat
    OBVIOUS
  <2> QED BY <1>3, <2>1, SeqDef
<1> HIDE DEF w
<1>5. /\ t \in Seq(Seq(Nat)) /\ Len(t) = n + 1 /\ t[n + 1] = w
      /\ \A k \in 1..n : t[k] = s[k]
  BY <1>1, <1>4, AppendProperties
<1> HIDE DEF t
<1>6. t[1] = <<>>
  <2>1. 1 \in 1..n
    OBVIOUS
  <2> QED BY <1>5, <2>1 DEF OpenUpTo
<1>7. ASSUME NEW k \in 1..n PROVE t[k + 1] = Walk(blob, t[k], k)
  <2>1. CASE k = n
    BY <1>5, <2>1 DEF w
  <2>2. CASE k # n
    <3>1. k \in 1..(n - 1) /\ k + 1 \in 1..n
      BY <2>2
    <3> QED BY <1>5, <3>1 DEF OpenUpTo
  <2> QED BY <2>1, <2>2
<1>8. ASSUME NEW k \in 1..(n + 1) PROVE t[k] \in Seq(1..(k - 1))
  <2>1. CASE k = n + 1
    <3>1. k - 1 = n
      BY <2>1
    <3> QED BY <1>3, <1>5, <2>1, <3>1
  <2>2. CASE k # n + 1
    <3>1. k \in 1..n /\ k \in 1..(n - 1 + 1)
      BY <2>2
    <3> QED BY <1>5, <3>1 DEF OpenUpTo
  <2> QED BY <2>1, <2>2
<1> QED BY <1>2, <1>5, <1>6, <1>7, <1>8 DEF OpenUpTo

LEMMA OpenIs ==
  ASSUME NEW blob \in Seq(Token)
  PROVE  OpenUpTo(blob, Open(blob), Len(blob))
<1> DEFINE N == Len(blob)
           bottom == <<<<>>>>
           Stacks == {s \in Seq(Seq(Nat)) : \E n \in 0..N : OpenUpTo(blob, s, n)}
           F(g) == [n \in 0..N |-> IF n = 0 THEN bottom
                      ELSE LET before == g[n - 1]
                           IN Append(before, Walk(blob, Last(before), n))]
           open == CHOOSE g : g = F(g)
           step == [n \in 1..N |-> [s \in Stacks |->
                      IF OpenUpTo(blob, s, n - 1) THEN Extended(blob, s, n) ELSE bottom]]
<1>1. N \in Nat
  OBVIOUS
<1>2. OpenUpTo(blob, bottom, 0) /\ bottom \in Stacks
  <2>1. <<>> \in Seq(Nat) /\ <<>> \in Seq(1..(1 - 1))
    OBVIOUS
  <2>2. <<<<>>>> \in Seq(Seq(Nat)) /\ Len(<<<<>>>>) = 1 /\ <<<<>>>>[1] = <<>>
    BY <2>1
  <2>3. OpenUpTo(blob, <<<<>>>>, 0)
    BY <2>1, <2>2 DEF OpenUpTo
  <2> QED BY <1>1, <2>2, <2>3
<1>3. step \in [1..N -> [Stacks -> Stacks]]
  <2> SUFFICES ASSUME NEW n \in 1..N, NEW s \in Stacks, OpenUpTo(blob, s, n - 1)
               PROVE  Extended(blob, s, n) \in Stacks
    BY <1>2
  <2>1. OpenUpTo(blob, Extended(blob, s, n), n)
    BY <1>1, OpenedStep
  <2>2. Extended(blob, s, n) \in Seq(Seq(Nat)) /\ n \in 0..N
    BY <1>1, <2>1 DEF OpenUpTo
  <2> QED BY <2>1, <2>2
<1> HIDE DEF Stacks, step, F, open, bottom, N
<1>4. PICK g \in [0..N -> Stacks] :
        g[0] = bottom /\ \A n \in 1..N : g[n] = step[n][g[n - 1]]
  <2>1. \E g : Iterates(g, N, Stacks, bottom, step)
    BY <1>1, <1>2, <1>3, Iteration
  <2> QED BY <2>1 DEF Iterates
<1>4a. ASSUME NEW n \in 1..N, NEW s \in Stacks, OpenUpTo(blob, s, n - 1)
       PROVE  step[n][s] = Extended(blob, s, n)
  BY <1>4a DEF step
<1> DEFINE Reach == {n \in Nat : n <= N => OpenUpTo(blob, g[n], n)}
<1>5. 0 \in Reach
  BY <1>2, <1>4
<1>6. ASSUME NEW n \in Nat, n \in Reach PROVE n + 1 \in Reach
  <2> SUFFICES ASSUME n + 1 <= N PROVE OpenUpTo(blob, g[n + 1], n + 1)
    OBVIOUS
  <2>1. n + 1 \in 1..N /\ n + 1 - 1 = n /\ n \in 0..N
    BY <1>1
  <2>2. OpenUpTo(blob, g[n], n) /\ g[n] \in Stacks
    BY <1>4, <1>6, <2>1
  <2>3. g[n + 1] = Extended(blob, g[n], n + 1)
    BY <1>4, <1>4a, <2>1, <2>2
  <2> QED BY <2>1, <2>2, <2>3, OpenedStep
<1>7. \A n \in 0..N : OpenUpTo(blob, g[n], n)
  <2> HIDE DEF Reach
  <2>1. Nat \subseteq Reach
    BY <1>5, <1>6, SetInduction
  <2> QED BY <1>1, <2>1 DEF Reach
<1>8. \A n \in 1..N : g[n] = Extended(blob, g[n - 1], n)
  <2> SUFFICES ASSUME NEW n \in 1..N PROVE g[n] = Extended(blob, g[n - 1], n)
    OBVIOUS
  <2>1. n - 1 \in 0..N
    BY <1>1
  <2>2. OpenUpTo(blob, g[n - 1], n - 1) /\ g[n - 1] \in Stacks
    BY <1>4, <1>7, <2>1
  <2> QED BY <1>4, <1>4a, <2>2
<1>9. g = F(g)
  <2>1. \A n \in 0..N : g[n] = F(g)[n]
    <3> SUFFICES ASSUME NEW n \in 0..N PROVE g[n] = F(g)[n]
      OBVIOUS
    <3>1. CASE n = 0
      BY <1>4, <3>1 DEF F
    <3>2. CASE n # 0
      <4>1. n \in 1..N
        BY <1>1, <3>2
      <4> QED BY <1>8, <3>2, <4>1 DEF F, Extended
    <3> QED BY <3>1, <3>2
  <2>2. F(g) = [n \in 0..N |-> F(g)[n]]
    BY DEF F
  <2>3. g = [n \in 0..N |-> g[n]]
    BY <1>4
  <2> QED BY <2>1, <2>2, <2>3
<1>10. open = F(open)
  BY <1>9 DEF open
<1>11. Open(blob) = open[N]
  BY DEF Open, open, F, bottom, N
<1>11a. open[0] = bottom /\ \A n \in 1..N : open[n] = Extended(blob, open[n - 1], n)
  <2>1. \A n \in 0..N : open[n] = F(open)[n]
    BY <1>10
  <2>2. \A n \in 1..N : n \in 0..N /\ n # 0
    BY <1>1
  <2>3. 0 \in 0..N
    BY <1>1
  <2>4. \A n \in 1..N : F(open)[n] = Extended(blob, open[n - 1], n)
    BY <2>2 DEF Extended, F
  <2>5. F(open)[0] = bottom
    BY <2>3 DEF F
  <2> QED BY <2>1, <2>2, <2>3, <2>4, <2>5
<1> DEFINE Same == {n \in Nat : n <= N => open[n] = g[n]}
<1>12. 0 \in Same
  BY <1>1, <1>4, <1>11a
<1>13. ASSUME NEW n \in Nat, n \in Same PROVE n + 1 \in Same
  <2> SUFFICES ASSUME n + 1 <= N PROVE open[n + 1] = g[n + 1]
    OBVIOUS
  <2>1. n + 1 \in 1..N /\ n + 1 # 0 /\ n + 1 - 1 = n /\ n + 1 \in 0..N
    BY <1>1
  <2>2. open[n + 1] = Extended(blob, open[n], n + 1)
    BY <1>11a, <2>1
  <2>3. g[n + 1] = Extended(blob, g[n], n + 1)
    BY <1>8, <2>1
  <2>4. open[n] = g[n]
    BY <1>1, <1>13, <2>1
  <2> QED BY <2>2, <2>3, <2>4
<1>14. N \in Same
  <2> HIDE DEF Same
  <2> QED BY <1>1, <1>12, <1>13, SetInduction
<1> QED BY <1>1, <1>7, <1>11, <1>14 DEF N

-----------------------------------------------------------------------------
(* Blobs that agree in kinds up to some token are parsed alike up to there. *)
LEMMA OpenPrefix ==
  ASSUME NEW a \in Seq(Token), NEW b \in Seq(Token), NEW m \in Nat,
         m <= Len(a), m <= Len(b), \A n \in 1..m : a[n].kind = b[n].kind
  PROVE  \A n \in 1..(m + 1) : Open(a)[n] = Open(b)[n]
<1> DEFINE p == Open(a)
           q == Open(b)
           Same == {n \in Nat : n <= m => p[n + 1] = q[n + 1]}
<1>1. /\ OpenUpTo(a, p, Len(a)) /\ OpenUpTo(b, q, Len(b))
      /\ Len(a) \in Nat /\ Len(b) \in Nat
  BY OpenIs
<1> HIDE DEF p, q
<1>2. 0 \in Same
  BY <1>1 DEF OpenUpTo
<1>3. ASSUME NEW n \in Nat, n \in Same PROVE n + 1 \in Same
  <2> SUFFICES ASSUME n + 1 <= m PROVE p[n + 2] = q[n + 2]
    OBVIOUS
  <2>1. n + 1 \in 1..m /\ n + 1 \in 1..Len(a) /\ n + 1 \in 1..Len(b) /\ n <= m
    BY <1>1
  <2>2. p[n + 1] = q[n + 1] /\ a[n + 1].kind = b[n + 1].kind
    BY <1>3, <2>1
  <2>3. p[n + 1 + 1] = Walk(a, p[n + 1], n + 1) /\ q[n + 1 + 1] = Walk(b, q[n + 1], n + 1)
    BY <1>1, <2>1 DEF OpenUpTo
  <2>4. Walk(a, p[n + 1], n + 1) = Walk(b, q[n + 1], n + 1)
    BY <2>2 DEF Walk
  <2>5. n + 1 + 1 = n + 2
    OBVIOUS
  <2> QED BY <2>3, <2>4, <2>5
<1>4. Nat \subseteq Same
  <2> HIDE DEF Same
  <2> QED BY <1>2, <1>3, SetInduction
<1>5. ASSUME NEW n \in 1..(m + 1) PROVE p[n] = q[n]
  <2>1. n - 1 \in Nat /\ n - 1 <= m /\ n - 1 + 1 = n
    OBVIOUS
  <2> QED BY <1>4, <2>1
<1> QED BY <1>5 DEF p, q

(* The innermost container open before a token came before it.              *)
LEMMA ScopeIs ==
  ASSUME NEW blob \in Seq(Token), NEW n \in 1..(Len(blob) + 1)
  PROVE  LET stack == Open(blob)[n]
         IN  /\ stack \in Seq(1..(n - 1)) /\ Len(stack) \in Nat
             /\ \A k \in 1..Len(stack) : stack[k] \in 1..(n - 1)
             /\ Scope(Open(blob), n) = IF stack = <<>> THEN 0 ELSE stack[Len(stack)]
             /\ Scope(Open(blob), n) \in 0..(n - 1)
<1> DEFINE stack == Open(blob)[n]
<1>1. stack \in Seq(1..(n - 1))
  BY OpenIs DEF OpenUpTo
<1>2. Scope(Open(blob), n) = IF stack = <<>> THEN 0 ELSE stack[Len(stack)]
  BY DEF Scope, Last
<1> HIDE DEF stack
<1>3. Len(stack) \in Nat /\ \A k \in 1..Len(stack) : stack[k] \in 1..(n - 1)
  BY <1>1
<1>4. stack # <<>> => Len(stack) \in 1..Len(stack)
  BY <1>1, <1>3, EmptySeq
<1>5. n - 1 \in Nat
  OBVIOUS
<1>6. Scope(Open(blob), n) \in 0..(n - 1)
  BY <1>2, <1>3, <1>4, <1>5
<1> QED BY <1>1, <1>2, <1>3, <1>6 DEF stack

-----------------------------------------------------------------------------
(* The writer's frames are the kinds of the containers the parser would     *)
(* find open.                                                               *)
Match(blob, fr) ==
  LET top == Last(Open(blob))
  IN  /\ Walks(blob)
      /\ Len(fr) = Len(top) + 1 /\ fr[1] = "object"
      /\ \A n \in 1..Len(top) : fr[n + 1] = blob[top[n]].kind

LEMMA LastOpen ==
  ASSUME NEW blob \in Seq(Token)
  PROVE  Last(Open(blob)) = Open(blob)[Len(blob) + 1]
  BY OpenIs DEF OpenUpTo, Last

(* Another blob of the same kinds.                                          *)
LEMMA MatchKinds ==
  ASSUME NEW a \in Seq(Token), NEW b \in Seq(Token), NEW fr, Match(a, fr),
         Len(a) = Len(b), \A n \in 1..Len(a) : a[n].kind = b[n].kind
  PROVE  Match(b, fr)
<1> DEFINE p == Open(a)
           q == Open(b)
           N == Len(a)
<1>0. N \in Nat
  OBVIOUS
<1>1. \A n \in 1..(N + 1) : p[n] = q[n]
  BY <1>0, OpenPrefix
<1>2. \A n \in 1..(N + 1) :
        /\ Scope(p, n) = Scope(q, n) /\ Scope(p, n) \in 0..(n - 1)
        /\ \A k \in 1..Len(p[n]) : p[n][k] \in 1..(n - 1)
  <2> SUFFICES ASSUME NEW n \in 1..(N + 1)
               PROVE  /\ Scope(p, n) = Scope(q, n) /\ Scope(p, n) \in 0..(n - 1)
                      /\ \A k \in 1..Len(p[n]) : p[n][k] \in 1..(n - 1)
    OBVIOUS
  <2>1. p[n] = q[n]
    BY <1>1
  <2> QED BY <2>1, ScopeIs DEF Scope
<1>3. Last(p) = p[N + 1] /\ Last(q) = q[N + 1]
  BY LastOpen
<1>4. Walks(a)
  BY DEF Match
<1> HIDE DEF p, q
<1>5. ASSUME NEW n \in 1..N
      PROVE  Follows(b, n, Scope(q, n)) /\ Len(q[n + 1]) <= MaxWalkDepth
  <2>1. Follows(a, n, Scope(p, n)) /\ Len(p[n + 1]) <= MaxWalkDepth
    BY <1>4 DEF Walks, p
  <2>2. n \in 1..(N + 1) /\ n + 1 \in 1..(N + 1)
    BY <1>0
  <2>3. Scope(p, n) = Scope(q, n) /\ p[n + 1] = q[n + 1] /\ Scope(p, n) \in 0..(n - 1)
    BY <1>1, <1>2, <2>2
  <2>4. Scope(p, n) # 0 => Scope(p, n) \in 1..N
    BY <1>0, <2>3
  <2> QED BY <2>1, <2>3, <2>4 DEF Follows
<1>6. Walks(b)
  BY <1>5 DEF Walks, q
<1>7. Last(p) = Last(q)
  BY <1>0, <1>1, <1>3
<1>8. \A n \in 1..Len(Last(p)) : Last(p)[n] \in 1..N
  BY <1>0, <1>2, <1>3
<1> QED BY <1>6, <1>7, <1>8 DEF Match, p, q

Kinds == {"object", "array"}

LEMMA FrontIs ==
  ASSUME NEW S, NEW s \in Seq(S), s # <<>>
  PROVE  /\ Front(s) \in Seq(S) /\ Len(Front(s)) = Len(s) - 1
         /\ \A n \in 1..(Len(s) - 1) : Front(s)[n] = s[n]
<1>1. Len(s) \in Nat \ {0} /\ Front(s) = SubSeq(s, 1, Len(s) - 1)
  BY EmptySeq DEF Front
<1> DEFINE m == Len(s) - 1
           f == SubSeq(s, 1, m)
<1>2. m \in Nat /\ \A i \in 1..m : s[i] \in S
  BY <1>1
<1> HIDE DEF m
<1>3. f \in Seq(S) /\ Len(f) = m /\ \A i \in 1..m : f[i] = s[i]
  BY <1>2
<1> QED BY <1>1, <1>3 DEF m

(* One more token: what is open before it is what was open at the end.      *)
LEMMA OpenAppend ==
  ASSUME NEW blob \in Seq(Token), NEW token \in Token
  PROVE  LET new == Append(blob, token)
             end == Len(blob) + 1
         IN  /\ new \in Seq(Token) /\ Len(new) = end /\ new[end] = token
             /\ \A n \in 1..Len(blob) : new[n] = blob[n]
             /\ \A n \in 1..end : Open(new)[n] = Open(blob)[n]
             /\ Last(Open(new)) = Walk(new, Last(Open(blob)), end)
<1> DEFINE new == Append(blob, token)
           end == Len(blob) + 1
<1>1. /\ new \in Seq(Token) /\ Len(new) = end /\ new[end] = token
      /\ \A n \in 1..Len(blob) : new[n] = blob[n]
      /\ Len(blob) \in Nat
  BY AppendProperties, LenProperties
<1> HIDE DEF new
<1>2. \A n \in 1..end : Open(new)[n] = Open(blob)[n]
  BY <1>1, OpenPrefix
<1>3. Last(Open(new)) = Open(new)[end + 1] /\ Last(Open(blob)) = Open(blob)[end]
  BY <1>1, LastOpen
<1>4. Open(new)[end + 1] = Walk(new, Open(new)[end], end)
  <2>1. end \in 1..Len(new)
    BY <1>1
  <2> QED BY <1>1, <2>1, OpenIs DEF OpenUpTo
<1>5. Open(new)[end] = Open(blob)[end]
  <2>1. end \in 1..end
    BY <1>1
  <2> QED BY <1>2, <2>1
<1> QED BY <1>1, <1>2, <1>3, <1>4, <1>5 DEF new

(* It walks if it may come next and nests no deeper than the parser goes.   *)
LEMMA WalksAppend ==
  ASSUME NEW blob \in Seq(Token), NEW token \in Token, Walks(blob),
         LET new == Append(blob, token)
             top == Last(Open(blob))
         IN  /\ Follows(new, Len(new), IF top = <<>> THEN 0 ELSE Last(top))
             /\ Len(Last(Open(new))) <= MaxWalkDepth
  PROVE  Walks(Append(blob, token))
<1> DEFINE new == Append(blob, token)
           end == Len(blob) + 1
<1>1. /\ new \in Seq(Token) /\ Len(new) = end /\ new[end] = token /\ Len(blob) \in Nat
      /\ \A n \in 1..Len(blob) : new[n] = blob[n]
      /\ \A n \in 1..end : Open(new)[n] = Open(blob)[n]
  BY OpenAppend
<1>2. Last(Open(new)) = Open(new)[end + 1] /\ Last(Open(blob)) = Open(blob)[end]
  BY <1>1, LastOpen
<1>3. /\ Follows(new, Len(new), IF Last(Open(blob)) = <<>> THEN 0 ELSE Last(Last(Open(blob))))
      /\ Len(Last(Open(new))) <= MaxWalkDepth
  OBVIOUS
<1> HIDE DEF new
<1> SUFFICES ASSUME NEW n \in 1..end
             PROVE  Follows(new, n, Scope(Open(new), n))
                    /\ Len(Open(new)[n + 1]) <= MaxWalkDepth
  BY <1>1 DEF Walks, new
<1>4. Scope(Open(new), n) = Scope(Open(blob), n)
  BY <1>1 DEF Scope
<1>5. CASE n = end
  BY <1>1, <1>2, <1>3, <1>4, <1>5 DEF Scope
<1>6. CASE n # end
  <2>1. n \in 1..Len(blob) /\ n + 1 \in 1..end /\ n \in 1..(Len(blob) + 1)
    BY <1>1, <1>6
  <2>2. Follows(blob, n, Scope(Open(blob), n)) /\ Len(Open(blob)[n + 1]) <= MaxWalkDepth
    BY <2>1 DEF Walks
  <2>3. Scope(Open(blob), n) \in 0..(n - 1)
    BY <2>1, ScopeIs
  <2>4. Scope(Open(blob), n) # 0 => Scope(Open(blob), n) \in 1..Len(blob)
    BY <1>1, <2>1, <2>3
  <2>5. Follows(new, n, Scope(Open(blob), n))
    BY <1>1, <2>1, <2>2, <2>4 DEF Follows
  <2> QED BY <1>1, <1>4, <2>1, <2>2, <2>5
<1> QED BY <1>5, <1>6

(* What Match knows of the innermost container.                             *)
LEMMA MatchTop ==
  ASSUME NEW blob \in Seq(Token), NEW fr \in Seq(Kinds), Match(blob, fr)
  PROVE  LET top == Last(Open(blob))
         IN  /\ top \in Seq(1..Len(blob)) /\ Len(top) \in Nat
             /\ \A k \in 1..Len(top) : top[k] \in 1..Len(blob)
             /\ Len(fr) = Len(top) + 1 /\ Last(fr) = fr[Len(top) + 1]
             /\ top = <<>> => Last(fr) = "object"
             /\ top # <<>> => /\ Len(top) # 0 /\ Last(top) \in 1..Len(blob)
                              /\ Last(fr) = blob[Last(top)].kind
<1> DEFINE top == Last(Open(blob))
<1>1. Len(blob) \in Nat /\ Len(blob) + 1 - 1 = Len(blob) /\ Len(blob) + 1 \in 1..(Len(blob) + 1)
  OBVIOUS
<1>2. top \in Seq(1..Len(blob)) /\ Len(top) \in Nat
      /\ \A k \in 1..Len(top) : top[k] \in 1..Len(blob)
  BY <1>1, ScopeIs, LastOpen
<1>3. /\ Len(fr) = Len(top) + 1 /\ fr[1] = "object"
      /\ \A n \in 1..Len(top) : fr[n + 1] = blob[top[n]].kind
  BY DEF Match
<1>4. Last(fr) = fr[Len(top) + 1]
  BY <1>2, <1>3 DEF Last
<1> HIDE DEF top
<1>5. top = <<>> => Last(fr) = "object"
  BY <1>3, <1>4
<1>6. ASSUME top # <<>>
      PROVE  /\ Len(top) # 0 /\ Last(top) \in 1..Len(blob)
             /\ Last(fr) = blob[Last(top)].kind
  <2>1. Len(top) # 0 /\ Len(top) \in 1..Len(top) /\ Last(top) = top[Len(top)]
    BY <1>2, <1>6, EmptySeq DEF Last
  <2> QED BY <1>2, <1>3, <1>4, <2>1
<1> QED BY <1>2, <1>3, <1>4, <1>5, <1>6 DEF top

(* A field, or EmitDetails, at the top level or in an object.               *)
LEMMA MatchField ==
  ASSUME NEW blob \in Seq(Token), NEW fr \in Seq(Kinds), Match(blob, fr),
         Len(fr) <= MaxDepth,
         NEW token \in Token, token.kind \in {"field", "details"}, Last(fr) = "object"
  PROVE  Match(Append(blob, token), fr)
<1> DEFINE new == Append(blob, token)
           top == Last(Open(blob))
<1>1. /\ new \in Seq(Token) /\ Len(new) = Len(blob) + 1 /\ new[Len(new)] = token
      /\ \A n \in 1..Len(blob) : new[n] = blob[n]
      /\ Last(Open(new)) = Walk(new, top, Len(new))
  BY OpenAppend
<1>2. Last(Open(new)) = top
  BY <1>1 DEF Walk
<1>3. /\ \A k \in 1..Len(top) : top[k] \in 1..Len(blob)
      /\ Len(fr) = Len(top) + 1 /\ Len(top) \in Nat
      /\ top # <<>> => Last(top) \in 1..Len(blob) /\ Last(fr) = blob[Last(top)].kind
  BY MatchTop
<1>4. Len(top) <= MaxWalkDepth
  BY <1>3, Constants, DepthAssumption
<1> HIDE DEF new, top
<1>5. Follows(new, Len(new), IF top = <<>> THEN 0 ELSE Last(top))
  <2>1. top # <<>> => Last(top) # 0
    BY <1>3
  <2> QED BY <1>1, <1>3, <2>1 DEF Follows
<1>6. Walks(new)
  BY <1>2, <1>4, <1>5, WalksAppend DEF Match, new, top
<1>7. /\ fr[1] = "object"
      /\ \A n \in 1..Len(top) : fr[n + 1] = new[top[n]].kind
  BY <1>1, <1>3 DEF Match, top
<1> QED BY <1>2, <1>3, <1>6, <1>7 DEF Match, new

LEMMA MatchBegin ==
  ASSUME NEW blob \in Seq(Token), NEW fr \in Seq(Kinds), Match(blob, fr),
         Len(fr) < MaxDepth,
         NEW token \in Token, token.kind \in Kinds, Last(fr) = "array" => token.kind = "object"
  PROVE  Match(Append(blob, token), Append(fr, token.kind))
<1> DEFINE new == Append(blob, token)
           top == Last(Open(blob))
           all == Append(fr, token.kind)
           tip == Append(top, Len(new))
<1>1. /\ new \in Seq(Token) /\ Len(new) = Len(blob) + 1 /\ new[Len(new)] = token
      /\ \A n \in 1..Len(blob) : new[n] = blob[n]
      /\ Last(Open(new)) = Walk(new, top, Len(new)) /\ Len(blob) \in Nat
  BY OpenAppend
<1>2. Last(Open(new)) = tip
  BY <1>1 DEF Walk, Kinds
<1>3. /\ \A k \in 1..Len(top) : top[k] \in 1..Len(blob)
      /\ Len(fr) = Len(top) + 1 /\ Len(top) \in Nat
      /\ top \in Seq(1..Len(blob))
      /\ top # <<>> => Last(top) \in 1..Len(blob) /\ Last(fr) = blob[Last(top)].kind
  BY MatchTop
<1> HIDE DEF top
<1>4. /\ Len(tip) = Len(top) + 1 /\ tip[Len(top) + 1] = Len(new)
      /\ \A n \in 1..Len(top) : tip[n] = top[n]
  <2>1. top \in Seq(Nat)
    BY <1>3
  <2> QED BY <1>1, <2>1, AppendProperties
<1>5. /\ Len(all) = Len(fr) + 1 /\ all[Len(fr) + 1] = token.kind
      /\ \A n \in 1..Len(fr) : all[n] = fr[n]
  BY AppendProperties
<1> HIDE DEF new, tip, all
<1>6. Len(tip) <= MaxWalkDepth
  BY <1>3, <1>4, Constants, DepthAssumption
<1>7. Follows(new, Len(new), IF top = <<>> THEN 0 ELSE Last(top))
  <2>1. top # <<>> => Last(top) # 0
    BY <1>3
  <2>2. CASE top = <<>>
    BY <1>1, <2>2 DEF Follows, Kinds
  <2>3. CASE top # <<>>
    <3> DEFINE scope == Last(top)
    <3>1. new[scope].kind = Last(fr) /\ scope # 0
      BY <1>1, <1>3, <2>1, <2>3
    <3>2. new[Len(new)].kind = token.kind
      BY <1>1
    <3> HIDE DEF scope
    <3>3. Follows(new, Len(new), scope)
      <4>1. token.kind \in Kinds /\ (Last(fr) = "array" => token.kind = "object")
        OBVIOUS
      <4>2. Last(fr) \in Kinds
        BY <1>3 DEF Last
      <4> QED BY <3>1, <3>2, <4>1, <4>2 DEF Follows, Kinds
    <3> QED BY <2>3, <3>3 DEF scope
  <2> QED BY <2>2, <2>3
<1>8. Walks(new)
  BY <1>2, <1>6, <1>7, WalksAppend DEF Match, new, top
<1>9. all[1] = "object"
  <2>1. 1 \in 1..Len(fr)
    BY <1>3
  <2> QED BY <1>5, <2>1 DEF Match
<1>10. ASSUME NEW n \in 1..Len(tip) PROVE all[n + 1] = new[tip[n]].kind
  <2>1. CASE n = Len(top) + 1
    BY <1>1, <1>3, <1>4, <1>5, <2>1
  <2>2. CASE n # Len(top) + 1
    <3>1. n \in 1..Len(top) /\ n + 1 \in 1..Len(fr)
      BY <1>3, <1>4, <2>2
    <3> QED BY <1>1, <1>3, <1>4, <1>5, <3>1 DEF Match, top
  <2> QED BY <2>1, <2>2
<1> QED BY <1>2, <1>3, <1>4, <1>5, <1>8, <1>9, <1>10 DEF Match, new, all

LEMMA MatchEnd ==
  ASSUME NEW blob \in Seq(Token), NEW fr \in Seq(Kinds), Match(blob, fr),
         Len(fr) <= MaxDepth, Len(fr) # 1,
         NEW token \in Token,
         token.kind = IF Last(fr) = "object" THEN "end_object" ELSE "end_array"
  PROVE  Match(Append(blob, token), Front(fr))
<1> DEFINE new == Append(blob, token)
           top == Last(Open(blob))
           all == Front(fr)
           tip == Front(top)
<1>1. /\ new \in Seq(Token) /\ Len(new) = Len(blob) + 1 /\ new[Len(new)] = token
      /\ \A n \in 1..Len(blob) : new[n] = blob[n]
      /\ Last(Open(new)) = Walk(new, top, Len(new)) /\ Len(blob) \in Nat
  BY OpenAppend
<1>2. /\ \A k \in 1..Len(top) : top[k] \in 1..Len(blob)
      /\ Len(fr) = Len(top) + 1 /\ Len(top) \in Nat
      /\ top \in Seq(1..Len(blob))
      /\ top # <<>> => Last(top) \in 1..Len(blob) /\ Last(fr) = blob[Last(top)].kind
  BY MatchTop
<1>3. Len(top) \in Nat \ {0} /\ top # <<>>
  BY <1>2
<1>4. Last(Open(new)) = tip
  BY <1>1, <1>3 DEF Walk
<1> HIDE DEF top
<1>5. Len(tip) = Len(top) - 1 /\ \A n \in 1..(Len(top) - 1) : tip[n] = top[n]
  BY <1>2, <1>3, FrontIs DEF tip
<1>6. Len(all) = Len(top) /\ \A n \in 1..Len(top) : all[n] = fr[n]
  BY <1>2, <1>3 DEF Front
<1> HIDE DEF new, tip, all
<1>7. Len(tip) <= MaxWalkDepth
  BY <1>2, <1>3, <1>5, Constants, DepthAssumption
<1>8. Follows(new, Len(new), IF top = <<>> THEN 0 ELSE Last(top))
  <2>1. Last(top) # 0 /\ new[Last(top)].kind = Last(fr)
    BY <1>1, <1>2, <1>3
  <2>2. Last(fr) \in Kinds
    BY <1>2 DEF Last
  <2> QED BY <1>1, <1>3, <2>1, <2>2 DEF Follows, Kinds
<1>9. Walks(new)
  BY <1>4, <1>7, <1>8, WalksAppend DEF Match, new, top
<1>10. all[1] = "object"
  <2>1. 1 \in 1..Len(top)
    BY <1>3
  <2> QED BY <1>6, <2>1 DEF Match
<1>11. ASSUME NEW n \in 1..Len(tip) PROVE all[n + 1] = new[tip[n]].kind
  <2>1. n \in 1..(Len(top) - 1) /\ n \in 1..Len(top) /\ n + 1 \in 1..Len(top)
    BY <1>3, <1>5
  <2>2. fr[n + 1] = blob[top[n]].kind
    BY <2>1 DEF Match, top
  <2> QED BY <1>1, <1>2, <1>5, <1>6, <2>1, <2>2
<1>12. Len(all) = Len(tip) + 1
  BY <1>3, <1>5, <1>6
<1> QED BY <1>4, <1>9, <1>10, <1>11, <1>12 DEF Match, new, all

-----------------------------------------------------------------------------
(* Lengths.                                                                 *)

LEMMA SizeIs ==
  ASSUME NEW token \in Token
  PROVE  Size(token) \in Nat \ {0}
<1>1. CASE token.kind = "details"
  BY <1>1, Constants DEF Size
<1>2. CASE token.kind \in {"end_object", "end_array"}
  BY <1>2 DEF Size
<1>3. CASE token.kind \in {"field", "object", "array"}
  <2>1. token.code \in Field \cup ObjectField \cup ArrayField
    BY <1>3 DEF Token
  <2>2. Size(token) = Length[token.code]
    BY <1>3 DEF Size
  <2> QED BY <2>1, <2>2, WriterAssumption DEF WriterAssumption
<1>4. token.kind \in {"field", "object", "array", "end_object", "end_array", "details"}
  BY DEF Token
<1> QED BY <1>1, <1>2, <1>3, <1>4

LEMMA LengthIs ==
  ASSUME NEW blob \in Seq(Token)
  PROVE  \E sum : /\ sum \in [0..Len(blob) -> Nat] /\ sum[0] = 0
                  /\ \A n \in 1..Len(blob) : sum[n] = sum[n - 1] + Size(blob[n])
                  /\ BlobLength(blob) = sum[Len(blob)]
<1> DEFINE N == Len(blob)
           F(g) == [n \in 0..N |-> IF n = 0 THEN 0 ELSE g[n - 1] + Size(blob[n])]
           length == CHOOSE g : g = F(g)
           step == [n \in 1..N |-> [s \in Nat |-> s + Size(blob[n])]]
<1>1. N \in Nat
  OBVIOUS
<1>2. \A n \in 1..N : Size(blob[n]) \in Nat
  BY SizeIs
<1>3. step \in [1..N -> [Nat -> Nat]]
  BY <1>2
<1>4. BlobLength(blob) = length[N]
  BY DEF BlobLength
<1> HIDE DEF step, F, length, N
<1>5. PICK g : Iterates(g, N, Nat, 0, step)
  BY <1>1, <1>3, Iteration
<1>6. \A n \in 0..N : g[n] = F(g)[n]
  <2> SUFFICES ASSUME NEW n \in 0..N PROVE g[n] = F(g)[n]
    OBVIOUS
  <2>1. CASE n = 0
    BY <1>5, <2>1 DEF F, Iterates
  <2>2. CASE n # 0
    <3>1. n \in 1..N /\ g[n - 1] \in Nat
      BY <1>1, <1>5, <2>2 DEF Iterates
    <3> QED BY <1>5, <2>2, <3>1 DEF F, Iterates, step
  <2> QED BY <2>1, <2>2
<1>7. g = F(g)
  <2>1. F(g) = [n \in 0..N |-> F(g)[n]]
    BY DEF F
  <2>2. g = [n \in 0..N |-> g[n]]
    BY <1>5 DEF Iterates
  <2> QED BY <1>6, <2>1, <2>2
<1>8. length = F(length)
  BY <1>7 DEF length
<1>9. \A n \in 0..N : length[n] = F(length)[n]
  BY <1>8
<1>10. length[0] = 0
  BY <1>1, <1>9 DEF F
<1>11. \A n \in 1..N : length[n] = length[n - 1] + Size(blob[n])
  BY <1>1, <1>9 DEF F
<1> DEFINE Typed == {n \in Nat : n <= N => length[n] \in Nat}
<1>12. 0 \in Typed
  BY <1>10
<1>13. ASSUME NEW n \in Nat, n \in Typed PROVE n + 1 \in Typed
  <2> SUFFICES ASSUME n + 1 <= N PROVE length[n + 1] \in Nat
    OBVIOUS
  <2>1. n + 1 \in 1..N /\ n + 1 - 1 = n /\ n <= N
    BY <1>1
  <2> QED BY <1>2, <1>11, <1>13, <2>1
<1>14. Nat \subseteq Typed
  <2> HIDE DEF Typed
  <2> QED BY <1>12, <1>13, SetInduction
<1>15. length \in [0..N -> Nat]
  <2>1. \A n \in 0..N : length[n] \in Nat
    BY <1>1, <1>14
  <2>2. F(length) = [n \in 0..N |-> F(length)[n]]
    BY DEF F
  <2>3. length = [n \in 0..N |-> length[n]]
    BY <1>8, <2>2
  <2> QED BY <2>1, <2>3
<1> QED BY <1>4, <1>10, <1>11, <1>15 DEF N

(* The length is a sum over the tokens, in any blob they agree with.        *)
LEMMA LengthPrefix ==
  ASSUME NEW a \in Seq(Token), NEW b \in Seq(Token),
         Len(a) <= Len(b), \A n \in 1..Len(a) : Size(a[n]) = Size(b[n])
  PROVE  /\ BlobLength(a) \in Nat
         /\ Len(a) = Len(b) => BlobLength(b) = BlobLength(a)
         /\ Len(b) = Len(a) + 1 => BlobLength(b) = BlobLength(a) + Size(b[Len(b)])
<1>1. PICK x : /\ x \in [0..Len(a) -> Nat] /\ x[0] = 0
               /\ \A n \in 1..Len(a) : x[n] = x[n - 1] + Size(a[n])
               /\ BlobLength(a) = x[Len(a)]
  BY LengthIs
<1>2. PICK y : /\ y \in [0..Len(b) -> Nat] /\ y[0] = 0
               /\ \A n \in 1..Len(b) : y[n] = y[n - 1] + Size(b[n])
               /\ BlobLength(b) = y[Len(b)]
  BY LengthIs
<1>3. Len(a) \in Nat /\ Len(b) \in Nat
  OBVIOUS
<1> DEFINE Same == {n \in Nat : n <= Len(a) => x[n] = y[n]}
<1>4. 0 \in Same
  BY <1>1, <1>2
<1>5. ASSUME NEW n \in Nat, n \in Same PROVE n + 1 \in Same
  <2> SUFFICES ASSUME n + 1 <= Len(a) PROVE x[n + 1] = y[n + 1]
    OBVIOUS
  <2>1. n + 1 \in 1..Len(a) /\ n + 1 \in 1..Len(b) /\ n + 1 - 1 = n /\ n <= Len(a)
    BY <1>3
  <2>2. x[n + 1] = x[n] + Size(a[n + 1]) /\ y[n + 1] = y[n] + Size(b[n + 1])
    BY <1>1, <1>2, <2>1
  <2>3. x[n] = y[n] /\ Size(a[n + 1]) = Size(b[n + 1])
    BY <1>5, <2>1
  <2> QED BY <2>2, <2>3
<1>6. Nat \subseteq Same
  <2> HIDE DEF Same
  <2> QED BY <1>4, <1>5, SetInduction
<1>7. x[Len(a)] = y[Len(a)]
  BY <1>3, <1>6
<1>8. ASSUME Len(b) = Len(a) + 1
      PROVE  BlobLength(b) = BlobLength(a) + Size(b[Len(b)])
  <2>1. Len(b) \in 1..Len(b) /\ Len(b) - 1 = Len(a)
    BY <1>3, <1>8
  <2> QED BY <1>1, <1>2, <1>7, <2>1
<1> QED BY <1>1, <1>2, <1>3, <1>7, <1>8

-----------------------------------------------------------------------------
(* The bytes are a legal beginning, and the frames what the parser would    *)
(* find open in them.                                                       *)
BytesInv == Match(written, frames) /\ pos = BlobLength(written)

LEMMA BytesInit ==
  ASSUME Init
  PROVE  BytesInv
<1>1. written \in Resumed /\ written \in Seq(Token)
  BY WriterAssumption DEF Init, WriterAssumption
<1>2. Walks(written) /\ Last(Open(written)) = <<>>
  BY <1>1, ResumedAssumption DEF ResumedAssumption
<1>3. frames = <<"object">> /\ pos = BlobLength(written)
  BY DEF Init
<1>4. Match(written, <<"object">>)
  BY <1>2 DEF Match
<1> QED BY <1>3, <1>4 DEF BytesInv

LEMMA BytesSame ==
  ASSUME BytesInv, UNCHANGED <<written, pos, frames>>
  PROVE  BytesInv'
  BY DEF BytesInv

LEMMA RejectBytes ==
  ASSUME BytesInv, Reject
  PROVE  BytesInv'
  BY BytesSame DEF Reject, writer

(* A token put at the cursor.                                               *)
LEMMA PutBytes ==
  ASSUME WriterInv, BytesInv, NEW token \in Token, Put(token, Size(token)),
         Match(Append(written, token), frames')
  PROVE  BytesInv'
<1>1. written \in Seq(Token) /\ written' = Append(written, token) /\ pos' = pos + Size(token)
  BY DEF WriterInv, TypeOK, Put
<1> DEFINE new == Append(written, token)
<1>2. /\ new \in Seq(Token) /\ Len(new) = Len(written) + 1 /\ new[Len(new)] = token
      /\ \A n \in 1..Len(written) : new[n] = written[n]
      /\ Len(written) \in Nat
  BY <1>1
<1> HIDE DEF new
<1>3. BlobLength(new) = BlobLength(written) + Size(token)
  BY <1>1, <1>2, LengthPrefix
<1> QED BY <1>1, <1>3 DEF BytesInv, new

LEMMA FieldBytes ==
  ASSUME WriterInv, BytesInv, NEW f \in Field, CheckWrite(FALSE),
         Put(FieldToken(f), Length[f]), UNCHANGED frames
  PROVE  BytesInv'
<1> DEFINE token == FieldToken(f)
<1>1. token \in Token /\ token.kind = "field" /\ Size(token) = Length[f]
  BY FieldTokens DEF FieldToken, Size
<1>2. /\ written \in Seq(Token) /\ frames \in Seq(Kinds) /\ Len(frames) \in 1..MaxDepth
      /\ Match(written, frames)
  BY DEF WriterInv, TypeOK, BytesInv, Kinds
<1>3. Last(frames) = "object"
  <2>1. Last(frames) # "array"
    BY DEF CheckWrite
  <2>2. Last(frames) \in Kinds
    BY <1>2 DEF Last
  <2> QED BY <2>1, <2>2 DEF Kinds
<1> HIDE DEF token
<1>4. Match(Append(written, token), frames)
  BY <1>1, <1>2, <1>3, Constants, MatchField
<1>5. Put(token, Size(token))
  BY <1>1 DEF token
<1> QED BY <1>1, <1>4, <1>5, PutBytes

LEMMA BeginBytes ==
  ASSUME WriterInv, BytesInv, NEW kind \in {"object", "array"}, NEW f,
         f \in IF kind = "object" THEN ObjectField ELSE ArrayField, Begin(kind, f)
  PROVE  BytesInv'
<1> DEFINE token == [kind |-> kind, code |-> f, value |-> 0]
<1>1. CASE Reject
  BY <1>1, RejectBytes
<1>2. CASE /\ CheckWrite(kind = "object") /\ Depth + 1 < MaxDepth
           /\ Put(token, Length[f]) /\ frames' = Append(frames, kind)
  <2>1. token \in Token /\ token.kind = kind /\ kind \in Kinds /\ Size(token) = Length[f]
    BY FieldTokens DEF Size, Kinds
  <2>2. /\ written \in Seq(Token) /\ frames \in Seq(Kinds) /\ Len(frames) \in 1..MaxDepth
        /\ Match(written, frames)
    BY DEF WriterInv, TypeOK, BytesInv, Kinds
  <2>3. Len(frames) < MaxDepth /\ (Last(frames) = "array" => kind = "object")
    BY <1>2, <2>2, Constants DEF Depth, CheckWrite
  <2> HIDE DEF token
  <2>4. Match(Append(written, token), Append(frames, kind))
    BY <2>1, <2>2, <2>3, MatchBegin
  <2> QED BY <1>2, <2>1, <2>4, PutBytes
<1> QED BY <1>1, <1>2 DEF Begin

LEMMA EndBytes ==
  ASSUME WriterInv, BytesInv, NEW kind \in {"object", "array"}, EndContainer(kind)
  PROVE  BytesInv'
<1> DEFINE token == Marker(IF kind = "object" THEN "end_object" ELSE "end_array")
<1>1. CASE Reject
  BY <1>1, RejectBytes
<1>2. CASE /\ Depth # 0 /\ Last(frames) = kind
           /\ Put(token, 1) /\ frames' = Front(frames)
  <2>1. /\ token \in Token /\ Size(token) = 1
        /\ token.kind = IF kind = "object" THEN "end_object" ELSE "end_array"
    BY FieldTokens DEF Marker, Size
  <2>2. /\ written \in Seq(Token) /\ frames \in Seq(Kinds) /\ Len(frames) \in 1..MaxDepth
        /\ Match(written, frames)
    BY DEF WriterInv, TypeOK, BytesInv, Kinds
  <2>3. Len(frames) # 1 /\ Len(frames) <= MaxDepth
    BY <1>2, <2>2, Constants DEF Depth
  <2> HIDE DEF token
  <2>4. Match(Append(written, token), Front(frames))
    BY <1>2, <2>1, <2>2, <2>3, MatchEnd
  <2> QED BY <1>2, <2>1, <2>4, PutBytes
<1> QED BY <1>1, <1>2 DEF EndContainer

LEMMA CommitBytes ==
  ASSUME WriterInv, BytesInv, Ready, Commit
  PROVE  BytesInv'
<1> DEFINE patched == PatchedBlob(FeeBase(FeeLength))
           token == [kind |-> "details", code |-> "none", value |-> nonces + 1]
           new == Append(patched, token)
<1>1. /\ written \in Seq(Token) /\ frames \in Seq(Kinds) /\ Len(frames) \in 1..MaxDepth
      /\ Match(written, frames) /\ pos = BlobLength(written) /\ pos \in Nat /\ nonces \in Nat
  BY Constants DEF WriterInv, TypeOK, BytesInv, Kinds
<1>2. FeeLength \in Nat
  BY <1>1, Constants DEF FeeLength
<1>3. /\ patched \in Seq(Token) /\ Len(patched) = Len(written)
      /\ \A n \in 1..Len(written) :
           patched[n].kind = written[n].kind /\ patched[n].code = written[n].code
  BY <1>2, PatchedShape
<1>4. token \in Token /\ token.kind = "details" /\ Size(token) = DetailsLen
  BY <1>1, FieldTokens DEF Size
<1>5. written' = new /\ pos' = pos + DetailsLen /\ frames' = frames
  BY DEF Commit
<1> HIDE DEF patched, token
<1>6. Match(patched, frames)
  BY <1>1, <1>3, MatchKinds
<1>7. Last(frames) = "object"
  <2>1. Len(frames) = 1
    BY <1>1, Constants DEF Ready, Depth
  <2>2. frames[1] = "object"
    BY <1>1 DEF Match
  <2> QED BY <2>1, <2>2 DEF Last
<1>8. Match(new, frames)
  BY <1>1, <1>3, <1>4, <1>6, <1>7, Constants, MatchField
<1>9. BlobLength(patched) = pos
  <2>1. \A n \in 1..Len(written) : Size(patched[n]) = Size(written[n])
    BY <1>3 DEF Size
  <2> QED BY <1>1, <1>3, <2>1, LengthPrefix
<1>10. /\ new \in Seq(Token) /\ Len(new) = Len(patched) + 1 /\ new[Len(new)] = token
       /\ \A n \in 1..Len(patched) : new[n] = patched[n]
       /\ Len(patched) \in Nat
  BY <1>3, <1>4
<1> HIDE DEF new
<1>11. BlobLength(new) = pos + DetailsLen
  BY <1>3, <1>4, <1>9, <1>10, LengthPrefix
<1> QED BY <1>5, <1>8, <1>11 DEF BytesInv

LEMMA BytesStep ==
  ASSUME WriterInv, BytesInv, [Next]_vars
  PROVE  BytesInv'
<1>1. CASE Write
  <2>1. ASSUME NEW f \in Field, NEW encodes, WriteField(f, encodes)
        PROVE  BytesInv'
    BY <2>1, RejectBytes, FieldBytes DEF WriteField
  <2>2. ASSUME NEW f \in VlField \cup AmountField, NEW answered, WriteOther(f, answered)
        PROVE  BytesInv'
    <3>1. f \in Field
      BY DEF Field
    <3> QED BY <2>2, <3>1, RejectBytes, FieldBytes DEF WriteOther
  <2>3. ASSUME NEW f \in ObjectField, Begin("object", f)
        PROVE  BytesInv'
    BY <2>3, BeginBytes
  <2>4. ASSUME NEW f \in ArrayField, Begin("array", f)
        PROVE  BytesInv'
    BY <2>4, BeginBytes
  <2>5. ASSUME NEW kind \in {"object", "array"}, EndContainer(kind)
        PROVE  BytesInv'
    BY <2>5, EndBytes
  <2>6. ASSUME NEW offsets, EmitPlumbing(offsets)
        PROVE  BytesInv'
    BY <2>6, RejectBytes, BytesSame DEF EmitPlumbing
  <2>7. AmountField \cup {sfFee} \subseteq Field
    BY DEF Field, Plumbing, Patched
  <2> QED BY <1>1, <2>1, <2>2, <2>3, <2>4, <2>5, <2>6, <2>7 DEF Write
<1>2. ASSUME NEW fails, PrepareForEmit(fails)
      PROVE  BytesInv'
  BY <1>2, RejectBytes, CommitBytes DEF PrepareForEmit
<1>3. CASE EtxnDetails
  BY <1>3, BytesSame DEF EtxnDetails, writer
<1>4. CASE UNCHANGED vars
  BY <1>4, BytesSame DEF vars, writer
<1> QED BY <1>1, <1>2, <1>3, <1>4 DEF Next

LEMMA BytesMatch ==
  ASSUME WriterInv, BytesInv
  PROVE  FramesMatchBlob
<1> DEFINE top == Last(Open(written))
<1>1. /\ written \in Seq(Token) /\ frames \in Seq(Kinds) /\ Len(frames) \in 1..MaxDepth
      /\ Match(written, frames)
  BY DEF WriterInv, TypeOK, BytesInv, Kinds
<1>2. Len(frames) = Len(top) + 1 /\ Len(top) \in Nat
  BY <1>1, MatchTop
<1>3. \A n \in 1..Len(top) : frames[n + 1] = written[top[n]].kind
  BY <1>1 DEF Match
<1> HIDE DEF top
<1>4. Tail(frames) = [n \in 1..Len(top) |-> frames[n + 1]]
  <2>1. frames # <<>>
    BY <1>1, EmptySeq
  <2>2. /\ Tail(frames) \in Seq(Kinds) /\ Len(Tail(frames)) = Len(frames) - 1
        /\ \A i \in 1..Len(Tail(frames)) : Tail(frames)[i] = frames[i + 1]
    BY <1>1, <2>1, HeadTailProperties
  <2> DEFINE tail == Tail(frames)
  <2> HIDE DEF tail
  <2>3. Len(tail) = Len(top)
    BY <1>2, <2>2 DEF tail
  <2>4. tail \in [1..Len(tail) -> Kinds]
    BY <2>2, LenProperties DEF tail
  <2>5. tail = [n \in 1..Len(top) |-> tail[n]]
    BY <2>3, <2>4
  <2>6. \A n \in 1..Len(top) : tail[n] = frames[n + 1]
    BY <2>2, <2>3 DEF tail
  <2> QED BY <2>5, <2>6 DEF tail
<1>5. Tail(frames) = [n \in 1..Len(top) |-> written[top[n]].kind]
  BY <1>3, <1>4
<1> QED BY <1>1, <1>5 DEF FramesMatchBlob, BytesInv, Match, top

(* The writer's frames never lie about the bytes: whatever is called, in    *)
(* whatever order, the host's parser would accept what is written so far as *)
(* a beginning and find the same containers open (sto_writer.rs:361-366,    *)
(* 684-770).                                                                *)
THEOREM FramesAreTrue == Spec => []FramesMatchBlob
<1>1. Init => WriterInv /\ BytesInv
  BY TypeInit, BytesInit
<1>2. WriterInv /\ BytesInv /\ [Next]_vars => WriterInv' /\ BytesInv'
  BY WriterStep, BytesStep
<1>3. WriterInv /\ BytesInv => FramesMatchBlob
  BY BytesMatch
<1> QED BY <1>1, <1>2, <1>3, PTL DEF Spec

-----------------------------------------------------------------------------
(* The six plumbing fields are six.                                         *)
Small(S, n) == IsFiniteSet(S) /\ Cardinality(S) <= n

LEMMA AddOne ==
  ASSUME NEW S, NEW x, NEW n \in Nat, Small(S, n)
  PROVE  Small(S \cup {x}, n + 1)
<1>1. IsFiniteSet(S \cup {x}) /\ Cardinality(S) \in Nat
  BY FS_AddElement, FS_CardinalityType DEF Small
<1>2. Cardinality(S \cup {x}) = IF x \in S THEN Cardinality(S) ELSE Cardinality(S) + 1
  BY FS_AddElement DEF Small
<1> QED BY <1>1, <1>2 DEF Small

LEMMA AtMostFive ==
  ASSUME NEW a, NEW b, NEW c, NEW d, NEW e
  PROVE  Cardinality({a, b, c, d, e}) # 6
<1>1. Small({}, 0)
  BY FS_EmptySet DEF Small
<1>2. Small({} \cup {a}, 0 + 1)
  BY <1>1, AddOne
<1>3. Small({a}, 1)
  BY <1>2
<1>4. Small({a} \cup {b}, 1 + 1)
  BY <1>3, AddOne
<1>5. Small({a, b}, 2)
  BY <1>4
<1>6. Small({a, b} \cup {c}, 2 + 1)
  BY <1>5, AddOne
<1>7. Small({a, b, c}, 3)
  BY <1>6
<1>8. Small({a, b, c} \cup {d}, 3 + 1)
  BY <1>7, AddOne
<1>9. Small({a, b, c, d}, 4)
  BY <1>8
<1>10. Small({a, b, c, d} \cup {e}, 4 + 1)
  BY <1>9, AddOne
<1>11. Small({a, b, c, d, e}, 5)
  BY <1>10
<1> QED BY <1>11, FS_CardinalityType DEF Small

Six(a, b, c, d, e, f) == Cardinality({a, b, c, d, e, f}) = 6

LEMMA AllDiffer ==
  ASSUME NEW a, NEW b, NEW c, NEW d, NEW e, NEW f, Six(a, b, c, d, e, f)
  PROVE  /\ a \notin {c, d, e, f} /\ b \notin {c, d, e, f}
         /\ c \notin {d, e, f} /\ d \notin {e, f} /\ e # f
<1>1. CASE a \in {c, d, e, f}
  <2>1. {a, b, c, d, e, f} = {b, c, d, e, f}
    BY <1>1
  <2> QED BY AtMostFive, <2>1 DEF Six
<1>2. CASE b \in {c, d, e, f}
  <2>1. {a, b, c, d, e, f} = {a, c, d, e, f}
    BY <1>2
  <2> QED BY AtMostFive, <2>1 DEF Six
<1>3. CASE c \in {d, e, f}
  <2>1. {a, b, c, d, e, f} = {a, b, d, e, f}
    BY <1>3
  <2> QED BY AtMostFive, <2>1 DEF Six
<1>4. CASE d \in {e, f}
  <2>1. {a, b, c, d, e, f} = {a, b, c, e, f}
    BY <1>4
  <2> QED BY AtMostFive, <2>1 DEF Six
<1>5. CASE e = f
  <2>1. {a, b, c, d, e, f} = {a, b, c, d, e}
    BY <1>5
  <2> QED BY AtMostFive, <2>1 DEF Six
<1> QED BY <1>1, <1>2, <1>3, <1>4, <1>5

LEMMA SixFields ==
  /\ Presence \cap Patched = {}
  /\ sfFirstLedgerSequence # sfLastLedgerSequence
  /\ sfFee \notin {sfFirstLedgerSequence, sfLastLedgerSequence}
  /\ sfAccount \notin {sfFirstLedgerSequence, sfLastLedgerSequence, sfFee}
<1>1. Six(sfSequence, sfSigningPubKey, sfFirstLedgerSequence, sfLastLedgerSequence,
          sfFee, sfAccount)
  <2>1. Plumbing = {sfSequence, sfSigningPubKey, sfFirstLedgerSequence,
                    sfLastLedgerSequence, sfFee, sfAccount}
    BY DEF Plumbing, Presence, Patched
  <2> QED BY <2>1, HostAssumption DEF HostAssumption, Six
<1> QED BY <1>1, AllDiffer DEF Presence, Patched

-----------------------------------------------------------------------------
(* A hook that writes plumbing at the top level only, and with the methods  *)
(* that record it.                                                          *)
PlumbingRecorded == Nested = {} /\ (VlField \cup AmountField) \cap Plumbing = {}

(* Each plumbing field is in the bytes once, at the top level, and what     *)
(* only has to be present is empty or zero.                                 *)
PlumbingShape(blob) ==
  /\ \A i, j \in 1..Len(blob) :
       blob[i].code \in Plumbing /\ blob[i].code = blob[j].code => i = j
  /\ \A i \in 1..Len(blob) :
       /\ blob[i].code \in Plumbing => Scope(Open(blob), i) = 0
       /\ blob[i].code \in Presence => blob[i].value = 0

(* A recorded field is there, and once prepared every patched one holds     *)
(* what the host told.                                                      *)
Recorded ==
  /\ seen \subseteq Codes(written)
  /\ finalized =>
       /\ Len(frames) = 1 /\ seen = Presence
       /\ \A f \in Patched :
            offset[f] # 0 /\ written[offset[f]].value = Patch(f, FeeBase(pos))

PlumbingInv == PlumbingShape(written) /\ Recorded

LEMMA PlumbingIsData ==
  ASSUME NEW blob \in Seq(Token), NEW n \in 1..Len(blob), blob[n].code \in Plumbing
  PROVE  IsData(blob[n]) /\ blob[n].kind = "field"
<1>1. blob[n] \in Token /\ blob[n].code \in Field
  BY DEF Field
<1> QED BY <1>1, WriterAssumption, FieldsAreFields DEF IsData

LEMMA PlumbingInit ==
  ASSUME Init, PlumbingRecorded
  PROVE  PlumbingInv
<1>1. written \in Resumed /\ written \in Seq(Token)
  BY WriterAssumption DEF Init, WriterAssumption
<1>2. /\ Repeated(written) = {}
      /\ \A n \in 1..Len(written) :
           /\ written[n].code \in Plumbing => Scope(Open(written), n) = 0
           /\ written[n].code \in Presence => written[n].value = 0
  BY <1>1, ResumedAssumption DEF ResumedAssumption, PlumbingRecorded
<1>3. ASSUME NEW i \in 1..Len(written), NEW j \in 1..Len(written), i < j,
             written[i].code \in Plumbing, written[i].code = written[j].code
      PROVE  FALSE
  <2>1. IsData(written[i]) /\ IsData(written[j])
    BY <1>1, <1>3, PlumbingIsData
  <2>2. Siblings(written, Open(written), i, j)
    BY <1>2, <1>3, <2>1 DEF Siblings
  <2>3. i \in 1..(j - 1)
    BY <1>3
  <2> QED BY <1>2, <1>3, <2>2, <2>3 DEF Repeated
<1>4. PlumbingShape(written)
  <2>1. \A i, j \in 1..Len(written) : i = j \/ i < j \/ j < i
    OBVIOUS
  <2>2. \A i, j \in 1..Len(written) :
          written[i].code \in Plumbing /\ written[i].code = written[j].code => i = j
    BY <1>3, <2>1
  <2> QED BY <1>2, <2>2 DEF PlumbingShape
<1>5. Recorded
  BY DEF Init, Recorded
<1> QED BY <1>4, <1>5 DEF PlumbingInv

LEMMA PlumbingSame ==
  ASSUME PlumbingInv, UNCHANGED writer
  PROVE  PlumbingInv'
  BY DEF PlumbingInv, PlumbingShape, Recorded, Codes, writer

(* A token that is not plumbing, or a missing plumbing field at the top     *)
(* level.                                                                   *)
LEMMA ShapeAppend ==
  ASSUME NEW blob \in Seq(Token), NEW token \in Token, PlumbingShape(blob),
         token.code \in Plumbing =>
           /\ token.code \notin Codes(blob) /\ Last(Open(blob)) = <<>>
           /\ token.code \in Presence => token.value = 0
  PROVE  PlumbingShape(Append(blob, token)) /\ Codes(blob) \subseteq Codes(Append(blob, token))
         /\ token.code \in Codes(Append(blob, token))
<1> DEFINE new == Append(blob, token)
           end == Len(blob) + 1
<1>1. /\ new \in Seq(Token) /\ Len(new) = end /\ new[end] = token /\ Len(blob) \in Nat
      /\ \A n \in 1..Len(blob) : new[n] = blob[n]
      /\ \A n \in 1..end : Open(new)[n] = Open(blob)[n]
  BY OpenAppend
<1> HIDE DEF new
<1>2. Presence \subseteq Plumbing
  BY DEF Plumbing
<1>3. \A n \in 1..end : n = end \/ n \in 1..Len(blob)
  BY <1>1
<1>4. ASSUME NEW i \in 1..end, NEW j \in 1..end, new[i].code \in Plumbing,
             new[i].code = new[j].code
      PROVE  i = j
  BY <1>1, <1>3, <1>4 DEF PlumbingShape, Codes
<1>5. ASSUME NEW i \in 1..end
      PROVE  /\ new[i].code \in Plumbing => Scope(Open(new), i) = 0
             /\ new[i].code \in Presence => new[i].value = 0
  <2>1. Scope(Open(new), i) = Scope(Open(blob), i)
    BY <1>1 DEF Scope
  <2>2. CASE i = end
    <3>1. Last(Open(blob)) = Open(blob)[end]
      BY LastOpen
    <3> QED BY <1>1, <1>2, <2>1, <2>2, <3>1 DEF Scope
  <2>3. CASE i \in 1..Len(blob)
    BY <1>1, <2>1, <2>3 DEF PlumbingShape
  <2> QED BY <1>3, <2>2, <2>3
<1>6. PlumbingShape(new)
  BY <1>1, <1>4, <1>5 DEF PlumbingShape
<1>7. Codes(blob) \subseteq Codes(new) /\ token.code \in Codes(new)
  <2>1. end \in 1..end /\ \A n \in 1..Len(blob) : n \in 1..end
    BY <1>1
  <2> QED BY <1>1, <2>1 DEF Codes
<1> QED BY <1>6, <1>7 DEF new

-----------------------------------------------------------------------------
(* PlumbingInv, one lemma for each operation.                               *)

(* At the top level nothing is open in the bytes.                           *)
LEMMA TopIsClosed ==
  ASSUME WriterInv, BytesInv, Depth = 0
  PROVE  Last(Open(written)) = <<>>
<1>1. /\ written \in Seq(Token) /\ frames \in Seq(Kinds) /\ Match(written, frames)
      /\ Len(frames) = 1
  BY DEF WriterInv, TypeOK, BytesInv, Kinds, Depth
<1> QED BY <1>1, MatchTop

LEMMA AppendPlumbing ==
  ASSUME WriterInv, PlumbingInv, ~finalized, NEW token \in Token, NEW n, Put(token, n),
         token.code \in Plumbing =>
           /\ token.code \notin Codes(written) /\ Last(Open(written)) = <<>>
           /\ token.code \in Presence => token.value = 0,
         seen' \subseteq seen \cup {token.code}
  PROVE  PlumbingInv'
<1>1. /\ written \in Seq(Token) /\ PlumbingShape(written) /\ seen \subseteq Codes(written)
      /\ written' = Append(written, token) /\ ~finalized'
  BY DEF WriterInv, TypeOK, PlumbingInv, Recorded, Put
<1>2. /\ PlumbingShape(written') /\ Codes(written) \subseteq Codes(written')
      /\ token.code \in Codes(written')
  BY <1>1, ShapeAppend
<1> QED BY <1>1, <1>2 DEF PlumbingInv, Recorded

LEMMA WriteFieldPlumbing ==
  ASSUME WriterInv, BytesInv, PlumbingInv, PlumbingRecorded,
         NEW f \in Field, NEW encodes, Placed(f), WriteField(f, encodes)
  PROVE  PlumbingInv'
<1>1. CASE Reject
  BY <1>1, PlumbingSame DEF Reject
<1>2. CASE /\ ~PlumbingAlreadySet(f) /\ CheckWrite(FALSE)
           /\ Put(FieldToken(f), Length[f])
           /\ seen' = IF f \in Presence THEN seen \cup {f} ELSE seen
  <2>1. FieldToken(f) \in Token /\ FieldToken(f).code = f /\ FieldToken(f).value = 0
    BY FieldTokens DEF FieldToken
  <2>2. ASSUME f \in Plumbing
        PROVE  f \notin Codes(written) /\ Last(Open(written)) = <<>>
    <3>1. Depth = 0
      BY <2>2 DEF Placed, PlumbingRecorded
    <3>2. f \notin Codes(written)
      BY <1>2, <2>2 DEF Placed, Codes
    <3> QED BY <3>1, <3>2, TopIsClosed
  <2>3. ~finalized /\ seen' \subseteq seen \cup {FieldToken(f).code}
    BY <1>2, <2>1 DEF CheckWrite
  <2> QED BY <1>2, <2>1, <2>2, <2>3, AppendPlumbing
<1> QED BY <1>1, <1>2 DEF WriteField

(* Any other token.                                                         *)
LEMMA OtherPlumbing ==
  ASSUME WriterInv, PlumbingInv, ~finalized, NEW token \in Token, NEW n, Put(token, n),
         token.code \notin Plumbing, UNCHANGED seen
  PROVE  PlumbingInv'
  BY AppendPlumbing

LEMMA WriteOtherPlumbing ==
  ASSUME WriterInv, PlumbingInv, PlumbingRecorded,
         NEW f \in VlField \cup AmountField, NEW answered, WriteOther(f, answered)
  PROVE  PlumbingInv'
<1>1. FieldToken(f) \in Token /\ FieldToken(f).code \notin Plumbing
  BY FieldTokens DEF FieldToken, PlumbingRecorded, Field
<1>2. CASE Reject
  BY <1>2, PlumbingSame DEF Reject
<1>3. CASE CheckWrite(FALSE) /\ Put(FieldToken(f), Length[f]) /\ UNCHANGED seen
  BY <1>1, <1>3, OtherPlumbing DEF CheckWrite
<1> QED BY <1>2, <1>3 DEF WriteOther

LEMMA ContainerPlumbing ==
  ASSUME WriterInv, PlumbingInv, NEW kind \in {"object", "array"}, NEW f,
         \/ f \in ObjectField /\ kind = "object" /\ Begin(kind, f)
         \/ f \in ArrayField /\ kind = "array" /\ Begin(kind, f)
         \/ EndContainer(kind)
  PROVE  PlumbingInv'
<1>1. Plumbing \subseteq Field
  BY DEF Field
<1>2. "none" \notin Plumbing /\ Plumbing \cap (ObjectField \cup ArrayField) = {}
  BY <1>1, WriterAssumption DEF WriterAssumption
<1>3. CASE Reject
  BY <1>3, PlumbingSame DEF Reject
<1>4. CASE /\ \/ f \in ObjectField /\ kind = "object"
              \/ f \in ArrayField /\ kind = "array"
           /\ Begin(kind, f) /\ ~Reject
  <2> DEFINE token == [kind |-> kind, code |-> f, value |-> 0]
  <2>1. token.code \notin Plumbing
    BY <1>2, <1>4
  <2>2. token \in Token
    BY <1>4, FieldTokens
  <2> QED BY <1>4, <2>1, <2>2, OtherPlumbing DEF Begin, CheckWrite
<1>5. CASE EndContainer(kind) /\ ~Reject
  <2> DEFINE token == Marker(IF kind = "object" THEN "end_object" ELSE "end_array")
  <2>1. token \in Token /\ token.code \notin Plumbing
    BY <1>2, FieldTokens DEF Marker
  <2> QED BY <1>5, <2>1, OtherPlumbing DEF EndContainer
<1> QED BY <1>3, <1>4, <1>5, Zenon

(* What emit_plumbing was shown holds all six.                              *)
LEMMA EmitPlumbingPlumbing ==
  ASSUME WriterInv, PlumbingInv, NEW p \in Resumed, IsPrefix(p, written),
         EmitPlumbing(OffsetsOf[p])
  PROVE  PlumbingInv'
<1>1. CASE Reject
  BY <1>1, PlumbingSame DEF Reject
<1>2. CASE /\ ~finalized /\ \A f \in Patched : OffsetsOf[p][f] <= Len(written)
           /\ seen' = Presence /\ UNCHANGED <<written, finalized>>
  <2>1. p \in Seq(Token) /\ written \in Seq(Token) /\ Len(written) <= Capacity
    BY WriterAssumption, Constants DEF WriterAssumption, WriterInv, TypeOK, TokensFit
  <2>2. Len(p) <= Len(written) /\ \A n \in 1..Len(p) : p[n] = written[n]
    <3>1. Len(p) <= Len(written) /\ SubSeq(p, 1, Len(p)) = SubSeq(written, 1, Len(p))
      BY DEF IsPrefix
    <3>2. ASSUME NEW n \in 1..Len(p)
          PROVE  p[n] = written[n]
      <4>1. SubSeq(p, 1, Len(p))[n] = p[n] /\ SubSeq(written, 1, Len(p))[n] = written[n]
        BY <2>1, <3>1
      <4> QED BY <3>1, <4>1
    <3> QED BY <3>1, <3>2
  <2>3. Codes(p) \subseteq Codes(written)
    <3>1. \A n \in 1..Len(p) : n \in 1..Len(written)
      BY <2>1, <2>2
    <3> QED BY <2>2, <3>1 DEF Codes
  <2>4. ASSUME NEW f \in Patched
        PROVE  f \in Codes(p)
    <3>1. OffsetsOf[p][f] = IF \E n \in 1..Len(p) : p[n].code = f
                            THEN CHOOSE n \in 1..Len(p) : p[n].code = f ELSE Capacity + 1
      BY DEF OffsetsOf
    <3>2. OffsetsOf[p][f] <= Len(written)
      BY <1>2
    <3>3. OffsetsOf[p][f] # Capacity + 1
      BY <2>1, <3>2, Constants
    <3> QED BY <3>1, <3>3 DEF Codes
  <2>5. Presence \subseteq Codes(p)
    BY <2>4, ResumedAssumption DEF ResumedAssumption
  <2> QED BY <1>2, <2>3, <2>5 DEF PlumbingInv, Recorded
<1> QED BY <1>1, <1>2 DEF EmitPlumbing

(* The offsets of two patched fields differ, and what a field's offset      *)
(* points at is patched with that field's value.                            *)
LEMMA PatchedValues ==
  ASSUME WriterInv, PlumbingShape(written), NEW fee
  PROVE  LET patched == PatchedBlob(fee)
         IN  /\ \A f \in Patched : offset[f] # 0 => patched[offset[f]].value = Patch(f, fee)
             /\ \A n \in 1..Len(written) :
                  written[n].code \in Presence => patched[n].value = written[n].value
<1> DEFINE patched == PatchedBlob(fee)
<1>1. written \in Seq(Token) /\ offset \in [Patched -> 0..Len(written)]
  BY DEF WriterInv, TypeOK
<1>2. \A f \in Patched : offset[f] # 0 => written[offset[f]].code = f
  BY DEF WriterInv, OffsetsPoint
<1>3. ASSUME NEW f \in Patched, offset[f] # 0
      PROVE  patched[offset[f]].value = Patch(f, fee)
  <2> DEFINE n == offset[f]
             g == CHOOSE h \in Patched : offset[h] = n
  <2>1. n \in 1..Len(written) /\ written[n] \in Token
    BY <1>1, <1>3
  <2>2. g \in Patched /\ offset[g] = n
    OBVIOUS
  <2>3. g = f
    BY <1>2, <1>3, <2>2
  <2>4. patched[n] = [written[n] EXCEPT !.value = Patch(g, fee)]
    BY <2>1 DEF PatchedBlob
  <2>5. patched[n].value = Patch(g, fee)
    BY <2>1, <2>4 DEF Token
  <2> QED BY <2>3, <2>5
<1>4. ASSUME NEW n \in 1..Len(written), written[n].code \in Presence
      PROVE  patched[n].value = written[n].value
  <2>1. ~\E f \in Patched : offset[f] = n
    BY <1>2, <1>4, SixFields
  <2> QED BY <2>1 DEF PatchedBlob
<1> QED BY <1>3, <1>4

LEMMA CommitPlumbing ==
  ASSUME WriterInv, BytesInv, PlumbingInv, Ready, Commit
  PROVE  PlumbingInv'
<1> DEFINE fee == FeeBase(FeeLength)
           patched == PatchedBlob(fee)
           token == [kind |-> "details", code |-> "none", value |-> nonces + 1]
<1>1. /\ written \in Seq(Token) /\ pos \in Nat /\ nonces \in Nat
      /\ PlumbingShape(written) /\ seen \subseteq Codes(written)
      /\ offset \in [Patched -> 0..Len(written)] /\ Len(written) \in Nat
  BY Constants DEF WriterInv, TypeOK, PlumbingInv, Recorded
<1>2. FeeLength \in Nat
  BY <1>1, Constants DEF FeeLength
<1>3. /\ patched \in Seq(Token) /\ Len(patched) = Len(written)
      /\ \A n \in 1..Len(written) :
           patched[n].kind = written[n].kind /\ patched[n].code = written[n].code
  BY <1>2, PatchedShape
<1>4. /\ \A f \in Patched : offset[f] # 0 => patched[offset[f]].value = Patch(f, fee)
      /\ \A n \in 1..Len(written) :
           written[n].code \in Presence => patched[n].value = written[n].value
  BY <1>1, PatchedValues
<1>5. token \in Token /\ token.code \notin Plumbing
  <2>1. token \in Token /\ token.code = "none"
    BY <1>1, FieldTokens
  <2> QED BY <2>1, WriterAssumption DEF WriterAssumption, Field
<1>6. written' = Append(patched, token) /\ pos' = FeeLength /\ UNCHANGED <<frames, seen, offset>>
  BY DEF Commit, FeeLength
<1>7. Codes(patched) = Codes(written)
  BY <1>3 DEF Codes
<1> HIDE DEF patched, token, fee
<1>8. PlumbingShape(patched)
  <2>1. \A n \in 1..(Len(written) + 1) : Open(patched)[n] = Open(written)[n]
    BY <1>1, <1>3, OpenPrefix
  <2>2. \A n \in 1..Len(written) : Scope(Open(patched), n) = Scope(Open(written), n)
    BY <1>1, <2>1 DEF Scope
  <2> QED BY <1>1, <1>3, <1>4, <2>2 DEF PlumbingShape
<1>9. PlumbingShape(written') /\ Codes(written) \subseteq Codes(written')
  BY <1>3, <1>5, <1>6, <1>7, <1>8, ShapeAppend
<1>10. ASSUME NEW f \in Patched
       PROVE  offset'[f] # 0 /\ written'[offset'[f]].value = Patch(f, FeeBase(pos'))
  <2>1. offset[f] # 0 /\ offset[f] \in 1..Len(patched)
    BY <1>1, <1>3 DEF Ready
  <2>2. written'[offset[f]] = patched[offset[f]]
    BY <1>3, <1>5, <1>6, <2>1
  <2> QED BY <1>4, <1>6, <2>1, <2>2 DEF fee
<1>11. Len(frames) = 1 /\ seen = Presence
  <2>1. Len(frames) \in Nat
    BY DEF WriterInv, TypeOK
  <2> QED BY <2>1 DEF Ready, Depth
<1> QED BY <1>1, <1>6, <1>9, <1>10, <1>11 DEF PlumbingInv, Recorded

LEMMA PlumbingStep ==
  ASSUME WriterInv, BytesInv, PlumbingInv, PlumbingRecorded, [Next]_vars
  PROVE  PlumbingInv'
<1>1. CASE Write
  <2>1. ASSUME NEW f \in Field, NEW encodes, Placed(f), WriteField(f, encodes)
        PROVE  PlumbingInv'
    BY <2>1, WriteFieldPlumbing
  <2>2. ASSUME NEW f \in VlField \cup AmountField, NEW answered, WriteOther(f, answered)
        PROVE  PlumbingInv'
    BY <2>2, WriteOtherPlumbing
  <2>3. ASSUME NEW f \in ObjectField, Begin("object", f)
        PROVE  PlumbingInv'
    BY <2>3, ContainerPlumbing
  <2>4. ASSUME NEW f \in ArrayField, Begin("array", f)
        PROVE  PlumbingInv'
    BY <2>4, ContainerPlumbing
  <2>5. ASSUME NEW kind \in {"object", "array"}, EndContainer(kind)
        PROVE  PlumbingInv'
    BY <2>5, ContainerPlumbing
  <2>6. ASSUME NEW p \in Resumed, IsPrefix(p, written), EmitPlumbing(OffsetsOf[p])
        PROVE  PlumbingInv'
    BY <2>6, EmitPlumbingPlumbing
  <2>7. AmountField \cup {sfFee} \subseteq Field
    BY DEF Field, Plumbing, Patched
  <2> QED BY <1>1, <2>1, <2>2, <2>3, <2>4, <2>5, <2>6, <2>7 DEF Write
<1>2. ASSUME NEW fails, PrepareForEmit(fails)
      PROVE  PlumbingInv'
  BY <1>2, PlumbingSame, CommitPlumbing DEF PrepareForEmit, Reject
<1>3. CASE EtxnDetails
  BY <1>3, PlumbingSame DEF EtxnDetails
<1>4. CASE UNCHANGED vars
  BY <1>4, PlumbingSame DEF vars
<1> QED BY <1>1, <1>2, <1>3, <1>4 DEF Next
-----------------------------------------------------------------------------
(* What is prepared ends with its EmitDetails, at the top level.            *)
FinalInv ==
  finalized => Len(frames) = 1 /\ Len(written) > 0 /\ Last(written).kind = "details"

LEMMA FinalSame ==
  ASSUME FinalInv, UNCHANGED writer
  PROVE  FinalInv'
  BY DEF FinalInv, writer

(* A step of the writer changes nothing, works on a transaction that is     *)
(* not prepared, or prepares it.                                            *)
LEMMA StepEffect ==
  ASSUME [Next]_vars
  PROVE  /\ nonces' = nonces \/ nonces' = nonces + 1
         /\ \/ UNCHANGED writer
            \/ ~finalized /\ UNCHANGED finalized
            \/ Ready /\ Commit /\ nonces' = nonces + 1
<1> DEFINE Effect == UNCHANGED writer \/ (~finalized /\ UNCHANGED finalized)
<1>1. ASSUME Reject
      PROVE  Effect
  BY <1>1 DEF Reject
<1>2. ASSUME NEW f, NEW encodes, WriteField(f, encodes)
      PROVE  Effect
  BY <1>1, <1>2 DEF WriteField, CheckWrite, Put
<1>3. ASSUME NEW f, NEW answered, WriteOther(f, answered)
      PROVE  Effect
  BY <1>1, <1>3 DEF WriteOther, CheckWrite, Put
<1>4. ASSUME NEW kind, NEW f, Begin(kind, f)
      PROVE  Effect
  BY <1>1, <1>4 DEF Begin, CheckWrite, Put
<1>5. ASSUME NEW kind, EndContainer(kind)
      PROVE  Effect
  BY <1>1, <1>5 DEF EndContainer, Put
<1>6. ASSUME NEW offsets, EmitPlumbing(offsets)
      PROVE  Effect
  BY <1>1, <1>6 DEF EmitPlumbing
<1>7. CASE Write /\ UNCHANGED nonces
  <2>1. Effect
    BY <1>2, <1>3, <1>4, <1>5, <1>6, <1>7 DEF Write
  <2> QED BY <1>7, <2>1
<1>8. ASSUME NEW fails, PrepareForEmit(fails)
      PROVE  /\ nonces' = nonces \/ nonces' = nonces + 1
             /\ Effect \/ (Ready /\ Commit /\ nonces' = nonces + 1)
  BY <1>1, <1>8 DEF PrepareForEmit
<1>9. CASE EtxnDetails
  BY <1>9 DEF EtxnDetails
<1>10. CASE UNCHANGED vars
  BY <1>10 DEF vars
<1> QED BY <1>7, <1>8, <1>9, <1>10 DEF Next

LEMMA CommitEnds ==
  ASSUME WriterInv, Ready, Commit
  PROVE  /\ Len(frames') = 1 /\ Len(written') > 0
         /\ Last(written').kind = "details" /\ Last(written').value = nonces + 1
<1> DEFINE patched == PatchedBlob(FeeBase(FeeLength))
           token == [kind |-> "details", code |-> "none", value |-> nonces + 1]
<1>1. Len(frames') = 1
  BY DEF Ready, Commit, Depth, WriterInv, TypeOK
<1>2. patched \in Seq(Token) /\ token \in Token
  <2>1. pos \in Nat /\ nonces \in Nat
    BY Constants DEF WriterInv, TypeOK
  <2>2. FeeLength \in Nat
    BY <2>1, Constants DEF FeeLength
  <2> QED BY <2>1, <2>2, PatchedShape, FieldTokens
<1>3. written' = Append(patched, token)
  BY DEF Commit
<1>4. token.kind = "details" /\ token.value = nonces + 1
  OBVIOUS
<1> HIDE DEF patched, token
<1>5. Len(written') > 0 /\ Last(written') = token
  BY <1>2, <1>3 DEF Last
<1> QED BY <1>1, <1>4, <1>5

LEMMA FinalStep ==
  ASSUME WriterInv, FinalInv, [Next]_vars
  PROVE  FinalInv'
<1>1. CASE UNCHANGED writer
  BY <1>1, FinalSame
<1>2. CASE ~finalized /\ UNCHANGED finalized
  BY <1>2 DEF FinalInv
<1>3. CASE Ready /\ Commit
  BY <1>3, CommitEnds DEF FinalInv
<1> QED BY <1>1, <1>2, <1>3, StepEffect

(* The places of the EmitDetails that the host finds.                       *)
DetailsTokens == {m \in TopLevel(written, "none") : written[m].kind = "details"}

LEMMA LastIsDetails ==
  ASSUME WriterInv, BytesInv, FinalInv, finalized
  PROVE  /\ Len(written) \in DetailsTokens
         /\ Repeated(written) = {} => DetailsTokens = {Len(written)}
<1> DEFINE N == Len(written)
<1>1. /\ written \in Seq(Token) /\ N \in 1..N /\ written[N].kind = "details"
      /\ Len(frames) = 1 /\ N \in Nat
  BY DEF WriterInv, TypeOK, FinalInv, Last
<1>2. written[N].code = "none"
  BY <1>1 DEF Token
<1>3. Open(written)[N + 1] = <<>>
  <2>1. Depth = 0
    BY <1>1 DEF Depth
  <2> QED BY <1>1, <2>1, TopIsClosed, LastOpen
<1>4. Open(written)[N + 1] = Walk(written, Open(written)[N], N)
  BY <1>1, OpenIs DEF OpenUpTo
<1>5. Open(written)[N] = <<>>
  BY <1>1, <1>3, <1>4 DEF Walk
<1>6. Scope(Open(written), N) = 0
  BY <1>5 DEF Scope
<1>7. N \in DetailsTokens
  BY <1>1, <1>2, <1>6 DEF DetailsTokens, TopLevel
<1>8. ASSUME Repeated(written) = {}, NEW m \in DetailsTokens
      PROVE  m = N
  <2> SUFFICES ASSUME m # N PROVE FALSE
    OBVIOUS
  <2>1. /\ m \in 1..N /\ written[m].kind = "details" /\ written[m].code = "none"
        /\ Scope(Open(written), m) = 0
    BY <1>8 DEF DetailsTokens, TopLevel
  <2>2. Siblings(written, Open(written), m, N)
    BY <1>1, <1>6, <2>1 DEF Siblings, IsData
  <2>3. m \in 1..(N - 1)
    BY <1>1, <2>1
  <2>4. written[N].code \in Repeated(written)
    BY <1>1, <1>2, <2>1, <2>2, <2>3 DEF Repeated
  <2> QED BY <1>8, <2>4
<1> QED BY <1>7, <1>8

-----------------------------------------------------------------------------
(* What the host asks of the fields.                                        *)
LEMMA FieldsHeld ==
  ASSUME WriterInv, PlumbingInv, finalized, TopLevel(written, sfTransactionType) # {},
         NEW n \in DetailsTokens, written[n].value = nonces
  PROVE  FieldsAccepted(
           [f \in Plumbing \cup {sfTransactionType} |-> Values(written, f)],
           {written[k].value : k \in DetailsTokens}, pos)
<1> DEFINE values == [f \in Plumbing \cup {sfTransactionType} |-> Values(written, f)]
<1>1. /\ written \in Seq(Token) /\ PlumbingShape(written) /\ Recorded /\ pos \in Nat
      /\ offset \in [Patched -> 0..Len(written)] /\ Len(written) \in Nat
  BY Constants DEF WriterInv, TypeOK, PlumbingInv
<1>2. ASSUME NEW k \in 1..Len(written), written[k].code \in Plumbing
      PROVE  written[k].value \in values[written[k].code]
  <2>1. Scope(Open(written), k) = 0
    BY <1>1, <1>2 DEF PlumbingShape
  <2>2. k \in TopLevel(written, written[k].code)
    BY <2>1 DEF TopLevel
  <2> QED BY <1>2, <2>2 DEF Values
<1>3. Presence \subseteq Plumbing /\ Patched \subseteq Plumbing
  BY DEF Plumbing
<1>4. ASSUME NEW f \in Presence
      PROVE  0 \in values[f]
  <2>1. PICK k \in 1..Len(written) : written[k].code = f
    BY <1>1 DEF Recorded, Codes
  <2>2. written[k].value = 0
    BY <1>1, <2>1 DEF PlumbingShape
  <2> QED BY <1>2, <1>3, <2>1, <2>2
<1>5. ASSUME NEW f \in Patched
      PROVE  Patch(f, FeeBase(pos)) \in values[f]
  <2>1. offset[f] # 0 /\ written[offset[f]].value = Patch(f, FeeBase(pos))
    BY <1>1 DEF Recorded
  <2>2. offset[f] \in 1..Len(written) /\ written[offset[f]].code = f
    BY <1>1, <2>1 DEF WriterInv, OffsetsPoint
  <2> QED BY <1>2, <1>3, <2>1, <2>2
<1>6. values[sfTransactionType] # {}
  BY DEF Values
<1> HIDE DEF values
<1>7. DetailsAccepted({written[k].value : k \in DetailsTokens})
  BY DEF DetailsAccepted
<1>8. /\ 0 \in values[sfSequence] /\ 0 \in values[sfSigningPubKey]
  BY <1>4 DEF Presence
<1>9. /\ HookAccount \in values[sfAccount]
      /\ LedgerSeq + 1 \in values[sfFirstLedgerSequence]
      /\ LedgerSeq + 5 \in values[sfLastLedgerSequence]
      /\ FeeBase(pos) \in values[sfFee]
  BY <1>5, SixFields DEF Patched, Patch
<1>10. FeeBase(pos) \in Nat /\ LedgerSeq \in Nat
  BY <1>1, Constants DEF FeeBase
<1> QED BY <1>6, <1>7, <1>8, <1>9, <1>10 DEF FieldsAccepted, values

LEMMA AcceptedWhenPrepared ==
  ASSUME WriterInv, BytesInv, FinalInv, PlumbingInv, PlumbingRecorded
  PROVE  PreparedIsAcceptable
<1> SUFFICES ASSUME finalized, TopLevel(written, sfTransactionType) # {},
                    Last(written).value = nonces,
                    Repeated(written) \subseteq Plumbing \ Nested
             PROVE  Accepts(written, pos)
  BY DEF PreparedIsAcceptable
<1>1. /\ written \in Seq(Token) /\ PlumbingShape(written) /\ Recorded /\ Walks(written)
  BY DEF WriterInv, TypeOK, PlumbingInv, BytesInv, Match
<1>2. Last(Open(written)) = <<>>
  BY <1>1, TopIsClosed DEF Recorded, Depth
<1>3. Repeated(written) = {}
  <2>1. ASSUME NEW c \in Repeated(written)
        PROVE  FALSE
    <3>1. PICK j \in 1..Len(written) : /\ c = written[j].code
                                      /\ \E i \in 1..(j - 1) : written[i].code = c
      BY DEF Repeated
    <3>2. PICK i \in 1..(j - 1) : written[i].code = c
      BY <3>1
    <3>3. i \in 1..Len(written) /\ i # j
      BY <1>1
    <3>4. c \in Plumbing
      OBVIOUS
    <3> QED BY <1>1, <3>1, <3>2, <3>3, <3>4 DEF PlumbingShape
  <2> QED BY <2>1
<1>4. FieldsAccepted(
        [f \in Plumbing \cup {sfTransactionType} |-> Values(written, f)],
        {written[k].value : k \in DetailsTokens}, pos)
  <2>1. Len(written) \in DetailsTokens /\ written[Len(written)].value = nonces
    BY LastIsDetails DEF Last
  <2> QED BY <2>1, FieldsHeld
<1> QED BY <1>1, <1>2, <1>3, <1>4 DEF Accepts, DetailsTokens

(* Where plumbing is written at the top level only, and with the methods    *)
(* that record it, whatever prepare_for_emit returns is what emit accepts:  *)
(* the host parses it, finds each field it asks for at the top level, and   *)
(* judges its values by the rules that patched them (sto_writer.rs          *)
(* prepare_for_emit, emit_walk.rs validate_emit_blob).                      *)
THEOREM PreparedIsEmittable ==
  ASSUME PlumbingRecorded
  PROVE  Spec => []PreparedIsAcceptable
<1> DEFINE Inv == WriterInv /\ BytesInv /\ PlumbingInv /\ FinalInv
<1>1. Init => Inv
  BY TypeInit, BytesInit, PlumbingInit DEF FinalInv, Init
<1>2. Inv /\ [Next]_vars => Inv'
  BY WriterStep, BytesStep, PlumbingStep, FinalStep
<1>3. Inv => PreparedIsAcceptable
  BY AcceptedWhenPrepared
<1> QED BY <1>1, <1>2, <1>3, PTL DEF Spec

LEMMA SixHeld ==
  ASSUME WriterInv, PlumbingInv
  PROVE  PreparedHasPlumbing
<1> SUFFICES ASSUME finalized, NEW f \in Plumbing
             PROVE  TopLevel(written, f) # {}
  BY DEF PreparedHasPlumbing
<1>1. /\ written \in Seq(Token) /\ PlumbingShape(written) /\ Recorded
      /\ offset \in [Patched -> 0..Len(written)] /\ Len(written) \in Nat
  BY DEF WriterInv, TypeOK, PlumbingInv
<1>2. PICK k \in 1..Len(written) : written[k].code = f
  <2>1. CASE f \in Presence
    BY <1>1, <2>1 DEF Recorded, Codes
  <2>2. CASE f \in Patched
    <3>1. offset[f] # 0
      BY <1>1, <2>2 DEF Recorded
    <3> QED BY <1>1, <2>2, <3>1 DEF WriterInv, OffsetsPoint
  <2> QED BY <2>1, <2>2 DEF Plumbing
<1>3. Scope(Open(written), k) = 0
  BY <1>1, <1>2 DEF PlumbingShape
<1> QED BY <1>2, <1>3 DEF TopLevel

(* Under the same condition all six are at the top level: what sto_nested   *)
(* finds missing is missing only because a container may hold it            *)
(* (txn.rs:1179-1180).                                                      *)
THEOREM PlumbingIsPresent ==
  ASSUME PlumbingRecorded
  PROVE  Spec => []PreparedHasPlumbing
<1> DEFINE Inv == WriterInv /\ BytesInv /\ PlumbingInv
<1>1. Init => Inv
  BY TypeInit, BytesInit, PlumbingInit
<1>2. Inv /\ [Next]_vars => Inv'
  BY WriterStep, BytesStep, PlumbingStep
<1>3. Inv => PreparedHasPlumbing
  BY SixHeld
<1> QED BY <1>1, <1>2, <1>3, PTL DEF Spec
=============================================================================
