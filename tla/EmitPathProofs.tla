---------------------------- MODULE EmitPathProofs ----------------------------
(***************************************************************************)
(* Theorems about the templates, alone and beside a writer, for any        *)
(* declarations, lengths, fees and nonces.                                 *)
(*                                                                         *)
(* The central fact is what may be in a template: Bytes(D), a sequence of  *)
(* bytes whose EmitDetails hold nonces of D only.  No setter brings in a   *)
(* nonce, and prepare_for_emit only the one that it draws.                 *)
(***************************************************************************)
EXTENDS EmitPath, StoWriterProofs

-----------------------------------------------------------------------------
(* Numbers and sequences.                                                   *)

LEMMA MinIsLeast ==
  ASSUME NEW S \in SUBSET Nat, S # {}
  PROVE  Min(S) \in S /\ \A y \in S : Min(S) <= y
<1> DEFINE Below == {n \in Nat : \A k \in 0..n : k \notin S}
<1>1. \E x \in S : \A y \in S : x <= y
  <2> SUFFICES ASSUME \A x \in S : \E y \in S : ~(x <= y)
               PROVE  FALSE
    OBVIOUS
  <2>1. 0 \in Below
    OBVIOUS
  <2>2. ASSUME NEW n \in Nat, n \in Below
        PROVE  n + 1 \in Below
    <3>1. n + 1 \notin S
      <4> SUFFICES ASSUME n + 1 \in S PROVE FALSE
        OBVIOUS
      <4>1. PICK y \in S : ~(n + 1 <= y)
        OBVIOUS
      <4>2. y \in 0..n
        BY <4>1
      <4> QED BY <2>2, <4>2
    <3>2. \A k \in 0..(n + 1) : k \in 0..n \/ k = n + 1
      OBVIOUS
    <3> QED BY <2>2, <3>1, <3>2
  <2> HIDE DEF Below
  <2>3. Nat \subseteq Below
    BY <2>1, <2>2, SetInduction
  <2>4. PICK x \in S : TRUE
    OBVIOUS
  <2>5. x \in Below /\ x \in 0..x
    BY <2>3
  <2> QED BY <2>5 DEF Below
<1> QED BY <1>1 DEF Min

LEMMA MaxIsGreatest ==
  ASSUME NEW N \in Nat, NEW S \in SUBSET (1..N), S # {}
  PROVE  Max(S) \in S /\ \A y \in S : y <= Max(S)
<1> DEFINE T == {n \in Nat : n <= N /\ N - n \in S}
<1>1. PICK z \in S : TRUE
  OBVIOUS
<1>2. N - z \in T
  BY <1>1
<1> HIDE DEF T
<1>3. T \in SUBSET Nat /\ T # {}
  BY <1>2 DEF T
<1>4. Min(T) \in T /\ \A y \in T : Min(T) <= y
  BY <1>3, MinIsLeast
<1> DEFINE x == N - Min(T)
<1>5. x \in S /\ Min(T) \in Nat
  BY <1>4 DEF T
<1>6. ASSUME NEW y \in S
      PROVE  x >= y
  <2>1. N - y \in T
    BY DEF T
  <2> QED BY <1>4, <1>5, <2>1
<1>7. \E w \in S : \A y \in S : w >= y
  BY <1>5, <1>6
<1>8. Max(S) \in S /\ \A y \in S : Max(S) >= y
  BY <1>7 DEF Max
<1> QED BY <1>8

-----------------------------------------------------------------------------
(* What a declaration is laid out as.                                       *)

LEMMA TemplateConstants ==
  /\ NativeLen \in Nat \ {0} /\ IssuedLen \in Nat \ {0} /\ ShortVl \in Nat
  /\ NativeLen <= IssuedLen /\ Inputs \subseteq Nat
  /\ DetailsMaxLen \in Nat \ {0} /\ "none" \notin DOMAIN sti
  /\ \A n \in DOMAIN Declarations : Declarations[n] \in Seq(Item)
<1>1. {NativeLen, IssuedLen, ShortVl, MaxNops} \cup Inputs \subseteq Nat /\ "none" \notin DOMAIN sti
      /\ 0 < NativeLen /\ NativeLen <= IssuedLen
      /\ \A n \in DOMAIN Declarations : Declarations[n] \in Seq(Item)
  BY TemplateAssumption DEF TemplateAssumption
<1>2. NativeLen \in Nat /\ IssuedLen \in Nat /\ ShortVl \in Nat /\ Inputs \subseteq Nat
  BY <1>1
<1>3. DetailsMaxLen \in Nat \ {0}
  BY Constants
<1> QED BY <1>1, <1>2, <1>3

LEMMA Slots ==
  ASSUME NEW n \in Nat
  PROVE  PrefixLen(n) \in Nat \ {0} /\ SlotSize(n) \in Nat \ {0}
  BY TemplateConstants DEF PrefixLen, SlotSize

LEMMA ItemIs ==
  ASSUME NEW i \in Item
  PROVE  /\ i.kind \in {"type", "scalar", "native", "issued", "any", "empty", "fixed", "vl",
                        "object", "array", "elements", "end_object", "end_array", "details"}
         /\ i.low \in Nat /\ i.high \in Nat /\ i.optional \in BOOLEAN
         /\ i.kind \in DOMAIN Sti <=> i.kind \notin Ends \cup {"details"}
         /\ i.kind \in DOMAIN Sti => i.code \in DOMAIN sti
  BY DEF Item, Sti, Ends

LEMMA ItemLenIs ==
  ASSUME NEW i \in Item
  PROVE  ItemLen(i) \in Nat \ {0}
<1>1. SlotSize(i.high) \in Nat \ {0}
  BY ItemIs, Slots
<1>2. i.kind \in {"type", "scalar", "native", "issued", "any", "empty", "fixed", "vl",
                  "object", "array", "elements", "end_object", "end_array", "details"}
  BY ItemIs
<1> QED BY <1>1, <1>2, TemplateConstants DEF ItemLen, Containers, Ends

LEMMA StartsAre ==
  ASSUME NEW d \in Seq(Item)
  PROVE  /\ Starts(d) \in [1..(Len(d) + 1) -> Nat \ {0}]
         /\ Starts(d)[1] = 1
         /\ \A n \in 1..Len(d) : Starts(d)[n + 1] = Starts(d)[n] + ItemLen(d[n])
<1> DEFINE N == Len(d)
           F(g) == [n \in 0..N |-> IF n = 0 THEN 1 ELSE g[n - 1] + ItemLen(d[n])]
           after == CHOOSE g : g = F(g)
           S == Nat \ {0}
           step == [n \in 1..N |-> [s \in S |-> s + ItemLen(d[n])]]
<1>1. N \in Nat
  OBVIOUS
<1>2. \A n \in 1..N : ItemLen(d[n]) \in Nat
  BY ItemLenIs
<1>3. step \in [1..N -> [S -> S]] /\ 1 \in S
  BY <1>2
<1>4. Starts(d) = [n \in 1..(N + 1) |-> after[n - 1]]
  BY DEF Starts
<1> HIDE DEF step, F, after, N, S
<1>5. PICK g : Iterates(g, N, S, 1, step)
  BY <1>1, <1>3, Iteration
<1>6. \A n \in 0..N : g[n] = F(g)[n]
  <2> SUFFICES ASSUME NEW n \in 0..N PROVE g[n] = F(g)[n]
    OBVIOUS
  <2>1. CASE n = 0
    BY <1>5, <2>1 DEF F, Iterates
  <2>2. CASE n # 0
    <3>1. n \in 1..N /\ g[n - 1] \in S
      BY <1>1, <1>5, <2>2 DEF Iterates
    <3> QED BY <1>5, <2>2, <3>1 DEF F, Iterates, step
  <2> QED BY <2>1, <2>2
<1>7. g = F(g)
  <2>1. F(g) = [n \in 0..N |-> F(g)[n]]
    BY DEF F
  <2>2. g = [n \in 0..N |-> g[n]]
    BY <1>5 DEF Iterates
  <2> QED BY <1>6, <2>1, <2>2
<1>8. after = F(after)
  BY <1>7 DEF after
<1>9. \A n \in 0..N : after[n] = IF n = 0 THEN 1 ELSE after[n - 1] + ItemLen(d[n])
  BY <1>8 DEF F
<1>10. after[0] = 1
  BY <1>1, <1>9
<1>11. \A n \in 1..N : after[n - 1] \in S => after[n] = step[n][after[n - 1]]
  BY <1>1, <1>9 DEF step
<1>12. \A n \in 0..N : after[n] \in S
  BY <1>1, <1>5, <1>10, <1>11, IterationUnique
<1>13. Starts(d) \in [1..(N + 1) -> S]
  <2>1. \A n \in 1..(N + 1) : n - 1 \in 0..N
    BY <1>1
  <2> QED BY <1>4, <1>12, <2>1
<1>14. Starts(d)[1] = 1
  BY <1>1, <1>4, <1>9
<1>15. ASSUME NEW n \in 1..N
       PROVE  Starts(d)[n + 1] = Starts(d)[n] + ItemLen(d[n])
  <2>1. n + 1 \in 1..(N + 1) /\ n \in 1..(N + 1) /\ n + 1 - 1 = n /\ n \in 0..N /\ n # 0
    BY <1>1
  <2> QED BY <1>4, <1>9, <2>1
<1> QED BY <1>13, <1>14, <1>15 DEF N, S

Boxes(d) == {n \in 1..Len(d) : d[n].kind \in Containers}

(* The containers around what follows item n, if s are those around it.     *)
Around(d, n, s) ==
  CASE d[n].kind \in Containers -> Append(s, n)
    [] d[n].kind \in Ends /\ s # <<>> -> Front(s)
    [] OTHER -> s

LEMMA NestingIs ==
  ASSUME NEW d \in Seq(Item)
  PROVE  /\ Nesting(d) \in [1..(Len(d) + 1) -> Seq(Boxes(d))]
         /\ Nesting(d)[1] = <<>>
         /\ \A n \in 1..Len(d) : Nesting(d)[n + 1] = Around(d, n, Nesting(d)[n])
<1> DEFINE N == Len(d)
           F(g) == [n \in 0..N |-> IF n = 0 THEN <<>> ELSE Around(d, n, g[n - 1])]
           after == CHOOSE g : g = F(g)
           S == Seq(Boxes(d))
           step == [n \in 1..N |-> [s \in S |-> Around(d, n, s)]]
<1>1. N \in Nat
  OBVIOUS
<1>2. ASSUME NEW n \in 1..N, NEW s \in S
      PROVE  Around(d, n, s) \in S
  <2>1. d[n].kind \in Containers => n \in Boxes(d)
    BY DEF Boxes
  <2>2. d[n].kind \in Containers => Append(s, n) \in S
    BY <2>1, AppendProperties
  <2>3. s # <<>> => Front(s) \in S
    BY FrontIs
  <2> QED BY <2>2, <2>3 DEF Around
<1>3. <<>> \in S
  BY EmptySeq
<1>4. Nesting(d) = [n \in 1..(N + 1) |-> after[n - 1]]
  BY DEF Nesting, Around
<1> DEFINE empty == <<>>
<1> HIDE DEF F, after, N, S, step
<1>5. step \in [1..N -> [S -> S]]
  BY <1>2 DEF step
<1>6. PICK g : Iterates(g, N, S, empty, step)
  <2> HIDE DEF empty
  <2>1. empty \in S
    BY <1>3 DEF empty
  <2> QED BY <1>1, <2>1, <1>5, Iteration
<1>7. \A n \in 0..N : g[n] = F(g)[n]
  <2> SUFFICES ASSUME NEW n \in 0..N PROVE g[n] = F(g)[n]
    OBVIOUS
  <2>1. CASE n = 0
    BY <1>6, <2>1 DEF F, Iterates
  <2>2. CASE n # 0
    <3>1. n \in 1..N /\ g[n - 1] \in S
      BY <1>1, <1>6, <2>2 DEF Iterates
    <3> QED BY <1>6, <2>2, <3>1 DEF F, Iterates, step
  <2> QED BY <2>1, <2>2
<1>8. g = F(g)
  <2>1. F(g) = [n \in 0..N |-> F(g)[n]]
    BY DEF F
  <2>2. g = [n \in 0..N |-> g[n]]
    BY <1>6 DEF Iterates
  <2> QED BY <1>7, <2>1, <2>2
<1>9. after = F(after)
  BY <1>8 DEF after
<1>10. \A n \in 0..N : after[n] = IF n = 0 THEN <<>> ELSE Around(d, n, after[n - 1])
  BY <1>9 DEF F
<1>11. after[0] = <<>>
  BY <1>1, <1>10
<1>12. \A n \in 1..N : after[n - 1] \in S => after[n] = step[n][after[n - 1]]
  BY <1>1, <1>10 DEF step
<1>13. \A n \in 0..N : after[n] \in S
  <2> HIDE DEF empty
  <2>1. after[0] = empty
    BY <1>11 DEF empty
  <2> QED BY <1>1, <1>6, <1>12, <2>1, IterationUnique
<1>14. Nesting(d) \in [1..(N + 1) -> S] /\ Nesting(d)[1] = <<>>
  <2>1. \A n \in 1..(N + 1) : n - 1 \in 0..N
    BY <1>1
  <2>2. 1 \in 1..(N + 1) /\ 1 - 1 = 0
    BY <1>1
  <2> QED BY <1>4, <1>11, <1>13, <2>1, <2>2
<1>15. ASSUME NEW n \in 1..N
       PROVE  Nesting(d)[n + 1] = Around(d, n, Nesting(d)[n])
  <2>1. n + 1 \in 1..(N + 1) /\ n \in 1..(N + 1) /\ n + 1 - 1 = n /\ n \in 0..N /\ n # 0
    BY <1>1
  <2> QED BY <1>4, <1>10, <2>1
<1> QED BY <1>14, <1>15 DEF N, S

-----------------------------------------------------------------------------
(* The bytes of a template, whose EmitDetails hold nonces of D.             *)
Plain == {"nop", "value", "length", "more", "native", "issued", "end_object", "end_array"}
Byte(D) ==
  (Plain \X Int) \cup ({"header"} \X DOMAIN sti) \cup ({"details"} \X D)

LEMMA ByteIs ==
  ASSUME NEW D
  PROVE  /\ \A k \in Plain, v \in Int : <<k, v>> \in Byte(D)
         /\ \A c \in DOMAIN sti : Header(c) \in Byte(D)
         /\ \A v \in D : <<"details", v>> \in Byte(D)
         /\ Nop \in Byte(D) /\ Zero \in Byte(D)
         /\ \A x \in Byte(D) : x[1] = "details" => x[2] \in D
         /\ \A x \in Byte(D) : x[1] = "header" => x[2] \in DOMAIN sti
  BY DEF Byte, Plain, Header, Nop, Zero

LEMMA ConcatIs ==
  ASSUME NEW B, NEW s, NEW t, s \in Seq(B), t \in Seq(B)
  PROVE  s \o t \in Seq(B) /\ Len(s \o t) = Len(s) + Len(t)
  OBVIOUS

LEMMA RepeatIs ==
  ASSUME NEW B, NEW n \in Nat, NEW x \in B
  PROVE  Repeat(n, x) \in Seq(B) /\ Len(Repeat(n, x)) = n
  BY DEF Repeat

LEMMA PrefixIs ==
  ASSUME NEW D, NEW n \in Nat
  PROVE  Prefix(n) \in Seq(Byte(D)) /\ Len(Prefix(n)) = PrefixLen(n)
<1> DEFINE head == <<<<"length", n>>>>
           tail == Repeat(PrefixLen(n) - 1, <<"more", n>>)
<1>1. <<"length", n>> \in Byte(D) /\ <<"more", n>> \in Byte(D)
  BY ByteIs DEF Plain
<1>2. PrefixLen(n) - 1 \in Nat
  BY Slots
<1>3. tail \in Seq(Byte(D)) /\ Len(tail) = PrefixLen(n) - 1
  BY <1>1, <1>2, RepeatIs
<1>4. head \in Seq(Byte(D)) /\ Len(head) = 1
  BY <1>1
<1> HIDE DEF head, tail
<1>5. head \o tail \in Seq(Byte(D)) /\ Len(head \o tail) = Len(head) + Len(tail)
  BY <1>3, <1>4, ConcatIs, Zenon
<1>6. 1 + (PrefixLen(n) - 1) = PrefixLen(n)
  BY Slots
<1>7. Len(head) + Len(tail) = PrefixLen(n)
  BY <1>3, <1>4, <1>6
<1> QED BY <1>5, <1>7 DEF Prefix, head, tail

LEMMA BlobIs ==
  ASSUME NEW D, NEW n \in Nat, NEW x \in Byte(D)
  PROVE  Blob(n, x) \in Seq(Byte(D)) /\ Len(Blob(n, x)) = SlotSize(n)
<1>1. Prefix(n) \in Seq(Byte(D)) /\ Len(Prefix(n)) = PrefixLen(n)
  BY PrefixIs
<1>2. Repeat(n, x) \in Seq(Byte(D)) /\ Len(Repeat(n, x)) = n
  BY RepeatIs
<1> QED BY <1>1, <1>2, ConcatIs DEF Blob, SlotSize

LEMMA PaddedIs ==
  ASSUME NEW D, NEW s \in Seq(Byte(D)), NEW n \in Nat, Len(s) <= n
  PROVE  Padded(s, n) \in Seq(Byte(D)) /\ Len(Padded(s, n)) = n
<1>1. n - Len(s) \in Nat /\ Nop \in Byte(D)
  BY ByteIs
<1>2. Nops(n - Len(s)) \in Seq(Byte(D)) /\ Len(Nops(n - Len(s))) = n - Len(s)
  BY <1>1, RepeatIs DEF Nops
<1>3. Len(Padded(s, n)) = Len(s) + (n - Len(s)) /\ Padded(s, n) \in Seq(Byte(D))
  BY <1>2, ConcatIs DEF Padded
<1>4. Len(s) \in Nat
  OBVIOUS
<1> QED BY <1>3, <1>4

LEMMA ByteGrows ==
  ASSUME NEW D, NEW E, D \subseteq E
  PROVE  Byte(D) \subseteq Byte(E)
  BY DEF Byte

LEMMA PadIs ==
  ASSUME NEW D, NEW s \in Seq(Byte(D)), NEW n \in Nat
  PROVE  Padded(s, n) \in Seq(Byte(D)) /\ Len(Padded(s, n)) >= n
<1>1. CASE Len(s) <= n
  BY <1>1, PaddedIs
<1>2. CASE ~(Len(s) <= n)
  <2> DEFINE tail == Nops(n - Len(s))
  <2>1. tail = <<>>
    <3>1. 1..(n - Len(s)) = 1..0
      BY <1>2
    <3>2. tail = Repeat(0, Nop)
      BY <3>1 DEF Nops, Repeat
    <3>3. Repeat(0, Nop) \in Seq({Nop}) /\ Len(Repeat(0, Nop)) = 0
      BY RepeatIs
    <3> QED BY <3>2, <3>3, EmptySeq
  <2>2. Padded(s, n) = s
    BY <2>1, ConcatEmptySeq DEF Padded
  <2> QED BY <1>2, <2>2
<1> QED BY <1>1, <1>2

LEMMA HeadIs ==
  ASSUME NEW D, NEW c \in DOMAIN sti, NEW s \in Seq(Byte(D))
  PROVE  <<Header(c)>> \o s \in Seq(Byte(D)) /\ Len(<<Header(c)>> \o s) = 1 + Len(s)
<1>1. <<Header(c)>> \in Seq(Byte(D)) /\ Len(<<Header(c)>>) = 1
  BY ByteIs
<1> QED BY <1>1, ConcatIs

LEMMA AmountIs ==
  ASSUME NEW D, NEW v \in Int
  PROVE  /\ Native(v) \in Seq(Byte(D)) /\ Len(Native(v)) = NativeLen
         /\ Issued(v) \in Seq(Byte(D)) /\ Len(Issued(v)) = IssuedLen
         /\ Repeat(NativeLen, <<"issued", v>>) \in Seq(Byte(D))
<1>1. <<"native", v>> \in Byte(D) /\ <<"issued", v>> \in Byte(D)
  BY ByteIs DEF Plain
<1>2. NativeLen \in Nat /\ IssuedLen \in Nat
  BY TemplateConstants
<1> QED BY <1>1, <1>2, RepeatIs DEF Native, Issued

LEMMA DefaultIs ==
  ASSUME NEW D, NEW i \in Item, NEW x \in {Nop, Zero}
  PROVE  Default(i, x) \in Seq(Byte(D)) /\ Len(Default(i, x)) >= ItemLen(i)
<1>1. /\ i.low \in Nat /\ i.high \in Nat
      /\ i.kind \in DOMAIN Sti => i.code \in DOMAIN sti
  BY ItemIs
<1>2. x \in Byte(D) /\ Zero \in Byte(D) /\ Nop \in Byte(D)
  BY ByteIs
<1>3. /\ NativeLen \in Nat /\ IssuedLen \in Nat /\ DetailsMaxLen \in Nat
      /\ PrefixLen(0) \in Nat /\ SlotSize(i.high) \in Nat /\ SlotSize(i.low) \in Nat
      /\ ItemLen(i) \in Nat
  BY <1>1, TemplateConstants, Slots, ItemLenIs
<1>0. \A s \in Seq(Byte(D)) :
        i.code \in DOMAIN sti =>
          <<Header(i.code)>> \o s \in Seq(Byte(D)) /\ Len(<<Header(i.code)>> \o s) = 1 + Len(s)
  BY HeadIs
<1>14. /\ Native(0) \in Seq(Byte(D)) /\ Len(Native(0)) = NativeLen
       /\ Issued(0) \in Seq(Byte(D)) /\ Len(Issued(0)) = IssuedLen
  <2> DEFINE v == 0
  <2>1. v \in Int
    OBVIOUS
  <2> HIDE DEF v
  <2>2. /\ Native(v) \in Seq(Byte(D)) /\ Len(Native(v)) = NativeLen
        /\ Issued(v) \in Seq(Byte(D)) /\ Len(Issued(v)) = IssuedLen
    BY <2>1, AmountIs
  <2> QED BY <2>2 DEF v
<1>15. \A s \in Seq(Byte(D)) :
         Padded(s, ItemLen(i)) \in Seq(Byte(D)) /\ Len(Padded(s, ItemLen(i))) >= ItemLen(i)
  BY <1>3, PadIs
<1>4. CASE i.kind \in Containers
  <2>1. i.code \in DOMAIN sti
    BY <1>1, <1>4 DEF Containers, Sti
  <2>2. Default(i, x) = <<Header(i.code)>> /\ ItemLen(i) = 1
    BY <1>4 DEF Default, ItemLen, Containers, Ends
  <2>3. Header(i.code) \in Byte(D)
    BY <2>1, ByteIs
  <2>4. <<Header(i.code)>> \in Seq(Byte(D)) /\ Len(<<Header(i.code)>>) >= 1
    BY <2>3
  <2> QED BY <2>2, <2>4
<1>5. CASE i.kind \in Ends
  <2>1. Default(i, x) = <<<<i.kind, 0>>>> /\ ItemLen(i) = 1
    BY <1>5 DEF Default, ItemLen, Containers, Ends
  <2>2. <<i.kind, 0>> \in Byte(D)
    BY <1>5, ByteIs DEF Ends, Plain
  <2>3. <<<<i.kind, 0>>>> \in Seq(Byte(D)) /\ Len(<<<<i.kind, 0>>>>) >= 1
    BY <2>2
  <2> QED BY <2>1, <2>3
<1>6. CASE i.kind \in {"type", "scalar"}
  <2>1. i.code \in DOMAIN sti
    BY <1>1, <1>6 DEF Sti
  <2>2. Default(i, x) = <<Header(i.code), Zero>> /\ ItemLen(i) = 2
    BY <1>6 DEF Default, ItemLen, Containers, Ends
  <2>3. Header(i.code) \in Byte(D)
    BY <2>1, ByteIs
  <2>4. /\ <<Header(i.code), Zero>> \in Seq(Byte(D))
        /\ Len(<<Header(i.code), Zero>>) >= 2
    BY <1>2, <2>3
  <2> QED BY <2>2, <2>4
<1>7. CASE i.kind \in {"native", "issued"}
  <2>1. i.code \in DOMAIN sti
    BY <1>1, <1>7 DEF Sti
  <2>2. \/ Default(i, x) = <<Header(i.code)>> \o Native(0) /\ ItemLen(i) = 1 + NativeLen
        \/ Default(i, x) = <<Header(i.code)>> \o Issued(0) /\ ItemLen(i) = 1 + IssuedLen
    BY <1>7 DEF Default, ItemLen, Containers, Ends
  <2>3. /\ Native(0) \in Seq(Byte(D)) /\ Len(Native(0)) = NativeLen
        /\ Issued(0) \in Seq(Byte(D)) /\ Len(Issued(0)) = IssuedLen
    BY <1>14
  <2>4. /\ <<Header(i.code)>> \o Native(0) \in Seq(Byte(D))
        /\ Len(<<Header(i.code)>> \o Native(0)) = 1 + NativeLen
        /\ <<Header(i.code)>> \o Issued(0) \in Seq(Byte(D))
        /\ Len(<<Header(i.code)>> \o Issued(0)) = 1 + IssuedLen
    BY <2>1, <2>3, <1>0
  <2> DEFINE native == <<Header(i.code)>> \o Native(0)
             issued == <<Header(i.code)>> \o Issued(0)
  <2> HIDE DEF native, issued
  <2>5. Len(Default(i, x)) = ItemLen(i) /\ Default(i, x) \in Seq(Byte(D))
    BY <2>2, <2>4, Zenon DEF native, issued
  <2> QED BY <1>3, <2>5
<1>8. CASE i.kind = "any"
  <2>1. i.code \in DOMAIN sti
    BY <1>1, <1>8 DEF Sti
  <2>2. Default(i, x) = Padded(<<Header(i.code)>> \o Native(0), ItemLen(i))
    BY <1>8 DEF Default, Containers, Ends
  <2>3. <<Header(i.code)>> \o Native(0) \in Seq(Byte(D))
    BY <2>1, <1>14, <1>0
  <2> QED BY <1>15, <2>2, <2>3
<1>9. CASE i.kind = "empty"
  <2>1. i.code \in DOMAIN sti
    BY <1>1, <1>9 DEF Sti
  <2>2. Default(i, x) = <<Header(i.code)>> \o Prefix(0) /\ ItemLen(i) = 2
    BY <1>9 DEF Default, ItemLen, Containers, Ends
  <2>3. Prefix(0) \in Seq(Byte(D)) /\ Len(Prefix(0)) = PrefixLen(0)
    BY PrefixIs
  <2>4. PrefixLen(0) >= 1
    BY Slots
  <2>5. Default(i, x) \in Seq(Byte(D)) /\ Len(Default(i, x)) = 1 + PrefixLen(0)
    BY <2>1, <2>2, <2>3, <1>0
  <2>6. 1 + PrefixLen(0) >= 2
    BY <1>3, <2>4
  <2> QED BY <2>2, <2>5, <2>6
<1>10. CASE i.kind = "fixed"
  <2>1. i.code \in DOMAIN sti
    BY <1>1, <1>10 DEF Sti
  <2>2. Default(i, x) = <<Header(i.code)>> \o Blob(i.high, x) /\ ItemLen(i) = 1 + SlotSize(i.high)
    BY <1>10 DEF Default, ItemLen, Containers, Ends
  <2>3. Blob(i.high, x) \in Seq(Byte(D)) /\ Len(Blob(i.high, x)) = SlotSize(i.high)
    BY <1>1, <1>2, BlobIs
  <2>4. Default(i, x) \in Seq(Byte(D)) /\ Len(Default(i, x)) = 1 + SlotSize(i.high)
    BY <2>1, <2>2, <2>3, <1>0
  <2>5. Len(Default(i, x)) = ItemLen(i)
    BY <2>2, <2>4
  <2> QED BY <1>3, <2>4, <2>5
<1>11. CASE i.kind = "vl"
  <2>1. i.code \in DOMAIN sti
    BY <1>1, <1>11 DEF Sti
  <2>2. Default(i, x) = Padded(<<Header(i.code)>> \o Blob(i.low, x), ItemLen(i))
    BY <1>11 DEF Default, Containers, Ends
  <2>3. <<Header(i.code)>> \o Blob(i.low, x) \in Seq(Byte(D))
    BY <1>1, <1>2, <2>1, BlobIs, <1>0
  <2> QED BY <1>15, <2>2, <2>3
<1>12. CASE i.kind = "details"
  <2>1. Default(i, x) = Repeat(DetailsMaxLen, x) /\ ItemLen(i) = DetailsMaxLen
    BY <1>12 DEF Default, ItemLen, Containers, Ends
  <2>2. Repeat(DetailsMaxLen, x) \in Seq(Byte(D)) /\ Len(Repeat(DetailsMaxLen, x)) = DetailsMaxLen
    BY <1>2, <1>3, RepeatIs
  <2> QED BY <1>3, <2>1, <2>2
<1>13. \/ i.kind \in Containers \/ i.kind \in Ends \/ i.kind \in {"type", "scalar"}
       \/ i.kind \in {"native", "issued"} \/ i.kind \in {"any", "empty", "fixed", "vl", "details"}
  BY ItemIs DEF Containers, Ends
<1> QED BY <1>4, <1>5, <1>6, <1>7, <1>8, <1>9, <1>10, <1>11, <1>12, <1>13, Zenon

LEMMA ImageIs ==
  ASSUME NEW D, NEW d \in Seq(Item), NEW n \in 1..Len(d), NEW open
  PROVE  Image(d, n, open) \in Seq(Byte(D)) /\ Len(Image(d, n, open)) >= ItemLen(d[n])
<1>1. d[n] \in Item
  OBVIOUS
<1>2. Ground(d, n) \in {Nop, Zero}
  BY DEF Ground
<1>3. Default(d[n], Ground(d, n)) \in Seq(Byte(D)) /\ Len(Default(d[n], Ground(d, n))) >= ItemLen(d[n])
  BY <1>1, <1>2, DefaultIs
<1>4. ItemLen(d[n]) \in Nat /\ Nop \in Byte(D)
  BY <1>1, ItemLenIs, ByteIs
<1>5. Nops(ItemLen(d[n])) \in Seq(Byte(D)) /\ Len(Nops(ItemLen(d[n]))) = ItemLen(d[n])
  BY <1>4, RepeatIs DEF Nops
<1>6. Len(Nops(ItemLen(d[n]))) >= ItemLen(d[n])
  BY <1>4, <1>5
<1> QED BY <1>3, <1>5, <1>6 DEF Image

(* Every byte of items n to m is one of theirs.                             *)
LEMMA ItemAtByte ==
  ASSUME NEW d \in Seq(Item), NEW n \in 1..Len(d), NEW m \in n..Len(d)
  PROVE  LET start == Starts(d)
         IN  /\ start[m + 1] > start[n]
             /\ \A at \in start[n]..(start[m + 1] - 1) :
                  \E i \in n..m : at \in start[i]..(start[i + 1] - 1)
<1> DEFINE start == Starts(d)
           Found == {j \in Nat : n + j <= Len(d) =>
                       /\ start[n + j + 1] > start[n]
                       /\ \A at \in start[n]..(start[n + j + 1] - 1) :
                            \E i \in n..(n + j) : at \in start[i]..(start[i + 1] - 1)}
<1>1. /\ \A k \in 1..(Len(d) + 1) : start[k] \in Nat
      /\ \A k \in 1..Len(d) : start[k + 1] > start[k]
  <2>1. /\ start \in [1..(Len(d) + 1) -> Nat \ {0}]
        /\ \A k \in 1..Len(d) : start[k + 1] = start[k] + ItemLen(d[k])
    BY StartsAre
  <2>2. \A k \in 1..Len(d) : ItemLen(d[k]) \in Nat \ {0} /\ start[k] \in Nat
    <3>1. \A k \in 1..Len(d) : d[k] \in Item /\ k \in 1..(Len(d) + 1)
      OBVIOUS
    <3> QED BY <2>1, <3>1, ItemLenIs
  <2>3. \A k \in 1..(Len(d) + 1) : start[k] \in Nat
    BY <2>1
  <2> HIDE DEF start
  <2> QED BY <2>1, <2>2, <2>3
<1> HIDE DEF start
<1>2. Len(d) \in Nat
  OBVIOUS
<1>3. 0 \in Found
  <2>1. n + 0 = n /\ n + 0 + 1 = n + 1 /\ n \in n..n
    OBVIOUS
  <2> QED BY <1>1, <2>1
<1>4. ASSUME NEW j \in Nat, j \in Found
      PROVE  j + 1 \in Found
  <2> SUFFICES ASSUME n + (j + 1) <= Len(d)
               PROVE  /\ start[n + (j + 1) + 1] > start[n]
                      /\ \A at \in start[n]..(start[n + (j + 1) + 1] - 1) :
                           \E i \in n..(n + (j + 1)) : at \in start[i]..(start[i + 1] - 1)
    OBVIOUS
  <2> DEFINE k == n + j + 1
  <2>1. k \in 1..Len(d) /\ n + (j + 1) = k /\ n + j <= Len(d) /\ n \in 1..(Len(d) + 1)
        /\ k \in 1..(Len(d) + 1) /\ k + 1 \in 1..(Len(d) + 1)
    BY <1>2
  <2>5. start[k] \in Nat /\ start[k + 1] \in Nat /\ start[n] \in Nat /\ start[k + 1] > start[k]
    BY <1>1, <2>1
  <2>2. /\ start[k] > start[n]
        /\ \A at \in start[n]..(start[k] - 1) :
             \E i \in n..(n + j) : at \in start[i]..(start[i + 1] - 1)
    BY <1>4, <2>1
  <2> HIDE DEF k
  <2>3. start[k + 1] > start[n]
    BY <2>2, <2>5
  <2>4. ASSUME NEW at \in start[n]..(start[k + 1] - 1)
        PROVE  \E i \in n..k : at \in start[i]..(start[i + 1] - 1)
    <3>1. CASE at < start[k]
      <4>1. at \in start[n]..(start[k] - 1)
        BY <2>5, <3>1
      <4>2. PICK i \in n..(n + j) : at \in start[i]..(start[i + 1] - 1)
        BY <2>2, <4>1
      <4>3. i \in n..k
        BY DEF k
      <4> QED BY <4>2, <4>3
    <3>2. CASE ~(at < start[k])
      <4>1. at \in start[k]..(start[k + 1] - 1) /\ k \in n..k
        BY <2>1, <2>5, <3>2
      <4> QED BY <4>1
    <3> QED BY <3>1, <3>2
  <2> QED BY <2>1, <2>3, <2>4
<1> HIDE DEF Found
<1>5. Nat \subseteq Found
  BY <1>3, <1>4, SetInduction
<1>6. m - n \in Found /\ n + (m - n) = m /\ m <= Len(d)
  BY <1>2, <1>5
<1>7. /\ start[m + 1] > start[n]
      /\ \A at \in start[n]..(start[m + 1] - 1) :
           \E i \in n..m : at \in start[i]..(start[i + 1] - 1)
  BY <1>6 DEF Found
<1> QED BY <1>7 DEF start

LEMMA ImagesAre ==
  ASSUME NEW d \in Seq(Item), NEW n \in 1..Len(d), NEW m \in n..Len(d),
         NEW D, NEW open
  PROVE  /\ Images(d, n, m, open) \in Seq(Byte(D))
         /\ Len(Images(d, n, m, open)) = Starts(d)[m + 1] - Starts(d)[n]
<1> DEFINE start == Starts(d)
           W == start[m + 1] - start[n]
           ItemAt(k) == CHOOSE i \in n..m : k \in start[i]..(start[i + 1] - 1)
           At(k) == start[n] + k - 1
           B == Byte(D)
           ByteAt(k) == Image(d, ItemAt(At(k)), open)[At(k) - start[ItemAt(At(k))] + 1]
<1>1. Images(d, n, m, open) = [k \in 1..W |-> ByteAt(k)]
  BY DEF Images
<1>2. /\ \A k \in 1..(Len(d) + 1) : start[k] \in Nat
      /\ \A k \in 1..Len(d) : start[k + 1] = start[k] + ItemLen(d[k])
  BY StartsAre
<1>3. /\ start[m + 1] > start[n]
      /\ \A at \in start[n]..(start[m + 1] - 1) :
           \E i \in n..m : at \in start[i]..(start[i + 1] - 1)
  BY ItemAtByte
<1> HIDE DEF start, B
<1>4. n \in 1..(Len(d) + 1) /\ m + 1 \in 1..(Len(d) + 1) /\ Len(d) \in Nat
  OBVIOUS
<1>5. W \in Nat /\ start[n] \in Nat /\ start[m + 1] \in Nat
  BY <1>2, <1>3, <1>4
<1>6. ASSUME NEW k \in 1..W
      PROVE  ByteAt(k) \in B
  <2> DEFINE at == At(k)
             i == ItemAt(at)
  <2>1. at \in start[n]..(start[m + 1] - 1)
    BY <1>5
  <2>2. i \in n..m /\ at \in start[i]..(start[i + 1] - 1)
    BY <1>3, <2>1
  <2> HIDE DEF i, at
  <2>3. i \in 1..Len(d) /\ i \in 1..(Len(d) + 1)
    BY <1>4, <2>2
  <2>4. /\ Image(d, i, open) \in Seq(B) /\ Len(Image(d, i, open)) >= ItemLen(d[i])
        /\ start[i] \in Nat /\ ItemLen(d[i]) \in Nat /\ start[i + 1] = start[i] + ItemLen(d[i])
    <3>1. d[i] \in Item
      BY <2>3
    <3> QED BY <1>2, <2>3, <3>1, ImageIs, ItemLenIs DEF B
  <2>5. at \in Int /\ at >= start[i] /\ at <= start[i] + ItemLen(d[i]) - 1
    BY <2>2, <2>4
  <2> DEFINE image == Image(d, i, open)
  <2>8. image \in Seq(B) /\ Len(image) >= ItemLen(d[i])
    BY <2>4
  <2> HIDE DEF image
  <2>6. at - start[i] + 1 \in 1..Len(image)
    <3> DEFINE len == Len(image)
               size == ItemLen(d[i])
               from == start[i]
    <3>1. len \in Nat /\ size \in Nat /\ from \in Nat /\ len >= size
      BY <2>4, <2>8
    <3>2. at \in Int /\ at >= from /\ at <= from + size - 1
      BY <2>5
    <3> HIDE DEF len, size, from
    <3>3. at - from + 1 \in 1..len
      BY <3>1, <3>2
    <3> QED BY <3>3 DEF len, from
  <2>9. image[at - start[i] + 1] \in B
    BY <2>6, <2>8
  <2>7. Image(d, i, open)[at - start[i] + 1] \in B
    BY <2>9 DEF image
  <2> QED BY <2>7 DEF i, at
<1> HIDE DEF W, ByteAt
<1>7. [k \in 1..W |-> ByteAt(k)] \in Seq(B) /\ Len([k \in 1..W |-> ByteAt(k)]) = W
  BY <1>5, <1>6
<1> QED BY <1>1, <1>7 DEF W, B, start

(* What the setters rely on in a layout.                                    *)
Slotted(d) == {n \in 1..Len(d) : d[n].optional /\ d[n].kind \in Containers}

Shaped(L) ==
  /\ L.item \in Seq(Item) /\ Len(L.item) > 0
  /\ L.start \in [1..(Len(L.item) + 1) -> Nat]
  /\ L.within \in [1..Len(L.item) -> Seq(Boxes(L.item))]
  /\ L.outer \in [1..Len(L.item) -> Seq(Boxes(L.item))]
  /\ L.plumb \in [Plumbing -> 1..Len(L.item)]
  /\ \A f \in Plumbing : L.item[L.plumb[f]].kind = RequiredKind[f]
  /\ L.slot \in [Slotted(L.item) -> Seq(Byte({}))]
  /\ L.fresh \in Seq(Byte({}))
  /\ L.start[Len(L.item)] \in Nat \ {0}
  /\ Len(L.fresh) = L.start[Len(L.item)] - 1 + DetailsMaxLen

LEMMA CloseIs ==
  ASSUME NEW d \in Seq(Item), NEW n \in 1..Len(d)
  PROVE  Max(Span(d, n)) \in n..Len(d)
<1>1. Span(d, n) \in SUBSET (1..Len(d)) /\ n \in Span(d, n) /\ Len(d) \in Nat
  BY DEF Span
<1>2. Max(Span(d, n)) \in Span(d, n) /\ \A y \in Span(d, n) : y <= Max(Span(d, n))
  BY <1>1, MaxIsGreatest
<1>3. Max(Span(d, n)) \in 1..Len(d) /\ n <= Max(Span(d, n))
  BY <1>1, <1>2
<1> QED BY <1>1, <1>3

LEMMA LayoutShaped ==
  ASSUME NEW k \in Templates
  PROVE  Shaped(Layouts[k])
<1> DEFINE d == Declarations[k]
           N == Len(d)
           L == Layout(d)
           D == {}
<1>1. d \in Seq(Item) /\ Compiles(d) /\ Layouts[k] = L
  BY TemplateConstants DEF Templates, Layouts
<1>2. N \in Nat /\ DOMAIN d = 1..N
  BY <1>1
<1>3. /\ L.item = d /\ L.start = Starts(d)
      /\ L.within = [n \in DOMAIN d |-> Nesting(d)[n]]
      /\ L.plumb = [f \in Plumbing |-> Min(Finds(d, f))]
      /\ L.fresh = Images(d, 1, N, {})
  BY DEF Layout
<1>4. L.slot = [n \in {m \in DOMAIN d : d[m].optional /\ d[m].kind \in Containers} |->
                  Images(d, n, Max(Span(d, n)),
                         {n} \cup {c \in Range(Nesting(d)[n]) : d[c].optional})]
  BY DEF Layout
<1> DEFINE outer(n) == {c \in Range(Nesting(d)[n]) : d[c].kind = "elements"}
<1>5. L.outer = [n \in DOMAIN d |-> IF outer(n) = {} THEN <<>> ELSE Nesting(d)[Max(outer(n))]]
  BY DEF Layout
<1> HIDE DEF L, d
<1>6. Nesting(d) \in [1..(N + 1) -> Seq(Boxes(d))]
  BY <1>1, NestingIs
<1>7. /\ Starts(d) \in [1..(N + 1) -> Nat \ {0}] /\ Starts(d)[1] = 1
      /\ \A n \in 1..N : Starts(d)[n + 1] = Starts(d)[n] + ItemLen(d[n])
  BY <1>1, StartsAre
<1>8. \A f \in Plumbing : Min(Finds(d, f)) \in Finds(d, f) /\ d[Min(Finds(d, f))].kind = RequiredKind[f]
  <2> SUFFICES ASSUME NEW f \in Plumbing
               PROVE  Min(Finds(d, f)) \in Finds(d, f) /\ d[Min(Finds(d, f))].kind = RequiredKind[f]
    OBVIOUS
  <2>1. Finds(d, f) # {} /\ d[Min(Finds(d, f))].kind = RequiredKind[f]
    BY <1>1 DEF Compiles, Equipped
  <2>2. Finds(d, f) \in SUBSET Nat
    BY <1>2 DEF Finds
  <2> QED BY <2>1, <2>2, MinIsLeast
<1>9. \A f \in Plumbing : Min(Finds(d, f)) \in 1..N
  BY <1>2, <1>8 DEF Finds
<1>10. N > 0
  <2>1. sfFee \in Plumbing
    BY DEF Plumbing, Patched
  <2> QED BY <1>2, <1>9, <2>1
<1>11. d[N].kind = "details" /\ N \in 1..N /\ d[N] \in Item
  BY <1>1, <1>2, <1>10 DEF Compiles, Grammatical
<1>12. ItemLen(d[N]) = DetailsMaxLen
  BY <1>11 DEF ItemLen, Containers, Ends
<1>13. Starts(d)[N + 1] = Starts(d)[N] + DetailsMaxLen /\ Starts(d)[N] \in Nat \ {0}
  BY <1>2, <1>7, <1>11, <1>12
<1>14. L.fresh \in Seq(Byte(D)) /\ Len(L.fresh) = Starts(d)[N + 1] - Starts(d)[1]
  <2>1. 1 \in 1..N /\ N \in 1..N
    BY <1>2, <1>10
  <2> HIDE DEF D
  <2> DEFINE open == {}
  <2> HIDE DEF open
  <2>2. Images(d, 1, N, open) \in Seq(Byte(D)) /\ Len(Images(d, 1, N, open)) = Starts(d)[N + 1] - Starts(d)[1]
    BY <1>1, <2>1, ImagesAre
  <2> QED BY <1>3, <2>2 DEF open
<1>15. Len(L.fresh) = Starts(d)[N] - 1 + DetailsMaxLen
  BY <1>7, <1>13, <1>14, TemplateConstants
<1>16. L.slot \in [Slotted(d) -> Seq(Byte(D))]
  <2>1. Slotted(d) = {m \in DOMAIN d : d[m].optional /\ d[m].kind \in Containers}
    BY <1>2 DEF Slotted
  <2>2. ASSUME NEW n \in Slotted(d)
        PROVE  L.slot[n] \in Seq(Byte(D))
    <3> DEFINE open == {n} \cup {c \in Range(Nesting(d)[n]) : d[c].optional}
               end == Max(Span(d, n))
    <3>1. n \in 1..N /\ L.slot[n] = Images(d, n, end, open)
      BY <1>4, <2>1 DEF Slotted
    <3>2. end \in n..N
      BY <1>1, <3>1, CloseIs
    <3> HIDE DEF open, end, D
    <3> QED BY <1>1, <3>1, <3>2, ImagesAre
  <2>3. L.slot = [n \in Slotted(d) |-> L.slot[n]]
    BY <1>4, <2>1
  <2> QED BY <2>2, <2>3
<1>17. L.outer \in [1..N -> Seq(Boxes(d))]
  <2>1. ASSUME NEW n \in 1..N
        PROVE  L.outer[n] \in Seq(Boxes(d))
    <3>1. CASE outer(n) = {}
      <4>1. L.outer[n] = <<>>
        BY <1>2, <1>5, <3>1
      <4> QED BY <4>1, EmptySeq
    <3>2. CASE outer(n) # {}
      <4>1. n \in 1..(N + 1)
        BY <1>2
      <4>2. Range(Nesting(d)[n]) \subseteq Boxes(d)
        BY <1>6, <4>1 DEF Range
      <4>3. outer(n) \in SUBSET (1..N)
        BY <4>2 DEF Boxes
      <4>4. Max(outer(n)) \in outer(n)
        <5> HIDE DEF outer
        <5> QED BY <1>2, <3>2, <4>3, MaxIsGreatest
      <4>5. Max(outer(n)) \in 1..(N + 1)
        BY <1>2, <4>3, <4>4
      <4>6. L.outer[n] = Nesting(d)[Max(outer(n))]
        BY <1>2, <1>5, <3>2
      <4> QED BY <1>6, <4>5, <4>6
    <3> QED BY <3>1, <3>2
  <2>2. L.outer = [n \in 1..N |-> L.outer[n]]
    BY <1>2, <1>5
  <2> QED BY <2>1, <2>2
<1>18. L.within \in [1..N -> Seq(Boxes(d))]
  <2>1. \A n \in 1..N : n \in 1..(N + 1)
    BY <1>2
  <2> QED BY <1>2, <1>3, <1>6, <2>1
<1>19. L.start \in [1..(N + 1) -> Nat]
  BY <1>3, <1>7
<1>20. L.plumb \in [Plumbing -> 1..N] /\ \A f \in Plumbing : d[L.plumb[f]].kind = RequiredKind[f]
  BY <1>3, <1>8, <1>9
<1> QED BY <1>1, <1>3, <1>10, <1>13, <1>14, <1>15, <1>16, <1>17, <1>18, <1>19, <1>20 DEF Shaped

-----------------------------------------------------------------------------
(* The setters keep the template a template.                                *)

Bytes(D) == [1..Len(lay.fresh) -> Byte(D)]

LEMMA ItemsAre ==
  ASSUME Shaped(lay)
  PROVE  \A n \in Items : /\ item[n] \in Item /\ lay.start[n] \in Nat
                           /\ lay.outer[n] \in Seq(Boxes(item))
                           /\ lay.within[n] \in Seq(Boxes(item))
<1> DEFINE L == lay
           N == Len(L.item)
<1>1. L.item = item /\ Items = DOMAIN L.item
  BY DEF Items, item
<1>2. /\ L.item \in Seq(Item) /\ L.start \in [1..(N + 1) -> Nat]
      /\ L.outer \in [1..N -> Seq(Boxes(L.item))]
      /\ L.within \in [1..N -> Seq(Boxes(L.item))]
  BY DEF Shaped
<1>3. N \in Nat /\ DOMAIN L.item = 1..N
  BY <1>2
<1> HIDE DEF N, L
<1>4. \A n \in Items : n \in 1..N /\ n \in 1..(N + 1)
  BY <1>1, <1>3
<1>5. \A n \in 1..N : L.item[n] \in Item
  BY <1>2, <1>3
<1>6. ASSUME NEW n \in Items
      PROVE  /\ item[n] \in Item /\ L.start[n] \in Nat
             /\ L.outer[n] \in Seq(Boxes(item)) /\ L.within[n] \in Seq(Boxes(item))
  BY <1>1, <1>2, <1>4, <1>5
<1> QED BY <1>6 DEF L

LEMMA BytesGrow ==
  ASSUME NEW D, NEW E, D \subseteq E, NEW b \in Bytes(D)
  PROVE  b \in Bytes(E)
  BY ByteGrows DEF Bytes

LEMMA OverIs ==
  ASSUME NEW D, NEW b \in Bytes(D), NEW at \in Int, NEW s \in Seq(Byte(D))
  PROVE  Over(b, at, s) \in Bytes(D)
<1> DEFINE B == Byte(D)
           W == 1..Len(lay.fresh)
<1>1. b \in [W -> B] /\ s \in Seq(B)
  BY DEF Bytes
<1>2. W \subseteq Int
  OBVIOUS
<1> HIDE DEF B, W
<1>3. ASSUME NEW k \in W, k \in at..(at + Len(s) - 1)
      PROVE  s[k - at + 1] \in B
  <2>1. k \in Int /\ Len(s) \in Nat
    BY <1>1, <1>2
  <2>2. k - at + 1 \in 1..Len(s)
    BY <1>3, <2>1
  <2> QED BY <1>1, <2>2
<1>4. Over(b, at, s) \in [W -> B]
  BY <1>1, <1>3 DEF Over
<1> QED BY <1>4 DEF Bytes, B, W

LEMMA WithoutIs ==
  ASSUME NEW D, NEW b \in Bytes(D), NEW gap
  PROVE  Without(b, gap) \in Bytes(D)
  BY ByteIs DEF Bytes, Without

LEMMA BlitIs ==
  ASSUME Shaped(lay), NEW D, NEW b \in Bytes(D), NEW c \in Slotted(item)
  PROVE  Blit(b, c) \in Bytes(D)
<1> DEFINE slot == lay.slot[c]
           empty == {}
<1>1. slot \in Seq(Byte(empty)) /\ empty \subseteq D
  BY DEF Shaped, item
<1> HIDE DEF slot, empty
<1>2. Byte(empty) \subseteq Byte(D)
  BY <1>1, ByteGrows
<1>3. \A k \in DOMAIN slot : slot[k] \in Byte(D)
  BY <1>1, <1>2
<1> QED BY <1>3 DEF Blit, Bytes, slot

LEMMA MaterializeIs ==
  ASSUME Shaped(lay), NEW D, NEW b \in Bytes(D), NEW c \in Slotted(item)
  PROVE  Materialize(b, c) \in Bytes(D)
  BY BlitIs DEF Materialize

(* Ensured is what a run over the containers leaves.                        *)
Ensures(after, b, around) ==
  /\ after[0] = b
  /\ \A k \in 1..Len(around) :
       after[k] = IF item[around[k]].optional THEN Materialize(after[k - 1], around[k])
                  ELSE after[k - 1]

LEMMA EnsuredRun ==
  ASSUME Shaped(lay), NEW D, NEW b \in Bytes(D), NEW around \in Seq(Boxes(item))
  PROVE  \E after \in [0..Len(around) -> Bytes(D)] :
           Ensures(after, b, around) /\ Ensured(b, around) = after[Len(around)]
<1> DEFINE N == Len(around)
           S == Bytes(D)
           Made(k, s) == IF item[around[k]].optional THEN Materialize(s, around[k]) ELSE s
           F(g) == [k \in 0..N |-> IF k = 0 THEN b ELSE Made(k, g[k - 1])]
           after == CHOOSE g : g = F(g)
           step == [k \in 1..N |-> [s \in S |-> Made(k, s)]]
<1>1. N \in Nat
  OBVIOUS
<1>2. ASSUME NEW k \in 1..N, NEW s \in S
      PROVE  Made(k, s) \in S
  <2>1. around[k] \in Boxes(item)
    OBVIOUS
  <2>2. item[around[k]].optional => around[k] \in Slotted(item)
    BY <2>1 DEF Boxes, Slotted
  <2> QED BY <2>2, MaterializeIs
<1>3. Ensured(b, around) = after[N]
  BY DEF Ensured
<1> HIDE DEF Made, F, after, N, S, step
<1>4. step \in [1..N -> [S -> S]] /\ b \in S
  BY <1>2 DEF step, S
<1>5. PICK g : Iterates(g, N, S, b, step)
  BY <1>1, <1>4, Iteration
<1>6. \A k \in 0..N : g[k] = F(g)[k]
  <2> SUFFICES ASSUME NEW k \in 0..N PROVE g[k] = F(g)[k]
    OBVIOUS
  <2>1. CASE k = 0
    BY <1>5, <2>1 DEF F, Iterates
  <2>2. CASE k # 0
    <3>1. k \in 1..N /\ g[k - 1] \in S
      BY <1>1, <1>5, <2>2 DEF Iterates
    <3> QED BY <1>5, <2>2, <3>1 DEF F, Iterates, step
  <2> QED BY <2>1, <2>2
<1>7. g = F(g)
  <2>1. F(g) = [k \in 0..N |-> F(g)[k]]
    BY DEF F
  <2>2. g = [k \in 0..N |-> g[k]]
    BY <1>5 DEF Iterates
  <2> QED BY <1>6, <2>1, <2>2
<1>8. after = F(after)
  BY <1>7 DEF after
<1>9. \A k \in 0..N : after[k] = IF k = 0 THEN b ELSE Made(k, after[k - 1])
  BY <1>8 DEF F
<1>10. after[0] = b
  BY <1>1, <1>9
<1>11. \A k \in 1..N : after[k - 1] \in S => after[k] = step[k][after[k - 1]]
  BY <1>1, <1>9 DEF step
<1>12. \A k \in 0..N : after[k] \in S
  BY <1>1, <1>5, <1>10, <1>11, IterationUnique
<1>13. after \in [0..N -> S]
  BY <1>8, <1>12 DEF F
<1>14. \A k \in 1..N : after[k] = Made(k, after[k - 1])
  BY <1>1, <1>9
<1> QED BY <1>3, <1>10, <1>13, <1>14 DEF S, N, Made, Ensures

LEMMA EnsuredIs ==
  ASSUME Shaped(lay), NEW D, NEW b \in Bytes(D), NEW around \in Seq(Boxes(item))
  PROVE  Ensured(b, around) \in Bytes(D)
<1>1. PICK after \in [0..Len(around) -> Bytes(D)] : Ensured(b, around) = after[Len(around)]
  BY EnsuredRun
<1>2. Len(around) \in 0..Len(around)
  OBVIOUS
<1> QED BY <1>1, <1>2

LEMMA OpenedIs ==
  ASSUME Shaped(lay), NEW D, bytes \in Bytes(D), NEW n \in Items
  PROVE  Reached(n) \in Bytes(D) /\ Opened(n) \in Bytes(D)
<1>1. lay.outer[n] \in Seq(Boxes(item)) /\ lay.within[n] \in Seq(Boxes(item))
  BY ItemsAre
<1>2. Reached(n) \in Bytes(D)
  BY <1>1, EnsuredIs DEF Reached
<1> QED BY <1>1, <1>2, EnsuredIs DEF Opened

LEMMA OpeningIs ==
  ASSUME NEW D, NEW i \in Item, i.kind \in DOMAIN Sti
  PROVE  Opening(i) \in Seq(Byte(D)) /\ Len(Opening(i)) \in Nat
<1> DEFINE tail == CASE i.kind = "empty" -> Prefix(0)
                     [] i.kind = "fixed" -> Prefix(i.high)
                     [] OTHER -> <<>>
<1>1. i.code \in DOMAIN sti /\ i.high \in Nat /\ 0 \in Nat
  BY ItemIs
<1>2. tail \in Seq(Byte(D))
  BY <1>1, PrefixIs, EmptySeq
<1>3. Opening(i) = <<Header(i.code)>> \o tail
  BY DEF Opening
<1> HIDE DEF tail
<1>4. Opening(i) \in Seq(Byte(D))
  BY <1>1, <1>2, <1>3, HeadIs
<1> QED BY <1>4

LEMMA PayloadIs ==
  ASSUME NEW D, NEW i \in Item, NEW v \in Int,
         i.kind \in {"scalar", "native", "fixed", "empty"}
  PROVE  Payload(i, v) \in Seq(Byte(D))
<1>1. <<"value", v>> \in Byte(D) /\ i.high \in Nat
  BY ByteIs, ItemIs DEF Plain
<1>4. <<<<"value", v>>>> \in Seq(Byte(D))
  BY <1>1
<1>2. <<<<"value", v>>>> \in Seq(Byte(D)) /\ Repeat(i.high, <<"value", v>>) \in Seq(Byte(D))
  <2> DEFINE x == <<"value", v>>
  <2> HIDE DEF x
  <2>1. x \in Byte(D)
    BY <1>1 DEF x
  <2>2. Repeat(i.high, x) \in Seq(Byte(D))
    BY <1>1, <2>1, RepeatIs
  <2> QED BY <1>4, <2>2 DEF x
<1>3. Native(v) \in Seq(Byte(D))
  BY AmountIs
<1> QED BY <1>2, <1>3, EmptySeq DEF Payload

LEMMA PayloadsAre ==
  ASSUME NEW D, NEW n \in Items, item[n] \in Item, Settable(n),
         NEW payload \in Payloads(item[n])
  PROVE  payload \in Seq(Byte(D)) /\ item[n].kind \in DOMAIN Sti
<1> DEFINE i == item[n]
<1>1. i.kind \in {"scalar", "native", "issued", "any", "fixed", "empty"}
  BY DEF Settable
<1>2. i.kind \in DOMAIN Sti
  BY <1>1 DEF Sti
<1>3. \A v \in Inputs : v \in Int
  BY TemplateConstants
<1>4. \A v \in Inputs : /\ Native(v) \in Seq(Byte(D)) /\ Issued(v) \in Seq(Byte(D))
                        /\ Repeat(NativeLen, <<"issued", v>>) \in Seq(Byte(D))
  BY <1>3, AmountIs
<1>5. CASE i.kind = "issued"
  <2>1. PICK v \in Inputs : \/ payload = Issued(v)
                            \/ payload = Repeat(NativeLen, <<"issued", v>>)
    BY <1>5, Zenon DEF Payloads
  <2> QED BY <1>2, <1>4, <2>1
<1>6. CASE i.kind = "any"
  <2>1. PICK v \in Inputs : payload = Native(v) \/ payload = Issued(v)
    BY <1>6, Zenon DEF Payloads
  <2> QED BY <1>2, <1>4, <2>1
<1>7. CASE i.kind \notin {"issued", "any"}
  <2>1. PICK v \in Inputs : payload = Payload(i, v)
    BY <1>7 DEF Payloads
  <2>2. i.kind \in {"scalar", "native", "fixed", "empty"} /\ i \in Item
    BY <1>1, <1>7
  <2> QED BY <1>2, <1>3, <2>1, <2>2, PayloadIs
<1> QED BY <1>2, <1>5, <1>6, <1>7

LEMMA WrittenIs ==
  ASSUME Shaped(lay), NEW D, NEW b \in Bytes(D), NEW n \in Items,
         item[n].kind \in DOMAIN Sti, NEW payload \in Seq(Byte(D))
  PROVE  Written(b, n, payload) \in Bytes(D)
<1> DEFINE at == lay.start[n]
           opening == Opening(item[n])
<1>1. at \in Nat /\ item[n] \in Item
  BY ItemsAre
<1>2. opening \in Seq(Byte(D)) /\ Len(opening) \in Nat
  BY <1>1, OpeningIs
<1>3. at \in Int /\ at + Len(opening) \in Int
  BY <1>1, <1>2
<1>4. Written(b, n, payload) =
        Over(IF item[n].optional THEN Over(b, at, opening) ELSE b, at + Len(opening), payload)
  BY DEF Written
<1> HIDE DEF at, opening
<1>5. Over(b, at, opening) \in Bytes(D)
  BY <1>2, <1>3, OverIs
<1> DEFINE base == IF item[n].optional THEN Over(b, at, opening) ELSE b
           from == at + Len(opening)
<1>6. base \in Bytes(D) /\ from \in Int
  BY <1>3, <1>5
<1> HIDE DEF base, from
<1>7. Over(base, from, payload) \in Bytes(D)
  BY <1>6, OverIs
<1> QED BY <1>4, <1>7 DEF base, from

(* A call leaves no new nonce in the template, or the one it asked for.     *)
Drawn(D) == D \cup {nonces + 1}

Stepped(D) ==
  /\ UNCHANGED <<decl, lay>> /\ prepared' \in 0..Len(lay.fresh)
  /\ \/ nonces' = nonces /\ bytes' \in Bytes(D)
     \/ nonces < MaxNonces /\ nonces' = nonces + 1 /\ bytes' \in Bytes(Drawn(D))

LEMMA EditStep ==
  ASSUME NEW D, prepared \in 0..Len(lay.fresh), NEW b \in Bytes(D), Edit(b)
  PROVE  Stepped(D)
  BY DEF Edit, Stepped, compiled

LEMMA SetStep ==
  ASSUME Shaped(lay), NEW D, bytes \in Bytes(D),
         prepared \in 0..Len(lay.fresh),
         NEW n \in Items, NEW payload \in Payloads(item[n]), Set(n, payload)
  PROVE  Stepped(D)
<1>1. item[n] \in Item /\ Settable(n) /\ Opened(n) \in Bytes(D)
  BY ItemsAre, OpenedIs DEF Set
<1>2. payload \in Seq(Byte(D)) /\ item[n].kind \in DOMAIN Sti
  BY <1>1, PayloadsAre
<1>3. Written(Opened(n), n, payload) \in Bytes(D)
  BY <1>1, <1>2, WrittenIs
<1> QED BY <1>3 DEF Set, Stepped, compiled

LEMMA RefuseStep ==
  ASSUME Shaped(lay), NEW D, bytes \in Bytes(D),
         prepared \in 0..Len(lay.fresh), NEW n \in Items, Refuse(n)
  PROVE  Stepped(D)
<1> DEFINE none == <<>>
<1>1. none \in Seq(Byte(D)) /\ Opened(n) \in Bytes(D) /\ item[n].kind \in DOMAIN Sti
  BY EmptySeq, OpenedIs DEF Refuse, Sti
<1>2. Edit(Written(Opened(n), n, none))
  BY DEF Refuse
<1> HIDE DEF none
<1>3. Written(Opened(n), n, none) \in Bytes(D)
  BY <1>1, WrittenIs
<1> QED BY <1>2, <1>3, EditStep

(* What a vl setter writes.                                                 *)
LEMMA VlIs ==
  ASSUME Shaped(lay), NEW D, NEW b \in Bytes(D), NEW n \in Items,
         item[n].kind = "vl", NEW len \in Nat, NEW x \in Byte(D)
  PROVE  Over(b, lay.start[n],
              Padded(<<Header(item[n].code)>> \o Blob(len, x), ItemLen(item[n]))) \in Bytes(D)
<1> DEFINE blob == Blob(len, x)
           head == <<Header(item[n].code)>> \o blob
           value == Padded(head, ItemLen(item[n]))
<1>1. item[n] \in Item /\ lay.start[n] \in Int
  BY ItemsAre
<1>2. item[n].code \in DOMAIN sti /\ ItemLen(item[n]) \in Nat
  BY <1>1, ItemIs, ItemLenIs DEF Sti
<1>3. blob \in Seq(Byte(D))
  BY BlobIs
<1> HIDE DEF blob
<1>4. head \in Seq(Byte(D))
  BY <1>2, <1>3, HeadIs
<1> HIDE DEF head
<1>5. value \in Seq(Byte(D))
  BY <1>2, <1>4, PadIs
<1> HIDE DEF value
<1>6. Over(b, lay.start[n], value) \in Bytes(D)
  BY <1>1, <1>5, OverIs
<1> QED BY <1>6 DEF value, head, blob

LEMMA FillStep ==
  ASSUME Shaped(lay), NEW D, bytes \in Bytes(D),
         prepared \in 0..Len(lay.fresh), NEW n \in Items,
         NEW len, NEW v \in Inputs, Fill(n, len, v)
  PROVE  Stepped(D)
<1>1. Opened(n) \in Bytes(D)
  BY OpenedIs
<1>2. CASE Edit(Opened(n))
  BY <1>1, <1>2, EditStep
<1>3. CASE UNCHANGED <<compiled, bytes, prepared, nonces>>
  BY <1>3 DEF Stepped, compiled
<1>4. CASE /\ len \in item[n].low..item[n].high
           /\ bytes' = Over(Opened(n), lay.start[n],
                Padded(<<Header(item[n].code)>> \o Blob(len, <<"value", v>>), ItemLen(item[n])))
           /\ UNCHANGED <<compiled, prepared, nonces>>
  <2> DEFINE x == <<"value", v>>
  <2>1. x \in Byte(D)
    BY TemplateConstants, ByteIs DEF Plain
  <2>2. len \in Nat /\ item[n].kind = "vl"
    BY <1>4, ItemsAre, ItemIs DEF Fill
  <2>3. bytes' = Over(Opened(n), lay.start[n],
                 Padded(<<Header(item[n].code)>> \o Blob(len, x), ItemLen(item[n])))
    BY <1>4
  <2> HIDE DEF x
  <2>4. bytes' \in Bytes(D)
    BY <1>1, <2>1, <2>2, <2>3, VlIs
  <2> QED BY <1>4, <2>4 DEF Stepped, compiled
<1> QED BY <1>2, <1>3, <1>4 DEF Fill

LEMMA ResetStep ==
  ASSUME Shaped(lay), NEW D, bytes \in Bytes(D),
         prepared \in 0..Len(lay.fresh), NEW n \in Items, Reset(n)
  PROVE  Stepped(D)
<1>1. Reached(n) \in Bytes(D) /\ Zero \in Byte(D) /\ item[n] \in Item
  BY OpenedIs, ByteIs, ItemsAre
<1>2. item[n].low \in Nat /\ item[n].kind = "vl"
  BY <1>1, ItemIs DEF Reset
<1>3. Edit(Over(Reached(n), lay.start[n],
           Padded(<<Header(item[n].code)>> \o Blob(item[n].low, Zero), ItemLen(item[n]))))
  BY DEF Reset
<1> QED BY <1>1, <1>2, <1>3, VlIs, EditStep

LEMMA ClearStep ==
  ASSUME Shaped(lay), NEW D, bytes \in Bytes(D),
         prepared \in 0..Len(lay.fresh),
         \/ \E n \in Items : Clear(n) \/ Index(n)
         \/ \E o \in {0} \cup Items : ClearOptionals(o)
  PROVE  Stepped(D)
<1>1. ASSUME NEW n \in Items, Clear(n)
      PROVE  Stepped(D)
  <2>1. Without(Reached(n), lay.gap[n]) \in Bytes(D)
    BY OpenedIs, WithoutIs
  <2> QED BY <1>1, <2>1, EditStep DEF Clear
<1>2. ASSUME NEW n \in Items, Index(n)
      PROVE  Stepped(D)
  BY <1>2, OpenedIs, EditStep DEF Index
<1>3. ASSUME NEW o \in {0} \cup Items, ClearOptionals(o)
      PROVE  Stepped(D)
  <2> DEFINE base == IF o = 0 THEN bytes ELSE Reached(o)
             gaps == UNION {lay.gap[n] : n \in lay.owned[o]}
  <2>1. base \in Bytes(D)
    BY OpenedIs
  <2>2. Edit(Without(base, gaps))
    BY <1>3 DEF ClearOptionals
  <2> HIDE DEF base, gaps
  <2>3. Without(base, gaps) \in Bytes(D)
    BY <2>1, WithoutIs
  <2> QED BY <2>2, <2>3, EditStep
<1> QED BY <1>1, <1>2, <1>3

LEMMA EnableStep ==
  ASSUME Shaped(lay), NEW D, bytes \in Bytes(D),
         prepared \in 0..Len(lay.fresh), NEW n \in Items, Enable(n)
  PROVE  Stepped(D)
<1>1. Reached(n) \in Bytes(D) /\ Opened(n) \in Bytes(D) /\ lay.start[n] \in Int
  BY OpenedIs, ItemsAre
<1>2. n \in Slotted(item) /\ n \in DOMAIN lay.slot
  BY DEF Enable, Shaped, item
<1>3. Materialize(Opened(n), n) \in Bytes(D)
  BY <1>1, <1>2, MaterializeIs
<1>4. lay.slot[n] \in Seq(Byte(D))
  <2> DEFINE empty == {}
             slot == lay.slot[n]
  <2>1. slot \in Seq(Byte(empty)) /\ empty \subseteq D
    BY <1>2 DEF Shaped, item
  <2> HIDE DEF empty
  <2>2. Byte(empty) \subseteq Byte(D)
    BY <2>1, ByteGrows
  <2> HIDE DEF slot
  <2>3. slot \in Seq(Byte(D))
    BY <2>1, <2>2
  <2> QED BY <2>3 DEF slot
<1>5. Over(Reached(n), lay.start[n], lay.slot[n]) \in Bytes(D)
  BY <1>1, <1>4, OverIs
<1>6. \/ Edit(Over(Reached(n), lay.start[n], lay.slot[n]))
      \/ Edit(Materialize(Opened(n), n))
  BY DEF Enable
<1> QED BY <1>3, <1>5, <1>6, EditStep

LEMMA StampIs ==
  ASSUME Shaped(lay), nonces \in Nat, NEW D, NEW b \in Bytes(D)
  PROVE  /\ Stamp(b) \in Bytes(Drawn(D))
         /\ DetailsAt \in Int /\ PreparedLen \in 0..Len(lay.fresh)
<1> DEFINE E == Drawn(D)
           x == <<"details", nonces + 1>>
           at == DetailsAt
           stamp == Repeat(DetailsLen, x)
<1>1. D \subseteq E /\ x \in Byte(E)
  <2>1. nonces + 1 \in E /\ D \subseteq E
    BY DEF Drawn
  <2> QED BY <2>1, ByteIs
<1>2. /\ at \in Nat \ {0} /\ Len(lay.fresh) = at - 1 + DetailsMaxLen
  BY DEF Shaped, DetailsAt, item
<1>3. DetailsLen \in Nat /\ DetailsLen <= DetailsMaxLen /\ DetailsMaxLen \in Nat
  BY Constants
<1>4. Stamp(b) = Over(b, at, stamp)
  BY DEF Stamp
<1> HIDE DEF E, x, at
<1>5. stamp \in Seq(Byte(E))
  BY <1>1, <1>3, RepeatIs
<1> HIDE DEF stamp
<1>6. b \in Bytes(E) /\ at \in Int
  BY <1>1, <1>2, BytesGrow
<1>7. Over(b, at, stamp) \in Bytes(E)
  BY <1>5, <1>6, OverIs
<1>8. at - 1 + DetailsLen \in 0..Len(lay.fresh)
  BY <1>2, <1>3
<1> QED BY <1>4, <1>6, <1>7, <1>8 DEF E, at, PreparedLen

LEMMA PatchingIs ==
  ASSUME Shaped(lay), NEW D, NEW b \in Bytes(D), NEW f \in Patched,
         NEW fee, Patch(f, fee) \in Int
  PROVE  Patching(b, f, fee) \in Bytes(D)
<1> DEFINE n == lay.plumb[f]
           v == Patch(f, fee)
           payload == Payload(item[n], v)
           opening == Opening(item[n])
           at == lay.start[n] + Len(opening)
<1>1. n \in Items /\ item[n].kind = RequiredKind[f] /\ f \in Plumbing
  <2>1. f \in Plumbing
    BY DEF Plumbing
  <2>2. Items = 1..Len(item)
    BY DEF Shaped, Items, item
  <2> QED BY <2>1, <2>2 DEF Shaped, item
<1>2. item[n] \in Item /\ lay.start[n] \in Nat
  BY <1>1, ItemsAre
<1>3. item[n].kind \in {"scalar", "native", "fixed", "empty"}
  BY <1>1 DEF RequiredKind
<1>4. payload \in Seq(Byte(D))
  BY <1>2, <1>3, PayloadIs
<1>5. opening \in Seq(Byte(D)) /\ Len(opening) \in Nat
  BY <1>2, <1>3, OpeningIs DEF Sti
<1>6. Patching(b, f, fee) = Over(b, at, payload)
  BY DEF Patching
<1>7. at \in Int
  BY <1>2, <1>5
<1> HIDE DEF at, payload
<1>8. Over(b, at, payload) \in Bytes(D)
  BY <1>4, <1>7, OverIs
<1> QED BY <1>6, <1>8

LEMMA PrepareStep ==
  ASSUME Shaped(lay), NEW D, bytes \in Bytes(D), nonces \in Nat,
         prepared \in 0..Len(lay.fresh), NEW fails, Prepare(fails)
  PROVE  Stepped(D)
<1> DEFINE first == Patching(bytes, sfFirstLedgerSequence, 0)
           ledger == Patching(first, sfLastLedgerSequence, 0)
           own == Patching(ledger, sfAccount, 0)
           fee == FeeBase(PreparedLen)
           E == Drawn(D)
<1>1. /\ Patch(sfFirstLedgerSequence, 0) \in Int /\ Patch(sfLastLedgerSequence, 0) \in Int
      /\ Patch(sfAccount, 0) \in Int /\ Patch(sfFee, fee) \in Int
  <2>1. PreparedLen \in Nat
    BY StampIs
  <2>2. LedgerSeq \in Nat /\ HookAccount \in Int /\ fee \in Int
    BY <2>1, Constants DEF FeeBase
  <2> QED BY <2>2, SixFields DEF Patch
<1>2. /\ sfFirstLedgerSequence \in Patched /\ sfLastLedgerSequence \in Patched
      /\ sfAccount \in Patched /\ sfFee \in Patched
  BY DEF Patched
<1>3. first \in Bytes(D)
  BY <1>1, <1>2, PatchingIs
<1>4. ledger \in Bytes(D)
  <2> HIDE DEF first
  <2> QED BY <1>1, <1>2, <1>3, PatchingIs
<1>5. own \in Bytes(D)
  <2> HIDE DEF ledger
  <2> QED BY <1>1, <1>2, <1>4, PatchingIs
<1>6. Stamp(own) \in Bytes(E) /\ PreparedLen \in 0..Len(lay.fresh)
  <2> HIDE DEF own
  <2> QED BY <1>5, StampIs
<1>7. Patching(Stamp(own), sfFee, fee) \in Bytes(E)
  <2> DEFINE stamped == Stamp(own)
  <2>1. stamped \in Bytes(E)
    BY <1>6
  <2> HIDE DEF stamped, E, fee
  <2>2. Patching(stamped, sfFee, fee) \in Bytes(E)
    BY <1>1, <1>2, <2>1, PatchingIs
  <2> QED BY <2>2 DEF stamped
<1>8. \/ bytes' = ledger /\ nonces' = nonces /\ prepared' = prepared
      \/ bytes' = own /\ nonces' = nonces /\ prepared' = prepared
      \/ /\ bytes' = Stamp(own) /\ nonces' = nonces + 1 /\ prepared' = prepared
         /\ nonces < MaxNonces
      \/ /\ bytes' = Patching(Stamp(own), sfFee, fee) /\ nonces' = nonces + 1
         /\ prepared' = PreparedLen /\ nonces < MaxNonces
  BY Zenon DEF Prepare, Answers
<1>9. UNCHANGED <<decl, lay>>
  BY DEF Prepare, compiled
<1> HIDE DEF ledger, own, fee, E
<1> QED BY <1>4, <1>5, <1>6, <1>7, <1>8, <1>9 DEF Stepped, E

LEMMA TemplateStep ==
  ASSUME Shaped(lay), NEW D, bytes \in Bytes(D), nonces \in Nat,
         prepared \in 0..Len(lay.fresh), TemplateNext
  PROVE  Stepped(D)
<1>1. ASSUME NEW n \in Items, NEW payload \in (IF Settable(n) THEN Payloads(item[n]) ELSE {}),
             Set(n, payload)
      PROVE  Stepped(D)
  BY <1>1, SetStep DEF Set
<1>2. ASSUME NEW n \in Items, NEW len, NEW v \in Inputs, Fill(n, len, v)
      PROVE  Stepped(D)
  BY <1>2, FillStep
<1>3. ASSUME NEW n \in Items, Refuse(n) \/ Reset(n) \/ Clear(n) \/ Enable(n) \/ Index(n)
      PROVE  Stepped(D)
  BY <1>3, RefuseStep, ResetStep, ClearStep, EnableStep
<1>4. ASSUME NEW o \in {0} \cup Items, ClearOptionals(o)
      PROVE  Stepped(D)
  BY <1>4, ClearStep
<1>5. CASE FillDetails
  <2>1. Stamp(bytes) \in Bytes(Drawn(D))
    BY StampIs
  <2> QED BY <1>5, <2>1 DEF FillDetails, Stepped, compiled
<1>6. ASSUME NEW fails, Prepare(fails)
      PROVE  Stepped(D)
  BY <1>6, PrepareStep
<1> QED BY <1>1, <1>2, <1>3, <1>4, <1>5, <1>6 DEF TemplateNext

-----------------------------------------------------------------------------
(* What the host reads.                                                     *)

(* Only EmitDetails are found without a code.                               *)
Told(b, k, s) ==
  /\ DOMAIN s = {"ok", "skip", "next", "found", "open"}
  /\ \A x \in s.found : x[2] = "none" => x[1] \in 1..k /\ b[x[1]][1] = "details"

LEMMA FindsField ==
  ASSUME NEW D, NEW b \in Seq(Byte(D)), NEW k \in 1..Len(b), NEW s,
         b[k][1] = "header", Told(b, k - 1, s), NEW next
  PROVE  Told(b, k, FindField(b, s, k, next))
<1>1. b[k][2] # "none"
  BY TemplateConstants, ByteIs
<1>2. 1..(k - 1) \subseteq 1..k
  OBVIOUS
<1> DEFINE t == FindField(b, s, k, next)
<1>3. DOMAIN t = {"ok", "skip", "next", "found", "open"}
      /\ t.found = s.found \cup {<<k, b[k][2], Last(s.open).at>>}
  BY DEF FindField, Told
<1> HIDE DEF t
<1>4. Told(b, k, t)
  BY <1>1, <1>2, <1>3 DEF Told
<1> QED BY <1>4 DEF t

LEMMA ReadsOn ==
  ASSUME NEW D, NEW b \in Seq(Byte(D)), NEW k \in 1..Len(b), NEW s,
         Told(b, k - 1, s)
  PROVE  Told(b, k, Read(b, s, k))
<1> DEFINE kind == b[k][1]
           five == {"ok", "skip", "next", "found", "open"}
<1>1. 1..(k - 1) \subseteq 1..k /\ k \in 1..k
  OBVIOUS
<1>2. ASSUME NEW t, DOMAIN t = five, t.found = s.found
      PROVE  Told(b, k, t)
  BY <1>1, <1>2 DEF Told
<1>3. Told(b, k, Fail(s)) /\ Told(b, k, s)
  <2>1. DOMAIN Fail(s) = five /\ Fail(s).found = s.found
    BY DEF Fail, Told
  <2> QED BY <1>2, <2>1 DEF Told
<1>4. ASSUME kind = "header", NEW next
      PROVE  Told(b, k, FindField(b, s, k, next))
  BY <1>4, FindsField
<1>5. ASSUME NEW t, Told(b, k, t)
      PROVE  /\ \A v : Told(b, k, [t EXCEPT !.skip = v])
             /\ \A v : Told(b, k, [t EXCEPT !.open = v])
  BY <1>5 DEF Told
<1>6. ASSUME kind = "header"
      PROVE  Told(b, k, Headed(b, s, k))
  <2> DEFINE t == FindField(b, s, k, "header")
  <2>1. Told(b, k, t)
    BY <1>4, <1>6
  <2> HIDE DEF t
  <2>2. Told(b, k, Enter(b, s, k))
    <3> DEFINE v == Append(t.open, [kind |-> sti[b[k][2]], at |-> k, nops |-> 0])
    <3>1. Enter(b, s, k) = Fail(s) \/ Enter(b, s, k) = [t EXCEPT !.open = v]
      BY DEF Enter, t
    <3> HIDE DEF v
    <3>2. Told(b, k, [t EXCEPT !.open = v])
      BY <1>5, <2>1
    <3> QED BY <1>3, <3>1, <3>2
  <2>3. Told(b, k, [t EXCEPT !.skip = 1])
    BY <1>5, <2>1
  <2>4. Told(b, k, FindField(b, s, k, sti[b[k][2]]))
    BY <1>4, <1>6
  <2> QED BY <1>3, <2>2, <2>3, <2>4 DEF Headed, t
<1>7. ASSUME kind = "details"
      PROVE  Told(b, k, [s EXCEPT !.found = @ \cup {<<k, "none", 0>>}, !.skip = DetailsLen - 1])
  <2> DEFINE t == [s EXCEPT !.found = @ \cup {<<k, "none", 0>>}, !.skip = DetailsLen - 1]
  <2>1. DOMAIN t = five /\ t.found = s.found \cup {<<k, "none", 0>>}
    BY DEF Told
  <2> HIDE DEF t
  <2>2. Told(b, k, t)
    BY <1>1, <1>7, <2>1 DEF Told
  <2> QED BY <2>2 DEF t
<1> DEFINE amount == [s EXCEPT !.next = "header",
                               !.skip = (IF kind = "native" THEN NativeLen ELSE IssuedLen) - 1]
           blob == [s EXCEPT !.next = "header", !.skip = SlotSize(b[k][2]) - 1]
           nop == [s EXCEPT !.open[Len(s.open)].nops = @ + 1]
           shut == [s EXCEPT !.open = Front(@)]
           skip == [s EXCEPT !.skip = @ - 1]
<1>8. /\ Told(b, k, amount) /\ Told(b, k, blob) /\ Told(b, k, nop)
      /\ Told(b, k, shut) /\ Told(b, k, skip)
  <2>1. DOMAIN amount = five /\ amount.found = s.found
    BY DEF Told
  <2>2. DOMAIN blob = five /\ blob.found = s.found
    BY DEF Told
  <2>3. DOMAIN nop = five /\ nop.found = s.found
    BY DEF Told
  <2>4. DOMAIN shut = five /\ shut.found = s.found
    BY DEF Told
  <2>5. DOMAIN skip = five /\ skip.found = s.found
    BY DEF Told
  <2> HIDE DEF amount, blob, nop, shut, skip
  <2> QED BY <1>2, <2>1, <2>2, <2>3, <2>4, <2>5
<1>9. Told(b, k, ReadHeader(b, s, k))
  <2>1. \/ ReadHeader(b, s, k) \in {Fail(s), nop, shut}
        \/ kind = "header" /\ ReadHeader(b, s, k) = Headed(b, s, k)
        \/ kind = "details"
           /\ ReadHeader(b, s, k) = [s EXCEPT !.found = @ \cup {<<k, "none", 0>>},
                                              !.skip = DetailsLen - 1]
    BY DEF ReadHeader
  <2> HIDE DEF nop, shut
  <2> QED BY <1>3, <1>6, <1>7, <1>8, <2>1
<1>10. \/ Read(b, s, k) = s \/ Read(b, s, k) = skip \/ Read(b, s, k) = ReadHeader(b, s, k)
       \/ Read(b, s, k) = amount \/ Read(b, s, k) = blob \/ Read(b, s, k) = Fail(s)
  BY DEF Read
<1> HIDE DEF amount, blob, nop, shut, skip
<1> QED BY <1>3, <1>8, <1>9, <1>10

(* A run of the parser, state by state.                                     *)
IsRun(b, m, f) ==
  /\ DOMAIN f = 0..m /\ f = [k \in 0..m |-> f[k]]
  /\ f[0] = Unread /\ \A k \in 1..m : f[k] = Read(b, f[k - 1], k)

LEMMA RunExists ==
  ASSUME NEW b, NEW N \in Nat
  PROVE  \E f : IsRun(b, N, f)
<1> DEFINE Reach == {m \in Nat : \E f : IsRun(b, m, f)}
<1>1. 0 \in Reach
  <2>1. IsRun(b, 0, [k \in 0..0 |-> Unread])
    BY DEF IsRun
  <2> QED BY <2>1
<1>2. ASSUME NEW m \in Nat, m \in Reach
      PROVE  m + 1 \in Reach
  <2>1. PICK f : IsRun(b, m, f)
    BY <1>2
  <2> DEFINE new == Read(b, f[m], m + 1)
             g == [k \in 0..(m + 1) |-> IF k = m + 1 THEN new ELSE f[k]]
  <2> HIDE DEF new
  <2>2. g[0] = Unread /\ g[m + 1] = new /\ \A k \in 0..m : g[k] = f[k]
    BY <2>1 DEF IsRun
  <2>3. DOMAIN g = 0..(m + 1) /\ g = [k \in 0..(m + 1) |-> g[k]]
    OBVIOUS
  <2> HIDE DEF g
  <2>4. ASSUME NEW k \in 1..(m + 1)
        PROVE  g[k] = Read(b, g[k - 1], k)
    <3>1. CASE k = m + 1
      <4>1. k - 1 = m /\ m \in 0..m
        BY <3>1
      <4>2. g[k - 1] = f[m]
        BY <2>2, <4>1
      <4> QED BY <2>2, <3>1, <4>2 DEF new
    <3>2. CASE k # m + 1
      <4>1. k \in 1..m /\ k \in 0..m /\ k - 1 \in 0..m
        BY <3>2
      <4>2. g[k] = f[k] /\ g[k - 1] = f[k - 1]
        BY <2>2, <4>1
      <4>3. f[k] = Read(b, f[k - 1], k)
        BY <2>1, <4>1 DEF IsRun
      <4> QED BY <4>2, <4>3
    <3> QED BY <3>1, <3>2
  <2>5. IsRun(b, m + 1, g)
    BY <2>2, <2>3, <2>4 DEF IsRun
  <2> QED BY <2>5
<1> HIDE DEF Reach
<1>3. Nat \subseteq Reach
  BY <1>1, <1>2, SetInduction
<1> QED BY <1>3 DEF Reach

LEMMA ParseFinds ==
  ASSUME NEW D, NEW b \in Seq(Byte(D)),
         NEW x \in Parse(b).found, x[2] = "none"
  PROVE  x[1] \in 1..Len(b) /\ b[x[1]][1] = "details"
<1> DEFINE N == Len(b)
           F(g) == [k \in 0..N |-> IF k = 0 THEN Unread ELSE Read(b, g[k - 1], k)]
           after == CHOOSE g : g = F(g)
<1>1. N \in Nat
  OBVIOUS
<1>2. Parse(b).found = after[N].found
  BY DEF Parse
<1> HIDE DEF F, after, N
<1>3. PICK f : IsRun(b, N, f)
  BY <1>1, RunExists
<1>4. f = F(f)
  <2>1. \A k \in 0..N : f[k] = IF k = 0 THEN Unread ELSE Read(b, f[k - 1], k)
    <3> SUFFICES ASSUME NEW k \in 0..N
                 PROVE  f[k] = IF k = 0 THEN Unread ELSE Read(b, f[k - 1], k)
      OBVIOUS
    <3>1. k = 0 \/ k \in 1..N
      BY <1>1
    <3> QED BY <1>3, <3>1 DEF IsRun
  <2>2. f = [k \in 0..N |-> f[k]]
    BY <1>3 DEF IsRun
  <2> QED BY <2>1, <2>2 DEF F
<1>5. after = F(after)
  BY <1>4 DEF after
<1>6. /\ after[0] = Unread
      /\ \A k \in 1..N : after[k] = Read(b, after[k - 1], k)
  <2>1. \A k \in 0..N : after[k] = IF k = 0 THEN Unread ELSE Read(b, after[k - 1], k)
    BY <1>5 DEF F
  <2>2. 0 \in 0..N /\ \A k \in 1..N : k \in 0..N /\ k # 0
    BY <1>1
  <2> QED BY <2>1, <2>2
<1> DEFINE Good == {k \in Nat : k <= N => Told(b, k, after[k])}
<1>7. 0 \in Good
  <2>1. Told(b, 0, Unread)
    BY DEF Told, Unread
  <2> QED BY <1>6, <2>1
<1>8. ASSUME NEW k \in Nat, k \in Good
      PROVE  k + 1 \in Good
  <2> SUFFICES ASSUME k + 1 <= N
               PROVE  Told(b, k + 1, after[k + 1])
    OBVIOUS
  <2> DEFINE next == k + 1
  <2>1. next \in 1..N /\ next - 1 = k /\ k <= N
    BY <1>1
  <2> HIDE DEF next
  <2>2. Told(b, next - 1, after[next - 1])
    BY <1>8, <2>1
  <2>3. Told(b, next, Read(b, after[next - 1], next))
    BY <2>1, <2>2, ReadsOn DEF N
  <2>4. Told(b, next, after[next])
    BY <1>6, <2>1, <2>3
  <2> QED BY <2>4 DEF next
<1> HIDE DEF Good
<1>9. Nat \subseteq Good
  BY <1>7, <1>8, SetInduction
<1>10. Told(b, N, after[N])
  BY <1>1, <1>9 DEF Good
<1> QED BY <1>2, <1>10 DEF Told, N

-----------------------------------------------------------------------------
(* Both producers.                                                          *)

(* The nonces that may be in the template: not the one of the transaction   *)
(* that the writer has prepared.                                            *)
Foreign ==
  IF finalized THEN (1..nonces) \ {Last(written).value} ELSE 1..nonces

PathInv ==
  /\ WriterInv /\ BytesInv /\ FinalInv
  /\ finalized => Last(written).value \in 1..nonces
  /\ decl \in Templates /\ lay = Layouts[decl]
  /\ prepared \in 0..Len(lay.fresh)
  /\ bytes \in Bytes(Foreign)

LEMMA NoncesAre ==
  ASSUME WriterInv
  PROVE  nonces \in Nat
  BY Constants DEF WriterInv, TypeOK

LEMMA PathInitial ==
  ASSUME PathInit
  PROVE  PathInv
<1>1. WriterInv /\ BytesInv /\ FinalInv /\ ~finalized
  BY TypeInit, BytesInit DEF PathInit, Init, FinalInv
<1>2. decl \in Templates /\ lay = Layouts[decl] /\ bytes = lay.fresh /\ prepared = 0
  BY DEF PathInit, TemplateInit
<1>3. Shaped(lay)
  BY <1>2, LayoutShaped
<1> DEFINE empty == {}
<1>4. bytes \in Seq(Byte(empty)) /\ Len(bytes) = Len(lay.fresh)
  BY <1>2, <1>3 DEF Shaped
<1>5. empty \subseteq Foreign
  OBVIOUS
<1> HIDE DEF empty
<1>6. bytes \in Bytes(empty)
  <2>1. bytes \in [1..Len(bytes) -> Byte(empty)]
    BY <1>4
  <2> QED BY <1>4, <2>1 DEF Bytes
<1>7. bytes \in Bytes(Foreign)
  BY <1>5, <1>6, BytesGrow
<1>8. prepared \in 0..Len(lay.fresh)
  BY <1>2, <1>3 DEF Shaped
<1> QED BY <1>1, <1>2, <1>7, <1>8 DEF PathInv

LEMMA PathSame ==
  ASSUME PathInv, UNCHANGED <<vars, templateVars>>
  PROVE  PathInv'
<1>1. WriterInv' /\ BytesInv' /\ FinalInv'
  <2>1. [Next]_vars
    OBVIOUS
  <2>2. WriterInv /\ BytesInv /\ FinalInv
    BY DEF PathInv
  <2> QED BY <2>1, <2>2, WriterStep, BytesStep, FinalStep
<1>2. UNCHANGED <<written, finalized, nonces, decl, lay, prepared, bytes>>
  BY DEF vars, writer, templateVars, compiled
<1> QED BY <1>1, <1>2 DEF PathInv, Foreign, Bytes

LEMMA PathWriter ==
  ASSUME PathInv, Next, UNCHANGED templateVars
  PROVE  PathInv'
<1>1. WriterInv' /\ BytesInv' /\ FinalInv'
  BY WriterStep, BytesStep, FinalStep DEF PathInv
<1>2. UNCHANGED <<decl, lay, prepared, bytes>>
  BY DEF templateVars, compiled
<1>3. nonces \in Nat /\ WriterInv /\ bytes \in Bytes(Foreign)
      /\ (finalized => Last(written).value \in 1..nonces)
  BY NoncesAre DEF PathInv
<1>4. /\ nonces' = nonces \/ nonces' = nonces + 1
      /\ \/ UNCHANGED writer
         \/ ~finalized /\ UNCHANGED finalized
         \/ Ready /\ Commit /\ nonces' = nonces + 1
  BY StepEffect
<1>5. Foreign \subseteq Foreign' /\ (finalized' => Last(written').value \in 1..nonces')
  <2>1. 1..nonces \subseteq 1..nonces'
    BY <1>3, <1>4
  <2>2. CASE UNCHANGED writer
    BY <1>3, <2>1, <2>2 DEF Foreign, writer
  <2>3. CASE ~finalized /\ UNCHANGED finalized
    BY <2>1, <2>3 DEF Foreign
  <2>4. CASE Ready /\ Commit /\ nonces' = nonces + 1
    <3>1. Last(written').value = nonces + 1 /\ ~finalized
      BY <1>3, <2>4, CommitEnds DEF Ready
    <3>2. nonces + 1 \notin 1..nonces /\ nonces + 1 \in 1..nonces'
      BY <1>3, <2>4
    <3> QED BY <2>1, <3>1, <3>2 DEF Foreign
  <2> QED BY <1>4, <2>2, <2>3, <2>4
<1>6. bytes' \in Bytes(Foreign)'
  <2> DEFINE D == Foreign
             E == Foreign'
  <2>1. D \subseteq E /\ bytes \in Bytes(D)
    BY <1>3, <1>5
  <2> HIDE DEF D, E
  <2>2. bytes \in Bytes(E)
    BY <2>1, BytesGrow
  <2> QED BY <1>2, <2>2 DEF Bytes, E
<1>7. decl' \in Templates /\ lay' = Layouts[decl'] /\ prepared' \in 0..Len(lay'.fresh)
  BY <1>2 DEF PathInv
<1> QED BY <1>1, <1>5, <1>6, <1>7 DEF PathInv

LEMMA PathTemplate ==
  ASSUME PathInv, TemplateNext, UNCHANGED <<writer, ret>>
  PROVE  PathInv'
<1>1. nonces \in Nat /\ Shaped(lay) /\ bytes \in Bytes(Foreign)
      /\ prepared \in 0..Len(lay.fresh)
  BY NoncesAre, LayoutShaped DEF PathInv
<1> DEFINE D == Foreign
<1>2. Stepped(D)
  <2>1. bytes \in Bytes(D)
    BY <1>1
  <2> HIDE DEF D
  <2> QED BY <1>1, <2>1, TemplateStep
<1>3. UNCHANGED <<written, finalized>>
  BY DEF writer
<1>4. /\ UNCHANGED <<decl, lay>> /\ prepared' \in 0..Len(lay.fresh)
      /\ \/ nonces' = nonces /\ bytes' \in Bytes(D)
         \/ nonces < MaxNonces /\ nonces' = nonces + 1 /\ bytes' \in Bytes(D \cup {nonces + 1})
  BY <1>2 DEF Stepped, Drawn
<1>5. WriterInv' /\ BytesInv' /\ FinalInv'
  <2>1. nonces' \in 0..MaxNonces
    BY <1>1, <1>4, Constants DEF PathInv, WriterInv, TypeOK
  <2>2. WriterInv'
    BY <2>1 DEF PathInv, WriterInv, TypeOK, OffsetsPoint, TokensFit, writer
  <2>3. BytesInv /\ FinalInv /\ UNCHANGED <<written, pos, frames>>
    BY DEF PathInv, writer
  <2> QED BY <2>2, <2>3, BytesSame, FinalSame
<1>6. finalized' => Last(written').value \in 1..nonces'
  BY <1>1, <1>3, <1>4 DEF PathInv
<1>7. bytes' \in Bytes(Foreign)'
  <2> DEFINE E == Foreign'
  <2>1. CASE nonces' = nonces /\ bytes' \in Bytes(D)
    <3>1. E = D
      BY <1>3, <2>1 DEF Foreign
    <3> QED BY <1>4, <2>1, <3>1 DEF Bytes
  <2>2. CASE nonces' = nonces + 1 /\ bytes' \in Bytes(D \cup {nonces + 1})
    <3> DEFINE drawn == D \cup {nonces + 1}
    <3>1. nonces + 1 \notin 1..nonces /\ nonces + 1 \in 1..nonces' /\ 1..nonces \subseteq 1..nonces'
      BY <1>1, <2>2
    <3>2. drawn \subseteq E
      BY <1>3, <3>1 DEF Foreign, PathInv
    <3>3. bytes' \in Bytes(drawn)
      BY <2>2
    <3> HIDE DEF drawn, E
    <3>4. bytes' \in Bytes(E)
      BY <3>2, <3>3, BytesGrow
    <3> QED BY <1>4, <3>4 DEF Bytes, E
  <2> QED BY <1>4, <2>1, <2>2
<1> QED BY <1>4, <1>5, <1>6, <1>7 DEF PathInv

(* emit knows the latest EmitDetails only, and they are in one of the two.  *)
LEMMA OneIsStale ==
  ASSUME PathInv
  PROVE  NeverBothAcceptable
<1> DEFINE b == SubSeq(bytes, 1, prepared)
           v == Last(written).value
<1> SUFFICES ASSUME finalized, prepared # 0, Accepts(written, pos), Acceptable(b)
             PROVE  FALSE
  BY DEF NeverBothAcceptable
<1>1. v = nonces
  <2>1. Repeated(written) = {}
    BY DEF Accepts
  <2>2. DetailsTokens = {Len(written)}
    BY <2>1, LastIsDetails DEF PathInv
  <2>3. nonces \in {written[n].value : n \in DetailsTokens}
    BY DEF Accepts, FieldsAccepted, DetailsAccepted, DetailsTokens
  <2> QED BY <2>2, <2>3 DEF Last
<1> DEFINE D == Foreign
<1>2. nonces \notin D
  BY <1>1 DEF Foreign
<1>3. bytes \in Bytes(D) /\ prepared \in 0..Len(lay.fresh) /\ Shaped(lay)
  BY LayoutShaped DEF PathInv
<1>4. PICK x \in Parse(b).found : x[2] = "none" /\ b[x[1]][2] = nonces
  <2> HIDE DEF b
  <2>1. nonces \in {b[x[1]][2] : x \in {y \in Parse(b).found : y[2] = "none"}}
    BY DEF Acceptable, FieldsAccepted, DetailsAccepted
  <2> QED BY <2>1
<1> HIDE DEF D
<1>5. b \in Seq(Byte(D))
  <2>1. Len(lay.fresh) \in Nat
    BY <1>3 DEF Shaped
  <2>2. bytes \in Seq(Byte(D)) /\ Len(bytes) = Len(lay.fresh)
    BY <1>3, <2>1 DEF Bytes
  <2>3. \A k \in 1..prepared : bytes[k] \in Byte(D)
    BY <1>3, <2>1 DEF Bytes
  <2>4. b = [k \in 1..prepared |-> bytes[k]]
    BY <1>3, <2>2
  <2> QED BY <1>3, <2>1, <2>3, <2>4
<1> HIDE DEF b
<1>6. x[1] \in 1..Len(b) /\ b[x[1]][1] = "details"
  BY <1>4, <1>5, ParseFinds
<1>7. b[x[1]] \in Byte(D)
  BY <1>5, <1>6
<1>8. b[x[1]][2] \in D
  BY <1>6, <1>7, ByteIs
<1> QED BY <1>2, <1>4, <1>8

(* Whatever a hook does with a StoWriter and a template, whatever the       *)
(* declaration and however many nonces, emit accepts at most one of the two *)
(* transactions it has prepared (emit_walk.rs:731-739).                     *)
THEOREM OneOfTwoIsStale == PathSpec => []NeverBothAcceptable
<1>1. PathInit => PathInv
  BY PathInitial
<1>2. PathInv /\ [PathNext]_<<vars, templateVars>> => PathInv'
  <2> SUFFICES ASSUME PathInv, [PathNext]_<<vars, templateVars>>
               PROVE  PathInv'
    OBVIOUS
  <2>1. CASE Next /\ UNCHANGED templateVars
    BY <2>1, PathWriter
  <2>2. CASE TemplateNext /\ UNCHANGED <<writer, ret>>
    BY <2>2, PathTemplate
  <2>3. CASE UNCHANGED <<vars, templateVars>>
    BY <2>3, PathSame
  <2> QED BY <2>1, <2>2, <2>3 DEF PathNext
<1>3. PathInv => NeverBothAcceptable
  BY OneIsStale
<1> QED BY <1>1, <1>2, <1>3, PTL DEF PathSpec

-----------------------------------------------------------------------------
(* The budgets of the vl setters.                                           *)

(* Every item is a declared one, and the setter of an item is an item.      *)
LEMMA LayoutShape ==
  ASSUME NEW n \in Templates
  PROVE  /\ \A k \in DOMAIN Layouts[n].item : Layouts[n].item[k] \in Item
         /\ Layouts[n].setter \in [DOMAIN Layouts[n].item -> DOMAIN Layouts[n].item]
<1> DEFINE d == Declarations[n]
           L == Layout(d)
<1>1. Layouts[n] = L
  BY DEF Layouts
<1>2. \A k \in DOMAIN d : d[k] \in Item
  <2>1. d \in Seq(Item)
    BY TemplateConstants DEF Templates
  <2> QED
    BY <2>1
<1>3. L.item = d
  BY DEF Layout
<1>4. L.setter \in [DOMAIN d -> DOMAIN d]
  BY DEF Layout
<1> QED
  BY <1>1, <1>2, <1>3, <1>4

-----------------------------------------------------------------------------
(* Only vl setters touch the budgets, and the declaration never changes.    *)
Fills == \E n \in Items : \E len \in 0..item[n].high + 1, v \in Inputs : Fill(n, len, v)
Unbudgeted == UNCHANGED <<compiled, budgets>>

LEMMA StepCases ==
  ASSUME TemplateNext
  PROVE  Fills \/ Unbudgeted
<1> USE DEF Unbudgeted, Edit
<1>1. ASSUME NEW n \in Items, NEW payload, Set(n, payload)
      PROVE  Unbudgeted
  BY <1>1 DEF Set
<1>2. ASSUME NEW n \in Items,
             Refuse(n) \/ Reset(n) \/ Clear(n) \/ Enable(n) \/ Index(n)
      PROVE  Unbudgeted
  BY <1>2 DEF Refuse, Reset, Clear, Enable, Index
<1>3. ASSUME NEW o, ClearOptionals(o)
      PROVE  Unbudgeted
  BY <1>3 DEF ClearOptionals
<1>4. ASSUME FillDetails
      PROVE  Unbudgeted
  BY <1>4 DEF FillDetails
<1>5. ASSUME NEW fails, Prepare(fails)
      PROVE  Unbudgeted
  BY <1>5 DEF Prepare
<1> QED
  BY <1>1, <1>2, <1>3, <1>4, <1>5 DEF TemplateNext, Fills

(* A setter that was never called has spent nothing: whoever is halted has  *)
(* called one before.                                                       *)
BudgetInv ==
  /\ decl \in Templates /\ lay = Layouts[decl]
  /\ fills \in [Items -> Nat] /\ spent \in [Items -> Nat]
  /\ \A s \in Items : fills[s] = 0 => spent[s] = 0
  /\ FillsShareNoBudget

LEMMA BudgetInit ==
  ASSUME TemplateInit
  PROVE  BudgetInv
  BY DEF TemplateInit, BudgetInv, FillsShareNoBudget

LEMMA BudgetStep ==
  ASSUME BudgetInv, [TemplateNext]_<<templateVars, nonces>>
  PROVE  BudgetInv'
<1>1. CASE Unbudgeted
  BY <1>1 DEF Unbudgeted, compiled, budgets, BudgetInv, FillsShareNoBudget, Items, item, compiled
<1>2. CASE Fills
  <2>0. PICK n \in Items : \E len \in 0..item[n].high + 1, v \in Inputs : Fill(n, len, v)
    BY <1>2 DEF Fills
  <2>1. PICK len \in 0..item[n].high + 1, v \in Inputs : Fill(n, len, v)
    BY <2>0
  <2> DEFINE setter == lay.setter[n]
             high == item[n].high
             total == spent[setter] + SlotSize(high) - PrefixLen(len)
  <2>2. setter \in Items /\ item[n] \in Item
    <3>1. decl \in Templates /\ lay = Layouts[decl]
      BY DEF BudgetInv
    <3> QED
      BY <3>1, LayoutShape DEF Items, item, compiled
  <2>3. high \in Nat /\ item[n].low \in Nat /\ len \in Nat /\ ShortVl \in Nat
    BY <2>2, TemplateConstants DEF Item
  <2>4. SlotSize(high) \in Nat /\ PrefixLen(len) \in Nat
    BY <2>3 DEF SlotSize, PrefixLen
  <2>5. CASE Edit(Opened(n))
    <3>1. Unbudgeted
      BY <2>5 DEF Edit, Unbudgeted
    <3> QED
      BY <3>1, <1>1
  <2>6. CASE /\ len \in item[n].low..high
             /\ fills' = [fills EXCEPT ![setter] = @ + 1]
             /\ spent' = [spent EXCEPT ![setter] = total]
             /\ UNCHANGED <<compiled, halted>>
    <3>1. SlotSize(high) >= PrefixLen(len)
      BY <2>3, <2>6 DEF SlotSize, PrefixLen
    <3>2. total \in Nat
      BY <2>2, <2>4, <3>1 DEF BudgetInv
    <3>3. Items' = Items /\ decl' = decl /\ lay' = lay
      BY <2>6 DEF Items, item, compiled
    <3>4. fills' \in [Items -> Nat] /\ spent' \in [Items -> Nat]
      BY <2>2, <2>6, <3>2 DEF BudgetInv
    <3>5. \A s \in Items : fills'[s] >= fills[s] /\ (fills'[s] = 0 => spent'[s] = 0)
      BY <2>2, <2>6 DEF BudgetInv
    <3>6. FillsShareNoBudget'
      BY <2>6, <3>3, <3>4, <3>5 DEF BudgetInv, FillsShareNoBudget
    <3> QED
      BY <2>6, <3>3, <3>4, <3>5, <3>6 DEF BudgetInv
  <2>7. CASE /\ ~(total <= SlotSize(high) + 1)
             /\ fills' = [fills EXCEPT ![setter] = @ + 1]
             /\ UNCHANGED <<compiled, spent>>
    <3>1. spent[setter] # 0
      BY <2>2, <2>4, <2>7 DEF BudgetInv
    <3>2. fills'[setter] > 1
      BY <2>2, <2>7, <3>1 DEF BudgetInv
    <3>3. Items' = Items /\ decl' = decl /\ lay' = lay
      BY <2>7 DEF Items, item, compiled
    <3>4. fills' \in [Items -> Nat] /\ spent' = spent
      BY <2>2, <2>7 DEF BudgetInv
    <3>5. \A s \in Items : fills'[s] = 0 => fills[s] = 0
      BY <2>2, <2>7 DEF BudgetInv
    <3>6. FillsShareNoBudget'
      BY <2>2, <3>2, <3>3 DEF FillsShareNoBudget
    <3> QED
      BY <3>3, <3>4, <3>5, <3>6 DEF BudgetInv
  <2> QED
    BY <2>1, <2>5, <2>6, <2>7 DEF Fill, GuardId, budgets
<1>3. CASE UNCHANGED <<templateVars, nonces>>
  BY <1>3, <1>1 DEF Unbudgeted, templateVars
<1> QED
  BY <1>1, <1>2, <1>3, StepCases

(* A hook that fills each vl field at most once is never halted by a guard  *)
(* of a template, whatever the declaration and in whatever order            *)
(* (txn.rs:5843-5885).                                                      *)
THEOREM GuardsSuffice ==
  TemplateSpec => []FillsShareNoBudget
<1>1. TemplateInit => BudgetInv
  BY BudgetInit
<1>2. BudgetInv /\ [TemplateNext]_<<templateVars, nonces>> => BudgetInv'
  BY BudgetStep
<1>3. BudgetInv => FillsShareNoBudget
  BY DEF BudgetInv
<1> QED
  BY <1>1, <1>2, <1>3, PTL DEF TemplateSpec
=============================================================================
