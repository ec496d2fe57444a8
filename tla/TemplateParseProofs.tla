------------------------ MODULE TemplateParseProofs ------------------------
(***************************************************************************)
(* That the host's parser reads a template as it was declared, for every   *)
(* declaration that compiles and every order of calls.  What is in the     *)
(* place of an item that is there has the shape the parser expects (Formed,*)
(* which every call keeps); the NOPs of a container are at most what the   *)
(* compiler summed up for it; so a run of the parser over the bytes finds  *)
(* the items that are there, and has open what encloses its place.  With   *)
(* it, that what prepare_for_emit returns is accepted: the plumbing lies   *)
(* outside of every container, where only its own setters change it.       *)
(***************************************************************************)
EXTENDS TemplateFieldProofs

-----------------------------------------------------------------------------
(* Sums.                                                                    *)

(* The equation of a sum over a set: the library computes it by recursion   *)
(* on the subsets of indices.                                               *)
Sums(iter, f, S) ==
  \A s \in SUBSET S :
    iter[s] = IF s = {} THEN 0 ELSE f[CHOOSE x \in s : TRUE] + iter[s \ {CHOOSE x \in s : TRUE}]

SumEquation(iter, f, S) ==
  iter = [s \in SUBSET S |->
            IF s = {} THEN 0 ELSE f[CHOOSE x \in s : TRUE] + iter[s \ {CHOOSE x \in s : TRUE}]]

LEMMA SumsExist ==
  ASSUME NEW S, IsFiniteSet(S), NEW f
  PROVE  \E iter : SumEquation(iter, f, S)
<1> DEFINE c(s) == CHOOSE x \in s : TRUE
           UpTo(n) == {s \in SUBSET S : Cardinality(s) <= n}
           P(g, n) == \A s \in UpTo(n) :
                        g[s] = IF s = {} THEN 0 ELSE f[c(s)] + g[s \ {c(s)}]
           Reach == {n \in Nat : \E g : P(g, n)}
<1>1. \A s \in SUBSET S : IsFiniteSet(s) /\ Cardinality(s) \in Nat /\ (s = {} <=> Cardinality(s) = 0)
  BY FS_Subset, FS_CardinalityType, FS_EmptySet
<1>2. \A s \in SUBSET S : s # {} =>
        c(s) \in s /\ s \ {c(s)} \in SUBSET S /\ Cardinality(s \ {c(s)}) = Cardinality(s) - 1
  BY <1>1, FS_RemoveElement
<1> HIDE DEF c
<1>3. 0 \in Reach
  <2>1. P([s \in {{}} |-> 0], 0)
    BY <1>1
  <2> QED BY <2>1
<1>4. ASSUME NEW n \in Nat, n \in Reach PROVE n + 1 \in Reach
  <2>1. PICK g : P(g, n)
    BY <1>4
  <2> DEFINE h == [s \in UpTo(n + 1) |-> IF s = {} THEN 0 ELSE f[c(s)] + g[s \ {c(s)}]]
  <2>2. \A s \in UpTo(n) : s \in UpTo(n + 1) /\ h[s] = g[s]
    BY <1>1, <2>1
  <2>3. P(h, n + 1)
    <3> SUFFICES ASSUME NEW s \in UpTo(n + 1), s # {}
                 PROVE  h[s] = f[c(s)] + h[s \ {c(s)}]
      BY <1>1
    <3>1. s \ {c(s)} \in UpTo(n)
      BY <1>1, <1>2
    <3>2. h[s \ {c(s)}] = g[s \ {c(s)}]
      BY <2>2, <3>1
    <3> QED BY <3>2
  <2> HIDE DEF P, h
  <2> QED BY <2>3
<1> HIDE DEF Reach
<1>5. Cardinality(S) \in Reach
  BY <1>1, <1>3, <1>4, SetInduction
<1>6. PICK g : P(g, Cardinality(S))
  BY <1>5 DEF Reach
<1>7. \A s \in SUBSET S : s \in UpTo(Cardinality(S))
  BY FS_Subset
<1> DEFINE it == [s \in SUBSET S |-> g[s]]
<1>8. \A s \in SUBSET S : it[s] = IF s = {} THEN 0 ELSE f[c(s)] + it[s \ {c(s)}]
  BY <1>2, <1>6, <1>7
<1>9. it = [s \in SUBSET S |-> IF s = {} THEN 0 ELSE f[c(s)] + it[s \ {c(s)}]]
  BY <1>8
<1>10. SumEquation(it, f, S)
  BY <1>9 DEF c, SumEquation
<1> QED BY <1>10

LEMMA SumIs ==
  ASSUME NEW S, IsFiniteSet(S), NEW f
  PROVE  \E iter : Sums(iter, f, S) /\ SumFunctionOnSet(f, S) = iter[S]
<1> DEFINE it == CHOOSE iter : SumEquation(iter, f, S)
<1>1. \E iter : SumEquation(iter, f, S)
  BY SumsExist
<1>2. SumEquation(it, f, S)
  BY <1>1
<1>3. SumFunctionOnSet(f, S) = it[S]
  BY DEF SumFunctionOnSet, FoldFunctionOnSet, MapThenFoldSet, SumEquation
<1> HIDE DEF it
<1>4. Sums(it, f, S)
  BY <1>2 DEF Sums, SumEquation
<1> QED BY <1>3, <1>4

(* What is covered by sets no larger than the values is no larger than their sum. *)
LEMMA SumCovers ==
  ASSUME NEW S, IsFiniteSet(S), NEW f, NEW piece,
         \A x \in S : f[x] \in Nat /\ IsFiniteSet(piece[x]) /\ Cardinality(piece[x]) <= f[x]
  PROVE  /\ SumFunctionOnSet(f, S) \in Nat
         /\ IsFiniteSet(UNION {piece[x] : x \in S})
         /\ Cardinality(UNION {piece[x] : x \in S}) <= SumFunctionOnSet(f, S)
<1>1. PICK it : Sums(it, f, S) /\ SumFunctionOnSet(f, S) = it[S]
  BY SumIs
<1> DEFINE c(s) == CHOOSE x \in s : TRUE
           U(s) == UNION {piece[x] : x \in s}
           Good(s) == it[s] \in Nat /\ IsFiniteSet(U(s)) /\ Cardinality(U(s)) <= it[s]
           Reach == {n \in Nat : \A s \in SUBSET S : Cardinality(s) = n => Good(s)}
<1>2. \A s \in SUBSET S : IsFiniteSet(s) /\ Cardinality(s) \in Nat /\ (s = {} <=> Cardinality(s) = 0)
  BY FS_Subset, FS_CardinalityType, FS_EmptySet
<1>3. \A s \in SUBSET S : s # {} =>
        c(s) \in s /\ s \ {c(s)} \in SUBSET S /\ Cardinality(s \ {c(s)}) = Cardinality(s) - 1
  BY <1>2, FS_RemoveElement
<1>4. \A s \in SUBSET S : it[s] = IF s = {} THEN 0 ELSE f[c(s)] + it[s \ {c(s)}]
  BY <1>1 DEF Sums
<1> HIDE DEF c
<1>5. 0 \in Reach
  <2>1. U({}) = {} /\ it[{}] = 0
    BY <1>4
  <2>2. Good({})
    BY <2>1, FS_EmptySet
  <2> QED BY <1>2, <2>2
<1>6. ASSUME NEW n \in Nat, n \in Reach PROVE n + 1 \in Reach
  <2> HIDE DEF Good
  <2> SUFFICES ASSUME NEW s \in SUBSET S, Cardinality(s) = n + 1 PROVE Good(s)
    OBVIOUS
  <2> USE DEF Good
  <2> DEFINE x == c(s)
             t == s \ {x}
  <2>1. s # {} /\ x \in s /\ x \in S /\ t \in SUBSET S /\ Cardinality(t) = n
    BY <1>2, <1>3
  <2>2. Good(t)
    BY <1>6, <2>1
  <2>3. it[s] = f[x] + it[t]
    BY <1>4, <2>1
  <2>4. U(s) = piece[x] \cup U(t)
    BY <2>1
  <2>5. f[x] \in Nat /\ IsFiniteSet(piece[x]) /\ Cardinality(piece[x]) <= f[x]
    BY <2>1
  <2> HIDE DEF U, x, t
  <2>6. IsFiniteSet(U(s)) /\ Cardinality(U(s)) <= Cardinality(piece[x]) + Cardinality(U(t))
    <3>1. IsFiniteSet(piece[x] \cap U(t)) /\ Cardinality(piece[x] \cap U(t)) \in Nat
      BY <2>2, <2>5, FS_Intersection, FS_CardinalityType
    <3>2. IsFiniteSet(piece[x] \cup U(t))
      BY <2>2, <2>5, FS_Union
    <3>3. Cardinality(piece[x] \cup U(t))
            = Cardinality(piece[x]) + Cardinality(U(t)) - Cardinality(piece[x] \cap U(t))
      BY <2>2, <2>5, FS_Union
    <3>4. Cardinality(piece[x]) \in Nat /\ Cardinality(U(t)) \in Nat
      BY <2>2, <2>5, FS_CardinalityType
    <3> QED BY <2>4, <3>1, <3>2, <3>3, <3>4
  <2>7. Cardinality(piece[x]) \in Nat /\ Cardinality(U(t)) \in Nat /\ Cardinality(U(s)) \in Nat
    BY <2>2, <2>5, <2>6, FS_CardinalityType
  <2> QED BY <2>2, <2>3, <2>5, <2>6, <2>7
<1> HIDE DEF Reach
<1>7. Cardinality(S) \in Reach
  BY <1>2, <1>5, <1>6, SetInduction
<1>8. Good(S)
  BY <1>7 DEF Reach
<1> QED BY <1>1, <1>8

-----------------------------------------------------------------------------
(* What is in the cell of an item that is there.                            *)

First(i) == IF i.kind \in Ends THEN <<i.kind, 0>> ELSE Header(i.code)

(* A vl of len bytes, and NOPs for the rest.                                *)
VlOf(i, s, len) ==
  s[2] = <<"length", len>> /\ \A k \in (2 + SlotSize(len))..ItemLen(i) : s[k] = Nop

(* The bytes s of item i, as far as the host's parser is guided by them.    *)
Shape(i, s) ==
  /\ s[1] = First(i)
  /\ i.kind = "native" => s[2] = Nop \/ s[2][1] = "native"
  /\ i.kind = "any" => s[2] = Nop \/ s[2][1] \in {"native", "issued"}
  /\ i.kind = "issued" => s[2][1] = "issued"
  /\ i.kind = "empty" => s[2] = <<"length", 0>>
  /\ i.kind = "fixed" => s[2] = <<"length", i.high>>
  /\ i.kind = "vl" => \E len \in i.low..i.high : VlOf(i, s, len)

LEMMA SecondOf ==
  ASSUME NEW B, NEW x \in B, NEW s \in Seq(B), Len(s) >= 1
  PROVE  (<<x>> \o s)[2] = s[1]
<1>1. <<x>> \in Seq(B) /\ Len(<<x>>) = 1
  OBVIOUS
<1> QED BY <1>1

LEMMA TailOf ==
  ASSUME NEW B, NEW s \in Seq(B), NEW t \in Seq(B), NEW k \in (Len(s) + 1)..(Len(s) + Len(t))
  PROVE  (s \o t)[k] = t[k - Len(s)]
  OBVIOUS

(* Padding leaves what is there.                                            *)
LEMMA PaddedBytes ==
  ASSUME NEW D, NEW s \in Seq(Byte(D)), NEW n \in Nat
  PROVE  /\ \A k \in 1..Len(s) : Padded(s, n)[k] = s[k]
         /\ \A k \in (Len(s) + 1)..n : Padded(s, n)[k] = Nop
<1> DEFINE t == Nops(n - Len(s))
           B == Byte(D)
<1>1. Nop \in B /\ Padded(s, n) = s \o t /\ Len(s) \in Nat
  BY ByteIs DEF Padded
<1>2. CASE n - Len(s) \in Nat
  <2>1. t \in Seq(B) /\ Len(t) = n - Len(s) /\ \A k \in 1..(n - Len(s)) : t[k] = Nop
    BY <1>1, <1>2, RepeatIs DEF Nops, Repeat
  <2> HIDE DEF t, B
  <2>2. \A k \in 1..Len(s) : (s \o t)[k] = s[k]
    BY <1>1, <2>1
  <2>3. \A k \in (Len(s) + 1)..n : (s \o t)[k] = t[k - Len(s)] /\ k - Len(s) \in 1..(n - Len(s))
    BY <1>1, <1>2, <2>1
  <2> QED BY <1>1, <2>1, <2>2, <2>3
<1>3. CASE n - Len(s) \notin Nat
  <2>1. 1..(n - Len(s)) = 1..0
    BY <1>3
  <2>2. t = Repeat(0, Nop)
    BY <2>1 DEF Nops, Repeat
  <2>3. t \in Seq(B) /\ Len(t) = 0
    BY <1>1, <2>2, RepeatIs
  <2> HIDE DEF t, B
  <2>4. \A k \in 1..Len(s) : (s \o t)[k] = s[k]
    BY <1>1, <2>3
  <2>5. (Len(s) + 1)..n = {}
    BY <1>1, <1>3
  <2> QED BY <1>1, <2>4, <2>5
<1> QED BY <1>2, <1>3

LEMMA BlobFirst ==
  ASSUME NEW len \in Nat, NEW x \in Byte(Int)
  PROVE  Blob(len, x)[1] = <<"length", len>>
<1> DEFINE B == Byte(Int)
           p == <<<<"length", len>>>>
           q == Repeat(PrefixLen(len) - 1, <<"more", len>>)
           r == Repeat(len, x)
<1>1. /\ <<"length", len>> \in B /\ <<"more", len>> \in B
      /\ PrefixLen(len) \in Nat \ {0}
  <2>1. "length" \in Plain /\ "more" \in Plain
    BY DEF Plain
  <2> QED BY <2>1, ByteIs, Slots
<1>2. p \in Seq(B) /\ Len(p) = 1 /\ p[1] = <<"length", len>>
  BY <1>1
<1>3. q \in Seq(B) /\ r \in Seq(B)
  <2>1. PrefixLen(len) - 1 \in Nat
    BY <1>1
  <2> QED BY <1>1, <2>1, RepeatIs
<1>4. Blob(len, x) = (p \o q) \o r
  BY DEF Blob, Prefix
<1> HIDE DEF p, q, r, B
<1>5. (p \o q) \in Seq(B) /\ Len(p \o q) >= 1 /\ (p \o q)[1] = p[1]
  <2>1. p \in Seq(B) /\ q \in Seq(B) /\ Len(q) \in Nat /\ Len(p) = 1
    BY <1>2, <1>3
  <2>2. (p \o q) \in Seq(B) /\ Len(p \o q) = Len(p) + Len(q)
    BY <2>1, ConcatIs
  <2>3. Len(p) >= 1
    BY <2>1
  <2>4. (p \o q)[1] = p[1]
    <3> QED BY <2>1, <2>3, ConcatFirst
  <2>5. Len(p \o q) >= 1
    BY <2>1, <2>2
  <2> QED BY <2>2, <2>4, <2>5
<1> QED BY <1>2, <1>3, <1>4, <1>5, ConcatFirst

(* What the setters and resets of a vl write.                               *)
LEMMA VlBytes ==
  ASSUME NEW i \in Item, i.kind = "vl", NEW len \in Nat, NEW x \in Byte(Int)
  PROVE  LET s == Padded(<<Header(i.code)>> \o Blob(len, x), ItemLen(i))
         IN  s[1] = First(i) /\ VlOf(i, s, len)
<1> DEFINE h == Header(i.code)
           t == Blob(len, x)
           p == <<h>> \o t
           B == Byte(Int)
<1>1. i.code \in DOMAIN sti /\ ItemLen(i) \in Nat /\ SlotSize(len) \in Nat \ {0}
  BY ItemIs, ItemLenIs, Slots DEF Sti
<1>2. t \in Seq(B) /\ Len(t) = SlotSize(len) /\ t[1] = <<"length", len>> /\ h \in B
  BY <1>1, BlobIs, BlobFirst, ByteIs
<1>3. p \in Seq(B) /\ Len(p) = 1 + SlotSize(len)
  BY <1>1, <1>2, HeadIs
<1>4. First(i) = h
  BY DEF First, Ends
<1>5. p[1] = h
  BY <1>2, FirstOf
<1>6. p[2] = <<"length", len>>
  BY <1>1, <1>2, SecondOf
<1> HIDE DEF h, t, p
<1>7. Padded(p, ItemLen(i))[1] = h /\ Padded(p, ItemLen(i))[2] = <<"length", len>>
  <2>1. 1 \in 1..Len(p) /\ 2 \in 1..Len(p)
    BY <1>1, <1>3
  <2> QED BY <1>1, <1>3, <1>5, <1>6, <2>1, PaddedBytes
<1>8. \A k \in (2 + SlotSize(len))..ItemLen(i) : Padded(p, ItemLen(i))[k] = Nop
  <2>1. \A k \in (2 + SlotSize(len))..ItemLen(i) : k \in (Len(p) + 1)..ItemLen(i)
    BY <1>1, <1>3
  <2> QED BY <1>1, <1>3, <2>1, PaddedBytes
<1> QED BY <1>4, <1>7, <1>8 DEF VlOf, h, t, p

(* The default of an item; a vl is as short as it may be.                   *)
LEMMA DefaultShape ==
  ASSUME NEW i \in Item, i.kind # "details", NEW x \in {Nop, Zero},
         i.kind = "vl" => i.low <= i.high
  PROVE  /\ Shape(i, Default(i, x))
         /\ i.kind = "vl" => VlOf(i, Default(i, x), i.low)
<1> DEFINE s == Default(i, x)
           h == Header(i.code)
           B == Byte(Int)
<1>1. /\ i.low \in Nat /\ i.high \in Nat
      /\ i.kind \in DOMAIN Sti => i.code \in DOMAIN sti
      /\ i.kind \in {"type", "scalar", "native", "issued", "any", "empty", "fixed", "vl",
                     "object", "array", "elements", "end_object", "end_array", "details"}
      /\ i.kind \in DOMAIN Sti <=> i.kind \notin Ends \cup {"details"}
  BY ItemIs
<1>2. x \in B /\ Zero \in B /\ Nop \in B /\ (i.kind \in DOMAIN Sti => h \in B) /\ h # Nop
  BY <1>1, ByteIs DEF Header, Nop
<1>3. ItemLen(i) \in Nat \ {0} /\ NativeLen \in Nat \ {0} /\ IssuedLen \in Nat \ {0}
  BY ItemLenIs, TemplateConstants
<1>4. CASE i.kind \in Ends
  BY <1>4 DEF Default, Ends, Containers, Shape, First
<1>5. CASE i.kind \in Containers
  BY <1>5 DEF Default, Ends, Containers, Shape, First
<1>6. CASE i.kind \in {"type", "scalar"}
  BY <1>6 DEF Default, Ends, Containers, Shape, First
<1>7. ASSUME NEW t \in Seq(B), Len(t) >= 1, h \in B
      PROVE  (<<h>> \o t)[1] = h /\ (<<h>> \o t)[2] = t[1] /\ <<h>> \o t \in Seq(B)
             /\ Len(<<h>> \o t) >= 2
  <2>1. <<h>> \in Seq(B) /\ Len(<<h>>) = 1
    BY <1>7
  <2>2. <<h>> \o t \in Seq(B) /\ Len(<<h>> \o t) = Len(<<h>>) + Len(t) /\ Len(t) \in Nat
    <3> HIDE DEF h, B
    <3> QED BY <1>7, <2>1, ConcatIs
  <2> HIDE DEF h, B
  <2> QED BY <1>7, <2>1, <2>2, FirstOf, SecondOf
<1>8. Native(0)[1] = <<"native", 0>> /\ Issued(0)[1] = <<"issued", 0>>
  BY <1>3 DEF Native, Issued, Repeat
<1>9. Native(0) \in Seq(B) /\ Issued(0) \in Seq(B) /\ Len(Native(0)) >= 1 /\ Len(Issued(0)) >= 1
  <2> DEFINE v == 0
  <2>1. v \in Int
    OBVIOUS
  <2> HIDE DEF v
  <2>2. /\ Native(v) \in Seq(B) /\ Len(Native(v)) = NativeLen
        /\ Issued(v) \in Seq(B) /\ Len(Issued(v)) = IssuedLen
    BY <2>1, AmountIs
  <2> HIDE DEF B
  <2>3. Len(Native(v)) >= 1 /\ Len(Issued(v)) >= 1
    BY <1>3, <2>2
  <2> QED BY <2>2, <2>3 DEF v
<1>10. CASE i.kind = "native"
  <2>1. s = <<h>> \o Native(0) /\ First(i) = h
    BY <1>10 DEF Default, Ends, Containers, First
  <2>2. s[1] = h /\ s[2] = <<"native", 0>>
    BY <1>1, <1>2, <1>7, <1>8, <1>9, <1>10, <2>1 DEF Ends
  <2> HIDE DEF s, h
  <2>3. s[2][1] = "native"
    BY <2>2
  <2> QED BY <1>10, <2>1, <2>2, <2>3 DEF Shape, s
<1>11. CASE i.kind = "issued"
  <2>1. s = <<h>> \o Issued(0) /\ First(i) = h
    BY <1>11 DEF Default, Ends, Containers, First
  <2>2. s[1] = h /\ s[2] = <<"issued", 0>>
    BY <1>1, <1>2, <1>7, <1>8, <1>9, <1>11, <2>1 DEF Ends
  <2> HIDE DEF s, h
  <2>3. s[2][1] = "issued"
    BY <2>2
  <2> QED BY <1>11, <2>1, <2>2, <2>3 DEF Shape, s
<1>12. CASE i.kind = "any"
  <2> DEFINE p == <<h>> \o Native(0)
  <2>1. s = Padded(p, ItemLen(i)) /\ First(i) = h
    BY <1>12 DEF Default, Ends, Containers, First
  <2>2. p[1] = h /\ p[2] = <<"native", 0>> /\ p \in Seq(B) /\ Len(p) >= 2
    BY <1>1, <1>2, <1>7, <1>8, <1>9, <1>12 DEF Ends
  <2> HIDE DEF p
  <2>3. 1 \in 1..Len(p) /\ 2 \in 1..Len(p)
    BY <2>2
  <2>4. s[1] = h /\ s[2] = <<"native", 0>>
    BY <1>3, <2>1, <2>2, <2>3, PaddedBytes
  <2> QED BY <1>12, <2>1, <2>4 DEF Shape
<1>13. CASE i.kind = "empty"
  <2>1. s = <<h>> \o Prefix(0) /\ First(i) = h
    BY <1>13 DEF Default, Ends, Containers, First
  <2>2. Prefix(0) \in Seq(B) /\ Len(Prefix(0)) >= 1 /\ Prefix(0)[1] = <<"length", 0>>
    <3> DEFINE v == 0
    <3>1. v \in Nat
      OBVIOUS
    <3> HIDE DEF v
    <3>2. Prefix(v) \in Seq(B) /\ Len(Prefix(v)) >= 1
      <4>1. Len(Prefix(v)) = PrefixLen(v) /\ PrefixLen(v) \in Nat \ {0} /\ Prefix(v) \in Seq(B)
        BY <3>1, PrefixIs, Slots
      <4> QED BY <4>1
    <3>3. Prefix(v)[1] = <<"length", v>>
      <4>1. Blob(v, Zero)[1] = <<"length", v>>
        BY <1>2, <3>1, BlobFirst
      <4>2. Blob(v, Zero) = Prefix(v) \o Repeat(v, Zero) /\ Repeat(v, Zero) \in Seq(B)
        BY <1>2, <3>1, RepeatIs DEF Blob
      <4> QED BY <3>2, <4>1, <4>2, ConcatFirst
    <3> QED BY <3>2, <3>3 DEF v
  <2>3. s[1] = h /\ s[2] = <<"length", 0>>
    BY <1>1, <1>2, <1>7, <1>13, <2>1, <2>2 DEF Ends
  <2> QED BY <1>13, <2>1, <2>3 DEF Shape
<1>14. CASE i.kind = "fixed"
  <2>1. s = <<h>> \o Blob(i.high, x) /\ First(i) = h
    BY <1>14 DEF Default, Ends, Containers, First
  <2>2. Blob(i.high, x) \in Seq(B) /\ Len(Blob(i.high, x)) >= 1
        /\ Blob(i.high, x)[1] = <<"length", i.high>>
    <3>1. SlotSize(i.high) \in Nat \ {0}
      BY <1>1, Slots
    <3>2. Blob(i.high, x)[1] = <<"length", i.high>>
      BY <1>1, <1>2, BlobFirst
    <3>3. Blob(i.high, x) \in Seq(B) /\ Len(Blob(i.high, x)) = SlotSize(i.high)
      <4> HIDE DEF B
      <4> QED BY <1>1, <1>2, BlobIs DEF B
    <3> HIDE DEF B
    <3> QED BY <3>1, <3>2, <3>3
  <2>3. s[1] = h /\ s[2] = <<"length", i.high>>
    BY <1>1, <1>2, <1>7, <1>14, <2>1, <2>2 DEF Ends
  <2> QED BY <1>14, <2>1, <2>3 DEF Shape
<1>15. CASE i.kind = "vl"
  <2>1. s = Padded(<<h>> \o Blob(i.low, x), ItemLen(i))
    BY <1>15 DEF Default, Ends, Containers
  <2>2. s[1] = First(i) /\ VlOf(i, s, i.low)
    BY <1>1, <1>2, <1>15, <2>1, VlBytes
  <2>3. i.low \in i.low..i.high
    BY <1>1, <1>15
  <2> QED BY <1>15, <2>2, <2>3 DEF Shape
<1> QED BY <1>1, <1>4, <1>5, <1>6, <1>10, <1>11, <1>12, <1>13, <1>14, <1>15 DEF Ends, Containers, VlOf

-----------------------------------------------------------------------------
(* What is in a template, item by item.                                     *)

CellOf(b, n) == [j \in 1..ItemLen(item[n]) |-> b[lay.start[n] + j - 1]]

(* An item that is there has its shape.  A vl that is there in an absent    *)
(* container was reset: it is as short as it may be.                        *)
FormedAt(b, n) ==
  There(b, n) =>
    /\ Shape(item[n], CellOf(b, n))
    /\ item[n].kind = "vl" => \/ \A c \in Enclosing(n) : There(b, c)
                              \/ VlOf(item[n], CellOf(b, n), item[n].low)

Formed(b) == \A n \in Items : item[n].kind # "details" => FormedAt(b, n)

LEMMA ItemLens ==
  ASSUME NEW i \in Item
  PROVE  /\ i.kind \in {"type", "scalar", "empty", "native", "issued", "any", "fixed", "vl"}
            => ItemLen(i) >= 2
         /\ i.kind \in Containers \cup Ends => ItemLen(i) = 1
         /\ i.kind \in {"type", "scalar"} => ItemLen(i) = 2
  <1>1. /\ NativeLen >= 1 /\ IssuedLen >= 1 /\ NativeLen \in Nat /\ IssuedLen \in Nat
    BY TemplateConstants
  <1>2. i.high \in Nat /\ PrefixLen(i.high) \in Nat \ {0}
    BY ItemIs, Slots
  <1> QED BY <1>1, <1>2 DEF ItemLen, Containers, Ends, SlotSize

(* The shape of an item is a matter of its bytes.                           *)
LEMMA ShapeSame ==
  ASSUME NEW i \in Item, i.kind # "details", NEW s, NEW t,
         \A j \in 1..ItemLen(i) : t[j] = s[j]
  PROVE  /\ Shape(i, s) => Shape(i, t)
         /\ \A len \in Nat : VlOf(i, s, len) /\ i.kind = "vl" => VlOf(i, t, len)
<1>1. ItemLen(i) \in Nat \ {0} /\ i.low \in Nat /\ i.high \in Nat
  BY ItemLenIs, ItemIs
<1>2. t[1] = s[1]
  BY <1>1
<1>3. i.kind \in {"empty", "native", "issued", "any", "fixed", "vl"} => t[2] = s[2]
  BY <1>1, ItemLens
<1>4. ASSUME NEW len \in Nat, VlOf(i, s, len), i.kind = "vl" PROVE VlOf(i, t, len)
  <2>1. SlotSize(len) \in Nat \ {0}
    BY Slots
  <2>2. \A k \in (2 + SlotSize(len))..ItemLen(i) : k \in 1..ItemLen(i)
    BY <1>1, <2>1
  <2> QED BY <1>3, <1>4, <2>2 DEF VlOf
<1>5. \A len \in i.low..i.high : len \in Nat
  BY <1>1
<1> QED BY <1>2, <1>3, <1>4, <1>5 DEF Shape

-----------------------------------------------------------------------------
(* A cell keeps its shape as long as its bytes stay.                        *)

(* The bytes of a cell are numbered from 1.                                 *)
LEMMA CellBytes ==
  ASSUME Built, NEW n \in Items
  PROVE  /\ \A j \in 1..ItemLen(item[n]) : lay.start[n] + j - 1 \in Cell(n)
         /\ lay.start[n] \in Nat \ {0} /\ ItemLen(item[n]) \in Nat \ {0}
         /\ \A b : There(b, n) <=> CellOf(b, n)[1] # Nop
<1>1. /\ lay.start[n] \in Nat \ {0} /\ ItemLen(item[n]) \in Nat \ {0}
      /\ lay.start[n + 1] = lay.start[n] + ItemLen(item[n])
  BY CellIs
<1>2. 1 \in 1..ItemLen(item[n]) /\ lay.start[n] + 1 - 1 = lay.start[n]
  BY <1>1
<1> QED BY <1>1, <1>2 DEF Cell, CellOf, There

LEMMA CellSame ==
  ASSUME Built, NEW b, NEW b2, NEW n \in Items, Same(b, b2, n)
  PROVE  CellOf(b2, n) = CellOf(b, n) /\ (There(b2, n) <=> There(b, n))
<1>1. \A j \in 1..ItemLen(item[n]) : b2[lay.start[n] + j - 1] = b[lay.start[n] + j - 1]
  BY CellBytes DEF Same
<1>2. CellOf(b2, n) = CellOf(b, n)
  BY <1>1 DEF CellOf
<1> QED BY <1>2, CellBytes

LEMMA FormedKept ==
  ASSUME Built, NEW b, NEW b2, NEW n \in Items, FormedAt(b, n), Same(b, b2, n),
         \A c \in Enclosing(n) : There(b, c) => There(b2, c)
  PROVE  FormedAt(b2, n)
  BY CellSame DEF FormedAt

(* What init writes is formed; a vl is as short as it may be.               *)
InForm(i, s) == Shape(i, s) /\ (i.kind = "vl" => VlOf(i, s, i.low))

LEMMA ImageForm ==
  ASSUME Built, NEW n \in Items, item[n].kind # "details", NEW open
  PROVE  IF Shown(item, n, open) THEN InForm(item[n], Image(item, n, open))
         ELSE \A j \in 1..ItemLen(item[n]) : Image(item, n, open)[j] = Nop
<1> DEFINE d == item
           i == d[n]
           x == Ground(d, n)
           len == ItemLen(i)
<1>1. /\ d \in Seq(Item) /\ n \in 1..Len(d) /\ i \in Item /\ Compiles(d)
  BY BuiltIs, EnclosureIs
<1>2. x \in {Nop, Zero}
  BY DEF Ground
<1>3. i.kind = "vl" => i.low <= i.high
  BY <1>1 DEF Compiles, Typed
<1>4. Image(d, n, open) = IF Shown(d, n, open) THEN Default(i, x) ELSE Nops(len)
  BY DEF Image, Shown, Above
<1>5. len \in Nat /\ i.low \in Nat
  BY <1>1, ItemLenIs, ItemIs
<1> HIDE DEF x, d, i, len
<1>6. InForm(i, Default(i, x))
  BY <1>1, <1>2, <1>3, DefaultShape DEF InForm, d, i
<1>7. \A j \in 1..len : Nops(len)[j] = Nop
  BY DEF Nops, Repeat
<1> QED BY <1>4, <1>6, <1>7 DEF d, i, len

SlotCell(c, n) == [j \in 1..ItemLen(item[n]) |-> SlotByte(c, lay.start[n] + j - 1)]

LEMMA SlotForm ==
  ASSUME Built, NEW c \in DOMAIN lay.slot, NEW n \in Covered(c), Plainly(c, n)
  PROVE  n \in Items /\ item[n].kind # "details" /\ InForm(item[n], SlotCell(c, n))
<1> DEFINE d == item
           e == lay.close[c]
           open == {c} \cup lay.mode[c]
           i == d[n]
<1>1. /\ d \in Seq(Item) /\ Items = 1..Len(d) /\ Len(d) \in Nat /\ lay.start = Starts(d)
      /\ lay.slot = [m \in Slotted(d) |-> Images(d, m, lay.close[m], {m} \cup lay.mode[m])]
  BY BuiltIs
<1>2. c \in Items /\ n \in Items /\ d[n].kind # "details" /\ i \in Item
  BY SlotIs, EnclosureIs DEF Covered
<1>3. e \in c..Len(d) /\ n \in c..e
  BY <1>2, CoveredIs
<1>4. lay.slot[c] = Images(d, c, e, open)
  BY <1>1
<1>5. Shown(d, n, open)
  BY <1>2, EnclosureIs DEF Plainly, Shown
<1>6. InForm(i, Image(d, n, open))
  BY <1>2, <1>5, ImageForm
<1>7. Cell(n) = Place(d, n)
  BY <1>1 DEF Cell, Place
<1>8. /\ \A j \in 1..ItemLen(i) : lay.start[n] + j - 1 \in Cell(n)
      /\ lay.start[n] \in Nat /\ ItemLen(i) \in Nat
  BY <1>2, CellBytes
<1> HIDE DEF d, e, open, i
<1>9. ASSUME NEW j \in 1..ItemLen(i)
      PROVE  SlotCell(c, n)[j] = Image(d, n, open)[j]
  <2> DEFINE k == lay.start[n] + j - 1
  <2>1. k \in Place(d, n) /\ k - Starts(d)[n] + 1 = j
    BY <1>1, <1>7, <1>8
  <2>2. c \in 1..Len(d)
    BY <1>1, <1>2 DEF d
  <2> HIDE DEF k
  <2>3. Images(d, c, e, open)[k - Starts(d)[c] + 1] = Image(d, n, open)[k - Starts(d)[n] + 1]
    BY <1>1, <1>3, <2>1, <2>2, ImagesAt
  <2>4. SlotCell(c, n)[j] = SlotByte(c, k)
    BY DEF SlotCell, i, d, k
  <2> QED BY <1>1, <1>4, <2>1, <2>3, <2>4 DEF SlotByte
<1>10. \A len \in Nat : VlOf(i, Image(d, n, open), len) /\ i.kind = "vl" => VlOf(i, SlotCell(c, n), len)
  BY <1>2, <1>9, ShapeSame DEF d, i
<1>11. Shape(i, Image(d, n, open)) => Shape(i, SlotCell(c, n))
  BY <1>2, <1>9, ShapeSame DEF d, i
<1>12. i.low \in Nat
  BY <1>2, ItemIs DEF i
<1> QED BY <1>2, <1>6, <1>10, <1>11, <1>12 DEF InForm, d, i

LEMMA FreshForms ==
  ASSUME Built
  PROVE  Formed(lay.fresh)
<1> SUFFICES ASSUME NEW n \in Items, item[n].kind # "details" PROVE FormedAt(lay.fresh, n)
  BY DEF Formed
<1> DEFINE d == item
           N == Len(d)
           i == d[n]
           b == lay.fresh
           open == {}
           s == CellOf(b, n)
           t == Image(d, n, open)
<1>1. /\ d \in Seq(Item) /\ Items = 1..N /\ N \in Nat /\ N > 0 /\ lay.start = Starts(d)
      /\ b = Images(d, 1, N, open) /\ i \in Item
  BY BuiltIs, EnclosureIs
<1>2. Starts(d)[1] = 1
  BY <1>1, StartsAre
<1>3. Cell(n) = Place(d, n)
  BY <1>1 DEF Cell, Place
<1>4. /\ \A j \in 1..ItemLen(i) : lay.start[n] + j - 1 \in Cell(n)
      /\ lay.start[n] \in Nat /\ ItemLen(i) \in Nat \ {0}
  BY CellBytes
<1>5. IF Shown(d, n, open) THEN InForm(i, t) ELSE \A j \in 1..ItemLen(i) : t[j] = Nop
  BY ImageForm
<1>6. There(b, n) <=> s[1] # Nop
  BY CellBytes
<1>7. s = [j \in 1..ItemLen(i) |-> b[lay.start[n] + j - 1]]
  BY DEF CellOf
<1>15. i.kind # "details" /\ n \in Items
  OBVIOUS
<1> HIDE DEF d, N, i, b, open, s, t
<1>8. ASSUME NEW j \in 1..ItemLen(i) PROVE s[j] = t[j]
  <2> DEFINE k == lay.start[n] + j - 1
  <2>1. k \in Place(d, n) /\ k - Starts(d)[n] + 1 = j /\ k - Starts(d)[1] + 1 = k
    BY <1>1, <1>2, <1>3, <1>4
  <2>2. 1 \in 1..Len(d) /\ N \in 1..Len(d) /\ n \in 1..N
    BY <1>1, <1>15 DEF N
  <2> HIDE DEF k
  <2>3. Images(d, 1, N, open)[k - Starts(d)[1] + 1] = Image(d, n, open)[k - Starts(d)[n] + 1]
    BY <1>1, <2>1, <2>2, ImagesAt
  <2>4. s[j] = b[k]
    BY <1>7 DEF k
  <2> QED BY <1>1, <2>1, <2>3, <2>4 DEF t
<1>9. There(b, n) => InForm(i, t)
  BY <1>4, <1>5, <1>6, <1>8
<1>10. Shape(i, t) => Shape(i, s)
  BY <1>1, <1>8, <1>15, ShapeSame
<1>11. \A len \in Nat : VlOf(i, t, len) /\ i.kind = "vl" => VlOf(i, s, len)
  BY <1>1, <1>8, <1>15, ShapeSame
<1>12. i.low \in Nat
  BY <1>1, ItemIs
<1>13. There(b, n) => InForm(i, s)
  BY <1>9, <1>10, <1>11, <1>12 DEF InForm
<1> QED BY <1>13 DEF FormedAt, InForm, i, d, s, b

-----------------------------------------------------------------------------
(* A call that tidies: it keeps what is there in shape.                     *)

(* A required item outside of every container: only its own setter and      *)
(* prepare_for_emit touch it.                                               *)
Bare(n) == Enclosing(n) = {} /\ ~item[n].optional

(* What is formed stays so, and of the bare items only those hit change.    *)
Tidy(b, b2, hit) ==
  Formed(b2) /\ \A n \in Items : Bare(n) /\ n \notin hit => Same(b, b2, n)

(* A container that is copied in leaves in it what is formed.               *)
LEMMA BlitForms ==
  ASSUME Built, NEW b, Sound(b), Formed(b), NEW c \in DOMAIN lay.slot,
         ~There(b, c), \A a \in Enclosing(c) : There(b, a)
  PROVE  Tidy(b, Blit(b, c), {})
<1> DEFINE b2 == Blit(b, c)
<1>1. /\ b \in Bytes(Int) /\ Solid(b) /\ Rooted(b)
  BY DEF Sound
<1>2. /\ c \in Items /\ item[c].optional /\ item[c].kind \in Containers
      /\ \A n \in Covered(c) :
           ~Plainly(c, n) => \A k \in Cell(n) : SlotByte(c, k) = Nop
  BY SlotIs
<1>3. /\ \A n \in Items \ Covered(c) : Same(b, b2, n)
      /\ \/ \A n \in Covered(c) : AtDefault(b2, c, n)
         \/ \A n \in Covered(c) : \A k \in Cell(n) :
              b2[k] = IF SlotByte(c, k) = Nop THEN b[k] ELSE SlotByte(c, k)
  BY <1>1, BlitCases
<1>4. There(b2, c) /\ \A n \in Items \ Covered(c) : There(b2, n) <=> There(b, n)
  BY BlitGrows
<1> HIDE DEF b2
<1>5. \A n \in Items : Enclosing(n) \subseteq Items /\ \A a \in Enclosing(n) :
        item[a].kind \in Containers
  BY EnclosureIs
<1>6. \A n \in Covered(c) : n \in Items /\ (n = c \/ c \in Enclosing(n))
  BY DEF Covered
<1>7. \A n \in Items \ Covered(c) : Enclosing(n) \cap Covered(c) = {}
  BY <1>2, CoveredClosed
<1>8. \A n \in Covered(c) : There(b, n) => item[n].kind = "vl" /\ c \in Enclosing(n)
  BY <1>1, <1>6 DEF Rooted
<1>9. ASSUME NEW n \in Items, NEW a \in Enclosing(n), There(b, a) PROVE There(b2, a)
  <2>1. a \in Items /\ item[a].kind # "vl"
    BY <1>5 DEF Containers
  <2>2. a \notin Covered(c)
    BY <1>8, <1>9, <2>1
  <2> QED BY <1>4, <1>9, <2>1, <2>2
<1>18. \A n \in Items : Bare(n) => Same(b, b2, n)
  BY <1>2, <1>3, <1>6 DEF Bare
<1> SUFFICES ASSUME NEW n \in Items, item[n].kind # "details" PROVE FormedAt(b2, n)
  BY <1>18 DEF Formed, Tidy, b2
<1> DEFINE i == item[n]
           s == CellOf(b2, n)
           t == SlotCell(c, n)
           u == CellOf(b, n)
<1>10. FormedAt(b, n)
  BY DEF Formed
<1>11. CASE Same(b, b2, n)
  BY <1>9, <1>10, <1>11, FormedKept
<1>12. /\ \A j \in 1..ItemLen(i) : lay.start[n] + j - 1 \in Cell(n)
       /\ lay.start[n] \in Cell(n)
       /\ ItemLen(i) \in Nat \ {0} /\ i \in Item /\ i.low \in Nat
  BY CellBytes, CellIs, EnclosureIs, ItemIs
<1>13. \A j \in 1..ItemLen(i) : /\ s[j] = b2[lay.start[n] + j - 1]
                                /\ t[j] = SlotByte(c, lay.start[n] + j - 1)
                                /\ u[j] = b[lay.start[n] + j - 1]
  BY DEF CellOf, SlotCell
<1>14. ASSUME InForm(i, s) PROVE FormedAt(b2, n)
  BY <1>14 DEF FormedAt, InForm
<1>15. ASSUME InForm(i, t), \A j \in 1..ItemLen(i) : s[j] = t[j] PROVE FormedAt(b2, n)
  <2> HIDE DEF s, t
  <2>1. Shape(i, t) => Shape(i, s)
    BY <1>12, <1>15, ShapeSame
  <2>2. \A len \in Nat : VlOf(i, t, len) /\ i.kind = "vl" => VlOf(i, s, len)
    BY <1>12, <1>15, ShapeSame
  <2> QED BY <1>12, <1>14, <1>15, <2>1, <2>2 DEF InForm
<1>16. CASE n \in Covered(c) /\ Plainly(c, n)
  <2>1. InForm(i, t)
    BY <1>16, SlotForm
  <2>2. CASE AtDefault(b2, c, n)
    <3>1. \A j \in 1..ItemLen(i) : s[j] = t[j]
      BY <1>12, <1>13, <2>2 DEF AtDefault
    <3> QED BY <1>15, <2>1, <3>1
  <2>3. CASE \A k \in Cell(n) : b2[k] = IF SlotByte(c, k) = Nop THEN b[k] ELSE SlotByte(c, k)
    <3>1. \A j \in 1..ItemLen(i) : s[j] = IF t[j] = Nop THEN u[j] ELSE t[j]
      BY <1>12, <1>13, <2>3
    <3>2. CASE ~There(b, n)
      <4>1. \A k \in Cell(n) : b[k] = Nop
        BY <1>1, <3>2 DEF Solid
      <4>2. \A j \in 1..ItemLen(i) : u[j] = Nop
        BY <1>12, <1>13, <4>1
      <4>3. \A j \in 1..ItemLen(i) : s[j] = t[j]
        BY <3>1, <4>2
      <4> QED BY <1>15, <2>1, <4>3
    <3>3. CASE There(b, n)
      <4>1. i.kind = "vl" /\ ~\A a \in Enclosing(n) : There(b, a)
        BY <1>8, <1>16, <3>3
      <4>2. Shape(i, u) /\ VlOf(i, u, i.low)
        BY <1>10, <3>3, <4>1 DEF FormedAt
      <4>3. Shape(i, t) /\ VlOf(i, t, i.low)
        BY <2>1, <4>1 DEF InForm
      <4>4. ItemLen(i) >= 2 /\ SlotSize(i.low) \in Nat
        BY <1>12, <4>1, ItemLens, Slots
      <4> HIDE DEF s, t, u, i
      <4>5. 1 \in 1..ItemLen(i) /\ 2 \in 1..ItemLen(i)
        BY <1>12, <4>4
      <4>6. s[1] = First(i)
        BY <3>1, <4>2, <4>3, <4>5 DEF Shape
      <4>7. s[2] = <<"length", i.low>>
        BY <3>1, <4>2, <4>3, <4>5 DEF VlOf
      <4>8. ASSUME NEW k \in (2 + SlotSize(i.low))..ItemLen(i) PROVE s[k] = Nop
        <5>1. k \in 1..ItemLen(i) /\ t[k] = Nop /\ u[k] = Nop
          BY <1>12, <4>2, <4>3, <4>4 DEF VlOf
        <5> QED BY <3>1, <5>1
      <4>9. VlOf(i, s, i.low)
        BY <4>7, <4>8 DEF VlOf
      <4>10. i.low \in i.low..i.high
        <5>1. i.low <= i.high /\ i.high \in Nat
          BY <4>1, <1>12, BuiltIs, ItemIs DEF Compiles, Typed, i
        <5> QED BY <1>12, <5>1
      <4>11. InForm(i, s)
        BY <4>1, <4>6, <4>9, <4>10 DEF InForm, Shape
      <4> QED BY <1>14, <4>11
    <3> QED BY <3>2, <3>3
  <2> QED BY <1>3, <1>16, <2>2, <2>3
<1>17. CASE n \in Covered(c) /\ ~Plainly(c, n)
  <2>1. \A k \in Cell(n) : SlotByte(c, k) = Nop
    BY <1>2, <1>17
  <2>2. (\A k \in Cell(n) : b2[k] = Nop) \/ Same(b, b2, n)
    BY <1>3, <1>17, <2>1 DEF AtDefault, Same
  <2>3. CASE \A k \in Cell(n) : b2[k] = Nop
    BY <1>12, <2>3 DEF FormedAt, There
  <2> QED BY <1>11, <2>2, <2>3
<1> QED BY <1>3, <1>11, <1>16, <1>17

LEMMA EnsuredForms ==
  ASSUME Built, NEW b, Sound(b), Formed(b), NEW m \in 1..(Len(item) + 1)
  PROVE  Tidy(b, Ensured(b, Nesting(item)[m]), {})
<1> DEFINE d == item
           around == Nesting(d)[m]
           N == Len(around)
           Good(k, s) == /\ Sound(s) /\ Tidy(b, s, {}) /\ \A i \in 1..k : There(s, around[i])
<1>1. d \in Seq(Item) /\ Shaped(lay) /\ DOMAIN lay.slot = Slotted(d) /\ Items = 1..Len(d)
  BY BuiltIs
<1>2. around \in Seq(Boxes(d)) /\ N \in Nat
  BY <1>1, NestingIs
<1>3. ASSUME NEW k \in 1..N
      PROVE  LET c == around[k]
             IN  /\ c \in Items /\ d[c].kind \in Containers /\ (d[c].optional => c \in Slotted(d))
                 /\ Enclosing(c) = {around[i] : i \in 1..(k - 1)}
  <2> DEFINE c == around[k]
             t == Nesting(d)[c]
  <2>1. c \in Boxes(d)
    BY <1>2
  <2>2. c \in Items /\ d[c].kind \in Containers /\ (d[c].optional => c \in Slotted(d))
    BY <1>1, <2>1 DEF Boxes, Slotted
  <2>3. Len(t) = k - 1 /\ \A i \in 1..(k - 1) : t[i] = around[i]
    BY <1>1, NestingPrefix
  <2>4. t \in Seq(Boxes(d))
    <3>1. c \in 1..(Len(d) + 1)
      BY <1>1, <2>2
    <3> HIDE DEF c
    <3> QED BY <1>1, <3>1, NestingIs
  <2>5. Enclosing(c) = Range(t)
    BY <2>2, EnclosureIs DEF Above
  <2> HIDE DEF t, c
  <2>6. Range(t) = {t[i] : i \in 1..Len(t)}
    BY <2>4 DEF Range
  <2>7. {t[i] : i \in 1..Len(t)} = {around[i] : i \in 1..(k - 1)}
    BY <2>3
  <2> QED BY <2>2, <2>5, <2>6, <2>7 DEF c
<1>4. b \in Bytes(Int)
  BY DEF Sound
<1>5. PICK after \in [0..N -> Bytes(Int)] :
         Ensures(after, b, around) /\ Ensured(b, around) = after[N]
  <2> DEFINE Z == Int
  <2>1. b \in Bytes(Z)
    BY <1>4
  <2> HIDE DEF Z
  <2>2. \E after \in [0..N -> Bytes(Z)] :
          Ensures(after, b, around) /\ Ensured(b, around) = after[N]
    BY <1>1, <1>2, <2>1, EnsuredRun
  <2> QED BY <2>2 DEF Z
<1>11. /\ after[0] = b
       /\ \A k \in 1..N :
            after[k] = IF d[around[k]].optional THEN Materialize(after[k - 1], around[k])
                       ELSE after[k - 1]
  BY <1>5 DEF Ensures
<1> HIDE DEF d, around, N
<1> DEFINE Run == {k \in Nat : k <= N => Good(k, after[k])}
<1>6. 0 \in Run
  BY <1>11 DEF Tidy, Same
<1>7. ASSUME NEW k \in Nat, k \in Run
      PROVE  k + 1 \in Run
  <2> SUFFICES ASSUME k + 1 <= N
               PROVE  Good(k + 1, after[k + 1])
    OBVIOUS
  <2> DEFINE c == around[k + 1]
             s == after[k]
             t == after[k + 1]
  <2>1. k + 1 \in 1..N /\ (k + 1) - 1 = k /\ Good(k, s)
    BY <1>2, <1>7
  <2>2. /\ c \in Items /\ d[c].kind \in Containers /\ (d[c].optional => c \in Slotted(d))
        /\ Enclosing(c) = {around[i] : i \in 1..k}
    BY <1>3, <2>1
  <2>3. t = IF d[c].optional THEN Materialize(s, c) ELSE s
    BY <1>11, <2>1
  <2>4. \A a \in Enclosing(c) : There(s, a)
    BY <2>1, <2>2
  <2>5. \A i \in 1..(k + 1) : i \in 1..k \/ i = k + 1
    OBVIOUS
  <2> HIDE DEF t, s, c
  <2>6. CASE d[c].optional /\ ~There(s, c)
    <3>1. t = Blit(s, c) /\ c \in DOMAIN lay.slot
      BY <1>1, <2>2, <2>3, <2>6 DEF Materialize, There
    <3>0. Formed(s) /\ Sound(s)
      BY <2>1 DEF Tidy
    <3>2. /\ Sound(t) /\ Tidy(s, t, {}) /\ There(t, c)
          /\ \A n \in Items \ Covered(c) : There(t, n) <=> There(s, n)
      BY <2>4, <2>6, <3>0, <3>1, BlitGrows, BlitForms
    <3>5. Tidy(b, t, {})
      BY <2>1, <3>2 DEF Tidy, Same
    <3>3. \A a \in Enclosing(c) : There(t, a)
      <4>1. Enclosing(c) \cap Covered(c) = {}
        BY <2>2, CoveredClosed
      <4>2. Enclosing(c) \subseteq Items
        BY <2>2, EnclosureIs
      <4> QED BY <2>4, <3>2, <4>1, <4>2
    <3>4. \A i \in 1..(k + 1) : There(t, around[i])
      BY <2>2, <2>5, <3>2, <3>3 DEF c
    <3> QED BY <3>2, <3>4, <3>5 DEF t
  <2>7. CASE ~d[c].optional \/ There(s, c)
    <3>1. t = s
      BY <2>3, <2>7 DEF Materialize, There
    <3>2. There(s, c)
      <4>1. d[c].kind # "details"
        BY <2>2 DEF Containers
      <4> QED BY <2>1, <2>2, <2>4, <2>7, <4>1 DEF Sound, Standing, d
    <3>3. \A i \in 1..(k + 1) : There(t, around[i])
      BY <2>1, <2>5, <3>1, <3>2 DEF c
    <3> QED BY <2>1, <3>1, <3>3 DEF t
  <2> QED BY <2>6, <2>7
<1> HIDE DEF Run
<1>8. Nat \subseteq Run
  BY <1>6, <1>7, SetInduction
<1>9. Good(N, after[N])
  BY <1>2, <1>8 DEF Run
<1> QED BY <1>5, <1>9 DEF d, around

-----------------------------------------------------------------------------
(* Containers that a call makes present, and writes into a cell.            *)

LEMMA TidyOn ==
  ASSUME NEW b, NEW b2, NEW b3, NEW hit, Tidy(b, b2, hit), Tidy(b2, b3, hit)
  PROVE  Tidy(b, b3, hit)
  BY DEF Tidy, Same

LEMMA OpenedForms ==
  ASSUME Built, Sound(bytes), Formed(bytes), NEW n \in Items
  PROVE  Tidy(bytes, Reached(n), {}) /\ Tidy(bytes, Opened(n), {})
<1> DEFINE d == item
<1>1. /\ d \in Seq(Item) /\ Items = 1..Len(d) /\ Len(d) \in Nat
      /\ lay.within = [i \in Items |-> Nesting(d)[i]]
      /\ lay.outer = [i \in Items |-> IF Arrays(d, i) = {} THEN <<>>
                                      ELSE Nesting(d)[Max(Arrays(d, i))]]
  BY BuiltIs
<1> HIDE DEF d
<1>2. Nesting(d)[1] = <<>>
  BY <1>1, NestingIs
<1>3. PICK m \in 1..(Len(d) + 1) : lay.outer[n] = Nesting(d)[m]
  <2>1. CASE Arrays(d, n) = {}
    <3>1. 1 \in 1..(Len(d) + 1)
      BY <1>1
    <3> QED BY <1>1, <1>2, <2>1, <3>1
  <2>2. CASE Arrays(d, n) # {}
    <3>1. Arrays(d, n) \in SUBSET (1..Len(d))
      <4>1. Enclosing(n) = Above(d, n) /\ Enclosing(n) \subseteq Items
        BY EnclosureIs DEF d
      <4> QED BY <1>1, <4>1 DEF Arrays
    <3>2. Max(Arrays(d, n)) \in Arrays(d, n)
      BY <1>1, <2>2, <3>1, MaxIsGreatest
    <3>3. Max(Arrays(d, n)) \in 1..(Len(d) + 1)
      BY <1>1, <3>1, <3>2
    <3> QED BY <1>1, <2>2, <3>3
  <2> QED BY <2>1, <2>2
<1>4. Reached(n) = Ensured(bytes, Nesting(d)[m])
  BY <1>3 DEF Reached
<1>5. Tidy(bytes, Reached(n), {})
  BY <1>3, <1>4, EnsuredForms DEF d
<1> DEFINE b == Reached(n)
<1>6. n \in 1..(Len(d) + 1) /\ Opened(n) = Ensured(b, Nesting(d)[n])
  BY <1>1 DEF Opened
<1>7. Sound(b) /\ Formed(b)
  BY <1>5, OpenedGrows DEF Tidy
<1> HIDE DEF b
<1>8. Tidy(b, Opened(n), {})
  BY <1>6, <1>7, EnsuredForms DEF d
<1> QED BY <1>5, <1>8, TidyOn DEF b

(* What is written into a cell.                                             *)
LEMMA OverCell ==
  ASSUME Built, NEW b \in Bytes(Int), NEW n \in Items, NEW q \in Nat, NEW s \in Seq(Byte(Int)),
         q + Len(s) <= ItemLen(item[n])
  PROVE  \A j \in 1..ItemLen(item[n]) :
           CellOf(Over(b, lay.start[n] + q, s), n)[j]
             = IF j \in (q + 1)..(q + Len(s)) THEN s[j - q] ELSE CellOf(b, n)[j]
<1> SUFFICES ASSUME NEW j \in 1..ItemLen(item[n])
             PROVE  CellOf(Over(b, lay.start[n] + q, s), n)[j]
                      = IF j \in (q + 1)..(q + Len(s)) THEN s[j - q] ELSE CellOf(b, n)[j]
  OBVIOUS
<1> DEFINE at == lay.start[n]
           k == at + j - 1
<1>1. at \in Nat /\ ItemLen(item[n]) \in Nat /\ k \in Cell(n)
  BY CellBytes
<1>2. k \in DOMAIN b
  <2>1. Cell(n) \subseteq 1..Len(lay.fresh)
    BY CellIs
  <2> QED BY <1>1, <2>1 DEF Bytes
<1>3. CellOf(Over(b, at + q, s), n)[j] = Over(b, at + q, s)[k] /\ CellOf(b, n)[j] = b[k]
  BY DEF CellOf
<1>4. Over(b, at + q, s)[k] = IF k \in (at + q)..(at + q + Len(s) - 1) THEN s[k - (at + q) + 1] ELSE b[k]
  BY <1>2 DEF Over
<1>5. Len(s) \in Nat
  OBVIOUS
<1>6. k \in (at + q)..(at + q + Len(s) - 1) <=> j \in (q + 1)..(q + Len(s))
  <2> DEFINE len == Len(s)
  <2>1. at \in Nat /\ j \in Nat /\ len \in Nat /\ k = at + j - 1
    BY <1>1, <1>5
  <2> HIDE DEF at, len, k
  <2>2. k \in (at + q)..(at + q + len - 1) <=> j \in (q + 1)..(q + len)
    BY ONLY <2>1, q \in Nat
  <2> QED BY <2>2 DEF len
<1>7. k - (at + q) + 1 = j - q
  BY <1>1
<1> QED BY <1>3, <1>4, <1>6, <1>7

LEMMA WrittenCell ==
  ASSUME Built, NEW b \in Bytes(Int), NEW n \in Items, item[n].kind \in DOMAIN Sti,
         NEW payload \in Seq(Byte(Int)),
         Len(Opening(item[n])) + Len(payload) <= ItemLen(item[n])
  PROVE  LET o == Opening(item[n])
             s == CellOf(Written(b, n, payload), n)
         IN  /\ \A j \in 1..Len(o) : s[j] = IF item[n].optional THEN o[j] ELSE CellOf(b, n)[j]
             /\ \A j \in (Len(o) + 1)..(Len(o) + Len(payload)) : s[j] = payload[j - Len(o)]
             /\ \A j \in (Len(o) + Len(payload) + 1)..ItemLen(item[n]) : s[j] = CellOf(b, n)[j]
             /\ Len(o) \in Nat \ {0} /\ Len(payload) \in Nat
<1> DEFINE i == item[n]
           at == lay.start[n]
           len == ItemLen(i)
           o == Opening(i)
           b1 == IF i.optional THEN Over(b, at, o) ELSE b
           z == 0
<1>1. i \in Item /\ at \in Nat /\ len \in Nat
  BY EnclosureIs, CellIs
<1>2. o \in Seq(Byte(Int)) /\ Len(o) \in Nat \ {0} /\ Len(payload) \in Nat
  <2>1. i.high \in Nat
    BY <1>1, ItemIs
  <2>2. PrefixLen(0) \in Nat /\ PrefixLen(i.high) \in Nat
    BY <2>1, Slots
  <2> QED BY <1>1, <2>2, OpeningLen
<1>3. Written(b, n, payload) = Over(b1, at + Len(o), payload)
  BY DEF Written
<1>4. at + z = at /\ z + Len(o) = Len(o) /\ z \in Nat
  BY <1>1, <1>2
<1>11. Len(o) + Len(payload) <= len
  OBVIOUS
<1> HIDE DEF o, at, z
<1>5. i.optional => \A j \in 1..len :
        CellOf(Over(b, at + z, o), n)[j] = IF j \in (z + 1)..(z + Len(o)) THEN o[j - z] ELSE CellOf(b, n)[j]
  <2>1. z + Len(o) <= ItemLen(item[n])
    BY <1>1, <1>2, <1>4, <1>11
  <2> QED BY <1>2, <1>4, <2>1, OverCell DEF at
<1>6. i.optional => \A j \in 1..len :
        CellOf(b1, n)[j] = IF j \in 1..Len(o) THEN o[j] ELSE CellOf(b, n)[j]
  BY <1>4, <1>5 DEF z
<1>7. b1 \in Bytes(Int)
  <2> DEFINE Z == Int
  <2>1. b \in Bytes(Z) /\ o \in Seq(Byte(Z)) /\ at \in Int
    BY <1>1, <1>2
  <2> HIDE DEF Z
  <2>2. Over(b, at, o) \in Bytes(Z)
    BY <2>1, OverIs
  <2> QED BY <2>2 DEF Z
<1>8. ~i.optional => b1 = b
  OBVIOUS
<1> HIDE DEF b1
<1>9. \A j \in 1..len : CellOf(Over(b1, at + Len(o), payload), n)[j]
        = IF j \in (Len(o) + 1)..(Len(o) + Len(payload)) THEN payload[j - Len(o)] ELSE CellOf(b1, n)[j]
  <2> DEFINE q == Len(o)
  <2>1. q \in Nat /\ q + Len(payload) <= ItemLen(item[n])
    BY <1>2, <1>11
  <2> HIDE DEF q
  <2>2. \A j \in 1..ItemLen(item[n]) : CellOf(Over(b1, lay.start[n] + q, payload), n)[j]
        = IF j \in (q + 1)..(q + Len(payload)) THEN payload[j - q] ELSE CellOf(b1, n)[j]
    BY <1>7, <2>1, OverCell
  <2> QED BY <2>2 DEF at, q
<1> HIDE DEF len, i
<1>10. \A j \in 1..len : CellOf(Written(b, n, payload), n)[j]
         = IF j \in (Len(o) + 1)..(Len(o) + Len(payload)) THEN payload[j - Len(o)]
           ELSE IF i.optional /\ j \in 1..Len(o) THEN o[j] ELSE CellOf(b, n)[j]
  BY <1>3, <1>6, <1>8, <1>9
<1>12. /\ \A j \in 1..Len(o) : j \in 1..len /\ j \notin (Len(o) + 1)..(Len(o) + Len(payload))
       /\ \A j \in (Len(o) + 1)..(Len(o) + Len(payload)) : j \in 1..len
       /\ \A j \in (Len(o) + Len(payload) + 1)..len : j \in 1..len /\ j \notin 1..Len(o)
            /\ j \notin (Len(o) + 1)..(Len(o) + Len(payload))
  BY <1>1, <1>2, <1>11
<1> QED BY <1>2, <1>10, <1>12 DEF o, len, i

-----------------------------------------------------------------------------
(* Setters of leaves, and what their payloads tell the parser.              *)

(* A write that stays in the cell of item n.                                *)
LEMMA LeafForms ==
  ASSUME Built, NEW b, Formed(b), NEW n \in Items, item[n].kind \notin Containers,
         NEW b2, \A m \in Items \ {n} : Same(b, b2, m),
         item[n].kind # "details" => FormedAt(b2, n)
  PROVE  Tidy(b, b2, {n})
<1>1. \A m \in Items : \A c \in Enclosing(m) : c \in Items /\ c # n
  BY EnclosureIs
<1>2. ASSUME NEW m \in Items, item[m].kind # "details", m # n PROVE FormedAt(b2, m)
  <2>1. \A c \in Enclosing(m) : There(b, c) => There(b2, c)
    BY <1>1, CellSame
  <2>2. FormedAt(b, m)
    BY <1>2 DEF Formed
  <2> QED BY <1>2, <2>1, <2>2, FormedKept
<1> QED BY <1>2 DEF Tidy, Formed

(* The first two bytes that a setter writes.                                *)
LEMMA OpeningBytes ==
  ASSUME NEW i \in Item, i.kind \in DOMAIN Sti
  PROVE  /\ Opening(i)[1] = Header(i.code)
         /\ i.kind = "empty" => Len(Opening(i)) >= 2 /\ Opening(i)[2] = <<"length", 0>>
         /\ i.kind = "fixed" => Len(Opening(i)) >= 2 /\ Opening(i)[2] = <<"length", i.high>>
         /\ i.kind \notin {"empty", "fixed"} => Len(Opening(i)) = 1
<1> DEFINE h == Header(i.code)
           B == Byte(Int)
<1>1. i.code \in DOMAIN sti /\ i.high \in Nat /\ PrefixLen(i.high) \in Nat \ {0}
      /\ PrefixLen(0) \in Nat \ {0}
  BY ItemIs, Slots
<1>2. h \in B /\ Zero \in B
  BY <1>1, ByteIs
<1>3. ASSUME NEW v \in Nat
      PROVE  /\ Prefix(v) \in Seq(B) /\ Len(Prefix(v)) = PrefixLen(v)
             /\ Prefix(v)[1] = <<"length", v>>
  <2>1. Prefix(v) \in Seq(B) /\ Len(Prefix(v)) = PrefixLen(v)
    <3> HIDE DEF B
    <3> QED BY PrefixIs DEF B
  <2>2. Blob(v, Zero)[1] = <<"length", v>>
    BY <1>2, BlobFirst
  <2>3. Blob(v, Zero) = Prefix(v) \o Repeat(v, Zero) /\ Repeat(v, Zero) \in Seq(B)
    BY <1>2, RepeatIs DEF Blob
  <2>4. Len(Prefix(v)) >= 1
    <3>1. PrefixLen(v) \in Nat \ {0}
      BY Slots
    <3> QED BY <2>1, <3>1
  <2> HIDE DEF B
  <2>5. Blob(v, Zero)[1] = Prefix(v)[1]
    BY <2>1, <2>3, <2>4, ConcatFirst
  <2> QED BY <2>1, <2>2, <2>5
<1>4. ASSUME NEW v \in Nat, PrefixLen(v) \in Nat \ {0}
      PROVE  /\ (<<h>> \o Prefix(v))[1] = h /\ (<<h>> \o Prefix(v))[2] = <<"length", v>>
             /\ Len(<<h>> \o Prefix(v)) >= 2
  <2>1. /\ Prefix(v) \in Seq(B) /\ Len(Prefix(v)) >= 1 /\ Len(Prefix(v)) \in Nat
        /\ Prefix(v)[1] = <<"length", v>>
    <3>1. /\ Prefix(v) \in Seq(B) /\ Len(Prefix(v)) = PrefixLen(v)
          /\ Prefix(v)[1] = <<"length", v>>
      BY <1>3
    <3> QED BY <1>4, <3>1
  <2> DEFINE p == Prefix(v)
             g == <<h>>
  <2>2. g \in Seq(B) /\ Len(g) = 1
    BY <1>2
  <2> HIDE DEF p, g, B
  <2>6. p \in Seq(B)
    BY <2>1 DEF p
  <2>3. Len(g \o p) = Len(g) + Len(p)
    BY <2>2, <2>6, ConcatIs
  <2>4. Len(g \o p) >= 2
    <3>1. Len(p) \in Nat /\ Len(p) >= 1
      BY <2>1 DEF p
    <3> QED BY <2>2, <2>3, <3>1
  <2> HIDE DEF h
  <2>5. (<<h>> \o p)[1] = h /\ (<<h>> \o p)[2] = p[1]
    BY <1>2, <2>1, FirstOf, SecondOf DEF p
  <2> QED BY <2>1, <2>4, <2>5 DEF p, g
<1>5. CASE i.kind = "empty"
  <2> DEFINE v == 0
  <2>1. Opening(i) = <<h>> \o Prefix(v) /\ v \in Nat /\ PrefixLen(v) \in Nat \ {0}
    BY <1>1, <1>5 DEF Opening
  <2> HIDE DEF v, h
  <2>2. Opening(i)[1] = h /\ Opening(i)[2] = <<"length", v>> /\ Len(Opening(i)) >= 2
    BY <1>4, <2>1
  <2> QED BY <1>5, <2>2 DEF v, h
<1>6. CASE i.kind = "fixed"
  <2>1. Opening(i) = <<h>> \o Prefix(i.high)
    BY <1>6 DEF Opening
  <2> HIDE DEF h
  <2>2. Opening(i)[1] = h /\ Opening(i)[2] = <<"length", i.high>> /\ Len(Opening(i)) >= 2
    BY <1>1, <1>4, <2>1
  <2> QED BY <1>6, <2>2 DEF h
<1>7. CASE i.kind \notin {"empty", "fixed"}
  <2>1. Opening(i) = <<h>> \o <<>>
    BY <1>7 DEF Opening
  <2>2. Opening(i) = <<h>>
    BY <2>1
  <2> QED BY <1>7, <2>2
<1> QED BY <1>5, <1>6, <1>7

(* The first byte of an amount's payload tells its form.                    *)
Telling(i, payload) ==
  /\ i.kind \in {"native", "any"} =>
       Len(payload) = 0 \/ payload[1][1] = "native" \/ (i.kind = "any" /\ payload[1][1] = "issued")
  /\ i.kind = "issued" => Len(payload) > 0 /\ payload[1][1] = "issued"

LEMMA WrittenForms ==
  ASSUME Built, NEW b, Sound(b), Formed(b), NEW n \in Items,
         item[n].kind \in {"scalar", "native", "issued", "any", "fixed", "empty"},
         NEW payload \in Seq(Byte(Int)),
         Len(Opening(item[n])) + Len(payload) <= ItemLen(item[n]),
         Telling(item[n], payload),
         \A a \in Enclosing(n) : There(b, a)
  PROVE  Tidy(b, Written(b, n, payload), {n})
<1> DEFINE i == item[n]
           o == Opening(i)
           b2 == Written(b, n, payload)
           s == CellOf(b2, n)
           u == CellOf(b, n)
<1>1. /\ i \in Item /\ i.kind \in DOMAIN Sti /\ i.kind \notin Containers \cup {"details", "vl"}
      /\ i.kind \notin Ends
  BY EnclosureIs DEF Sti, Containers, Ends
<1>2. i.optional \/ There(b, n)
  BY <1>1 DEF Sound, Standing
<1>3. b \in Bytes(Int)
  BY DEF Sound
<1>4. There(b2, n) /\ \A m \in Items \ {n} : Same(b, b2, m)
  BY <1>1, <1>2, <1>3, WrittenStays
<1>5. /\ \A j \in 1..Len(o) : s[j] = IF i.optional THEN o[j] ELSE u[j]
      /\ \A j \in (Len(o) + 1)..(Len(o) + Len(payload)) : s[j] = payload[j - Len(o)]
      /\ \A j \in (Len(o) + Len(payload) + 1)..ItemLen(i) : s[j] = u[j]
      /\ Len(o) \in Nat \ {0} /\ Len(payload) \in Nat
  BY <1>1, <1>3, WrittenCell
<1>6. /\ o[1] = Header(i.code)
      /\ i.kind = "empty" => Len(o) >= 2 /\ o[2] = <<"length", 0>>
      /\ i.kind = "fixed" => Len(o) >= 2 /\ o[2] = <<"length", i.high>>
      /\ i.kind \notin {"empty", "fixed"} => Len(o) = 1
  BY <1>1, OpeningBytes
<1>7. ~i.optional => Shape(i, u)
  BY <1>1, <1>2 DEF Formed, FormedAt
<1>8. There(b, n) => Shape(i, u)
  BY <1>1 DEF Formed, FormedAt
<1>9. /\ i.kind # "details" /\ n \in Items
      /\ \A j \in 1..ItemLen(i) : u[j] = b[lay.start[n] + j - 1] /\ lay.start[n] + j - 1 \in Cell(n)
  BY <1>1, CellBytes DEF CellOf
<1>10. ~There(b, n) => \A j \in 1..ItemLen(i) : u[j] = Nop
  BY <1>9 DEF Sound, Solid
<1>11. ItemLen(i) >= 2 /\ ItemLen(i) \in Nat
  BY <1>1, ItemLens, ItemLenIs
<1>12. First(i) = Header(i.code)
  BY <1>1 DEF First
<1>13. Telling(i, payload)
  OBVIOUS
<1> HIDE DEF s, u, o, i, b2
<1>14. s[1] = First(i)
  BY <1>5, <1>6, <1>7, <1>12 DEF Shape
<1>15. i.kind \in {"empty", "fixed"} => s[2] = IF i.optional THEN o[2] ELSE u[2]
  BY <1>5, <1>6
<1>16. i.kind \notin {"empty", "fixed"} => s[2] = IF Len(payload) = 0 THEN u[2] ELSE payload[1]
  BY <1>5, <1>6, <1>11
<1>17. i.kind = "native" => s[2] = Nop \/ s[2][1] = "native"
  BY <1>8, <1>10, <1>11, <1>13, <1>16 DEF Telling, Shape
<1>18. i.kind = "any" => s[2] = Nop \/ s[2][1] \in {"native", "issued"}
  BY <1>8, <1>10, <1>11, <1>13, <1>16 DEF Telling, Shape
<1>19. i.kind = "issued" => s[2][1] = "issued"
  BY <1>13, <1>16 DEF Telling
<1>20. /\ i.kind = "empty" => s[2] = <<"length", 0>>
       /\ i.kind = "fixed" => s[2] = <<"length", i.high>>
  BY <1>6, <1>7, <1>15 DEF Shape
<1>21. Shape(i, s)
  BY <1>1, <1>14, <1>17, <1>18, <1>19, <1>20 DEF Shape
<1>22. FormedAt(b2, n)
  BY <1>1, <1>21 DEF FormedAt, s, i
<1>23. i.kind \notin Containers
  BY <1>1
<1> QED BY <1>4, <1>22, <1>23, LeafForms DEF b2, i

LEMMA PayloadTells ==
  ASSUME NEW i \in Item, NEW payload \in Payloads(i),
         i.kind \in {"scalar", "native", "issued", "any", "fixed", "empty"}
  PROVE  Telling(i, payload)
<1>1. NativeLen \in Nat \ {0} /\ IssuedLen \in Nat \ {0}
  BY TemplateConstants
<1>2. ASSUME NEW v
      PROVE  /\ Native(v)[1] = <<"native", v>> /\ Issued(v)[1] = <<"issued", v>>
             /\ Repeat(NativeLen, <<"issued", v>>)[1] = <<"issued", v>>
             /\ Len(Issued(v)) > 0 /\ Len(Repeat(NativeLen, <<"issued", v>>)) > 0
  <2>1. 1 \in 1..NativeLen /\ 1 \in 1..IssuedLen
    BY <1>1
  <2>2. \A len \in Nat \ {0} : \A x : Len([k \in 1..len |-> x]) > 0
    OBVIOUS
  <2> QED BY <1>1, <2>1, <2>2 DEF Native, Issued, Repeat
<1>3. CASE i.kind = "native"
  <2>1. PICK v \in Inputs : payload = Native(v)
    BY <1>3 DEF Payloads, Payload
  <2>2. payload[1] = <<"native", v>>
    BY <1>2, <2>1
  <2>3. payload[1][1] = "native"
    BY <2>2
  <2> QED BY <1>3, <2>3 DEF Telling
<1>4. CASE i.kind = "any"
  <2>1. PICK v \in Inputs : payload = Native(v) \/ payload = Issued(v)
    BY <1>4 DEF Payloads
  <2>2. payload[1] = <<"native", v>> \/ payload[1] = <<"issued", v>>
    <3>1. Native(v)[1] = <<"native", v>> /\ Issued(v)[1] = <<"issued", v>>
      BY <1>2
    <3> QED BY <2>1, <3>1
  <2>3. payload[1][1] = "native" \/ payload[1][1] = "issued"
    BY <2>2
  <2> QED BY <1>4, <2>3 DEF Telling
<1>5. CASE i.kind = "issued"
  <2>1. PICK v \in Inputs : payload = Issued(v) \/ payload = Repeat(NativeLen, <<"issued", v>>)
    BY <1>5 DEF Payloads
  <2>2. payload[1] = <<"issued", v>> /\ Len(payload) > 0
    BY <1>2, <2>1
  <2>3. payload[1][1] = "issued"
    BY <2>2
  <2> QED BY <1>5, <2>2, <2>3 DEF Telling
<1>6. CASE i.kind \in {"scalar", "fixed", "empty"}
  BY <1>6 DEF Telling
<1> QED BY <1>3, <1>4, <1>5, <1>6

-----------------------------------------------------------------------------
(* Setters.                                                                 *)

LEMMA TidyMore ==
  ASSUME NEW b, NEW b2, NEW b3, NEW hit, NEW hit2, NEW all,
         Tidy(b, b2, hit), Tidy(b2, b3, hit2), hit \subseteq all, hit2 \subseteq all
  PROVE  Tidy(b, b3, all)
  BY DEF Tidy, Same

LEMMA SetForms ==
  ASSUME Built, Sound(bytes), Formed(bytes), NEW n \in Items, NEW payload \in Payloads(item[n]),
         Set(n, payload)
  PROVE  Tidy(bytes, bytes', {n})
<1>1. /\ item[n].kind \in {"scalar", "native", "issued", "any", "fixed", "empty"}
      /\ bytes' = Written(Opened(n), n, payload) /\ item[n] \in Item
  BY EnclosureIs DEF Set, Settable
<1>2. payload \in Seq(Byte(Int)) /\ Len(Opening(item[n])) + Len(payload) <= ItemLen(item[n])
  BY <1>1, PayloadFits
<1>3. Telling(item[n], payload)
  BY <1>1, PayloadTells
<1> DEFINE b == Opened(n)
<1>4. Sound(b) /\ Tidy(bytes, b, {}) /\ Formed(b) /\ \A a \in Enclosing(n) : There(b, a)
  BY OpenedGrows, OpenedForms DEF Tidy
<1> HIDE DEF b
<1>5. Tidy(b, Written(b, n, payload), {n})
  BY <1>1, <1>2, <1>3, <1>4, WrittenForms
<1>6. Tidy(bytes, Written(b, n, payload), {n})
  BY <1>4, <1>5, TidyMore
<1> QED BY <1>1, <1>6 DEF b

(* A required amount that is refused stays as it was.                       *)
LEMMA RefuseForms ==
  ASSUME Built, Sound(bytes), Formed(bytes), NEW n \in Items, Refuse(n)
  PROVE  Tidy(bytes, bytes', {})
<1> DEFINE none == <<>>
           b == Opened(n)
           i == item[n]
<1>1. i.kind \in {"native", "any"} /\ bytes' = Written(b, n, none) /\ i \in Item
  BY EnclosureIs DEF Refuse, Edit
<1>2. none \in Seq(Byte(Int)) /\ Len(none) = 0
  OBVIOUS
<1>3. Telling(i, none)
  BY <1>1, <1>2 DEF Telling
<1>4. Sound(b) /\ Tidy(bytes, b, {}) /\ Formed(b) /\ \A a \in Enclosing(n) : There(b, a)
  BY OpenedGrows, OpenedForms DEF Tidy
<1> HIDE DEF none, b
<1>5. Len(Opening(i)) = 1 /\ ItemLen(i) \in Nat \ {0} /\ i.kind \in DOMAIN Sti
  BY <1>1, OpeningLen, ItemLenIs DEF Sti
<1>6. Len(Opening(i)) + Len(none) <= ItemLen(i)
  BY <1>2, <1>5
<1>7. Tidy(b, Written(b, n, none), {n})
  BY <1>1, <1>2, <1>3, <1>4, <1>6, WrittenForms
<1>8. ~i.optional => Same(b, Written(b, n, none), n)
  <2> SUFFICES ASSUME ~i.optional, NEW k \in Cell(n)
               PROVE  Written(b, n, none)[k] = b[k]
    BY DEF Same
  <2> DEFINE j == k - lay.start[n] + 1
             s == CellOf(Written(b, n, none), n)
             u == CellOf(b, n)
  <2>1. /\ lay.start[n] \in Nat /\ ItemLen(i) \in Nat /\ k \in Int
        /\ lay.start[n + 1] = lay.start[n] + ItemLen(i)
    BY CellIs DEF Cell
  <2>2. j \in 1..ItemLen(i) /\ lay.start[n] + j - 1 = k
    BY <2>1 DEF Cell
  <2>3. s[j] = Written(b, n, none)[k] /\ u[j] = b[k]
    BY <2>2 DEF CellOf
  <2> DEFINE o == Opening(item[n])
  <2> HIDE DEF j, u
  <2>4. /\ \A x \in 1..Len(o) : s[x] = IF item[n].optional THEN o[x] ELSE CellOf(b, n)[x]
        /\ \A x \in (Len(o) + Len(none) + 1)..ItemLen(item[n]) : s[x] = CellOf(b, n)[x]
    <3>1. b \in Bytes(Int) /\ item[n].kind \in DOMAIN Sti
      BY <1>4, <1>5 DEF Sound
    <3> HIDE DEF o
    <3>2. LET p == Opening(item[n])
              t == CellOf(Written(b, n, none), n)
          IN  /\ \A x \in 1..Len(p) : t[x] = IF item[n].optional THEN p[x] ELSE CellOf(b, n)[x]
              /\ \A x \in (Len(p) + 1)..(Len(p) + Len(none)) : t[x] = none[x - Len(p)]
              /\ \A x \in (Len(p) + Len(none) + 1)..ItemLen(item[n]) : t[x] = CellOf(b, n)[x]
              /\ Len(p) \in Nat \ {0} /\ Len(none) \in Nat
      BY <1>2, <1>6, <3>1, WrittenCell
    <3> QED BY <3>2 DEF o
  <2> HIDE DEF s
  <2>5. j = 1 \/ j \in (1 + 0 + 1)..ItemLen(i)
    BY <2>1, <2>2
  <2>6. s[j] = u[j]
    BY <1>2, <1>5, <2>4, <2>5 DEF u
  <2> QED BY <2>3, <2>6
<1>9. Tidy(b, Written(b, n, none), {})
  BY <1>7, <1>8 DEF Tidy, Bare
<1>10. Tidy(bytes, Written(b, n, none), {})
  BY <1>4, <1>9, TidyMore
<1> QED BY <1>1, <1>10

LEMMA VlForms ==
  ASSUME Built, NEW b, Sound(b), Formed(b), NEW n \in Items, item[n].kind = "vl",
         NEW len \in item[n].low..item[n].high, NEW x \in Byte(Int),
         len = item[n].low \/ \A a \in Enclosing(n) : There(b, a)
  PROVE  Tidy(b, Over(b, lay.start[n],
                Padded(<<Header(item[n].code)>> \o Blob(len, x), ItemLen(item[n]))), {n})
<1> DEFINE i == item[n]
           head == <<Header(i.code)>> \o Blob(len, x)
           size == ItemLen(i)
           value == Padded(head, size)
           z == 0
           b2 == Over(b, lay.start[n] + z, value)
<1>1. /\ i \in Item /\ lay.start[n] \in Nat \ {0} /\ size \in Nat \ {0} /\ b \in Bytes(Int)
      /\ i.low \in Nat /\ i.high \in Nat
  BY EnclosureIs, CellIs, ItemIs DEF Sound
<1>2. i.code \in DOMAIN sti /\ len \in Nat /\ len <= i.high
  BY <1>1, ItemIs DEF Sti
<1>3. Len(head) <= size /\ head \in Seq(Byte(Int))
  <2>1. Blob(len, x) \in Seq(Byte(Int)) /\ Len(Blob(len, x)) = PrefixLen(len) + len
    <3> DEFINE Z == Int
    <3>1. x \in Byte(Z)
      OBVIOUS
    <3> HIDE DEF Z
    <3>2. Blob(len, x) \in Seq(Byte(Z)) /\ Len(Blob(len, x)) = SlotSize(len)
      BY <1>2, <3>1, BlobIs
    <3> QED BY <3>2 DEF SlotSize, Z
  <2>2. head \in Seq(Byte(Int)) /\ Len(head) = 1 + PrefixLen(len) + len
    <3> DEFINE Z == Int
               t == Blob(len, x)
    <3>1. t \in Seq(Byte(Z))
      BY <2>1
    <3> HIDE DEF Z, t
    <3>2. <<Header(i.code)>> \o t \in Seq(Byte(Z)) /\ Len(<<Header(i.code)>> \o t) = 1 + Len(t)
      BY <1>2, <3>1, HeadIs
    <3>3. PrefixLen(len) \in Nat
      BY <1>2, Slots
    <3> QED BY <1>2, <2>1, <3>2, <3>3 DEF Z, t
  <2>3. size = 1 + PrefixLen(i.high) + i.high
    BY <1>1, ItemSizes
  <2>4. PrefixLen(len) \in Nat /\ PrefixLen(i.high) \in Nat
    BY <1>1, <1>2, Slots
  <2>5. PrefixLen(len) <= PrefixLen(i.high)
    BY <1>1, <1>2, TemplateConstants DEF PrefixLen
  <2> HIDE DEF size, head
  <2> QED BY <1>1, <1>2, <2>2, <2>3, <2>4, <2>5
<1>4. value[1] = First(i) /\ VlOf(i, value, len)
  BY <1>1, <1>2, VlBytes
<1> HIDE DEF head, size
<1>5. value \in Seq(Byte(Int)) /\ Len(value) = size
  <2> DEFINE Z == Int
  <2>1. head \in Seq(Byte(Z))
    BY <1>3
  <2> HIDE DEF Z
  <2>2. Padded(head, size) \in Seq(Byte(Z)) /\ Len(Padded(head, size)) = size
    BY <1>1, <1>3, <2>1, PaddedIs
  <2> QED BY <2>2 DEF Z
<1> HIDE DEF value, i
<1>6. \A j \in 1..size : CellOf(b2, n)[j] = IF j \in (z + 1)..(z + Len(value)) THEN value[j - z] ELSE CellOf(b, n)[j]
  <2>1. z \in Nat /\ z + Len(value) <= ItemLen(item[n])
    BY <1>1, <1>5 DEF size, i
  <2> HIDE DEF z
  <2>2. \A j \in 1..ItemLen(item[n]) : CellOf(Over(b, lay.start[n] + z, value), n)[j]
           = IF j \in (z + 1)..(z + Len(value)) THEN value[j - z] ELSE CellOf(b, n)[j]
    <3>1. b \in Bytes(Int) /\ value \in Seq(Byte(Int))
      BY <1>1, <1>5
    <3> QED BY ONLY Built, n \in Items, <2>1, <3>1, OverCell
  <2> QED BY <2>2 DEF size, i
<1>7. \A j \in 1..size : CellOf(b2, n)[j] = value[j]
  BY <1>1, <1>5, <1>6
<1>8. \A m \in Items \ {n} : Same(b, b2, m)
  <2> DEFINE at == lay.start[n] + z
  <2>1. at \in Int /\ lay.start[n] <= at /\ at + Len(value) <= lay.start[n] + ItemLen(item[n])
    BY <1>1, <1>5 DEF size, i
  <2> HIDE DEF at
  <2>2. \A m \in Items \ {n} : Same(b, Over(b, at, value), m)
    BY <1>1, <1>5, <2>1, OverStays
  <2> QED BY <2>2 DEF at
<1>9. \A a \in Enclosing(n) : There(b2, a) <=> There(b, a)
  <2>1. \A a \in Enclosing(n) : a \in Items \ {n}
    BY EnclosureIs
  <2> QED BY <1>8, <2>1, CellSame
<1>10. lay.start[n] + z = lay.start[n]
  BY <1>1
<1> HIDE DEF b2, z
<1> DEFINE s == CellOf(b2, n)
<1>11. Shape(i, s) /\ VlOf(i, s, len)
  <2>1. VlOf(i, s, len)
    <3>1. i.kind # "details" /\ i.kind = "vl" /\ \A j \in 1..ItemLen(i) : s[j] = value[j]
      BY <1>7 DEF i, size
    <3> HIDE DEF s
    <3> QED BY <1>1, <1>2, <1>4, <3>1, ShapeSame
  <2>2. s[1] = First(i)
    BY <1>1, <1>4, <1>7
  <2>3. len \in i.low..i.high
    BY DEF i
  <2>4. i.kind = "vl"
    BY DEF i
  <2> HIDE DEF s
  <2> QED BY <2>1, <2>2, <2>3, <2>4 DEF Shape
<1>12. FormedAt(b2, n)
  BY <1>9, <1>11 DEF FormedAt, i
<1>13. item[n].kind \notin Containers
  BY DEF Containers
<1>14. Tidy(b, b2, {n})
  BY <1>8, <1>12, <1>13, LeafForms
<1> QED BY <1>10, <1>14 DEF b2, value, head, size, i

LEMMA FillForms ==
  ASSUME Built, Sound(bytes), Formed(bytes), NEW n \in Items, NEW len, NEW v \in Inputs,
         Fill(n, len, v)
  PROVE  Tidy(bytes, bytes', {n}) /\ item[n].kind = "vl"
<1> DEFINE b == Opened(n)
           x == <<"value", v>>
<1>1. Sound(b) /\ Tidy(bytes, b, {}) /\ Formed(b) /\ \A a \in Enclosing(n) : There(b, a)
  BY OpenedGrows, OpenedForms DEF Tidy
<1>2. x \in Byte(Int)
  BY TemplateConstants, ByteIs DEF Plain
<1>3. CASE bytes' = b
  BY <1>1, <1>3 DEF Tidy, Fill
<1>4. CASE bytes' = bytes
  BY <1>4 DEF Tidy, Same, Fill
<1>5. CASE /\ len \in item[n].low..item[n].high
           /\ bytes' = Over(Opened(n), lay.start[n],
                Padded(<<Header(item[n].code)>> \o Blob(len, x), ItemLen(item[n])))
  <2> HIDE DEF x
  <2>1. item[n].kind = "vl"
    BY DEF Fill
  <2>2. bytes' = Over(b, lay.start[n],
                   Padded(<<Header(item[n].code)>> \o Blob(len, x), ItemLen(item[n])))
    BY <1>5
  <2> HIDE DEF b
  <2>3. Tidy(b, bytes', {n})
    BY <1>1, <1>2, <1>5, <2>1, <2>2, VlForms
  <2> QED BY <1>1, <2>1, <2>3, TidyMore
<1> QED BY <1>3, <1>4, <1>5 DEF Fill, Edit

LEMMA ResetForms ==
  ASSUME Built, Sound(bytes), Formed(bytes), NEW n \in Items, Reset(n)
  PROVE  Tidy(bytes, bytes', {n}) /\ item[n].kind = "vl"
<1> DEFINE b == Reached(n)
           len == item[n].low
<1>1. item[n] \in Item /\ Typed(item) /\ DOMAIN item = Items
  BY EnclosureIs, BuiltIs DEF Compiles, Items
<1>2. item[n].kind = "vl" /\ len \in Nat /\ item[n].high \in Nat
  BY <1>1, ItemIs DEF Reset
<1>3. len \in item[n].low..item[n].high
  BY <1>1, <1>2 DEF Typed
<1>4. Zero \in Byte(Int)
  BY ByteIs
<1>5. bytes' = Over(b, lay.start[n],
                 Padded(<<Header(item[n].code)>> \o Blob(len, Zero), ItemLen(item[n])))
  BY DEF Reset, Edit
<1>6. Sound(b) /\ Tidy(bytes, b, {}) /\ Formed(b)
  BY OpenedGrows, OpenedForms DEF Tidy
<1>7. len = item[n].low
  OBVIOUS
<1> HIDE DEF b, len
<1>8. Tidy(b, bytes', {n})
  BY <1>2, <1>3, <1>4, <1>5, <1>6, <1>7, VlForms
<1> QED BY <1>2, <1>6, <1>8, TidyMore

-----------------------------------------------------------------------------
(* Clearing and enabling.                                                   *)

(* What is cleared goes altogether.                                         *)
LEMMA WithoutForms ==
  ASSUME Built, NEW b, Sound(b), Formed(b), NEW gap, Voids(gap)
  PROVE  Tidy(b, Without(b, gap), {})
<1> DEFINE b2 == Without(b, gap)
<1>1. \A n \in Items : lay.start[n] \in Cell(n) /\ Cell(n) \subseteq DOMAIN b
  BY CellIs DEF Bytes, Sound
<1>2. \A k \in DOMAIN b : b2[k] = IF k \in gap THEN Nop ELSE b[k]
  BY DEF Without
<1> HIDE DEF b2
<1>3. \A n \in Items : There(b2, n) <=> There(b, n) /\ lay.start[n] \notin gap
  BY <1>1, <1>2 DEF There
<1>4. \A n \in Items : Enclosing(n) \subseteq Items
  BY EnclosureIs
<1>5. \A n \in Items : lay.start[n] \notin gap => Same(b, b2, n)
  BY <1>1, <1>2 DEF Voids, Same
<1>6. ASSUME NEW n \in Items, item[n].kind # "details" PROVE FormedAt(b2, n)
  <2>1. CASE lay.start[n] \in gap
    BY <1>3, <2>1 DEF FormedAt
  <2>2. CASE lay.start[n] \notin gap
    <3>1. \A c \in Enclosing(n) : There(b, c) => There(b2, c)
      BY <1>3, <1>4, <2>2 DEF Voids
    <3>2. FormedAt(b, n)
      BY <1>6 DEF Formed
    <3> QED BY <1>5, <2>2, <3>1, <3>2, FormedKept
  <2> QED BY <2>1, <2>2
<1>7. ASSUME NEW n \in Items, Bare(n) PROVE Same(b, b2, n)
  <2>1. lay.start[n] \notin gap
    BY <1>7 DEF Bare, Voids
  <2> QED BY <1>5, <2>1
<1> QED BY <1>6, <1>7 DEF Tidy, Formed, b2

LEMMA ClearForms ==
  ASSUME Built, Sound(bytes), Formed(bytes), NEW n \in Items, Clear(n)
  PROVE  Tidy(bytes, bytes', {})
<1>1. n \in DOMAIN lay.gap /\ bytes' = Without(Reached(n), lay.gap[n])
  BY DEF Clear, Edit
<1> DEFINE b == Reached(n)
<1>2. Sound(b) /\ Tidy(bytes, b, {}) /\ Formed(b)
  BY OpenedGrows, OpenedForms DEF Tidy
<1> HIDE DEF b
<1>3. Tidy(b, Without(b, lay.gap[n]), {})
  BY <1>1, <1>2, GapVoids, WithoutForms
<1> QED BY <1>1, <1>2, <1>3, TidyOn DEF b

LEMMA ClearOptionalsForms ==
  ASSUME Built, Sound(bytes), Formed(bytes), NEW o, ClearOptionals(o)
  PROVE  Tidy(bytes, bytes', {})
<1> DEFINE gaps == {lay.gap[n] : n \in lay.owned[o]}
           b == IF o = 0 THEN bytes ELSE Reached(o)
<1>1. o \in DOMAIN lay.owned /\ bytes' = Without(b, UNION gaps)
  BY DEF ClearOptionals, Edit
<1>2. (o = 0 \/ o \in Items) /\ lay.owned[o] \subseteq DOMAIN lay.gap
  BY <1>1, BuiltIs
<1>3. \A gap \in gaps : Voids(gap)
  BY <1>2, GapVoids
<1>4. Sound(b) /\ Tidy(bytes, b, {}) /\ Formed(b)
  <2>1. Tidy(bytes, bytes, {})
    BY DEF Tidy, Same
  <2> QED BY <1>2, <2>1, OpenedGrows, OpenedForms DEF Tidy
<1> HIDE DEF gaps, b
<1>5. Tidy(b, Without(b, UNION gaps), {})
  BY <1>3, <1>4, VoidsJoin, WithoutForms
<1> QED BY <1>1, <1>4, <1>5, TidyOn

(* An element that is enabled anew is at its defaults.                      *)
LEMMA DefaultsForm ==
  ASSUME Built, NEW b, Formed(b), NEW c \in DOMAIN lay.slot,
         NEW b2, \A n \in Items \ Covered(c) : Same(b, b2, n),
         \A n \in Covered(c) : AtDefault(b2, c, n)
  PROVE  Tidy(b, b2, {})
<1>1. c \in Items /\ item[c].optional
  BY SlotIs
<1>2. \A n \in Items \ Covered(c) : Enclosing(n) \cap Covered(c) = {}
  BY <1>1, CoveredClosed
<1>3. \A n \in Items : Enclosing(n) \subseteq Items
  BY EnclosureIs
<1>4. ASSUME NEW n \in Items, Bare(n) PROVE Same(b, b2, n)
  <2>1. n \notin Covered(c)
    BY <1>1, <1>4 DEF Bare, Covered
  <2> QED BY <2>1
<1>5. ASSUME NEW n \in Items, item[n].kind # "details", n \notin Covered(c)
      PROVE  FormedAt(b2, n)
  <2>1. \A a \in Enclosing(n) : There(b, a) => There(b2, a)
    BY <1>2, <1>3, <1>5, CellSame
  <2>2. FormedAt(b, n)
    BY <1>5 DEF Formed
  <2> QED BY <1>5, <2>1, <2>2, FormedKept
<1>6. ASSUME NEW n \in Items, n \in Covered(c) PROVE FormedAt(b2, n)
  <2> DEFINE i == item[n]
             s == CellOf(b2, n)
             t == SlotCell(c, n)
  <2>1. /\ \A j \in 1..ItemLen(i) : lay.start[n] + j - 1 \in Cell(n)
        /\ lay.start[n] \in Cell(n) /\ i \in Item /\ i.low \in Nat
    BY CellBytes, CellIs, EnclosureIs, ItemIs
  <2>2. AtDefault(b2, c, n)
    BY <1>6
  <2>3. CASE Plainly(c, n)
    <3>1. InForm(i, t) /\ i.kind # "details"
      BY <1>6, <2>3, SlotForm
    <3>2. \A j \in 1..ItemLen(i) : s[j] = t[j]
      BY <2>1, <2>2 DEF AtDefault, CellOf, SlotCell
    <3> HIDE DEF s, t
    <3>3. Shape(i, t) => Shape(i, s)
      BY <2>1, <3>1, <3>2, ShapeSame
    <3>4. \A len \in Nat : VlOf(i, t, len) /\ i.kind = "vl" => VlOf(i, s, len)
      BY <2>1, <3>1, <3>2, ShapeSame
    <3>5. InForm(i, s)
      BY <2>1, <3>1, <3>3, <3>4 DEF InForm
    <3> QED BY <3>5 DEF s, FormedAt, InForm
  <2>4. CASE ~Plainly(c, n)
    <3>1. \A k \in Cell(n) : SlotByte(c, k) = Nop
      BY <1>6, <2>4, SlotIs
    <3>2. ~There(b2, n)
      BY <2>1, <2>2, <3>1 DEF AtDefault, There
    <3> QED BY <3>2 DEF FormedAt
  <2> QED BY <2>3, <2>4
<1> QED BY <1>4, <1>5, <1>6 DEF Tidy, Formed

LEMMA EnableForms ==
  ASSUME Built, Sound(bytes), Formed(bytes), NEW n \in Items, Enable(n)
  PROVE  Tidy(bytes, bytes', {})
<1>1. n \in DOMAIN lay.slot
  BY DEF Enable
<1>2. CASE n \in DOMAIN lay.owned
  <2> DEFINE b == Reached(n)
  <2>1. /\ \A m \in Items \ Covered(n) : Same(b, bytes', m)
        /\ \A m \in Covered(n) : AtDefault(bytes', n, m)
    BY <1>1, <1>2, ElementSet
  <2>2. Tidy(bytes, b, {}) /\ Formed(b)
    BY OpenedForms DEF Tidy
  <2> HIDE DEF b
  <2>3. Tidy(b, bytes', {})
    BY <1>1, <2>1, <2>2, DefaultsForm
  <2> QED BY <2>2, <2>3, TidyOn
<1>3. CASE n \notin DOMAIN lay.owned
  <2> DEFINE b == Opened(n)
  <2>1. bytes' = Materialize(b, n)
    BY <1>3 DEF Enable, Edit
  <2>2. Sound(b) /\ Tidy(bytes, b, {}) /\ Formed(b) /\ \A a \in Enclosing(n) : There(b, a)
    BY OpenedGrows, OpenedForms DEF Tidy
  <2> HIDE DEF b
  <2>3. CASE There(b, n)
    <3>1. bytes' = b
      BY <2>1, <2>3 DEF Materialize, There
    <3> QED BY <2>2, <3>1
  <2>4. CASE ~There(b, n)
    <3>1. bytes' = Blit(b, n)
      BY <2>1, <2>4 DEF Materialize, There
    <3>2. Tidy(b, bytes', {})
      BY <1>1, <2>2, <2>4, <3>1, BlitForms
    <3> QED BY <2>2, <3>2, TidyOn
  <2> QED BY <2>3, <2>4
<1> QED BY <1>2, <1>3

LEMMA IndexForms ==
  ASSUME Built, Sound(bytes), Formed(bytes), NEW n \in Items, Index(n)
  PROVE  Tidy(bytes, bytes', {})
BY OpenedForms DEF Index, Edit

-----------------------------------------------------------------------------
(* prepare_for_emit.                                                        *)

(* The items that prepare_for_emit writes.                                  *)
LEMMA PlumbItem ==
  ASSUME Built, NEW f \in Plumbing
  PROVE  LET n == lay.plumb[f]
         IN  /\ n \in Items /\ item[n] \in Item /\ item[n].code = f
             /\ item[n].kind = RequiredKind[f] /\ Bare(n)
             /\ item[n].kind \in {"scalar", "native", "fixed", "empty"}
             /\ f # sfSigningPubKey => item[n].kind # "empty"
<1> DEFINE n == lay.plumb[f]
           S == Finds(item, f)
           N == Len(item)
<1>1. n = Min(S) /\ Equipped(item) /\ Items = 1..N /\ N \in Nat
  BY BuiltIs DEF Compiles
<1>2. S # {} /\ item[n].kind = RequiredKind[f] /\ ~item[n].optional
  BY <1>1 DEF Equipped
<1>3. S \in SUBSET (1..N) /\ \A m \in S : item[m].code = f /\ Nesting(item)[m] = <<>>
  BY <1>1 DEF Finds, Items
<1> HIDE DEF S, n
<1>4. n \in S
  <2>1. S \subseteq Nat
    BY <1>1, <1>3
  <2> QED BY <1>1, <1>2, <2>1, MinIsLeast
<1>5. n \in Items /\ item[n] \in Item /\ Nesting(item)[n] = <<>>
  BY <1>1, <1>3, <1>4, EnclosureIs
<1>6. Enclosing(n) = {}
  <2>1. Enclosing(n) = Above(item, n)
    BY <1>5, EnclosureIs
  <2> QED BY <1>5, <2>1 DEF Above, Range
<1>7. item[n].kind \in {"scalar", "native", "fixed", "empty"}
  BY <1>2 DEF RequiredKind
<1>8. f # sfSigningPubKey => item[n].kind # "empty"
  BY <1>2 DEF RequiredKind
<1> QED BY <1>2, <1>3, <1>4, <1>5, <1>6, <1>7, <1>8 DEF Bare, n

LEMMA StampForms ==
  ASSUME Built, nonces \in Nat, NEW b, Sound(b), Formed(b)
  PROVE  /\ Tidy(b, Stamp(b), {Len(item)})
         /\ Sound(Stamp(b))
<1> DEFINE n == Len(item)
           at == lay.start[n]
           x == <<"details", nonces + 1>>
           s == Repeat(DetailsLen, x)
           b2 == Over(b, at, s)
<1>1. Stamp(b) = b2
  BY DEF Stamp, DetailsAt
<1>2. n \in Items /\ item[n].kind = "details"
  <2>1. Items = 1..Len(item) /\ Len(item) \in Nat /\ Len(item) > 0
    BY BuiltIs
  <2>2. n \in Items
    BY <2>1
  <2> QED BY <2>2, EnclosureIs
<1>3. DetailsLen \in Nat /\ DetailsLen <= DetailsMaxLen
  BY Constants
<1>4. s \in Seq(Byte(Int)) /\ Len(s) = DetailsLen
  <2>1. nonces + 1 \in Int
    OBVIOUS
  <2>2. x \in Byte(Int)
    BY <2>1, ByteIs
  <2> HIDE DEF x
  <2> QED BY <1>3, <2>2, RepeatIs
<1>5. at \in Nat /\ ItemLen(item[n]) = DetailsMaxLen
  BY <1>2, CellIs DEF ItemLen, Containers, Ends
<1> HIDE DEF s, n
<1>6. \A m \in Items \ {n} : Same(b, b2, m)
  <2>1. /\ at \in Int /\ lay.start[n] <= at /\ b \in Bytes(Int)
        /\ at + Len(s) <= lay.start[n] + ItemLen(item[n])
    <3>1. b \in Bytes(Int)
      BY DEF Sound
    <3>2. Len(s) <= ItemLen(item[n]) /\ Len(s) \in Nat /\ ItemLen(item[n]) \in Nat
      BY <1>3, <1>4, <1>5, Constants
    <3> QED BY <1>5, <3>1, <3>2
  <2>2. at = lay.start[n]
    OBVIOUS
  <2> HIDE DEF at
  <2> QED BY <1>2, <1>4, <2>1, OverStays
<1> HIDE DEF b2
<1>7. Tidy(b, b2, {n})
  BY <1>2, <1>6, LeafForms DEF Containers
<1>8. Sound(b2)
  <2>1. Filled(b, Stamp(b))
    BY StampFills
  <2> QED BY <1>1, <2>1 DEF Filled
<1> QED BY <1>1, <1>7, <1>8 DEF n

LEMMA PatchedIs ==
  Patched \subseteq Plumbing /\ sfSigningPubKey \notin Patched
BY SixFields DEF Patched, Plumbing, Presence

(* A required field is patched as its setter writes it.                     *)
LEMMA PatchForms ==
  ASSUME Built, NEW b, Sound(b), Formed(b), NEW f \in Patched, NEW fee, Patch(f, fee) \in Int
  PROVE  /\ Tidy(b, Patching(b, f, fee), {lay.plumb[f]})
         /\ Sound(Patching(b, f, fee))
<1> DEFINE n == lay.plumb[f]
           v == Patch(f, fee)
           payload == Payload(item[n], v)
<1>1. f \in Plumbing /\ f # sfSigningPubKey
  BY PatchedIs
<1>2. /\ n \in Items /\ item[n] \in Item /\ Bare(n)
      /\ item[n].kind \in {"scalar", "native", "fixed"}
  BY <1>1, PlumbItem
<1>3. Patching(b, f, fee) = Written(b, n, payload)
  BY <1>2 DEF Patching, Written, Bare
<1>4. payload \in Seq(Byte(Int)) /\ Len(Opening(item[n])) + Len(payload) <= ItemLen(item[n])
  BY <1>2, PayloadSize
<1>5. Telling(item[n], payload)
  <2>1. CASE item[n].kind # "native"
    BY <1>2, <2>1 DEF Telling
  <2>2. CASE item[n].kind = "native"
    <3>1. payload = [k \in 1..NativeLen |-> <<"native", v>>]
      BY <2>2 DEF Payload, Native, Repeat
    <3>2. 1 \in 1..NativeLen
      BY TemplateConstants
    <3>3. payload[1] = <<"native", v>>
      BY <3>1, <3>2
    <3>4. payload[1][1] = "native"
      BY <3>3
    <3> HIDE DEF payload
    <3> QED BY <2>2, <3>4 DEF Telling
  <2> QED BY <2>1, <2>2
<1>6. \A a \in Enclosing(n) : There(b, a)
  BY <1>2 DEF Bare
<1>7. item[n].kind \in {"scalar", "native", "issued", "any", "fixed", "empty"}
  BY <1>2
<1>8. Sound(Patching(b, f, fee))
  <2>1. Filled(b, Patching(b, f, fee))
    BY PatchFills
  <2> QED BY <2>1 DEF Filled
<1> HIDE DEF n, payload
<1>9. Tidy(b, Written(b, n, payload), {n})
  BY <1>2, <1>4, <1>5, <1>6, <1>7, WrittenForms
<1> QED BY <1>3, <1>8, <1>9 DEF n

LEMMA Patches ==
  ASSUME Built
  PROVE  /\ Patch(sfFirstLedgerSequence, 0) \in Int /\ Patch(sfLastLedgerSequence, 0) \in Int
         /\ Patch(sfAccount, 0) \in Int /\ Patch(sfFee, FeeBase(PreparedLen)) \in Int
         /\ sfFirstLedgerSequence \in Patched /\ sfLastLedgerSequence \in Patched
         /\ sfAccount \in Patched /\ sfFee \in Patched
<1>1. PreparedLen \in Nat
  <2>1. Shaped(lay)
    BY BuiltIs
  <2>2. DetailsAt \in Nat \ {0}
    BY <2>1 DEF DetailsAt, Shaped, item
  <2> QED BY <2>2, Constants DEF PreparedLen
<1>2. LedgerSeq \in Nat /\ HookAccount \in Int /\ FeeBase(PreparedLen) \in Int
  BY <1>1, Constants DEF FeeBase
<1>3. /\ sfFirstLedgerSequence \in Patched /\ sfLastLedgerSequence \in Patched
      /\ sfAccount \in Patched /\ sfFee \in Patched
  BY DEF Patched
<1> QED BY <1>2, <1>3, SixFields DEF Patch

LEMMA PrepareForms ==
  ASSUME Built, Sound(bytes), Formed(bytes), nonces \in Nat, NEW fails, Prepare(fails)
  PROVE  Formed(bytes')
<1> DEFINE first == Patching(bytes, sfFirstLedgerSequence, 0)
           ledger == Patching(first, sfLastLedgerSequence, 0)
           own == Patching(ledger, sfAccount, 0)
           stamped == Stamp(own)
           last == Patching(stamped, sfFee, FeeBase(PreparedLen))
<1>1. \/ bytes' = ledger \/ bytes' = own \/ bytes' = stamped \/ bytes' = last
  BY Zenon DEF Prepare
<1>2. Sound(first) /\ Formed(first)
  BY Patches, PatchForms DEF Tidy
<1> HIDE DEF first
<1>3. Sound(ledger) /\ Formed(ledger)
  BY <1>2, Patches, PatchForms DEF Tidy
<1> HIDE DEF ledger
<1>4. Sound(own) /\ Formed(own)
  BY <1>3, Patches, PatchForms DEF Tidy
<1> HIDE DEF own
<1>5. Sound(stamped) /\ Formed(stamped)
  BY <1>4, StampForms DEF Tidy
<1> HIDE DEF stamped
<1>6. Formed(last)
  BY <1>5, Patches, PatchForms DEF Tidy
<1> QED BY <1>1, <1>3, <1>4, <1>5, <1>6

(* Whatever the call, what is there has its shape.                          *)
LEMMA TemplateForms ==
  ASSUME Built, Sound(bytes), Formed(bytes), nonces \in Nat, TemplateNext
  PROVE  Formed(bytes')
<1>1. ASSUME NEW n \in Items, NEW payload \in (IF Settable(n) THEN Payloads(item[n]) ELSE {}),
             Set(n, payload)
      PROVE  Formed(bytes')
  <2>1. payload \in Payloads(item[n])
    OBVIOUS
  <2> QED BY <1>1, <2>1, SetForms DEF Tidy
<1>2. ASSUME NEW n \in Items, NEW len, NEW v \in Inputs, Fill(n, len, v)
      PROVE  Formed(bytes')
  BY <1>2, FillForms DEF Tidy
<1>3. ASSUME NEW n \in Items, Refuse(n) \/ Reset(n) \/ Clear(n) \/ Enable(n) \/ Index(n)
      PROVE  Formed(bytes')
  BY <1>3, RefuseForms, ResetForms, ClearForms, EnableForms, IndexForms DEF Tidy
<1>4. ASSUME NEW o, ClearOptionals(o) PROVE Formed(bytes')
  BY <1>4, ClearOptionalsForms DEF Tidy
<1>5. CASE FillDetails
  BY <1>5, StampForms DEF FillDetails, Tidy
<1>6. ASSUME NEW fails \in Failures, Prepare(fails) PROVE Formed(bytes')
  BY <1>6, PrepareForms
<1> QED BY <1>1, <1>2, <1>3, <1>4, <1>5, <1>6 DEF TemplateNext

-----------------------------------------------------------------------------
(* The NOPs that a container may hold.                                      *)

(* The NOPs of a container.                                                 *)

(* The bytes of item m that may be NOPs of the container around it, and     *)
(* those bytes of container c; 0 is the top level.                          *)
Slack(m) ==
  IF item[m].optional THEN lay.start[m]..(lay.start[lay.close[m] + 1] - 1)
  ELSE (lay.start[m + 1] - Charge(item, m))..(lay.start[m + 1] - 1)
Inner(n) == IF lay.within[n] = <<>> THEN 0 ELSE Last(lay.within[n])
Direct(c) == {m \in Items : item[m].kind \notin Ends /\ Inner(m) = c}
Blank(c) == UNION {Slack(m) : m \in Direct(c)}

LEMMA SpanCovered ==
  ASSUME Built, NEW m \in Items
  PROVE  Span(item, m) = Covered(m) /\ IsFiniteSet(Covered(m)) /\ Covered(m) \subseteq Items
<1>1. /\ item \in Seq(Item) /\ Grammatical(item) /\ Items = 1..Len(item) /\ Len(item) \in Nat
      /\ lay.close = [n \in Items |-> Max(Span(item, n))]
  BY BuiltIs DEF Compiles
<1>2. m \in 1..Len(item) /\ lay.close[m] = Max(Span(item, m))
  BY <1>1
<1>3. Span(item, m) = m..lay.close[m]
  BY <1>1, <1>2, SpanIs
<1>4. Covered(m) = m..lay.close[m] /\ lay.close[m] \in m..Len(item)
  BY CoveredIs
<1>5. IsFiniteSet(m..lay.close[m])
  BY <1>1, <1>2, <1>4, FS_Interval
<1> QED BY <1>3, <1>4, <1>5 DEF Covered

(* check_nop_budget counts no fewer.                                        *)
LEMMA SlackSize ==
  ASSUME Built, NEW m \in Items
  PROVE  /\ Charge(item, m) \in Nat
         /\ IsFiniteSet(Slack(m)) /\ Cardinality(Slack(m)) <= Charge(item, m)
<1>1. /\ lay.start[m] \in Nat \ {0} /\ ItemLen(item[m]) \in Nat \ {0} /\ item[m] \in Item
      /\ lay.start[m + 1] = lay.start[m] + ItemLen(item[m])
  BY CellIs, EnclosureIs
<1>2. CASE item[m].optional
  <2> DEFINE f == [x \in DOMAIN item |-> ItemLen(item[x])]
             S == Span(item, m)
             piece == [x \in Items |-> Cell(x)]
  <2>1. S = Covered(m) /\ IsFiniteSet(S) /\ S \subseteq Items
    BY SpanCovered
  <2>2. ASSUME NEW x \in S
        PROVE  f[x] \in Nat /\ IsFiniteSet(piece[x]) /\ Cardinality(piece[x]) <= f[x]
    <3>1. x \in Items
      BY <2>1
    <3>2. /\ lay.start[x] \in Nat \ {0} /\ ItemLen(item[x]) \in Nat \ {0}
          /\ lay.start[x + 1] = lay.start[x] + ItemLen(item[x])
      BY <3>1, CellIs
    <3>3. f[x] = ItemLen(item[x]) /\ piece[x] = lay.start[x]..(lay.start[x + 1] - 1)
      BY <3>1 DEF Cell, Items
    <3> DEFINE p == lay.start[x]
               q == lay.start[x + 1] - 1
    <3>4. p \in Int /\ q \in Int /\ p <= q /\ q - p + 1 = ItemLen(item[x])
      BY <3>2
    <3> HIDE DEF p, q
    <3>5. IsFiniteSet(p..q) /\ Cardinality(p..q) = q - p + 1
      BY <3>4, FS_Interval
    <3> QED BY <3>2, <3>3, <3>4, <3>5 DEF p, q
  <2>3. Charge(item, m) = SumFunctionOnSet(f, S)
    BY <1>2 DEF Charge
  <2>4. Slack(m) = UNION {piece[x] : x \in S}
    <3>1. Slack(m) = lay.start[m]..(lay.start[lay.close[m] + 1] - 1)
      BY <1>2 DEF Slack
    <3>2. \A k : k \in Slack(m) <=> \E x \in Covered(m) : k \in Cell(x)
      BY <3>1, CoveredIs
    <3>3. \A x \in Covered(m) : piece[x] = Cell(x)
      BY <2>1
    <3> QED BY <2>1, <3>2, <3>3
  <2> HIDE DEF f, S, piece
  <2>5. /\ SumFunctionOnSet(f, S) \in Nat
        /\ IsFiniteSet(UNION {piece[x] : x \in S})
        /\ Cardinality(UNION {piece[x] : x \in S}) <= SumFunctionOnSet(f, S)
    <3>1. IsFiniteSet(S)
      BY <2>1
    <3> QED BY ONLY <2>2, <3>1, SumCovers
  <2> QED BY <2>3, <2>4, <2>5
<1>3. CASE ~item[m].optional
  <2> DEFINE c == Charge(item, m)
             q == lay.start[m + 1]
  <2>1. c \in Nat
    <3>1. CASE item[m].kind = "any"
      <4>1. c = IssuedLen - NativeLen
        BY <1>3, <3>1 DEF Charge
      <4> QED BY <4>1, TemplateConstants
    <3>2. CASE item[m].kind = "vl"
      <4>1. c = SlotSize(item[m].high) - SlotSize(item[m].low)
        BY <1>3, <3>2 DEF Charge
      <4>2. item[m].low \in Nat /\ item[m].high \in Nat /\ item[m].low <= item[m].high
        BY <1>1, <3>2, BuiltIs, ItemIs DEF Compiles, Typed, Items
      <4> DEFINE low == item[m].low
                 high == item[m].high
      <4> HIDE DEF low, high
      <4>3. SlotSize(high) - SlotSize(low) \in Nat
        BY <4>2, TemplateConstants DEF SlotSize, PrefixLen, low, high
      <4> QED BY <4>1, <4>3 DEF low, high
    <3>3. CASE item[m].kind \notin {"any", "vl"}
      <4>1. c = 0
        BY <1>3, <3>3 DEF Charge
      <4> QED BY <4>1
    <3> QED BY <3>1, <3>2, <3>3
  <2>2. Slack(m) = (q - c)..(q - 1) /\ q \in Int
    BY <1>1, <1>3 DEF Slack
  <2> DEFINE a == q - c
             z == q - 1
  <2>3. a \in Int /\ z \in Int /\ z - a + 1 = c /\ (a > z => c = 0)
    BY <2>1, <2>2
  <2> HIDE DEF c, a, z
  <2>4. IsFiniteSet(a..z) /\ Cardinality(a..z) = IF a > z THEN 0 ELSE z - a + 1
    BY <2>3, FS_Interval
  <2>5. Slack(m) = a..z
    BY <2>2 DEF a, z
  <2> QED BY <2>1, <2>3, <2>4, <2>5 DEF c
<1> QED BY <1>2, <1>3

LEMMA BlankIs ==
  ASSUME Built, NEW c, c = 0 \/ (c \in Items /\ item[c].kind \in Containers)
  PROVE  IsFiniteSet(Blank(c)) /\ Cardinality(Blank(c)) <= MaxNops /\ MaxNops \in Nat
<1> DEFINE f == [n \in DOMAIN item |-> Charge(item, n)]
           S == Direct(c)
           piece == [x \in Items |-> Slack(x)]
<1>1. /\ Budgeted(item) /\ Items = 1..Len(item) /\ Len(item) \in Nat
      /\ lay.within = [n \in Items |-> Nesting(item)[n]]
  BY BuiltIs DEF Compiles
<1>2. IsFiniteSet(S) /\ S \subseteq Items
  <2>1. IsFiniteSet(Items)
    BY <1>1, FS_Interval
  <2>2. S \subseteq Items
    BY DEF Direct
  <2> QED BY <2>1, <2>2, FS_Subset
<1>3. ASSUME NEW x \in S
      PROVE  f[x] \in Nat /\ IsFiniteSet(piece[x]) /\ Cardinality(piece[x]) <= f[x]
  <2>1. x \in Items
    BY <1>2
  <2>2. f[x] = Charge(item, x) /\ piece[x] = Slack(x)
    BY <2>1 DEF Items
  <2> HIDE DEF f, piece
  <2> QED BY <2>1, <2>2, SlackSize
<1>4. Blank(c) = UNION {piece[x] : x \in S}
  BY DEF Blank, Direct
<1>5. MaxNops \in Nat
  BY TemplateAssumption DEF TemplateAssumption
<1>6. SumFunctionOnSet(f, S) <= MaxNops
  <2> DEFINE direct(e) == {n \in DOMAIN item : item[n].kind \notin Ends
                      /\ (IF Nesting(item)[n] = <<>> THEN 0 ELSE Last(Nesting(item)[n])) = e}
  <2>1. \A e \in {0} \cup {n \in DOMAIN item : item[n].kind \in Containers} :
           SumFunctionOnSet(f, direct(e)) <= MaxNops
    BY <1>1 DEF Budgeted
  <2>2. direct(c) = S
    BY <1>1 DEF Direct, Inner, Items
  <2>3. c \in {0} \cup {n \in DOMAIN item : item[n].kind \in Containers}
    BY DEF Items
  <2> HIDE DEF f, S, direct
  <2> QED BY <2>1, <2>2, <2>3
<1> HIDE DEF f, S, piece
<1>7. /\ SumFunctionOnSet(f, S) \in Nat
      /\ IsFiniteSet(UNION {piece[x] : x \in S})
      /\ Cardinality(UNION {piece[x] : x \in S}) <= SumFunctionOnSet(f, S)
  BY <1>2, <1>3, SumCovers
<1>8. Cardinality(Blank(c)) \in Nat
  BY <1>4, <1>7, FS_CardinalityType
<1> QED BY <1>4, <1>5, <1>6, <1>7, <1>8

-----------------------------------------------------------------------------
(* What the parser has open.                                                *)

(* What the parser has open.                                                *)

FrameRecord == [kind : {"object", "array"}, at : Nat, nops : Nat]
Frames == Seq(FrameRecord)

(* The frame of container c once k bytes are read: it has found no more     *)
(* NOPs than may be there.                                                  *)
Frame(fr, c, k) ==
  /\ fr.nops <= Cardinality(Blank(c) \cap 1..k)
  /\ IF c = 0 THEN fr.kind = "object" /\ fr.at = 0
     ELSE fr.kind = Sti[item[c].kind] /\ fr.at = lay.start[c]

(* Open are the top level and those containers of w that are there, which   *)
(* are the outermost.                                                       *)
Level(w, i) == IF i = 1 THEN 0 ELSE w[i - 1]
OpenAt(b, w, o, k) ==
  /\ o \in Frames /\ Len(o) \in 1..(Len(w) + 1)
  /\ \A i \in 1..Len(w) : There(b, w[i]) <=> i < Len(o)
  /\ \A i \in 1..Len(o) : Frame(o[i], Level(w, i), k)

LEMMA BoxIs ==
  ASSUME Built
  PROVE  /\ \A n \in Boxes(item) : n \in Items /\ n # 0 /\ item[n].kind \in Containers
         /\ \A n \in Items : item[n].kind \in Containers => n \in Boxes(item)
         /\ \A w \in Seq(Boxes(item)) : \A i \in 1..(Len(w) + 1) :
              Level(w, i) = 0 \/ (Level(w, i) \in Items /\ item[Level(w, i)].kind \in Containers)
<1>1. Items = 1..Len(item) /\ Len(item) \in Nat
  BY BuiltIs
<1>2. \A n \in Boxes(item) : n \in Items /\ n # 0 /\ item[n].kind \in Containers
  BY <1>1 DEF Boxes
<1>3. ASSUME NEW w \in Seq(Boxes(item)), NEW i \in 1..(Len(w) + 1), i # 1
      PROVE  w[i - 1] \in Boxes(item)
  <2>1. i - 1 \in 1..Len(w)
    BY <1>3
  <2> QED BY <2>1
<1> QED BY <1>1, <1>2, <1>3 DEF Boxes, Level

(* There is room for every NOP that may be there.                           *)
LEMMA BlankGrows ==
  ASSUME Built, NEW c, c = 0 \/ (c \in Items /\ item[c].kind \in Containers), NEW k \in Nat
  PROVE  LET before == Cardinality(Blank(c) \cap 1..k)
             after == Cardinality(Blank(c) \cap 1..(k + 1))
         IN  /\ before \in Nat /\ after \in Nat /\ before <= after
             /\ k + 1 \in Blank(c) => after = before + 1 /\ before < MaxNops
<1> DEFINE B == Blank(c)
           S == B \cap 1..k
           T == B \cap 1..(k + 1)
<1>1. IsFiniteSet(B) /\ Cardinality(B) <= MaxNops /\ MaxNops \in Nat
  BY BlankIs
<1> HIDE DEF B
<1>2. S \in SUBSET B /\ T \in SUBSET B /\ S \in SUBSET T
  OBVIOUS
<1>3. IsFiniteSet(S) /\ IsFiniteSet(T) /\ Cardinality(T) <= Cardinality(B)
  BY <1>1, <1>2, FS_Subset
<1>4. Cardinality(S) <= Cardinality(T)
  BY <1>2, <1>3, FS_Subset
<1>5. Cardinality(S) \in Nat /\ Cardinality(T) \in Nat /\ Cardinality(B) \in Nat
  BY <1>1, <1>3, FS_CardinalityType
<1>6. k + 1 \in B => T = S \cup {k + 1} /\ k + 1 \notin S
  OBVIOUS
<1> HIDE DEF S, T
<1>7. k + 1 \in B => Cardinality(T) = Cardinality(S) + 1
  BY <1>3, <1>6, FS_AddElement
<1>8. k + 1 \in B => Cardinality(S) < MaxNops
  BY <1>1, <1>3, <1>5, <1>7
<1> QED BY <1>4, <1>5, <1>7, <1>8 DEF S, T, B

LEMMA FrameOn ==
  ASSUME Built, NEW c, c = 0 \/ (c \in Items /\ item[c].kind \in Containers), NEW k \in Nat,
         NEW fr, fr.nops \in Nat, Frame(fr, c, k)
  PROVE  Frame(fr, c, k + 1)
<1> DEFINE before == Cardinality(Blank(c) \cap 1..k)
           after == Cardinality(Blank(c) \cap 1..(k + 1))
<1>1. before \in Nat /\ after \in Nat /\ before <= after
  BY BlankGrows
<1>2. fr.nops <= before
  BY DEF Frame
<1> HIDE DEF before, after
<1>3. fr.nops <= after
  BY <1>1, <1>2
<1> QED BY <1>3 DEF Frame, after

LEMMA OpenOn ==
  ASSUME Built, NEW b, NEW w \in Seq(Boxes(item)), NEW o, NEW k \in Nat, OpenAt(b, w, o, k)
  PROVE  OpenAt(b, w, o, k + 1)
<1>1. o \in Frames /\ Len(o) \in 1..(Len(w) + 1)
  BY DEF OpenAt
<1>2. ASSUME NEW i \in 1..Len(o) PROVE Frame(o[i], Level(w, i), k + 1)
  <2>1. Level(w, i) = 0 \/ (Level(w, i) \in Items /\ item[Level(w, i)].kind \in Containers)
    BY <1>1, BoxIs
  <2>2. o[i] \in FrameRecord
    BY <1>1 DEF Frames
  <2>4. o[i].nops \in Nat
    BY <2>2 DEF FrameRecord
  <2>3. Frame(o[i], Level(w, i), k)
    BY DEF OpenAt
  <2> QED BY <2>1, <2>3, <2>4, FrameOn
<1> QED BY <1>2 DEF OpenAt

(* A NOP is counted.                                                        *)
Counted(o) == [o EXCEPT ![Len(o)].nops = @ + 1]

LEMMA OpenNop ==
  ASSUME Built, NEW b, NEW w \in Seq(Boxes(item)), NEW o, NEW k \in Nat, OpenAt(b, w, o, k),
         k + 1 \in Blank(Level(w, Len(o)))
  PROVE  /\ Last(o).nops # MaxNops
         /\ OpenAt(b, w, Counted(o), k + 1)
<1> DEFINE p == Len(o)
           c == Level(w, p)
           o2 == [o EXCEPT ![p].nops = @ + 1]
           before == Cardinality(Blank(c) \cap 1..k)
           after == Cardinality(Blank(c) \cap 1..(k + 1))
<1>1. o \in Frames /\ p \in 1..(Len(w) + 1) /\ p \in Nat /\ p \in 1..p
  BY DEF OpenAt
<1>2. c = 0 \/ (c \in Items /\ item[c].kind \in Containers)
  BY <1>1, BoxIs
<1>3. before \in Nat /\ after = before + 1 /\ before < MaxNops /\ MaxNops \in Nat
  BY <1>2, BlankGrows, BlankIs
<1>4. o[p].nops \in Nat /\ o[p] \in FrameRecord
  <2>1. o[p] \in FrameRecord
    BY <1>1 DEF Frames
  <2> QED BY <2>1 DEF FrameRecord
<1>5. Frame(o[p], c, k) /\ o[p].nops <= before
  BY <1>1 DEF OpenAt, Frame
<1>6. Last(o).nops # MaxNops
  BY <1>3, <1>4, <1>5 DEF Last
<1>7. OpenAt(b, w, o, k + 1)
  BY OpenOn
<1> DEFINE fr == [o[p] EXCEPT !.nops = @ + 1]
<1>8. /\ fr \in FrameRecord
      /\ fr.kind = o[p].kind /\ fr.at = o[p].at /\ fr.nops = o[p].nops + 1
  BY <1>4 DEF FrameRecord
<1>9. o2 = [o EXCEPT ![p] = fr]
  OBVIOUS
<1> HIDE DEF fr
<1>10. o2 \in Frames /\ Len(o2) = p /\ o2[p] = fr /\ \A i \in 1..p : i # p => o2[i] = o[i]
  <2>1. o \in Seq(FrameRecord) /\ fr \in FrameRecord /\ p \in 1..Len(o)
    BY <1>1, <1>8 DEF Frames
  <2> HIDE DEF o2, p
  <2>2. /\ o2 \in Seq(FrameRecord) /\ Len(o2) = Len(o)
        /\ \A i \in 1..Len(o) : o2[i] = IF i = p THEN fr ELSE o[i]
    BY <1>9, <2>1, ExceptSeq
  <2> QED BY <2>1, <2>2 DEF p, Frames
<1>11. Frame(fr, c, k + 1)
  <2>1. fr.nops <= after
    BY <1>3, <1>4, <1>5, <1>8
  <2> HIDE DEF after, c
  <2> QED BY <1>5, <1>8, <2>1 DEF Frame, after
<1>12. \A i \in 1..Len(o2) : Frame(o2[i], Level(w, i), k + 1)
  BY <1>7, <1>10, <1>11 DEF OpenAt
<1> HIDE DEF o2
<1>13. OpenAt(b, w, o2, k + 1)
  BY <1>1, <1>7, <1>10, <1>12 DEF OpenAt
<1> QED BY <1>6, <1>13 DEF o2, Counted

(* A container that is not there is not opened, and not closed.             *)
LEMMA OpenDrop ==
  ASSUME NEW b, NEW B, NEW w \in Seq(B), w # <<>>, NEW o, NEW k, OpenAt(b, w, o, k),
         ~There(b, Last(w))
  PROVE  OpenAt(b, Front(w), o, k)
<1> DEFINE v == Front(w)
<1>1. Len(w) \in Nat \ {0} /\ Len(v) = Len(w) - 1 /\ \A i \in 1..Len(v) : v[i] = w[i]
  BY FrontIs
<1>2. Len(o) \in 1..(Len(v) + 1)
  <2>1. Len(w) \in 1..Len(w)
    BY <1>1
  <2>2. ~(Len(w) < Len(o))
    BY <2>1 DEF OpenAt, Last
  <2> QED BY <1>1, <2>2 DEF OpenAt
<1>3. \A i \in 1..Len(o) : Level(v, i) = Level(w, i)
  BY <1>1, <1>2 DEF Level
<1> HIDE DEF v
<1> QED BY <1>1, <1>2, <1>3 DEF OpenAt, v

LEMMA OpenMore ==
  ASSUME NEW b, NEW B, NEW w \in Seq(B), NEW n \in B, NEW o, NEW k, OpenAt(b, w, o, k),
         ~There(b, n)
  PROVE  OpenAt(b, Append(w, n), o, k)
<1> DEFINE v == Append(w, n)
<1>1. /\ Len(w) \in Nat /\ Len(v) = Len(w) + 1 /\ v[Len(w) + 1] = n
      /\ \A i \in 1..Len(w) : v[i] = w[i]
  OBVIOUS
<1>2. Len(o) \in 1..(Len(w) + 1) /\ Len(o) \in Nat
  BY DEF OpenAt
<1>3. \A i \in 1..Len(o) : Level(v, i) = Level(w, i)
  BY <1>1, <1>2 DEF Level
<1> HIDE DEF v
<1>4. \A i \in 1..Len(v) : There(b, v[i]) <=> i < Len(o)
  <2>1. \A i \in 1..Len(v) : i \in 1..Len(w) \/ i = Len(w) + 1
    BY <1>1
  <2> QED BY <1>1, <1>2, <2>1 DEF OpenAt
<1> QED BY <1>1, <1>2, <1>3, <1>4 DEF OpenAt, v

(* One that is there is.                                                    *)
LEMMA OpenPop ==
  ASSUME NEW b, NEW w \in Seq(Boxes(item)), w # <<>>, NEW o, NEW k, OpenAt(b, w, o, k),
         There(b, Last(w)), 0 \notin Boxes(item)
  PROVE  /\ Len(o) = Len(w) + 1 /\ Len(o) > 1 /\ Last(o).kind = Sti[item[Last(w)].kind]
         /\ OpenAt(b, Front(w), Front(o), k)
<1> DEFINE v == Front(w)
           u == Front(o)
<1>1. Len(w) \in Nat \ {0} /\ Len(v) = Len(w) - 1 /\ \A i \in 1..Len(v) : v[i] = w[i]
  BY FrontIs
<1>2. o \in Frames /\ Len(o) = Len(w) + 1
  <2>1. Len(w) \in 1..Len(w)
    BY <1>1
  <2>2. Len(w) < Len(o)
    BY <2>1 DEF OpenAt, Last
  <2> QED BY <1>1, <2>2 DEF OpenAt
<1>3. /\ u \in Frames /\ Len(u) = Len(w) /\ \A i \in 1..Len(u) : u[i] = o[i]
  <2>1. o \in Seq(FrameRecord) /\ o # <<>>
    BY <1>1, <1>2 DEF Frames
  <2> QED BY <1>1, <1>2, <2>1, FrontIs DEF Frames
<1>4. \A i \in 1..Len(u) : Level(v, i) = Level(w, i)
  BY <1>1, <1>3 DEF Level
<1>5. Last(o).kind = Sti[item[Last(w)].kind]
  <2>1. Len(o) \in 1..Len(o) /\ Level(w, Len(o)) = Last(w)
    BY <1>1, <1>2 DEF Level, Last
  <2>2. Last(w) \in Boxes(item)
    BY <1>1 DEF Last
  <2>3. Frame(o[Len(o)], Last(w), k)
    BY <2>1 DEF OpenAt
  <2> QED BY <2>2, <2>3 DEF Frame, Last
<1> HIDE DEF u, v
<1>6. \A i \in 1..Len(u) : Frame(u[i], Level(v, i), k)
  <2>1. \A i \in 1..Len(u) : i \in 1..Len(o)
    BY <1>1, <1>2, <1>3
  <2> QED BY <1>3, <1>4, <2>1 DEF OpenAt
<1>7. \A i \in 1..Len(v) : There(b, v[i]) <=> i < Len(u)
  <2>1. \A i \in 1..Len(v) : i \in 1..Len(w) /\ (i < Len(u) <=> i < Len(o))
    BY <1>1, <1>2, <1>3
  <2> QED BY <1>1, <2>1 DEF OpenAt
<1> QED BY <1>1, <1>2, <1>3, <1>5, <1>6, <1>7 DEF OpenAt, u, v

LEMMA OpenPush ==
  ASSUME Built, NEW b, NEW w \in Seq(Boxes(item)), NEW n \in Boxes(item), NEW o, NEW k \in Nat,
         OpenAt(b, w, o, k), There(b, n), \A i \in 1..Len(w) : There(b, w[i])
  PROVE  OpenAt(b, Append(w, n),
           Append(o, [kind |-> Sti[item[n].kind], at |-> lay.start[n], nops |-> 0]), k)
<1> DEFINE v == Append(w, n)
           fr == [kind |-> Sti[item[n].kind], at |-> lay.start[n], nops |-> 0]
           u == Append(o, fr)
<1>1. /\ Len(w) \in Nat /\ Len(v) = Len(w) + 1 /\ v[Len(w) + 1] = n
      /\ \A i \in 1..Len(w) : v[i] = w[i]
  OBVIOUS
<1>2. o \in Frames /\ Len(o) = Len(w) + 1
  <2>1. Len(w) = 0 \/ Len(w) \in 1..Len(w)
    BY <1>1
  <2> QED BY <1>1, <2>1 DEF OpenAt
<1>3. n \in Items /\ n # 0 /\ item[n].kind \in Containers /\ lay.start[n] \in Nat
  BY BoxIs, CellIs
<1>4. fr \in FrameRecord /\ fr.nops = 0 /\ fr.kind = Sti[item[n].kind] /\ fr.at = lay.start[n]
  BY <1>3 DEF Sti, Containers, FrameRecord
<1> HIDE DEF fr
<1>5. Frame(fr, n, k)
  <2> DEFINE before == Cardinality(Blank(n) \cap 1..k)
  <2>1. before \in Nat
    BY <1>3, BlankGrows
  <2>2. fr.nops <= before
    BY <1>4, <2>1
  <2> QED BY <1>3, <1>4, <2>2 DEF Frame
<1>6. /\ u \in Frames /\ Len(u) = Len(v) + 1 /\ u[Len(v) + 1] = fr
      /\ \A i \in 1..Len(o) : u[i] = o[i]
  BY <1>1, <1>2, <1>4 DEF Frames
<1>7. \A i \in 1..Len(o) : Level(v, i) = Level(w, i)
  BY <1>1, <1>2 DEF Level
<1>8. Level(v, Len(v) + 1) = n
  BY <1>1 DEF Level
<1> HIDE DEF u, v
<1>9. \A i \in 1..Len(u) : Frame(u[i], Level(v, i), k)
  <2>1. \A i \in 1..Len(u) : i \in 1..Len(o) \/ i = Len(v) + 1
    BY <1>1, <1>2, <1>6
  <2> QED BY <1>5, <1>6, <1>7, <1>8, <2>1 DEF OpenAt
<1>10. \A i \in 1..Len(v) : There(b, v[i]) /\ i < Len(u)
  <2>1. \A i \in 1..Len(v) : (i \in 1..Len(w) \/ i = Len(w) + 1) /\ i < Len(u)
    BY <1>1, <1>6
  <2> QED BY <1>1, <2>1
<1>11. Len(u) \in 1..(Len(v) + 1)
  BY <1>1, <1>6
<1> QED BY <1>6, <1>9, <1>10, <1>11 DEF OpenAt, u, v, fr

-----------------------------------------------------------------------------
(* What the parser does with a byte.                                        *)

(* What the parser does with a byte.                                        *)

Reader(o, skip, next, found) ==
  [ok |-> TRUE, skip |-> skip, next |-> next, found |-> found, open |-> o]

LEMMA ReaderSkips ==
  ASSUME NEW o, NEW skip, NEW next, NEW found, NEW skip2,
         NEW t, t = [Reader(o, skip, next, found) EXCEPT !.skip = skip2]
  PROVE  t = Reader(o, skip2, next, found)
BY DEF Reader

LEMMA ReadSkip ==
  ASSUME NEW b, NEW o, NEW skip \in Nat \ {0}, NEW next, NEW found, NEW k
  PROVE  Read(b, Reader(o, skip, next, found), k) = Reader(o, skip - 1, next, found)
<1> DEFINE s == Reader(o, skip, next, found)
<1>1. s.ok = TRUE /\ s.skip = skip /\ s.skip > 0
  BY DEF Reader
<1>2. Read(b, s, k) = [s EXCEPT !.skip = @ - 1]
  BY <1>1 DEF Read
<1> QED BY <1>2 DEF Reader

LEMMA ReadNop ==
  ASSUME NEW b, NEW o, NEW found, NEW k, b[k] = Nop, Last(o).nops # MaxNops
  PROVE  Read(b, Reader(o, 0, "header", found), k)
           = Reader(Counted(o), 0, "header", found)
<1> DEFINE s == Reader(o, 0, "header", found)
<1>1. s.ok = TRUE /\ s.skip = 0 /\ s.next = "header" /\ s.open = o /\ b[k][1] = "nop"
  BY DEF Reader, Nop
<1>2. Read(b, s, k) = ReadHeader(b, s, k)
  BY <1>1 DEF Read
<1>3. ReadHeader(b, s, k) = [s EXCEPT !.open[Len(s.open)].nops = @ + 1]
  BY <1>1 DEF ReadHeader
<1> QED BY <1>2, <1>3 DEF Reader, Counted

LEMMA ReadEnd ==
  ASSUME NEW b, NEW o, NEW found, NEW k, NEW kind \in Containers, b[k] = <<EndOf(kind), 0>>,
         Last(o).kind = Sti[kind], Len(o) > 1
  PROVE  Read(b, Reader(o, 0, "header", found), k) = Reader(Front(o), 0, "header", found)
<1> DEFINE s == Reader(o, 0, "header", found)
<1>1. s.ok = TRUE /\ s.skip = 0 /\ s.next = "header" /\ s.open = o
  BY DEF Reader
<1>2. Read(b, s, k) = ReadHeader(b, s, k)
  BY <1>1 DEF Read
<1>3. \/ b[k][1] = "end_object" /\ Last(o).kind = "object"
      \/ b[k][1] = "end_array" /\ Last(o).kind = "array"
  BY DEF EndOf, Containers, Sti
<1>4. ReadHeader(b, s, k) = [s EXCEPT !.open = Front(@)]
  BY <1>1, <1>3 DEF ReadHeader
<1> QED BY <1>2, <1>4 DEF Reader

Fresh(type, k) == [kind |-> type, at |-> k, nops |-> 0]
Adding(found, k, code, o) == found \cup {<<k, code, Last(o).at>>}

LEMMA FieldReads ==
  ASSUME NEW b, NEW o, NEW found, NEW k, NEW code, b[k] = Header(code)
  PROVE  Read(b, Reader(o, 0, "header", found), k) = Headed(b, Reader(o, 0, "header", found), k)
<1> DEFINE s == Reader(o, 0, "header", found)
<1>1. s.ok = TRUE /\ s.skip = 0 /\ s.next = "header" /\ b[k][1] = "header"
  BY DEF Reader, Header
<1>2. Read(b, s, k) = ReadHeader(b, s, k)
  BY <1>1 DEF Read
<1>3. ReadHeader(b, s, k) = Headed(b, s, k)
  BY <1>1 DEF ReadHeader
<1> QED BY <1>2, <1>3

LEMMA FieldFinds ==
  ASSUME NEW b, NEW o, NEW found, NEW k, NEW code, b[k] = Header(code), NEW next
  PROVE  FindField(b, Reader(o, 0, "header", found), k, next)
           = Reader(o, 0, next, Adding(found, k, code, o))
<1> DEFINE s == Reader(o, 0, "header", found)
           found2 == Adding(found, k, code, o)
           t == FindField(b, s, k, next)
<1>1. s.open = o /\ s.found = found /\ b[k][2] = code
  BY DEF Reader, Header
<1>2. t = [Reader(o, 0, "header", found) EXCEPT !.next = next, !.found = found2]
  BY <1>1 DEF FindField, Adding
<1> HIDE DEF found2, t
<1>3. t = Reader(o, 0, next, found2)
  BY ONLY <1>2 DEF Reader
<1> QED BY <1>3 DEF t, found2

LEMMA ReadBox ==
  ASSUME NEW b, NEW o, NEW found, NEW k, NEW code, b[k] = Header(code),
         NEW type, type = sti[code], type \in {"object", "array"},
         Last(o).kind = "array" => type = "object", Len(o) <= MaxWalkDepth, Len(o) \in Nat
  PROVE  Read(b, Reader(o, 0, "header", found), k)
           = Reader(Append(o, Fresh(type, k)), 0, "header", Adding(found, k, code, o))
<1> DEFINE s == Reader(o, 0, "header", found)
           found2 == Adding(found, k, code, o)
<1>0. s.open = o
  BY DEF Reader
<1>1. Read(b, s, k) = Headed(b, s, k)
  BY FieldReads
<1>2. FindField(b, s, k, "header") = Reader(o, 0, "header", found2)
  BY FieldFinds
<1>3. b[k][2] = code
  BY DEF Header
<1>4. Headed(b, s, k) = Enter(b, s, k)
  BY <1>0, <1>3 DEF Headed
<1>5. ~(Len(s.open) > MaxWalkDepth)
  BY <1>0, Constants
<1>6. Enter(b, s, k) = [FindField(b, s, k, "header") EXCEPT
        !.open = Append(@, [kind |-> sti[b[k][2]], at |-> k, nops |-> 0])]
  BY <1>5 DEF Enter
<1>7. Enter(b, s, k) = [Reader(o, 0, "header", found2) EXCEPT
        !.open = Append(@, [kind |-> type, at |-> k, nops |-> 0])]
  BY <1>2, <1>3, <1>6
<1>8. Enter(b, s, k) = Reader(Append(o, [kind |-> type, at |-> k, nops |-> 0]), 0, "header", found2)
  BY <1>7 DEF Reader
<1> QED BY <1>1, <1>4, <1>8 DEF Fresh

LEMMA ReadScalar ==
  ASSUME NEW b, NEW o, NEW found, NEW k, NEW code, b[k] = Header(code),
         sti[code] = "scalar", Last(o).kind # "array", NEW skip, skip = 1
  PROVE  Read(b, Reader(o, 0, "header", found), k)
           = Reader(o, skip, "header", Adding(found, k, code, o))
<1> DEFINE s == Reader(o, 0, "header", found)
           found2 == Adding(found, k, code, o)
           t == Headed(b, s, k)
<1>0. s.open = o
  BY DEF Reader
<1>1. Read(b, s, k) = t
  BY FieldReads
<1>2. FindField(b, s, k, "header") = Reader(o, 0, "header", found2)
  BY FieldFinds
<1>3. t = [FindField(b, s, k, "header") EXCEPT !.skip = 1]
  BY <1>0 DEF Headed, Header
<1> HIDE DEF found2, s, t
<1>4. t = [Reader(o, 0, "header", found2) EXCEPT !.skip = skip]
  BY <1>2, <1>3
<1>5. t = Reader(o, skip, "header", found2)
  BY <1>4, ReaderSkips
<1> QED BY <1>1, <1>5 DEF s, found2

LEMMA ReadLeaf ==
  ASSUME NEW b, NEW o, NEW found, NEW k, NEW code, b[k] = Header(code),
         NEW type, type = sti[code], type \in {"amount", "vl"}, Last(o).kind # "array"
  PROVE  Read(b, Reader(o, 0, "header", found), k) = Reader(o, 0, type, Adding(found, k, code, o))
<1> DEFINE s == Reader(o, 0, "header", found)
<1>0. s.open = o
  BY DEF Reader
<1>1. Read(b, s, k) = Headed(b, s, k)
  BY FieldReads
<1>2. FindField(b, s, k, type) = Reader(o, 0, type, Adding(found, k, code, o))
  BY FieldFinds
<1>3. Headed(b, s, k) = FindField(b, s, k, type)
  BY <1>0 DEF Headed, Header
<1> QED BY <1>1, <1>2, <1>3

LEMMA ReadAmount ==
  ASSUME NEW b, NEW o, NEW found, NEW k
  PROVE  Read(b, Reader(o, 0, "amount", found), k)
           = Reader(o, (IF b[k][1] = "native" THEN NativeLen ELSE IssuedLen) - 1, "header", found)
<1> DEFINE s == Reader(o, 0, "amount", found)
           skip == (IF b[k][1] = "native" THEN NativeLen ELSE IssuedLen) - 1
<1>1. s.ok = TRUE /\ s.skip = 0 /\ s.next = "amount"
  BY DEF Reader
<1>2. Read(b, s, k) = [s EXCEPT !.next = "header", !.skip = skip]
  BY <1>1 DEF Read
<1> HIDE DEF skip
<1>3. Read(b, s, k) = Reader(o, skip, "header", found)
  BY <1>2 DEF Reader
<1> QED BY <1>3 DEF skip

LEMMA ReadVl ==
  ASSUME NEW b, NEW o, NEW found, NEW k, b[k][1] = "length"
  PROVE  Read(b, Reader(o, 0, "vl", found), k) = Reader(o, SlotSize(b[k][2]) - 1, "header", found)
<1> DEFINE s == Reader(o, 0, "vl", found)
           skip == SlotSize(b[k][2]) - 1
<1>1. s.ok = TRUE /\ s.skip = 0 /\ s.next = "vl"
  BY DEF Reader
<1>2. Read(b, s, k) = [s EXCEPT !.next = "header", !.skip = skip]
  BY <1>1 DEF Read
<1> HIDE DEF skip
<1>3. Read(b, s, k) = Reader(o, skip, "header", found)
  BY <1>2 DEF Reader
<1> QED BY <1>3 DEF skip

(* What is found of a template once k bytes are read.                       *)
PlaceOf(n) == IF lay.within[n] = <<>> THEN 0 ELSE lay.start[Last(lay.within[n])]
Row(n) == <<lay.start[n], item[n].code, PlaceOf(n)>>
FoundBy(b, k) == {Row(m) : m \in {x \in Declared : There(b, x) /\ lay.start[x] <= k}}

LEMMA StartsOrder ==
  ASSUME Built
  PROVE  /\ lay.start[1] = 1 /\ 1 \in Items
         /\ \A n \in Items : lay.start[n] \in Nat \ {0}
         /\ \A n, m \in Items : n < m => lay.start[n] < lay.start[m]
         /\ \A n, m \in Items : \A j \in 0..(ItemLen(item[n]) - 1) :
              lay.start[m] = lay.start[n] + j => m = n /\ j = 0
<1>1. /\ item \in Seq(Item) /\ Items = 1..Len(item) /\ Len(item) \in Nat /\ Len(item) > 0
      /\ lay.start = Starts(item)
  BY BuiltIs
<1>2. lay.start[1] = 1
  BY <1>1, StartsAre
<1>3. /\ \A n \in Items : lay.start[n] \in Nat \ {0}
      /\ \A n, m \in Items : n < m => lay.start[n] < lay.start[m]
  BY <1>1, StartsGrow
<1>4. ASSUME NEW n \in Items, NEW m \in Items, NEW j \in 0..(ItemLen(item[n]) - 1),
             lay.start[m] = lay.start[n] + j
      PROVE  m = n /\ j = 0
  <2>1. n # m => lay.start[m] \in Cell(m) /\ Cell(n) \cap Cell(m) = {}
    BY CellIs
  <2>2. lay.start[m] \in Cell(n)
    <3>1. lay.start[n] \in Nat /\ ItemLen(item[n]) \in Nat
          /\ lay.start[n + 1] = lay.start[n] + ItemLen(item[n])
      BY CellIs
    <3> QED BY <1>4, <3>1 DEF Cell
  <2>3. m = n
    BY <2>1, <2>2
  <2> QED BY <1>3, <1>4, <2>3
<1> QED BY <1>1, <1>2, <1>3, <1>4

LEMMA FoundOn ==
  ASSUME Built, NEW b, NEW n \in Items, NEW j \in 0..(ItemLen(item[n]) - 1),
         NEW k, k = lay.start[n] + j
  PROVE  FoundBy(b, k) =
           FoundBy(b, k - 1) \cup IF j = 0 /\ There(b, n) /\ n \in Declared THEN {Row(n)} ELSE {}
<1>1. \A x \in Declared : x \in Items
  BY DEF Declared
<1>2. k \in Nat /\ \A x \in Items : lay.start[x] \in Nat
  BY StartsOrder
<1>3. \A x \in Declared : lay.start[x] <= k <=> lay.start[x] <= k - 1 \/ lay.start[x] = k
  BY <1>1, <1>2
<1>4. \A x \in Declared : lay.start[x] = k <=> x = n /\ j = 0
  BY <1>1, <1>2, StartsOrder
<1>5. \A x \in Declared : There(b, x) /\ lay.start[x] <= k
        <=> (There(b, x) /\ lay.start[x] <= k - 1) \/ (x = n /\ j = 0 /\ There(b, n))
  BY <1>3, <1>4
<1> QED BY <1>5 DEF FoundBy

-----------------------------------------------------------------------------
(* The bytes of an item that the parser takes for it.                       *)

(* The bytes of item n that the parser takes for it; NOPs follow.           *)
Extent(b, n) ==
  LET i == item[n]
      second == b[lay.start[n] + 1]
  IN  CASE i.kind \in Containers \cup Ends -> 1
        [] i.kind \in {"type", "scalar"} -> 2
        [] i.kind \in {"native", "issued", "any"} ->
             1 + (IF second[1] = "native" THEN NativeLen ELSE IssuedLen)
        [] i.kind \in {"empty", "fixed", "vl"} -> 1 + SlotSize(second[2])

LEMMA ExtentIs ==
  ASSUME NEW b, NEW n
  PROVE  LET second == b[lay.start[n] + 1]
         IN  /\ item[n].kind \in Containers \cup Ends => Extent(b, n) = 1
             /\ item[n].kind \in {"type", "scalar"} => Extent(b, n) = 2
             /\ item[n].kind \in {"native", "issued", "any"} =>
                  Extent(b, n) = 1 + (IF second[1] = "native" THEN NativeLen ELSE IssuedLen)
             /\ item[n].kind \in {"empty", "fixed", "vl"} => Extent(b, n) = 1 + SlotSize(second[2])
<1>1. CASE item[n].kind \in Containers \cup Ends
  BY <1>1 DEF Extent, Containers, Ends
<1>2. CASE item[n].kind \in {"type", "scalar"}
  BY <1>2 DEF Extent, Containers, Ends
<1>3. CASE item[n].kind \in {"native", "issued", "any"}
  BY <1>3 DEF Extent, Containers, Ends
<1>4. CASE item[n].kind \in {"empty", "fixed", "vl"}
  BY <1>4 DEF Extent, Containers, Ends
<1> QED BY <1>1, <1>2, <1>3, <1>4

LEMMA SlotsGrow ==
  ASSUME NEW low \in Nat, NEW high \in Nat, low <= high
  PROVE  SlotSize(low) \in Nat \ {0} /\ SlotSize(high) \in Nat \ {0} /\ SlotSize(low) <= SlotSize(high)
BY TemplateConstants, Slots DEF SlotSize, PrefixLen

(* An optional item may be all NOPs.                                        *)
LEMMA SlackIs ==
  ASSUME Built, NEW m \in Items
  PROVE  /\ item[m].optional => \A n \in Covered(m) : Cell(n) \subseteq Slack(m)
         /\ m \in Covered(m)
         /\ ~item[m].optional => \A k \in Cell(m) :
              k >= lay.start[m + 1] - Charge(item, m) => k \in Slack(m)
<1>1. item[m].optional => \A n \in Covered(m) : Cell(n) \subseteq Slack(m)
  BY CoveredIs DEF Slack
<1>2. m \in Covered(m)
  BY DEF Covered
<1>3. ASSUME ~item[m].optional, NEW k \in Cell(m), k >= lay.start[m + 1] - Charge(item, m)
      PROVE  k \in Slack(m)
  <2>1. Charge(item, m) \in Nat
    BY SlackSize
  <2> DEFINE c == Charge(item, m)
  <2> HIDE DEF c
  <2>2. Slack(m) = (lay.start[m + 1] - c)..(lay.start[m + 1] - 1)
    BY <1>3 DEF Slack, c
  <2>3. lay.start[m] \in Nat /\ ItemLen(item[m]) \in Nat /\ lay.start[m + 1] = lay.start[m] + ItemLen(item[m])
    BY CellIs
  <2>4. k >= lay.start[m + 1] - c /\ c \in Nat
    BY <1>3, <2>1 DEF c
  <2> QED BY <2>2, <2>3, <2>4 DEF Cell
<1> QED BY <1>1, <1>2, <1>3

(* The parser finds what it expects in an item that is there.               *)
LEMMA Readable ==
  ASSUME Built, NEW b, Sound(b), Formed(b), ~Damaged(b),
         NEW n \in Items, item[n].kind # "details", There(b, n)
  PROVE  LET i == item[n]
             at == lay.start[n]
         IN  /\ b[at] = First(i)
             /\ Extent(b, n) \in 1..ItemLen(i)
             /\ i.kind \notin Containers \cup Ends => Extent(b, n) >= 2
             /\ i.kind \in {"empty", "fixed", "vl"} =>
                  b[at + 1][1] = "length" /\ SlotSize(b[at + 1][2]) \in Nat \ {0}
             /\ \A j \in Extent(b, n)..(ItemLen(i) - 1) : b[at + j] = Nop /\ at + j \in Slack(n)
<1> DEFINE i == item[n]
           at == lay.start[n]
           s == CellOf(b, n)
           e == Extent(b, n)
           second == b[at + 1]
<1>1. /\ at \in Nat \ {0} /\ ItemLen(i) \in Nat \ {0} /\ i \in Item
      /\ lay.start[n + 1] = at + ItemLen(i)
      /\ i.low \in Nat /\ i.high \in Nat
      /\ \A j \in 1..ItemLen(i) : at + j - 1 \in Cell(n)
  BY CellIs, EnclosureIs, ItemIs, CellBytes
<1>2. Shape(i, s)
  BY DEF Formed, FormedAt
<1>3. \A j \in 1..ItemLen(i) : s[j] = b[at + j - 1]
  BY DEF CellOf
<1>4. ~LateNative(b, n) /\ ~Hollow(b, n)
  BY DEF Damaged
<1>5. /\ i.kind \in {"type", "scalar", "empty", "native", "issued", "any", "fixed", "vl"}
            => ItemLen(i) >= 2
      /\ i.kind \in Containers \cup Ends => ItemLen(i) = 1
      /\ i.kind \in {"type", "scalar"} => ItemLen(i) = 2
  BY <1>1, ItemLens
<1>6. b[at] = First(i)
  <2>1. s[1] = b[at + 1 - 1] /\ at + 1 - 1 = at
    BY <1>1, <1>3
  <2> QED BY <1>2, <2>1 DEF Shape
<1>7. ItemLen(i) >= 2 => s[2] = second
  <2>1. at + 2 - 1 = at + 1
    BY <1>1
  <2>2. ItemLen(i) >= 2 => 2 \in 1..ItemLen(i)
    BY <1>1
  <2> QED BY <1>3, <2>1, <2>2
<1>8. \A j \in 0..(ItemLen(i) - 1) : at + j \in Cell(n)
  <2> SUFFICES ASSUME NEW j \in 0..(ItemLen(i) - 1) PROVE at + j \in Cell(n)
    OBVIOUS
  <2>1. j + 1 \in 1..ItemLen(i) /\ at + (j + 1) - 1 = at + j
    BY <1>1
  <2> QED BY <1>1, <2>1
<1>9. i.optional => \A j \in 0..(ItemLen(i) - 1) : at + j \in Slack(n)
  BY <1>8, SlackIs
<1> DEFINE Rest == \A j \in e..(ItemLen(i) - 1) : b[at + j] = Nop /\ at + j \in Slack(n)
<1>10. CASE i.kind \in Containers \cup Ends
  <2>1. e = 1 /\ ItemLen(i) = 1
    BY <1>5, <1>10, ExtentIs
  <2> HIDE DEF e
  <2>2. i.kind \notin {"empty", "fixed", "vl"}
    BY <1>10 DEF Containers, Ends
  <2> HIDE DEF i
  <2>3. Rest
    BY <2>1
  <2> QED BY <1>6, <1>10, <2>1, <2>2, <2>3 DEF i, e
<1>11. CASE i.kind \in {"type", "scalar"}
  <2>1. e = 2 /\ ItemLen(i) = 2
    BY <1>5, <1>11, ExtentIs
  <2> HIDE DEF e
  <2>2. i.kind \notin {"empty", "fixed", "vl"}
    BY <1>11
  <2> HIDE DEF i
  <2>3. Rest
    BY <2>1
  <2> QED BY <1>6, <1>11, <2>1, <2>2, <2>3 DEF i, e
<1>12. CASE i.kind \in {"native", "issued", "any"}
  <2>1. e = 1 + (IF second[1] = "native" THEN NativeLen ELSE IssuedLen)
    BY <1>12, ExtentIs
  <2>2. s[2] = second /\ i.kind \notin Containers \cup Ends /\ i.kind \notin {"empty", "fixed", "vl"}
    BY <1>5, <1>7, <1>12 DEF Containers, Ends
  <2>3. second # Nop \/ i.kind = "issued"
    BY <1>4, <1>12 DEF Hollow, There
  <2>4. /\ i.kind = "native" => second[1] = "native" /\ ItemLen(i) = 1 + NativeLen
        /\ i.kind \in {"issued", "any"} => ItemLen(i) = 1 + IssuedLen
        /\ i.kind = "issued" => second[1] = "issued"
    BY <1>1, <1>2, <2>2, <2>3, ItemSizes DEF Shape
  <2>5. i.kind # "any" => e = ItemLen(i)
    BY <1>12, <2>1, <2>4
  <2>6. e \in 2..ItemLen(i)
    <3> HIDE DEF e, i
    <3> QED BY <1>12, <2>1, <2>4, <2>5, TemplateConstants
  <2>7. Rest
    <3>1. CASE i.kind # "any"
      <4>1. e = ItemLen(i)
        BY <2>5, <3>1
      <4> HIDE DEF e, i
      <4> QED BY <1>1, <4>1
    <3>2. CASE i.kind = "any"
      <4>1. CASE second[1] # "native"
        <5>1. e = ItemLen(i)
          BY <2>1, <2>4, <3>2, <4>1
        <5> HIDE DEF e, i
        <5> QED BY <1>1, <5>1
      <4>2. CASE second[1] = "native"
        <5>1. e = 1 + NativeLen /\ ItemLen(i) = 1 + IssuedLen
          BY <2>1, <2>4, <3>2, <4>2
        <5>2. \A k \in (at + 1 + NativeLen)..(at + IssuedLen) : b[k] = Nop
          BY <1>4, <3>2, <4>2 DEF LateNative
        <5>3. ~i.optional => Charge(item, n) = IssuedLen - NativeLen
          BY <3>2 DEF Charge
        <5>4. \A k \in Cell(n) : ~i.optional /\ k >= lay.start[n + 1] - (IssuedLen - NativeLen) => k \in Slack(n)
          BY <5>3, SlackIs
        <5> SUFFICES ASSUME NEW j \in e..(ItemLen(i) - 1) PROVE b[at + j] = Nop /\ at + j \in Slack(n)
          OBVIOUS
        <5> HIDE DEF e, i, at
        <5>5. at + j \in (at + 1 + NativeLen)..(at + IssuedLen) /\ j \in 0..(ItemLen(i) - 1)
          BY <1>1, <5>1, TemplateConstants
        <5>6. at + j >= lay.start[n + 1] - (IssuedLen - NativeLen)
          BY <1>1, <5>1, <5>5, TemplateConstants
        <5>7. at + j \in Cell(n) /\ b[at + j] = Nop
          BY <1>8, <5>2, <5>5
        <5>8. at + j \in Slack(n)
          BY <1>9, <5>4, <5>5, <5>6, <5>7
        <5> QED BY <5>7, <5>8
      <4> QED BY <4>1, <4>2
    <3> QED BY <3>1, <3>2
  <2> HIDE DEF e, i
  <2> QED BY <1>1, <1>6, <2>2, <2>6, <2>7 DEF e, i
<1>13. CASE i.kind \in {"empty", "fixed", "vl"}
  <2>1. e = 1 + SlotSize(second[2]) /\ ItemLen(i) >= 2 /\ i.kind \notin Containers \cup Ends
    BY <1>5, <1>13, ExtentIs DEF Containers, Ends
  <2>2. PICK len \in Nat : /\ second = <<"length", len>>
                           /\ i.kind = "empty" => len = 0
                           /\ i.kind = "fixed" => len = i.high
                           /\ i.kind = "vl" => len \in i.low..i.high /\ VlOf(i, s, len)
    <3>1. s[2] = second
      BY <1>7, <2>1
    <3>2. CASE i.kind = "empty"
      BY <1>2, <3>1, <3>2 DEF Shape
    <3>3. CASE i.kind = "fixed"
      BY <1>1, <1>2, <3>1, <3>3 DEF Shape
    <3>4. CASE i.kind = "vl"
      <4>1. PICK x \in i.low..i.high : VlOf(i, s, x)
        BY <1>2, <3>4 DEF Shape
      <4>2. x \in Nat
        BY <1>1
      <4> QED BY <3>1, <3>4, <4>1, <4>2 DEF VlOf
    <3> QED BY <1>13, <3>2, <3>3, <3>4
  <2>3. second[1] = "length" /\ second[2] = len /\ e = 1 + SlotSize(len)
    BY <2>1, <2>2
  <2>4. /\ SlotSize(len) \in Nat \ {0}
        /\ i.kind # "vl" => ItemLen(i) = 1 + SlotSize(len)
        /\ i.kind = "vl" => ItemLen(i) = 1 + SlotSize(i.high) /\ SlotSize(len) <= SlotSize(i.high)
    <3>1. SlotSize(len) \in Nat \ {0}
      BY SlotsGrow
    <3>2. i.kind = "empty" => ItemLen(i) = 1 + SlotSize(len)
      BY <1>1, <2>2, ItemSizes DEF SlotSize
    <3>3. i.kind = "fixed" => ItemLen(i) = 1 + SlotSize(len)
      <4>1. i.kind = "fixed" => ItemLen(i) = 1 + PrefixLen(i.high) + i.high /\ PrefixLen(i.high) \in Nat
        BY <1>1, ItemSizes
      <4> HIDE DEF i
      <4> QED BY <1>1, <2>2, <4>1 DEF SlotSize
    <3>4. i.kind = "vl" => ItemLen(i) = 1 + SlotSize(i.high)
      <4>1. i.kind = "vl" => ItemLen(i) = 1 + PrefixLen(i.high) + i.high /\ PrefixLen(i.high) \in Nat
        BY <1>1, ItemSizes
      <4> HIDE DEF i
      <4> QED BY <1>1, <4>1 DEF SlotSize
    <3>5. i.kind = "vl" => SlotSize(len) <= SlotSize(i.high)
      BY <1>1, <2>2, SlotsGrow
    <3> QED BY <1>13, <3>1, <3>2, <3>3, <3>4, <3>5
  <2>5. e \in 2..ItemLen(i)
    <3>1. i.kind = "vl" => SlotSize(i.high) \in Nat
      BY <1>1, SlotsGrow
    <3> HIDE DEF e, i
    <3> QED BY <1>1, <2>3, <2>4, <3>1
  <2>6. Rest
    <3>1. CASE i.kind # "vl"
      <4>1. e = ItemLen(i)
        BY <2>3, <2>4, <3>1
      <4> HIDE DEF e, i
      <4> QED BY <1>1, <4>1
    <3>2. CASE i.kind = "vl"
      <4>1. \A k \in (2 + SlotSize(len))..ItemLen(i) : s[k] = Nop
        BY <2>2, <3>2 DEF VlOf
      <4>2. ~i.optional => Charge(item, n) = SlotSize(i.high) - SlotSize(i.low)
        BY <3>2 DEF Charge
      <4>3. \A k \in Cell(n) : ~i.optional /\ k >= lay.start[n + 1] - (SlotSize(i.high) - SlotSize(i.low)) => k \in Slack(n)
        BY <4>2, SlackIs
      <4>4. SlotSize(i.low) \in Nat /\ SlotSize(i.high) \in Nat /\ SlotSize(i.low) <= SlotSize(len)
        BY <1>1, <2>2, <3>2, SlotsGrow
      <4> SUFFICES ASSUME NEW j \in e..(ItemLen(i) - 1) PROVE b[at + j] = Nop /\ at + j \in Slack(n)
        OBVIOUS
      <4> HIDE DEF e, i, at, s
      <4>5. ItemLen(i) = 1 + SlotSize(i.high)
        BY <2>4, <3>2
      <4>6. j \in 0..(ItemLen(i) - 1) /\ j + 1 \in (2 + SlotSize(len))..ItemLen(i) /\ j + 1 \in 1..ItemLen(i)
            /\ at + (j + 1) - 1 = at + j
        BY <1>1, <2>3, <2>4, <4>4, <4>5
      <4>7. at + j >= lay.start[n + 1] - (SlotSize(i.high) - SlotSize(i.low))
        BY <1>1, <2>3, <2>4, <4>4, <4>5, <4>6
      <4>8. s[j + 1] = b[at + j] /\ s[j + 1] = Nop
        BY <1>3, <4>1, <4>6
      <4>9. at + j \in Slack(n)
        BY <1>8, <1>9, <4>3, <4>6, <4>7
      <4> QED BY <4>8, <4>9
    <3> QED BY <3>1, <3>2
  <2> HIDE DEF e, i
  <2>7. e \in 1..ItemLen(i) /\ e >= 2
    BY <1>1, <2>5
  <2> QED BY <1>6, <2>1, <2>3, <2>4, <2>6, <2>7 DEF e, i
<1>14. i.kind \in {"native", "issued", "any"} \cup {"empty", "fixed", "vl"} \cup {"type", "scalar"}
         \cup Containers \cup Ends
  BY <1>1, ItemIs DEF Containers, Ends
<1> QED BY <1>10, <1>11, <1>12, <1>13, <1>14

-----------------------------------------------------------------------------
(* Where the parser is, between the items of a template.                    *)

(* What a template holds when its setters left no field broken.             *)
Legible(b) == Sound(b) /\ Formed(b) /\ ~Damaged(b)

LEMMA WithinIs ==
  ASSUME Built, NEW n \in Items
  PROVE  LET w == Nesting(item)[n]
         IN  /\ w = lay.within[n] /\ w \in Seq(Boxes(item)) /\ Len(w) \in Nat
             /\ Nesting(item)[n + 1] = Around(item, n, w)
             /\ Enclosing(n) = {w[i] : i \in 1..Len(w)}
             /\ Inner(n) = Level(w, Len(w) + 1)
             /\ \A p \in 1..Len(w) :
                  LET m == w[p]
                  IN  /\ m \in Items /\ item[m].kind \in Containers
                      /\ Inner(m) = Level(w, p)
                      /\ Enclosing(m) = {w[i] : i \in 1..(p - 1)}
<1> DEFINE N == Len(item)
           Within(m) == Nesting(item)[m]
<1>1. /\ item \in Seq(Item) /\ Items = 1..N /\ N \in Nat
      /\ lay.within = [m \in Items |-> Within(m)]
  BY BuiltIs
<1>2. \A m \in Items : lay.within[m] = Within(m) /\ Within(m) \in Seq(Boxes(item))
                       /\ Nesting(item)[m + 1] = Around(item, m, Within(m))
  BY <1>1, NestingIs
<1>3. \A m \in Items : Len(Within(m)) \in Nat
  BY <1>2
<1>4. \A m \in Items : Enclosing(m) = {Within(m)[i] : i \in 1..Len(Within(m))}
  BY <1>2, <1>3 DEF Enclosing, Range
<1>5. \A m \in Items : Inner(m) = Level(Within(m), Len(Within(m)) + 1)
  <2> SUFFICES ASSUME NEW m \in Items PROVE Inner(m) = Level(Within(m), Len(Within(m)) + 1)
    OBVIOUS
  <2> DEFINE s == Within(m)
  <2>1. s \in Seq(Boxes(item)) /\ lay.within[m] = s /\ Len(s) \in Nat
    BY <1>2, <1>3
  <2> HIDE DEF s
  <2>2. s = <<>> <=> Len(s) = 0
    BY <2>1, EmptySeq
  <2>3. Inner(m) = IF Len(s) = 0 THEN 0 ELSE s[Len(s)]
    BY <2>1, <2>2 DEF Inner, Last
  <2>4. (Len(s) + 1) - 1 = Len(s) /\ (Len(s) + 1 = 1 <=> Len(s) = 0)
    BY <2>1
  <2>5. Inner(m) = Level(s, Len(s) + 1)
    BY <2>3, <2>4 DEF Level
  <2> QED BY <2>5 DEF s
<1> DEFINE w == Within(n)
<1>6. ASSUME NEW p \in 1..Len(w)
      PROVE  /\ w[p] \in Items /\ item[w[p]].kind \in Containers
             /\ Inner(w[p]) = Level(w, p)
             /\ Enclosing(w[p]) = {w[i] : i \in 1..(p - 1)}
  <2> DEFINE m == w[p]
  <2>1. m \in Boxes(item)
    BY <1>2
  <2>2. m \in Items /\ item[m].kind \in Containers
    BY <2>1, BoxIs
  <2>3. Len(Within(m)) = p - 1 /\ \A i \in 1..(p - 1) : Within(m)[i] = w[i]
    <3>1. n \in 1..(Len(item) + 1) /\ p \in 1..Len(Nesting(item)[n])
      BY <1>1
    <3> QED BY <1>1, <3>1, NestingPrefix
  <2>4. Enclosing(m) = {w[i] : i \in 1..(p - 1)}
    BY <1>4, <2>2, <2>3
  <2>5. Level(Within(m), Len(Within(m)) + 1) = Level(w, p)
    <3>1. p \in Nat /\ (p # 1 => p - 1 \in 1..(p - 1))
      BY <1>3
    <3>2. Len(Within(m)) + 1 = p
      BY <2>3, <3>1
    <3> QED BY <2>3, <3>1, <3>2 DEF Level
  <2>6. Inner(m) = Level(w, p)
    BY <1>5, <2>2, <2>5
  <2> QED BY <2>2, <2>4, <2>6
<1> HIDE DEF Within
<1> QED BY <1>2, <1>3, <1>4, <1>5, <1>6 DEF Within

(* A NOP that the parser meets is one that its container may hold.          *)
LEMMA NopBelongs ==
  ASSUME Built, NEW b, Legible(b), NEW n \in Items, item[n].kind # "details",
         NEW o, NEW x, OpenAt(b, Nesting(item)[n], o, x), NEW k \in Cell(n),
         There(b, n) => k \in Slack(n) /\ item[n].kind \notin Ends
  PROVE  k \in Blank(Level(Nesting(item)[n], Len(o)))
<1> DEFINE w == Nesting(item)[n]
           p == Len(o)
<1>1. /\ w \in Seq(Boxes(item)) /\ Len(w) \in Nat
      /\ Enclosing(n) = {w[i] : i \in 1..Len(w)}
      /\ Inner(n) = Level(w, Len(w) + 1)
      /\ \A q \in 1..Len(w) : /\ w[q] \in Items /\ item[w[q]].kind \in Containers
                              /\ Inner(w[q]) = Level(w, q)
                              /\ Enclosing(w[q]) = {w[i] : i \in 1..(q - 1)}
  BY WithinIs
<1>2. p \in 1..(Len(w) + 1) /\ \A i \in 1..Len(w) : There(b, w[i]) <=> i < p
  BY DEF OpenAt
<1>3. Standing(b) /\ Clean(b)
  BY CleanIs DEF Legible, Sound
<1>4. \A m \in Items : item[m].optional => item[m].kind \notin Ends
  BY BuiltIs DEF Compiles, Grammatical, Items
<1> HIDE DEF w, p
<1>5. ASSUME NEW m \in Items, ~There(b, m), item[m].kind # "details", n \in Covered(m),
             \A a \in Enclosing(m) : There(b, a), Inner(m) = Level(w, p)
      PROVE  k \in Blank(Level(w, p))
  <2>1. item[m].optional
    BY <1>3, <1>5 DEF Standing
  <2>2. k \in Slack(m)
    BY <1>5, <2>1, SlackIs
  <2>3. m \in Direct(Level(w, p))
    BY <1>4, <1>5, <2>1 DEF Direct
  <2> QED BY <2>2, <2>3 DEF Blank
<1>6. CASE There(b, n)
  <2>1. p = Len(w) + 1
    <3>1. \A i \in 1..Len(w) : i < p
      BY <1>1, <1>2, <1>3, <1>6 DEF Clean
    <3> QED BY <1>1, <1>2, <3>1
  <2>2. n \in Direct(Level(w, p)) /\ k \in Slack(n)
    BY <1>1, <1>6, <2>1 DEF Direct
  <2> QED BY <2>2 DEF Blank, w, p
<1>7. CASE ~There(b, n) /\ p = Len(w) + 1
  <2>1. \A a \in Enclosing(n) : There(b, a)
    BY <1>1, <1>2, <1>7
  <2>2. Inner(n) = Level(w, p)
    BY <1>1, <1>7
  <2>3. k \in Blank(Level(w, p))
    BY <1>5, <1>7, <2>1, <2>2, SlackIs
  <2> QED BY <2>3 DEF w, p
<1>8. CASE p # Len(w) + 1
  <2>1. p \in 1..Len(w)
    BY <1>1, <1>2, <1>8
  <2> DEFINE m == w[p]
  <2>2. m \in Items /\ item[m].kind \in Containers /\ Inner(m) = Level(w, p) /\ m \in Enclosing(n)
        /\ Enclosing(m) = {w[i] : i \in 1..(p - 1)}
    BY <1>1, <2>1
  <2>3. ~There(b, m)
    BY <1>2, <2>1
  <2>4. \A a \in Enclosing(m) : There(b, a)
    <3>1. \A i \in 1..(p - 1) : i \in 1..Len(w) /\ i < p
      BY <1>1, <2>1
    <3> QED BY <1>2, <2>2, <3>1
  <2>5. n \in Covered(m) /\ item[m].kind # "details"
    BY <2>2 DEF Covered, Containers
  <2> HIDE DEF m
  <2>6. k \in Blank(Level(w, p))
    BY <1>5, <2>2, <2>3, <2>4, <2>5
  <2> QED BY <2>6 DEF w, p
<1> QED BY <1>2, <1>6, <1>7, <1>8

(* Where the parser is after j bytes of item n, with what is open.          *)
Past(n, j) == IF j = 0 THEN Nesting(item)[n] ELSE Nesting(item)[n + 1]
Plainkind(n) == item[n].kind \in {"type", "scalar"} \cup Containers \cup Ends
SkipAt(b, n, j) ==
  IF j = 0 \/ ~There(b, n) \/ j >= Extent(b, n) \/ (j = 1 /\ ~Plainkind(n)) THEN 0
  ELSE Extent(b, n) - j
NextAt(b, n, j) ==
  IF j = 1 /\ There(b, n) /\ ~Plainkind(n) THEN sti[item[n].code] ELSE "header"
Mid(b, n, j, s) ==
  LET k == lay.start[n] + j - 1
  IN  \E o : /\ s = Reader(o, SkipAt(b, n, j), NextAt(b, n, j), FoundBy(b, k))
             /\ OpenAt(b, Past(n, j), o, k)

(* An item of more than a byte is a field.                                  *)
LEMMA LongItem ==
  ASSUME Built, NEW n \in Items, ItemLen(item[n]) > 1
  PROVE  /\ item[n].kind \notin Containers \cup Ends
         /\ Nesting(item)[n + 1] = Nesting(item)[n]
<1>1. item[n] \in Item
  BY EnclosureIs
<1>2. item[n].kind \notin Containers \cup Ends
  BY <1>1, ItemLens
<1>3. Nesting(item)[n + 1] = Around(item, n, Nesting(item)[n])
  BY WithinIs
<1> QED BY <1>2, <1>3 DEF Around

(* A NOP, in an absent item or after a short one.                           *)
LEMMA NopStep ==
  ASSUME Built, NEW b, Legible(b), NEW n \in Items, item[n].kind # "details",
         NEW j \in 0..(ItemLen(item[n]) - 1),
         There(b, n) => j >= Extent(b, n) /\ j >= 1,
         NEW c, c[lay.start[n] + j] = b[lay.start[n] + j],
         NEW s, Mid(b, n, j, s)
  PROVE  Mid(b, n, j + 1, Read(c, s, lay.start[n] + j))
<1> DEFINE k == lay.start[n] + j
           w == Nesting(item)[n]
           i == item[n]
<1>1. /\ lay.start[n] \in Nat \ {0} /\ ItemLen(i) \in Nat \ {0} /\ i \in Item
      /\ lay.start[n + 1] = lay.start[n] + ItemLen(i)
  BY CellIs, EnclosureIs
<1>2. k \in Cell(n) /\ k - 1 \in Nat /\ (k - 1) + 1 = k /\ lay.start[n] + j - 1 = k - 1
      /\ lay.start[n] + (j + 1) - 1 = k /\ j + 1 # 0
  BY <1>1 DEF Cell
<1>3. Past(n, j) = w
  <2>1. CASE j = 0
    BY <2>1 DEF Past
  <2>2. CASE j # 0
    <3>1. ItemLen(item[n]) > 1
      BY <1>1, <2>2
    <3> QED BY <2>2, <3>1, LongItem DEF Past
  <2> QED BY <2>1, <2>2
<1>4. PICK o : /\ s = Reader(o, SkipAt(b, n, j), NextAt(b, n, j), FoundBy(b, k - 1))
               /\ OpenAt(b, w, o, k - 1)
  BY <1>2, <1>3 DEF Mid
<1>5. There(b, n) => j >= Extent(b, n) /\ Extent(b, n) \in Nat \ {0} /\ i.kind \notin Containers \cup Ends
                     /\ Extent(b, n) >= 2
                     /\ b[k] = Nop /\ k \in Slack(n)
  <2> SUFFICES ASSUME There(b, n)
               PROVE  /\ Extent(b, n) \in Nat \ {0} /\ i.kind \notin Containers \cup Ends
                      /\ Extent(b, n) >= 2
                      /\ b[k] = Nop /\ k \in Slack(n)
    OBVIOUS
  <2>1. /\ Extent(b, n) \in 1..ItemLen(i)
        /\ i.kind \notin Containers \cup Ends => Extent(b, n) >= 2
        /\ \A q \in Extent(b, n)..(ItemLen(i) - 1) : b[lay.start[n] + q] = Nop /\ lay.start[n] + q \in Slack(n)
    BY Readable DEF Legible
  <2>2. j \in Extent(b, n)..(ItemLen(i) - 1) /\ ItemLen(i) > 1
    BY <1>1, <2>1
  <2> QED BY <2>1, <2>2, LongItem
<1>6. b[k] = Nop
  <2>1. ~There(b, n) => b[k] = Nop
    BY <1>2 DEF Legible, Sound, Solid
  <2> QED BY <1>5, <2>1
<1>7. /\ SkipAt(b, n, j) = 0 /\ NextAt(b, n, j) = "header"
      /\ SkipAt(b, n, j + 1) = 0 /\ NextAt(b, n, j + 1) = "header"
  BY <1>1, <1>5 DEF SkipAt, NextAt
<1> DEFINE o2 == Counted(o)
<1>8. w \in Seq(Boxes(item)) /\ Nesting(item)[n + 1] = Around(item, n, w)
  BY WithinIs
<1>9. Last(o).nops # MaxNops /\ OpenAt(b, w, o2, k)
  <2>1. k \in Blank(Level(w, Len(o)))
    BY <1>2, <1>4, <1>5, NopBelongs DEF Ends
  <2> DEFINE h == k - 1
  <2>2. h \in Nat /\ h + 1 = k /\ OpenAt(b, w, o, h)
    BY <1>2, <1>4
  <2> HIDE DEF h, w, k
  <2> QED BY <1>8, <2>1, <2>2, OpenNop
<1>10. Read(c, s, k) = Reader(o2, 0, "header", FoundBy(b, k - 1))
  <2>1. c[k] = Nop
    BY <1>6
  <2>2. s = Reader(o, 0, "header", FoundBy(b, k - 1))
    BY <1>4, <1>7
  <2> DEFINE F == FoundBy(b, k - 1)
  <2> HIDE DEF k, F
  <2>3. Read(c, Reader(o, 0, "header", F), k) = Reader(Counted(o), 0, "header", F)
    BY <1>9, <2>1, ReadNop
  <2>4. s = Reader(o, 0, "header", F)
    BY <2>2 DEF F
  <2> QED BY <2>3, <2>4 DEF F
<1> HIDE DEF o2
<1>11. FoundBy(b, k) = FoundBy(b, k - 1)
  <2>1. FoundBy(b, k) = FoundBy(b, k - 1) \cup IF j = 0 /\ There(b, n) /\ n \in Declared THEN {Row(n)} ELSE {}
    BY FoundOn
  <2>2. ~(j = 0 /\ There(b, n))
    OBVIOUS
  <2> QED BY <2>1, <2>2
<1>12. OpenAt(b, Past(n, j + 1), o2, k)
  <2>1. Past(n, j + 1) = Around(item, n, w)
    BY <1>2, <1>8 DEF Past
  <2>2. CASE Around(item, n, w) = w
    BY <1>9, <2>1, <2>2
  <2>3. CASE Around(item, n, w) # w
    <3>1. j = 0 /\ ~There(b, n) /\ i.kind \in Containers \cup Ends
      <4>1. i.kind \in Containers \cup Ends
        BY <2>3 DEF Around
      <4> QED BY <1>1, <1>5, <4>1, LongItem
    <3>2. CASE i.kind \in Containers
      <4>1. Around(item, n, w) = Append(w, n) /\ n \in Boxes(item)
        BY <3>2, BoxIs DEF Around, Containers, Ends
      <4> QED BY <1>8, <1>9, <2>1, <3>1, <4>1, OpenMore
    <3>3. CASE i.kind \in Ends
      <4>1. w # <<>> /\ Around(item, n, w) = Front(w)
        BY <2>3, <3>3 DEF Around, Containers, Ends
      <4>2. ~There(b, Last(w))
        <5> DEFINE a == Last(w)
        <5>1. Len(w) \in 1..Len(w) /\ a = w[Len(w)]
          BY <1>8, <4>1, EmptySeq DEF Last
        <5>2. a \in Enclosing(n) /\ Enclosing(n) = {w[q] : q \in 1..Len(w)}
          BY <5>1, WithinIs
        <5>3. Enclosing(n) = {w[q] : q \in 1..Len(w)} /\ a \in Items
              /\ \A m \in Enclosing(n) : m = a \/ m \in Enclosing(a)
          <6>1. \A q \in 1..Len(w) : w[q] \in Items
                   /\ Enclosing(w[q]) = {w[u] : u \in 1..(q - 1)}
            BY WithinIs
          <6>2. \A q \in 1..Len(w) : q = Len(w) \/ q \in 1..(Len(w) - 1)
            BY <5>1
          <6> QED BY <5>1, <5>2, <6>1, <6>2
        <5>4. ~item[n].optional
          BY <3>3, BuiltIs DEF Compiles, Grammatical, Items
        <5>5. ASSUME There(b, a) PROVE FALSE
          <6>1. Clean(b) /\ Standing(b)
            BY CleanIs DEF Legible, Sound
          <6>2. \A m \in Enclosing(n) : There(b, m)
            BY <5>3, <5>5, <6>1 DEF Clean
          <6> QED BY <3>1, <5>4, <6>1, <6>2 DEF Standing
        <5> QED BY <5>5
      <4> QED BY <1>8, <1>9, <2>1, <4>1, <4>2, OpenDrop
    <3> QED BY <3>1, <3>2, <3>3
  <2> QED BY <2>2, <2>3
<1>13. Mid(b, n, j + 1, Read(c, s, k))
  BY <1>2, <1>7, <1>10, <1>11, <1>12 DEF Mid
<1> QED BY <1>13

-----------------------------------------------------------------------------
(* What is open at an item that is there.                                   *)

(* The containers around an item that is there are open.                    *)
AllOpen(b, n, o) ==
  LET w == Nesting(item)[n]
  IN  /\ Len(o) = Len(w) + 1 /\ Len(o) \in Nat
      /\ \A i \in 1..Len(w) : There(b, w[i])
      /\ Last(o).at = PlaceOf(n)
      /\ w = <<>> => Last(o).kind = "object"
      /\ w # <<>> => /\ Last(w) \in Items /\ There(b, Last(w))
                     /\ item[Last(w)].kind \in Containers
                     /\ Last(o).kind = Sti[item[Last(w)].kind]

LEMMA TopIs ==
  ASSUME Built, NEW b, Legible(b), NEW n \in Items, There(b, n),
         NEW o, NEW x, OpenAt(b, Nesting(item)[n], o, x)
  PROVE  AllOpen(b, n, o)
<1> DEFINE w == Nesting(item)[n]
<1>1. /\ w = lay.within[n] /\ w \in Seq(Boxes(item)) /\ Len(w) \in Nat
      /\ Enclosing(n) = {w[i] : i \in 1..Len(w)}
      /\ \A p \in 1..Len(w) : w[p] \in Items /\ item[w[p]].kind \in Containers
  BY WithinIs
<1>2. Clean(b)
  BY CleanIs DEF Legible
<1> HIDE DEF w
<1>3. \A i \in 1..Len(w) : There(b, w[i])
  BY <1>1, <1>2 DEF Clean
<1>4. Len(o) = Len(w) + 1 /\ Len(o) \in Nat
  <2>1. Len(o) \in 1..(Len(w) + 1) /\ \A i \in 1..Len(w) : i < Len(o)
    BY <1>3 DEF OpenAt, w
  <2>2. Len(w) = 0 \/ Len(w) \in 1..Len(w)
    BY <1>1
  <2> QED BY <1>1, <2>1, <2>2
<1>5. Frame(Last(o), Level(w, Len(o)), x)
  <2>1. Len(o) \in 1..Len(o)
    BY <1>1, <1>4
  <2> QED BY <2>1 DEF OpenAt, w, Last
<1>6. w = <<>> <=> Len(w) = 0
  BY <1>1, EmptySeq
<1>7. CASE w = <<>>
  <2>1. Level(w, Len(o)) = 0
    BY <1>4, <1>6, <1>7 DEF Level
  <2>2. PlaceOf(n) = 0
    BY <1>1, <1>7 DEF PlaceOf
  <2> QED BY <1>3, <1>4, <1>5, <1>7, <2>1, <2>2 DEF Frame, w, AllOpen
<1>8. CASE w # <<>>
  <2>1. Len(w) \in 1..Len(w) /\ Last(w) = w[Len(w)]
    BY <1>1, <1>6, <1>8 DEF Last
  <2>2. Level(w, Len(o)) = Last(w)
    BY <1>1, <1>4, <2>1 DEF Level
  <2>3. PlaceOf(n) = lay.start[Last(w)]
    BY <1>1, <1>8 DEF PlaceOf
  <2>4. Last(w) \in Items /\ item[Last(w)].kind \in Containers /\ There(b, Last(w)) /\ Last(w) # 0
    <3> DEFINE q == Len(w)
               c == Last(w)
    <3>1. q \in 1..Len(w) /\ c = w[q]
      BY <2>1
    <3> HIDE DEF q, c
    <3>2. c \in Items /\ item[c].kind \in Containers /\ There(b, c)
      BY <1>1, <1>3, <3>1
    <3>3. c # 0
      <4>1. Items = 1..Len(item)
        BY BuiltIs
      <4> QED BY <3>2, <4>1
    <3> QED BY <3>2, <3>3 DEF c
  <2> DEFINE c == Last(w)
  <2> HIDE DEF c
  <2>5. Frame(Last(o), c, x) /\ c # 0
    BY <1>5, <2>2, <2>4 DEF c
  <2>6. Last(o).kind = Sti[item[c].kind] /\ Last(o).at = lay.start[c]
    BY <2>5 DEF Frame
  <2> QED BY <1>3, <1>4, <1>8, <2>3, <2>4, <2>6 DEF w, c, AllOpen
<1> QED BY <1>7, <1>8

(* What the compiler has checked of an item.                                *)
LEMMA ItemChecked ==
  ASSUME Built, NEW n \in Items
  PROVE  LET i == item[n]
             w == Nesting(item)[n]
         IN  /\ i \in Item
             /\ i.kind \in DOMAIN Sti => sti[i.code] = Sti[i.kind]
             /\ w # <<>> /\ i.kind \notin Ends
                  => (item[Last(w)].kind # "object" => i.kind = "object")
             /\ i.kind \in Ends => w # <<>> /\ i.kind = EndOf(item[Last(w)].kind)
             /\ i.kind \in Containers => Len(w) + 1 <= MaxWalkDepth
<1>1. /\ Compiles(item) /\ Items = 1..Len(item) /\ Len(item) \in Nat /\ item[n] \in Item
      /\ Nesting(item)[n] \in Seq(Boxes(item)) /\ Len(Nesting(item)[n]) \in Nat
  BY BuiltIs, EnclosureIs, WithinIs
<1>2. Grammatical(item) /\ Typed(item) /\ Shallow(item)
  BY <1>1 DEF Compiles
<1>3. item[n].kind \in DOMAIN Sti => sti[item[n].code] = Sti[item[n].kind]
  BY <1>2 DEF Typed, Items
<1>4. /\ Nesting(item)[n] # <<>> /\ item[n].kind \notin Ends
           => (item[Last(Nesting(item)[n])].kind # "object" => item[n].kind = "object")
      /\ item[n].kind \in Ends
           => Nesting(item)[n] # <<>> /\ item[n].kind = EndOf(item[Last(Nesting(item)[n])].kind)
  BY <1>2 DEF Grammatical, Items
<1>5. item[n].kind \in Containers => Len(Nesting(item)[n]) + 1 < MaxDepth
  BY <1>2 DEF Shallow, Items
<1>6. item[n].kind \in Containers => Len(Nesting(item)[n]) + 1 <= MaxWalkDepth
  <2>1. MaxDepth \in Nat /\ MaxWalkDepth \in Nat /\ MaxDepth - 1 <= MaxWalkDepth
    BY Constants, DepthAssumption
  <2> QED BY <1>1, <1>5, <2>1
<1> QED BY <1>1, <1>3, <1>4, <1>6

-----------------------------------------------------------------------------
(* The first byte of an item.                                               *)

(* The first byte of an item that is there.                                 *)
LEMMA FirstStep ==
  ASSUME Built, NEW b, Legible(b), NEW n \in Items, item[n].kind # "details", There(b, n),
         NEW c, c[lay.start[n]] = b[lay.start[n]],
         NEW s, Mid(b, n, 0, s)
  PROVE  Mid(b, n, 1, Read(c, s, lay.start[n]))
<1> DEFINE k == lay.start[n]
           w == Nesting(item)[n]
           i == item[n]
           F == FoundBy(b, k - 1)
           F2 == FoundBy(b, k)
<1>1. /\ k \in Nat \ {0} /\ k - 1 \in Nat /\ (k - 1) + 1 = k /\ k + 1 - 1 = k /\ k + 0 - 1 = k - 1
      /\ ItemLen(i) \in Nat \ {0} /\ 0 \in 0..(ItemLen(i) - 1) /\ k = k + 0
      /\ i \in Item
  BY CellIs, EnclosureIs
<1>2. /\ w \in Seq(Boxes(item)) /\ Len(w) \in Nat
      /\ Nesting(item)[n + 1] = Around(item, n, w)
  BY WithinIs
<1>3. PICK o : s = Reader(o, 0, "header", F) /\ OpenAt(b, w, o, k - 1)
  <2>1. PICK o : /\ s = Reader(o, SkipAt(b, n, 0), NextAt(b, n, 0), FoundBy(b, lay.start[n] + 0 - 1))
                 /\ OpenAt(b, Past(n, 0), o, lay.start[n] + 0 - 1)
    BY DEF Mid
  <2>2. SkipAt(b, n, 0) = 0 /\ NextAt(b, n, 0) = "header" /\ Past(n, 0) = w
    BY DEF SkipAt, NextAt, Past
  <2>3. lay.start[n] + 0 - 1 = k - 1
    BY <1>1
  <2> QED BY <2>1, <2>2, <2>3
<1>4. /\ Len(o) = Len(w) + 1 /\ Len(o) \in Nat
      /\ \A q \in 1..Len(w) : There(b, w[q])
      /\ Last(o).at = PlaceOf(n)
      /\ w = <<>> => Last(o).kind = "object"
      /\ w # <<>> => /\ Last(w) \in Items /\ There(b, Last(w))
                     /\ item[Last(w)].kind \in Containers
                     /\ Last(o).kind = Sti[item[Last(w)].kind]
  <2> DEFINE h == k - 1
  <2>1. OpenAt(b, Nesting(item)[n], o, h)
    BY <1>3
  <2> HIDE DEF h
  <2>2. AllOpen(b, n, o)
    BY <2>1, TopIs
  <2> QED BY <2>2 DEF AllOpen
<1>5. /\ i.kind \in DOMAIN Sti => sti[i.code] = Sti[i.kind]
      /\ w # <<>> /\ i.kind \notin Ends
           => (item[Last(w)].kind # "object" => i.kind = "object")
      /\ i.kind \in Ends => w # <<>> /\ i.kind = EndOf(item[Last(w)].kind)
      /\ i.kind \in Containers => Len(w) + 1 <= MaxWalkDepth
  BY ItemChecked
<1>6. /\ b[k] = First(i) /\ Extent(b, n) \in 1..ItemLen(i)
      /\ i.kind \notin Containers \cup Ends => Extent(b, n) >= 2
  BY Readable DEF Legible
<1>7. OpenAt(b, w, o, k)
  <2> DEFINE h == k - 1
  <2>1. h \in Nat /\ h + 1 = k /\ OpenAt(b, w, o, h)
    BY <1>1, <1>3
  <2> HIDE DEF h, w, k
  <2> QED BY <1>2, <2>1, OpenOn
<1>8. F2 = F \cup IF n \in Declared THEN {Row(n)} ELSE {}
  <2>1. FoundBy(b, k) = FoundBy(b, k - 1) \cup IF 0 = 0 /\ There(b, n) /\ n \in Declared THEN {Row(n)} ELSE {}
    BY <1>1, FoundOn
  <2> QED BY <2>1
<1>9. n \in Declared <=> i.kind \in DOMAIN Sti
  BY DEF Declared
<1>10. ASSUME NEW o2, NEW skip, skip = SkipAt(b, n, 1), NEW next, next = NextAt(b, n, 1),
              Read(c, s, k) = Reader(o2, skip, next, F2), OpenAt(b, Around(item, n, w), o2, k)
       PROVE  Mid(b, n, 1, Read(c, s, k))
  <2>1. Past(n, 1) = Around(item, n, w) /\ lay.start[n] + 1 - 1 = k
    BY <1>1, <1>2 DEF Past
  <2> QED BY <1>10, <2>1 DEF Mid
<1>11. c[k] = First(i)
  BY <1>6
<1> HIDE DEF k, w, i, F, F2
<1>12. CASE i.kind \in Ends
  <2>1. w # <<>> /\ i.kind = EndOf(item[Last(w)].kind) /\ ~(i.kind \in DOMAIN Sti)
    BY <1>5, <1>12 DEF Ends, Sti
  <2> DEFINE kind == item[Last(w)].kind
  <2>2. c[k] = <<EndOf(kind), 0>>
    BY <1>11, <1>12, <2>1 DEF First
  <2>3. Len(o) > 1 /\ kind \in Containers /\ Last(o).kind = Sti[kind]
    <3>1. Len(w) # 0
      BY <1>2, <2>1, EmptySeq
    <3> QED BY <1>2, <1>4, <2>1, <3>1
  <2> HIDE DEF kind
  <2>4. Read(c, Reader(o, 0, "header", F), k) = Reader(Front(o), 0, "header", F)
    BY <2>2, <2>3, ReadEnd
  <2>5. F2 = F
    BY <1>8, <1>9, <2>1
  <2>6. Around(item, n, w) = Front(w)
    BY <1>12, <2>1 DEF Around, Ends, Containers, i
  <2>7. OpenAt(b, Front(w), Front(o), k)
    <3>1. 0 \notin Boxes(item)
      BY BoxIs
    <3> QED BY <1>2, <1>4, <1>7, <2>1, <3>1, OpenPop
  <2>8. SkipAt(b, n, 1) = 0 /\ NextAt(b, n, 1) = "header"
    <3>1. Extent(b, n) = 1 /\ Plainkind(n)
      BY <1>12, ExtentIs DEF Plainkind, i
    <3> QED BY <3>1 DEF SkipAt, NextAt
  <2> QED BY <1>3, <1>10, <2>4, <2>5, <2>6, <2>7, <2>8 DEF k
<1>13. ASSUME i.kind \in DOMAIN Sti
       PROVE  /\ c[k] = Header(i.code) /\ sti[i.code] = Sti[i.kind]
              /\ F2 = Adding(F, k, i.code, o)
              /\ Last(o).kind = "array" => Sti[i.kind] = "object"
  <2>1. i.kind \notin Ends
    BY <1>13 DEF Sti, Ends
  <2>2. Last(o).kind = "array" => w # <<>> /\ item[Last(w)].kind # "object"
    BY <1>4 DEF Sti, Containers
  <2>3. Last(o).kind = "array" => Sti[i.kind] = "object"
    BY <1>5, <2>1, <2>2 DEF Sti
  <2> QED BY <1>4, <1>5, <1>8, <1>9, <1>11, <1>13, <2>1, <2>3 DEF First, Row, Adding, k, i
<1>14. CASE i.kind \in Containers
  <2>1. i.kind \in DOMAIN Sti /\ Sti[i.kind] \in {"object", "array"}
    BY <1>14 DEF Sti, Containers
  <2> DEFINE fr == Fresh(Sti[i.kind], k)
  <2>2. Read(c, Reader(o, 0, "header", F), k) = Reader(Append(o, fr), 0, "header", F2)
    <3> DEFINE type == Sti[i.kind]
               code == i.code
    <3>1. type = sti[code] /\ type \in {"object", "array"} /\ c[k] = Header(code)
          /\ F2 = Adding(F, k, code, o)
          /\ (Last(o).kind = "array" => type = "object")
      BY <1>13, <2>1
    <3>2. Len(o) <= MaxWalkDepth /\ Len(o) \in Nat
      BY <1>4, <1>5, <1>14
    <3> HIDE DEF type, code
    <3>3. Read(c, Reader(o, 0, "header", F), k)
            = Reader(Append(o, Fresh(type, k)), 0, "header",
                     Adding(F, k, code, o))
      BY <3>1, <3>2, ReadBox
    <3> QED BY <3>1, <3>3 DEF type
  <2>3. Around(item, n, w) = Append(w, n) /\ n \in Boxes(item)
    <3>1. n \in Boxes(item)
      BY <1>14, BoxIs DEF i
    <3>2. Around(item, n, w) = Append(w, n)
      <4>1. item[n].kind \in Containers
        BY <1>14 DEF i
      <4> QED BY <4>1 DEF Around, Containers, Ends
    <3> QED BY <3>1, <3>2
  <2>4. OpenAt(b, Append(w, n), Append(o, fr), k)
    <3>1. k \in Nat
      BY <1>1
    <3> QED BY <1>2, <1>4, <1>7, <2>3, <3>1, OpenPush DEF k, i, Fresh
  <2>5. SkipAt(b, n, 1) = 0 /\ NextAt(b, n, 1) = "header"
    <3>1. Extent(b, n) = 1 /\ Plainkind(n)
      BY <1>14, ExtentIs DEF Plainkind, i
    <3> QED BY <3>1 DEF SkipAt, NextAt
  <2> HIDE DEF fr
  <2> QED BY <1>3, <1>10, <2>2, <2>3, <2>4, <2>5 DEF k
<1>15. CASE i.kind \in {"type", "scalar", "native", "issued", "any", "empty", "fixed", "vl"}
  <2>1. i.kind \in DOMAIN Sti /\ i.kind \notin Containers \cup Ends
        /\ Sti[i.kind] \in {"scalar", "amount", "vl"}
        /\ (Sti[i.kind] = "scalar" <=> i.kind \in {"type", "scalar"})
    BY <1>15 DEF Sti, Containers, Ends
  <2>2. Around(item, n, w) = w
    BY <2>1 DEF Around, i
  <2> DEFINE type == Sti[i.kind]
             code == i.code
  <2>3. type = sti[code] /\ type \in {"scalar", "amount", "vl"} /\ c[k] = Header(code)
        /\ F2 = Adding(F, k, code, o)
        /\ (Last(o).kind = "array" => type = "object")
    BY <1>13, <2>1
  <2>4. Extent(b, n) >= 2 /\ (Plainkind(n) <=> type = "scalar")
        /\ (type = "scalar" => Extent(b, n) = 2)
    BY <1>6, <2>1, ExtentIs DEF Plainkind, i
  <2> HIDE DEF type, code
  <2>6. CASE type = "scalar"
    <3> DEFINE one == SkipAt(b, n, 1)
    <3>1. one = 1 /\ NextAt(b, n, 1) = "header"
      BY <2>4, <2>6 DEF SkipAt, NextAt
    <3>2. c[k] = Header(code) /\ sti[code] = "scalar" /\ Last(o).kind # "array"
      BY <2>3, <2>6
    <3> HIDE DEF one
    <3>3. Read(c, Reader(o, 0, "header", F), k) = Reader(o, one, "header", Adding(F, k, code, o))
      BY <3>1, <3>2, ReadScalar
    <3>4. Read(c, s, k) = Reader(o, one, "header", F2)
      BY <1>3, <2>3, <3>3
    <3> QED BY <1>7, <1>10, <2>2, <3>1, <3>4 DEF k, one
  <2>7. CASE type # "scalar"
    <3>1. SkipAt(b, n, 1) = 0 /\ NextAt(b, n, 1) = type
      <4>1. SkipAt(b, n, 1) = 0 /\ NextAt(b, n, 1) = sti[i.code]
        BY <2>4, <2>7 DEF SkipAt, NextAt, i
      <4> QED BY <2>3, <4>1 DEF code
    <3>2. Read(c, Reader(o, 0, "header", F), k) = Reader(o, 0, type, F2)
      <4>1. type \in {"amount", "vl"} /\ Last(o).kind # "array"
        BY <2>3, <2>7
      <4> QED BY <2>3, <4>1, ReadLeaf
    <3> QED BY <1>3, <1>7, <1>10, <2>2, <3>1, <3>2 DEF k
  <2> QED BY <2>6, <2>7
<1>16. i.kind \in Containers \cup Ends \cup {"type", "scalar", "native", "issued", "any", "empty", "fixed", "vl"}
  BY <1>1, ItemIs DEF Containers, Ends, i
<1> QED BY <1>12, <1>14, <1>15, <1>16 DEF k

-----------------------------------------------------------------------------
(* The other bytes of an item.                                              *)

(* A byte of an item that is there, after the first: no container is opened *)
(* or closed, and no field is found.                                        *)
LEMMA LaterByte ==
  ASSUME Built, NEW b, NEW n \in Items, item[n].kind # "details",
         NEW j \in 1..(ItemLen(item[n]) - 1), NEW s, Mid(b, n, j, s)
  PROVE  LET k == lay.start[n] + j
         IN  /\ \E o : /\ s = Reader(o, SkipAt(b, n, j), NextAt(b, n, j), FoundBy(b, k - 1))
                       /\ OpenAt(b, Nesting(item)[n], o, k)
             /\ \A o, t : /\ t = Reader(o, SkipAt(b, n, j + 1), NextAt(b, n, j + 1), FoundBy(b, k - 1))
                          /\ OpenAt(b, Nesting(item)[n], o, k)
                          => Mid(b, n, j + 1, t)
<1> DEFINE k == lay.start[n] + j
           w == Nesting(item)[n]
<1>1. /\ lay.start[n] \in Nat \ {0} /\ ItemLen(item[n]) \in Nat \ {0}
      /\ w \in Seq(Boxes(item))
  BY CellIs, WithinIs
<1>2. /\ j # 0 /\ j + 1 # 0 /\ ItemLen(item[n]) > 1 /\ j \in 0..(ItemLen(item[n]) - 1)
      /\ lay.start[n] + j - 1 = k - 1 /\ lay.start[n] + (j + 1) - 1 = k
      /\ k - 1 \in Nat /\ (k - 1) + 1 = k
  BY <1>1
<1>3. Past(n, j) = w /\ Past(n, j + 1) = w
  BY <1>2, LongItem DEF Past
<1>4. FoundBy(b, k) = FoundBy(b, k - 1)
  <2>1. \A x \in Declared : x \in Items
    BY DEF Declared
  <2>2. \A x \in Items : lay.start[x] \in Nat /\ lay.start[x] # k
    BY <1>2, StartsOrder
  <2>3. \A x \in Declared : lay.start[x] <= k <=> lay.start[x] <= k - 1
    BY <1>2, <2>1, <2>2
  <2> QED BY <2>3 DEF FoundBy
<1>5. PICK o : /\ s = Reader(o, SkipAt(b, n, j), NextAt(b, n, j), FoundBy(b, k - 1))
               /\ OpenAt(b, w, o, k - 1)
  BY <1>2, <1>3 DEF Mid
<1>6. OpenAt(b, w, o, k)
  <2> DEFINE h == k - 1
  <2>1. h \in Nat /\ h + 1 = k /\ OpenAt(b, w, o, h)
    BY <1>2, <1>5
  <2> HIDE DEF h, w, k
  <2> QED BY <1>1, <2>1, OpenOn
<1>7. ASSUME NEW p, NEW t,
             t = Reader(p, SkipAt(b, n, j + 1), NextAt(b, n, j + 1), FoundBy(b, k - 1)),
             OpenAt(b, w, p, k)
      PROVE  Mid(b, n, j + 1, t)
  BY <1>2, <1>3, <1>4, <1>7 DEF Mid
<1> QED BY <1>5, <1>6, <1>7

(* The second byte of an amount or a blob tells how long it is.             *)
LEMMA SecondStep ==
  ASSUME Built, NEW b, Legible(b), NEW n \in Items, item[n].kind # "details", There(b, n),
         ~Plainkind(n), ItemLen(item[n]) > 1,
         NEW c, c[lay.start[n] + 1] = b[lay.start[n] + 1],
         NEW s, Mid(b, n, 1, s)
  PROVE  Mid(b, n, 2, Read(c, s, lay.start[n] + 1))
<1> DEFINE k == lay.start[n] + 1
           i == item[n]
           F == FoundBy(b, k - 1)
           t == Read(c, s, k)
           skip == SkipAt(b, n, 2)
<1>1. /\ ItemLen(i) \in Nat \ {0} /\ 1 \in 1..(ItemLen(i) - 1) /\ i \in Item /\ 1 + 1 = 2
  BY CellIs, EnclosureIs
<1>2. /\ i.kind \notin Containers \cup Ends => Extent(b, n) >= 2
      /\ Extent(b, n) \in 1..ItemLen(i)
      /\ i.kind \in {"empty", "fixed", "vl"} =>
           b[k][1] = "length" /\ SlotSize(b[k][2]) \in Nat \ {0}
  BY Readable DEF Legible
<1>3. i.kind \in {"native", "issued", "any"} \cup {"empty", "fixed", "vl"}
      /\ i.kind \notin Containers \cup Ends
  BY <1>1, ItemIs DEF Plainkind, Containers, Ends
<1>4. i.kind \in {"native", "issued", "any"} =>
        /\ Extent(b, n) = 1 + (IF b[k][1] = "native" THEN NativeLen ELSE IssuedLen)
        /\ sti[i.code] = "amount"
  <2>1. i.kind \in {"native", "issued", "any"} => sti[i.code] = "amount"
    BY ItemChecked DEF Sti
  <2> QED BY <2>1, ExtentIs
<1>5. i.kind \in {"empty", "fixed", "vl"} =>
        Extent(b, n) = 1 + SlotSize(b[k][2]) /\ sti[i.code] = "vl"
  <2>1. i.kind \in {"empty", "fixed", "vl"} => sti[i.code] = "vl"
    BY ItemChecked DEF Sti
  <2> QED BY <2>1, ExtentIs
<1>6. Extent(b, n) \in Nat /\ Extent(b, n) >= 2
  BY <1>1, <1>2, <1>3
<1>7. SkipAt(b, n, 1) = 0 /\ NextAt(b, n, 1) = sti[i.code] /\ NextAt(b, n, 2) = "header"
      /\ skip = Extent(b, n) - 2
  BY <1>6 DEF SkipAt, NextAt
<1>8. PICK o : s = Reader(o, 0, sti[i.code], F) /\ OpenAt(b, Nesting(item)[n], o, k)
  BY <1>1, <1>7, LaterByte
<1> HIDE DEF F
<1>9. t = Reader(o, skip, "header", F)
  <2>1. CASE i.kind \in {"native", "issued", "any"}
    <3> DEFINE length == IF b[k][1] = "native" THEN NativeLen ELSE IssuedLen
    <3>1. skip = length - 1 /\ c[k] = b[k]
      <4>1. length \in Nat
        BY TemplateConstants
      <4> HIDE DEF length, skip
      <4>2. Extent(b, n) = 1 + length
        BY <1>4, <2>1 DEF length
      <4> QED BY <1>7, <4>1, <4>2
    <3>2. Read(c, Reader(o, 0, "amount", F), k) = Reader(o, length - 1, "header", F)
      BY <3>1, ReadAmount
    <3> QED BY <1>4, <1>8, <2>1, <3>1, <3>2
  <2>2. CASE i.kind \in {"empty", "fixed", "vl"}
    <3>1. c[k] = b[k] /\ c[k][1] = "length"
      BY <1>2, <2>2
    <3>2. skip = SlotSize(c[k][2]) - 1
      BY <1>2, <1>5, <1>7, <2>2, <3>1
    <3>3. Read(c, Reader(o, 0, "vl", F), k) = Reader(o, SlotSize(c[k][2]) - 1, "header", F)
      BY <3>1, ReadVl
    <3> QED BY <1>5, <1>8, <2>2, <3>2, <3>3
  <2> QED BY <1>3, <2>1, <2>2
<1> HIDE DEF t, skip
<1>10. t = Reader(o, SkipAt(b, n, 1 + 1), NextAt(b, n, 1 + 1), FoundBy(b, k - 1))
  BY <1>1, <1>7, <1>9 DEF skip, F
<1>11. Mid(b, n, 1 + 1, t)
  BY <1>1, <1>8, <1>10, LaterByte
<1> QED BY <1>1, <1>11 DEF t

(* The bytes of a value are skipped.                                        *)
LEMMA SkipStep ==
  ASSUME Built, NEW b, NEW n \in Items, item[n].kind # "details", There(b, n),
         NEW j \in 1..(ItemLen(item[n]) - 1), Extent(b, n) \in Nat, j < Extent(b, n),
         j # 1 \/ Plainkind(n),
         NEW c, NEW s, Mid(b, n, j, s)
  PROVE  Mid(b, n, j + 1, Read(c, s, lay.start[n] + j))
<1> DEFINE k == lay.start[n] + j
           F == FoundBy(b, k - 1)
           t == Read(c, s, k)
           skip == SkipAt(b, n, j)
           skip2 == SkipAt(b, n, j + 1)
<1>1. j \in Nat \ {0} /\ j + 1 # 0 /\ j + 1 # 1
  BY CellIs
<1>2. skip \in Nat \ {0} /\ skip2 = skip - 1
  BY <1>1 DEF SkipAt
<1>3. NextAt(b, n, j) = "header" /\ NextAt(b, n, j + 1) = "header"
  BY <1>1 DEF NextAt
<1>4. PICK o : s = Reader(o, skip, "header", F) /\ OpenAt(b, Nesting(item)[n], o, k)
  BY <1>3, LaterByte
<1> HIDE DEF F, skip, skip2
<1>5. t = Reader(o, skip2, "header", F)
  BY <1>2, <1>4, ReadSkip
<1> HIDE DEF t
<1>6. t = Reader(o, SkipAt(b, n, j + 1), NextAt(b, n, j + 1), FoundBy(b, k - 1))
  BY <1>3, <1>5 DEF skip2, F
<1>7. Mid(b, n, j + 1, t)
  BY <1>4, <1>6, LaterByte
<1> QED BY <1>7 DEF t

(* Whatever the byte.                                                       *)
LEMMA ByteStep ==
  ASSUME Built, NEW b, Legible(b), NEW n \in Items, item[n].kind # "details",
         NEW j \in 0..(ItemLen(item[n]) - 1),
         NEW c, c[lay.start[n] + j] = b[lay.start[n] + j],
         NEW s, Mid(b, n, j, s)
  PROVE  Mid(b, n, j + 1, Read(c, s, lay.start[n] + j))
<1>1. ItemLen(item[n]) \in Nat \ {0} /\ lay.start[n] + 0 = lay.start[n] /\ 0 + 1 = 1 /\ 1 + 1 = 2
  BY CellIs
<1>2. There(b, n) => /\ Extent(b, n) \in 1..ItemLen(item[n])
                     /\ item[n].kind \notin Containers \cup Ends => Extent(b, n) >= 2
  BY Readable DEF Legible
<1>3. CASE ~There(b, n)
  BY <1>3, NopStep
<1>4. CASE There(b, n) /\ j = 0
  BY <1>1, <1>4, FirstStep
<1>5. CASE There(b, n) /\ j = 1 /\ ~Plainkind(n)
  <2>1. ItemLen(item[n]) > 1
    BY <1>1, <1>5
  <2> QED BY <1>1, <1>5, <2>1, SecondStep
<1>6. CASE There(b, n) /\ j >= 1 /\ j >= Extent(b, n)
  BY <1>6, NopStep
<1>7. CASE There(b, n) /\ j >= 1 /\ ~(j >= Extent(b, n)) /\ (j # 1 \/ Plainkind(n))
  <2>1. j \in 1..(ItemLen(item[n]) - 1) /\ Extent(b, n) \in Nat /\ j < Extent(b, n)
    BY <1>1, <1>2, <1>7
  <2> QED BY <1>7, <2>1, SkipStep
<1> QED BY <1>1, <1>3, <1>4, <1>5, <1>6, <1>7

(* After an item comes the next.                                            *)
LEMMA ItemStep ==
  ASSUME Built, NEW b, Legible(b), NEW n \in Items, item[n].kind # "details", NEW s,
         Mid(b, n, ItemLen(item[n]), s)
  PROVE  Mid(b, n + 1, 0, s)
<1> DEFINE L == ItemLen(item[n])
           k == lay.start[n] + L - 1
<1>1. /\ L \in Nat \ {0} /\ lay.start[n] \in Nat /\ lay.start[n + 1] = lay.start[n] + L
      /\ lay.start[n + 1] + 0 - 1 = k
  BY CellIs
<1>2. SkipAt(b, n, L) = 0 /\ NextAt(b, n, L) = "header"
  <2>1. There(b, n) => Extent(b, n) \in 1..L
    BY Readable DEF Legible
  <2>2. SkipAt(b, n, L) = 0
    BY <1>1, <2>1 DEF SkipAt
  <2>3. L = 1 /\ There(b, n) => Plainkind(n)
    <3>1. L = 1 /\ There(b, n) => Extent(b, n) < 2
      BY <2>1
    <3>2. There(b, n) /\ item[n].kind \notin Containers \cup Ends => Extent(b, n) >= 2
      BY Readable DEF Legible
    <3>3. L = 1 /\ There(b, n) => item[n].kind \in Containers \cup Ends
      <4> HIDE DEF L
      <4>1. There(b, n) => Extent(b, n) \in Nat
        BY <1>1, <2>1
      <4> QED BY <3>1, <3>2, <4>1
    <3> QED BY <3>3 DEF Plainkind
  <2> QED BY <2>2, <2>3 DEF NextAt
<1>3. Past(n, L) = Nesting(item)[n + 1] /\ Past(n + 1, 0) = Nesting(item)[n + 1]
  BY <1>1 DEF Past
<1>4. SkipAt(b, n + 1, 0) = 0 /\ NextAt(b, n + 1, 0) = "header"
  BY DEF SkipAt, NextAt
<1> HIDE DEF L
<1>5. PICK o : s = Reader(o, 0, "header", FoundBy(b, k)) /\ OpenAt(b, Nesting(item)[n + 1], o, k)
  BY <1>2, <1>3 DEF Mid, L
<1> QED BY <1>1, <1>3, <1>4, <1>5 DEF Mid

-----------------------------------------------------------------------------
(* The run of the parser over a template.                                   *)

(* What the parser makes of a blob is a run over its bytes.                 *)
LEMMA ParseIs ==
  ASSUME NEW B, NEW b \in Seq(B)
  PROVE  \E f : /\ IsRun(b, Len(b), f)
                /\ LET end == f[Len(b)]
                   IN  Parse(b) = [found |-> end.found,
                         ok |-> end.ok /\ end.skip = 0 /\ end.next = "header" /\ Len(end.open) = 1]
<1> DEFINE N == Len(b)
           F(g) == [k \in 0..N |-> IF k = 0 THEN Unread ELSE Read(b, g[k - 1], k)]
           after == CHOOSE g : g = F(g)
           Told2(end) == [found |-> end.found,
             ok |-> end.ok /\ end.skip = 0 /\ end.next = "header" /\ Len(end.open) = 1]
<1>1. N \in Nat
  OBVIOUS
<1>2. Parse(b) = Told2(after[N])
  BY DEF Parse
<1> HIDE DEF F, after, N, Told2
<1>3. PICK f : IsRun(b, N, f)
  BY <1>1, RunExists
<1>4. f = F(f)
  <2>1. \A k \in 0..N : f[k] = IF k = 0 THEN Unread ELSE Read(b, f[k - 1], k)
    <3> SUFFICES ASSUME NEW k \in 0..N
                 PROVE  f[k] = IF k = 0 THEN Unread ELSE Read(b, f[k - 1], k)
      OBVIOUS
    <3>1. k = 0 \/ k \in 1..N
      BY <1>1
    <3> QED BY <1>3, <3>1 DEF IsRun
  <2>2. f = [k \in 0..N |-> f[k]]
    BY <1>3 DEF IsRun
  <2> QED BY <2>1, <2>2 DEF F
<1>5. after = F(after)
  BY <1>4 DEF after
<1>6. IsRun(b, N, after)
  <2>1. \A k \in 0..N : after[k] = IF k = 0 THEN Unread ELSE Read(b, after[k - 1], k)
    BY <1>5 DEF F
  <2>2. 0 \in 0..N /\ \A k \in 1..N : k \in 0..N /\ k # 0
    BY <1>1
  <2>3. after[0] = Unread /\ \A k \in 1..N : after[k] = Read(b, after[k - 1], k)
    BY <2>1, <2>2
  <2>4. F(after) = [k \in 0..N |-> F(after)[k]] /\ DOMAIN F(after) = 0..N
    BY DEF F
  <2>5. after = [k \in 0..N |-> after[k]] /\ DOMAIN after = 0..N
    BY <1>5, <2>4
  <2> QED BY <2>3, <2>5 DEF IsRun
<1> QED BY <1>2, <1>6 DEF N, Told2

(* The parser reads an item, and so all of them.                            *)
LEMMA ItemRun ==
  ASSUME Built, NEW b, Legible(b), NEW n \in Items, item[n].kind # "details",
         NEW c, NEW m \in Nat, lay.start[n + 1] - 1 <= m, \A k \in Cell(n) : c[k] = b[k],
         NEW f, IsRun(c, m, f), Mid(b, n, 0, f[lay.start[n] - 1])
  PROVE  Mid(b, n + 1, 0, f[lay.start[n + 1] - 1])
<1> DEFINE L == ItemLen(item[n])
           at == lay.start[n]
           S == {j \in Nat : j <= L => Mid(b, n, j, f[at + j - 1])}
<1>1. L \in Nat \ {0} /\ at \in Nat \ {0} /\ lay.start[n + 1] = at + L
  BY CellIs
<1>2. 0 \in S
  <2>1. at + 0 - 1 = at - 1
    BY <1>1
  <2> QED BY <2>1
<1>3. ASSUME NEW j \in Nat, j \in S PROVE j + 1 \in S
  <2> SUFFICES ASSUME j + 1 <= L PROVE Mid(b, n, j + 1, f[at + (j + 1) - 1])
    OBVIOUS
  <2>1. /\ j \in 0..(L - 1) /\ at + j \in Cell(n) /\ at + j \in 1..m
        /\ at + (j + 1) - 1 = at + j /\ (at + j) - 1 = at + j - 1
    BY <1>1 DEF Cell
  <2>2. Mid(b, n, j, f[at + j - 1]) /\ c[at + j] = b[at + j]
    BY <1>1, <1>3, <2>1
  <2> DEFINE s == f[at + j - 1]
  <2>3. Mid(b, n, j, s)
    BY <2>2
  <2>4. f[at + j] = Read(c, s, at + j)
    <3> DEFINE k == at + j
    <3>1. k \in 1..m /\ s = f[k - 1]
      BY <2>1
    <3> HIDE DEF k, s
    <3>2. f[k] = Read(c, s, k)
      BY <3>1 DEF IsRun
    <3> QED BY <3>2 DEF k
  <2> HIDE DEF s
  <2>5. Mid(b, n, j + 1, Read(c, s, at + j))
    BY <2>1, <2>2, <2>3, ByteStep
  <2> QED BY <2>1, <2>4, <2>5
<1> HIDE DEF S
<1>4. Nat \subseteq S
  BY <1>2, <1>3, SetInduction
<1>5. Mid(b, n, L, f[at + L - 1])
  BY <1>1, <1>4 DEF S
<1> DEFINE s == f[lay.start[n + 1] - 1]
<1>6. Mid(b, n, L, s)
  BY <1>1, <1>5
<1> HIDE DEF s
<1>7. Mid(b, n + 1, 0, s)
  BY <1>6, ItemStep
<1> QED BY <1>7 DEF s

LEMMA FirstMid ==
  ASSUME Built, NEW b
  PROVE  Mid(b, 1, 0, Unread)
<1> DEFINE fr == [kind |-> "object", at |-> 0, nops |-> 0]
           o == <<fr>>
<1>1. lay.start[1] = 1 /\ \A x \in Items : lay.start[x] \in Nat \ {0}
  BY StartsOrder
<1>2. Nesting(item)[1] = <<>>
  BY BuiltIs, NestingIs
<1>3. FoundBy(b, 0) = {}
  <2>1. \A x \in Declared : x \in Items
    BY DEF Declared
  <2>2. \A x \in Declared : ~(lay.start[x] <= 0)
    BY <1>1, <2>1
  <2> QED BY <2>2 DEF FoundBy
<1>4. Unread = Reader(o, 0, "header", {})
  BY DEF Unread, Reader
<1>5. fr \in FrameRecord /\ fr.kind = "object" /\ fr.at = 0 /\ fr.nops = 0
  BY DEF FrameRecord
<1> HIDE DEF fr
<1>6. o \in Frames /\ Len(o) = 1 /\ o[1] = fr
  BY <1>5 DEF Frames
<1>7. Frame(fr, 0, 0)
  <2> DEFINE before == Cardinality(Blank(0) \cap 1..0)
  <2>1. before \in Nat
    BY BlankGrows
  <2>2. fr.nops <= before
    BY <1>5, <2>1
  <2> QED BY <1>5, <2>2 DEF Frame
<1> HIDE DEF o
<1>8. OpenAt(b, <<>>, o, 0)
  <2>1. Level(<<>>, 1) = 0
    BY DEF Level
  <2> QED BY <1>6, <1>7, <2>1 DEF OpenAt
<1>9. SkipAt(b, 1, 0) = 0 /\ NextAt(b, 1, 0) = "header" /\ Past(1, 0) = <<>>
  BY <1>2 DEF SkipAt, NextAt, Past
<1>10. lay.start[1] + 0 - 1 = 0
  BY <1>1
<1> QED BY <1>3, <1>4, <1>8, <1>9, <1>10 DEF Mid

(* Before the details the parser is at the top level and has found what is  *)
(* there.                                                                   *)
LEMMA RunMid ==
  ASSUME Built, NEW b, Legible(b), NEW c, NEW m \in Nat, DetailsAt - 1 <= m,
         \A k \in 1..(DetailsAt - 1) : c[k] = b[k], NEW f, IsRun(c, m, f)
  PROVE  Mid(b, Len(item), 0, f[DetailsAt - 1])
<1> DEFINE N == Len(item)
           S == {q \in Nat : q + 1 <= N => Mid(b, q + 1, 0, f[lay.start[q + 1] - 1])}
<1>1. /\ Items = 1..N /\ N \in Nat \ {0}
      /\ \A n \in Items : item[n].kind = "details" <=> n = N
  BY BuiltIs, EnclosureIs
<1>2. 0 \in S
  <2>1. lay.start[1] - 1 = 0 /\ f[0] = Unread
    BY StartsOrder DEF IsRun
  <2> QED BY <2>1, FirstMid
<1>3. ASSUME NEW q \in Nat, q \in S PROVE q + 1 \in S
  <2> SUFFICES ASSUME (q + 1) + 1 <= N
               PROVE  Mid(b, (q + 1) + 1, 0, f[lay.start[(q + 1) + 1] - 1])
    OBVIOUS
  <2> DEFINE n == q + 1
  <2>1. n \in Items /\ n # N /\ n + 1 \in Items /\ n + 1 <= N /\ N \in Items
    BY <1>1
  <2>2. Mid(b, n, 0, f[lay.start[n] - 1])
    BY <1>3, <2>1
  <2> HIDE DEF n
  <2>3. lay.start[n + 1] <= DetailsAt /\ lay.start[n] \in Nat \ {0}
        /\ DetailsAt \in Nat /\ lay.start[n + 1] \in Nat
    <3>1. n + 1 < N => lay.start[n + 1] < lay.start[N]
      BY <2>1, StartsOrder
    <3>2. lay.start[n] \in Nat \ {0} /\ lay.start[N] \in Nat /\ lay.start[n + 1] \in Nat
      BY <2>1, StartsOrder
    <3>3. n + 1 = N \/ n + 1 < N
      BY <1>1, <2>1
    <3> QED BY <3>1, <3>2, <3>3 DEF DetailsAt
  <2>4. \A k \in Cell(n) : c[k] = b[k]
    <3>1. \A k \in Cell(n) : k \in 1..(DetailsAt - 1)
      BY <2>3 DEF Cell
    <3> QED BY <3>1
  <2>5. lay.start[n + 1] - 1 <= m
    BY <2>3
  <2>6. Mid(b, n + 1, 0, f[lay.start[n + 1] - 1])
    BY <1>1, <2>1, <2>2, <2>4, <2>5, ItemRun
  <2> QED BY <2>6 DEF n
<1> HIDE DEF S
<1>4. Nat \subseteq S
  BY <1>2, <1>3, SetInduction
<1>5. PICK q \in Nat : q + 1 = N
  <2>1. N \in Nat \ {0}
    BY <1>1
  <2>2. N - 1 \in Nat /\ (N - 1) + 1 = N
    BY <2>1
  <2> QED BY <2>2
<1>6. q \in S /\ q + 1 = N /\ q \in Nat
  BY <1>4, <1>5
<1>7. Mid(b, q + 1, 0, f[lay.start[q + 1] - 1])
  <2>1. q + 1 <= N
    BY <1>1, <1>6
  <2> QED BY <1>6, <2>1 DEF S
<1> QED BY <1>6, <1>7 DEF DetailsAt

(* At the end of a template's fields the parser stands at the top level.    *)
LEMMA RunEnd ==
  ASSUME Built, NEW b, Legible(b), NEW c, NEW m \in Nat, DetailsAt - 1 <= m,
         \A k \in 1..(DetailsAt - 1) : c[k] = b[k], NEW f, IsRun(c, m, f)
  PROVE  \E o : /\ f[DetailsAt - 1] = Reader(o, 0, "header", FoundBy(b, DetailsAt - 1))
                /\ o \in Frames /\ Len(o) = 1
<1> DEFINE N == Len(item)
<1>1. Mid(b, N, 0, f[DetailsAt - 1])
  BY RunMid
<1>2. N \in Items /\ Nesting(item)[N] = <<>>
  <2>1. N \in Items /\ item[N].kind = "details"
    <3>1. Items = 1..N /\ N \in Nat /\ N > 0
      BY BuiltIs
    <3>2. N \in Items
      BY <3>1
    <3> QED BY <3>2, EnclosureIs
  <2>2. Enclosing(N) = {}
    BY <2>1, EnclosureIs
  <2> DEFINE w == Nesting(item)[N]
  <2>3. Len(w) \in Nat /\ Enclosing(N) = {w[i] : i \in 1..Len(w)} /\ w \in Seq(Boxes(item))
    BY <2>1, WithinIs
  <2> HIDE DEF w
  <2>4. Len(w) = 0
    <3>1. ~(1 \in 1..Len(w))
      BY <2>2, <2>3
    <3> QED BY <2>3, <3>1
  <2>5. w = <<>>
    BY <2>3, <2>4, EmptySeq
  <2> QED BY <2>1, <2>5 DEF w
<1>3. SkipAt(b, N, 0) = 0 /\ NextAt(b, N, 0) = "header" /\ Past(N, 0) = <<>>
  BY <1>2 DEF SkipAt, NextAt, Past
<1>4. lay.start[N] + 0 - 1 = DetailsAt - 1
  BY <1>2, StartsOrder DEF DetailsAt
<1>5. PICK o : /\ f[DetailsAt - 1] = Reader(o, 0, "header", FoundBy(b, DetailsAt - 1))
               /\ OpenAt(b, <<>>, o, DetailsAt - 1)
  BY <1>1, <1>3, <1>4 DEF Mid
<1>6. o \in Frames /\ Len(o) = 1
  <2> DEFINE w == <<>>
  <2>1. OpenAt(b, w, o, DetailsAt - 1) /\ Len(w) = 0
    BY <1>5
  <2> HIDE DEF w
  <2>2. o \in Frames /\ Len(o) \in 1..(Len(w) + 1)
    BY <2>1 DEF OpenAt
  <2> QED BY <2>1, <2>2
<1> QED BY <1>5, <1>6

-----------------------------------------------------------------------------
(* A template reads as it was declared.                                     *)

(* What is present is what is there: a container that is absent holds       *)
(* nothing.                                                                 *)
LEMMA PresentFound ==
  ASSUME Built, NEW b, Legible(b)
  PROVE  FoundBy(b, DetailsAt - 1) = {Row(n) : n \in {x \in Declared : IsPresent(b, x)}}
<1>1. \A x \in Declared : x \in Items /\ item[x].kind # "details"
  BY DEF Declared, Sti
<1>2. \A x \in Declared : IsPresent(b, x) <=> There(b, x)
  <2>1. Clean(b)
    BY CleanIs DEF Legible
  <2> QED BY <1>1, <2>1, PresentIs DEF Clean
<1>3. \A x \in Declared : lay.start[x] <= DetailsAt - 1
  <2> SUFFICES ASSUME NEW x \in Declared PROVE lay.start[x] <= DetailsAt - 1
    OBVIOUS
  <2> DEFINE N == Len(item)
  <2>1. Items = 1..N /\ N \in Nat /\ N > 0 /\ x \in Items /\ x # N
    BY <1>1, BuiltIs, EnclosureIs
  <2>2. x < N /\ N \in Items
    BY <2>1
  <2>3. lay.start[x] < lay.start[N] /\ lay.start[x] \in Nat /\ lay.start[N] \in Nat
    BY <2>1, <2>2, StartsOrder
  <2> QED BY <2>3 DEF DetailsAt
<1> QED BY <1>2, <1>3 DEF FoundBy

(* The part of a template before the details.                               *)
LEMMA FieldsPart ==
  ASSUME Built, NEW b \in Bytes(Int), NEW m \in Nat, m <= Len(lay.fresh)
  PROVE  LET c == SubSeq(b, 1, m)
         IN  c \in Seq(Byte(Int)) /\ Len(c) = m /\ \A k \in 1..m : c[k] = b[k]
<1>1. Len(lay.fresh) \in Nat
  BY BuiltIs DEF Shaped
<1>2. \A k \in 1..m : b[k] \in Byte(Int)
  BY <1>1 DEF Bytes
<1> QED BY <1>2

LEMMA DetailsPlace ==
  ASSUME Built
  PROVE  /\ DetailsAt \in Nat \ {0} /\ DetailsAt - 1 \in Nat
         /\ Len(lay.fresh) = DetailsAt - 1 + DetailsMaxLen /\ DetailsAt - 1 <= Len(lay.fresh)
         /\ PreparedLen = DetailsAt - 1 + DetailsLen /\ PreparedLen \in Nat
         /\ PreparedLen <= Len(lay.fresh)
         /\ DetailsLen \in Nat \ {0}
<1>1. DetailsAt \in Nat \ {0} /\ Len(lay.fresh) = DetailsAt - 1 + DetailsMaxLen
  BY BuiltIs DEF Shaped, DetailsAt, item
<1>2. DetailsMaxLen \in Nat /\ DetailsLen \in Nat \ {0} /\ DetailsLen <= DetailsMaxLen
  BY Constants
<1> QED BY <1>1, <1>2 DEF PreparedLen

(* A template without damage reads as it was declared.                      *)
LEMMA ReadsAsDeclared ==
  ASSUME Built, Sound(bytes), Formed(bytes)
  PROVE  ReadAsDeclared
<1> SUFFICES ASSUME ~Damaged(bytes)
             PROVE  LET walk == Parse(SubSeq(bytes, 1, DetailsAt - 1))
                    IN  /\ walk.ok
                        /\ walk.found = {Row(n) : n \in {x \in Declared : IsPresent(bytes, x)}}
  BY DEF ReadAsDeclared, Row, PlaceOf
<1> DEFINE m == DetailsAt - 1
           c == SubSeq(bytes, 1, m)
<1>1. Legible(bytes)
  BY DEF Legible
<1>2. c \in Seq(Byte(Int)) /\ Len(c) = m /\ \A k \in 1..m : c[k] = bytes[k]
  BY DetailsPlace, FieldsPart DEF Sound
<1> DEFINE B == Byte(Int)
<1>3. c \in Seq(B)
  BY <1>2
<1> HIDE DEF c, B
<1>4. PICK f : /\ IsRun(c, Len(c), f)
               /\ Parse(c) = [found |-> f[Len(c)].found,
                    ok |-> f[Len(c)].ok /\ f[Len(c)].skip = 0 /\ f[Len(c)].next = "header"
                           /\ Len(f[Len(c)].open) = 1]
  BY <1>3, ParseIs
<1>5. PICK o : /\ f[m] = Reader(o, 0, "header", FoundBy(bytes, m))
               /\ o \in Frames /\ Len(o) = 1
  BY <1>1, <1>2, <1>4, DetailsPlace, RunEnd
<1>6. /\ f[m].found = FoundBy(bytes, m) /\ f[m].ok = TRUE /\ f[m].skip = 0
      /\ f[m].next = "header" /\ f[m].open = o
  BY <1>5 DEF Reader
<1>7. Parse(c).found = FoundBy(bytes, m) /\ Parse(c).ok
  <2> DEFINE end == f[m]
             okay == end.ok /\ end.skip = 0 /\ end.next = "header" /\ Len(end.open) = 1
  <2>1. Parse(c) = [found |-> end.found, ok |-> okay]
    BY <1>2, <1>4
  <2>2. okay
    BY <1>5, <1>6
  <2> HIDE DEF okay
  <2>3. Parse(c).found = end.found /\ Parse(c).ok = okay
    BY <2>1
  <2> QED BY <1>6, <2>2, <2>3
<1> QED BY <1>1, <1>7, PresentFound DEF c

(* The calls keep what is in the template in shape.                         *)
ParseInv == FieldInv /\ Formed(bytes)

LEMMA ParseInitial ==
  ASSUME PathInit
  PROVE  ParseInv
<1>1. Built /\ bytes = lay.fresh
  BY DEF PathInit, TemplateInit, Built
<1>2. FieldInv
  BY <1>1, PathInitial, FreshIsSound DEF FieldInv
<1> QED BY <1>1, <1>2, FreshForms DEF ParseInv

LEMMA ParseStep ==
  ASSUME ParseInv, [PathNext]_<<vars, templateVars>>
  PROVE  ParseInv'
<1>1. PathInv /\ Sound(bytes) /\ Formed(bytes) /\ Built /\ nonces \in Nat
  BY NoncesAre DEF ParseInv, FieldInv, PathInv, Built
<1>2. ASSUME UNCHANGED lay, Sound(bytes'), Formed(bytes')
      PROVE  Sound(bytes)' /\ Formed(bytes)'
  <2>1. Sound(bytes)'
    BY <1>2 DEF Sound, Solid, Rooted, Standing, There, Cell, Enclosing, Items, item, Bytes
  <2>2. Formed(bytes)'
    BY <1>2 DEF Formed, FormedAt, CellOf, There, Enclosing, Items, item
  <2> QED BY <2>1, <2>2
<1>3. CASE Next /\ UNCHANGED templateVars
  <2>1. UNCHANGED <<lay, bytes>>
    BY <1>3 DEF templateVars, compiled
  <2> QED BY <1>1, <1>2, <1>3, <2>1, PathWriter DEF ParseInv, FieldInv
<1>4. CASE TemplateNext /\ UNCHANGED <<writer, ret>>
  <2>1. UNCHANGED lay
    <3>1. Shaped(lay) /\ bytes \in Bytes(Foreign) /\ prepared \in 0..Len(lay.fresh)
      BY <1>1, LayoutShaped DEF PathInv
    <3> DEFINE D == Foreign
    <3>2. bytes \in Bytes(D)
      BY <3>1
    <3> HIDE DEF D
    <3>3. Stepped(D)
      BY <1>1, <1>4, <3>1, <3>2, TemplateStep
    <3> QED BY <3>3 DEF Stepped
  <2>2. Sound(bytes')
    <3>1. Fine(bytes') \/ bytes' = bytes
      BY <1>1, <1>4, TemplateFine
    <3> QED BY <1>1, <3>1 DEF Fine
  <2>3. Formed(bytes')
    BY <1>1, <1>4, TemplateForms
  <2> QED BY <1>1, <1>2, <1>4, <2>1, <2>2, <2>3, PathTemplate DEF ParseInv, FieldInv
<1>5. CASE UNCHANGED <<vars, templateVars>>
  <2>1. UNCHANGED <<lay, bytes>>
    BY <1>5 DEF templateVars, compiled
  <2> QED BY <1>1, <1>2, <1>5, <2>1, PathSame DEF ParseInv, FieldInv
<1> QED BY <1>3, <1>4, <1>5 DEF PathNext

(* Whatever a hook does with a template, of whatever declaration compiles,  *)
(* the host's parser finds the fields and containers that are present, at   *)
(* their places and in their containers, and nothing else, unless a setter  *)
(* left a field damaged (txn.rs:2386-2570, emit_walk.rs walk_fields).       *)
THEOREM TemplatesReadAsDeclared == PathSpec => []ReadAsDeclared
<1>1. ParseInv => ReadAsDeclared
  <2> SUFFICES ASSUME ParseInv PROVE ReadAsDeclared
    OBVIOUS
  <2>1. Built /\ Sound(bytes) /\ Formed(bytes)
    BY DEF ParseInv, FieldInv, PathInv, Built
  <2> QED BY <2>1, ReadsAsDeclared
<1>2. PathInit => ParseInv
  BY ParseInitial
<1>3. ParseInv /\ [PathNext]_<<vars, templateVars>> => ParseInv'
  BY ParseStep
<1> QED BY <1>1, <1>2, <1>3, PTL DEF PathSpec

-----------------------------------------------------------------------------
(* The blob that is prepared.                                               *)

LEMMA ReadDetails ==
  ASSUME NEW b, NEW o, NEW found, NEW k, b[k][1] = "details", Len(o) = 1,
         NEW found2, found2 = found \cup {<<k, "none", 0>>}, NEW skip, skip = DetailsLen - 1
  PROVE  Read(b, Reader(o, 0, "header", found), k) = Reader(o, skip, "header", found2)
<1> DEFINE s == Reader(o, 0, "header", found)
           t == ReadHeader(b, s, k)
<1>1. s.ok = TRUE /\ s.skip = 0 /\ s.next = "header" /\ s.open = o /\ s.found = found
  BY DEF Reader
<1>2. Read(b, s, k) = t
  BY <1>1 DEF Read
<1>3. t = [s EXCEPT !.found = @ \cup {<<k, "none", 0>>}, !.skip = DetailsLen - 1]
  BY <1>1 DEF ReadHeader
<1>4. t = [Reader(o, 0, "header", found) EXCEPT !.found = found2, !.skip = skip]
  BY <1>1, <1>3
<1> HIDE DEF s, t
<1>5. t = Reader(o, skip, "header", found2)
  BY ONLY <1>4 DEF Reader
<1> QED BY <1>2, <1>5 DEF s

(* A run steps over the bytes that it was told to skip.                     *)
LEMMA SkipRun ==
  ASSUME NEW b, NEW m \in Nat, NEW f, IsRun(b, m, f), NEW k \in Nat, NEW skip \in Nat,
         k + skip <= m, NEW o, NEW next, NEW found, f[k] = Reader(o, skip, next, found)
  PROVE  f[k + skip] = Reader(o, 0, next, found)
<1> DEFINE S == {j \in Nat : j <= skip => f[k + j] = Reader(o, skip - j, next, found)}
<1>1. 0 \in S
  BY DEF IsRun
<1>2. ASSUME NEW j \in Nat, j \in S PROVE j + 1 \in S
  <2> SUFFICES ASSUME j + 1 <= skip
               PROVE  f[k + (j + 1)] = Reader(o, skip - (j + 1), next, found)
    OBVIOUS
  <2> DEFINE h == k + j
             left == skip - j
  <2>1. f[h] = Reader(o, left, next, found) /\ left \in Nat \ {0} /\ h \in Nat
    BY <1>2
  <2>2. h + 1 \in 1..m /\ (h + 1) - 1 = h /\ h + 1 = k + (j + 1) /\ left - 1 = skip - (j + 1)
    OBVIOUS
  <2> HIDE DEF h, left
  <2>3. f[h + 1] = Read(b, f[h], h + 1)
    BY <2>2 DEF IsRun
  <2>4. Read(b, Reader(o, left, next, found), h + 1) = Reader(o, left - 1, next, found)
    BY <2>1, ReadSkip
  <2> QED BY <2>1, <2>2, <2>3, <2>4
<1> HIDE DEF S
<1>3. skip \in S
  BY <1>1, <1>2, SetInduction
<1>4. skip - skip = 0
  OBVIOUS
<1> QED BY <1>3, <1>4 DEF S

DetailsRow == <<DetailsAt, "none", 0>>

(* What is prepared parses, and what is found are the fields that are there *)
(* and the details.                                                         *)
LEMMA PreparedReads ==
  ASSUME Built, NEW b, Legible(b), b[DetailsAt][1] = "details"
  PROVE  LET walk == Parse(SubSeq(b, 1, PreparedLen))
         IN  walk.ok /\ walk.found = FoundBy(b, DetailsAt - 1) \cup {DetailsRow}
<1> DEFINE m == PreparedLen
           h == DetailsAt - 1
           skip == DetailsLen - 1
           c == SubSeq(b, 1, m)
           B == Byte(Int)
           rest == FoundBy(b, h)
           all == rest \cup {DetailsRow}
<1>1. c \in Seq(B) /\ Len(c) = m /\ \A k \in 1..m : c[k] = b[k]
  BY DetailsPlace, FieldsPart DEF Legible, Sound
<1>2. /\ h \in Nat /\ m \in Nat /\ h + 1 = DetailsAt /\ h + 1 \in 1..m /\ (h + 1) + skip = m
      /\ h <= m /\ skip \in Nat /\ (h + 1) - 1 = h /\ h + 1 \in Nat
  BY DetailsPlace
<1> HIDE DEF c, B
<1>3. PICK f : /\ IsRun(c, Len(c), f)
               /\ Parse(c) = [found |-> f[Len(c)].found,
                    ok |-> f[Len(c)].ok /\ f[Len(c)].skip = 0 /\ f[Len(c)].next = "header"
                           /\ Len(f[Len(c)].open) = 1]
  BY <1>1, ParseIs
<1>4. IsRun(c, m, f) /\ \A k \in 1..(DetailsAt - 1) : c[k] = b[k]
  BY <1>1, <1>2, <1>3
<1>5. PICK o : f[h] = Reader(o, 0, "header", rest) /\ o \in Frames /\ Len(o) = 1
  BY <1>2, <1>4, RunEnd
<1>6. c[h + 1][1] = "details"
  BY <1>1, <1>2
<1>7. all = rest \cup {<<h + 1, "none", 0>>}
  BY <1>2 DEF DetailsRow
<1> HIDE DEF rest, all, h, m, skip
<1>8. Read(c, Reader(o, 0, "header", rest), h + 1) = Reader(o, skip, "header", all)
  BY <1>5, <1>6, <1>7, ReadDetails DEF skip
<1>9. f[h + 1] = Reader(o, skip, "header", all)
  BY <1>2, <1>4, <1>5, <1>8 DEF IsRun
<1>10. f[m] = Reader(o, 0, "header", all)
  <2> DEFINE k == h + 1
  <2>1. k \in Nat /\ k + skip = m /\ k + skip <= m /\ f[k] = Reader(o, skip, "header", all)
    BY <1>2, <1>9
  <2>2. IsRun(c, m, f) /\ m \in Nat /\ skip \in Nat
    BY <1>2, <1>4
  <2> HIDE DEF k
  <2>3. f[k + skip] = Reader(o, 0, "header", all)
    BY <2>1, <2>2, SkipRun
  <2> QED BY <2>1, <2>3
<1>11. /\ f[m].found = all /\ f[m].ok = TRUE /\ f[m].skip = 0 /\ f[m].next = "header"
       /\ f[m].open = o
  BY <1>10 DEF Reader
<1>12. Parse(c).found = all /\ Parse(c).ok
  <2> DEFINE end == f[m]
             okay == end.ok /\ end.skip = 0 /\ end.next = "header" /\ Len(end.open) = 1
  <2>1. Parse(c) = [found |-> end.found, ok |-> okay]
    BY <1>1, <1>3
  <2>2. okay
    BY <1>5, <1>11
  <2> HIDE DEF okay
  <2>3. Parse(c).found = end.found /\ Parse(c).ok = okay
    BY <2>1
  <2> QED BY <1>11, <2>2, <2>3
<1> QED BY <1>12 DEF c, all, rest, h, m

-----------------------------------------------------------------------------
(* No field is found twice.                                                 *)

(* Items found in one place are in one container.                           *)
LEMMA SamePlace ==
  ASSUME Built, NEW n \in Items, NEW m \in Items, PlaceOf(n) = PlaceOf(m)
  PROVE  Nesting(item)[n] = Nesting(item)[m]
<1> DEFINE w(x) == Nesting(item)[x]
<1>1. /\ item \in Seq(Item) /\ Items = 1..Len(item) /\ Len(item) \in Nat
      /\ lay.within = [x \in Items |-> Nesting(item)[x]]
  BY BuiltIs
<1>2. \A x \in Items : lay.within[x] = w(x)
  BY <1>1
<1>3. \A x \in Items : lay.start[x] \in Nat \ {0}
  BY StartsOrder
<1>4. \A x, y \in Items : lay.start[x] = lay.start[y] => x = y
  <2> SUFFICES ASSUME NEW x \in Items, NEW y \in Items, lay.start[x] = lay.start[y], x # y
               PROVE  FALSE
    OBVIOUS
  <2>1. x < y \/ y < x
    BY <1>1
  <2>2. lay.start[x] < lay.start[y] \/ lay.start[y] < lay.start[x]
    BY <2>1, StartsOrder
  <2> QED BY <1>3, <2>2
<1>5. ASSUME NEW x \in Items, w(x) # <<>>
      PROVE  Last(w(x)) \in Items /\ w(x) = Append(Nesting(item)[Last(w(x))], Last(w(x)))
  <2>1. x \in 1..(Len(item) + 1)
    BY <1>1
  <2>2. /\ Last(w(x)) \in 1..(x - 1)
        /\ w(x) = Append(Nesting(item)[Last(w(x))], Last(w(x)))
    BY <1>1, <1>5, <2>1, LastAbove
  <2> QED BY <1>1, <2>2
<1> HIDE DEF w
<1>6. \A x \in Items : PlaceOf(x) = IF w(x) = <<>> THEN 0 ELSE lay.start[Last(w(x))]
  BY <1>2 DEF PlaceOf
<1>7. w(n) = <<>> <=> w(m) = <<>>
  BY <1>3, <1>5, <1>6
<1>8. w(n) # <<>> => Last(w(n)) = Last(w(m))
  BY <1>4, <1>5, <1>6, <1>7
<1>9. w(n) = w(m)
  BY <1>5, <1>7, <1>8
<1> QED BY <1>9 DEF w

(* Two of one field in one container: the container is an array.            *)
LEMMA TwinsAre ==
  ASSUME Built, NEW n \in Declared, NEW m \in Declared, n # m,
         item[n].code = item[m].code, PlaceOf(n) = PlaceOf(m)
  PROVE  LET w == Nesting(item)[n]
         IN  w # <<>> /\ item[Last(w)].kind # "object"
<1> DEFINE w == Nesting(item)[n]
           S == {k \in Items : item[k].kind \in DOMAIN Sti}
<1>1. n \in S /\ m \in S /\ n \in Items /\ m \in Items
  BY DEF Declared
<1>2. Items = 1..Len(item) /\ Len(item) \in Nat /\ Ordered(item)
  BY BuiltIs DEF Compiles
<1>3. Nesting(item)[m] = w
  BY <1>1, SamePlace
<1>4. n \in Nat /\ m \in Nat /\ (n < m \/ m < n)
  BY <1>1, <1>2
<1>5. sfcode[item[n].code] \in Nat /\ sfcode[item[m].code] = sfcode[item[n].code]
  <2>1. item[n].code \in DOMAIN sti
    <3>1. item[n] \in Item /\ item[n].kind \in DOMAIN Sti
      BY <1>1, ItemChecked
    <3> QED BY <3>1, ItemIs DEF Item, Sti, Ends
  <2>2. sfcode \in [DOMAIN sti -> Nat]
    BY TemplateAssumption DEF TemplateAssumption
  <2> QED BY <2>1, <2>2
<1>6. \A x, y \in S :
        /\ x < y /\ Nesting(item)[x] = Nesting(item)[y]
        /\ Nesting(item)[x] # <<>> => item[Last(Nesting(item)[x])].kind = "object"
        => sfcode[item[x].code] < sfcode[item[y].code]
  BY <1>2 DEF Ordered, Items
<1> SUFFICES ASSUME w # <<>> => item[Last(w)].kind = "object" PROVE FALSE
  OBVIOUS
<1> HIDE DEF S
<1>7. n < m => sfcode[item[n].code] < sfcode[item[m].code]
  BY <1>1, <1>3, <1>6
<1>8. m < n => sfcode[item[m].code] < sfcode[item[n].code]
  BY <1>1, <1>3, <1>6
<1> QED BY <1>4, <1>5, <1>7, <1>8

(* reject_duplicate_fields finds none.                                      *)
LEMMA TwinsOnlyInArrays ==
  ASSUME Built, NEW b, Legible(b), NEW c, \A k \in 1..(DetailsAt - 1) : c[k] = b[k]
  PROVE  NoTwins(c, FoundBy(b, DetailsAt - 1) \cup {DetailsRow})
<1> DEFINE h == DetailsAt - 1
<1> SUFFICES ASSUME NEW x \in FoundBy(b, h) \cup {DetailsRow},
                    NEW y \in FoundBy(b, h) \cup {DetailsRow},
                    x # y, x[2] = y[2], x[3] = y[3]
             PROVE  x[3] # 0 /\ sti[c[x[3]][2]] = "array"
  BY DEF NoTwins
<1>1. \A r \in FoundBy(b, h) :
        \E n \in Declared : r = Row(n) /\ There(b, n) /\ lay.start[n] <= h
  BY DEF FoundBy
<1>2. \A n \in Declared : n \in Items /\ item[n].code # "none"
  <2> SUFFICES ASSUME NEW n \in Declared PROVE item[n].code # "none" /\ n \in Items
    OBVIOUS
  <2>1. item[n] \in Item /\ item[n].kind \in DOMAIN Sti /\ n \in Items
    BY ItemChecked DEF Declared
  <2>2. item[n].code \in DOMAIN sti
    BY <2>1, ItemIs DEF Item, Sti, Ends
  <2> QED BY <2>1, <2>2, TemplateConstants
<1>3. \A n \in Declared : Row(n)[1] = lay.start[n] /\ Row(n)[2] = item[n].code
                          /\ Row(n)[3] = PlaceOf(n)
  BY DEF Row
<1>4. DetailsRow[2] = "none"
  BY DEF DetailsRow
<1>5. x # DetailsRow /\ y # DetailsRow
  BY <1>1, <1>2, <1>3, <1>4
<1>6. PICK n \in Declared : x = Row(n) /\ There(b, n) /\ lay.start[n] <= h
  BY <1>1, <1>5
<1>7. PICK m \in Declared : y = Row(m)
  BY <1>1, <1>5
<1> DEFINE w == Nesting(item)[n]
           p == Last(w)
<1>8. w # <<>> /\ item[p].kind # "object"
  <2>1. n # m /\ item[n].code = item[m].code /\ PlaceOf(n) = PlaceOf(m)
    BY <1>3, <1>6, <1>7
  <2> QED BY <2>1, TwinsAre
<1>9. /\ n \in Items /\ lay.within[n] = w /\ Items = 1..Len(item) /\ Len(item) \in Nat
      /\ item \in Seq(Item) /\ n \in 1..(Len(item) + 1)
  BY <1>2, BuiltIs
<1>10. p \in 1..(n - 1) /\ p \in Boxes(item)
  BY <1>8, <1>9, LastAbove
<1> HIDE DEF p
<1>11. p \in Items /\ item[p].kind \in {"array", "elements"} /\ p < n
  <2>1. p \in Items /\ item[p].kind \in Containers
    BY <1>10, BoxIs
  <2> QED BY <1>8, <1>9, <1>10, <2>1 DEF Containers
<1>12. There(b, p)
  <2>1. p \in Enclosing(n)
    <3>1. w \in Seq(Boxes(item)) /\ Len(w) \in Nat /\ Enclosing(n) = {w[i] : i \in 1..Len(w)}
      BY <1>9, WithinIs
    <3> HIDE DEF w
    <3>2. Len(w) \in 1..Len(w) /\ p = w[Len(w)]
      BY <1>8, <3>1, EmptySeq DEF p, Last
    <3> QED BY <3>1, <3>2
  <2>2. Clean(b)
    BY CleanIs DEF Legible
  <2> QED BY <1>6, <1>9, <2>1, <2>2 DEF Clean
<1>13. lay.start[p] \in 1..h /\ x[3] = lay.start[p]
  <2>1. x[3] = PlaceOf(n)
    BY <1>3, <1>6
  <2>2. PlaceOf(n) = lay.start[p]
    BY <1>8, <1>9 DEF PlaceOf, p
  <2>3. lay.start[p] < lay.start[n] /\ lay.start[p] \in Nat \ {0} /\ lay.start[n] \in Nat
    BY <1>9, <1>11, StartsOrder
  <2> QED BY <1>6, <2>1, <2>2, <2>3, DetailsPlace
<1>14. b[lay.start[p]] = Header(item[p].code)
  <2>1. item[p].kind # "details" /\ item[p].kind \notin Ends
    BY <1>11 DEF Ends
  <2>2. b[lay.start[p]] = First(item[p])
    BY <1>11, <1>12, <2>1, Readable DEF Legible
  <2> QED BY <2>1, <2>2 DEF First
<1>15. sti[item[p].code] = "array"
  <2>1. item[p].kind \in DOMAIN Sti /\ Sti[item[p].kind] = "array"
    BY <1>11 DEF Sti
  <2> QED BY <1>11, <2>1, ItemChecked
<1>16. c[x[3]][2] = item[p].code
  BY <1>13, <1>14 DEF Header
<1> QED BY <1>13, <1>15, <1>16

-----------------------------------------------------------------------------
(* The values of the plumbing.                                              *)

LEMMA PresenceIsTwo == sfSequence # sfSigningPubKey
<1> SUFFICES ASSUME sfSequence = sfSigningPubKey PROVE FALSE
  OBVIOUS
<1>1. Plumbing = {sfSequence, sfFirstLedgerSequence, sfLastLedgerSequence, sfFee, sfAccount}
  BY DEF Plumbing, Presence, Patched
<1> QED BY <1>1, AtMostFive, HostAssumption DEF HostAssumption

(* The plumbing fields that hold a value, where it begins, and what the     *)
(* host wants it to be.                                                     *)
Valued == Patched \cup {sfSequence}
ValueAt(f) == lay.start[lay.plumb[f]] + Len(Opening(item[lay.plumb[f]]))
Wanted(f) == IF f = sfSequence THEN 0 ELSE Patch(f, FeeBase(PreparedLen))
Bears(b, f) == b[ValueAt(f)][2] = Wanted(f)

LEMMA ValuedIs ==
  ASSUME Built, NEW f \in Valued
  PROVE  LET n == lay.plumb[f]
             i == item[n]
         IN  /\ f \in Plumbing /\ n \in Items /\ i \in Item /\ i.code = f /\ Bare(n)
             /\ i.kind \in {"scalar", "native", "fixed"}
             /\ i.kind # "fixed" => Len(Opening(i)) = 1
             /\ i.kind = "fixed" => Len(Opening(i)) = 1 + PrefixLen(i.high)
                                    /\ i.high \in Nat \ {0} /\ PrefixLen(i.high) \in Nat \ {0}
             /\ Len(Opening(i)) \in 1..(ItemLen(i) - 1)
             /\ ValueAt(f) \in Cell(n)
<1> DEFINE n == lay.plumb[f]
           i == item[n]
<1>1. f \in Plumbing /\ f # sfSigningPubKey
  BY PatchedIs, PresenceIsTwo DEF Valued, Plumbing, Presence
<1>2. /\ n \in Items /\ i \in Item /\ i.code = f /\ Bare(n)
      /\ i.kind \in {"scalar", "native", "fixed"}
  BY <1>1, PlumbItem
<1>3. i.kind = "fixed" => i.high >= 1
  BY <1>2, BuiltIs DEF Compiles, Typed, Items
<1>4. /\ lay.start[n] \in Nat /\ ItemLen(i) \in Nat
      /\ lay.start[n + 1] = lay.start[n] + ItemLen(i)
  BY <1>2, CellIs
<1>5. ValueAt(f) = lay.start[n] + Len(Opening(i))
  BY DEF ValueAt
<1> HIDE DEF n, i
<1>6. Len(Opening(i)) = 1 + (CASE i.kind = "empty" -> PrefixLen(0)
                               [] i.kind = "fixed" -> PrefixLen(i.high)
                               [] OTHER -> 0)
  <2>1. i.kind \in DOMAIN Sti
    BY <1>2 DEF Sti
  <2> QED BY <1>2, <2>1, OpeningLen
<1>7. i.high \in Nat /\ PrefixLen(i.high) \in Nat \ {0}
  BY <1>2, ItemIs, Slots
<1>8. /\ i.kind # "fixed" => Len(Opening(i)) = 1
      /\ i.kind = "fixed" => Len(Opening(i)) = 1 + PrefixLen(i.high)
  BY <1>2, <1>6
<1>9. /\ i.kind = "fixed" => ItemLen(i) = 1 + PrefixLen(i.high) + i.high
      /\ i.kind # "fixed" => ItemLen(i) >= 2
  BY <1>2, ItemSizes, ItemLens
<1>10. Len(Opening(i)) \in 1..(ItemLen(i) - 1)
  <2> DEFINE len == Len(Opening(i))
             size == ItemLen(i)
             prefix == PrefixLen(i.high)
  <2>1. size \in Nat /\ prefix \in Nat /\ prefix >= 1
    BY <1>4, <1>7
  <2>2. CASE i.kind # "fixed"
    <3>1. len = 1 /\ size >= 2
      BY <1>8, <1>9, <2>2
    <3> HIDE DEF len, size
    <3> QED BY <2>1, <3>1 DEF len, size
  <2>3. CASE i.kind = "fixed"
    <3>1. len = 1 + prefix /\ size = 1 + prefix + i.high /\ i.high \in Nat /\ i.high >= 1
      BY <1>3, <1>7, <1>8, <1>9, <2>3
    <3> HIDE DEF len, size, prefix
    <3> QED BY <2>1, <3>1 DEF len, size
  <2> QED BY <2>2, <2>3
<1>11. ValueAt(f) \in Cell(n)
  BY <1>4, <1>5, <1>10 DEF Cell
<1>12. i.kind = "fixed" => i.high \in Nat \ {0} /\ PrefixLen(i.high) \in Nat \ {0}
  BY <1>3, <1>7
<1>13. /\ f \in Plumbing /\ n \in Items /\ i \in Item /\ i.code = f /\ Bare(n)
       /\ i.kind \in {"scalar", "native", "fixed"}
       /\ i.kind # "fixed" => Len(Opening(i)) = 1
       /\ i.kind = "fixed" => Len(Opening(i)) = 1 + PrefixLen(i.high)
                              /\ i.high \in Nat \ {0} /\ PrefixLen(i.high) \in Nat \ {0}
       /\ Len(Opening(i)) \in 1..(ItemLen(i) - 1)
       /\ ValueAt(f) \in Cell(n)
  BY <1>1, <1>2, <1>8, <1>10, <1>11, <1>12
<1> QED BY <1>13 DEF n, i

LEMMA PlumbApart ==
  ASSUME Built, NEW f \in Valued, NEW g \in Valued, f # g
  PROVE  lay.plumb[f] # lay.plumb[g]
<1>1. item[lay.plumb[f]].code = f /\ item[lay.plumb[g]].code = g
  BY ValuedIs
<1> QED BY <1>1

(* A call that does not hit a plumbing field leaves its value.              *)
LEMMA BearsOn ==
  ASSUME Built, NEW b, NEW b2, NEW hit, Tidy(b, b2, hit),
         NEW f \in Valued, lay.plumb[f] \notin hit, Bears(b, f)
  PROVE  Bears(b2, f)
<1> DEFINE n == lay.plumb[f]
<1>1. n \in Items /\ Bare(n) /\ ValueAt(f) \in Cell(n)
  BY ValuedIs
<1>2. Same(b, b2, n)
  BY <1>1 DEF Tidy
<1>3. b2[ValueAt(f)] = b[ValueAt(f)]
  BY <1>1, <1>2 DEF Same
<1> QED BY <1>3 DEF Bears

(* What is patched has its value.                                           *)
LEMMA PatchBears ==
  ASSUME Built, NEW b \in Bytes(Int), NEW f \in Patched, NEW fee,
         Patch(f, fee) \in Int, Patch(f, fee) = Wanted(f)
  PROVE  Bears(Patching(b, f, fee), f)
<1> DEFINE n == lay.plumb[f]
           i == item[n]
           v == Patch(f, fee)
           at == ValueAt(f)
           s == Payload(i, v)
           b2 == Patching(b, f, fee)
<1>1. f \in Valued
  BY DEF Valued
<1>2. /\ n \in Items /\ i \in Item /\ i.kind \in {"scalar", "native", "fixed"}
      /\ i.kind = "fixed" => i.high \in Nat \ {0}
      /\ at \in Cell(n)
  BY <1>1, ValuedIs
<1>3. b2 = Over(b, at, s)
  BY DEF Patching, ValueAt
<1>4. Len(s) \in Nat /\ Len(s) >= 1 /\ s[1][2] = v
  <2>1. CASE i.kind = "scalar"
    <3>1. s = <<<<"value", v>>>>
      BY <2>1 DEF Payload
    <3> QED BY <3>1
  <2>2. CASE i.kind = "native"
    <3>1. s = [k \in 1..NativeLen |-> <<"native", v>>] /\ NativeLen \in Nat \ {0}
      BY <2>2, TemplateConstants DEF Payload, Native, Repeat
    <3> QED BY <3>1
  <2>3. CASE i.kind = "fixed"
    <3>1. s = [k \in 1..i.high |-> <<"value", v>>] /\ i.high \in Nat \ {0}
      BY <1>2, <2>3 DEF Payload, Repeat
    <3> QED BY <3>1
  <2> QED BY <1>2, <2>1, <2>2, <2>3
<1>5. at \in DOMAIN b /\ at \in Nat
  <2>1. at \in 1..Len(lay.fresh)
    BY <1>2, CellIs
  <2> QED BY <2>1 DEF Bytes
<1> HIDE DEF s, at
<1>6. Over(b, at, s)[at] = s[at - at + 1]
  <2>1. at \in at..(at + Len(s) - 1)
    BY <1>4, <1>5
  <2> QED BY <1>5, <2>1 DEF Over
<1>7. at - at + 1 = 1
  BY <1>5
<1>8. b2[at] = s[1]
  BY <1>3, <1>6, <1>7
<1> QED BY <1>4, <1>8 DEF Bears, at

(* A new template's Sequence is zero.                                       *)
LEMMA FreshBears ==
  ASSUME Built
  PROVE  Bears(lay.fresh, sfSequence)
<1> DEFINE f == sfSequence
           d == item
           n == lay.plumb[f]
           i == d[n]
           N == Len(d)
           b == lay.fresh
           at == lay.start[n]
<1>1. f \in Valued /\ f \notin Patched
  BY SixFields DEF Valued, Presence
<1>2. /\ n \in Items /\ i \in Item /\ Bare(n) /\ i.code = f /\ f \in Plumbing
      /\ i.kind \in {"scalar", "native", "fixed"} /\ (i.kind # "fixed" => Len(Opening(i)) = 1)
      /\ ValueAt(f) \in Cell(n) /\ ValueAt(f) = at + Len(Opening(i))
  BY <1>1, ValuedIs DEF ValueAt
<1>3. i.kind = "scalar"
  <2>1. i.kind = RequiredKind[f]
    BY <1>2, PlumbItem
  <2>2. f # sfFee /\ f # sfAccount /\ f # sfSigningPubKey
    BY <1>1, PresenceIsTwo DEF Patched
  <2> QED BY <1>2, <2>1, <2>2 DEF RequiredKind
<1>4. /\ d \in Seq(Item) /\ Items = 1..N /\ N \in Nat /\ N > 0 /\ lay.start = Starts(d)
      /\ b = Images(d, 1, N, {})
  BY BuiltIs
<1>5. Starts(d)[1] = 1
  BY <1>4, StartsAre
<1>6. Image(d, n, {}) = Default(i, Ground(d, n))
  <2>1. Above(d, n) = {} /\ ~d[n].optional
    BY <1>2, EnclosureIs DEF Bare
  <2> QED BY <2>1 DEF Image, Above
<1>7. Default(i, Ground(d, n)) = <<Header(i.code), Zero>>
  BY <1>3 DEF Default, Containers, Ends
<1>8. Image(d, n, {})[2] = Zero
  BY <1>6, <1>7
<1> DEFINE k == at + 1
<1>9. k \in Place(d, n) /\ k - Starts(d)[1] + 1 = k /\ k - Starts(d)[n] + 1 = 2 /\ ValueAt(f) = k
  <2>1. at \in Nat
    BY <1>2, CellIs
  <2>2. ValueAt(f) = k
    BY <1>2, <1>3
  <2>3. Cell(n) = Place(d, n)
    BY <1>4 DEF Cell, Place
  <2> QED BY <1>2, <1>4, <1>5, <2>1, <2>2, <2>3
<1>10. 1 \in 1..Len(d) /\ N \in 1..Len(d) /\ n \in 1..N
  BY <1>2, <1>4
<1> HIDE DEF k, d, N, n, i
<1>11. Images(d, 1, N, {})[k - Starts(d)[1] + 1] = Image(d, n, {})[k - Starts(d)[n] + 1]
  BY <1>4, <1>9, <1>10, ImagesAt
<1>12. b[k] = Zero
  BY <1>4, <1>8, <1>9, <1>11
<1> QED BY <1>9, <1>12 DEF Bears, Wanted, Zero

-----------------------------------------------------------------------------
(* The calls keep them.                                                     *)

(* The values of the plumbing when the hook has set the fields in set, and  *)
(* ready is the length it was prepared at: Sequence is zero, and what       *)
(* prepare_for_emit writes is there.                                        *)
Plumbed(b, set, ready) ==
  /\ ready \in {0, PreparedLen}
  /\ \A f \in Valued \ set : f = sfSequence \/ ready # 0 => Bears(b, f)

LEMMA PlumbedOn ==
  ASSUME Built, NEW b, NEW b2, NEW hit, Tidy(b, b2, hit), NEW set, NEW ready,
         Plumbed(b, set, ready), \A f \in Valued \ set : lay.plumb[f] \notin hit
  PROVE  Plumbed(b2, set, ready)
<1>1. ASSUME NEW f \in Valued \ set, f = sfSequence \/ ready # 0 PROVE Bears(b2, f)
  <2>1. Bears(b, f) /\ lay.plumb[f] \notin hit
    BY <1>1 DEF Plumbed
  <2> QED BY <2>1, BearsOn
<1> QED BY <1>1 DEF Plumbed

LEMMA PlumbKinds ==
  ASSUME Built, NEW f \in Valued
  PROVE  item[lay.plumb[f]].kind \notin {"vl", "details"}
BY ValuedIs

LEMMA SetPlumbs ==
  ASSUME Built, Sound(bytes), Formed(bytes), NEW n \in Items, NEW payload \in Payloads(item[n]),
         Set(n, payload), Plumbed(bytes, touched, prepared)
  PROVE  Plumbed(bytes', touched', prepared')
<1> DEFINE set == touched \cup {f \in Plumbing : lay.plumb[f] = n}
<1>1. Tidy(bytes, bytes', {n})
  BY SetForms
<1>2. touched' = set /\ prepared' = prepared
  BY DEF Set
<1>3. Plumbed(bytes, set, prepared)
  BY DEF Plumbed
<1>4. \A f \in Valued \ set : lay.plumb[f] \notin {n}
  BY ValuedIs
<1> HIDE DEF set
<1>5. Plumbed(bytes', set, prepared)
  BY <1>1, <1>3, <1>4, PlumbedOn
<1> QED BY <1>2, <1>5

(* All calls but the setters and prepare_for_emit.                          *)
LEMMA OthersPlumb ==
  ASSUME Built, Sound(bytes), Formed(bytes), nonces \in Nat, Plumbed(bytes, touched, prepared),
         \/ FillDetails
         \/ \E o : ClearOptionals(o)
         \/ \E n \in Items : \/ \E len : \E v \in Inputs : Fill(n, len, v)
                             \/ Refuse(n) \/ Reset(n) \/ Clear(n) \/ Enable(n) \/ Index(n)
  PROVE  Plumbed(bytes', touched', prepared')
<1>1. UNCHANGED <<touched, prepared>>
  <2>1. ASSUME NEW n \in Items, NEW len, NEW v \in Inputs, Fill(n, len, v)
        PROVE  UNCHANGED <<touched, prepared>>
    BY <2>1 DEF Fill, Edit
  <2> QED BY <2>1 DEF FillDetails, ClearOptionals, Refuse, Reset, Clear, Enable, Index, Edit
<1> DEFINE Hits(hit) == /\ Tidy(bytes, bytes', hit)
                        /\ \A n \in hit : item[n].kind \in {"vl", "details"}
<1>2. \E hit : Hits(hit)
  <2>1. ASSUME NEW n \in Items, NEW len, NEW v \in Inputs, Fill(n, len, v)
        PROVE  Hits({n})
    BY <2>1, FillForms
  <2>2. ASSUME NEW n \in Items, Reset(n)
        PROVE  Hits({n})
    BY <2>2, ResetForms
  <2>3. ASSUME NEW n \in Items, Refuse(n) \/ Clear(n) \/ Enable(n) \/ Index(n)
        PROVE  Hits({})
    BY <2>3, RefuseForms, ClearForms, EnableForms, IndexForms
  <2>4. ASSUME NEW o, ClearOptionals(o) PROVE Hits({})
    BY <2>4, ClearOptionalsForms
  <2>5. ASSUME FillDetails
        PROVE  Hits({Len(item)})
    <3>1. bytes' = Stamp(bytes)
      BY <2>5 DEF FillDetails
    <3>2. Tidy(bytes, Stamp(bytes), {Len(item)})
      BY StampForms
    <3>3. Len(item) \in Items
      <4>1. Items = 1..Len(item) /\ Len(item) \in Nat /\ Len(item) > 0
        BY BuiltIs
      <4> QED BY <4>1
    <3> QED BY <3>1, <3>2, <3>3, EnclosureIs
  <2> HIDE DEF Hits
  <2> QED BY <2>1, <2>2, <2>3, <2>4, <2>5
<1>3. PICK hit : /\ Tidy(bytes, bytes', hit)
                 /\ \A n \in hit : item[n].kind \in {"vl", "details"}
  BY <1>2
<1>4. \A f \in Valued \ touched : lay.plumb[f] \notin hit
  BY <1>3, PlumbKinds
<1>5. Plumbed(bytes', touched, prepared)
  BY <1>3, <1>4, PlumbedOn
<1> QED BY <1>1, <1>5

(* What is patched, and the values that stay.                               *)
Bearing(b, S) == \A f \in S : Bears(b, f)

LEMMA PatchPlumbs ==
  ASSUME Built, NEW b, Sound(b), Formed(b), NEW S \in SUBSET Valued, Bearing(b, S),
         NEW f \in Patched, NEW fee, Patch(f, fee) \in Int, Patch(f, fee) = Wanted(f)
  PROVE  LET b2 == Patching(b, f, fee)
         IN  Sound(b2) /\ Formed(b2) /\ Bearing(b2, S \cup {f})
<1> DEFINE b2 == Patching(b, f, fee)
<1>1. Tidy(b, b2, {lay.plumb[f]}) /\ Sound(b2)
  BY PatchForms
<1>2. f \in Valued /\ b \in Bytes(Int)
  BY DEF Valued, Sound
<1>3. Bears(b2, f)
  BY <1>2, PatchBears
<1> HIDE DEF b2
<1>4. ASSUME NEW g \in S, g # f PROVE Bears(b2, g)
  <2>1. g \in Valued /\ lay.plumb[g] \notin {lay.plumb[f]} /\ Bears(b, g)
    BY <1>2, <1>4, PlumbApart DEF Bearing
  <2> QED BY <1>1, <2>1, BearsOn
<1> QED BY <1>1, <1>3, <1>4 DEF Tidy, Bearing, b2

LEMMA StampPlumbs ==
  ASSUME Built, nonces \in Nat, NEW b, Sound(b), Formed(b), NEW S \in SUBSET Valued, Bearing(b, S)
  PROVE  Sound(Stamp(b)) /\ Formed(Stamp(b)) /\ Bearing(Stamp(b), S)
<1>1. Tidy(b, Stamp(b), {Len(item)}) /\ Sound(Stamp(b))
  BY StampForms
<1>2. item[Len(item)].kind = "details"
  <2>1. Len(item) \in Items
    BY BuiltIs
  <2> QED BY <2>1, EnclosureIs
<1>3. ASSUME NEW g \in S PROVE Bears(Stamp(b), g)
  <2>1. g \in Valued /\ lay.plumb[g] \notin {Len(item)} /\ Bears(b, g)
    BY <1>2, PlumbKinds DEF Bearing
  <2> QED BY <1>1, <2>1, BearsOn
<1> QED BY <1>1, <1>3 DEF Tidy, Bearing

LEMMA WantedIs ==
  ASSUME Built
  PROVE  /\ Patch(sfFirstLedgerSequence, 0) = Wanted(sfFirstLedgerSequence)
         /\ Patch(sfLastLedgerSequence, 0) = Wanted(sfLastLedgerSequence)
         /\ Patch(sfAccount, 0) = Wanted(sfAccount)
         /\ Patch(sfFee, FeeBase(PreparedLen)) = Wanted(sfFee)
         /\ Wanted(sfFirstLedgerSequence) = LedgerSeq + 1
         /\ Wanted(sfLastLedgerSequence) = LedgerSeq + 5
         /\ Wanted(sfAccount) = HookAccount
         /\ Wanted(sfFee) = FeeBase(PreparedLen)
<1>1. sfSequence \notin Patched
  BY SixFields DEF Presence
<1>2. \A f \in Patched : f # sfSequence
  BY <1>1
<1> QED BY <1>2, SixFields DEF Wanted, Patch, Patched

LEMMA PreparePlumbs ==
  ASSUME Built, Sound(bytes), Formed(bytes), nonces \in Nat, Plumbed(bytes, touched, prepared),
         NEW fails, Prepare(fails)
  PROVE  Plumbed(bytes', touched', prepared')
<1> DEFINE kept == {f \in Valued \ touched : f = sfSequence \/ prepared # 0}
           first == Patching(bytes, sfFirstLedgerSequence, 0)
           ledger == Patching(first, sfLastLedgerSequence, 0)
           own == Patching(ledger, sfAccount, 0)
           stamped == Stamp(own)
           last == Patching(stamped, sfFee, FeeBase(PreparedLen))
           S1 == kept \cup {sfFirstLedgerSequence}
           S2 == S1 \cup {sfLastLedgerSequence}
           S3 == S2 \cup {sfAccount}
           S4 == S3 \cup {sfFee}
<1>1. \/ bytes' \in {ledger, own, stamped} /\ UNCHANGED <<touched, prepared>>
      \/ bytes' = last /\ prepared' = PreparedLen /\ touched' = touched \cap {sfSequence}
  BY Zenon DEF Prepare
<1>2. kept \in SUBSET Valued /\ Bearing(bytes, kept)
  BY DEF Bearing, Plumbed
<1>3. kept \subseteq S2 /\ S2 \subseteq S3 /\ S3 \subseteq S4
      /\ (Patched \cup {sfSequence}) \ (touched \cap {sfSequence}) \subseteq S4
  BY DEF Patched, Valued
<1>4. S1 \in SUBSET Valued /\ S2 \in SUBSET Valued /\ S3 \in SUBSET Valued
  BY <1>2, Patches DEF Valued
<1>5. \A b : Bearing(b, S3) => Bearing(b, S2) /\ (Bearing(b, S2) => Bearing(b, kept))
  BY <1>3 DEF Bearing
<1>6. prepared \in {0, PreparedLen}
  BY DEF Plumbed
<1>7. \A b : Bearing(b, kept) => Plumbed(b, touched, prepared)
  BY <1>6 DEF Bearing, Plumbed
<1>8. \A b : Bearing(b, S4) => Plumbed(b, touched \cap {sfSequence}, PreparedLen)
  BY <1>3 DEF Bearing, Plumbed, Valued
<1> HIDE DEF kept
<1>9. Sound(first) /\ Formed(first) /\ Bearing(first, S1)
  BY <1>2, Patches, WantedIs, PatchPlumbs
<1> HIDE DEF first, S1
<1>10. Sound(ledger) /\ Formed(ledger) /\ Bearing(ledger, S2)
  BY <1>4, <1>9, Patches, WantedIs, PatchPlumbs
<1> HIDE DEF ledger, S2
<1>11. Sound(own) /\ Formed(own) /\ Bearing(own, S3)
  BY <1>4, <1>10, Patches, WantedIs, PatchPlumbs
<1> HIDE DEF own, S3
<1>12. Sound(stamped) /\ Formed(stamped) /\ Bearing(stamped, S3)
  BY <1>4, <1>11, StampPlumbs
<1> HIDE DEF stamped
<1>13. Bearing(last, S4)
  BY <1>4, <1>12, Patches, WantedIs, PatchPlumbs
<1> HIDE DEF last, S4
<1>14. Bearing(ledger, kept) /\ Bearing(own, kept) /\ Bearing(stamped, kept)
  BY <1>3, <1>10, <1>11, <1>12 DEF Bearing
<1> QED BY <1>1, <1>7, <1>8, <1>13, <1>14

LEMMA TemplatePlumbs ==
  ASSUME Built, Sound(bytes), Formed(bytes), nonces \in Nat, TemplateNext,
         Plumbed(bytes, touched, prepared)
  PROVE  Plumbed(bytes', touched', prepared')
<1>1. ASSUME NEW n \in Items, NEW payload \in (IF Settable(n) THEN Payloads(item[n]) ELSE {}),
             Set(n, payload)
      PROVE  Plumbed(bytes', touched', prepared')
  <2>1. payload \in Payloads(item[n])
    OBVIOUS
  <2> QED BY <1>1, <2>1, SetPlumbs
<1>2. ASSUME NEW fails \in Failures, Prepare(fails)
      PROVE  Plumbed(bytes', touched', prepared')
  BY <1>2, PreparePlumbs
<1>3. ASSUME \/ FillDetails
             \/ \E o : ClearOptionals(o)
             \/ \E n \in Items : \/ \E len : \E v \in Inputs : Fill(n, len, v)
                                 \/ Refuse(n) \/ Reset(n) \/ Clear(n) \/ Enable(n) \/ Index(n)
      PROVE  Plumbed(bytes', touched', prepared')
  BY <1>3, OthersPlumb
<1> QED BY <1>1, <1>2, <1>3 DEF TemplateNext

-----------------------------------------------------------------------------
(* What the host reads of them.                                             *)

(* The host finds every bare field, at the top level.                       *)
LEMMA BareFound ==
  ASSUME Built, NEW b, Sound(b), NEW n \in Declared, Bare(n)
  PROVE  /\ There(b, n) /\ Cell(n) \subseteq 1..(DetailsAt - 1)
         /\ <<lay.start[n], item[n].code, 0>> \in FoundBy(b, DetailsAt - 1)
<1> DEFINE N == Len(item)
<1>1. n \in Items /\ item[n].kind \in DOMAIN Sti /\ item[n].kind # "details"
  BY DEF Declared, Sti
<1>2. There(b, n)
  BY <1>1 DEF Sound, Standing, Bare
<1>3. lay.within[n] = <<>>
  <2> DEFINE w == Nesting(item)[n]
  <2>1. w = lay.within[n] /\ w \in Seq(Boxes(item)) /\ Enclosing(n) = {w[i] : i \in 1..Len(w)}
    BY <1>1, WithinIs
  <2>2. Enclosing(n) = {}
    BY DEF Bare
  <2> HIDE DEF w
  <2>3. Len(w) = 0
    <3>1. ~(1 \in 1..Len(w))
      BY <2>1, <2>2
    <3>2. Len(w) \in Nat
      BY <2>1
    <3> QED BY <3>1, <3>2
  <2> QED BY <2>1, <2>3, EmptySeq
<1>4. Items = 1..N /\ N \in Nat /\ N > 0 /\ N \in Items /\ n # N
  <2>1. Items = 1..N /\ N \in Nat /\ N > 0
    BY BuiltIs
  <2> QED BY <1>1, <2>1, EnclosureIs
<1>5. lay.start[n] \in Nat \ {0} /\ DetailsAt \in Nat /\ lay.start[n + 1] \in Nat
      /\ lay.start[n] < lay.start[n + 1] /\ lay.start[n + 1] <= DetailsAt
  <2>1. n < N /\ n + 1 \in Items
    BY <1>1, <1>4
  <2>2. n + 1 = N \/ n + 1 < N
    BY <1>1, <1>4, <2>1
  <2>3. lay.start[n] \in Nat \ {0} /\ lay.start[n + 1] \in Nat /\ lay.start[N] \in Nat
    BY <1>1, <1>4, <2>1, StartsOrder
  <2>4. n < n + 1
    BY <1>1, <1>4
  <2>5. lay.start[n] < lay.start[n + 1]
    BY <1>1, <2>1, <2>4, StartsOrder
  <2>6. n + 1 < N => lay.start[n + 1] < lay.start[N]
    BY <1>4, <2>1, StartsOrder
  <2> QED BY <2>2, <2>3, <2>5, <2>6 DEF DetailsAt
<1>6. Cell(n) \subseteq 1..(DetailsAt - 1)
  BY <1>5 DEF Cell
<1>7. Row(n) \in FoundBy(b, DetailsAt - 1)
  BY <1>2, <1>5 DEF FoundBy
<1> QED BY <1>2, <1>3, <1>6, <1>7 DEF Row, PlaceOf

LEMMA PlumbFound ==
  ASSUME Built, NEW b, Sound(b), NEW f \in Plumbing
  PROVE  LET n == lay.plumb[f]
         IN  /\ n \in Items /\ There(b, n) /\ Cell(n) \subseteq 1..(DetailsAt - 1)
             /\ <<lay.start[n], f, 0>> \in FoundBy(b, DetailsAt - 1)
<1> DEFINE n == lay.plumb[f]
<1>1. n \in Items /\ item[n].code = f /\ Bare(n)
      /\ item[n].kind \in {"scalar", "native", "fixed", "empty"}
  BY PlumbItem
<1> HIDE DEF n
<1>2. n \in Declared
  BY <1>1 DEF Declared, Sti
<1> QED BY <1>1, <1>2, BareFound DEF n

LEMMA TypeFound ==
  ASSUME Built, NEW b, Sound(b)
  PROVE  \E k : <<k, sfTransactionType, 0>> \in FoundBy(b, DetailsAt - 1)
<1>1. /\ item \in Seq(Item) /\ Items = 1..Len(item) /\ Len(item) \in Nat /\ Len(item) > 0
      /\ Grammatical(item)
  BY BuiltIs DEF Compiles
<1>2. 1 \in Items
  BY <1>1
<1>3. item[1].kind = "type" /\ item[1].code = sfTransactionType /\ ~item[1].optional
  <2>1. /\ item[1].kind = "type" /\ item[1].code = sfTransactionType
        /\ item[1].optional => item[1].kind \notin Ends \cup {"type", "elements", "details"}
    BY <1>1, <1>2 DEF Grammatical, Items
  <2>2. item[1] \in Item
    BY <1>2, EnclosureIs
  <2> QED BY <2>1, <2>2, ItemIs
<1>4. Enclosing(1) = {}
  <2>1. \A c \in Enclosing(1) : c \in Items /\ c < 1
    BY <1>2, EnclosureIs
  <2>2. \A c \in Items : ~(c < 1)
    BY <1>1
  <2> QED BY <2>1, <2>2
<1>5. 1 \in Declared /\ Bare(1)
  BY <1>2, <1>3, <1>4 DEF Declared, Sti, Bare
<1> QED BY <1>3, <1>5, BareFound

(* What the host reads of a plumbing field.                                 *)
LEMMA HeldIs ==
  ASSUME Built, NEW b, Legible(b), NEW c, \A k \in 1..(DetailsAt - 1) : c[k] = b[k],
         NEW f \in Valued, Bears(b, f)
  PROVE  Held(c, lay.start[lay.plumb[f]]) = Wanted(f)
<1> DEFINE n == lay.plumb[f]
           i == item[n]
           at == lay.start[n]
<1>1. /\ f \in Plumbing /\ n \in Items /\ i \in Item /\ i.code = f
      /\ i.kind \in {"scalar", "native", "fixed"}
      /\ i.kind # "fixed" => Len(Opening(i)) = 1
      /\ i.kind = "fixed" => Len(Opening(i)) = 1 + PrefixLen(i.high)
                             /\ i.high \in Nat \ {0} /\ PrefixLen(i.high) \in Nat \ {0}
      /\ ValueAt(f) \in Cell(n)
  BY ValuedIs
<1>2. There(b, n) /\ Cell(n) \subseteq 1..(DetailsAt - 1)
  BY <1>1, PlumbFound DEF Legible
<1>3. ValueAt(f) = at + Len(Opening(i)) /\ b[ValueAt(f)][2] = Wanted(f)
  BY DEF ValueAt, Bears
<1>4. sti[f] = Sti[i.kind]
  <2>1. i.kind \in DOMAIN Sti
    BY <1>1 DEF Sti
  <2> QED BY <1>1, <2>1, ItemChecked
<1> HIDE DEF n, i, at
<1>5. at \in Cell(n) /\ at \in Nat /\ ItemLen(i) \in Nat /\ ItemLen(i) >= 2 /\ at + 1 \in Cell(n)
  <2>1. /\ at \in Cell(n) /\ at \in Nat /\ ItemLen(i) \in Nat
        /\ lay.start[n + 1] = at + ItemLen(i)
    BY <1>1, CellIs DEF at, i
  <2>2. ItemLen(i) >= 2
    BY <1>1, ItemLens
  <2> QED BY <2>1, <2>2 DEF Cell, at
<1>6. c[at] = b[at] /\ c[at + 1] = b[at + 1] /\ c[ValueAt(f)] = b[ValueAt(f)]
  BY <1>1, <1>2, <1>5
<1>7. c[at][2] = f
  <2>1. item[n].kind # "details" /\ i.kind \notin Ends
    BY <1>1 DEF i, Ends
  <2>2. b[at] = First(i)
    BY <1>1, <1>2, <2>1, Readable DEF Legible, at, i
  <2> QED BY <1>1, <1>6, <2>1, <2>2 DEF First, Header
<1>8. CASE i.kind # "fixed"
  <2>1. sti[f] # "vl" /\ ValueAt(f) = at + 1
    <3>1. sti[f] # "vl"
      <4>1. i.kind = "scalar" \/ i.kind = "native"
        BY <1>1, <1>8
      <4> QED BY <1>4, <4>1 DEF Sti
    <3>2. ValueAt(f) = at + 1
      BY <1>1, <1>3, <1>8
    <3> QED BY <3>1, <3>2
  <2>2. Held(c, at) = c[at + 1][2]
    BY <1>7, <2>1 DEF Held
  <2> QED BY <1>3, <1>6, <2>1, <2>2 DEF at, n
<1>9. CASE i.kind = "fixed"
  <2>1. sti[f] = "vl"
    BY <1>4, <1>9 DEF Sti
  <2>2. b[at + 1] = <<"length", i.high>>
    <3> DEFINE s == CellOf(b, n)
    <3>1. item[n].kind # "details"
      BY <1>9 DEF i
    <3>2. Shape(i, s)
      BY <1>1, <1>2, <3>1 DEF Legible, Formed, FormedAt, i
    <3>3. s[2] = b[at + 2 - 1]
      BY <1>5 DEF CellOf, at, i
    <3>4. at + 2 - 1 = at + 1
      BY <1>5
    <3>5. s[2] = <<"length", i.high>>
      BY <1>9, <3>2 DEF Shape
    <3> QED BY <3>3, <3>4, <3>5
  <2>3. c[at + 1][2] = i.high /\ i.high # 0
    BY <1>1, <1>6, <1>9, <2>2
  <2>4. Held(c, at) = c[at + 1 + PrefixLen(i.high)][2]
    BY <1>7, <2>1, <2>3 DEF Held
  <2>5. at + 1 + PrefixLen(i.high) = ValueAt(f)
    BY <1>1, <1>3, <1>5, <1>9
  <2>6. Held(c, at) = Wanted(f)
    BY <1>3, <1>6, <2>4, <2>5
  <2> QED BY <2>6 DEF at, n
<1> QED BY <1>8, <1>9

(* An empty SigningPubKey is read as one.                                   *)
LEMMA KeyIsEmpty ==
  ASSUME Built, NEW b, Legible(b), NEW c, \A k \in 1..(DetailsAt - 1) : c[k] = b[k]
  PROVE  Held(c, lay.start[lay.plumb[sfSigningPubKey]]) = 0
<1> DEFINE f == sfSigningPubKey
           n == lay.plumb[f]
           i == item[n]
           at == lay.start[n]
<1>0. f \in Plumbing
  BY DEF Plumbing, Presence
<1>1. n \in Items /\ i \in Item /\ i.code = f /\ i.kind = RequiredKind[f]
  BY <1>0, PlumbItem
<1>2. i.kind = "empty"
  <2>1. f # sfFee /\ f # sfAccount
    BY SixFields DEF Presence, Patched
  <2> QED BY <1>0, <1>1, <2>1 DEF RequiredKind
<1>3. There(b, n) /\ Cell(n) \subseteq 1..(DetailsAt - 1)
  BY <1>0, PlumbFound DEF Legible
<1>4. sti[f] = "vl"
  <2>1. i.kind \in DOMAIN Sti /\ Sti[i.kind] = "vl"
    BY <1>2 DEF Sti
  <2> QED BY <1>1, <2>1, ItemChecked
<1> HIDE DEF n, i, at
<1>5. at \in Cell(n) /\ at \in Nat /\ ItemLen(i) \in Nat /\ ItemLen(i) >= 2 /\ at + 1 \in Cell(n)
  <2>1. /\ at \in Cell(n) /\ at \in Nat /\ ItemLen(i) \in Nat
        /\ lay.start[n + 1] = at + ItemLen(i)
    BY <1>1, CellIs DEF at, i
  <2>2. ItemLen(i) >= 2
    BY <1>1, <1>2, ItemLens
  <2> QED BY <2>1, <2>2 DEF Cell, at
<1>6. c[at] = b[at] /\ c[at + 1] = b[at + 1]
  BY <1>3, <1>5
<1>7. item[n].kind # "details" /\ i.kind \notin Ends
  BY <1>2 DEF i, Ends
<1>8. c[at][2] = f
  <2>1. b[at] = First(i)
    BY <1>1, <1>3, <1>7, Readable DEF Legible, at, i
  <2> QED BY <1>1, <1>6, <1>7, <2>1 DEF First, Header
<1>9. b[at + 1] = <<"length", 0>>
  <2> DEFINE s == CellOf(b, n)
  <2>1. Shape(i, s)
    BY <1>1, <1>3, <1>7 DEF Legible, Formed, FormedAt, i
  <2>2. s[2] = b[at + 2 - 1]
    BY <1>5 DEF CellOf, at, i
  <2>3. at + 2 - 1 = at + 1
    BY <1>5
  <2>4. s[2] = <<"length", 0>>
    BY <1>2, <2>1 DEF Shape
  <2> QED BY <2>2, <2>3, <2>4
<1>10. Held(c, at) = 0
  BY <1>4, <1>6, <1>8, <1>9 DEF Held
<1> QED BY <1>10 DEF at, n

-----------------------------------------------------------------------------
(* What is prepared is accepted.                                            *)

LEMMA HoldsValue ==
  ASSUME NEW c, NEW F, NEW k, NEW f, <<k, f, 0>> \in F
  PROVE  Held(c, k) \in {Held(c, x[1]) : x \in {y \in F : y[2] = f /\ y[3] = 0}}
<1> DEFINE r == <<k, f, 0>>
           S == {y \in F : y[2] = f /\ y[3] = 0}
<1>1. r[1] = k /\ r[2] = f /\ r[3] = 0
  OBVIOUS
<1> HIDE DEF r
<1>2. r \in S
  BY <1>1 DEF r
<1> HIDE DEF S
<1>3. Held(c, r[1]) \in {Held(c, x[1]) : x \in S}
  BY <1>2
<1> QED BY <1>1, <1>3 DEF S

(* What the host makes of a template that is prepared.                      *)
LEMMA PreparedAccepted ==
  ASSUME Built, nonces \in Nat, NEW b, Legible(b), b[DetailsAt] = <<"details", nonces>>,
         NEW ready, ready # 0, Plumbed(b, {}, ready)
  PROVE  Acceptable(SubSeq(b, 1, ready))
<1> DEFINE h == DetailsAt - 1
           m == PreparedLen
           c == SubSeq(b, 1, m)
           F == FoundBy(b, h) \cup {DetailsRow}
           values(f) == {Held(c, x[1]) : x \in {y \in F : y[2] = f /\ y[3] = 0}}
           given == [f \in Plumbing \cup {sfTransactionType} |-> values(f)]
           details == {c[x[1]][2] : x \in {y \in F : y[2] = "none"}}
<1>1. ready = m
  BY DEF Plumbed
<1>2. /\ Sound(b) /\ b \in Bytes(Int)
  BY DEF Legible, Sound
<1>3. /\ Len(c) = m /\ (\A k \in 1..m : c[k] = b[k])
      /\ h \in Nat /\ m \in Nat /\ h <= m /\ DetailsAt \in 1..m
  <2>1. /\ h \in Nat /\ m \in Nat /\ h <= m /\ DetailsAt \in 1..m /\ m <= Len(lay.fresh)
    BY DetailsPlace
  <2> QED BY <1>2, <2>1, FieldsPart
<1>4. \A k \in 1..h : c[k] = b[k]
  BY <1>3
<1>5. Parse(c).ok /\ Parse(c).found = F
  BY <1>2, PreparedReads
<1>6. NoTwins(c, F)
  BY <1>4, TwinsOnlyInArrays
<1>7. Acceptable(c) <=> NoTwins(c, F) /\ FieldsAccepted(given, details, m)
  BY <1>3, <1>5 DEF Acceptable
<1> HIDE DEF c, h
<1>8. \A f \in Plumbing : Held(c, lay.start[lay.plumb[f]]) \in values(f)
  <2> SUFFICES ASSUME NEW f \in Plumbing
               PROVE  Held(c, lay.start[lay.plumb[f]]) \in values(f)
    OBVIOUS
  <2> DEFINE k == lay.start[lay.plumb[f]]
  <2>1. <<k, f, 0>> \in F
    BY <1>2, PlumbFound DEF h
  <2> HIDE DEF k, F
  <2> QED BY <2>1, HoldsValue DEF k
<1>9. \A f \in Valued : Wanted(f) \in values(f)
  <2> SUFFICES ASSUME NEW f \in Valued PROVE Wanted(f) \in values(f)
    OBVIOUS
  <2>1. f \in Plumbing
    BY ValuedIs
  <2>2. Bears(b, f)
    BY DEF Plumbed
  <2>3. Held(c, lay.start[lay.plumb[f]]) = Wanted(f)
    BY <1>4, <2>2, HeldIs DEF h
  <2> HIDE DEF values
  <2> QED BY <1>8, <2>1, <2>3
<1>10. 0 \in values(sfSigningPubKey)
  <2>1. Held(c, lay.start[lay.plumb[sfSigningPubKey]]) = 0
    BY <1>4, KeyIsEmpty DEF h
  <2>2. sfSigningPubKey \in Plumbing
    BY DEF Plumbing, Presence
  <2> HIDE DEF values
  <2> QED BY <1>8, <2>1, <2>2
<1>11. values(sfTransactionType) # {}
  <2>1. PICK k : <<k, sfTransactionType, 0>> \in F
    BY <1>2, TypeFound DEF h
  <2> HIDE DEF F
  <2> QED BY <2>1, HoldsValue
<1>12. nonces \in details
  <2>1. DetailsRow \in F /\ DetailsRow[2] = "none" /\ DetailsRow[1] = DetailsAt
    BY DEF DetailsRow
  <2>2. c[DetailsAt][2] = nonces
    BY <1>3
  <2>3. DetailsRow \in {y \in F : y[2] = "none"}
    BY <2>1
  <2>4. c[DetailsRow[1]][2] \in details
    BY <2>3
  <2> QED BY <2>1, <2>2, <2>4
<1>13. FieldsAccepted(given, details, m)
  <2> HIDE DEF values, details
  <2>1. \A f \in Plumbing \cup {sfTransactionType} : given[f] = values(f)
    OBVIOUS
  <2> HIDE DEF given
  <2>2. Plumbing = Valued \cup {sfSigningPubKey}
    BY DEF Plumbing, Presence, Valued
  <2>3. /\ sfFirstLedgerSequence \in Valued /\ sfLastLedgerSequence \in Valued
        /\ sfFee \in Valued /\ sfAccount \in Valued /\ sfSequence \in Valued
    BY DEF Valued, Patched
  <2>4. /\ given[sfTransactionType] # {}
        /\ HookAccount \in given[sfAccount]
        /\ 0 \in given[sfSequence] /\ 0 \in given[sfSigningPubKey]
        /\ LedgerSeq + 5 \in given[sfLastLedgerSequence]
        /\ LedgerSeq + 1 \in given[sfFirstLedgerSequence]
        /\ FeeBase(m) \in given[sfFee]
    <3>1. Wanted(sfSequence) = 0
      BY DEF Wanted
    <3> QED BY <1>9, <1>10, <1>11, <2>1, <2>2, <2>3, <3>1, WantedIs
  <2>5. LedgerSeq \in Nat /\ FeeBase(m) \in Int
    BY <1>3, Constants DEF FeeBase
  <2>6. \E l \in given[sfLastLedgerSequence] :
          /\ LedgerSeq + 1 <= l /\ l <= LedgerSeq + 5
          /\ \E f \in given[sfFirstLedgerSequence] : f <= l
    <3>1. LedgerSeq + 1 <= LedgerSeq + 5 /\ LedgerSeq + 5 <= LedgerSeq + 5
      BY <2>5
    <3> QED BY <2>4, <3>1
  <2>7. \E v \in given[sfFee] : v >= FeeBase(m)
    BY <2>4, <2>5
  <2> QED BY <1>12, <2>4, <2>6, <2>7 DEF FieldsAccepted, DetailsAccepted
<1> QED BY <1>1, <1>6, <1>7, <1>13 DEF c

(* What is in the template, and what of it prepare_for_emit wrote.          *)
PlumbInv == ParseInv /\ Plumbed(bytes, touched, prepared)

LEMMA PlumbInitial ==
  ASSUME PathInit
  PROVE  PlumbInv
<1>1. Built /\ bytes = lay.fresh /\ touched = {} /\ prepared = 0
  BY DEF PathInit, TemplateInit, Built
<1>2. Plumbed(bytes, touched, prepared)
  BY <1>1, FreshBears DEF Plumbed
<1> QED BY <1>2, ParseInitial DEF PlumbInv

LEMMA PlumbStep ==
  ASSUME PlumbInv, [PathNext]_<<vars, templateVars>>
  PROVE  PlumbInv'
<1>1. /\ ParseInv' /\ Built /\ Sound(bytes) /\ Formed(bytes) /\ nonces \in Nat
      /\ Plumbed(bytes, touched, prepared)
  BY ParseStep, NoncesAre DEF PlumbInv, ParseInv, FieldInv, PathInv, Built
<1>2. UNCHANGED lay
  <2>1. ASSUME TemplateNext PROVE UNCHANGED lay
    <3>1. Shaped(lay) /\ bytes \in Bytes(Foreign) /\ prepared \in 0..Len(lay.fresh)
      BY LayoutShaped DEF PlumbInv, ParseInv, FieldInv, PathInv
    <3> DEFINE D == Foreign
    <3>2. bytes \in Bytes(D)
      BY <3>1
    <3> HIDE DEF D
    <3>3. Stepped(D)
      BY <1>1, <2>1, <3>1, <3>2, TemplateStep
    <3> QED BY <3>3 DEF Stepped
  <2> QED BY <2>1 DEF PathNext, templateVars, compiled
<1>3. Plumbed(bytes', touched', prepared')
  <2>1. CASE TemplateNext
    BY <1>1, <2>1, TemplatePlumbs
  <2>2. CASE UNCHANGED templateVars
    BY <1>1, <2>2 DEF templateVars
  <2> QED BY <2>1, <2>2 DEF PathNext
<1>4. Plumbed(bytes, touched, prepared)'
  BY <1>2, <1>3 DEF Plumbed, Bears, Wanted, ValueAt, PreparedLen, DetailsAt, item
<1> QED BY <1>1, <1>4 DEF PlumbInv

(* What prepare_for_emit returns is a transaction that emit accepts, as     *)
(* long as the hook sets no plumbing after it and no setter left a field    *)
(* damaged: whatever else it sets, clears or enables, for every declaration *)
(* that compiles (txn.rs prepare_for_emit, Prepared; emit_walk.rs           *)
(* validate_emit_blob).                                                     *)
THEOREM PreparedTemplatesAreAccepted == PathSpec => []PreparedIsAccepted
<1>1. PlumbInv => PreparedIsAccepted
  <2> SUFFICES ASSUME PlumbInv, prepared # 0, touched = {}, ~Damaged(bytes),
                      bytes[DetailsAt] = <<"details", nonces>>
               PROVE  Acceptable(SubSeq(bytes, 1, prepared))
    BY DEF PreparedIsAccepted
  <2>1. Built /\ Legible(bytes) /\ nonces \in Nat
    BY NoncesAre DEF PlumbInv, ParseInv, FieldInv, PathInv, Built, Legible
  <2>2. Plumbed(bytes, {}, prepared)
    BY DEF PlumbInv
  <2> QED BY <2>1, <2>2, PreparedAccepted
<1>2. PathInit => PlumbInv
  BY PlumbInitial
<1>3. PlumbInv /\ [PathNext]_<<vars, templateVars>> => PlumbInv'
  BY PlumbStep
<1> QED BY <1>1, <1>2, <1>3, PTL DEF PathSpec
=============================================================================
