------------------------ MODULE TemplateFieldProofs ------------------------
(***************************************************************************)
(* That a call of a template changes no field but those it is for, for     *)
(* every declaration that compiles and every order of calls: what it copies*)
(* into absent containers never hits a field that somebody has set.        *)
(***************************************************************************)
EXTENDS EmitPathProofs

-----------------------------------------------------------------------------
(* How the containers of a declaration enclose its items.                   *)

(* The containers around an item are those around the innermost of them,    *)
(* and it.                                                                  *)
LEMMA NestingPrefix ==
  ASSUME NEW d \in Seq(Item), NEW n \in 1..(Len(d) + 1),
         NEW j \in 1..Len(Nesting(d)[n])
  PROVE  LET c == Nesting(d)[n][j]
         IN  /\ c \in 1..(n - 1)
             /\ Len(Nesting(d)[c]) = j - 1
             /\ \A i \in 1..(j - 1) : Nesting(d)[c][i] = Nesting(d)[n][i]
<1> DEFINE N == Len(d)
           nest == Nesting(d)
           Holds(x, s) ==
             \A h \in 1..Len(s) :
               /\ s[h] \in 1..(x - 1)
               /\ Len(nest[s[h]]) = h - 1
               /\ \A i \in 1..(h - 1) : nest[s[h]][i] = s[i]
           Good == {k \in Nat : k <= N => Holds(k + 1, nest[k + 1])}
<1>1. /\ nest \in [1..(N + 1) -> Seq(Boxes(d))] /\ nest[1] = <<>>
      /\ \A k \in 1..N : nest[k + 1] = Around(d, k, nest[k])
      /\ N \in Nat
  BY NestingIs
<1> HIDE DEF nest, N
<1>2. 0 \in Good
  BY <1>1
<1>3. ASSUME NEW k \in Nat, k \in Good
      PROVE  k + 1 \in Good
  <2> SUFFICES ASSUME k + 1 <= N
               PROVE  Holds((k + 1) + 1, nest[(k + 1) + 1])
    OBVIOUS
  <2> DEFINE x == k + 1
             s == nest[x]
  <2>1. x \in 1..N /\ x \in 1..(N + 1) /\ Holds(x, s) /\ s \in Seq(Boxes(d))
    BY <1>1, <1>3
  <2>2. nest[x + 1] = Around(d, x, s)
    BY <1>1, <2>1
  <2>6. (x + 1) - 1 = x
    BY <2>1
  <2> HIDE DEF s, Good
  <2>3. CASE nest[x + 1] = Append(s, x)
    <3> DEFINE t == Append(s, x)
    <3>1. /\ Len(t) = Len(s) + 1 /\ t[Len(s) + 1] = x /\ Len(s) \in Nat
          /\ \A i \in 1..Len(s) : t[i] = s[i]
      BY <2>1
    <3>2. ASSUME NEW h \in 1..Len(t)
          PROVE  /\ t[h] \in 1..x
                 /\ Len(nest[t[h]]) = h - 1
                 /\ \A i \in 1..(h - 1) : nest[t[h]][i] = t[i]
      <4> HIDE DEF t
      <4>1. CASE h = Len(s) + 1
        <5>1. t[h] = x /\ nest[t[h]] = s
          BY <3>1, <4>1 DEF s
        <5> QED BY <2>1, <3>1, <4>1, <5>1
      <4>2. CASE h \in 1..Len(s)
        <5>1. t[h] = s[h] /\ \A i \in 1..(h - 1) : t[i] = s[i]
          BY <3>1, <4>2
        <5>2. /\ s[h] \in 1..(x - 1) /\ Len(nest[s[h]]) = h - 1
              /\ \A i \in 1..(h - 1) : nest[s[h]][i] = s[i]
          BY <2>1, <4>2
        <5> QED BY <2>1, <5>1, <5>2
      <4> QED BY <3>1, <4>1, <4>2
    <3>3. nest[x + 1] = t
      BY <2>3
    <3> HIDE DEF t, x
    <3>4. Holds(x + 1, nest[x + 1])
      BY <2>6, <3>2, <3>3
    <3> QED BY <3>4 DEF x
  <2>4. CASE s # <<>> /\ nest[x + 1] = Front(s)
    <3> DEFINE t == Front(s)
    <3>1. Len(t) = Len(s) - 1 /\ \A i \in 1..(Len(s) - 1) : t[i] = s[i]
      BY <2>1, <2>4, FrontIs
    <3>2. Len(s) \in Nat
      BY <2>1
    <3>4. ASSUME NEW h \in 1..Len(t)
          PROVE  /\ t[h] \in 1..x
                 /\ Len(nest[t[h]]) = h - 1
                 /\ \A i \in 1..(h - 1) : nest[t[h]][i] = t[i]
      <4> HIDE DEF t
      <4>3. h \in 1..(Len(s) - 1) /\ h \in 1..Len(s) /\ \A i \in 1..(h - 1) : i \in 1..(Len(s) - 1)
        BY <3>1, <3>2
      <4>1. h \in 1..Len(s) /\ t[h] = s[h] /\ \A i \in 1..(h - 1) : t[i] = s[i]
        BY <3>1, <4>3
      <4>2. /\ s[h] \in 1..(x - 1) /\ Len(nest[s[h]]) = h - 1
            /\ \A i \in 1..(h - 1) : nest[s[h]][i] = s[i]
        BY <2>1, <4>1
      <4> QED BY <2>1, <4>1, <4>2
    <3>3. nest[x + 1] = t
      BY <2>4
    <3> HIDE DEF t, x
    <3>5. Holds(x + 1, nest[x + 1])
      BY <2>6, <3>3, <3>4
    <3> QED BY <3>5 DEF x
  <2>5. CASE nest[x + 1] = s
    <3>1. nest[x + 1] = s
      BY <2>5
    <3>2. ASSUME NEW h \in 1..Len(s)
          PROVE  s[h] \in 1..x
      BY <2>1
    <3> HIDE DEF x
    <3>3. Holds(x + 1, nest[x + 1])
      BY <2>1, <2>6, <3>1, <3>2
    <3> QED BY <3>3 DEF x
  <2> QED BY <2>2, <2>3, <2>4, <2>5 DEF Around
<1> HIDE DEF Good
<1>4. Nat \subseteq Good
  BY <1>2, <1>3, SetInduction
<1>5. n - 1 \in Good /\ n - 1 <= N /\ (n - 1) + 1 = n
  BY <1>1, <1>4 DEF N
<1>6. Holds(n, nest[n])
  BY <1>5 DEF Good
<1> QED BY <1>6 DEF nest

(* The containers around item n.                                            *)
Above(d, n) == Range(Nesting(d)[n])

LEMMA AboveIs ==
  ASSUME NEW d \in Seq(Item), NEW n \in 1..(Len(d) + 1)
  PROVE  /\ Above(d, n) \subseteq Boxes(d)
         /\ \A c \in Above(d, n) : c \in 1..Len(d) /\ c < n /\ Above(d, c) \subseteq Above(d, n)
         /\ \A a, c \in Above(d, n) : a = c \/ a \in Above(d, c) \/ c \in Above(d, a)
<1> DEFINE s == Nesting(d)[n]
<1>1. s \in Seq(Boxes(d)) /\ \A k \in 1..(Len(d) + 1) : Nesting(d)[k] \in Seq(Boxes(d))
  BY NestingIs
<1>2. Above(d, n) = {s[j] : j \in 1..Len(s)}
  BY <1>1 DEF Above, Range
<1>3. Above(d, n) \subseteq Boxes(d)
  BY <1>1, <1>2
<1>4. ASSUME NEW j \in 1..Len(s)
      PROVE  /\ s[j] \in 1..(n - 1) /\ s[j] \in 1..Len(d)
             /\ Above(d, s[j]) = {s[i] : i \in 1..(j - 1)}
  <2> DEFINE c == s[j]
             t == Nesting(d)[c]
  <2>1. c \in 1..(n - 1) /\ Len(t) = j - 1 /\ \A i \in 1..(j - 1) : t[i] = s[i]
    BY NestingPrefix
  <2>2. c \in 1..(Len(d) + 1) /\ c \in 1..Len(d)
    BY <2>1
  <2>3. t \in Seq(Boxes(d))
    BY <1>1, <2>2
  <2>4. Above(d, c) = {t[i] : i \in 1..Len(t)}
    BY <2>3 DEF Above, Range
  <2>5. {t[i] : i \in 1..Len(t)} = {s[i] : i \in 1..(j - 1)}
    BY <2>1
  <2> QED BY <2>1, <2>2, <2>4, <2>5
<1> HIDE DEF s
<1>5. Len(s) \in Nat
  BY <1>1
<1>6. ASSUME NEW c \in Above(d, n)
      PROVE  c \in 1..Len(d) /\ c < n /\ Above(d, c) \subseteq Above(d, n)
  <2>1. PICK j \in 1..Len(s) : c = s[j]
    BY <1>2
  <2>2. \A i \in 1..(j - 1) : i \in 1..Len(s)
    BY <1>5
  <2>3. c \in 1..(n - 1) /\ c \in 1..Len(d) /\ Above(d, c) = {s[i] : i \in 1..(j - 1)}
    BY <1>4, <2>1
  <2>4. Above(d, c) \subseteq Above(d, n)
    BY <1>2, <2>2, <2>3
  <2> QED BY <2>3, <2>4
<1>7. ASSUME NEW a \in Above(d, n), NEW c \in Above(d, n)
      PROVE  a = c \/ a \in Above(d, c) \/ c \in Above(d, a)
  <2>1. PICK i \in 1..Len(s), j \in 1..Len(s) : a = s[i] /\ c = s[j]
    BY <1>2
  <2>2. i = j \/ i \in 1..(j - 1) \/ j \in 1..(i - 1)
    BY <1>5
  <2> QED BY <1>4, <2>1, <2>2
<1> QED BY <1>3, <1>6, <1>7

(* Those around an item are its innermost container and those around that.  *)
LEMMA LastAbove ==
  ASSUME NEW d \in Seq(Item), NEW n \in 1..(Len(d) + 1), Nesting(d)[n] # <<>>
  PROVE  LET c == Last(Nesting(d)[n])
         IN  c \in 1..(n - 1) /\ c \in Boxes(d) /\ Above(d, n) = Above(d, c) \cup {c}
             /\ Nesting(d)[n] = Append(Nesting(d)[c], c)
<1> DEFINE s == Nesting(d)[n]
           c == Last(s)
           u == Nesting(d)[c]
<1>1. s \in Seq(Boxes(d))
  BY NestingIs
<1>2. Len(s) \in Nat /\ Len(s) \in 1..Len(s) /\ c = s[Len(s)]
  <2>1. Len(s) # 0
    BY <1>1, EmptySeq
  <2> QED BY <1>1, <2>1 DEF Last
<1>3. LET e == s[Len(s)]
      IN  /\ e \in 1..(n - 1) /\ Len(Nesting(d)[e]) = Len(s) - 1
          /\ \A i \in 1..(Len(s) - 1) : Nesting(d)[e][i] = s[i]
  BY <1>2, NestingPrefix
<1> HIDE DEF s
<1>4. c \in 1..(n - 1) /\ Len(u) = Len(s) - 1 /\ \A i \in 1..(Len(s) - 1) : u[i] = s[i]
  BY <1>2, <1>3
<1>5. c \in 1..(Len(d) + 1)
  BY <1>4
<1>6. u \in Seq(Boxes(d)) /\ c \in Boxes(d)
  BY <1>1, <1>2, <1>5, NestingIs
<1>7. Above(d, c) = {u[i] : i \in 1..Len(u)} /\ Above(d, n) = {s[i] : i \in 1..Len(s)}
  BY <1>1, <1>6 DEF Above, Range, s
<1> HIDE DEF u, c
<1>8. {u[i] : i \in 1..Len(u)} = {s[i] : i \in 1..(Len(s) - 1)}
  BY <1>4
<1>9. \A j \in 1..Len(s) : j \in 1..(Len(s) - 1) \/ j = Len(s)
  BY <1>2
<1>10. Above(d, n) = Above(d, c) \cup {c}
  <2>1. \A j \in 1..(Len(s) - 1) : j \in 1..Len(s)
    BY <1>2
  <2>2. {s[i] : i \in 1..Len(s)} = {s[i] : i \in 1..(Len(s) - 1)} \cup {s[Len(s)]}
    BY <1>2, <1>9, <2>1
  <2> QED BY <1>2, <1>7, <1>8, <2>2
<1>11. s = Append(u, c)
  <2> DEFINE t == Append(u, c)
  <2>1. Len(t) = Len(u) + 1 /\ t[Len(u) + 1] = c /\ (\A i \in 1..Len(u) : t[i] = u[i]) /\ t \in Seq(Boxes(d))
    BY <1>6, AppendProperties
  <2> HIDE DEF t
  <2>2. Len(t) = Len(s)
    BY <1>2, <1>4, <2>1
  <2>3. ASSUME NEW i \in 1..Len(s)
        PROVE  t[i] = s[i]
    <3>1. CASE i = Len(s)
      <4>1. Len(u) + 1 = i
        BY <1>2, <1>4, <3>1
      <4> QED BY <1>2, <2>1, <3>1, <4>1
    <3>2. CASE i # Len(s)
      <4>1. i \in 1..(Len(s) - 1) /\ i \in 1..Len(u)
        BY <1>4, <1>9, <3>2
      <4> QED BY <1>4, <2>1, <4>1
    <3> QED BY <3>1, <3>2
  <2>4. s \in [1..Len(s) -> Boxes(d)] /\ t \in [1..Len(s) -> Boxes(d)]
    BY <1>1, <2>1, <2>2
  <2>5. s = t
    BY <2>3, <2>4
  <2> QED BY <2>5 DEF t
<1> QED BY <1>4, <1>6, <1>10, <1>11 DEF c, s, u

(* One that encloses an item encloses directly it or another enclosing it.  *)
LEMMA ChildOf ==
  ASSUME NEW d \in Seq(Item), NEW n \in 1..(Len(d) + 1), NEW c \in Above(d, n)
  PROVE  \E x \in {n} \cup Above(d, n) : Nesting(d)[x] # <<>> /\ Last(Nesting(d)[x]) = c
<1> DEFINE s == Nesting(d)[n]
<1>1. s \in Seq(Boxes(d))
  BY NestingIs
<1>2. Above(d, n) = {s[i] : i \in 1..Len(s)} /\ Len(s) \in Nat
  BY <1>1 DEF Above, Range
<1>3. PICK j \in 1..Len(s) : c = s[j]
  BY <1>2
<1>4. CASE j = Len(s)
  <2>1. s # <<>> /\ Last(s) = c
    <3>1. Len(s) # 0
      BY <1>2, <1>3
    <3> QED BY <1>3, <1>4, <3>1 DEF Last
  <2> QED BY <2>1
<1>5. CASE j # Len(s)
  <2> DEFINE x == s[j + 1]
             t == Nesting(d)[x]
  <2>1. j + 1 \in 1..Len(s) /\ (j + 1) - 1 = j /\ j \in 1..j
    BY <1>2, <1>3, <1>5
  <2>2. x \in 1..(n - 1) /\ Len(t) = j /\ \A i \in 1..j : t[i] = s[i]
    BY <2>1, NestingPrefix
  <2>3. t[j] = c /\ x \in Above(d, n) /\ x \in 1..(Len(d) + 1)
    BY <1>2, <1>3, <2>1, <2>2
  <2> HIDE DEF x
  <2>4. t \in Seq(Boxes(d))
    BY <2>3, NestingIs
  <2> HIDE DEF t
  <2>5. t # <<>> /\ Last(t) = c
    BY <2>1, <2>2, <2>3, <2>4, EmptySeq DEF Last
  <2> QED BY <2>3, <2>5 DEF t
<1> QED BY <1>4, <1>5

(* A container that was left is not entered again.                          *)
LEMMA AboveStep ==
  ASSUME NEW d \in Seq(Item), NEW n \in 1..Len(d)
  PROVE  /\ Above(d, n + 1) \subseteq Above(d, n) \cup {n}
         /\ d[n].kind \in Containers => n \in Above(d, n + 1)
         /\ \A c \in Above(d, n) \ Above(d, n + 1) :
              /\ d[n].kind \in Ends /\ Nesting(d)[n] # <<>> /\ c = Last(Nesting(d)[n])
              /\ Above(d, n) = Above(d, c) \cup {c}
         /\ d[n].kind \in Ends /\ Nesting(d)[n] # <<>> => Last(Nesting(d)[n]) \notin Above(d, n + 1)
<1> DEFINE s == Nesting(d)[n]
           t == Nesting(d)[n + 1]
<1>1. /\ n \in 1..(Len(d) + 1) /\ n + 1 \in 1..(Len(d) + 1)
  OBVIOUS
<1>2. s \in Seq(Boxes(d)) /\ t \in Seq(Boxes(d)) /\ t = Around(d, n, s)
  BY <1>1, NestingIs
<1>3. Above(d, n) = {s[j] : j \in 1..Len(s)} /\ Above(d, n + 1) = {t[j] : j \in 1..Len(t)}
  BY <1>2 DEF Above, Range
<1>4. Len(s) \in Nat
  BY <1>2
<1>5. CASE d[n].kind \in Containers
  <2>1. t = Append(s, n) /\ d[n].kind \notin Ends
    BY <1>2, <1>5 DEF Around, Containers, Ends
  <2>2. /\ Len(t) = Len(s) + 1 /\ t[Len(s) + 1] = n
        /\ \A j \in 1..Len(s) : t[j] = s[j] /\ j \in 1..Len(t)
        /\ \A j \in 1..Len(t) : j \in 1..Len(s) \/ j = Len(s) + 1
    BY <1>2, <1>4, <2>1
  <2>3. Above(d, n + 1) \subseteq Above(d, n) \cup {n}
    BY <1>3, <2>2
  <2>4. Above(d, n) \subseteq Above(d, n + 1)
    BY <1>3, <2>2
  <2>5. Len(s) + 1 \in 1..Len(t)
    BY <1>4, <2>2
  <2>6. n \in Above(d, n + 1)
    BY <1>3, <2>2, <2>5
  <2> QED BY <2>1, <2>3, <2>4, <2>6
<1>6. CASE d[n].kind \in Ends /\ s # <<>>
  <2>1. t = Front(s) /\ d[n].kind \notin Containers
    BY <1>2, <1>6 DEF Around, Containers, Ends
  <2>2. Len(t) = Len(s) - 1 /\ \A j \in 1..(Len(s) - 1) : t[j] = s[j]
    BY <1>2, <1>6, <2>1, FrontIs
  <2>3. Above(d, n + 1) = {s[j] : j \in 1..(Len(s) - 1)}
    BY <1>3, <2>2
  <2>4. Len(s) # 0 /\ Len(s) \in 1..Len(s) /\ Last(s) = s[Len(s)]
    BY <1>2, <1>4, <1>6, EmptySeq DEF Last
  <2>5. \A j \in 1..Len(s) : j \in 1..(Len(s) - 1) \/ j = Len(s)
    BY <1>4
  <2>6. Above(d, n) \ Above(d, n + 1) \subseteq {Last(s)}
    BY <1>3, <2>3, <2>4, <2>5
  <2>7. Above(d, n) = Above(d, Last(s)) \cup {Last(s)} /\ Last(s) \in 1..(n - 1)
    BY <1>1, <1>6, LastAbove
  <2>8. Last(s) \notin {s[j] : j \in 1..(Len(s) - 1)}
    <3> SUFFICES ASSUME NEW j \in 1..(Len(s) - 1), s[j] = Last(s) PROVE FALSE
      OBVIOUS
    <3>1. j \in 1..Len(s)
      BY <1>4
    <3>2. Len(Nesting(d)[s[j]]) = j - 1 /\ Len(Nesting(d)[s[Len(s)]]) = Len(s) - 1
      BY <1>1, <2>4, <3>1, NestingPrefix
    <3> HIDE DEF s
    <3> QED BY <1>4, <2>4, <3>2
  <2>9. Above(d, n + 1) \subseteq Above(d, n)
    BY <1>3, <2>3, <2>5
  <2>10. \A c \in Above(d, n) \ Above(d, n + 1) :
           /\ d[n].kind \in Ends /\ s # <<>> /\ c = Last(s)
           /\ Above(d, n) = Above(d, c) \cup {c}
    BY <1>6, <2>6, <2>7
  <2>11. Last(s) \notin Above(d, n + 1)
    BY <2>3, <2>8
  <2> QED BY <1>6, <2>1, <2>9, <2>10, <2>11
<1>7. CASE d[n].kind \notin Containers /\ ~(d[n].kind \in Ends /\ s # <<>>)
  <2>1. t = s
    BY <1>2, <1>7 DEF Around
  <2> QED BY <1>3, <1>7, <2>1
<1> QED BY <1>5, <1>6, <1>7

LEMMA AboveBetween ==
  ASSUME NEW d \in Seq(Item), NEW y \in 1..(Len(d) + 1), NEW c \in Above(d, y),
         NEW x \in (c + 1)..y
  PROVE  c \in Above(d, x)
<1>1. c \in 1..Len(d) /\ c < y
  BY AboveIs
<1> DEFINE Good == {k \in Nat : k <= y - (c + 1) => c \in Above(d, y - k)}
<1>2. 0 \in Good
  OBVIOUS
<1>3. ASSUME NEW k \in Nat, k \in Good
      PROVE  k + 1 \in Good
  <2> SUFFICES ASSUME k + 1 <= y - (c + 1)
               PROVE  c \in Above(d, y - (k + 1))
    OBVIOUS
  <2> DEFINE n == y - (k + 1)
  <2>1. n \in 1..Len(d) /\ n + 1 = y - k /\ n # c /\ k <= y - (c + 1)
    BY <1>1
  <2>2. c \in Above(d, n + 1)
    BY <1>3, <2>1
  <2> HIDE DEF n
  <2>3. c \in Above(d, n)
    BY <2>1, <2>2, AboveStep
  <2> QED BY <2>3 DEF n
<1> HIDE DEF Good
<1>4. Nat \subseteq Good
  BY <1>2, <1>3, SetInduction
<1>5. y - x \in Good /\ y - x <= y - (c + 1) /\ y - (y - x) = x
  BY <1>1, <1>4
<1> QED BY <1>5 DEF Good

LEMMA SpanIs ==
  ASSUME NEW d \in Seq(Item), Grammatical(d), NEW c \in 1..Len(d)
  PROVE  /\ Max(Span(d, c)) \in c..Len(d)
         /\ Span(d, c) = c..Max(Span(d, c))
         /\ \A n \in 1..Len(d) : c \in Above(d, n) <=> n \in (c + 1)..Max(Span(d, c))
         /\ c \in Boxes(d) =>
              /\ Max(Span(d, c)) > c /\ d[Max(Span(d, c))].kind \in Ends
              /\ Above(d, Max(Span(d, c))) = Above(d, c) \cup {c}
<1> DEFINE N == Len(d)
           S == Span(d, c)
           e == Max(S)
<1>1. S = {c} \cup {m \in 1..N : c \in Above(d, m)}
  BY DEF Span, Above
<1>2. N \in Nat /\ S \in SUBSET (1..N) /\ S # {}
  BY <1>1
<1> HIDE DEF S, N
<1>3. e \in S /\ \A y \in S : y <= e
  BY <1>2, MaxIsGreatest
<1> HIDE DEF e
<1>4. e \in c..N
  BY <1>1, <1>2, <1>3 DEF N
<1>5. \A n \in 1..N : c \in Above(d, n) => n \in (c + 1)..e
  <2> SUFFICES ASSUME NEW n \in 1..N, c \in Above(d, n) PROVE n \in (c + 1)..e
    OBVIOUS
  <2>1. n \in S /\ n \in 1..(N + 1)
    BY <1>1, <1>2
  <2>2. c < n
    BY <2>1, AboveIs DEF N
  <2>3. n <= e /\ c \in Nat /\ e \in Nat
    BY <1>2, <1>3, <1>4, <2>1
  <2> QED BY <2>2, <2>3
<1>6. \A n \in (c + 1)..e : c \in Above(d, n) /\ n \in 1..N
  <2> SUFFICES ASSUME NEW n \in (c + 1)..e PROVE c \in Above(d, n) /\ n \in 1..N
    OBVIOUS
  <2>1. e # c /\ e \in 1..(Len(d) + 1) /\ n \in 1..N
    BY <1>2, <1>4 DEF N
  <2>2. c \in Above(d, e)
    BY <1>1, <1>3, <2>1
  <2> QED BY <2>1, <2>2, AboveBetween
<1>7. S = c..e
  <2>1. \A n \in 1..N : n \in S <=> n = c \/ n \in (c + 1)..e
    BY <1>1, <1>5, <1>6
  <2>2. \A n \in c..e : n \in 1..N /\ (n = c \/ n \in (c + 1)..e)
    BY <1>2, <1>4 DEF N
  <2>3. \A n \in S : n \in 1..N
    BY <1>2
  <2>4. \A n \in 1..N : n = c \/ n \in (c + 1)..e => n \in c..e
    BY <1>2, <1>4 DEF N
  <2> QED BY <2>1, <2>2, <2>3, <2>4
<1>8. Above(d, N + 1) = {}
  <2> DEFINE nest == Nesting(d)
  <2>1. nest \in [1..(N + 1) -> Seq(Boxes(d))] /\ Last(nest) = <<>>
    BY NestingIs DEF Grammatical, N
  <2>2. Len(nest) = N + 1
    BY <1>2, <2>1
  <2>3. nest[N + 1] = <<>>
    BY <2>1, <2>2 DEF Last
  <2> QED BY <2>3 DEF Above, Range
<1>9. ASSUME c \in Boxes(d)
      PROVE  e > c /\ d[e].kind \in Ends /\ Above(d, e) = Above(d, c) \cup {c}
  <2>1. c \in Above(d, c + 1)
    BY <1>9, AboveStep DEF Boxes
  <2>2. c + 1 \in 1..N
    BY <1>2, <1>8, <2>1 DEF N
  <2>3. c + 1 \in (c + 1)..e
    BY <1>5, <2>1, <2>2
  <2>4. e \in 1..N /\ e \in (c + 1)..e /\ e > c
    BY <1>2, <1>4, <2>3 DEF N
  <2>5. c \in Above(d, e)
    BY <1>6, <2>4
  <2>6. c \notin Above(d, e + 1)
    <3>1. CASE e = N
      BY <1>8, <3>1
    <3>2. CASE e # N
      <4>1. e + 1 \in 1..N /\ e + 1 \notin (c + 1)..e
        BY <1>2, <2>4, <3>2
      <4> QED BY <1>5, <4>1
    <3> QED BY <3>1, <3>2
  <2> QED BY <2>4, <2>5, <2>6, AboveStep DEF N
<1> QED BY <1>4, <1>5, <1>6, <1>7, <1>9 DEF e, S, N

-----------------------------------------------------------------------------
(* The bytes of an item.                                                    *)
Place(d, n) == Starts(d)[n]..(Starts(d)[n + 1] - 1)

LEMMA StartsGrow ==
  ASSUME NEW d \in Seq(Item)
  PROVE  /\ \A i \in 1..(Len(d) + 1) : Starts(d)[i] \in Nat \ {0}
         /\ \A i, j \in 1..(Len(d) + 1) : i < j => Starts(d)[i] < Starts(d)[j]
<1>1. \A i \in 1..(Len(d) + 1) : Starts(d)[i] \in Nat \ {0}
  BY StartsAre
<1>2. ASSUME NEW i \in 1..(Len(d) + 1), NEW j \in 1..(Len(d) + 1), i < j
      PROVE  Starts(d)[i] < Starts(d)[j]
  <2> DEFINE m == j - 1
  <2>1. i \in 1..Len(d) /\ m \in i..Len(d) /\ m + 1 = j
    BY <1>2
  <2> HIDE DEF m
  <2>2. Starts(d)[m + 1] > Starts(d)[i]
    BY <2>1, ItemAtByte
  <2> QED BY <1>1, <2>1, <2>2
<1> QED BY <1>1, <1>2

(* Two items share no byte, and the bytes from item n to item m are theirs. *)
LEMMA PlacesAre ==
  ASSUME NEW d \in Seq(Item)
  PROVE  /\ \A i \in 1..Len(d) : Starts(d)[i] \in Place(d, i) /\ Place(d, i) \subseteq Nat
         /\ \A i, j \in 1..Len(d) : i # j => Place(d, i) \cap Place(d, j) = {}
         /\ \A n \in 1..Len(d), m \in 1..Len(d) :
              n <= m => \A k : k \in Starts(d)[n]..(Starts(d)[m + 1] - 1)
                                 <=> \E i \in n..m : k \in Place(d, i)
<1> DEFINE start == Starts(d)
           N == Len(d)
<1>1. /\ \A i \in 1..(N + 1) : start[i] \in Nat \ {0}
      /\ \A i, j \in 1..(N + 1) : i < j => start[i] < start[j]
      /\ N \in Nat
  BY StartsGrow
<1>2. \A i \in 1..N : i \in 1..(N + 1) /\ i + 1 \in 1..(N + 1) /\ i < i + 1
  BY <1>1
<1>3. \A n, m \in 1..N : n <= m =>
        \A at \in start[n]..(start[m + 1] - 1) : \E i \in n..m : at \in start[i]..(start[i + 1] - 1)
  BY <1>1, ItemAtByte
<1> HIDE DEF start, N
<1>4. ASSUME NEW i \in 1..N
      PROVE  start[i] \in start[i]..(start[i + 1] - 1) /\ start[i]..(start[i + 1] - 1) \subseteq Nat
  <2>1. start[i] \in Nat /\ start[i + 1] \in Nat /\ start[i] < start[i + 1]
    BY <1>1, <1>2
  <2> QED BY <2>1
<1>5. ASSUME NEW i \in 1..N, NEW j \in 1..N, i < j
      PROVE  (start[i]..(start[i + 1] - 1)) \cap (start[j]..(start[j + 1] - 1)) = {}
  <2>1. i + 1 = j \/ i + 1 < j
    BY <1>5
  <2>2. start[i] \in Nat /\ start[i + 1] \in Nat /\ start[j] \in Nat /\ start[j + 1] \in Nat
    BY <1>1, <1>2
  <2>3. start[i + 1] <= start[j]
    BY <1>1, <1>2, <2>1, <2>2
  <2> QED BY <2>2, <2>3
<1>6. ASSUME NEW n \in 1..N, NEW m \in 1..N, n <= m
      PROVE  \A k : k \in start[n]..(start[m + 1] - 1)
                     <=> \E i \in n..m : k \in start[i]..(start[i + 1] - 1)
  <2>1. ASSUME NEW i \in n..m
        PROVE  start[i]..(start[i + 1] - 1) \subseteq start[n]..(start[m + 1] - 1)
    <3>1. i \in 1..N /\ (n = i \/ n < i) /\ (i + 1 = m + 1 \/ i + 1 < m + 1)
      BY <1>1
    <3>2. /\ start[i] \in Nat /\ start[i + 1] \in Nat /\ start[n] \in Nat /\ start[m + 1] \in Nat
      BY <1>1, <1>2, <3>1
    <3>3. start[n] <= start[i] /\ start[i + 1] <= start[m + 1]
      BY <1>1, <1>2, <3>1, <3>2
    <3> QED BY <3>2, <3>3
  <2> QED BY <1>3, <1>6, <2>1
<1>7. \A i, j \in 1..N : i # j => i < j \/ j < i
  BY <1>1
<1> QED BY <1>4, <1>5, <1>6, <1>7 DEF Place, start, N

LEMMA ImagesAt ==
  ASSUME NEW d \in Seq(Item), NEW n \in 1..Len(d), NEW m \in n..Len(d), NEW open,
         NEW i \in n..m, NEW k \in Place(d, i)
  PROVE  Images(d, n, m, open)[k - Starts(d)[n] + 1] = Image(d, i, open)[k - Starts(d)[i] + 1]
<1> DEFINE start == Starts(d)
           W == start[m + 1] - start[n]
           ItemAt(x) == CHOOSE j \in n..m : x \in start[j]..(start[j + 1] - 1)
           At(x) == start[n] + x - 1
           ByteAt(at) == Image(d, ItemAt(at), open)[at - start[ItemAt(at)] + 1]
           p == k - start[n] + 1
<1>1. i \in 1..Len(d) /\ m \in 1..Len(d) /\ n <= m /\ \A j \in n..m : j \in 1..Len(d)
  OBVIOUS
<1>2. k \in start[n]..(start[m + 1] - 1)
  BY <1>1, PlacesAre
<1>3. start[n] \in Nat /\ start[m + 1] \in Nat
  BY <1>1, StartsGrow
<1>5. \A j \in n..m : k \in start[j]..(start[j + 1] - 1) => j = i
  BY <1>1, PlacesAre DEF Place
<1>6. k \in start[i]..(start[i + 1] - 1)
  BY DEF Place
<1>7. ItemAt(k) = i
  BY <1>5, <1>6
<1>8. Images(d, n, m, open) = [x \in 1..W |-> ByteAt(At(x))]
  BY DEF Images
<1> HIDE DEF start, ItemAt
<1>4. p \in 1..W /\ At(p) = k
  <2> DEFINE a == start[n]
             z == start[m + 1]
  <2>1. a \in Nat /\ z \in Nat /\ k \in a..(z - 1)
    BY <1>2, <1>3
  <2> HIDE DEF a, z
  <2>2. k - a + 1 \in 1..(z - a) /\ a + (k - a + 1) - 1 = k
    BY <2>1
  <2> QED BY <2>2 DEF a, z
<1> HIDE DEF p, ByteAt, At, W
<1>9. Images(d, n, m, open)[p] = ByteAt(k)
  BY <1>4, <1>8
<1>10. ByteAt(k) = Image(d, i, open)[k - start[i] + 1]
  BY <1>7 DEF ByteAt
<1> QED BY <1>9, <1>10 DEF p, start

(* The first byte of a present item tells that it is present.               *)
LEMMA ConcatFirst ==
  ASSUME NEW B, NEW s \in Seq(B), Len(s) >= 1, NEW t \in Seq(B)
  PROVE  (s \o t)[1] = s[1]
  OBVIOUS

LEMMA FirstOf ==
  ASSUME NEW B, NEW x \in B, NEW s \in Seq(B)
  PROVE  (<<x>> \o s)[1] = x
<1>1. <<x>> \in Seq(B) /\ Len(<<x>>) >= 1 /\ <<x>>[1] = x
  OBVIOUS
<1> QED BY <1>1, ConcatFirst

LEMMA PaddedFirst ==
  ASSUME NEW B, Nop \in B, NEW s \in Seq(B), Len(s) >= 1, NEW n \in Nat
  PROVE  Padded(s, n)[1] = s[1]
<1> DEFINE t == Nops(n - Len(s))
<1>1. t \in Seq(B)
  <2>1. CASE n - Len(s) \in Nat
    BY <2>1, RepeatIs DEF Nops
  <2>2. CASE n - Len(s) \notin Nat
    <3>1. 1..(n - Len(s)) = 1..0
      BY <2>2
    <3>2. t = Repeat(0, Nop)
      BY <3>1 DEF Nops, Repeat
    <3> QED BY <3>2, RepeatIs
  <2> QED BY <2>1, <2>2
<1>2. Padded(s, n) = s \o t
  BY DEF Padded
<1> HIDE DEF t
<1> QED BY <1>1, <1>2

LEMMA DefaultFirst ==
  ASSUME NEW i \in Item, i.kind # "details", NEW x \in {Nop, Zero}
  PROVE  Default(i, x)[1] # Nop
<1> DEFINE D == {}
           B == Byte(D)
           h == Header(i.code)
<1>1. /\ i.low \in Nat /\ i.high \in Nat
      /\ i.kind \in DOMAIN Sti => i.code \in DOMAIN sti
      /\ i.kind \in {"type", "scalar", "native", "issued", "any", "empty", "fixed", "vl",
                     "object", "array", "elements", "end_object", "end_array", "details"}
      /\ i.kind \in DOMAIN Sti <=> i.kind \notin Ends \cup {"details"}
  BY ItemIs
<1>2. x \in B /\ Zero \in B /\ Nop \in B /\ (i.kind \in DOMAIN Sti => h \in B) /\ h # Nop
  BY <1>1, ByteIs DEF Header, Nop
<1>3. CASE i.kind \in Ends
  BY <1>3 DEF Default, Ends, Containers, Nop
<1>4. CASE i.kind \in Containers
  BY <1>2, <1>4 DEF Default, Ends, Containers
<1>5. CASE i.kind \in {"type", "scalar"}
  BY <1>2, <1>5 DEF Default, Ends, Containers
<1>6. CASE i.kind \in {"native", "issued", "any", "empty", "fixed", "vl"}
  <2>1. h \in B /\ i.kind \notin Containers \cup Ends \cup {"type", "scalar"}
    BY <1>1, <1>2, <1>6 DEF Ends, Containers
  <2> HIDE DEF D
  <2>2. /\ Native(0) \in Seq(B) /\ Issued(0) \in Seq(B) /\ Prefix(0) \in Seq(B)
        /\ Blob(i.high, x) \in Seq(B) /\ Blob(i.low, x) \in Seq(B)
    <3> DEFINE v == 0
    <3>1. v \in Int /\ v \in Nat
      OBVIOUS
    <3> HIDE DEF v
    <3>2. Native(v) \in Seq(B) /\ Issued(v) \in Seq(B) /\ Prefix(v) \in Seq(B)
      BY <3>1, AmountIs, PrefixIs
    <3> QED BY <1>1, <1>2, <3>2, BlobIs DEF v
  <2>3. ItemLen(i) \in Nat
    BY ItemLenIs
  <2>7. \A s \in Seq(B) : <<h>> \o s \in Seq(B) /\ Len(<<h>> \o s) >= 1 /\ (<<h>> \o s)[1] = h
    <3> SUFFICES ASSUME NEW s \in Seq(B)
                 PROVE  <<h>> \o s \in Seq(B) /\ Len(<<h>> \o s) >= 1 /\ (<<h>> \o s)[1] = h
      OBVIOUS
    <3>1. <<h>> \o s \in Seq(B) /\ Len(<<h>> \o s) = 1 + Len(s) /\ Len(s) \in Nat
      BY <1>1, <1>6, HeadIs DEF Sti
    <3> QED BY <2>1, <3>1, FirstOf
  <2> HIDE DEF B, h
  <2>4. \A s \in Seq(B) : Padded(<<h>> \o s, ItemLen(i))[1] = h
    BY <1>2, <2>3, <2>7, PaddedFirst
  <2>6. \/ \E s \in Seq(B) : Default(i, x) = <<h>> \o s
        \/ \E s \in Seq(B) : Default(i, x) = Padded(<<h>> \o s, ItemLen(i))
    <3>1. CASE i.kind = "native"
      BY <2>1, <2>2, <3>1 DEF Default, h
    <3>2. CASE i.kind = "issued"
      BY <2>1, <2>2, <3>2 DEF Default, h
    <3>3. CASE i.kind = "any"
      BY <2>1, <2>2, <3>3 DEF Default, h
    <3>4. CASE i.kind = "empty"
      BY <2>1, <2>2, <3>4 DEF Default, h
    <3>5. CASE i.kind = "fixed"
      BY <2>1, <2>2, <3>5 DEF Default, h
    <3>6. CASE i.kind = "vl"
      BY <2>1, <2>2, <3>6 DEF Default, h
    <3> QED BY <1>6, <3>1, <3>2, <3>3, <3>4, <3>5, <3>6
  <2> QED BY <1>2, <2>4, <2>6, <2>7
<1> QED BY <1>1, <1>3, <1>4, <1>5, <1>6 DEF Ends, Containers

(* Item n is there when the optional items in open are.                     *)
Shown(d, n, open) ==
  \A c \in {n} \cup Above(d, n) : d[c].optional => c \in open

LEMMA ImagesShow ==
  ASSUME NEW d \in Seq(Item), NEW n \in 1..Len(d), NEW m \in n..Len(d), NEW open,
         NEW i \in n..m, d[i].kind # "details"
  PROVE  LET s == Images(d, n, m, open)
             start == Starts(d)
         IN  IF Shown(d, i, open) THEN s[start[i] - start[n] + 1] # Nop
             ELSE \A k \in Place(d, i) : s[k - start[n] + 1] = Nop
<1> DEFINE s == Images(d, n, m, open)
           start == Starts(d)
           image == Image(d, i, open)
<1>1. i \in 1..Len(d) /\ d[i] \in Item /\ i \in 1..(Len(d) + 1) /\ i + 1 \in 1..(Len(d) + 1)
  OBVIOUS
<1>2. \A k \in Place(d, i) : s[k - start[n] + 1] = image[k - start[i] + 1]
  BY ImagesAt
<1>3. /\ start[i] \in Place(d, i) /\ start[i] \in Nat
      /\ start[i + 1] = start[i] + ItemLen(d[i]) /\ ItemLen(d[i]) \in Nat
  BY <1>1, PlacesAre, StartsAre, ItemLenIs
<1>4. image = IF Shown(d, i, open) THEN Default(d[i], Ground(d, i)) ELSE Nops(ItemLen(d[i]))
  BY DEF Image, Shown, Above
<1>5. Ground(d, i) \in {Nop, Zero}
  BY DEF Ground
<1>6. Default(d[i], Ground(d, i))[1] # Nop
  BY <1>1, <1>5, DefaultFirst
<1>7. start[i] - start[i] + 1 = 1
  BY <1>3
<1>8. ASSUME NEW k \in Place(d, i)
      PROVE  Nops(ItemLen(d[i]))[k - start[i] + 1] = Nop
  <2> DEFINE a == start[i]
             len == ItemLen(d[i])
  <2>1. a \in Nat /\ len \in Nat /\ k \in a..(a + len - 1)
    BY <1>3 DEF Place
  <2> HIDE DEF a, len
  <2>2. k - a + 1 \in 1..len
    BY <2>1
  <2>3. Nops(len)[k - a + 1] = Nop
    BY <2>2 DEF Nops, Repeat
  <2> QED BY <2>3 DEF a, len
<1> HIDE DEF s, start, image
<1>9. CASE Shown(d, i, open)
  BY <1>2, <1>3, <1>4, <1>6, <1>7, <1>9 DEF s, start
<1>10. CASE ~Shown(d, i, open)
  BY <1>2, <1>4, <1>8, <1>10 DEF s, start
<1> QED BY <1>9, <1>10

-----------------------------------------------------------------------------
(* A template that was compiled: its items, and the cell of bytes of each.  *)
Built == decl \in Templates /\ lay = Layouts[decl]

Cell(n) == lay.start[n]..(lay.start[n + 1] - 1)
Enclosing(n) == Range(lay.within[n])
Covered(c) == {n \in Items : n = c \/ c \in Enclosing(n)}
There(b, n) == b[lay.start[n]] # Nop

(* A container whose elements are optional.                                 *)
Sparse(d, n) == d[n].kind = "elements" /\ d[n + 1].optional
Arrays(d, n) == {c \in Above(d, n) : d[c].kind = "elements"}

LEMMA BuiltIs ==
  ASSUME Built
  PROVE  /\ item \in Seq(Item) /\ Compiles(item) /\ Shaped(lay)
         /\ Items = 1..Len(item) /\ Len(item) \in Nat /\ Len(item) > 0
         /\ lay.start = Starts(item)
         /\ lay.within = [n \in Items |-> Nesting(item)[n]]
         /\ lay.close = [n \in Items |-> Max(Span(item, n))]
         /\ lay.mode = [n \in Items |-> {c \in Above(item, n) : item[c].optional}]
         /\ lay.outer = [n \in Items |-> IF Arrays(item, n) = {} THEN <<>>
                                         ELSE Nesting(item)[Max(Arrays(item, n))]]
         /\ lay.plumb = [f \in Plumbing |-> Min(Finds(item, f))]
         /\ lay.slot = [n \in Slotted(item) |->
                          Images(item, n, lay.close[n], {n} \cup lay.mode[n])]
         /\ lay.gap = [n \in {m \in Items : item[m].optional}
                               \cup {m \in Items : Sparse(item, m)} |->
                         IF item[n].optional THEN lay.start[n]..(lay.start[lay.close[n] + 1] - 1)
                         ELSE (lay.start[n] + 1)..(lay.start[lay.close[n]] - 1)]
         /\ DOMAIN lay.owned = {0} \cup {n \in Items : IsElement(item, n)}
         /\ \A o \in DOMAIN lay.owned : lay.owned[o] \subseteq DOMAIN lay.gap
         /\ lay.fresh = Images(item, 1, Len(item), {})
<1> DEFINE d == Declarations[decl]
           L == Layout(d)
<1>1. d \in Seq(Item) /\ Compiles(d) /\ lay = L /\ Shaped(lay)
  BY TemplateConstants, LayoutShaped DEF Templates, Layouts, Built
<1>2. DOMAIN d = 1..Len(d) /\ Len(d) \in Nat
  BY <1>1
<1>3. L.item = d
  BY DEF Layout
<1>4. /\ L.start = Starts(d)
      /\ L.within = [n \in DOMAIN d |-> Nesting(d)[n]]
      /\ L.close = [n \in DOMAIN d |-> Max(Span(d, n))]
      /\ L.plumb = [f \in Plumbing |-> Min(Finds(d, f))]
      /\ L.fresh = Images(d, 1, Len(d), {})
  BY DEF Layout
<1>5. L.mode = [n \in DOMAIN d |-> {c \in Above(d, n) : d[c].optional}]
  BY DEF Layout, Above
<1>6. L.outer = [n \in DOMAIN d |-> IF Arrays(d, n) = {} THEN <<>>
                                    ELSE Nesting(d)[Max(Arrays(d, n))]]
  BY DEF Layout, Above, Arrays
<1>7. L.slot = [n \in Slotted(d) |-> Images(d, n, L.close[n], {n} \cup L.mode[n])]
  <2>1. Slotted(d) = {m \in DOMAIN d : d[m].optional /\ d[m].kind \in Containers}
    BY <1>2 DEF Slotted
  <2> QED BY <2>1 DEF Layout
<1>8. L.gap = [n \in {m \in DOMAIN d : d[m].optional} \cup {m \in DOMAIN d : Sparse(d, m)} |->
                 IF d[n].optional THEN L.start[n]..(L.start[L.close[n] + 1] - 1)
                 ELSE (L.start[n] + 1)..(L.start[L.close[n]] - 1)]
  BY DEF Layout, Sparse
<1>9. /\ DOMAIN L.owned = {0} \cup {n \in DOMAIN d : IsElement(d, n)}
      /\ \A o \in DOMAIN L.owned : L.owned[o] \subseteq DOMAIN L.gap
  BY DEF Layout
<1> HIDE DEF L, d
<1>10. item = d /\ Items = DOMAIN d
  BY <1>1, <1>3 DEF item, Items
<1>11. Len(d) > 0
  BY <1>1, <1>3 DEF Shaped
<1> QED BY <1>1, <1>2, <1>4, <1>5, <1>6, <1>7, <1>8, <1>9, <1>10, <1>11

LEMMA EnclosureIs ==
  ASSUME Built
  PROVE  /\ Items = 1..Len(item) /\ Len(item) \in Nat
         /\ \A n \in Items : /\ item[n] \in Item
                              /\ Enclosing(n) = Above(item, n) /\ Enclosing(n) \subseteq Items
                              /\ lay.mode[n] = {c \in Enclosing(n) : item[c].optional}
         /\ \A n \in Items : \A c \in Enclosing(n) :
              c < n /\ item[c].kind \in Containers /\ Enclosing(c) \subseteq Enclosing(n)
         /\ \A n \in Items : \A a, c \in Enclosing(n) :
              a = c \/ a \in Enclosing(c) \/ c \in Enclosing(a)
         /\ \A n \in Items : item[n].kind = "details" <=> n = Len(item)
         /\ \A n \in Items : item[n].kind = "details" => Enclosing(n) = {} /\ ~item[n].optional
<1> DEFINE d == item
<1>1. /\ d \in Seq(Item) /\ Compiles(d) /\ Grammatical(d)
      /\ Items = 1..Len(d) /\ Len(d) \in Nat /\ Len(d) > 0
      /\ lay.within = [n \in Items |-> Nesting(d)[n]]
      /\ lay.mode = [n \in Items |-> {c \in Above(d, n) : d[c].optional}]
  BY BuiltIs DEF Compiles
<1>0. DOMAIN d = Items
  BY DEF Items
<1> HIDE DEF d
<1>2. \A n \in Items : n \in 1..(Len(d) + 1)
  BY <1>1
<1>3. \A n \in Items : d[n] \in Item /\ Enclosing(n) = Above(d, n)
  BY <1>1 DEF Enclosing, Above
<1>4. \A n \in Items : Above(d, n) \subseteq Boxes(d) /\ Boxes(d) \subseteq Items
  BY <1>1, <1>2, AboveIs DEF Boxes
<1>5. \A n \in Items : \A c \in Above(d, n) :
        c \in Items /\ c < n /\ d[c].kind \in Containers /\ Above(d, c) \subseteq Above(d, n)
  BY <1>1, <1>2, <1>4, AboveIs DEF Boxes
<1>6. \A n \in Items : \A a, c \in Above(d, n) : a = c \/ a \in Above(d, c) \/ c \in Above(d, a)
  BY <1>1, <1>2, AboveIs
<1>7. \A n \in Items : d[n].kind = "details" <=> n = Len(d)
  BY <1>0, <1>1 DEF Grammatical
<1>8. \A n \in Items : d[n].kind = "details" => ~d[n].optional
  BY <1>0, <1>1 DEF Grammatical
<1>9. Above(d, Len(d)) = {}
  <2> DEFINE N == Len(d)
             nest == Nesting(d)
  <2>1. nest \in [1..(N + 1) -> Seq(Boxes(d))] /\ Last(nest) = <<>> /\ N \in Nat /\ N > 0
    BY <1>1, NestingIs DEF Grammatical
  <2>2. Len(nest) = N + 1
    BY <2>1
  <2>3. nest[N + 1] = <<>>
    BY <2>1, <2>2 DEF Last
  <2>4. N \in 1..N /\ nest[N + 1] = Around(d, N, nest[N])
    BY <1>1, NestingIs
  <2>5. d[N].kind = "details"
    BY <1>1, <1>7
  <2>6. nest[N] = <<>>
    BY <2>3, <2>4, <2>5 DEF Around, Containers, Ends
  <2> QED BY <2>6 DEF Above, Range
<1> QED BY <1>1, <1>3, <1>4, <1>5, <1>6, <1>7, <1>8, <1>9 DEF d

LEMMA CellIs ==
  ASSUME Built
  PROVE  /\ \A n \in Items : lay.start[n] \in Cell(n) /\ Cell(n) \subseteq 1..Len(lay.fresh)
         /\ \A n, m \in Items : n # m => Cell(n) \cap Cell(m) = {}
         /\ \A n \in Items : lay.start[n + 1] = lay.start[n] + ItemLen(item[n])
         /\ \A n \in Items : lay.start[n] \in Nat \ {0} /\ ItemLen(item[n]) \in Nat \ {0}
<1> DEFINE d == item
           N == Len(d)
<1>1. /\ d \in Seq(Item) /\ Items = 1..N /\ N \in Nat /\ N > 0 /\ lay.start = Starts(d)
      /\ lay.fresh = Images(d, 1, N, {})
  BY BuiltIs
<1>2. /\ Starts(d) \in [1..(N + 1) -> Nat \ {0}] /\ Starts(d)[1] = 1
      /\ \A n \in 1..N : Starts(d)[n + 1] = Starts(d)[n] + ItemLen(d[n])
  BY <1>1, StartsAre
<1>3. /\ \A i \in 1..N : Starts(d)[i] \in Place(d, i)
      /\ \A i, j \in 1..N : i # j => Place(d, i) \cap Place(d, j) = {}
      /\ \A k : k \in Starts(d)[1]..(Starts(d)[N + 1] - 1) <=> \E i \in 1..N : k \in Place(d, i)
  <2>1. 1 \in 1..N /\ N \in 1..N
    BY <1>1
  <2> QED BY <1>1, <2>1, PlacesAre
<1>4. \A n \in Items : Cell(n) = Place(d, n) /\ ItemLen(d[n]) \in Nat \ {0}
  BY <1>1, ItemLenIs DEF Cell, Place
<1>5. Len(lay.fresh) = Starts(d)[N + 1] - 1
  <2> DEFINE D == {}
             open == {}
  <2>1. 1 \in 1..N /\ N \in 1..N
    BY <1>1
  <2> HIDE DEF D, open
  <2>2. Len(Images(d, 1, N, open)) = Starts(d)[N + 1] - Starts(d)[1]
    BY <1>1, <2>1, ImagesAre
  <2> QED BY <1>1, <1>2, <2>2 DEF open
<1>6. \A n \in Items : Place(d, n) \subseteq 1..Len(lay.fresh)
  BY <1>1, <1>2, <1>3, <1>5
<1>7. \A n \in Items : Starts(d)[n] \in Nat \ {0}
  BY <1>1, <1>2
<1> QED BY <1>1, <1>2, <1>3, <1>4, <1>6, <1>7

(* The items that c covers are those from c to its end.                     *)
LEMMA CoveredIs ==
  ASSUME Built, NEW c \in Items
  PROVE  /\ lay.close[c] \in c..Len(item)
         /\ Covered(c) = c..lay.close[c]
         /\ \A k : k \in lay.start[c]..(lay.start[lay.close[c] + 1] - 1)
                     <=> \E n \in Covered(c) : k \in Cell(n)
         /\ item[c].kind \in Containers =>
              /\ lay.close[c] > c /\ item[lay.close[c]].kind \in Ends
              /\ Enclosing(lay.close[c]) = Enclosing(c) \cup {c}
<1> DEFINE d == item
           e == lay.close[c]
<1>1. /\ d \in Seq(Item) /\ Grammatical(d) /\ Items = 1..Len(d) /\ Len(d) \in Nat
      /\ lay.start = Starts(d) /\ e = Max(Span(d, c))
  BY BuiltIs DEF Compiles
<1>2. \A n \in Items : Enclosing(n) = Above(d, n)
  BY EnclosureIs
<1>3. /\ e \in c..Len(d)
      /\ \A n \in 1..Len(d) : c \in Above(d, n) <=> n \in (c + 1)..e
      /\ c \in Boxes(d) => e > c /\ d[e].kind \in Ends /\ Above(d, e) = Above(d, c) \cup {c}
  BY <1>1, SpanIs
<1> HIDE DEF d, e
<1>4. Covered(c) = c..e
  <2>1. \A n \in Items : n \in Covered(c) <=> n = c \/ n \in (c + 1)..e
    BY <1>1, <1>2, <1>3 DEF Covered
  <2>2. \A n \in Items : n = c \/ n \in (c + 1)..e <=> n \in c..e
    BY <1>1, <1>3
  <2>3. c..e \subseteq Items /\ Covered(c) \subseteq Items
    BY <1>1, <1>3 DEF Covered
  <2> QED BY <2>1, <2>2, <2>3
<1>5. \A k : k \in Starts(d)[c]..(Starts(d)[e + 1] - 1) <=> \E n \in c..e : k \in Place(d, n)
  <2>1. c \in 1..Len(d) /\ e \in 1..Len(d) /\ c <= e
    BY <1>1, <1>3
  <2> QED BY <1>1, <2>1, PlacesAre
<1>6. \A n \in c..e : Cell(n) = Place(d, n)
  BY <1>1 DEF Cell, Place
<1>7. d[c].kind \in Containers => e > c /\ d[e].kind \in Ends /\ Enclosing(e) = Enclosing(c) \cup {c}
  <2>1. e \in Items
    BY <1>1, <1>3
  <2> QED BY <1>1, <1>2, <1>3, <2>1 DEF Boxes
<1> QED BY <1>1, <1>3, <1>4, <1>5, <1>6, <1>7 DEF d, e

(* What the bytes of container c hold by default, and the items that are    *)
(* there by default: those in no further optional container.                *)
SlotByte(c, k) == lay.slot[c][k - lay.start[c] + 1]
Plainly(c, n) ==
  \A a \in {n} \cup Enclosing(n) : item[a].optional => a \in {c} \cup lay.mode[c]

LEMMA SlotIs ==
  ASSUME Built, NEW c \in DOMAIN lay.slot
  PROVE  /\ c \in Items /\ item[c].optional /\ item[c].kind \in Containers
         /\ \A k \in Int : k - lay.start[c] + 1 \in DOMAIN lay.slot[c]
                             <=> \E n \in Covered(c) : k \in Cell(n)
         /\ \A n \in Covered(c) :
              /\ item[n].kind # "details"
              /\ Plainly(c, n) => SlotByte(c, lay.start[n]) # Nop
              /\ ~Plainly(c, n) => \A k \in Cell(n) : SlotByte(c, k) = Nop
<1> DEFINE d == item
           N == Len(d)
           e == lay.close[c]
           open == {c} \cup lay.mode[c]
<1>1. /\ d \in Seq(Item) /\ Items = 1..N /\ N \in Nat
      /\ lay.start = Starts(d)
      /\ lay.slot = [n \in Slotted(d) |-> Images(d, n, lay.close[n], {n} \cup lay.mode[n])]
  BY BuiltIs
<1>2. c \in Items /\ item[c].optional /\ item[c].kind \in Containers
  BY <1>1 DEF Slotted
<1>3. /\ e \in c..N /\ Covered(c) = c..e
      /\ \A k : k \in lay.start[c]..(lay.start[e + 1] - 1) <=> \E n \in Covered(c) : k \in Cell(n)
      /\ item[e].kind \in Ends /\ e > c
  BY <1>2, CoveredIs
<1>4. lay.slot[c] = Images(d, c, e, open)
  BY <1>1
<1>5. \A n \in Items : Enclosing(n) = Above(d, n) /\ (d[n].kind = "details" <=> n = N)
  BY EnclosureIs
<1> HIDE DEF d, e, open, N
<1>6. e # N
  BY <1>1, <1>2, <1>3, <1>5 DEF Ends, d, N
<1>7. \A n \in Covered(c) : n \in Items /\ d[n].kind # "details"
  BY <1>1, <1>2, <1>3, <1>5, <1>6
<1>8. ASSUME NEW n \in Covered(c)
      PROVE  /\ Plainly(c, n) => SlotByte(c, lay.start[n]) # Nop
             /\ ~Plainly(c, n) => \A k \in Cell(n) : SlotByte(c, k) = Nop
  <2>1. c \in 1..Len(d) /\ e \in c..Len(d) /\ n \in c..e /\ d[n].kind # "details"
    BY <1>1, <1>2, <1>3, <1>7 DEF N
  <2>2. LET s == Images(d, c, e, open)
            start == Starts(d)
        IN  IF Shown(d, n, open) THEN s[start[n] - start[c] + 1] # Nop
            ELSE \A k \in Place(d, n) : s[k - start[c] + 1] = Nop
    <3>1. d \in Seq(Item)
      BY <1>1
    <3> QED BY <2>1, <3>1, ImagesShow
  <2>3. Plainly(c, n) <=> Shown(d, n, open)
    BY <1>5, <1>7 DEF Plainly, Shown, d, open
  <2>4. Cell(n) = Place(d, n)
    BY <1>1 DEF Cell, Place
  <2> QED BY <1>1, <1>4, <2>2, <2>3, <2>4 DEF SlotByte
<1>9. ASSUME NEW k \in Int
      PROVE  k - lay.start[c] + 1 \in DOMAIN lay.slot[c] <=> \E n \in Covered(c) : k \in Cell(n)
  <2> DEFINE a == Starts(d)[c]
             z == Starts(d)[e + 1]
             D == {}
             s == Images(d, c, e, open)
  <2>1. c \in 1..Len(d) /\ e \in c..Len(d) /\ c \in 1..(Len(d) + 1) /\ e + 1 \in 1..(Len(d) + 1)
    BY <1>1, <1>2, <1>3 DEF N
  <2>2. a \in Nat /\ z \in Nat
    BY <1>1, <2>1, StartsAre
  <2> HIDE DEF D, a, z
  <2>3. s \in Seq(Byte(D)) /\ Len(s) = z - a
    BY <1>1, <2>1, ImagesAre DEF a, z
  <2> HIDE DEF s
  <2>4. DOMAIN s = 1..(z - a)
    BY <2>3
  <2>5. k - a + 1 \in 1..(z - a) <=> k \in a..(z - 1)
    BY <2>2
  <2>6. lay.start[c] = a /\ lay.start[e + 1] = z
    BY <1>1 DEF a, z
  <2>7. lay.slot[c] = s
    BY <1>4 DEF s
  <2> QED BY <1>3, <2>4, <2>5, <2>6, <2>7
<1> QED BY <1>2, <1>7, <1>8, <1>9 DEF d

-----------------------------------------------------------------------------
(* What holds of the bytes whatever the calls.                              *)

(* An item whose first byte is a NOP is absent altogether.                  *)
Solid(b) ==
  \A n \in Items : item[n].kind # "details" /\ ~There(b, n) => \A k \in Cell(n) : b[k] = Nop

(* In an absent container nothing is there, but for a vl that was reset.    *)
Rooted(b) ==
  \A n \in Items : \A c \in Enclosing(n) :
    ~There(b, c) /\ item[n].kind # "vl" => ~There(b, n)

(* A required item is there if every optional container around it is.       *)
Standing(b) ==
  \A n \in Items :
    /\ item[n].kind # "details" /\ ~item[n].optional
    /\ \A c \in Enclosing(n) : item[c].optional => There(b, c)
    => There(b, n)

Sound(b) == b \in Bytes(Int) /\ Solid(b) /\ Rooted(b) /\ Standing(b)

(* In an absent container nothing is there.                                 *)
Clean(b) ==
  \A n \in Items : \A c \in Enclosing(n) : ~There(b, c) => ~There(b, n)

LEMMA CleanIs ==
  ASSUME Built, NEW b, Sound(b), ~Damaged(b)
  PROVE  Clean(b)
<1> SUFFICES ASSUME NEW n \in Items, NEW c \in Enclosing(n), ~There(b, c)
             PROVE  ~There(b, n)
  BY DEF Clean
<1>1. ~Orphan(b, n)
  BY DEF Damaged
<1>2. item[n].kind = "vl" => ~There(b, n)
  BY <1>1 DEF Orphan, There, Enclosing
<1> QED BY <1>2 DEF Sound, Rooted

(* A new template.                                                          *)
LEMMA FreshIsSound ==
  ASSUME Built
  PROVE  Sound(lay.fresh)
<1> DEFINE d == item
           N == Len(d)
           open == {}
           b == lay.fresh
           AllRequired(n) == \A a \in {n} \cup Enclosing(n) : ~item[a].optional
<1>1. /\ d \in Seq(Item) /\ Items = 1..N /\ N \in Nat /\ N > 0
      /\ lay.start = Starts(d) /\ b = Images(d, 1, N, open) /\ Shaped(lay)
  BY BuiltIs
<1>2. \A n \in Items : Enclosing(n) = Above(d, n) /\ Enclosing(n) \subseteq Items
  BY EnclosureIs
<1>3. \A n \in Items : \A c \in Enclosing(n) : Enclosing(c) \subseteq Enclosing(n)
  BY EnclosureIs
<1>4. Starts(d)[1] = 1
  BY <1>1, StartsAre
<1>5. \A n \in Items : Cell(n) = Place(d, n)
  BY <1>1 DEF Cell, Place
<1>6. \A n \in Items : lay.start[n] \in Nat /\ Cell(n) \subseteq Nat
  <2>1. \A n \in Items : lay.start[n] \in Nat /\ Cell(n) \subseteq 1..Len(lay.fresh)
    BY CellIs
  <2> QED BY <2>1
<1> HIDE DEF d, N, b, open
<1>7. ASSUME NEW n \in Items, d[n].kind # "details"
      PROVE  IF AllRequired(n) THEN There(b, n) ELSE \A k \in Cell(n) : b[k] = Nop
  <2>1. 1 \in 1..Len(d) /\ N \in 1..Len(d) /\ n \in 1..N
    BY <1>1 DEF N
  <2>2. LET s == Images(d, 1, N, open)
            start == Starts(d)
        IN  IF Shown(d, n, open) THEN s[start[n] - start[1] + 1] # Nop
            ELSE \A k \in Place(d, n) : s[k - start[1] + 1] = Nop
    BY <1>1, <1>7, <2>1, ImagesShow
  <2>3. Shown(d, n, open) <=> AllRequired(n)
    BY <1>2 DEF Shown, d, open
  <2>4. Starts(d)[n] - Starts(d)[1] + 1 = lay.start[n]
    BY <1>1, <1>4, <1>6
  <2>5. \A k \in Cell(n) : k - Starts(d)[1] + 1 = k
    BY <1>4, <1>6
  <2> QED BY <1>1, <1>5, <2>2, <2>3, <2>4, <2>5 DEF There
<1>8. \A n \in Items : lay.start[n] \in Cell(n)
  BY CellIs
<1>9. \A n \in Items : item[n].kind = "details" => Enclosing(n) = {}
  BY EnclosureIs
<1>13. \A n \in Items : \A c \in Enclosing(n) : item[c].kind # "details"
  <2>1. \A n \in Items : \A c \in Enclosing(n) : item[c].kind \in Containers
    BY EnclosureIs
  <2> QED BY <2>1 DEF Containers
<1>10. Solid(b)
  BY <1>7 DEF Solid, d
<1>11. Rooted(b)
  <2> SUFFICES ASSUME NEW n \in Items, NEW c \in Enclosing(n), ~There(b, c)
               PROVE  ~There(b, n)
    BY DEF Rooted
  <2>1. c \in Items /\ item[c].kind # "details" /\ item[n].kind # "details"
    BY <1>2, <1>9, <1>13
  <2>2. ~AllRequired(c)
    BY <1>7, <2>1 DEF d
  <2>3. ~AllRequired(n)
    BY <1>3, <2>2
  <2> QED BY <1>7, <1>8, <2>1, <2>3 DEF There, d
<1>12. Standing(b)
  <2> SUFFICES ASSUME NEW n \in Items, item[n].kind # "details", ~item[n].optional,
                      \A c \in Enclosing(n) : item[c].optional => There(b, c)
               PROVE  There(b, n)
    BY DEF Standing
  <2>1. \A c \in Enclosing(n) : ~item[c].optional
    <3> SUFFICES ASSUME NEW c \in Enclosing(n), item[c].optional PROVE FALSE
      OBVIOUS
    <3>1. c \in Items /\ item[c].kind # "details" /\ There(b, c)
      BY <1>2, <1>13
    <3> QED BY <1>7, <1>8, <3>1 DEF There, d
  <2> QED BY <1>7, <2>1 DEF d
<1>14. b \in Bytes(Int)
  <2> DEFINE D == {}
  <2> HIDE DEF D
  <2>1. b \in Seq(Byte(D)) /\ D \subseteq Int
    BY <1>1 DEF Shaped, b, D
  <2>2. b \in [1..Len(b) -> Byte(D)]
    BY <2>1
  <2>3. b \in Bytes(D)
    BY <2>2 DEF Bytes, b
  <2> QED BY <2>1, <2>3, BytesGrow
<1> QED BY <1>10, <1>11, <1>12, <1>14 DEF Sound, b

-----------------------------------------------------------------------------
(* What a call may do to the fields.                                        *)
Same(b, b2, n) == \A k \in Cell(n) : b2[k] = b[k]
AtDefault(b, c, n) == \A k \in Cell(n) : b[k] = SlotByte(c, k)

(* The fields that are there stay as they are, and those that come to be    *)
(* there are at the defaults of their innermost optional container.         *)
Grows(b, b2) ==
  \A n \in Leaves :
    /\ IsPresent(b, n) => IsPresent(b2, n) /\ Same(b, b2, n)
    /\ IsPresent(b2, n) /\ ~IsPresent(b, n)
       => lay.mode[n] # {} /\ AtDefault(b2, Max(lay.mode[n]), n)

LEMMA GrowsOn ==
  ASSUME NEW b, NEW b2, NEW b3, Grows(b, b2), Grows(b2, b3)
  PROVE  Grows(b, b3)
  BY DEF Grows, Same, AtDefault

LEMMA PresentIs ==
  ASSUME NEW b, NEW n
  PROVE  IsPresent(b, n) <=> \A m \in {n} \cup Enclosing(n) : There(b, m)
  BY DEF IsPresent, Enclosing, There

LEMMA LeavesAre ==
  ASSUME Built
  PROVE  \A n \in Leaves : n \in Items /\ item[n].kind # "details" /\ item[n].kind \notin Containers
  BY DEF Leaves, Declared, Sti

(* What is in c, and what surrounds it.                                     *)
LEMMA CoveredClosed ==
  ASSUME Built, NEW c \in Items, NEW n \in Items
  PROVE  /\ n \notin Covered(c) => Enclosing(n) \cap Covered(c) = {}
         /\ n \in Covered(c) => Enclosing(n) \subseteq Covered(c) \cup Enclosing(c)
         /\ c \in Covered(c) /\ c \notin Enclosing(c) /\ Enclosing(c) \cap Covered(c) = {}
<1>1. \A m \in Items : Enclosing(m) \subseteq Items /\ \A a \in Enclosing(m) : a < m /\ Enclosing(a) \subseteq Enclosing(m)
  BY EnclosureIs
<1>2. \A m \in Items : \A a, e \in Enclosing(m) : a = e \/ a \in Enclosing(e) \/ e \in Enclosing(a)
  BY EnclosureIs
<1>3. Items \subseteq Int
  <2>1. Items = 1..Len(item)
    BY EnclosureIs
  <2> QED BY <2>1
<1>4. c \notin Enclosing(c)
  BY <1>1, <1>3
<1> QED BY <1>1, <1>2, <1>4 DEF Covered

LEMMA BlitCases ==
  ASSUME Built, NEW b \in Bytes(Int), NEW c \in DOMAIN lay.slot
  PROVE  /\ \A n \in Items \ Covered(c) : Same(b, Blit(b, c), n)
         /\ \/ \A n \in Covered(c) : AtDefault(Blit(b, c), c, n)
            \/ \A n \in Covered(c) : \A k \in Cell(n) :
                 Blit(b, c)[k] = IF SlotByte(c, k) = Nop THEN b[k] ELSE SlotByte(c, k)
<1> DEFINE slot == lay.slot[c]
           copied == DOMAIN slot \ Skipped(slot)
           at(k) == k - lay.start[c] + 1
           nops == {k \in DOMAIN slot : slot[k] = Nop}
<1>1. Blit(b, c) = [k \in DOMAIN b |-> IF at(k) \in copied THEN slot[at(k)] ELSE b[k]]
  BY DEF Blit
<1>2. DOMAIN b = 1..Len(lay.fresh)
  BY DEF Bytes
<1>3. \A n \in Items : Cell(n) \subseteq DOMAIN b /\ Cell(n) \subseteq Int
  <2>1. \A n \in Items : Cell(n) \subseteq 1..Len(lay.fresh)
    BY CellIs
  <2> QED BY <1>2, <2>1
<1>4. \A k \in Int : at(k) \in DOMAIN slot <=> \E n \in Covered(c) : k \in Cell(n)
  BY SlotIs
<1>5. \A n, m \in Items : n # m => Cell(n) \cap Cell(m) = {}
  BY CellIs
<1>6. Covered(c) \subseteq Items
  BY DEF Covered
<1>7. Skipped(slot) = {} \/ Skipped(slot) = nops
  BY DEF Skipped
<1>8. \A k : SlotByte(c, k) = slot[at(k)]
  BY DEF SlotByte
<1> HIDE DEF slot, at
<1>9. ASSUME NEW n \in Items \ Covered(c), NEW k \in Cell(n)
      PROVE  Blit(b, c)[k] = b[k]
  <2>1. k \in Int /\ k \in DOMAIN b
    BY <1>3
  <2>2. at(k) \notin DOMAIN slot
    BY <1>4, <1>5, <1>6, <2>1
  <2> QED BY <1>1, <2>1, <2>2
<1>10. ASSUME NEW n \in Covered(c), NEW k \in Cell(n)
       PROVE  /\ at(k) \in DOMAIN slot
              /\ Blit(b, c)[k] = IF at(k) \in copied THEN slot[at(k)] ELSE b[k]
  <2>1. k \in Int /\ k \in DOMAIN b
    BY <1>3, <1>6
  <2> QED BY <1>1, <1>4, <2>1
<1>11. CASE Skipped(slot) = {}
  BY <1>8, <1>9, <1>10, <1>11 DEF Same, AtDefault
<1>12. CASE Skipped(slot) = nops
  <2>1. ASSUME NEW n \in Covered(c), NEW k \in Cell(n)
        PROVE  Blit(b, c)[k] = IF SlotByte(c, k) = Nop THEN b[k] ELSE SlotByte(c, k)
    BY <1>8, <1>10, <1>12
  <2> QED BY <1>9, <2>1 DEF Same
<1> QED BY <1>7, <1>11, <1>12

(* An absent container in containers that are there is made present.        *)
LEMMA BlitGrows ==
  ASSUME Built, NEW b, Sound(b), NEW c \in DOMAIN lay.slot,
         ~There(b, c), \A a \in Enclosing(c) : There(b, a)
  PROVE  /\ Sound(Blit(b, c)) /\ There(Blit(b, c), c)
         /\ \A n \in Items \ Covered(c) : There(Blit(b, c), n) <=> There(b, n)
         /\ Clean(b) => Clean(Blit(b, c)) /\ Grows(b, Blit(b, c))
<1> DEFINE b2 == Blit(b, c)
<1>1. /\ b \in Bytes(Int) /\ Solid(b) /\ Rooted(b) /\ Standing(b)
  BY DEF Sound
<1>2. /\ c \in Items /\ item[c].optional /\ item[c].kind \in Containers
      /\ \A n \in Covered(c) :
           /\ item[n].kind # "details"
           /\ Plainly(c, n) => SlotByte(c, lay.start[n]) # Nop
           /\ ~Plainly(c, n) => \A k \in Cell(n) : SlotByte(c, k) = Nop
  BY SlotIs
<1>3. /\ \A n \in Items \ Covered(c) : Same(b, b2, n)
      /\ \/ \A n \in Covered(c) : AtDefault(b2, c, n)
         \/ \A n \in Covered(c) : \A k \in Cell(n) :
              b2[k] = IF SlotByte(c, k) = Nop THEN b[k] ELSE SlotByte(c, k)
  BY <1>1, BlitCases
<1>4. b2 \in Bytes(Int)
  <2>1. Shaped(lay) /\ c \in Slotted(item)
    BY BuiltIs
  <2>2. \A D : b \in Bytes(D) => Blit(b, c) \in Bytes(D)
    BY <2>1, BlitIs
  <2> QED BY <1>1, <2>2
<1> HIDE DEF b2
<1>5. \A n \in Items : lay.start[n] \in Cell(n)
  BY CellIs
<1>6. \A n \in Items : Enclosing(n) \subseteq Items /\ \A a \in Enclosing(n) :
        a < n /\ item[a].kind \in Containers /\ Enclosing(a) \subseteq Enclosing(n)
  BY EnclosureIs
<1>7. \A n \in Items : lay.mode[n] = {a \in Enclosing(n) : item[a].optional}
  BY EnclosureIs
<1>8. /\ Covered(c) \subseteq Items
      /\ \A n \in Items \ Covered(c) : Enclosing(n) \cap Covered(c) = {}
      /\ \A n \in Covered(c) : Enclosing(n) \subseteq Covered(c) \cup Enclosing(c)
      /\ c \in Covered(c) /\ c \notin Enclosing(c) /\ Enclosing(c) \cap Covered(c) = {}
  BY <1>2, CoveredClosed DEF Covered
<1>9. \A n \in Covered(c) : n = c \/ c \in Enclosing(n)
  BY DEF Covered
<1>10. \A n \in Items \ Covered(c) : There(b2, n) <=> There(b, n)
  BY <1>3, <1>5 DEF Same, There
<1>11. \A n \in Covered(c) : Plainly(c, n) => There(b2, n)
  BY <1>2, <1>3, <1>5, <1>8 DEF AtDefault, There
<1>12. \A n \in Covered(c) : ~Plainly(c, n) =>
         (\A k \in Cell(n) : b2[k] = Nop) \/ Same(b, b2, n)
  BY <1>2, <1>3 DEF AtDefault, Same
<1>13. Plainly(c, c)
  BY <1>2, <1>7 DEF Plainly
<1>14. ASSUME NEW n \in Covered(c), ~Plainly(c, n), item[n].kind # "vl" \/ Clean(b)
       PROVE  ~There(b2, n)
  <2>1. n # c /\ c \in Enclosing(n) /\ n \in Items
    BY <1>8, <1>9, <1>13, <1>14
  <2>2. ~There(b, n)
    BY <1>1, <1>14, <2>1 DEF Rooted, Clean
  <2> QED BY <1>5, <1>12, <1>14, <2>1, <2>2 DEF There, Same
<1>15. ASSUME NEW n \in Covered(c), ~Plainly(c, n)
       PROVE  \E a \in {n} \cup Enclosing(n) :
                item[a].optional /\ a \in Covered(c) /\ ~Plainly(c, a) /\ (a # n => ~There(b2, a))
  <2>1. PICK a \in {n} \cup Enclosing(n) : item[a].optional /\ a \notin {c} \cup lay.mode[c]
    BY <1>15 DEF Plainly
  <2>2. a \notin Enclosing(c)
    BY <1>2, <1>7, <2>1
  <2>3. a \in Covered(c)
    BY <1>8, <2>1, <2>2
  <2>4. ~Plainly(c, a)
    BY <2>1 DEF Plainly
  <2>5. a # n => item[a].kind # "vl"
    BY <1>6, <1>8, <2>1 DEF Containers
  <2> QED BY <1>14, <2>1, <2>3, <2>4, <2>5
<1>16. ASSUME NEW n \in Covered(c), NEW a \in Enclosing(n), ~There(b2, a)
       PROVE  ~Plainly(c, n)
  <2> SUFFICES ASSUME Plainly(c, n) PROVE FALSE
    OBVIOUS
  <2>1. n \in Items /\ a \in Items /\ Enclosing(a) \subseteq Enclosing(n)
    BY <1>6, <1>8
  <2>2. Plainly(c, a)
    BY <2>1 DEF Plainly
  <2>3. a \notin Covered(c)
    BY <1>11, <1>16, <2>2
  <2>4. a \in Enclosing(c)
    BY <1>8, <2>3
  <2> QED BY <1>10, <1>16, <2>1, <2>3, <2>4
<1>17. Solid(b2)
  <2> SUFFICES ASSUME NEW n \in Items, item[n].kind # "details", ~There(b2, n)
               PROVE  \A k \in Cell(n) : b2[k] = Nop
    BY DEF Solid
  <2>1. (\A k \in Cell(n) : b2[k] = Nop) \/ Same(b, b2, n)
    BY <1>3, <1>11, <1>12
  <2> QED BY <1>1, <1>5, <2>1 DEF Solid, Same, There
<1>18. Rooted(b2)
  <2> SUFFICES ASSUME NEW n \in Items, NEW a \in Enclosing(n), ~There(b2, a),
                      item[n].kind # "vl"
               PROVE  ~There(b2, n)
    BY DEF Rooted
  <2>1. CASE n \in Covered(c)
    BY <1>14, <1>16, <2>1
  <2>2. CASE n \notin Covered(c)
    <3>1. a \in Items \ Covered(c)
      BY <1>6, <1>8, <2>2
    <3> QED BY <1>1, <1>10, <2>2, <3>1 DEF Rooted
  <2> QED BY <2>1, <2>2
<1>19. Standing(b2)
  <2> SUFFICES ASSUME NEW n \in Items, item[n].kind # "details", ~item[n].optional,
                      \A a \in Enclosing(n) : item[a].optional => There(b2, a)
               PROVE  There(b2, n)
    BY DEF Standing
  <2>1. CASE n \in Covered(c)
    <3>1. Plainly(c, n)
      BY <1>15, <2>1
    <3> QED BY <1>11, <2>1, <3>1
  <2>2. CASE n \notin Covered(c)
    <3>1. \A a \in Enclosing(n) : There(b2, a) <=> There(b, a)
      BY <1>6, <1>8, <1>10, <2>2
    <3> QED BY <1>1, <1>10, <2>2, <3>1 DEF Standing
  <2> QED BY <2>1, <2>2
<1>20. Clean(b) => Clean(b2)
  <2> SUFFICES ASSUME Clean(b), NEW n \in Items, NEW a \in Enclosing(n), ~There(b2, a)
               PROVE  ~There(b2, n)
    BY DEF Clean
  <2>1. CASE n \in Covered(c)
    BY <1>14, <1>16, <2>1
  <2>2. CASE n \notin Covered(c)
    <3>1. a \in Items \ Covered(c)
      BY <1>6, <1>8, <2>2
    <3> QED BY <1>10, <2>2, <3>1 DEF Clean
  <2> QED BY <2>1, <2>2
<1>21. Clean(b) => Grows(b, b2)
  <2> SUFFICES ASSUME Clean(b), NEW n \in Leaves
               PROVE  /\ IsPresent(b, n) => IsPresent(b2, n) /\ Same(b, b2, n)
                      /\ IsPresent(b2, n) /\ ~IsPresent(b, n)
                         => lay.mode[n] # {} /\ AtDefault(b2, Max(lay.mode[n]), n)
    BY DEF Grows
  <2>0. n \in Items /\ item[n].kind # "details" /\ item[n].kind \notin Containers
    BY LeavesAre
  <2>1. CASE n \notin Covered(c)
    <3>1. \A m \in {n} \cup Enclosing(n) : There(b2, m) <=> There(b, m)
      BY <1>6, <1>8, <1>10, <2>0, <2>1
    <3>2. IsPresent(b2, n) <=> IsPresent(b, n)
      BY <3>1, PresentIs
    <3> QED BY <1>3, <2>0, <2>1, <3>2
  <2>2. CASE n \in Covered(c)
    <3>1. n # c /\ c \in Enclosing(n)
      BY <1>2, <1>9, <2>0, <2>2
    <3>2. ~IsPresent(b, n) /\ ~There(b, n)
      BY <2>0, <3>1, PresentIs DEF Clean
    <3> SUFFICES ASSUME IsPresent(b2, n)
                 PROVE  lay.mode[n] # {} /\ AtDefault(b2, Max(lay.mode[n]), n)
      BY <3>2
    <3>3. Plainly(c, n)
      <4>1. \A a \in {n} \cup Enclosing(n) : There(b2, a)
        BY PresentIs
      <4> QED BY <1>14, <2>2, <4>1
    <3>4. lay.mode[n] \subseteq {c} \cup lay.mode[c] /\ c \in lay.mode[n]
      BY <1>2, <1>7, <2>0, <3>1, <3>3 DEF Plainly
    <3>5. Max(lay.mode[n]) = c
      <4> DEFINE S == lay.mode[n]
                 N == Len(item)
      <4>1. Items = 1..N /\ N \in Nat /\ S \subseteq Items
        <5>1. Items = 1..N /\ N \in Nat
          BY EnclosureIs
        <5> QED BY <1>6, <1>7, <2>0, <5>1
      <4>2. \A a \in lay.mode[c] : a < c
        BY <1>2, <1>6, <1>7
      <4> HIDE DEF S, N
      <4>3. S \in SUBSET (1..N) /\ S # {}
        BY <3>4, <4>1 DEF S
      <4>4. Max(S) \in S /\ \A y \in S : y <= Max(S)
        BY <4>1, <4>3, MaxIsGreatest
      <4>5. c \in S /\ c \in 1..N /\ Max(S) \in 1..N /\ (Max(S) = c \/ Max(S) < c)
        BY <1>2, <3>4, <4>1, <4>2, <4>4 DEF S
      <4>6. Max(S) = c
        BY <4>4, <4>5
      <4> QED BY <4>6 DEF S
    <3>6. AtDefault(b2, c, n)
      <4>1. \A k \in Cell(n) : b[k] = Nop
        BY <1>1, <2>0, <3>2 DEF Solid
      <4> QED BY <1>3, <2>2, <4>1 DEF AtDefault
    <3> QED BY <3>4, <3>5, <3>6
  <2> QED BY <2>1, <2>2
<1> QED BY <1>4, <1>8, <1>10, <1>11, <1>13, <1>17, <1>18, <1>19, <1>20, <1>21 DEF Sound, b2

(* __txn_template_ensure makes the containers present, one after the other, *)
(* outermost first.                                                         *)
LEMMA EnsuredGrows ==
  ASSUME Built, NEW b, Sound(b), NEW m \in 1..(Len(item) + 1)
  PROVE  LET around == Nesting(item)[m]
             b2 == Ensured(b, around)
         IN  /\ Sound(b2) /\ \A a \in Range(around) : There(b2, a)
             /\ Clean(b) => Clean(b2) /\ Grows(b, b2)
<1> DEFINE d == item
           around == Nesting(d)[m]
           N == Len(around)
           Good(k, s) == /\ Sound(s) /\ \A i \in 1..k : There(s, around[i])
                         /\ Clean(b) => Clean(s) /\ Grows(b, s)
<1>1. d \in Seq(Item) /\ Shaped(lay) /\ DOMAIN lay.slot = Slotted(d) /\ Items = 1..Len(d)
  BY BuiltIs
<1>2. around \in Seq(Boxes(d)) /\ N \in Nat
  BY <1>1, NestingIs
<1>3. ASSUME NEW k \in 1..N
      PROVE  LET c == around[k]
             IN  /\ c \in Items /\ d[c].kind \in Containers /\ (d[c].optional => c \in Slotted(d))
                 /\ Enclosing(c) = {around[i] : i \in 1..(k - 1)}
  <2> DEFINE c == around[k]
             t == Nesting(d)[c]
  <2>1. c \in Boxes(d)
    BY <1>2
  <2>2. c \in Items /\ d[c].kind \in Containers /\ (d[c].optional => c \in Slotted(d))
    BY <1>1, <2>1 DEF Boxes, Slotted
  <2>3. Len(t) = k - 1 /\ \A i \in 1..(k - 1) : t[i] = around[i]
    BY <1>1, NestingPrefix
  <2>4. t \in Seq(Boxes(d))
    <3>1. c \in 1..(Len(d) + 1)
      BY <1>1, <2>2
    <3> HIDE DEF c
    <3> QED BY <1>1, <3>1, NestingIs
  <2>5. Enclosing(c) = Range(t)
    BY <2>2, EnclosureIs DEF Above
  <2> HIDE DEF t, c
  <2>6. Range(t) = {t[i] : i \in 1..Len(t)}
    BY <2>4 DEF Range
  <2>7. {t[i] : i \in 1..Len(t)} = {around[i] : i \in 1..(k - 1)}
    BY <2>3
  <2> QED BY <2>2, <2>5, <2>6, <2>7 DEF c
<1>4. b \in Bytes(Int)
  BY DEF Sound
<1>5. PICK after \in [0..N -> Bytes(Int)] :
         Ensures(after, b, around) /\ Ensured(b, around) = after[N]
  <2> DEFINE Z == Int
  <2>1. b \in Bytes(Z)
    BY <1>4
  <2> HIDE DEF Z
  <2>2. \E after \in [0..N -> Bytes(Z)] :
          Ensures(after, b, around) /\ Ensured(b, around) = after[N]
    BY <1>1, <1>2, <2>1, EnsuredRun
  <2> QED BY <2>2 DEF Z
<1>11. /\ after[0] = b
       /\ \A k \in 1..N :
            after[k] = IF d[around[k]].optional THEN Materialize(after[k - 1], around[k])
                       ELSE after[k - 1]
  BY <1>5 DEF Ensures
<1> HIDE DEF d, around, N
<1> DEFINE Run == {k \in Nat : k <= N => Good(k, after[k])}
<1>6. 0 \in Run
  <2>1. Grows(b, b)
    BY DEF Grows, Same
  <2> QED BY <1>11, <2>1
<1>7. ASSUME NEW k \in Nat, k \in Run
      PROVE  k + 1 \in Run
  <2> SUFFICES ASSUME k + 1 <= N
               PROVE  Good(k + 1, after[k + 1])
    OBVIOUS
  <2> DEFINE c == around[k + 1]
             s == after[k]
             t == after[k + 1]
  <2>1. k + 1 \in 1..N /\ (k + 1) - 1 = k /\ Good(k, s)
    BY <1>2, <1>7
  <2>2. /\ c \in Items /\ d[c].kind \in Containers /\ (d[c].optional => c \in Slotted(d))
        /\ Enclosing(c) = {around[i] : i \in 1..k}
    BY <1>3, <2>1
  <2>3. t = IF d[c].optional THEN Materialize(s, c) ELSE s
    BY <1>11, <2>1
  <2>4. \A a \in Enclosing(c) : There(s, a)
    BY <2>1, <2>2
  <2>5. \A i \in 1..(k + 1) : i \in 1..k \/ i = k + 1
    OBVIOUS
  <2> HIDE DEF t, s, c
  <2>6. CASE d[c].optional /\ ~There(s, c)
    <3>1. t = Blit(s, c) /\ c \in DOMAIN lay.slot
      BY <1>1, <2>2, <2>3, <2>6 DEF Materialize, There
    <3>2. /\ Sound(t) /\ There(t, c)
          /\ \A n \in Items \ Covered(c) : There(t, n) <=> There(s, n)
          /\ Clean(s) => Clean(t) /\ Grows(s, t)
      BY <2>1, <2>4, <2>6, <3>1, BlitGrows
    <3>3. \A a \in Enclosing(c) : There(t, a)
      <4>1. Enclosing(c) \cap Covered(c) = {}
        BY <2>2, CoveredClosed
      <4>2. Enclosing(c) \subseteq Items
        BY <2>2, EnclosureIs
      <4> QED BY <2>4, <3>2, <4>1, <4>2
    <3>4. \A i \in 1..(k + 1) : There(t, around[i])
      BY <2>2, <2>5, <3>2, <3>3 DEF c
    <3>5. Clean(b) => Clean(t) /\ Grows(b, t)
      BY <2>1, <3>2, GrowsOn
    <3> QED BY <3>2, <3>4, <3>5 DEF t
  <2>7. CASE ~d[c].optional \/ There(s, c)
    <3>1. t = s
      BY <2>3, <2>7 DEF Materialize, There
    <3>2. There(s, c)
      <4>1. d[c].kind # "details"
        BY <2>2 DEF Containers
      <4> QED BY <2>1, <2>2, <2>4, <2>7, <4>1 DEF Sound, Standing, d
    <3>3. \A i \in 1..(k + 1) : There(t, around[i])
      BY <2>1, <2>5, <3>1, <3>2 DEF c
    <3> QED BY <2>1, <3>1, <3>3 DEF t
  <2> QED BY <2>6, <2>7
<1> HIDE DEF Run
<1>8. Nat \subseteq Run
  BY <1>6, <1>7, SetInduction
<1>9. Good(N, after[N])
  BY <1>2, <1>8 DEF Run
<1>10. Range(around) = {around[i] : i \in 1..N}
  BY <1>2 DEF Range, N
<1> QED BY <1>5, <1>9, <1>10 DEF d, around

(* What a setter finds when it writes.                                      *)
LEMMA OpenedGrows ==
  ASSUME Built, Sound(bytes), NEW n \in Items
  PROVE  /\ Sound(Reached(n)) /\ Sound(Opened(n))
         /\ \A a \in Enclosing(n) : There(Opened(n), a)
         /\ Clean(bytes) => /\ Clean(Reached(n)) /\ Grows(bytes, Reached(n))
                            /\ Clean(Opened(n)) /\ Grows(bytes, Opened(n))
<1> DEFINE d == item
<1>1. /\ d \in Seq(Item) /\ Items = 1..Len(d) /\ Len(d) \in Nat
      /\ lay.within = [i \in Items |-> Nesting(d)[i]]
      /\ lay.outer = [i \in Items |-> IF Arrays(d, i) = {} THEN <<>>
                                      ELSE Nesting(d)[Max(Arrays(d, i))]]
  BY BuiltIs
<1> HIDE DEF d
<1>2. Nesting(d)[1] = <<>>
  BY <1>1, NestingIs
<1>3. PICK m \in 1..(Len(d) + 1) : lay.outer[n] = Nesting(d)[m]
  <2>1. CASE Arrays(d, n) = {}
    <3>1. 1 \in 1..(Len(d) + 1)
      BY <1>1
    <3> QED BY <1>1, <1>2, <2>1, <3>1
  <2>2. CASE Arrays(d, n) # {}
    <3>1. Arrays(d, n) \in SUBSET (1..Len(d))
      <4>1. Enclosing(n) = Above(d, n) /\ Enclosing(n) \subseteq Items
        BY EnclosureIs DEF d
      <4> QED BY <1>1, <4>1 DEF Arrays
    <3>2. Max(Arrays(d, n)) \in Arrays(d, n)
      BY <1>1, <2>2, <3>1, MaxIsGreatest
    <3>3. Max(Arrays(d, n)) \in 1..(Len(d) + 1)
      BY <1>1, <3>1, <3>2
    <3> QED BY <1>1, <2>2, <3>3
  <2> QED BY <2>1, <2>2
<1>4. Reached(n) = Ensured(bytes, Nesting(d)[m])
  BY <1>3 DEF Reached
<1>5. Sound(Reached(n)) /\ (Clean(bytes) => Clean(Reached(n)) /\ Grows(bytes, Reached(n)))
  BY <1>3, <1>4, EnsuredGrows DEF d
<1> DEFINE b == Reached(n)
<1>6. n \in 1..(Len(d) + 1) /\ Opened(n) = Ensured(b, Nesting(d)[n])
      /\ Enclosing(n) = Range(Nesting(d)[n])
  BY <1>1 DEF Opened, Enclosing
<1> HIDE DEF b
<1>7. /\ Sound(Opened(n)) /\ \A a \in Enclosing(n) : There(Opened(n), a)
      /\ Clean(b) => Clean(Opened(n)) /\ Grows(b, Opened(n))
  BY <1>5, <1>6, EnsuredGrows DEF d, b
<1> QED BY <1>5, <1>7, GrowsOn DEF b

-----------------------------------------------------------------------------
(* The writes that stay in one cell.                                        *)
LEMMA OverStays ==
  ASSUME Built, NEW b \in Bytes(Int), NEW n \in Items, NEW at \in Int,
         NEW s \in Seq(Byte(Int)),
         lay.start[n] <= at, at + Len(s) <= lay.start[n] + ItemLen(item[n])
  PROVE  /\ Over(b, at, s) \in Bytes(Int)
         /\ \A m \in Items \ {n} : Same(b, Over(b, at, s), m)
         /\ There(Over(b, at, s), n)
              <=> IF at = lay.start[n] /\ Len(s) > 0 THEN s[1] # Nop ELSE There(b, n)
<1> DEFINE from == lay.start[n]
           len == ItemLen(item[n])
           b2 == Over(b, at, s)
<1>1. from \in Nat /\ len \in Nat /\ lay.start[n + 1] = from + len /\ Len(s) \in Nat
  BY CellIs
<1>2. b2 \in Bytes(Int)
  <2> DEFINE Z == Int
  <2>1. b \in Bytes(Z) /\ s \in Seq(Byte(Z))
    OBVIOUS
  <2> HIDE DEF Z, b2
  <2>2. Over(b, at, s) \in Bytes(Z)
    BY <2>1, OverIs
  <2> QED BY <2>2 DEF Z, b2
<1>3. Cell(n) = from..(from + len - 1)
  BY <1>1 DEF Cell
<1>4. at..(at + Len(s) - 1) \subseteq Cell(n)
  <2> HIDE DEF from, len
  <2>1. from <= at /\ at + Len(s) <= from + len
    BY DEF from, len
  <2> QED BY <1>1, <1>3, <2>1
<1>5. \A m \in Items : Cell(m) \subseteq DOMAIN b
  BY CellIs DEF Bytes
<1>6. \A m \in Items \ {n} : Cell(m) \cap Cell(n) = {}
  BY CellIs
<1>7. b2 = [k \in DOMAIN b |-> IF k \in at..(at + Len(s) - 1) THEN s[k - at + 1] ELSE b[k]]
  BY DEF Over
<1> HIDE DEF b2, from, len
<1>8. \A m \in Items \ {n} : Same(b, b2, m)
  BY <1>4, <1>5, <1>6, <1>7 DEF Same
<1>9. from \in DOMAIN b
  BY <1>5, CellIs DEF from
<1>10. CASE at = from /\ Len(s) > 0
  <2>1. from \in at..(at + Len(s) - 1) /\ from - at + 1 = 1
    BY <1>1, <1>10
  <2>2. b2[from] = s[1]
    BY <1>7, <1>9, <2>1
  <2> QED BY <1>2, <1>8, <1>10, <2>2 DEF There, from, b2
<1>11. CASE ~(at = from /\ Len(s) > 0)
  <2>1. from \notin at..(at + Len(s) - 1)
    <3>1. from <= at
      BY DEF from
    <3> QED BY <1>1, <1>11, <3>1
  <2>2. b2[from] = b[from]
    BY <1>7, <1>9, <2>1
  <2> QED BY <1>2, <1>8, <1>11, <2>2 DEF There, from, b2
<1> QED BY <1>10, <1>11

LEMMA OpeningLen ==
  ASSUME NEW i \in Item, i.kind \in DOMAIN Sti
  PROVE  /\ Opening(i) \in Seq(Byte(Int)) /\ Opening(i)[1] # Nop
         /\ Len(Opening(i)) = 1 + (CASE i.kind = "empty" -> PrefixLen(0)
                                     [] i.kind = "fixed" -> PrefixLen(i.high)
                                     [] OTHER -> 0)
<1> DEFINE tail == CASE i.kind = "empty" -> Prefix(0)
                     [] i.kind = "fixed" -> Prefix(i.high)
                     [] OTHER -> <<>>
           h == Header(i.code)
           Z == Int
           B == Byte(Z)
<1>1. i.code \in DOMAIN sti /\ i.high \in Nat
  BY ItemIs
<1>2. h \in B /\ h # Nop
  BY <1>1, ByteIs DEF Header, Nop
<1> HIDE DEF Z
<1>3. /\ Prefix(i.high) \in Seq(B) /\ Len(Prefix(i.high)) = PrefixLen(i.high)
      /\ Prefix(0) \in Seq(B) /\ Len(Prefix(0)) = PrefixLen(0)
  <2> DEFINE v == 0
  <2>1. v \in Nat
    OBVIOUS
  <2> HIDE DEF v
  <2>2. Prefix(v) \in Seq(B) /\ Len(Prefix(v)) = PrefixLen(v)
    BY <2>1, PrefixIs
  <2> QED BY <1>1, <2>2, PrefixIs DEF v
<1>4. Opening(i) = <<h>> \o tail
  BY DEF Opening
<1>5. /\ tail \in Seq(B)
      /\ Len(tail) = CASE i.kind = "empty" -> PrefixLen(0)
                       [] i.kind = "fixed" -> PrefixLen(i.high)
                       [] OTHER -> 0
  <2>1. <<>> \in Seq(B) /\ Len(<<>>) = 0
    OBVIOUS
  <2>2. CASE i.kind = "empty"
    BY <1>3, <2>2
  <2>3. CASE i.kind = "fixed"
    BY <1>3, <2>3
  <2>4. CASE i.kind \notin {"empty", "fixed"}
    BY <2>1, <2>4
  <2> QED BY <2>2, <2>3, <2>4
<1> HIDE DEF tail
<1>6. <<h>> \o tail \in Seq(B) /\ Len(<<h>> \o tail) = 1 + Len(tail)
  BY <1>1, <1>5, HeadIs
<1> HIDE DEF h, B
<1>7. (<<h>> \o tail)[1] = h
  BY <1>2, <1>5, FirstOf
<1> QED BY <1>2, <1>4, <1>5, <1>6, <1>7 DEF B, Z

LEMMA WrittenStays ==
  ASSUME Built, NEW b \in Bytes(Int), NEW n \in Items, item[n].kind \in DOMAIN Sti,
         NEW payload \in Seq(Byte(Int)),
         Len(Opening(item[n])) + Len(payload) <= ItemLen(item[n]),
         item[n].optional \/ There(b, n)
  PROVE  LET b2 == Written(b, n, payload)
         IN  b2 \in Bytes(Int) /\ There(b2, n) /\ \A m \in Items \ {n} : Same(b, b2, m)
<1> DEFINE at == lay.start[n]
           len == ItemLen(item[n])
           o == Opening(item[n])
           b1 == IF item[n].optional THEN Over(b, at, o) ELSE b
           b2 == Over(b1, at + Len(o), payload)
<1>1. item[n] \in Item /\ at \in Nat /\ len \in Nat
  BY EnclosureIs, CellIs
<1>2. o \in Seq(Byte(Int)) /\ Len(o) \in Nat /\ o[1] # Nop /\ Len(o) > 0 /\ Len(payload) \in Nat
  <2>1. item[n].high \in Nat
    BY <1>1, ItemIs
  <2>2. PrefixLen(0) \in Nat /\ PrefixLen(item[n].high) \in Nat
    BY <2>1, Slots
  <2> QED BY <1>1, <2>2, OpeningLen
<1>3. Len(o) + Len(payload) <= len
  OBVIOUS
<1>4. Written(b, n, payload) = b2
  BY DEF Written
<1> HIDE DEF o, at, len, b1, b2
<1>5. at <= at /\ at + Len(o) <= at + len /\ at \in Int /\ at + Len(o) \in Int
  BY <1>1, <1>2, <1>3
<1>6. /\ b1 \in Bytes(Int) /\ There(b1, n)
      /\ \A m \in Items \ {n} : Same(b, b1, m)
  <2>1. CASE item[n].optional
    <3>1. /\ Over(b, at, o) \in Bytes(Int)
          /\ \A m \in Items \ {n} : Same(b, Over(b, at, o), m)
          /\ There(Over(b, at, o), n) <=> IF at = lay.start[n] /\ Len(o) > 0 THEN o[1] # Nop
                                          ELSE There(b, n)
      BY <1>2, <1>5, OverStays DEF at, len
    <3> QED BY <1>2, <2>1, <3>1 DEF b1, at
  <2>2. CASE ~item[n].optional
    BY <2>2 DEF b1, Same
  <2> QED BY <2>1, <2>2
<1>7. /\ at <= at + Len(o) /\ at + Len(o) + Len(payload) <= at + len
      /\ ~(at + Len(o) = at)
  BY <1>1, <1>2, <1>3
<1>8. /\ b2 \in Bytes(Int)
      /\ \A m \in Items \ {n} : Same(b1, b2, m)
      /\ There(b2, n) <=> There(b1, n)
  <2> DEFINE from == at + Len(o)
  <2>1. from \in Int /\ lay.start[n] <= from /\ from # lay.start[n]
        /\ from + Len(payload) <= lay.start[n] + ItemLen(item[n])
    BY <1>5, <1>7 DEF at, len
  <2> HIDE DEF from
  <2>2. /\ Over(b1, from, payload) \in Bytes(Int)
        /\ \A m \in Items \ {n} : Same(b1, Over(b1, from, payload), m)
        /\ There(Over(b1, from, payload), n)
             <=> IF from = lay.start[n] /\ Len(payload) > 0 THEN payload[1] # Nop
                 ELSE There(b1, n)
    BY <1>6, <2>1, OverStays
  <2> QED BY <2>1, <2>2 DEF b2, from
<1> QED BY <1>4, <1>6, <1>8 DEF Same

(* What a call leaves of field n, apart from what it means to change.       *)
Kept(b, b2, n) ==
  \/ ~IsPresent(b2, n)
  \/ IF IsPresent(b, n) THEN Same(b, b2, n)
     ELSE lay.mode[n] # {} /\ AtDefault(b2, Max(lay.mode[n]), n)

LEMMA GrowsKeep ==
  ASSUME NEW b, NEW b2, Grows(b, b2)
  PROVE  \A n \in Leaves : Kept(b, b2, n)
  BY DEF Grows, Kept

(* After b had grown to b2, the fields that are still there are unchanged.  *)
LEMMA KeptOn ==
  ASSUME NEW b, NEW b2, NEW b3, Grows(b, b2), NEW n \in Leaves,
         IsPresent(b3, n) => IsPresent(b2, n) /\ Same(b2, b3, n)
  PROVE  Kept(b, b3, n)
  BY DEF Grows, Kept, Same, AtDefault

LEMMA LeafWrite ==
  ASSUME Built, NEW b, Sound(b), NEW n \in Items,
         item[n].kind \notin Containers \cup {"details"},
         item[n].kind = "vl" \/ \A a \in Enclosing(n) : There(b, a),
         NEW b2 \in Bytes(Int), There(b2, n), \A m \in Items \ {n} : Same(b, b2, m)
  PROVE  /\ Sound(b2)
         /\ \A m \in Leaves \ {n} : (IsPresent(b2, m) <=> IsPresent(b, m)) /\ Same(b, b2, m)
<1>1. \A m \in Items : /\ lay.start[m] \in Cell(m) /\ n \notin Enclosing(m)
                       /\ Enclosing(m) \subseteq Items
  <2>1. \A m \in Items : \A a \in Enclosing(m) : a \in Items /\ item[a].kind \in Containers
    BY EnclosureIs
  <2> QED BY <2>1, CellIs
<1>2. \A m \in Items \ {n} : There(b2, m) <=> There(b, m)
  BY <1>1 DEF Same, There
<1>3. \A m \in Items : \A a \in Enclosing(m) : There(b2, a) <=> There(b, a)
  BY <1>1, <1>2
<1>4. Solid(b2)
  BY <1>2 DEF Sound, Solid, Same
<1>5. Rooted(b2)
  BY <1>2, <1>3 DEF Sound, Rooted
<1>6. Standing(b2)
  BY <1>2, <1>3 DEF Sound, Standing
<1>7. \A m \in Leaves \ {n} : IsPresent(b2, m) <=> IsPresent(b, m)
  BY <1>2, <1>3, LeavesAre, PresentIs
<1> QED BY <1>4, <1>5, <1>6, <1>7, LeavesAre DEF Sound

(* Of the fields that are there after a call all are kept but one, or but   *)
(* those that prepare_for_emit writes, or but those of one element, which   *)
(* are at their defaults.                                                   *)
OneField(b, b2) ==
  \/ \E n \in Items : \A m \in Leaves \ {n} : Kept(b, b2, m)
  \/ \A m \in Leaves : Kept(b, b2, m) \/ \E f \in Patched : m = lay.plumb[f]
  \/ \E e \in DOMAIN lay.owned \ {0} : \A m \in Leaves :
       Kept(b, b2, m) \/ (e \in lay.mode[m] /\ AtDefault(b2, Max(lay.mode[m]), m))

Fine(b2) == Sound(b2) /\ (Clean(bytes) => OneField(bytes, b2))

LEMMA KeptFine ==
  ASSUME Built, NEW b2, Sound(b2), Clean(bytes) => \A m \in Leaves : Kept(bytes, b2, m)
  PROVE  Fine(b2)
<1>1. \E n \in Items : TRUE
  <2>1. Items = 1..Len(item) /\ Len(item) \in Nat /\ Len(item) > 0
    BY BuiltIs
  <2> QED BY <2>1
<1> QED BY <1>1 DEF Fine, OneField

LEMMA LeafFine ==
  ASSUME Built, Sound(bytes), NEW n \in Items,
         item[n].kind \notin Containers \cup {"details"},
         NEW b, b = Opened(n) \/ (b = Reached(n) /\ item[n].kind = "vl"),
         NEW b2 \in Bytes(Int), There(b2, n), \A m \in Items \ {n} : Same(b, b2, m)
  PROVE  Fine(b2)
<1>1. /\ Sound(b)
      /\ Clean(bytes) => Grows(bytes, b)
      /\ item[n].kind = "vl" \/ \A a \in Enclosing(n) : There(b, a)
  BY OpenedGrows
<1>2. /\ Sound(b2)
      /\ \A m \in Leaves \ {n} : (IsPresent(b2, m) <=> IsPresent(b, m)) /\ Same(b, b2, m)
  BY <1>1, LeafWrite
<1>3. Clean(bytes) => \A m \in Leaves \ {n} : Kept(bytes, b2, m)
  BY <1>1, <1>2, KeptOn
<1> QED BY <1>2, <1>3 DEF Fine, OneField

LEMMA ItemSizes ==
  ASSUME NEW i \in Item
  PROVE  /\ i.kind = "scalar" => ItemLen(i) = 2
         /\ i.kind = "empty" => ItemLen(i) = 1 + PrefixLen(0)
         /\ i.kind = "native" => ItemLen(i) = 1 + NativeLen
         /\ i.kind \in {"issued", "any"} => ItemLen(i) = 1 + IssuedLen
         /\ i.kind \in {"fixed", "vl"} => ItemLen(i) = 1 + PrefixLen(i.high) + i.high
         /\ PrefixLen(i.high) \in Nat /\ i.high \in Nat /\ PrefixLen(0) \in Nat
<1>1. i.high \in Nat /\ PrefixLen(i.high) \in Nat
  BY ItemIs, Slots
<1>2. PrefixLen(0) = 1
  BY TemplateConstants DEF PrefixLen
<1> QED BY <1>1, <1>2 DEF ItemLen, Containers, Ends, SlotSize

LEMMA PayloadSize ==
  ASSUME NEW i \in Item, i.kind \in {"scalar", "native", "fixed", "empty"}, NEW v \in Int
  PROVE  /\ Payload(i, v) \in Seq(Byte(Int))
         /\ Len(Opening(i)) + Len(Payload(i, v)) <= ItemLen(i)
<1> DEFINE Z == Int
           B == Byte(Z)
           payload == Payload(i, v)
           y == <<"value", v>>
<1>1. i.kind \in DOMAIN Sti
  BY DEF Sti
<1>2. /\ Len(Opening(i)) = 1 + (CASE i.kind = "empty" -> PrefixLen(0)
                                  [] i.kind = "fixed" -> PrefixLen(i.high)
                                  [] OTHER -> 0)
  BY <1>1, OpeningLen
<1>3. /\ PrefixLen(i.high) \in Nat /\ i.high \in Nat /\ PrefixLen(0) \in Nat /\ NativeLen \in Nat
  BY ItemSizes, TemplateConstants
<1>4. payload \in Seq(B)
  <2> HIDE DEF Z
  <2> QED BY PayloadIs
<1>5. CASE i.kind = "scalar"
  <2>1. payload = <<y>>
    BY <1>5 DEF Payload
  <2>2. Len(payload) = 1
    BY <2>1
  <2>3. ItemLen(i) = 2 /\ Len(Opening(i)) = 1
    BY <1>2, <1>5, ItemSizes
  <2> HIDE DEF payload
  <2> QED BY <1>4, <2>2, <2>3 DEF payload, B, Z
<1>6. CASE i.kind = "native"
  <2>1. payload = Native(v)
    BY <1>6 DEF Payload
  <2>2. Len(payload) = NativeLen
    BY <1>3, <2>1, AmountIs
  <2>3. ItemLen(i) = 1 + NativeLen /\ Len(Opening(i)) = 1
    BY <1>2, <1>6, ItemSizes
  <2> HIDE DEF payload
  <2> QED BY <1>3, <1>4, <2>2, <2>3 DEF payload, B, Z
<1>7. CASE i.kind = "fixed"
  <2>1. payload = Repeat(i.high, y)
    BY <1>7 DEF Payload
  <2>2. Len(payload) = i.high
    <3>1. y \in B
      BY ByteIs DEF Plain
    <3> HIDE DEF y, B
    <3>2. Len(Repeat(i.high, y)) = i.high
      BY <1>3, <3>1, RepeatIs
    <3> QED BY <2>1, <3>2 DEF y
  <2>3. ItemLen(i) = 1 + PrefixLen(i.high) + i.high /\ Len(Opening(i)) = 1 + PrefixLen(i.high)
    BY <1>2, <1>7, ItemSizes
  <2> HIDE DEF payload
  <2> QED BY <1>3, <1>4, <2>2, <2>3 DEF payload, B, Z
<1>8. CASE i.kind = "empty"
  <2>1. Len(payload) = 0
    BY <1>8 DEF Payload
  <2>2. ItemLen(i) = 1 + PrefixLen(0) /\ Len(Opening(i)) = 1 + PrefixLen(0)
    BY <1>2, <1>8, ItemSizes
  <2> HIDE DEF payload
  <2> QED BY <1>3, <1>4, <2>1, <2>2 DEF payload, B, Z
<1> QED BY <1>5, <1>6, <1>7, <1>8

LEMMA PayloadFits ==
  ASSUME NEW i \in Item, i.kind \in {"scalar", "native", "issued", "any", "fixed", "empty"},
         NEW payload \in Payloads(i)
  PROVE  payload \in Seq(Byte(Int)) /\ Len(Opening(i)) + Len(payload) <= ItemLen(i)
<1> DEFINE Z == Int
           B == Byte(Z)
<1>1. i.kind \in DOMAIN Sti
  BY DEF Sti
<1>2. /\ Len(Opening(i)) = 1 + (CASE i.kind = "empty" -> PrefixLen(0)
                                  [] i.kind = "fixed" -> PrefixLen(i.high)
                                  [] OTHER -> 0)
  BY <1>1, OpeningLen
<1>3. /\ PrefixLen(i.high) \in Nat /\ i.high \in Nat /\ PrefixLen(0) \in Nat
      /\ NativeLen \in Nat /\ IssuedLen \in Nat /\ NativeLen <= IssuedLen
  BY ItemSizes, TemplateConstants
<1>4. ASSUME NEW v \in Inputs
      PROVE  /\ Native(v) \in Seq(B) /\ Len(Native(v)) = NativeLen
             /\ Issued(v) \in Seq(B) /\ Len(Issued(v)) = IssuedLen
             /\ Repeat(NativeLen, <<"issued", v>>) \in Seq(B)
             /\ Len(Repeat(NativeLen, <<"issued", v>>)) = NativeLen
             /\ Repeat(i.high, <<"value", v>>) \in Seq(B)
             /\ Len(Repeat(i.high, <<"value", v>>)) = i.high
             /\ <<<<"value", v>>>> \in Seq(B) /\ Len(<<<<"value", v>>>>) = 1
  <2> DEFINE x == <<"issued", v>>
             y == <<"value", v>>
  <2>1. v \in Int
    BY TemplateConstants
  <2> HIDE DEF Z
  <2>2. x \in B /\ y \in B
    BY <2>1, ByteIs DEF Plain
  <2>3. Native(v) \in Seq(B) /\ Len(Native(v)) = NativeLen
        /\ Issued(v) \in Seq(B) /\ Len(Issued(v)) = IssuedLen
    BY <2>1, AmountIs
  <2> HIDE DEF x, y
  <2>4. Repeat(NativeLen, x) \in Seq(B) /\ Len(Repeat(NativeLen, x)) = NativeLen
    BY <1>3, <2>2, RepeatIs
  <2>5. Repeat(i.high, y) \in Seq(B) /\ Len(Repeat(i.high, y)) = i.high
    BY <1>3, <2>2, RepeatIs
  <2>6. <<y>> \in Seq(B) /\ Len(<<y>>) = 1
    BY <2>2
  <2> QED BY <2>3, <2>4, <2>5, <2>6 DEF x, y
<1> HIDE DEF B
<1>5. CASE i.kind = "issued"
  <2>1. PICK v \in Inputs : \/ payload = Issued(v)
                            \/ payload = Repeat(NativeLen, <<"issued", v>>)
    BY <1>5, Zenon DEF Payloads
  <2>4. /\ Native(v) \in Seq(B) /\ Len(Native(v)) = NativeLen
        /\ Issued(v) \in Seq(B) /\ Len(Issued(v)) = IssuedLen
        /\ Repeat(NativeLen, <<"issued", v>>) \in Seq(B)
        /\ Len(Repeat(NativeLen, <<"issued", v>>)) = NativeLen
    BY <1>4
  <2>5. payload \in Seq(B) /\ (Len(payload) = NativeLen \/ Len(payload) = IssuedLen)
    BY <2>1, <2>4, Zenon
  <2>2. payload \in Seq(B) /\ Len(payload) <= IssuedLen
    BY <1>3, <2>5
  <2>3. ItemLen(i) = 1 + IssuedLen /\ Len(Opening(i)) = 1
    BY <1>2, <1>5, ItemSizes
  <2> QED BY <1>3, <2>2, <2>3 DEF B
<1>6. CASE i.kind = "any"
  <2>1. PICK v \in Inputs : payload = Native(v) \/ payload = Issued(v)
    BY <1>6, Zenon DEF Payloads
  <2>4. /\ Native(v) \in Seq(B) /\ Len(Native(v)) = NativeLen
        /\ Issued(v) \in Seq(B) /\ Len(Issued(v)) = IssuedLen
        /\ Repeat(NativeLen, <<"issued", v>>) \in Seq(B)
        /\ Len(Repeat(NativeLen, <<"issued", v>>)) = NativeLen
    BY <1>4
  <2>5. payload \in Seq(B) /\ (Len(payload) = NativeLen \/ Len(payload) = IssuedLen)
    BY <2>1, <2>4, Zenon
  <2>2. payload \in Seq(B) /\ Len(payload) <= IssuedLen
    BY <1>3, <2>5
  <2>3. ItemLen(i) = 1 + IssuedLen /\ Len(Opening(i)) = 1
    BY <1>2, <1>6, ItemSizes
  <2> QED BY <1>3, <2>2, <2>3 DEF B
<1>7. CASE i.kind \notin {"issued", "any"}
  <2>1. PICK v \in Inputs : payload = Payload(i, v)
    BY <1>7 DEF Payloads
  <2>2. v \in Int /\ i.kind \in {"scalar", "native", "fixed", "empty"}
    BY <1>7, TemplateConstants
  <2> QED BY <2>1, <2>2, PayloadSize
<1> QED BY <1>5, <1>6, <1>7

LEMMA WrittenFine ==
  ASSUME Built, Sound(bytes), NEW n \in Items,
         item[n].kind \in {"scalar", "native", "issued", "any", "fixed", "empty"},
         NEW payload \in Seq(Byte(Int)),
         Len(Opening(item[n])) + Len(payload) <= ItemLen(item[n])
  PROVE  Fine(Written(Opened(n), n, payload))
<1> DEFINE b == Opened(n)
<1>1. Sound(b) /\ \A a \in Enclosing(n) : There(b, a)
  BY OpenedGrows
<1> HIDE DEF b
<1>2. item[n].kind \in DOMAIN Sti /\ item[n].kind \notin Containers \cup {"details"}
  BY DEF Sti, Containers
<1>3. item[n].optional \/ There(b, n)
  BY <1>1, <1>2 DEF Sound, Standing
<1>4. LET b2 == Written(b, n, payload)
      IN  b2 \in Bytes(Int) /\ There(b2, n) /\ \A m \in Items \ {n} : Same(b, b2, m)
  BY <1>1, <1>2, <1>3, WrittenStays DEF Sound
<1> DEFINE b2 == Written(b, n, payload)
<1>5. b2 \in Bytes(Int) /\ There(b2, n) /\ \A m \in Items \ {n} : Same(b, b2, m)
  BY <1>4
<1>6. b = Opened(n)
  BY DEF b
<1> HIDE DEF b2
<1>7. Fine(b2)
  BY <1>2, <1>5, <1>6, LeafFine
<1> QED BY <1>7 DEF b2, b

LEMMA SetFine ==
  ASSUME Built, Sound(bytes), NEW n \in Items, NEW payload \in Payloads(item[n]),
         Set(n, payload)
  PROVE  Fine(bytes')
<1>1. /\ item[n].kind \in {"scalar", "native", "issued", "any", "fixed", "empty"}
      /\ bytes' = Written(Opened(n), n, payload) /\ item[n] \in Item
  BY EnclosureIs DEF Set, Settable
<1>2. payload \in Seq(Byte(Int)) /\ Len(Opening(item[n])) + Len(payload) <= ItemLen(item[n])
  BY <1>1, PayloadFits
<1> QED BY <1>1, <1>2, WrittenFine

LEMMA RefuseFine ==
  ASSUME Built, Sound(bytes), NEW n \in Items, Refuse(n)
  PROVE  Fine(bytes')
<1> DEFINE none == <<>>
<1>1. item[n].kind \in {"native", "any"} /\ bytes' = Written(Opened(n), n, none) /\ item[n] \in Item
  BY EnclosureIs DEF Refuse, Edit
<1>2. none \in Seq(Byte(Int)) /\ Len(none) = 0
  OBVIOUS
<1> HIDE DEF none
<1>3. Len(Opening(item[n])) = 1
  BY <1>1, OpeningLen DEF Sti
<1>4. ItemLen(item[n]) \in Nat \ {0}
  BY <1>1, ItemLenIs
<1>5. Len(Opening(item[n])) + Len(none) <= ItemLen(item[n])
  BY <1>2, <1>3, <1>4
<1> QED BY <1>1, <1>2, <1>5, WrittenFine

(* What a vl setter writes fills its cell.                                  *)
LEMMA VlFine ==
  ASSUME Built, Sound(bytes), NEW n \in Items, item[n].kind = "vl",
         NEW b, b = Opened(n) \/ b = Reached(n),
         NEW len \in Nat, len <= item[n].high, NEW x \in Byte(Int)
  PROVE  Fine(Over(b, lay.start[n],
              Padded(<<Header(item[n].code)>> \o Blob(len, x), ItemLen(item[n]))))
<1> DEFINE Z == Int
           B == Byte(Z)
           blob == Blob(len, x)
           h == Header(item[n].code)
           head == <<h>> \o blob
           size == ItemLen(item[n])
           value == Padded(head, size)
           b2 == Over(b, lay.start[n], value)
<1>1. item[n] \in Item /\ lay.start[n] \in Nat /\ size \in Nat \ {0}
  BY EnclosureIs, CellIs
<1>2. item[n].code \in DOMAIN sti /\ item[n].high \in Nat
  BY <1>1, ItemIs DEF Sti
<1>3. h \in B /\ h # Nop /\ Nop \in B
  BY <1>2, ByteIs DEF Header, Nop
<1> HIDE DEF Z
<1>4. blob \in Seq(B) /\ Len(blob) = PrefixLen(len) + len
  <2>1. x \in B
    BY DEF Z
  <2> QED BY <2>1, BlobIs DEF SlotSize
<1> HIDE DEF blob
<1>5. head \in Seq(B) /\ Len(head) = 1 + Len(blob)
  BY <1>2, <1>4, HeadIs
<1>6. head[1] = h
  <2> HIDE DEF h, B
  <2> QED BY <1>3, <1>4, FirstOf
<1>7. Len(head) <= size /\ Len(head) >= 1
  <2>1. size = 1 + PrefixLen(item[n].high) + item[n].high
    BY <1>1, ItemSizes
  <2>2. PrefixLen(len) \in Nat /\ PrefixLen(item[n].high) \in Nat
    BY <1>2, Slots
  <2>3. PrefixLen(len) <= PrefixLen(item[n].high)
    BY <1>2, TemplateConstants DEF PrefixLen
  <2> HIDE DEF size, head
  <2> QED BY <1>2, <1>4, <1>5, <2>1, <2>2, <2>3
<1> HIDE DEF head, size
<1>8. value \in Seq(B) /\ Len(value) = size
  BY <1>1, <1>5, <1>7, PaddedIs
<1>9. value[1] = head[1]
  <2> HIDE DEF B
  <2> QED BY <1>1, <1>3, <1>5, <1>7, PaddedFirst
<1> HIDE DEF value
<1>10. value[1] # Nop /\ Len(value) > 0
  BY <1>1, <1>3, <1>6, <1>8, <1>9
<1>11. Sound(b)
  BY OpenedGrows
<1>12. /\ b2 \in Bytes(Int)
       /\ \A m \in Items \ {n} : Same(b, b2, m)
       /\ There(b2, n)
  <2> DEFINE at == lay.start[n]
  <2>1. at \in Int /\ lay.start[n] <= at /\ at + Len(value) <= lay.start[n] + ItemLen(item[n])
    BY <1>1, <1>8 DEF size
  <2>2. at = lay.start[n] /\ value \in Seq(Byte(Int)) /\ b \in Bytes(Int)
    BY <1>8, <1>11 DEF B, Z, Sound
  <2> HIDE DEF at
  <2>3. /\ Over(b, at, value) \in Bytes(Int)
        /\ \A m \in Items \ {n} : Same(b, Over(b, at, value), m)
        /\ There(Over(b, at, value), n)
             <=> IF at = lay.start[n] /\ Len(value) > 0 THEN value[1] # Nop ELSE There(b, n)
    BY <2>1, <2>2, OverStays
  <2> QED BY <1>10, <2>2, <2>3
<1>13. item[n].kind \notin Containers \cup {"details"}
  BY DEF Containers
<1> HIDE DEF b2
<1>14. Fine(b2)
  BY <1>12, <1>13, LeafFine
<1> QED BY <1>14 DEF b2, value, size, head, h, blob

LEMMA FillFine ==
  ASSUME Built, Sound(bytes), NEW n \in Items, NEW len, NEW v \in Inputs, Fill(n, len, v)
  PROVE  Fine(bytes') \/ bytes' = bytes
<1>1. item[n].kind = "vl" /\ item[n].high \in Nat /\ item[n].low \in Nat
  <2>1. item[n] \in Item
    BY EnclosureIs
  <2> QED BY <2>1, ItemIs DEF Fill
<1>2. CASE Edit(Opened(n))
  <2>1. Sound(Opened(n)) /\ (Clean(bytes) => Grows(bytes, Opened(n)))
    BY OpenedGrows
  <2>2. Fine(Opened(n))
    BY <2>1, GrowsKeep, KeptFine
  <2> QED BY <1>2, <2>2 DEF Edit
<1>3. CASE UNCHANGED bytes
  BY <1>3
<1>4. CASE /\ len \in item[n].low..item[n].high
           /\ bytes' = Over(Opened(n), lay.start[n],
                Padded(<<Header(item[n].code)>> \o Blob(len, <<"value", v>>), ItemLen(item[n])))
  <2> DEFINE x == <<"value", v>>
             b == Opened(n)
  <2>1. x \in Byte(Int)
    BY TemplateConstants, ByteIs DEF Plain
  <2>2. len \in Nat /\ len <= item[n].high
    BY <1>1, <1>4
  <2>3. b = Opened(n) \/ b = Reached(n)
    OBVIOUS
  <2>4. bytes' = Over(b, lay.start[n],
                   Padded(<<Header(item[n].code)>> \o Blob(len, x), ItemLen(item[n])))
    BY <1>4
  <2> HIDE DEF x, b
  <2>5. Fine(Over(b, lay.start[n],
              Padded(<<Header(item[n].code)>> \o Blob(len, x), ItemLen(item[n]))))
    BY <1>1, <2>1, <2>2, <2>3, VlFine
  <2> QED BY <2>4, <2>5
<1> QED BY <1>2, <1>3, <1>4 DEF Fill

LEMMA ResetFine ==
  ASSUME Built, Sound(bytes), NEW n \in Items, Reset(n)
  PROVE  Fine(bytes')
<1> DEFINE b == Reached(n)
           len == item[n].low
<1>1. item[n] \in Item /\ Typed(item) /\ DOMAIN item = Items
  BY EnclosureIs, BuiltIs DEF Compiles, Items
<1>2. item[n].kind = "vl" /\ len \in Nat
  BY <1>1, ItemIs DEF Reset
<1>3. len <= item[n].high
  BY <1>1, <1>2 DEF Typed
<1>4. Zero \in Byte(Int) /\ (b = Opened(n) \/ b = Reached(n))
  BY ByteIs
<1>5. bytes' = Over(b, lay.start[n],
                 Padded(<<Header(item[n].code)>> \o Blob(len, Zero), ItemLen(item[n])))
  BY DEF Reset, Edit
<1> HIDE DEF b, len
<1>6. Fine(Over(b, lay.start[n],
            Padded(<<Header(item[n].code)>> \o Blob(len, Zero), ItemLen(item[n]))))
  BY <1>2, <1>3, <1>4, VlFine
<1> QED BY <1>5, <1>6

LEMMA IndexFine ==
  ASSUME Built, Sound(bytes), NEW n \in Items, Index(n)
  PROVE  Fine(bytes')
<1>1. Sound(Opened(n)) /\ (Clean(bytes) => Grows(bytes, Opened(n)))
  BY OpenedGrows
<1>2. Fine(Opened(n))
  BY <1>1, GrowsKeep, KeptFine
<1> QED BY <1>2 DEF Index, Edit

-----------------------------------------------------------------------------
(* What is cleared: whole items, none of them required unless what makes it *)
(* so is cleared as well, and with a container all that is in it.           *)
Voids(gap) ==
  /\ \A n \in Items : \A k \in Cell(n) : k \in gap <=> lay.start[n] \in gap
  /\ \A n \in Items : lay.start[n] \in gap =>
       /\ item[n].kind # "details"
       /\ item[n].optional \/ \E a \in Enclosing(n) : item[a].optional /\ lay.start[a] \in gap
  /\ \A n \in Items : \A a \in Enclosing(n) : lay.start[a] \in gap => lay.start[n] \in gap

LEMMA VoidsJoin ==
  ASSUME NEW gaps, \A gap \in gaps : Voids(gap)
  PROVE  Voids(UNION gaps)
  BY DEF Voids

LEMMA WithoutKeeps ==
  ASSUME Built, NEW b, Sound(b), NEW gap, Voids(gap)
  PROVE  LET b2 == Without(b, gap)
         IN  /\ Sound(b2)
             /\ \A n \in Leaves : IsPresent(b2, n) => IsPresent(b, n) /\ Same(b, b2, n)
<1> DEFINE b2 == Without(b, gap)
<1>1. /\ b \in Bytes(Int) /\ Solid(b) /\ Rooted(b) /\ Standing(b)
  BY DEF Sound
<1>2. b2 \in Bytes(Int)
  <2> DEFINE Z == Int
  <2>1. b \in Bytes(Z)
    BY <1>1
  <2> HIDE DEF Z
  <2>2. Without(b, gap) \in Bytes(Z)
    BY <2>1, WithoutIs
  <2> QED BY <2>2 DEF Z
<1>3. \A n \in Items : lay.start[n] \in Cell(n) /\ Cell(n) \subseteq DOMAIN b
  BY <1>1, CellIs DEF Bytes
<1>4. \A k \in DOMAIN b : b2[k] = IF k \in gap THEN Nop ELSE b[k]
  BY DEF Without
<1> HIDE DEF b2
<1>5. \A n \in Items : There(b2, n) <=> There(b, n) /\ lay.start[n] \notin gap
  BY <1>3, <1>4 DEF There
<1>6. \A n \in Items : Enclosing(n) \subseteq Items
  BY EnclosureIs
<1>7. \A n \in Items : IF lay.start[n] \in gap THEN \A k \in Cell(n) : b2[k] = Nop
                       ELSE Same(b, b2, n)
  BY <1>3, <1>4 DEF Voids, Same
<1>8. Solid(b2)
  BY <1>1, <1>5, <1>7 DEF Solid, Same
<1>9. Rooted(b2)
  BY <1>1, <1>5, <1>6 DEF Rooted, Voids
<1>10. Standing(b2)
  <2> SUFFICES ASSUME NEW n \in Items, item[n].kind # "details", ~item[n].optional,
                      \A c \in Enclosing(n) : item[c].optional => There(b2, c)
               PROVE  There(b2, n)
    BY DEF Standing
  <2>1. There(b, n)
    BY <1>1, <1>5, <1>6 DEF Standing
  <2>2. lay.start[n] \notin gap
    BY <1>5, <1>6 DEF Voids
  <2> QED BY <1>5, <2>1, <2>2
<1>11. ASSUME NEW n \in Leaves, IsPresent(b2, n)
       PROVE  IsPresent(b, n) /\ Same(b, b2, n)
  <2>1. n \in Items
    BY LeavesAre
  <2>2. \A m \in {n} \cup Enclosing(n) : m \in Items /\ There(b2, m)
    BY <1>6, <1>11, <2>1, PresentIs
  <2>3. \A m \in {n} \cup Enclosing(n) : There(b, m)
    BY <1>5, <2>2
  <2>4. lay.start[n] \notin gap
    BY <1>5, <2>2
  <2> QED BY <1>7, <2>1, <2>3, <2>4, PresentIs
<1> QED BY <1>2, <1>8, <1>9, <1>10, <1>11 DEF Sound, b2

(* The elements of an array are optional all or none.                       *)
LEMMA SparseElement ==
  ASSUME NEW d \in Seq(Item), Grammatical(d), NEW n \in 1..Len(d), Sparse(d, n),
         NEW m \in (n + 1)..(Max(Span(d, n)) - 1)
  PROVE  /\ Max(Span(d, n)) - 1 >= n + 1
         /\ \E x \in {m} \cup Above(d, m) :
              x \in (n + 1)..(Max(Span(d, n)) - 1) /\ d[x].optional
<1> DEFINE e == Max(Span(d, n))
           N == Len(d)
<1>1. d[n].kind = "elements" /\ d[n + 1].optional /\ n \in Boxes(d)
  BY DEF Sparse, Boxes, Containers
<1>2. /\ e \in n..N /\ e > n /\ Above(d, e) = Above(d, n) \cup {n}
      /\ \A x \in 1..N : n \in Above(d, x) <=> x \in (n + 1)..e
  BY <1>1, SpanIs
<1>3. N \in Nat /\ DOMAIN d = 1..N
  OBVIOUS
<1> HIDE DEF e
<1>4. m \in 1..N /\ m \in 1..(Len(d) + 1) /\ n \in Above(d, m) /\ m <= e - 1 /\ e - 1 >= n + 1
  <2>1. m \in (n + 1)..(e - 1)
    BY DEF e
  <2> QED BY <1>2, <1>3, <2>1
<1>5. PICK x \in {m} \cup Above(d, m) : Nesting(d)[x] # <<>> /\ Last(Nesting(d)[x]) = n
  BY <1>4, ChildOf
<1>6. x \in 1..N /\ x <= m /\ (x # m => d[x].kind \in Containers)
  <2>1. x # m => x \in 1..N /\ x < m /\ d[x].kind \in Containers
    BY <1>4, AboveIs DEF Boxes
  <2> QED BY <1>4, <2>1
<1>7. Nesting(d)[x] = Append(Nesting(d)[n], n) /\ n \in 1..(x - 1)
  BY <1>3, <1>5, <1>6, LastAbove
<1>8. x \in (n + 1)..(e - 1) /\ x + 1 \in (n + 1)..e /\ x + 1 \in 1..N
  BY <1>2, <1>3, <1>4, <1>6, <1>7
<1>9. d[x].kind \notin Ends
  <2>1. n \in Above(d, x + 1)
    BY <1>2, <1>8
  <2> QED BY <1>5, <1>6, <2>1, AboveStep
<1>10. d[x].kind = "object"
  BY <1>1, <1>3, <1>5, <1>6, <1>9 DEF Grammatical
<1>11. n + 1 \in 1..N
  BY <1>2, <1>3
<1>12. Nesting(d)[n + 1] = Append(Nesting(d)[n], n)
  <2>1. Nesting(d)[n + 1] = Around(d, n, Nesting(d)[n])
    BY NestingIs
  <2>2. d[n].kind \in Containers /\ d[n].kind \notin Ends
    BY <1>1 DEF Containers, Ends
  <2> QED BY <2>1, <2>2 DEF Around
<1>13. Nesting(d)[n + 1] = Nesting(d)[x]
  BY <1>7, <1>12
<1>14. Nesting(d)[n + 1] # <<>> /\ Last(Nesting(d)[n + 1]) = n
  BY <1>5, <1>13
<1>15. d[n + 1].kind = "object"
  <2>1. d[n + 1].kind \notin Ends
    BY <1>1, <1>3, <1>11 DEF Grammatical
  <2> QED BY <1>1, <1>3, <1>11, <1>14, <2>1 DEF Grammatical
<1>16. IsElement(d, x) /\ IsElement(d, n + 1)
  BY <1>1, <1>5, <1>10, <1>14, <1>15 DEF IsElement
<1>17. SubSeq(d, x, Max(Span(d, x))) = SubSeq(d, n + 1, Max(Span(d, n + 1)))
  BY <1>3, <1>6, <1>11, <1>13, <1>16 DEF Grammatical
<1>18. ASSUME NEW y \in 1..N
       PROVE  SubSeq(d, y, Max(Span(d, y)))[1] = d[y]
  <2> DEFINE z == Max(Span(d, y))
  <2>1. z \in y..N
    BY SpanIs
  <2> HIDE DEF z
  <2>2. SubSeq(d, y, z)[1] = d[y]
    BY <1>3, <2>1
  <2> QED BY <2>2 DEF z
<1>19. d[x] = d[n + 1]
  BY <1>6, <1>11, <1>17, <1>18
<1> QED BY <1>1, <1>4, <1>5, <1>8, <1>19 DEF e

LEMMA GapVoids ==
  ASSUME Built, NEW n \in DOMAIN lay.gap
  PROVE  Voids(lay.gap[n])
<1> DEFINE d == item
           gap == lay.gap[n]
           e == lay.close[n]
           N == Len(d)
<1>1. /\ d \in Seq(Item) /\ Grammatical(d) /\ Items = 1..N /\ N \in Nat
      /\ lay.start = Starts(d)
      /\ lay.close = [x \in Items |-> Max(Span(d, x))]
      /\ lay.gap = [x \in {m \in Items : d[m].optional} \cup {m \in Items : Sparse(d, m)} |->
                      IF d[x].optional THEN lay.start[x]..(lay.start[lay.close[x] + 1] - 1)
                      ELSE (lay.start[x] + 1)..(lay.start[lay.close[x]] - 1)]
  BY BuiltIs DEF Compiles
<1>2. /\ n \in Items /\ (~d[n].optional => Sparse(d, n))
      /\ gap = IF d[n].optional THEN lay.start[n]..(lay.start[e + 1] - 1)
               ELSE (lay.start[n] + 1)..(lay.start[e] - 1)
      /\ e = Max(Span(d, n))
  BY <1>1
<1>3. /\ \A m \in Items : lay.start[m] \in Cell(m)
      /\ \A m, x \in Items : m # x => Cell(m) \cap Cell(x) = {}
      /\ lay.start[n + 1] = lay.start[n] + ItemLen(d[n])
  BY <1>2, CellIs
<1>4. /\ \A m \in Items : Enclosing(m) = Above(d, m) /\ Enclosing(m) \subseteq Items
      /\ \A m \in Items : \A a \in Enclosing(m) : a < m /\ Enclosing(a) \subseteq Enclosing(m)
      /\ \A m \in Items : d[m].kind = "details" => Enclosing(m) = {} /\ ~d[m].optional
  BY EnclosureIs
<1>5. /\ e \in n..N /\ Covered(n) = n..e
      /\ \A k : k \in lay.start[n]..(lay.start[e + 1] - 1) <=> \E m \in Covered(n) : k \in Cell(m)
      /\ d[n].kind \in Containers => e > n /\ Enclosing(e) = Enclosing(n) \cup {n}
  BY <1>2, CoveredIs
<1> HIDE DEF gap, e, d, N
<1> DEFINE Region(S) ==
             /\ S \subseteq Items
             /\ \A k : k \in gap <=> \E m \in S : k \in Cell(m)
             /\ \A m \in S : d[m].kind # "details"
             /\ \A m \in S : d[m].optional \/ \E a \in Enclosing(m) : d[a].optional /\ a \in S
             /\ \A m \in Items : \A a \in Enclosing(m) : a \in S => m \in S
<1>6. ASSUME NEW S, Region(S)
      PROVE  Voids(gap)
  <2>1. \A m \in Items : \A k \in Cell(m) : k \in gap <=> m \in S
    BY <1>3, <1>6
  <2>2. \A m \in Items : lay.start[m] \in gap <=> m \in S
    BY <1>3, <2>1
  <2>3. \A m \in Items : \A k \in Cell(m) : k \in gap <=> lay.start[m] \in gap
    BY <2>1, <2>2
  <2>4. \A m \in Items : \A a \in Enclosing(m) : lay.start[a] \in gap => lay.start[m] \in gap
    BY <1>4, <1>6, <2>2
  <2>5. \A m \in Items : lay.start[m] \in gap =>
          /\ d[m].kind # "details"
          /\ d[m].optional \/ \E a \in Enclosing(m) : d[a].optional /\ lay.start[a] \in gap
    BY <1>4, <1>6, <2>2
  <2> QED BY <2>3, <2>4, <2>5 DEF Voids, d
<1> HIDE DEF Region
<1>7. CASE d[n].optional
  <2>1. \A k : k \in gap <=> \E m \in Covered(n) : k \in Cell(m)
    BY <1>2, <1>5, <1>7
  <2>2. Covered(n) \in SUBSET Items /\ \A m \in Covered(n) : m = n \/ n \in Enclosing(m)
    BY DEF Covered
  <2>3. n \in Covered(n) /\ \A m \in Items : m \notin Covered(n) => Enclosing(m) \cap Covered(n) = {}
    BY <1>2, CoveredClosed
  <2>4. \A m \in Covered(n) : d[m].kind # "details"
    BY <1>4, <1>7, <2>2
  <2>5. \A m \in Covered(n) : d[m].optional \/ \E a \in Enclosing(m) : d[a].optional /\ a \in Covered(n)
    BY <1>7, <2>2, <2>3
  <2>6. \A m \in Items : \A a \in Enclosing(m) : a \in Covered(n) => m \in Covered(n)
    BY <2>3
  <2>7. Region(Covered(n))
    BY <2>1, <2>2, <2>4, <2>5, <2>6 DEF Region
  <2> QED BY <1>6, <2>7 DEF gap
<1>8. CASE ~d[n].optional
  <2> DEFINE S == (n + 1)..(e - 1)
  <2>1. d[n].kind = "elements" /\ d[n + 1].optional /\ Sparse(d, n)
    BY <1>2, <1>8 DEF Sparse
  <2>2. ItemLen(d[n]) = 1 /\ d[n].kind \in Containers
    BY <2>1 DEF ItemLen, Containers
  <2>3. e > n /\ Enclosing(e) = Enclosing(n) \cup {n} /\ e \in Items /\ n \in Nat /\ e \in Nat
    BY <1>1, <1>2, <1>5, <2>2
  <2>4. \A m \in S : n \in Enclosing(m) /\ m \in Items
    <3>1. \A m \in S : m \in Covered(n) /\ m # n
      BY <1>5, <2>3
    <3> QED BY <3>1 DEF Covered
  <2>5. \A m \in S : \E x \in {m} \cup Enclosing(m) : x \in S /\ d[x].optional
    <3> SUFFICES ASSUME NEW m \in S
                 PROVE  \E x \in {m} \cup Enclosing(m) : x \in S /\ d[x].optional
      OBVIOUS
    <3>1. m \in (n + 1)..(Max(Span(d, n)) - 1) /\ n \in 1..Len(d)
      BY <1>1, <1>2 DEF N
    <3>2. \E x \in {m} \cup Above(d, m) :
            x \in (n + 1)..(Max(Span(d, n)) - 1) /\ d[x].optional
      BY <1>1, <2>1, <3>1, SparseElement
    <3> QED BY <1>2, <1>4, <2>4, <3>2
  <2>6. \A m \in S : d[m].kind # "details"
    BY <1>4, <2>4
  <2>7. \A m \in Items : \A a \in Enclosing(m) : a \in S => m \in S
    <3> SUFFICES ASSUME NEW m \in Items, NEW a \in Enclosing(m), a \in S
                 PROVE  m \in S
      OBVIOUS
    <3>1. n \in Enclosing(a) /\ Enclosing(a) \subseteq Enclosing(m) /\ a < m
      BY <1>4, <2>4
    <3>2. m \in Covered(n)
      BY <3>1 DEF Covered
    <3>3. m \in n..e /\ a \in (n + 1)..(e - 1)
      BY <1>5, <3>2
    <3>4. m # e
      <4>1. a \notin Enclosing(n) /\ a # n
        <5>1. \A y \in Enclosing(n) : y < n
          BY <1>2, <1>4
        <5>2. a \in Nat /\ ~(a < n) /\ a # n
          BY <2>3, <3>3
        <5> QED BY <5>1, <5>2
      <4> QED BY <2>3, <4>1
    <3> QED BY <2>3, <3>1, <3>3, <3>4
  <2>8. \A k : k \in gap <=> \E m \in S : k \in Cell(m)
    <3>1. n + 1 <= e - 1
      <4>1. n + 1 # e
        <5>1. d[e].kind \in Ends
          BY <1>2, <2>2, CoveredIs DEF e, d
        <5>2. d[e].optional => d[e].kind \notin Ends
          <6>1. DOMAIN d = Items
            BY DEF d, Items
          <6> QED BY <1>1, <2>3, <6>1 DEF Grammatical
        <5> QED BY <2>1, <5>1, <5>2
      <4> QED BY <2>3, <4>1
    <3>2. n + 1 \in 1..Len(d) /\ e - 1 \in 1..Len(d) /\ (e - 1) + 1 = e
      BY <1>1, <2>3, <3>1 DEF N
    <3> DEFINE f == e - 1
               g == n + 1
    <3>3. \A k : k \in Starts(d)[g]..(Starts(d)[f + 1] - 1) <=> \E i \in g..f : k \in Place(d, i)
      <4>1. g \in 1..Len(d) /\ f \in 1..Len(d) /\ g <= f
        BY <3>1, <3>2
      <4>2. d \in Seq(Item)
        BY <1>1
      <4> HIDE DEF g, f
      <4> QED BY <4>1, <4>2, PlacesAre
    <3>4. \A i : Cell(i) = Place(d, i)
      BY <1>1 DEF Cell, Place
    <3>5. gap = lay.start[n + 1]..(lay.start[e] - 1)
      BY <1>2, <1>3, <1>8, <2>2
    <3> QED BY <1>1, <3>2, <3>3, <3>4, <3>5
  <2>9. S \in SUBSET Items
    BY <2>4
  <2> HIDE DEF S
  <2>10. \A m \in S : d[m].optional \/ \E a \in Enclosing(m) : d[a].optional /\ a \in S
    BY <2>5
  <2>11. Region(S)
    BY <2>6, <2>7, <2>8, <2>9, <2>10 DEF Region
  <2> QED BY <1>6, <2>11 DEF gap
<1> QED BY <1>7, <1>8 DEF gap

(* clear of a field, a container, an element or the optional elements.      *)
LEMMA VoidFine ==
  ASSUME Built, Sound(bytes), NEW b, b = bytes \/ \E n \in Items : b = Reached(n),
         NEW gap, Voids(gap)
  PROVE  Fine(Without(b, gap))
<1>1. Sound(b) /\ (Clean(bytes) => Grows(bytes, b))
  <2>1. Grows(bytes, bytes)
    BY DEF Grows, Same
  <2> QED BY <2>1, OpenedGrows
<1> DEFINE b2 == Without(b, gap)
<1>2. /\ Sound(b2)
      /\ \A n \in Leaves : IsPresent(b2, n) => IsPresent(b, n) /\ Same(b, b2, n)
  BY <1>1, WithoutKeeps
<1> HIDE DEF b2
<1>3. Clean(bytes) => \A n \in Leaves : Kept(bytes, b2, n)
  BY <1>1, <1>2, KeptOn
<1>4. Fine(b2)
  BY <1>2, <1>3, KeptFine
<1> QED BY <1>4 DEF b2

LEMMA ClearFine ==
  ASSUME Built, Sound(bytes), NEW n \in Items, Clear(n)
  PROVE  Fine(bytes')
<1>1. n \in DOMAIN lay.gap /\ bytes' = Without(Reached(n), lay.gap[n])
  BY DEF Clear, Edit
<1> QED BY <1>1, GapVoids, VoidFine

LEMMA ClearOptionalsFine ==
  ASSUME Built, Sound(bytes), NEW o, ClearOptionals(o)
  PROVE  Fine(bytes')
<1> DEFINE gaps == {lay.gap[n] : n \in lay.owned[o]}
           b == IF o = 0 THEN bytes ELSE Reached(o)
<1>1. o \in DOMAIN lay.owned /\ bytes' = Without(b, UNION gaps)
  BY DEF ClearOptionals, Edit
<1>2. (o = 0 \/ o \in Items) /\ lay.owned[o] \subseteq DOMAIN lay.gap
  BY <1>1, BuiltIs
<1>3. \A gap \in gaps : Voids(gap)
  BY <1>2, GapVoids
<1>4. b = bytes \/ \E n \in Items : b = Reached(n)
  BY <1>2
<1> HIDE DEF gaps, b
<1> QED BY <1>1, <1>3, <1>4, VoidsJoin, VoidFine

-----------------------------------------------------------------------------
(* An optional container, and what is in it, is set to its defaults.        *)
LEMMA DefaultsSet ==
  ASSUME Built, NEW b, Sound(b), NEW c \in DOMAIN lay.slot,
         \A a \in Enclosing(c) : There(b, a),
         NEW b2 \in Bytes(Int),
         \A n \in Items \ Covered(c) : Same(b, b2, n),
         \A n \in Covered(c) : AtDefault(b2, c, n)
  PROVE  /\ Sound(b2)
         /\ \A n \in Leaves : IsPresent(b2, n) =>
              \/ IsPresent(b, n) /\ Same(b, b2, n)
              \/ c \in lay.mode[n] /\ AtDefault(b2, Max(lay.mode[n]), n)
<1>1. /\ b \in Bytes(Int) /\ Solid(b) /\ Rooted(b) /\ Standing(b)
  BY DEF Sound
<1>2. /\ c \in Items /\ item[c].optional /\ item[c].kind \in Containers
      /\ \A n \in Covered(c) :
           /\ item[n].kind # "details"
           /\ Plainly(c, n) => SlotByte(c, lay.start[n]) # Nop
           /\ ~Plainly(c, n) => \A k \in Cell(n) : SlotByte(c, k) = Nop
  BY SlotIs
<1>3. \A n \in Items : lay.start[n] \in Cell(n)
  BY CellIs
<1>4. \A n \in Items : Enclosing(n) \subseteq Items /\ \A a \in Enclosing(n) :
        a < n /\ item[a].kind \in Containers /\ Enclosing(a) \subseteq Enclosing(n)
  BY EnclosureIs
<1>5. \A n \in Items : lay.mode[n] = {a \in Enclosing(n) : item[a].optional}
  BY EnclosureIs
<1>6. /\ Covered(c) \subseteq Items
      /\ \A n \in Items \ Covered(c) : Enclosing(n) \cap Covered(c) = {}
      /\ \A n \in Covered(c) : Enclosing(n) \subseteq Covered(c) \cup Enclosing(c)
      /\ c \in Covered(c) /\ c \notin Enclosing(c) /\ Enclosing(c) \cap Covered(c) = {}
  BY <1>2, CoveredClosed DEF Covered
<1>7. \A n \in Covered(c) : n = c \/ c \in Enclosing(n)
  BY DEF Covered
<1>8. \A n \in Items \ Covered(c) : There(b2, n) <=> There(b, n)
  BY <1>3 DEF Same, There
<1>9. \A n \in Covered(c) : There(b2, n) <=> Plainly(c, n)
  BY <1>2, <1>3, <1>6 DEF AtDefault, There
<1>10. ASSUME NEW n \in Covered(c), NEW a \in Enclosing(n), ~There(b2, a)
       PROVE  ~Plainly(c, n)
  <2> SUFFICES ASSUME Plainly(c, n) PROVE FALSE
    OBVIOUS
  <2>1. n \in Items /\ a \in Items /\ Enclosing(a) \subseteq Enclosing(n)
    BY <1>4, <1>6
  <2>2. Plainly(c, a)
    BY <2>1 DEF Plainly
  <2>3. a \notin Covered(c)
    BY <1>9, <1>10, <2>2
  <2>4. a \in Enclosing(c)
    BY <1>6, <2>3
  <2> QED BY <1>8, <1>10, <2>1, <2>3, <2>4
<1>11. Solid(b2)
  <2> SUFFICES ASSUME NEW n \in Items, item[n].kind # "details", ~There(b2, n)
               PROVE  \A k \in Cell(n) : b2[k] = Nop
    BY DEF Solid
  <2>1. CASE n \in Covered(c)
    BY <1>2, <1>9, <2>1 DEF AtDefault
  <2>2. CASE n \notin Covered(c)
    BY <1>1, <1>8, <2>2 DEF Solid, Same
  <2> QED BY <2>1, <2>2
<1>12. Rooted(b2)
  <2> SUFFICES ASSUME NEW n \in Items, NEW a \in Enclosing(n), ~There(b2, a),
                      item[n].kind # "vl"
               PROVE  ~There(b2, n)
    BY DEF Rooted
  <2>1. CASE n \in Covered(c)
    BY <1>9, <1>10, <2>1
  <2>2. CASE n \notin Covered(c)
    <3>1. a \in Items \ Covered(c)
      BY <1>4, <1>6, <2>2
    <3> QED BY <1>1, <1>8, <2>2, <3>1 DEF Rooted
  <2> QED BY <2>1, <2>2
<1>13. Standing(b2)
  <2> SUFFICES ASSUME NEW n \in Items, item[n].kind # "details", ~item[n].optional,
                      \A a \in Enclosing(n) : item[a].optional => There(b2, a)
               PROVE  There(b2, n)
    BY DEF Standing
  <2>1. CASE n \in Covered(c)
    <3>1. ASSUME NEW a \in Enclosing(n), item[a].optional
          PROVE  a \in {c} \cup lay.mode[c]
      <4>1. CASE a \in Covered(c)
        <5>1. Plainly(c, a)
          BY <1>9, <3>1, <4>1
        <5> QED BY <3>1, <5>1 DEF Plainly
      <4>2. CASE a \in Enclosing(c)
        BY <1>2, <1>5, <3>1, <4>2
      <4> QED BY <1>6, <2>1, <4>1, <4>2
    <3>2. Plainly(c, n)
      BY <3>1 DEF Plainly
    <3> QED BY <1>9, <2>1, <3>2
  <2>2. CASE n \notin Covered(c)
    <3>1. \A a \in Enclosing(n) : There(b2, a) <=> There(b, a)
      BY <1>4, <1>6, <1>8, <2>2
    <3> QED BY <1>1, <1>8, <2>2, <3>1 DEF Standing
  <2> QED BY <2>1, <2>2
<1>14. ASSUME NEW n \in Leaves, IsPresent(b2, n), n \notin Covered(c)
       PROVE  IsPresent(b, n) /\ Same(b, b2, n)
  <2>1. n \in Items
    BY LeavesAre
  <2>2. \A m \in {n} \cup Enclosing(n) : There(b2, m) /\ m \in Items \ Covered(c)
    BY <1>4, <1>6, <1>14, <2>1, PresentIs
  <2>3. \A m \in {n} \cup Enclosing(n) : There(b, m)
    BY <1>8, <2>2
  <2> QED BY <1>14, <2>1, <2>3, PresentIs
<1>15. ASSUME NEW n \in Leaves, IsPresent(b2, n), n \in Covered(c)
       PROVE  c \in lay.mode[n] /\ AtDefault(b2, Max(lay.mode[n]), n)
  <2> DEFINE S == lay.mode[n]
             N == Len(item)
  <2>1. n \in Items /\ n # c /\ c \in Enclosing(n)
    BY <1>2, <1>7, <1>15, LeavesAre
  <2>2. Plainly(c, n)
    <3>1. There(b2, n)
      BY <1>15, PresentIs
    <3> QED BY <1>9, <1>15, <3>1
  <2>3. S \subseteq {c} \cup lay.mode[c] /\ c \in S
    BY <1>2, <1>5, <2>1, <2>2 DEF Plainly
  <2>4. Items = 1..N /\ N \in Nat /\ S \subseteq Items
    <3>1. Items = 1..N /\ N \in Nat
      BY EnclosureIs
    <3> QED BY <1>4, <1>5, <2>1, <3>1
  <2>5. \A a \in lay.mode[c] : a < c
    BY <1>2, <1>4, <1>5
  <2> HIDE DEF S, N
  <2>6. S \in SUBSET (1..N) /\ S # {}
    BY <2>3, <2>4
  <2>7. Max(S) \in S /\ \A y \in S : y <= Max(S)
    BY <2>4, <2>6, MaxIsGreatest
  <2>8. c \in S /\ c \in 1..N /\ Max(S) \in 1..N /\ (Max(S) = c \/ Max(S) < c)
    BY <1>2, <2>3, <2>4, <2>5, <2>7
  <2>9. Max(S) = c
    BY <2>7, <2>8
  <2> QED BY <1>15, <2>3, <2>9 DEF S
<1> QED BY <1>11, <1>12, <1>13, <1>14, <1>15 DEF Sound

(* The accessor of its array makes what an element is in present.           *)
LEMMA ElementReached ==
  ASSUME Built, Sound(bytes), NEW n \in Items, IsElement(item, n)
  PROVE  \A a \in Enclosing(n) : There(Reached(n), a)
<1> DEFINE d == item
           N == Len(d)
           c == Last(Nesting(d)[n])
           b == Reached(n)
<1>1. /\ d \in Seq(Item) /\ Grammatical(d) /\ Items = 1..N /\ N \in Nat
      /\ lay.outer = [i \in Items |-> IF Arrays(d, i) = {} THEN <<>>
                                      ELSE Nesting(d)[Max(Arrays(d, i))]]
  BY BuiltIs DEF Compiles
<1>2. Nesting(d)[n] # <<>> /\ d[c].kind = "elements"
  BY DEF IsElement
<1>3. d \in Seq(Item) /\ n \in 1..(Len(d) + 1)
  BY <1>1
<1>4. c \in 1..(n - 1) /\ Above(d, n) = Above(d, c) \cup {c}
  BY <1>2, <1>3, LastAbove
<1>5. c \in Items /\ c \in 1..(Len(d) + 1)
  BY <1>1, <1>4
<1>6. \A m \in Items : Enclosing(m) = Above(d, m) /\ Enclosing(m) \subseteq Items
  BY EnclosureIs
<1>7. \A a \in Above(d, c) : a < c
  BY <1>5, <1>6, EnclosureIs
<1> HIDE DEF c, b, d, N
<1>8. Max(Arrays(d, n)) = c
  <2> DEFINE S == Arrays(d, n)
  <2>1. c \in S /\ S \in SUBSET (1..N) /\ \A a \in S : a = c \/ a < c
    BY <1>1, <1>2, <1>4, <1>6, <1>7 DEF Arrays
  <2> HIDE DEF S
  <2>2. Max(S) \in S /\ \A y \in S : y <= Max(S)
    BY <1>1, <2>1, MaxIsGreatest
  <2>3. Max(S) \in 1..N /\ c \in 1..N
    BY <2>1, <2>2
  <2>4. Max(S) = c
    BY <2>1, <2>2, <2>3
  <2> QED BY <2>4 DEF S
<1>9. c \in Arrays(d, n)
  BY <1>2, <1>4 DEF Arrays
<1>10. b = Ensured(bytes, Nesting(d)[c])
  BY <1>1, <1>8, <1>9 DEF Reached, b
<1>11. Sound(b) /\ \A a \in Above(d, c) : There(b, a)
  BY <1>5, <1>10, EnsuredGrows DEF d, Above
<1>12. ~d[c].optional /\ d[c].kind # "details"
  <2>1. DOMAIN d = Items
    BY DEF d, Items
  <2> QED BY <1>1, <1>2, <1>5, <2>1 DEF Grammatical
<1>13. There(b, c)
  BY <1>5, <1>6, <1>11, <1>12 DEF Sound, Standing, d
<1> QED BY <1>4, <1>6, <1>11, <1>13 DEF b

(* enable of an element writes its defaults over it.                        *)
LEMMA ElementSet ==
  ASSUME Built, Sound(bytes), NEW n \in DOMAIN lay.slot, n \in DOMAIN lay.owned, Enable(n)
  PROVE  LET b == Reached(n)
         IN  /\ n # 0 /\ Sound(b) /\ (Clean(bytes) => Grows(bytes, b))
             /\ \A a \in Enclosing(n) : There(b, a)
             /\ bytes' \in Bytes(Int)
             /\ \A m \in Items \ Covered(n) : Same(b, bytes', m)
             /\ \A m \in Covered(n) : AtDefault(bytes', n, m)
<1> DEFINE b == Reached(n)
           slot == lay.slot[n]
           at == lay.start[n]
           b2 == Over(b, at, slot)
<1>19. n \in Items
  BY SlotIs
<1>1. bytes' = b2
  BY DEF Enable, Edit
<1>2. n # 0 /\ IsElement(item, n)
  <2>1. Items = 1..Len(item) /\ DOMAIN lay.owned = {0} \cup {m \in Items : IsElement(item, m)}
    BY BuiltIs
  <2> QED BY <1>19, <2>1
<1>3. Sound(b) /\ (Clean(bytes) => Grows(bytes, b)) /\ \A a \in Enclosing(n) : There(b, a)
  BY <1>2, <1>19, OpenedGrows, ElementReached
<1>4. b \in Bytes(Int) /\ at \in Nat
  BY <1>3, <1>19, CellIs DEF Sound
<1>5. slot \in Seq(Byte(Int))
  <2> DEFINE D == {}
             Z == Int
  <2>1. slot \in Seq(Byte(D)) /\ D \subseteq Z
    BY BuiltIs DEF Shaped
  <2> HIDE DEF D, Z
  <2>2. Byte(D) \subseteq Byte(Z)
    BY <2>1, ByteGrows
  <2> QED BY <2>1, <2>2 DEF Z
<1>6. DOMAIN slot = 1..Len(slot) /\ Len(slot) \in Nat
  BY <1>5
<1>7. \A k \in Int : k - at + 1 \in DOMAIN slot <=> \E m \in Covered(n) : k \in Cell(m)
  BY SlotIs
<1>8. \A k : SlotByte(n, k) = slot[k - at + 1]
  BY DEF SlotByte
<1>9. \A k \in DOMAIN b : b2[k] = IF k \in at..(at + Len(slot) - 1) THEN slot[k - at + 1] ELSE b[k]
  BY DEF Over
<1>10. b2 \in Bytes(Int)
  <2> DEFINE Z == Int
  <2>1. b \in Bytes(Z) /\ slot \in Seq(Byte(Z)) /\ at \in Int
    BY <1>4, <1>5
  <2> HIDE DEF Z, b, slot, at
  <2>2. Over(b, at, slot) \in Bytes(Z)
    BY <2>1, OverIs
  <2> QED BY <2>2 DEF Z
<1> HIDE DEF b2, slot, at, b
<1>11. \A k \in DOMAIN b : k \in Int
  BY <1>4 DEF Bytes
<1>12. \A k \in Int : k \in at..(at + Len(slot) - 1) <=> k - at + 1 \in DOMAIN slot
  BY <1>4, <1>6
<1>13. \A m \in Items : Cell(m) \subseteq DOMAIN b
  BY <1>4, CellIs DEF Bytes
<1>14. \A m, x \in Items : m # x => Cell(m) \cap Cell(x) = {}
  BY CellIs
<1>15. Covered(n) \subseteq Items
  BY DEF Covered
<1>16. \A k \in DOMAIN b : b2[k] = IF \E m \in Covered(n) : k \in Cell(m) THEN SlotByte(n, k) ELSE b[k]
  BY <1>7, <1>8, <1>9, <1>11, <1>12
<1>17. \A m \in Items \ Covered(n) : Same(b, b2, m)
  BY <1>13, <1>14, <1>15, <1>16 DEF Same
<1>18. \A m \in Covered(n) : AtDefault(b2, n, m)
  BY <1>13, <1>15, <1>16 DEF AtDefault
<1> QED BY <1>1, <1>2, <1>3, <1>10, <1>17, <1>18 DEF b

LEMMA EnableFine ==
  ASSUME Built, Sound(bytes), NEW n \in Items, Enable(n)
  PROVE  Fine(bytes')
<1>1. n \in DOMAIN lay.slot
  BY DEF Enable
<1>2. CASE n \in DOMAIN lay.owned
  <2> DEFINE b == Reached(n)
             b2 == bytes'
  <2>1. /\ n # 0 /\ Sound(b) /\ (Clean(bytes) => Grows(bytes, b))
        /\ \A a \in Enclosing(n) : There(b, a)
        /\ b2 \in Bytes(Int)
        /\ \A m \in Items \ Covered(n) : Same(b, b2, m)
        /\ \A m \in Covered(n) : AtDefault(b2, n, m)
    BY <1>1, <1>2, ElementSet
  <2> HIDE DEF b, b2
  <2>2. /\ Sound(b2)
        /\ \A m \in Leaves : IsPresent(b2, m) =>
             \/ IsPresent(b, m) /\ Same(b, b2, m)
             \/ n \in lay.mode[m] /\ AtDefault(b2, Max(lay.mode[m]), m)
    BY <1>1, <2>1, DefaultsSet
  <2>3. ASSUME Clean(bytes)
        PROVE  \A m \in Leaves :
                 Kept(bytes, b2, m) \/ (n \in lay.mode[m] /\ AtDefault(b2, Max(lay.mode[m]), m))
    <3> SUFFICES ASSUME NEW m \in Leaves,
                        ~(n \in lay.mode[m] /\ AtDefault(b2, Max(lay.mode[m]), m))
                 PROVE  Kept(bytes, b2, m)
      OBVIOUS
    <3>1. IsPresent(b2, m) => IsPresent(b, m) /\ Same(b, b2, m)
      BY <2>2
    <3> QED BY <2>1, <2>3, <3>1, KeptOn
  <2> QED BY <1>2, <2>1, <2>2, <2>3 DEF Fine, OneField, b2
<1>3. CASE n \notin DOMAIN lay.owned
  <2> DEFINE b == Opened(n)
  <2>1. bytes' = Materialize(b, n)
    BY <1>3 DEF Enable, Edit
  <2>2. /\ Sound(b) /\ (Clean(bytes) => Clean(b) /\ Grows(bytes, b))
        /\ \A a \in Enclosing(n) : There(b, a)
    BY OpenedGrows
  <2> HIDE DEF b
  <2>3. CASE There(b, n)
    <3>1. bytes' = b
      BY <2>1, <2>3 DEF Materialize, There
    <3> QED BY <2>2, <3>1, GrowsKeep, KeptFine
  <2>4. CASE ~There(b, n)
    <3>1. bytes' = Blit(b, n)
      BY <2>1, <2>4 DEF Materialize, There
    <3>2. Sound(bytes') /\ (Clean(b) => Grows(b, bytes'))
      BY <1>1, <2>2, <2>4, <3>1, BlitGrows
    <3>3. Clean(bytes) => Grows(bytes, bytes')
      BY <2>2, <3>2, GrowsOn
    <3> QED BY <3>2, <3>3, GrowsKeep, KeptFine
  <2> QED BY <2>3, <2>4
<1> QED BY <1>2, <1>3

-----------------------------------------------------------------------------
(* prepare_for_emit and etxn_details write the plumbing and the details.    *)
Filled(b, b2) ==
  /\ Sound(b2)
  /\ \A m \in Leaves : \/ \E f \in Patched : m = lay.plumb[f]
                       \/ (IsPresent(b2, m) <=> IsPresent(b, m)) /\ Same(b, b2, m)

LEMMA FilledOn ==
  ASSUME NEW b, NEW b2, NEW b3, Filled(b, b2), Filled(b2, b3)
  PROVE  Filled(b, b3)
  BY DEF Filled, Same

LEMMA FilledFine ==
  ASSUME NEW b2, Filled(bytes, b2)
  PROVE  Fine(b2)
  BY DEF Filled, Fine, OneField, Kept

LEMMA StampFills ==
  ASSUME Built, nonces \in Nat, NEW b, Sound(b)
  PROVE  Filled(b, Stamp(b))
<1> DEFINE n == Len(item)
           at == lay.start[n]
           x == <<"details", nonces + 1>>
           s == Repeat(DetailsLen, x)
           b2 == Over(b, at, s)
<1>1. Stamp(b) = b2
  BY DEF Stamp, DetailsAt
<1>2. n \in Items /\ item[n].kind = "details"
  <2>1. Items = 1..Len(item) /\ Len(item) \in Nat /\ Len(item) > 0
    BY BuiltIs
  <2>2. n \in Items
    BY <2>1
  <2> QED BY <2>2, EnclosureIs
<1>3. DetailsLen \in Nat /\ DetailsLen <= DetailsMaxLen
  BY Constants
<1>4. s \in Seq(Byte(Int)) /\ Len(s) = DetailsLen
  <2>1. nonces + 1 \in Int
    OBVIOUS
  <2>2. x \in Byte(Int)
    BY <2>1, ByteIs
  <2> HIDE DEF x
  <2> QED BY <1>3, <2>2, RepeatIs
<1>5. at \in Nat /\ ItemLen(item[n]) = DetailsMaxLen
  BY <1>2, CellIs DEF ItemLen, Containers, Ends
<1> HIDE DEF s, n
<1>6. b2 \in Bytes(Int) /\ \A m \in Items \ {n} : Same(b, b2, m)
  <2>1. /\ at \in Int /\ lay.start[n] <= at /\ b \in Bytes(Int)
        /\ at + Len(s) <= lay.start[n] + ItemLen(item[n])
    <3>1. b \in Bytes(Int)
      BY DEF Sound
    <3>2. Len(s) <= ItemLen(item[n]) /\ Len(s) \in Nat /\ ItemLen(item[n]) \in Nat
      BY <1>3, <1>4, <1>5, Constants
    <3> QED BY <1>5, <3>1, <3>2
  <2>2. at = lay.start[n]
    OBVIOUS
  <2> HIDE DEF at
  <2> QED BY <1>2, <1>4, <2>1, OverStays
<1> HIDE DEF b2
<1>7. \A m \in Items : /\ lay.start[m] \in Cell(m) /\ n \notin Enclosing(m)
                       /\ Enclosing(m) \subseteq Items
  <2>1. \A m \in Items : \A a \in Enclosing(m) : a \in Items /\ item[a].kind \in Containers
    BY EnclosureIs
  <2> QED BY <1>2, <2>1, CellIs DEF Containers
<1>8. \A m \in Items \ {n} : There(b2, m) <=> There(b, m)
  BY <1>6, <1>7 DEF Same, There
<1>9. \A m \in Items : \A a \in Enclosing(m) : There(b2, a) <=> There(b, a)
  BY <1>7, <1>8
<1>10. Enclosing(n) = {}
  BY <1>2, EnclosureIs
<1>11. Solid(b2)
  BY <1>2, <1>6, <1>8 DEF Sound, Solid, Same
<1>12. Rooted(b2)
  BY <1>8, <1>9, <1>10 DEF Sound, Rooted
<1>13. Standing(b2)
  BY <1>2, <1>8, <1>9 DEF Sound, Standing
<1>14. \A m \in Leaves : m \in Items \ {n}
  BY <1>2, LeavesAre
<1>15. \A m \in Leaves : IsPresent(b2, m) <=> IsPresent(b, m)
  BY <1>8, <1>9, <1>14, PresentIs
<1> QED BY <1>1, <1>6, <1>11, <1>12, <1>13, <1>14, <1>15 DEF Sound, Filled

LEMMA PatchFills ==
  ASSUME Built, NEW b, Sound(b), NEW f \in Patched, NEW fee, Patch(f, fee) \in Int
  PROVE  Filled(b, Patching(b, f, fee))
<1> DEFINE n == lay.plumb[f]
           v == Patch(f, fee)
           payload == Payload(item[n], v)
           o == Opening(item[n])
           at == lay.start[n] + Len(o)
           b2 == Over(b, at, payload)
<1>1. Patching(b, f, fee) = b2
  BY DEF Patching
<1>2. n \in Items /\ Nesting(item)[n] = <<>> /\ item[n].kind = RequiredKind[f] /\ ~item[n].optional
  <2> DEFINE S == Finds(item, f)
             N == Len(item)
  <2>1. f \in Plumbing
    BY DEF Plumbing
  <2>2. n = Min(S) /\ Equipped(item) /\ Items = 1..N /\ N \in Nat
    BY <2>1, BuiltIs DEF Compiles
  <2>3. S # {} /\ item[n].kind = RequiredKind[f] /\ ~item[n].optional
    BY <2>1, <2>2 DEF Equipped
  <2>4. S \in SUBSET (1..N) /\ \A m \in S : Nesting(item)[m] = <<>>
    BY <2>2 DEF Finds, Items
  <2> HIDE DEF S, n
  <2>5. Min(S) \in S
    <3>1. S \subseteq Nat
      BY <2>2, <2>4
    <3> QED BY <2>3, <3>1, MinIsLeast
  <2> QED BY <2>2, <2>3, <2>4, <2>5
<1>3. item[n] \in Item /\ item[n].kind \in {"scalar", "native", "fixed"}
  <2>1. f \in Plumbing
    BY DEF Plumbing
  <2>2. f # sfSigningPubKey
    BY SixFields DEF Presence
  <2> QED BY <1>2, <2>1, <2>2, EnclosureIs DEF RequiredKind
<1>4. item[n].kind \in DOMAIN Sti /\ item[n].kind \notin Containers \cup {"details"}
  BY <1>3 DEF Sti, Containers
<1>5. Enclosing(n) = {}
  <2>1. Enclosing(n) = Above(item, n)
    BY <1>2, EnclosureIs
  <2> QED BY <1>2, <2>1 DEF Above, Range
<1>6. There(b, n)
  BY <1>2, <1>4, <1>5 DEF Sound, Standing
<1>7. payload \in Seq(Byte(Int)) /\ Len(o) + Len(payload) <= ItemLen(item[n])
  BY <1>3, PayloadSize
<1>8. Len(o) \in Nat /\ Len(o) > 0
  <2>1. item[n].high \in Nat
    BY <1>3, ItemIs
  <2>2. PrefixLen(0) \in Nat /\ PrefixLen(item[n].high) \in Nat
    BY <2>1, Slots
  <2> QED BY <1>3, <1>4, <2>2, OpeningLen
<1>9. lay.start[n] \in Nat /\ ItemLen(item[n]) \in Nat /\ b \in Bytes(Int)
  BY <1>2, CellIs DEF Sound
<1> HIDE DEF payload, o, n
<1>10. b2 \in Bytes(Int) /\ There(b2, n) /\ \A m \in Items \ {n} : Same(b, b2, m)
  <2>1. Len(payload) \in Nat
    BY <1>7
  <2>2. /\ at \in Int /\ lay.start[n] <= at /\ at # lay.start[n]
        /\ at + Len(payload) <= lay.start[n] + ItemLen(item[n])
    BY <1>7, <1>8, <1>9, <2>1
  <2> HIDE DEF at
  <2>3. /\ Over(b, at, payload) \in Bytes(Int)
        /\ \A m \in Items \ {n} : Same(b, Over(b, at, payload), m)
        /\ There(Over(b, at, payload), n)
             <=> IF at = lay.start[n] /\ Len(payload) > 0 THEN payload[1] # Nop ELSE There(b, n)
    BY <1>2, <1>7, <1>9, <2>2, OverStays
  <2> QED BY <1>6, <2>2, <2>3
<1> HIDE DEF b2
<1>11. /\ Sound(b2)
       /\ \A m \in Leaves \ {n} : (IsPresent(b2, m) <=> IsPresent(b, m)) /\ Same(b, b2, m)
  BY <1>2, <1>4, <1>5, <1>10, LeafWrite
<1> QED BY <1>1, <1>11 DEF Filled, n

LEMMA PrepareFine ==
  ASSUME Built, Sound(bytes), nonces \in Nat, NEW fails, Prepare(fails)
  PROVE  Fine(bytes')
<1> DEFINE first == Patching(bytes, sfFirstLedgerSequence, 0)
           ledger == Patching(first, sfLastLedgerSequence, 0)
           own == Patching(ledger, sfAccount, 0)
           fee == FeeBase(PreparedLen)
           stamped == Stamp(own)
           last == Patching(stamped, sfFee, fee)
<1>1. /\ Patch(sfFirstLedgerSequence, 0) \in Int /\ Patch(sfLastLedgerSequence, 0) \in Int
      /\ Patch(sfAccount, 0) \in Int /\ Patch(sfFee, fee) \in Int
  <2>1. PreparedLen \in Nat
    <3>1. Shaped(lay)
      BY BuiltIs
    <3>2. DetailsAt \in Nat \ {0}
      BY <3>1 DEF DetailsAt, Shaped, item
    <3> QED BY <3>2, Constants DEF PreparedLen
  <2>2. LedgerSeq \in Nat /\ HookAccount \in Int /\ fee \in Int
    BY <2>1, Constants DEF FeeBase
  <2> QED BY <2>2, SixFields DEF Patch
<1>2. /\ sfFirstLedgerSequence \in Patched /\ sfLastLedgerSequence \in Patched
      /\ sfAccount \in Patched /\ sfFee \in Patched
  BY DEF Patched
<1>3. \/ bytes' = ledger \/ bytes' = own \/ bytes' = stamped \/ bytes' = last
  BY Zenon DEF Prepare
<1>4. \A b, b2 : Filled(b, b2) => Sound(b2)
  BY DEF Filled
<1>5. Filled(bytes, first)
  BY <1>1, <1>2, PatchFills
<1> HIDE DEF first
<1>6. Filled(first, ledger)
  BY <1>1, <1>2, <1>4, <1>5, PatchFills
<1> HIDE DEF ledger
<1>7. Filled(ledger, own)
  BY <1>1, <1>2, <1>4, <1>6, PatchFills
<1> HIDE DEF own
<1>8. Filled(own, stamped)
  BY <1>4, <1>7, StampFills
<1> HIDE DEF stamped
<1>9. Filled(stamped, last)
  BY <1>1, <1>2, <1>4, <1>8, PatchFills
<1> HIDE DEF last
<1>10. Filled(bytes, bytes')
  <2>1. Filled(bytes, ledger)
    BY <1>5, <1>6, FilledOn
  <2>2. Filled(bytes, own)
    BY <1>7, <2>1, FilledOn
  <2>3. Filled(bytes, stamped)
    BY <1>8, <2>2, FilledOn
  <2>4. Filled(bytes, last)
    BY <1>9, <2>3, FilledOn
  <2> QED BY <1>3, <2>1, <2>2, <2>3, <2>4
<1> QED BY <1>10, FilledFine

LEMMA FillDetailsFine ==
  ASSUME Built, Sound(bytes), nonces \in Nat, FillDetails
  PROVE  Fine(bytes')
<1>1. bytes' = Stamp(bytes)
  BY DEF FillDetails
<1> QED BY <1>1, StampFills, FilledFine

(* Whatever the call.                                                       *)
LEMMA TemplateFine ==
  ASSUME Built, Sound(bytes), nonces \in Nat, TemplateNext
  PROVE  Fine(bytes') \/ bytes' = bytes
<1>1. ASSUME NEW n \in Items, NEW payload \in (IF Settable(n) THEN Payloads(item[n]) ELSE {}),
             Set(n, payload)
      PROVE  Fine(bytes')
  BY <1>1, SetFine DEF Set
<1>2. ASSUME NEW n \in Items, NEW len, NEW v \in Inputs, Fill(n, len, v)
      PROVE  Fine(bytes') \/ bytes' = bytes
  BY <1>2, FillFine
<1>3. ASSUME NEW n \in Items, Refuse(n) \/ Reset(n) \/ Clear(n) \/ Enable(n) \/ Index(n)
      PROVE  Fine(bytes')
  BY <1>3, RefuseFine, ResetFine, ClearFine, EnableFine, IndexFine
<1>4. ASSUME NEW o, ClearOptionals(o)
      PROVE  Fine(bytes')
  BY <1>4, ClearOptionalsFine
<1>5. CASE FillDetails
  BY <1>5, FillDetailsFine
<1>6. ASSUME NEW fails, Prepare(fails)
      PROVE  Fine(bytes')
  BY <1>6, PrepareFine
<1> QED BY <1>1, <1>2, <1>3, <1>4, <1>5, <1>6 DEF TemplateNext

-----------------------------------------------------------------------------
(* What stays, field by field.                                              *)
LEMMA SameSlice ==
  ASSUME NEW B, NEW s \in Seq(B), NEW t \in Seq(B), NEW m \in Int, NEW w \in Nat, NEW x \in Int,
         1 <= m, m + w - 1 <= Len(s), 1 <= x, x + w - 1 <= Len(t),
         \A k \in m..(m + w - 1) : s[k] = t[k - m + x]
  PROVE  SubSeq(s, m, m + w - 1) = SubSeq(t, x, x + w - 1)
<1> DEFINE u == SubSeq(s, m, m + w - 1)
           v == SubSeq(t, x, x + w - 1)
<1>1. u = [i \in 1..w |-> s[i + m - 1]]
  BY (m + w - 1) - m + 1 = w
<1>2. v = [i \in 1..w |-> t[i + x - 1]]
  BY (x + w - 1) - x + 1 = w
<1>3. \A i \in 1..w : s[i + m - 1] = t[i + x - 1]
  <2> SUFFICES ASSUME NEW i \in 1..w PROVE s[i + m - 1] = t[i + x - 1]
    OBVIOUS
  <2>1. i + m - 1 \in m..(m + w - 1) /\ (i + m - 1) - m + x = i + x - 1
    OBVIOUS
  <2> QED BY <2>1
<1> QED BY <1>1, <1>2, <1>3

LEMMA CellSlice ==
  ASSUME Built, NEW n \in Items
  PROVE  LET from == lay.start[n]
             len == ItemLen(item[n])
         IN  /\ from \in Int /\ len \in Nat /\ 1 <= from /\ from + len - 1 <= Len(lay.fresh)
             /\ Cell(n) = from..(from + len - 1) /\ len >= 1
             /\ \A b : Content(b, n) = SubSeq(b, from, from + len - 1)
<1> DEFINE from == lay.start[n]
           len == ItemLen(item[n])
<1>1. /\ from \in Nat \ {0} /\ len \in Nat \ {0} /\ lay.start[n + 1] = from + len
      /\ Cell(n) \subseteq 1..Len(lay.fresh)
  BY CellIs
<1>2. Cell(n) = from..(from + len - 1)
  BY <1>1 DEF Cell
<1>3. \A b : Content(b, n) = SubSeq(b, from, from + len - 1)
  BY <1>1 DEF Content
<1> HIDE DEF from, len
<1>4. from + len - 1 \in Cell(n)
  BY <1>1, <1>2
<1>5. from + len - 1 <= Len(lay.fresh)
  BY <1>1, <1>4
<1> QED BY <1>1, <1>2, <1>3, <1>5 DEF from, len

LEMMA BytesSeq ==
  ASSUME Built, NEW b \in Bytes(Int)
  PROVE  b \in Seq(Byte(Int)) /\ Len(b) = Len(lay.fresh)
<1>1. Len(lay.fresh) \in Nat
  BY BuiltIs DEF Shaped
<1> QED BY <1>1 DEF Bytes

LEMMA SameContent ==
  ASSUME Built, NEW b \in Bytes(Int), NEW b2 \in Bytes(Int), NEW n \in Items, Same(b, b2, n)
  PROVE  Content(b2, n) = Content(b, n)
<1> DEFINE from == lay.start[n]
           len == ItemLen(item[n])
           Z == Byte(Int)
<1>1. /\ from \in Int /\ len \in Nat /\ 1 <= from /\ from + len - 1 <= Len(lay.fresh)
      /\ Cell(n) = from..(from + len - 1)
      /\ \A c : Content(c, n) = SubSeq(c, from, from + len - 1)
  BY CellSlice
<1>2. b \in Seq(Z) /\ b2 \in Seq(Z) /\ Len(b) = Len(lay.fresh) /\ Len(b2) = Len(lay.fresh)
  BY BytesSeq
<1> HIDE DEF from, len, Z
<1>3. \A k \in from..(from + len - 1) : b2[k] = b[k - from + from]
  BY <1>1 DEF Same
<1>4. SubSeq(b2, from, from + len - 1) = SubSeq(b, from, from + len - 1)
  BY <1>1, <1>2, <1>3, SameSlice
<1> QED BY <1>1, <1>4

LEMMA DefaultContent ==
  ASSUME Built, NEW b \in Bytes(Int), NEW n \in Items, lay.mode[n] # {},
         AtDefault(b, Max(lay.mode[n]), n)
  PROVE  Content(b, n) = Defaults(n)
<1> DEFINE from == lay.start[n]
           len == ItemLen(item[n])
           c == Max(lay.mode[n])
           base == lay.start[c]
           slot == lay.slot[c]
           x == from - base + 1
           Z == Byte(Int)
           S == lay.mode[n]
           N == Len(item)
<1>1. /\ from \in Int /\ len \in Nat /\ 1 <= from /\ from + len - 1 <= Len(lay.fresh)
      /\ Cell(n) = from..(from + len - 1) /\ len >= 1
      /\ \A b2 : Content(b2, n) = SubSeq(b2, from, from + len - 1)
  BY CellSlice
<1>2. b \in Seq(Z) /\ Len(b) = Len(lay.fresh)
  BY BytesSeq
<1>3. c \in DOMAIN lay.slot /\ n \in Covered(c) /\ c \in Items
  <2>1. /\ Items = 1..N /\ N \in Nat /\ S = {a \in Enclosing(n) : item[a].optional}
        /\ Enclosing(n) \subseteq Items /\ \A a \in Enclosing(n) : item[a].kind \in Containers
    BY EnclosureIs
  <2>2. DOMAIN lay.slot = Slotted(item)
    BY BuiltIs
  <2> HIDE DEF S
  <2>3. S \in SUBSET (1..N) /\ S # {}
    BY <2>1 DEF S
  <2>4. Max(S) \in S
    BY <2>1, <2>3, MaxIsGreatest
  <2> QED BY <2>1, <2>2, <2>4 DEF S, Slotted, Covered
<1>4. slot \in Seq(Z)
  <2> DEFINE D == {}
             E == Int
  <2>1. slot \in Seq(Byte(D)) /\ D \subseteq E
    BY <1>3, BuiltIs DEF Shaped
  <2> HIDE DEF D, E
  <2>2. Byte(D) \subseteq Byte(E)
    BY <2>1, ByteGrows
  <2> QED BY <2>1, <2>2 DEF E
<1>5. base \in Int /\ \A k \in Int : k - base + 1 \in DOMAIN slot <=> \E m \in Covered(c) : k \in Cell(m)
  BY <1>3, SlotIs, CellIs
<1>6. \A k \in Cell(n) : b[k] = slot[k - base + 1]
  BY DEF AtDefault, SlotByte
<1>7. Defaults(n) = SubSeq(slot, x, from - base + len)
  BY DEF Defaults
<1> HIDE DEF from, len, Z, slot, base, c
<1>8. from \in Cell(n) /\ from + len - 1 \in Cell(n)
  BY <1>1
<1>9. x \in DOMAIN slot /\ (from + len - 1) - base + 1 \in DOMAIN slot
  BY <1>1, <1>3, <1>5, <1>8
<1>10. DOMAIN slot = 1..Len(slot) /\ Len(slot) \in Nat
  BY <1>4
<1>11. x \in Int /\ 1 <= x /\ x + len - 1 <= Len(slot) /\ x + len - 1 = from - base + len
  BY <1>1, <1>5, <1>9, <1>10
<1>12. \A k \in from..(from + len - 1) : b[k] = slot[k - from + x]
  <2> SUFFICES ASSUME NEW k \in from..(from + len - 1) PROVE b[k] = slot[k - from + x]
    OBVIOUS
  <2>1. k - from + x = k - base + 1 /\ k \in Cell(n)
    BY <1>1, <1>5
  <2> QED BY <1>6, <2>1
<1> HIDE DEF x
<1>13. SubSeq(b, from, from + len - 1) = SubSeq(slot, x, x + len - 1)
  BY <1>1, <1>2, <1>4, <1>11, <1>12, SameSlice
<1> QED BY <1>1, <1>7, <1>11, <1>13

LEMMA KeptIsKept ==
  ASSUME Built, NEW b, Sound(b), NEW b2, Sound(b2), NEW n \in Leaves, Kept(b, b2, n)
  PROVE  KeptField(b, b2, n)
<1>1. n \in Items /\ b \in Bytes(Int) /\ b2 \in Bytes(Int)
  BY LeavesAre DEF Sound
<1> QED BY <1>1, SameContent, DefaultContent DEF Kept, KeptField

LEMMA FineChanges ==
  ASSUME Built, Sound(bytes), Fine(bytes')
  PROVE  Damaged(bytes) \/ OneFieldChanged
<1> SUFFICES ASSUME ~Damaged(bytes) PROVE OneFieldChanged
  OBVIOUS
<1> DEFINE b2 == bytes'
           changed == {n \in Leaves : ~KeptField(bytes, b2, n)}
<1>1. Sound(b2) /\ OneField(bytes, b2)
  BY CleanIs DEF Fine
<1>2. OneFieldChanged
        <=> \/ Cardinality(changed) <= 1
            \/ changed \subseteq {lay.plumb[f] : f \in Patched}
            \/ \E e \in DOMAIN lay.owned \ {0} :
                 \A n \in changed : e \in Range(lay.within[n]) /\ Content(b2, n) = Defaults(n)
  BY DEF OneFieldChanged
<1> HIDE DEF b2
<1>3. \A n \in changed : n \in Leaves /\ n \in Items /\ ~Kept(bytes, b2, n)
  BY <1>1, KeptIsKept, LeavesAre
<1>4. CASE \E n \in Items : \A m \in Leaves \ {n} : Kept(bytes, b2, m)
  <2>1. PICK n : changed \subseteq {n}
    BY <1>3, <1>4
  <2> HIDE DEF changed
  <2>2. changed = {} \/ changed = {n}
    BY <2>1
  <2>3. Cardinality(changed) = 0 \/ Cardinality(changed) = 1
    BY <2>2, FS_EmptySet, FS_Singleton
  <2> QED BY <1>2, <2>3
<1>5. CASE \A m \in Leaves : Kept(bytes, b2, m) \/ \E f \in Patched : m = lay.plumb[f]
  BY <1>2, <1>3, <1>5
<1>6. CASE \E e \in DOMAIN lay.owned \ {0} : \A m \in Leaves :
             Kept(bytes, b2, m) \/ (e \in lay.mode[m] /\ AtDefault(b2, Max(lay.mode[m]), m))
  <2>1. PICK e \in DOMAIN lay.owned \ {0} : \A m \in changed :
               e \in lay.mode[m] /\ AtDefault(b2, Max(lay.mode[m]), m)
    BY <1>3, <1>6
  <2>2. \A m \in changed : e \in Range(lay.within[m]) /\ Content(b2, m) = Defaults(m)
    <3> SUFFICES ASSUME NEW m \in changed
                 PROVE  e \in Range(lay.within[m]) /\ Content(b2, m) = Defaults(m)
      OBVIOUS
    <3>1. m \in Items /\ e \in lay.mode[m] /\ AtDefault(b2, Max(lay.mode[m]), m)
      BY <1>3, <2>1
    <3>2. e \in Enclosing(m) /\ lay.mode[m] # {}
      BY <3>1, EnclosureIs
    <3> QED BY <1>1, <3>1, <3>2, DefaultContent DEF Enclosing, Sound
  <2> QED BY <1>2, <2>2
<1> QED BY <1>1, <1>4, <1>5, <1>6 DEF OneField

-----------------------------------------------------------------------------
FieldInv == PathInv /\ Sound(bytes)

(* Whatever a hook does with a template, of whatever declaration compiles,  *)
(* a call changes no field but the one it names, the plumbing when it is    *)
(* prepare_for_emit, or an element that it resets to its defaults.          *)
THEOREM CallsChangeOneField == PathSpec => OneFieldPerCall
<1>1. PathInit => FieldInv
  <2> SUFFICES ASSUME PathInit PROVE FieldInv
    OBVIOUS
  <2>1. Built /\ bytes = lay.fresh
    BY DEF PathInit, TemplateInit, Built
  <2> QED BY <2>1, PathInitial, FreshIsSound DEF FieldInv
<1>2. FieldInv /\ [PathNext]_<<vars, templateVars>>
        => FieldInv' /\ [bytes' = bytes \/ Damaged(bytes) \/ OneFieldChanged]_templateVars
  <2> SUFFICES ASSUME FieldInv, [PathNext]_<<vars, templateVars>>
               PROVE  /\ FieldInv'
                      /\ [bytes' = bytes \/ Damaged(bytes) \/ OneFieldChanged]_templateVars
    OBVIOUS
  <2>1. PathInv /\ Sound(bytes) /\ Built /\ nonces \in Nat
    BY NoncesAre DEF FieldInv, PathInv, Built
  <2>2. ASSUME UNCHANGED lay, Sound(bytes')
        PROVE  Sound(bytes)'
    BY <2>2 DEF Sound, Solid, Rooted, Standing, There, Cell, Enclosing, Items, item, Bytes
  <2>3. CASE Next /\ UNCHANGED templateVars
    <3>1. UNCHANGED <<lay, bytes>>
      BY <2>3 DEF templateVars, compiled
    <3> QED BY <2>1, <2>2, <2>3, <3>1, PathWriter DEF FieldInv
  <2>4. CASE TemplateNext /\ UNCHANGED <<writer, ret>>
    <3>1. UNCHANGED lay
      <4>1. Shaped(lay) /\ bytes \in Bytes(Foreign) /\ prepared \in 0..Len(lay.fresh)
        BY <2>1, LayoutShaped DEF PathInv
      <4> DEFINE D == Foreign
      <4>2. bytes \in Bytes(D)
        BY <4>1
      <4> HIDE DEF D
      <4>3. Stepped(D)
        BY <2>1, <2>4, <4>1, <4>2, TemplateStep
      <4> QED BY <4>3 DEF Stepped
    <3>2. Fine(bytes') \/ bytes' = bytes
      BY <2>1, <2>4, TemplateFine
    <3>3. Sound(bytes')
      BY <2>1, <3>2 DEF Fine
    <3>4. bytes' = bytes \/ Damaged(bytes) \/ OneFieldChanged
      BY <2>1, <3>2, FineChanges
    <3> QED BY <2>1, <2>2, <2>4, <3>1, <3>3, <3>4, PathTemplate DEF FieldInv
  <2>5. CASE UNCHANGED <<vars, templateVars>>
    <3>1. UNCHANGED <<lay, bytes>>
      BY <2>5 DEF templateVars, compiled
    <3> QED BY <2>1, <2>2, <2>5, <3>1, PathSame DEF FieldInv
  <2> QED BY <2>3, <2>4, <2>5 DEF PathNext
<1> QED BY <1>1, <1>2, PTL DEF PathSpec, OneFieldPerCall
=============================================================================
