---------------------------- MODULE OperandProofs -----------------------------
(***************************************************************************)
(* Proofs about Operands, for all scripts, functions and widths of Ints:   *)
(* cells and partial applications are well-formed, and the counts of       *)
(* strings and partial applications are exact.                             *)
(***************************************************************************)
EXTENDS Operands, FiniteSetTheorems, FunctionTheorems, SequenceTheorems, NaturalsInduction,
        WellFoundedInduction, TLAPS

-----------------------------------------------------------------------------
(* Lists.                                                                  *)

IsList(s) == \E S : s \in Seq(S)

LEMMA ListFinite ==
  ASSUME NEW s, IsList(s)
  PROVE  DOMAIN s = 1..Len(s) /\ Len(s) \in Nat /\ IsFiniteSet(DOMAIN s)
<1>1. PICK S : s \in Seq(S)
  BY DEF IsList
<1> QED
  BY <1>1, LenProperties, FS_Interval

LEMMA EmptyList == IsList(<<>>) /\ Len(<<>>) = 0 /\ DOMAIN <<>> = {}
<1>1. <<>> \in Seq({})
  OBVIOUS
<1> QED
  BY <1>1 DEF IsList

LEMMA TwoLists ==
  ASSUME NEW s, IsList(s), NEW t, IsList(t)
  PROVE  \E S : s \in Seq(S) /\ t \in Seq(S)
<1>1. PICK S : s \in Seq(S)
  BY DEF IsList
<1>2. PICK T : t \in Seq(T)
  BY DEF IsList
<1>3. s \in Seq(S \union T) /\ t \in Seq(S \union T)
  BY <1>1, <1>2, SeqMonotonic
<1> QED
  BY <1>3

LEMMA ListOf ==
  ASSUME NEW n \in Nat, NEW f, f = [i \in 1..n |-> f[i]]
  PROVE  IsList(f) /\ Len(f) = n
<1> DEFINE S == {f[i] : i \in 1..n}
<1>1. f \in [1..n -> S]
  OBVIOUS
<1> HIDE DEF S
<1>2. f \in Seq(S) /\ Len(f) = n
  BY <1>1
<1> QED
  BY <1>2 DEF IsList

LEMMA OneElement == \A c : IsList(<<c>>) /\ Len(<<c>>) = 1 /\ DOMAIN <<c>> = {1} /\ <<c>>[1] = c
<1> TAKE c
<1>1. <<c>> \in Seq({c}) /\ Len(<<c>>) = 1 /\ DOMAIN <<c>> = {1} /\ <<c>>[1] = c
  OBVIOUS
<1> QED
  BY <1>1 DEF IsList

LEMMA ListConcat ==
  ASSUME NEW s, IsList(s), NEW t, IsList(t)
  PROVE  /\ IsList(s \o t) /\ Len(s \o t) = Len(s) + Len(t)
         /\ \A i \in 1..Len(s) : (s \o t)[i] = s[i]
         /\ \A i \in 1..Len(t) : (s \o t)[Len(s) + i] = t[i]
<1>1. PICK S : s \in Seq(S) /\ t \in Seq(S)
  BY TwoLists
<1>2. PICK m \in Nat, n \in Nat : m = Len(s) /\ n = Len(t)
  BY <1>1
<1>3. /\ s \o t \in Seq(S) /\ Len(s \o t) = m + n
      /\ \A i \in 1..(m + n) : (s \o t)[i] = IF i <= m THEN s[i] ELSE t[i - m]
  BY <1>1, <1>2, ConcatProperties
<1>4. \A i \in 1..m : (s \o t)[i] = s[i]
  BY <1>3
<1>5. \A i \in 1..n : (s \o t)[m + i] = t[i]
  <2> TAKE i \in 1..n
  <2>1. m + i \in 1..(m + n) /\ ~(m + i <= m) /\ (m + i) - m = i
    OBVIOUS
  <2> QED
    BY <1>3, <2>1
<1> QED
  BY <1>2, <1>3, <1>4, <1>5 DEF IsList

LEMMA ListAppend ==
  ASSUME NEW s, IsList(s), NEW c
  PROVE  /\ IsList(Append(s, c)) /\ Len(Append(s, c)) = Len(s) + 1
         /\ \A i \in 1..Len(s) : Append(s, c)[i] = s[i]
         /\ Append(s, c)[Len(s) + 1] = c
<1>1. PICK S : s \in Seq(S)
  BY DEF IsList
<1>2. s \in Seq(S \union {c})
  BY <1>1, SeqMonotonic
<1>3. Append(s, c) \in Seq(S \union {c})
  BY <1>2
<1> QED
  BY <1>2, <1>3 DEF IsList

(* A list is its first m elements and the others.                          *)
LEMMA ListSplit ==
  ASSUME NEW s, IsList(s), NEW n \in Nat, n = Len(s), NEW m \in 0..n
  PROVE  /\ IsList(SubSeq(s, 1, m)) /\ Len(SubSeq(s, 1, m)) = m
         /\ \A i \in 1..m : SubSeq(s, 1, m)[i] = s[i]
         /\ IsList(SubSeq(s, m + 1, n)) /\ Len(SubSeq(s, m + 1, n)) = n - m
         /\ \A i \in 1..(n - m) : SubSeq(s, m + 1, n)[i] = s[m + i]
         /\ SubSeq(s, 1, m) \o SubSeq(s, m + 1, n) = s
<1>1. PICK S : s \in Seq(S)
  BY DEF IsList
<1>2. (\A i \in 1..m : s[i] \in S) /\ (\A i \in (m + 1)..n : s[i] \in S)
  BY <1>1, ElementOfSeq
<1>3. /\ SubSeq(s, 1, m) \in Seq(S)
      /\ Len(SubSeq(s, 1, m)) = IF 1 <= m THEN m - 1 + 1 ELSE 0
      /\ \A i \in 1..(m - 1 + 1) : SubSeq(s, 1, m)[i] = s[1 + i - 1]
  BY <1>1, <1>2, SubSeqProperties
<1>4. /\ SubSeq(s, m + 1, n) \in Seq(S)
      /\ Len(SubSeq(s, m + 1, n)) = IF m + 1 <= n THEN n - (m + 1) + 1 ELSE 0
      /\ \A i \in 1..(n - (m + 1) + 1) : SubSeq(s, m + 1, n)[i] = s[m + 1 + i - 1]
  BY <1>1, <1>2, SubSeqProperties
<1>5. SubSeq(s, 1, m) \o SubSeq(s, m + 1, n) = s
  <2>1. 1 \in 1..(n + 1) /\ m \in (1 - 1)..n /\ n \in m..n
    OBVIOUS
  <2>2. SubSeq(s, 1, m) \o SubSeq(s, m + 1, n) = SubSeq(s, 1, n)
    BY <1>1, <2>1, ConcatAdjacentSubSeq
  <2> QED
    BY <1>1, <2>2, SubSeqFull
<1>6. /\ m - 1 + 1 = m /\ \A i \in 1..m : 1 + i - 1 = i
      /\ n - (m + 1) + 1 = n - m /\ \A i \in 1..(n - m) : m + 1 + i - 1 = m + i
  OBVIOUS
<1>7. Len(SubSeq(s, 1, m)) = m /\ \A i \in 1..m : SubSeq(s, 1, m)[i] = s[i]
  BY <1>3, <1>6
<1>8. Len(SubSeq(s, m + 1, n)) = n - m /\ \A i \in 1..(n - m) : SubSeq(s, m + 1, n)[i] = s[m + i]
  BY <1>4, <1>6
<1> QED
  BY <1>3, <1>4, <1>5, <1>7, <1>8 DEF IsList

LEMMA ListTail ==
  ASSUME NEW s, IsList(s), s # <<>>
  PROVE  /\ s = <<Head(s)>> \o Tail(s) /\ IsList(Tail(s)) /\ Head(s) = s[1] /\ 1 \in DOMAIN s
         /\ \A i \in DOMAIN Tail(s) : i + 1 \in DOMAIN s /\ Tail(s)[i] = s[i + 1]
<1>1. PICK S : s \in Seq(S)
  BY DEF IsList
<1>2. PICK n \in Nat : n = Len(s)
  BY <1>1
<1>3. n # 0 /\ 1 \in 1..n
  BY <1>1, <1>2
<1>4. /\ Tail(s) \in Seq(S) /\ Len(Tail(s)) = n - 1 /\ Head(s) = s[1] /\ Head(s) \in S
      /\ \A i \in 1..(n - 1) : Tail(s)[i] = s[i + 1]
  BY <1>1, <1>2, <1>3, HeadTailProperties, LenProperties
<1>5. /\ DOMAIN s = 1..n /\ DOMAIN Tail(s) = 1..(n - 1)
      /\ \A i \in 1..(n - 1) : i + 1 \in 1..n
  BY <1>1, <1>2, <1>4, LenProperties
<1>6. s = <<Head(s)>> \o Tail(s)
  <2> DEFINE t == <<Head(s)>> \o Tail(s)
  <2>1. /\ t \in Seq(S) /\ Len(t) = n
        /\ \A i \in 1..n : t[i] = IF i <= 1 THEN <<Head(s)>>[i] ELSE Tail(s)[i - 1]
    <3>1. <<Head(s)>> \in Seq(S) /\ Len(<<Head(s)>>) = 1
      BY <1>4
    <3>2. 1 + (n - 1) = n
      BY <1>3
    <3> QED
      BY <1>4, <3>1, <3>2, ConcatProperties
  <2> HIDE DEF t
  <2>2. \A i \in 1..n : t[i] = s[i]
    <3> TAKE i \in 1..n
    <3>1. CASE i = 1
      BY <1>4, <2>1, <3>1
    <3>2. CASE i # 1
      <4>1. i - 1 \in 1..(n - 1) /\ (i - 1) + 1 = i /\ ~(i <= 1)
        BY <3>2
      <4> QED
        BY <1>4, <2>1, <4>1
    <3> QED
      BY <3>1, <3>2
  <2>3. t = s
    BY <1>1, <1>2, <2>1, <2>2, SeqEqual
  <2> QED
    BY <2>3 DEF t
<1> QED
  BY <1>3, <1>4, <1>5, <1>6 DEF IsList

-----------------------------------------------------------------------------
(* Counting references.  Good cells have lists in them, as all cells do.   *)

Good(f) == IsFiniteSet(DOMAIN f) /\ \A i \in DOMAIN f : IsList(f[i].e)

One(c, x) == Cardinality(At(c, x))

LEMMA AtFinite ==
  ASSUME NEW x, IsList(x.e), NEW c
  PROVE  IsFiniteSet(At(c, x)) /\ At(c, x) \subseteq Nat /\ One(c, x) \in Nat
<1>1. Len(x.e) \in Nat
  BY ListFinite
<1>2. IsFiniteSet(0..Len(x.e)) /\ 0..Len(x.e) \subseteq Nat
  BY <1>1, FS_Interval
<1>3. At(c, x) \subseteq 0..Len(x.e)
  BY DEF At
<1> QED
  BY <1>2, <1>3, FS_Subset, FS_CardinalityType DEF One

LEMMA PlacesAre ==
  ASSUME NEW f, NEW c
  PROVE  \A q : q \in Places(c, f) <=> \E i \in DOMAIN f : \E j \in At(c, f[i]) : q = <<i, j>>
<1> TAKE q
<1>1. q \in Places(c, f) <=> \E i \in DOMAIN f : q \in {i} \X At(c, f[i])
  BY DEF Places
<1>2. \A i : q \in {i} \X At(c, f[i]) <=> \E j \in At(c, f[i]) : q = <<i, j>>
  OBVIOUS
<1> QED
  BY <1>1, <1>2

LEMMA PairsCounted ==
  ASSUME NEW i, NEW A, IsFiniteSet(A)
  PROVE  IsFiniteSet({i} \X A) /\ Cardinality({i} \X A) = Cardinality(A)
<1>1. IsFiniteSet({i}) /\ Cardinality({i}) = 1
  BY FS_Singleton
<1>2. IsFiniteSet({i} \X A) /\ Cardinality({i} \X A) = Cardinality({i}) * Cardinality(A)
  BY <1>1, FS_Product
<1>3. Cardinality(A) \in Nat
  BY FS_CardinalityType
<1> QED
  BY <1>1, <1>2, <1>3

LEMMA PlacesFinite ==
  ASSUME NEW f, Good(f), NEW c
  PROVE  IsFiniteSet(Places(c, f)) /\ References(c, f) \in Nat
<1> DEFINE U == {{i} \X At(c, f[i]) : i \in DOMAIN f}
<1>1. IsFiniteSet(U)
  <2> DEFINE D == DOMAIN f
             g == [i \in D |-> {i} \X At(c, f[i])]
  <2>1. IsFiniteSet(D)
    BY DEF Good
  <2>2. g \in [D -> U]
    OBVIOUS
  <2>3. \A A \in U : \E i \in D : g[i] = A
    OBVIOUS
  <2> HIDE DEF D, g, U
  <2>4. g \in Surjection(D, U)
    BY <2>2, <2>3, Fun_IsSurj
  <2> QED
    BY <2>1, <2>4, FS_Surjection
<1>2. \A A \in U : IsFiniteSet(A)
  <2> TAKE A \in U
  <2>1. PICK i \in DOMAIN f : A = {i} \X At(c, f[i])
    OBVIOUS
  <2>2. IsFiniteSet(At(c, f[i]))
    BY AtFinite DEF Good
  <2> QED
    BY <2>1, <2>2, PairsCounted
<1> HIDE DEF U
<1>3. IsFiniteSet(UNION U)
  BY <1>1, <1>2, FS_UNION
<1> QED
  BY <1>3, FS_CardinalityType DEF U, Places, References

(* Where c is in the cells other than x.                                   *)
Others(c, f, x) == {q \in Places(c, f) : q[1] # x}

LEMMA ReferencesAt ==
  ASSUME NEW f, Good(f), NEW x \in DOMAIN f, NEW c
  PROVE  /\ IsFiniteSet(Others(c, f, x)) /\ Cardinality(Others(c, f, x)) \in Nat
         /\ References(c, f) = Cardinality(Others(c, f, x)) + One(c, f[x])
<1> DEFINE P == Places(c, f)
           R == Others(c, f, x)
           S == {x} \X At(c, f[x])
<1>1. IsFiniteSet(P)
  BY PlacesFinite
<1>2. IsFiniteSet(R)
  BY <1>1, FS_Subset DEF Others
<1>3. IsFiniteSet(S) /\ Cardinality(S) = One(c, f[x])
  <2>1. IsFiniteSet(At(c, f[x]))
    BY AtFinite DEF Good
  <2> QED
    BY <2>1, PairsCounted DEF One
<1>4. \A q : q \in P <=> \E i \in DOMAIN f : \E j \in At(c, f[i]) : q = <<i, j>>
  BY PlacesAre
<1>5. P = R \union S
  <2>1. ASSUME NEW q \in P PROVE q \in R \union S
    <3>1. PICK i \in DOMAIN f : \E j \in At(c, f[i]) : q = <<i, j>>
      BY <1>4, <2>1
    <3>2. CASE i = x
      BY <3>1, <3>2
    <3>3. CASE i # x
      BY <3>1, <3>3 DEF Others
    <3> QED
      BY <3>2, <3>3
  <2>2. R \subseteq P
    BY DEF Others
  <2>3. S \subseteq P
    <3>1. \A q \in S : \E j \in At(c, f[x]) : q = <<x, j>>
      OBVIOUS
    <3> QED
      BY <1>4, <3>1
  <2> QED
    BY <2>1, <2>2, <2>3
<1>6. R \intersect S = {}
  <2>1. \A q \in S : q[1] = x
    OBVIOUS
  <2> QED
    BY <2>1 DEF Others
<1> HIDE DEF P, R, S
<1>7. Cardinality(R \union S) = Cardinality(R) + Cardinality(S) - Cardinality(R \intersect S)
  BY <1>2, <1>3, FS_Union
<1>8. Cardinality(R) \in Nat /\ Cardinality(S) \in Nat /\ Cardinality(R \intersect S) = 0
  BY <1>2, <1>3, <1>6, FS_CardinalityType, FS_EmptySet
<1>9. References(c, f) = Cardinality(P)
  BY DEF P, References
<1>10. Cardinality(P) = Cardinality(R) + Cardinality(S)
  BY <1>5, <1>7, <1>8
<1> QED
  BY <1>2, <1>3, <1>8, <1>9, <1>10 DEF R

(* One of the cells changes.                                               *)
LEMMA ReferencesChange ==
  ASSUME NEW f, Good(f), NEW g, Good(g), DOMAIN g = DOMAIN f, NEW x \in DOMAIN f,
         \A y \in DOMAIN f \ {x} : g[y] = f[y], NEW c
  PROVE  References(c, g) + One(c, f[x]) = References(c, f) + One(c, g[x])
<1>1. Others(c, f, x) = Others(c, g, x)
  <2>1. ASSUME NEW q PROVE q \in Others(c, f, x) <=> q \in Others(c, g, x)
    <3>1. /\ q \in Places(c, f) <=> \E i \in DOMAIN f : \E j \in At(c, f[i]) : q = <<i, j>>
          /\ q \in Places(c, g) <=> \E i \in DOMAIN g : \E j \in At(c, g[i]) : q = <<i, j>>
      BY PlacesAre
    <3>2. \A i, j : q = <<i, j>> => q[1] = i
      OBVIOUS
    <3> QED
      BY <3>1, <3>2 DEF Others
  <2> QED
    BY <2>1 DEF Others
<1>2. /\ References(c, f) = Cardinality(Others(c, f, x)) + One(c, f[x])
      /\ References(c, g) = Cardinality(Others(c, f, x)) + One(c, g[x])
      /\ Cardinality(Others(c, f, x)) \in Nat
  BY <1>1, ReferencesAt
<1>3. One(c, f[x]) \in Nat /\ One(c, g[x]) \in Nat
  BY AtFinite DEF Good
<1> QED
  BY <1>2, <1>3

LEMMA ReferencesEmpty == \A c : References(c, <<>>) = 0
<1> TAKE c
<1>1. Places(c, <<>>) = {}
  BY EmptyList DEF Places
<1> QED
  BY <1>1, FS_EmptySet DEF References

(* What does not refer to c.                                               *)
LEMMA ReferencesNone ==
  ASSUME NEW f, NEW c, \A i \in DOMAIN f : At(c, f[i]) = {}
  PROVE  References(c, f) = 0
<1>1. Places(c, f) = {}
  BY PlacesAre
<1> QED
  BY <1>1, FS_EmptySet DEF References

(* Pairs moved along the numbers.                                          *)
LEMMA PairsShifted ==
  ASSUME NEW B, IsFiniteSet(B), B \subseteq Nat \X Nat, NEW m \in Nat
  PROVE  /\ IsFiniteSet({<<m + q[1], q[2]>> : q \in B})
         /\ Cardinality({<<m + q[1], q[2]>> : q \in B}) = Cardinality(B)
<1> DEFINE T == {<<m + q[1], q[2]>> : q \in B}
           f == [q \in B |-> <<m + q[1], q[2]>>]
<1>1. f \in Bijection(B, T)
  <2>1. f \in [B -> T]
    OBVIOUS
  <2>2. \A p, q \in B : f[p] = f[q] => p = q
    <3> TAKE p, q \in B
    <3>1. PICK a \in Nat, b \in Nat : p = <<a, b>>
      OBVIOUS
    <3>2. PICK x \in Nat, y \in Nat : q = <<x, y>>
      OBVIOUS
    <3>3. f[p] = <<m + a, b>> /\ f[q] = <<m + x, y>>
      BY <3>1, <3>2
    <3>4. m + a = m + x => a = x
      OBVIOUS
    <3> QED
      BY <3>1, <3>2, <3>3, <3>4
  <2>3. \A t \in T : \E q \in B : f[q] = t
    OBVIOUS
  <2> QED
    BY <2>1, <2>2, <2>3, Fun_IsBij
<1>2. ExistsBijection(B, T)
  BY <1>1 DEF ExistsBijection
<1> HIDE DEF T
<1> QED
  BY <1>2, FS_Bijection DEF T

(* Lists of cells.                                                         *)
GoodList(s) == IsList(s) /\ \A i \in DOMAIN s : IsList(s[i].e)

LEMMA GoodLists ==
  /\ \A s : GoodList(s) => Good(s)
  /\ GoodList(<<>>)
  /\ \A x : IsList(x.e) => GoodList(<<x>>)
<1>1. \A s : GoodList(s) => Good(s)
  BY ListFinite DEF Good, GoodList
<1>2. GoodList(<<>>)
  BY EmptyList DEF GoodList
<1>3. \A x : IsList(x.e) => GoodList(<<x>>)
  <2> SUFFICES ASSUME NEW x, IsList(x.e) PROVE GoodList(<<x>>)
    OBVIOUS
  <2>1. \A i \in DOMAIN <<x>> : <<x>>[i] = x
    BY OneElement
  <2> QED
    BY <2>1, OneElement DEF GoodList
<1> QED
  BY <1>1, <1>2, <1>3

LEMMA ReferencesConcat ==
  ASSUME NEW s, GoodList(s), NEW t, GoodList(t), NEW c
  PROVE  GoodList(s \o t) /\ References(c, s \o t) = References(c, s) + References(c, t)
<1>1. PICK m \in Nat, n \in Nat : m = Len(s) /\ n = Len(t)
  BY ListFinite DEF GoodList
<1>2. PICK u : u = s \o t
  OBVIOUS
<1>3. /\ IsList(u) /\ Len(u) = m + n
      /\ \A i \in 1..m : u[i] = s[i]
      /\ \A i \in 1..n : u[m + i] = t[i]
  BY <1>1, <1>2, ListConcat DEF GoodList
<1>4. DOMAIN s = 1..m /\ DOMAIN t = 1..n /\ DOMAIN u = 1..(m + n)
  BY <1>1, <1>3, ListFinite DEF GoodList
<1>5. \A i \in 1..(m + n) : i \in 1..m \/ (i - m \in 1..n /\ m + (i - m) = i)
  OBVIOUS
<1>6. GoodList(u)
  <2>1. ASSUME NEW i \in 1..(m + n) PROVE IsList(u[i].e)
    <3>1. CASE i \in 1..m
      BY <1>3, <1>4, <3>1 DEF GoodList
    <3>2. CASE i - m \in 1..n /\ m + (i - m) = i
      <4>1. u[i] = t[i - m]
        BY <1>3, <3>2
      <4> QED
        BY <1>4, <3>2, <4>1 DEF GoodList
    <3> QED
      BY <1>5, <3>1, <3>2
  <2> QED
    BY <1>3, <1>4, <2>1 DEF GoodList
<1> DEFINE A == Places(c, s)
           B == Places(c, t)
           C == {<<m + q[1], q[2]>> : q \in B}
           U == Places(c, u)
<1>7. /\ \A q : q \in A <=> \E i \in DOMAIN s : \E j \in At(c, s[i]) : q = <<i, j>>
      /\ \A q : q \in B <=> \E i \in DOMAIN t : \E j \in At(c, t[i]) : q = <<i, j>>
      /\ \A q : q \in U <=> \E i \in DOMAIN u : \E j \in At(c, u[i]) : q = <<i, j>>
  BY PlacesAre
<1>8. B \subseteq Nat \X Nat
  <2> SUFFICES ASSUME NEW q \in B PROVE q \in Nat \X Nat
    OBVIOUS
  <2>1. PICK i \in 1..n : \E j \in At(c, t[i]) : q = <<i, j>>
    BY <1>4, <1>7
  <2>2. At(c, t[i]) \subseteq Nat
    BY <1>4, AtFinite DEF GoodList
  <2> QED
    BY <2>1, <2>2
<1>9. /\ IsFiniteSet(A) /\ IsFiniteSet(B)
      /\ References(c, s) = Cardinality(A) /\ References(c, t) = Cardinality(B)
      /\ References(c, u) = Cardinality(U)
      /\ References(c, s) \in Nat /\ References(c, t) \in Nat
  BY GoodLists, PlacesFinite DEF References
<1>10. \A q : q \in C <=> \E i \in 1..n : \E j \in At(c, t[i]) : q = <<m + i, j>>
  <2> TAKE q
  <2>1. ASSUME q \in C PROVE \E i \in 1..n : \E j \in At(c, t[i]) : q = <<m + i, j>>
    <3>1. PICK b \in B : q = <<m + b[1], b[2]>>
      BY <2>1
    <3>2. PICK i \in 1..n : \E j \in At(c, t[i]) : b = <<i, j>>
      BY <1>4, <1>7
    <3>3. PICK j \in At(c, t[i]) : b = <<i, j>>
      BY <3>2
    <3> HIDE DEF B, C
    <3>4. b[1] = i /\ b[2] = j
      BY <3>3
    <3> QED
      BY <3>1, <3>4
  <2>2. ASSUME NEW i \in 1..n, NEW j \in At(c, t[i]), q = <<m + i, j>> PROVE q \in C
    <3>1. <<i, j>> \in B
      BY <1>4, <1>7
    <3>2. <<i, j>>[1] = i /\ <<i, j>>[2] = j
      OBVIOUS
    <3> HIDE DEF B
    <3> QED
      BY <2>2, <3>1, <3>2
  <2> QED
    BY <2>1, <2>2
<1>11. U = A \union C
  <2>1. ASSUME NEW q \in U PROVE q \in A \union C
    <3>1. PICK i \in 1..(m + n) : \E j \in At(c, u[i]) : q = <<i, j>>
      BY <1>4, <1>7
    <3>2. CASE i \in 1..m
      BY <1>3, <1>4, <1>7, <3>1, <3>2
    <3>3. CASE i - m \in 1..n /\ m + (i - m) = i
      <4>1. u[i] = t[i - m]
        BY <1>3, <3>3
      <4> QED
        BY <1>10, <3>1, <3>3, <4>1
    <3> QED
      BY <1>5, <3>2, <3>3
  <2>2. ASSUME NEW q \in A PROVE q \in U
    <3>1. PICK i \in 1..m : \E j \in At(c, s[i]) : q = <<i, j>>
      BY <1>4, <1>7
    <3>2. i \in 1..(m + n) /\ u[i] = s[i]
      BY <1>3
    <3> QED
      BY <1>4, <1>7, <3>1, <3>2
  <2>3. ASSUME NEW q \in C PROVE q \in U
    <3>1. PICK i \in 1..n : \E j \in At(c, t[i]) : q = <<m + i, j>>
      BY <1>10
    <3>2. m + i \in 1..(m + n) /\ u[m + i] = t[i]
      BY <1>3
    <3> QED
      BY <1>4, <1>7, <3>1, <3>2
  <2> QED
    BY <2>1, <2>2, <2>3
<1>12. A \intersect C = {}
  <2> SUFFICES ASSUME NEW q \in A, q \in C PROVE FALSE
    OBVIOUS
  <2>1. PICK i \in 1..m : \E j \in At(c, s[i]) : q = <<i, j>>
    BY <1>4, <1>7
  <2>2. PICK k \in 1..n : \E j \in At(c, t[k]) : q = <<m + k, j>>
    BY <1>10
  <2>3. q[1] = i /\ q[1] = m + k
    BY <2>1, <2>2
  <2> QED
    BY <2>3
<1>13. IsFiniteSet(C) /\ Cardinality(C) = Cardinality(B)
  BY <1>8, <1>9, PairsShifted
<1> HIDE DEF A, B, C, U
<1>14. Cardinality(A \union C) = Cardinality(A) + Cardinality(C) - Cardinality(A \intersect C)
  BY <1>9, <1>13, FS_Union
<1>15. Cardinality(A \intersect C) = 0
  BY <1>12, FS_EmptySet
<1>16. References(c, u) = References(c, s) + References(c, t)
  BY <1>9, <1>11, <1>13, <1>14, <1>15
<1> QED
  BY <1>2, <1>6, <1>16

LEMMA ReferencesOne ==
  ASSUME NEW x, IsList(x.e), NEW c
  PROVE  GoodList(<<x>>) /\ References(c, <<x>>) = One(c, x)
<1>1. GoodList(<<x>>) /\ Good(<<x>>)
  BY GoodLists
<1>2. DOMAIN <<x>> = {1} /\ <<x>>[1] = x
  BY OneElement
<1>3. Others(c, <<x>>, 1) = {}
  BY <1>2, PlacesAre DEF Others
<1>4. /\ References(c, <<x>>) = Cardinality(Others(c, <<x>>, 1)) + One(c, <<x>>[1])
  BY <1>1, <1>2, ReferencesAt
<1>5. One(c, x) \in Nat
  BY AtFinite
<1> QED
  BY <1>1, <1>2, <1>3, <1>4, <1>5, FS_EmptySet

LEMMA ReferencesAppend ==
  ASSUME NEW s, GoodList(s), NEW x, IsList(x.e), NEW c
  PROVE  /\ GoodList(Append(s, x))
         /\ References(c, Append(s, x)) = References(c, s) + One(c, x)
<1>1. PICK S : s \in Seq(S)
  BY DEF GoodList, IsList
<1>2. s \in Seq(S \union {x})
  BY <1>1, SeqMonotonic
<1>3. Append(s, x) = s \o <<x>>
  BY <1>2, AppendIsConcat
<1>4. GoodList(<<x>>) /\ References(c, <<x>>) = One(c, x)
  BY ReferencesOne
<1> QED
  BY <1>3, <1>4, ReferencesConcat

LEMMA ReferencesSplit ==
  ASSUME NEW s, GoodList(s), NEW n \in Nat, n = Len(s), NEW m \in 0..n, NEW c
  PROVE  /\ GoodList(SubSeq(s, 1, m)) /\ GoodList(SubSeq(s, m + 1, n))
         /\ References(c, s) = References(c, SubSeq(s, 1, m)) + References(c, SubSeq(s, m + 1, n))
<1>1. PICK a, b : a = SubSeq(s, 1, m) /\ b = SubSeq(s, m + 1, n)
  OBVIOUS
<1>2. /\ IsList(a) /\ Len(a) = m /\ \A i \in 1..m : a[i] = s[i]
      /\ IsList(b) /\ Len(b) = n - m /\ \A i \in 1..(n - m) : b[i] = s[m + i]
      /\ a \o b = s
  BY <1>1, ListSplit DEF GoodList
<1>3. DOMAIN s = 1..n /\ DOMAIN a = 1..m /\ DOMAIN b = 1..(n - m)
  BY <1>2, ListFinite DEF GoodList
<1>4. /\ \A i \in 1..m : i \in 1..n
      /\ \A i \in 1..(n - m) : m + i \in 1..n
  OBVIOUS
<1>5. GoodList(a) /\ GoodList(b)
  BY <1>2, <1>3, <1>4 DEF GoodList
<1>6. References(c, a \o b) = References(c, a) + References(c, b)
  BY <1>5, ReferencesConcat
<1> QED
  BY <1>1, <1>2, <1>5, <1>6

-----------------------------------------------------------------------------
(* Cells.                                                                  *)

LEMMA TextsApart == \A s, t : Text(s) = Text(t) => s = t
<1> TAKE s, t
<1>1. Text(s).v = s /\ Text(t).v = t
  BY DEF Text, Cell
<1> QED
  BY <1>1

LEMMA PartialsApart == \A p, q : Partial(p) = Partial(q) => p = q
<1> TAKE p, q
<1>1. N(Partial(p)) = p /\ N(Partial(q)) = q
  BY DEF Partial, Cell, N
<1> QED
  BY <1>1

LEMMA CellFields ==
  /\ \A s : Text(s).k = "text" /\ Text(s).v = s /\ Text(s).e = <<>>
  /\ \A p : Partial(p).k = "partial" /\ N(Partial(p)) = p /\ Partial(p).e = <<>>
  /\ \A n : Int_(n).k = "int" /\ N(Int_(n)) = n /\ Int_(n).e = <<>>
  /\ \A n : Float(n).k = "float" /\ N(Float(n)) = n /\ Float(n).e = <<>>
  /\ \A n : Func(n).k = "func" /\ N(Func(n)) = n /\ Func(n).e = <<>>
  /\ \A b : Bool(b).k = "bool" /\ Bool(b).e = <<>>
  /\ Null.k = "null" /\ Null.e = <<>>
  /\ None.k = "none" /\ None.e = <<>>
  /\ \A s : Arr(s).k = "arr" /\ Arr(s).e = s
BY DEF Text, Partial, Int_, Float, Func, Bool, Null, None, Arr, Cell, N

LEMMA ValueCells ==
  ASSUME NEW c, IsValueCell(c)
  PROVE  /\ c.e = <<>> /\ c.k \in {"int", "float", "bool", "null", "text", "func", "partial"}
         /\ c.k = "int" => N(c) \in IntOf
         /\ c.k = "float" => N(c) \in Floats
         /\ c.k = "bool" => N(c) \in {0, 1}
         /\ c.k = "text" => c = Text(c.v) /\ c.v \in Seq(Bytes) /\ Len(c.v) <= MaxText
         /\ c.k = "func" => N(c) \in DOMAIN Functions
         /\ c.k = "partial" => c = Partial(N(c)) /\ N(c) \in PartialIds
<1>1. CASE c.k = "int"
  BY <1>1, CellFields DEF IsValueCell
<1>2. CASE c.k = "float"
  BY <1>2, CellFields DEF IsValueCell
<1>3. CASE c.k = "bool"
  BY <1>3, CellFields DEF IsValueCell, Bool, Cell, N
<1>4. CASE c.k = "null"
  BY <1>4, CellFields DEF IsValueCell
<1>5. CASE c.k = "text"
  BY <1>5, CellFields DEF IsValueCell
<1>6. CASE c.k = "func"
  BY <1>6, CellFields DEF IsValueCell
<1>7. CASE c.k = "partial"
  BY <1>7, CellFields DEF IsValueCell
<1> QED
  BY <1>1, <1>2, <1>3, <1>4, <1>5, <1>6, <1>7 DEF IsValueCell

LEMMA ValuesMade ==
  /\ \A n \in IntOf : IsValueCell(Int_(n))
  /\ \A n \in Floats : IsValueCell(Float(n))
  /\ \A b : IsValueCell(Bool(b))
  /\ IsValueCell(Null)
  /\ \A s \in Seq(Bytes) : Len(s) <= MaxText => IsValueCell(Text(s))
  /\ \A p \in PartialIds : IsValueCell(Partial(p))
<1>1. \A b : Bool(b) \in {Bool(TRUE), Bool(FALSE)}
  BY DEF Bool
<1> QED
  BY <1>1, CellFields DEF IsValueCell

(* Strings and partial applications, the cells that are counted.           *)
Shared(c) == (\E s : c = Text(s)) \/ (\E p \in PartialIds : c = Partial(p))

Flat(s)   == IsList(s) /\ \A i \in DOMAIN s : s[i] = None \/ IsValueCell(s[i])

LEMMA FlatCells == \A c : c = None \/ IsValueCell(c) => c.e = <<>>
BY ValueCells, CellFields

LEMMA OneFlat ==
  ASSUME NEW x, x.e = <<>>, NEW c
  PROVE  One(c, x) = IF x = c THEN 1 ELSE 0
<1>1. At(c, x) = IF x = c THEN {0} ELSE {}
  <2>1. \A j \in 0..0 : j = 0
    OBVIOUS
  <2>2. At(c, x) = {j \in 0..0 : IF j = 0 THEN x = c ELSE x.e[j] = c}
    BY EmptyList DEF At
  <2> QED
    BY <2>1, <2>2
<1> QED
  BY <1>1, FS_Singleton, FS_EmptySet DEF One

(* The elements of an array are references like those of cells.            *)
LEMMA OneArray ==
  ASSUME NEW s, Flat(s), NEW c, Shared(c)
  PROVE  IsList(Arr(s).e) /\ One(c, Arr(s)) = References(c, s)
<1> DEFINE A == At(c, Arr(s))
           P == Places(c, s)
           f == [j \in A |-> <<j, 0>>]
<1>1. PICK n \in Nat : n = Len(s) /\ DOMAIN s = 1..n
  BY ListFinite DEF Flat
<1>2. Arr(s).e = s /\ Arr(s) # c
  BY CellFields DEF Shared
<1>3. \A j : j \in A <=> j \in 1..n /\ s[j] = c
  BY <1>1, <1>2 DEF At
<1>4. \A i \in 1..n : \A j : j \in At(c, s[i]) <=> j = 0 /\ s[i] = c
  <2> TAKE i \in 1..n
  <2>1. s[i].e = <<>>
    BY <1>1, FlatCells DEF Flat
  <2>2. At(c, s[i]) = {j \in 0..0 : IF j = 0 THEN s[i] = c ELSE s[i].e[j] = c}
    BY <2>1, EmptyList DEF At
  <2> QED
    BY <2>2
<1>5. \A q : q \in P <=> \E i \in 1..n : s[i] = c /\ q = <<i, 0>>
  <2>1. \A q : q \in P <=> \E i \in DOMAIN s : \E j \in At(c, s[i]) : q = <<i, j>>
    BY PlacesAre
  <2> HIDE DEF P
  <2>2. ASSUME NEW q, q \in P PROVE \E i \in 1..n : s[i] = c /\ q = <<i, 0>>
    <3>1. PICK i \in 1..n : \E j \in At(c, s[i]) : q = <<i, j>>
      BY <1>1, <2>1, <2>2
    <3>2. PICK j \in At(c, s[i]) : q = <<i, j>>
      BY <3>1
    <3> QED
      BY <1>4, <3>2
  <2>3. ASSUME NEW q, NEW i \in 1..n, s[i] = c, q = <<i, 0>> PROVE q \in P
    <3>1. 0 \in At(c, s[i])
      BY <1>4, <2>3
    <3> QED
      BY <1>1, <2>1, <2>3, <3>1
  <2> QED
    BY <2>2, <2>3
<1>6. f \in Bijection(A, P)
  <2>1. f \in [A -> P]
    BY <1>3, <1>5
  <2>2. \A i, j \in A : f[i] = f[j] => i = j
    <3> TAKE i, j \in A
    <3>1. <<i, 0>>[1] = i /\ <<j, 0>>[1] = j
      OBVIOUS
    <3> QED
      BY <3>1
  <2>3. \A q \in P : \E j \in A : f[j] = q
    BY <1>3, <1>5
  <2> QED
    BY <2>1, <2>2, <2>3, Fun_IsBij
<1>7. ExistsBijection(A, P)
  BY <1>6 DEF ExistsBijection
<1>8. IsFiniteSet(A)
  <2>1. A \subseteq 1..n /\ IsFiniteSet(1..n)
    BY <1>3, FS_Interval
  <2> QED
    BY <2>1, FS_Subset
<1> HIDE DEF A, P, f
<1>9. Cardinality(A) = Cardinality(P)
  BY <1>7, <1>8, FS_Bijection
<1> QED
  BY <1>2, <1>9 DEF One, References, Flat, A, P

LEMMA FlatGood == \A s : Flat(s) => GoodList(s)
<1> SUFFICES ASSUME NEW s, Flat(s) PROVE GoodList(s)
  OBVIOUS
<1>1. \A i \in DOMAIN s : IsList(s[i].e)
  BY FlatCells, EmptyList DEF Flat
<1> QED
  BY <1>1 DEF Flat, GoodList

LEMMA ClearedSame ==
  ASSUME NEW s, GoodList(s), NEW c, Shared(c)
  PROVE  GoodList(Cleared(s)) /\ References(c, Cleared(s)) = References(c, s)
<1>1. CASE Cleared(s) = s
  BY <1>1
<1>2. CASE Cleared(s) # s
  <2>1. /\ Cleared(s) = <<>>
        /\ \A i \in DOMAIN s :
             ~Counted(s[i]) /\ \A j \in DOMAIN s[i].e : ~Counted(s[i].e[j])
    BY <1>2 DEF Cleared
  <2>2. Counted(c)
    BY CellFields DEF Shared, Counted
  <2>3. \A i \in DOMAIN s : At(c, s[i]) = {}
    <3> TAKE i \in DOMAIN s
    <3>1. IsList(s[i].e)
      BY DEF GoodList
    <3>2. PICK n \in Nat : n = Len(s[i].e) /\ DOMAIN s[i].e = 1..n
      BY <3>1, ListFinite
    <3>3. \A j \in 0..n : j = 0 \/ j \in 1..n
      OBVIOUS
    <3> QED
      BY <2>1, <2>2, <3>2, <3>3 DEF At
  <2> QED
    BY <2>1, <2>3, ReferencesNone, ReferencesEmpty, GoodLists
<1> QED
  BY <1>1, <1>2

-----------------------------------------------------------------------------
(* Numbers and strings.                                                    *)

LEMMA Least ==
  ASSUME NEW T \in SUBSET Nat, T # {}
  PROVE  \E x \in T : \A y \in T : x <= y
<1> DEFINE R == OpToRel(<, Nat)
<1>1. IsWellFoundedOn(R, Nat)
  BY NatLessThanWellFounded
<1>2. \A x, y \in Nat : y < x => <<y, x>> \in R
  BY DEF OpToRel
<1> HIDE DEF R
<1>3. PICK x \in T : \A y \in T : ~ (<<y, x>> \in R)
  BY <1>1, WFMin
<1>4. \A y \in T : ~ (y < x)
  BY <1>2, <1>3
<1> QED
  BY <1>4

LEMMA FirstIs ==
  ASSUME NEW T \in SUBSET Nat, T # {}
  PROVE  First(T) \in T /\ \A y \in T : First(T) <= y
<1>1. \E x \in T : \A y \in T : x <= y
  BY Least
<1> QED
  BY <1>1 DEF First

LEMMA ByteIs ==
  ASSUME NEW s \in Seq(Bytes), NEW i \in Nat
  PROVE  Byte(s, i) \in Bytes /\ Byte(s, i) \in Nat
<1>1. PICK h \in Nat \ {0, 1} : h = Half
  BY OperandAssumption
<1>2. Bytes = 0..(h - 1) /\ 0 \in Bytes
  BY <1>1 DEF Bytes
<1>3. CASE i < Len(s)
  <2>1. PICK n \in Nat : n = Len(s)
    OBVIOUS
  <2>2. i + 1 \in 1..n
    BY <1>3, <2>1
  <2>3. s[i + 1] \in Bytes
    BY <2>1, <2>2, ElementOfSeq
  <2> QED
    BY <1>2, <1>3, <2>3 DEF Byte
<1>4. CASE ~(i < Len(s))
  BY <1>2, <1>4 DEF Byte
<1> QED
  BY <1>3, <1>4

LEMMA PartOfText ==
  ASSUME NEW s \in Seq(Bytes), NEW n \in Nat, n = Len(s), NEW a \in 1..(n + 1), NEW b \in (a - 1)..n
  PROVE  SubSeq(s, a, b) \in Seq(Bytes) /\ Len(SubSeq(s, a, b)) = b - a + 1
<1>1. \A i \in a..b : s[i] \in Bytes
  BY ElementOfSeq
<1>2. /\ SubSeq(s, a, b) \in Seq(Bytes)
      /\ Len(SubSeq(s, a, b)) = IF a <= b THEN b - a + 1 ELSE 0
  BY <1>1, SubSeqProperties
<1> QED
  BY <1>2

LEMMA VisibleIs ==
  ASSUME NEW s \in Seq(Bytes), NEW n \in Nat, n = Len(s)
  PROVE  Utf8Len(s) \in 0..n
<1> DEFINE zeros == {i \in DOMAIN s : s[i] = 0}
<1>1. DOMAIN s = 1..n
  BY LenProperties
<1>2. CASE zeros = {}
  BY <1>2 DEF Utf8Len, Visible
<1>3. CASE zeros # {}
  <2>1. zeros \in SUBSET Nat /\ zeros \subseteq 1..n
    BY <1>1
  <2> HIDE DEF zeros
  <2>2. PICK m : m = First(zeros)
    OBVIOUS
  <2>3. m \in 1..n
    BY <1>3, <2>1, <2>2, FirstIs
  <2>4. Len(SubSeq(s, 1, m - 1)) = (m - 1) - 1 + 1
    BY <2>3, PartOfText
  <2>5. Visible(s) = SubSeq(s, 1, m - 1)
    BY <1>3, <2>2 DEF Visible, zeros
  <2> QED
    BY <2>3, <2>4, <2>5 DEF Utf8Len
<1> QED
  BY <1>2, <1>3

LEMMA GlyphIs ==
  ASSUME NEW s \in Seq(Bytes), NEW i \in Nat
  PROVE  Glyph(s, i) \in Seq(Bytes)
<1>1. 0 \in Bytes
  BY OperandAssumption DEF Bytes
<1>2. PICK b \in Bytes : b = Byte(s, i)
  BY ByteIs
<1>3. <<b, 0, 0, 0>> \in Seq(Bytes) /\ <<>> \in Seq(Bytes)
  BY <1>1
<1> QED
  BY <1>2, <1>3 DEF Glyph, NoGlyph

(* A number that a string is cut at, or null.                              *)
Index(c) == c.k = "null" \/ N(c) \in Int

LEMMA SliceIndexIs ==
  ASSUME NEW c, Index(c), NEW size \in Nat, NEW default \in Int
  PROVE  SliceIndex(c, size, default) \in 0..size
<1>1. CASE c.k = "null"
  BY <1>1 DEF SliceIndex
<1>2. CASE c.k # "null"
  BY <1>2 DEF SliceIndex, Index
<1> QED
  BY <1>1, <1>2

LEMMA SliceIs ==
  ASSUME NEW s \in Seq(Bytes), NEW from, Index(from), NEW to, Index(to)
  PROVE  SliceBytes(s, from, to) \in Seq(Bytes)
<1>1. PICK n \in Nat : n = Len(s)
  OBVIOUS
<1>2. PICK size : size = Utf8Len(s)
  OBVIOUS
<1>3. size \in 0..n /\ Half \in Int
  BY <1>1, <1>2, VisibleIs, OperandAssumption
<1>4. PICK a, b : a = SliceIndex(from, size, 0) /\ b = SliceIndex(to, size, Half)
  OBVIOUS
<1>5. a \in 0..size /\ b \in 0..size
  BY <1>3, <1>4, SliceIndexIs
<1>6. SliceBytes(s, from, to) = IF b <= a THEN <<>> ELSE SubSeq(s, a + 1, b)
  BY <1>2, <1>4 DEF SliceBytes
<1>7. CASE b <= a
  BY <1>6, <1>7
<1>8. CASE ~(b <= a)
  <2>1. a + 1 \in 1..(n + 1) /\ b \in ((a + 1) - 1)..n
    BY <1>3, <1>5, <1>8
  <2>2. SubSeq(s, a + 1, b) \in Seq(Bytes)
    BY <1>1, <2>1, PartOfText
  <2> QED
    BY <1>6, <1>8, <2>2
<1> QED
  BY <1>7, <1>8

LEMMA DecimalIs == \A n \in Int : Decimal(n) \in Seq(Bytes)
<1> TAKE n \in Int
<1> DEFINE m      == IF n < 0 THEN -n ELSE n
           below  == {i \in 1..IntWidth : 10 ^ i <= m}
           places == 1 + Cardinality(below)
           digits == [i \in 1..places |-> Zero + ((m \div (10 ^ (places - i))) % 10)]
<1>1. IsFiniteSet(below)
  <2>1. IsFiniteSet(1..IntWidth)
    BY OperandAssumption, FS_Interval
  <2> QED
    BY <2>1, FS_Subset
<1>2. places \in Nat /\ m \in Nat
  BY <1>1, FS_CardinalityType
<1>3. \A d \in 0..9 : Zero + d \in Bytes
  BY OperandAssumption DEF Bytes
<1>4. \A i \in 1..places : (m \div (10 ^ (places - i))) % 10 \in 0..9
  <2> TAKE i \in 1..places
  <2> HIDE DEF m, places
  <2>1. places - i \in Nat
    BY <1>2
  <2> QED
    BY <1>2, <2>1
<1>5. digits \in Seq(Bytes)
  <2> HIDE DEF m, places
  <2>1. digits \in [1..places -> Bytes]
    BY <1>3, <1>4
  <2> HIDE DEF digits
  <2> QED
    BY <1>2, <2>1
<1>6. <<Minus>> \in Seq(Bytes)
  BY OperandAssumption
<1>7. Decimal(n) = IF n < 0 THEN <<Minus>> \o digits ELSE digits
  BY DEF Decimal
<1> HIDE DEF digits
<1>8. <<Minus>> \o digits \in Seq(Bytes)
  BY <1>5, <1>6
<1> QED
  BY <1>5, <1>7, <1>8

LEMMA CmpBytesIs ==
  ASSUME NEW s \in Seq(Bytes), NEW t \in Seq(Bytes)
  PROVE  CmpBytes(s, t) \in IntOf
<1> DEFINE ends == {i \in 0..Len(s) : Byte(s, i) # Byte(t, i) \/ Byte(s, i) = 0}
<1>1. PICK n \in Nat : n = Len(s)
  OBVIOUS
<1>2. ends \in SUBSET Nat /\ n \in ends
  BY <1>1 DEF Byte
<1> HIDE DEF ends
<1>3. PICK at : at = First(ends)
  OBVIOUS
<1>4. at \in Nat
  BY <1>2, <1>3, FirstIs
<1>5. CmpBytes(s, t) = Byte(s, at) - Byte(t, at)
  BY <1>3 DEF CmpBytes, ends
<1>6. PICK b \in Bytes, d \in Bytes : b = Byte(s, at) /\ d = Byte(t, at)
  BY <1>4, ByteIs
<1> QED
  BY <1>5, <1>6, OperandAssumption DEF Bytes, IntOf

LEMMA WrappedIs == \A n \in Int : Wrapped(n) \in IntOf
<1> TAKE n \in Int
<1>1. PICK h \in Nat \ {0, 1} : h = Half
  BY OperandAssumption
<1>2. ((n + h) % (2 * h)) - h \in (-h)..(h - 1)
  OBVIOUS
<1> QED
  BY <1>1, <1>2 DEF Wrapped, IntOf

LEMMA SmallIs == \A n \in -1..1 : n \in IntOf
BY OperandAssumption DEF IntOf

LEMMA SignIs == \A n \in Int : Sign(n) \in -1..1
BY DEF Sign

LEMMA DivisionIs ==
  ASSUME NEW a \in Nat, NEW b \in Nat, b > 0
  PROVE  /\ a \div b \in 0..a
         /\ b > 1 /\ a > 0 => a \div b < a
         /\ a - b * (a \div b) \in 0..(b - 1)
<1>1. PICK q : q = a \div b
  OBVIOUS
<1>2. PICK r : r = a % b
  OBVIOUS
<1>3. q \in Nat /\ r \in 0..(b - 1) /\ a = b * q + r
  BY <1>1, <1>2
<1>4. b * q >= q
  BY <1>3
<1>5. ASSUME b > 1, a > 0 PROVE q < a
  <2>1. CASE q = 0
    BY <1>5, <2>1
  <2>2. CASE q # 0
    <3>1. b * q >= 2 * q
      BY <1>3, <1>5
    <3> QED
      BY <1>3, <2>2, <3>1
  <2> QED
    BY <2>1, <2>2
<1> QED
  BY <1>1, <1>3, <1>4, <1>5

LEMMA QuotientIs ==
  ASSUME NEW a \in IntOf, NEW b \in IntOf, b # 0, ~(a = -Half /\ b = -1)
  PROVE  Quotient(a, b) \in IntOf /\ Remainder(a, b) \in IntOf
<1>1. PICK h \in Nat \ {0, 1} : h = Half /\ IntOf = (-h)..(h - 1)
  BY OperandAssumption DEF IntOf
<1>2. a \in Int /\ b \in Int
  BY <1>1
<1>3. CASE a = 0
  <2>1. Sign(a) = 0 /\ Sign(b) \in Int
    BY <1>2, <1>3 DEF Sign
  <2>2. PICK k : k = (Sign(a) * a) \div (Sign(b) * b)
    OBVIOUS
  <2>3. Sign(b) * b \in Nat /\ Sign(b) * b > 0
    BY <1>2 DEF Sign
  <2>4. k \in Int
    BY <1>3, <2>1, <2>2, <2>3
  <2>5. Quotient(a, b) = 0
    BY <2>1, <2>2, <2>4 DEF Quotient
  <2> QED
    BY <1>1, <1>2, <1>3, <2>5 DEF Remainder
<1>4. CASE a > 0 /\ b > 0
  <2>1. PICK k : k = a \div b
    OBVIOUS
  <2>2. k \in 0..a /\ a - b * k \in 0..(b - 1)
    BY <1>2, <1>4, <2>1, DivisionIs
  <2>3. Quotient(a, b) = k
    BY <1>2, <1>4, <2>1, <2>2 DEF Quotient, Sign
  <2> QED
    BY <1>1, <1>2, <1>4, <2>2, <2>3 DEF Remainder
<1>5. CASE a > 0 /\ b < 0
  <2>1. PICK k : k = a \div (-b)
    OBVIOUS
  <2>2. k \in 0..a /\ a - (-b) * k \in 0..((-b) - 1)
    BY <1>2, <1>5, <2>1, DivisionIs
  <2>3. Quotient(a, b) = -k
    BY <1>2, <1>5, <2>1, <2>2 DEF Quotient, Sign
  <2>4. a - b * (-k) = a - (-b) * k
    BY <1>2, <2>2
  <2> QED
    BY <1>1, <1>2, <1>5, <2>2, <2>3, <2>4 DEF Remainder
<1>6. CASE a < 0 /\ b > 0
  <2>1. PICK k : k = (-a) \div b
    OBVIOUS
  <2>2. k \in 0..(-a) /\ (-a) - b * k \in 0..(b - 1)
    BY <1>2, <1>6, <2>1, DivisionIs
  <2>3. Quotient(a, b) = -k
    BY <1>2, <1>6, <2>1, <2>2 DEF Quotient, Sign
  <2>4. a - b * (-k) = -((-a) - b * k)
    BY <1>2, <2>2
  <2> QED
    BY <1>1, <1>2, <1>6, <2>2, <2>3, <2>4 DEF Remainder
<1>7. CASE a < 0 /\ b < 0
  <2>1. PICK x \in Nat, y \in Nat : x = -a /\ y = -b /\ x > 0 /\ y > 0
    BY <1>2, <1>7
  <2>2. PICK k : k = x \div y
    OBVIOUS
  <2>3. k \in 0..x /\ x - y * k \in 0..(y - 1) /\ (y > 1 => k < x)
    BY <2>1, <2>2, DivisionIs
  <2>4. Sign(a) = -1 /\ Sign(b) = -1 /\ (-1) * a = x /\ (-1) * b = y /\ (-1) * (-1) * k = k
    BY <1>2, <1>7, <2>1, <2>3 DEF Sign
  <2>5. Quotient(a, b) = k
    BY <2>2, <2>4 DEF Quotient
  <2>6. a - b * k = -(x - y * k)
    BY <1>2, <2>1, <2>3
  <2>7. k \in IntOf
    BY <1>1, <1>2, <2>1, <2>3
  <2>8. a - b * k \in IntOf
    BY <1>1, <2>1, <2>3, <2>6
  <2> QED
    BY <2>5, <2>7, <2>8 DEF Remainder
<1> QED
  BY <1>2, <1>3, <1>4, <1>5, <1>6, <1>7

-----------------------------------------------------------------------------
(* The invariant.                                                          *)

(* Cells, and lists of them.  In a list that is to be released there are   *)
(* the empty slots of partial applications, too.                           *)
ValueList(s)  == IsList(s) /\ \A i \in DOMAIN s : IsValueCell(s[i])
WellMade(c)   == IsValueCell(c) \/ (c = Arr(c.e) /\ ValueList(c.e))
Cells(s)      == IsList(s) /\ \A i \in DOMAIN s : WellMade(s[i])
LooseCells(s) == IsList(s) /\ \A i \in DOMAIN s : s[i] = None \/ WellMade(s[i])

(* The slots of a partial application that lacks nargs arguments: the      *)
(* last ones.                                                              *)
SlotsOK(f, nargs, slots) ==
  /\ nargs \in 0..Functions[f].arguments
  /\ IsList(slots) /\ Len(slots) = Functions[f].arguments + Functions[f].captures
  /\ \A i \in DOMAIN slots :
       IF i \in (Functions[f].arguments - nargs + 1)..Functions[f].arguments
       THEN slots[i] = None ELSE IsValueCell(slots[i])

PartialOK(p) ==
  \/ p = Dead
  \/ /\ p = [rc |-> p.rc, f |-> p.f, nargs |-> p.nargs, slots |-> p.slots]
     /\ p.rc \in Nat \ {0} /\ p.f \in DOMAIN Functions /\ SlotsOK(p.f, p.nargs, p.slots)

PartialsOK(ps) ==
  ps = [p \in PartialIds |-> ps[p]] /\ \A p \in PartialIds : PartialOK(ps[p])

PoolOK(strings) == \A s \in DOMAIN strings : strings[s] \in Nat \ {0}

SlotsOf(ps) == [p \in PartialIds |-> Arr(ps[p].slots)]

(* The count of a string or partial application.                           *)
Rc(c, strings, ps) ==
  IF c.k = "text" THEN (IF c.v \in DOMAIN strings THEN strings[c.v] ELSE 0) ELSE ps[N(c)].rc

(* The constants of the script have their strings forever.                 *)
Constant(c) == IF c \in script.values THEN 1 ELSE 0

Balanced == \A c : Shared(c) => Rc(c, pool, partials) = AllReferences(c) + Constant(c)

IInv ==
  /\ script \in Scripts
  /\ DOMAIN env = script.vars /\ \A v \in script.vars : IsValueCell(env[v])
  /\ Cells(stack) /\ LooseCells(drop)
  /\ PoolOK(pool) /\ PartialsOK(partials)
  /\ status \in {"ok", "error", "freed", "trap", "misbound"}
  /\ Balanced

LEMMA CellLists ==
  /\ \A s : ValueList(s) => Cells(s) /\ Flat(s)
  /\ \A s : Cells(s) => LooseCells(s)
  /\ \A s : Flat(s) => LooseCells(s)
  /\ \A s : LooseCells(s) => GoodList(s)
  /\ \A c : WellMade(c) => IsList(c.e)
<1>1. \A c : WellMade(c) => IsList(c.e)
  BY FlatCells, EmptyList DEF WellMade, ValueList
<1>2. IsList(None.e)
  BY CellFields, EmptyList
<1> QED
  BY <1>1, <1>2 DEF ValueList, Cells, LooseCells, Flat, GoodList, WellMade

LEMMA FunctionShape ==
  ASSUME NEW f \in DOMAIN Functions
  PROVE  /\ Functions[f].arguments \in Nat /\ Functions[f].captures \in Nat
         /\ Functions[f].returns \in 0..(Functions[f].arguments + Functions[f].captures)
BY OperandAssumption

LEMMA PartialSlots ==
  ASSUME NEW p, PartialOK(p)
  PROVE  Flat(p.slots) /\ p.rc \in Nat /\ (p.rc = 0 <=> p = Dead)
<1>1. CASE p = Dead
  <2>1. p.slots = <<>> /\ p.rc = 0
    BY <1>1 DEF Dead
  <2> QED
    BY <1>1, <2>1, EmptyList DEF Flat
<1>2. CASE p # Dead
  BY <1>2 DEF PartialOK, SlotsOK, Flat
<1> QED
  BY <1>1, <1>2

LEMMA SlotsGood ==
  ASSUME NEW ps, PartialsOK(ps), NEW c
  PROVE  Good(SlotsOf(ps)) /\ References(c, SlotsOf(ps)) \in Nat
<1>1. IsFiniteSet(PartialIds)
  <2>1. MaxPartials \in Nat
    BY OperandAssumption
  <2> QED
    BY <2>1, FS_Interval DEF PartialIds
<1>2. \A p \in PartialIds : IsList(SlotsOf(ps)[p].e)
  BY PartialSlots, CellFields DEF SlotsOf, PartialsOK, Flat
<1>3. Good(SlotsOf(ps))
  BY <1>1, <1>2 DEF Good, SlotsOf
<1> QED
  BY <1>3, PlacesFinite

LEMMA ListCounted == \A s, c : LooseCells(s) => GoodList(s) /\ References(c, s) \in Nat
BY CellLists, GoodLists, PlacesFinite

LEMMA EnvGood ==
  ASSUME NEW e, NEW s \in Scripts, DOMAIN e = s.vars, \A v \in s.vars : IsValueCell(e[v]), NEW c
  PROVE  Good(e) /\ References(c, e) \in Nat
<1>1. IsFiniteSet(DOMAIN e)
  BY ScriptsAssumption
<1>2. \A v \in DOMAIN e : IsList(e[v].e)
  BY FlatCells, EmptyList
<1>3. Good(e)
  BY <1>1, <1>2 DEF Good
<1> QED
  BY <1>3, PlacesFinite

LEMMA SharedCells ==
  ASSUME NEW c, Shared(c)
  PROVE  \/ \E s : c = Text(s) /\ c.k = "text" /\ c.v = s
         \/ \E p \in PartialIds : c = Partial(p) /\ c.k = "partial" /\ N(c) = p
BY CellFields DEF Shared

LEMMA RcNumber ==
  ASSUME NEW strings, PoolOK(strings), NEW ps, PartialsOK(ps), NEW c, Shared(c)
  PROVE  Rc(c, strings, ps) \in Nat
<1>1. ASSUME NEW s, c.k = "text" PROVE Rc(c, strings, ps) \in Nat
  BY <1>1 DEF Rc, PoolOK
<1>2. ASSUME NEW p \in PartialIds, c.k = "partial", N(c) = p PROVE Rc(c, strings, ps) \in Nat
  BY <1>2, PartialSlots DEF Rc, PartialsOK
<1> QED
  BY <1>1, <1>2, SharedCells

LEMMA AllCounted ==
  ASSUME IInv, NEW c
  PROVE  /\ References(c, env) \in Nat /\ References(c, stack) \in Nat
         /\ References(c, drop) \in Nat /\ References(c, SlotsOf(partials)) \in Nat
         /\ AllReferences(c) = References(c, env) + References(c, stack)
                                 + References(c, drop) + References(c, SlotsOf(partials))
<1>1. Slots = SlotsOf(partials)
  BY DEF Slots, SlotsOf
<1>2. References(c, env) \in Nat
  BY EnvGood DEF IInv
<1>3. References(c, stack) \in Nat /\ References(c, drop) \in Nat
  BY CellLists, ListCounted DEF IInv
<1> QED
  BY <1>1, <1>2, <1>3, SlotsGood DEF IInv, AllReferences

(* A step keeps the invariant if what it makes is well-made, and counts    *)
(* change as references do.                                                *)
LEMMA Keeps ==
  ASSUME IInv, script' = script, status' \in {"ok", "error", "freed", "trap", "misbound"},
         DOMAIN env' = script.vars, \A v \in script.vars : IsValueCell(env'[v]),
         Cells(stack'), LooseCells(drop'), PoolOK(pool'), PartialsOK(partials'),
         \A c : Shared(c) =>
           Rc(c, pool', partials') + References(c, env) + References(c, stack)
             + References(c, drop) + References(c, SlotsOf(partials)) =
           Rc(c, pool, partials) + References(c, env') + References(c, stack')
             + References(c, drop') + References(c, SlotsOf(partials'))
  PROVE  IInv'
<1>1. ASSUME NEW c, Shared(c)
      PROVE  Rc(c, pool', partials') = AllReferences(c)' + Constant(c)'
  <2>1. /\ References(c, env) \in Nat /\ References(c, stack) \in Nat
        /\ References(c, drop) \in Nat /\ References(c, SlotsOf(partials)) \in Nat
        /\ AllReferences(c) = References(c, env) + References(c, stack)
                                + References(c, drop) + References(c, SlotsOf(partials))
    BY AllCounted
  <2>2. /\ References(c, env') \in Nat /\ References(c, stack') \in Nat
        /\ References(c, drop') \in Nat /\ References(c, SlotsOf(partials')) \in Nat
    BY CellLists, ListCounted, EnvGood, SlotsGood DEF IInv
  <2>3. AllReferences(c)' = References(c, env') + References(c, stack')
                              + References(c, drop') + References(c, SlotsOf(partials'))
    BY DEF AllReferences, Slots, SlotsOf
  <2>4. Constant(c)' = Constant(c) /\ Constant(c) \in Nat
    BY DEF Constant
  <2>5. Rc(c, pool, partials) = AllReferences(c) + Constant(c)
    BY <1>1 DEF IInv, Balanced
  <2>6. Rc(c, pool', partials') \in Nat
    BY <1>1, RcNumber
  <2>7. Rc(c, pool', partials') + References(c, env) + References(c, stack)
             + References(c, drop) + References(c, SlotsOf(partials)) =
           Rc(c, pool, partials) + References(c, env') + References(c, stack')
             + References(c, drop') + References(c, SlotsOf(partials'))
    BY <1>1
  <2>8. Rc(c, pool, partials) \in Nat
    BY <1>1, RcNumber DEF IInv
  <2>9. PICK e1 \in Nat, s1 \in Nat, d1 \in Nat, p1 \in Nat :
          /\ e1 = References(c, env) /\ s1 = References(c, stack)
          /\ d1 = References(c, drop) /\ p1 = References(c, SlotsOf(partials))
    BY <2>1
  <2>10. PICK e2 \in Nat, s2 \in Nat, d2 \in Nat, p2 \in Nat :
          /\ e2 = References(c, env') /\ s2 = References(c, stack')
          /\ d2 = References(c, drop') /\ p2 = References(c, SlotsOf(partials'))
    BY <2>2
  <2>11. PICK rc1 \in Nat, rc2 \in Nat, k \in Nat :
          /\ rc1 = Rc(c, pool, partials) /\ rc2 = Rc(c, pool', partials') /\ k = Constant(c)
    BY <2>4, <2>6, <2>8
  <2>12. rc1 = (e1 + s1 + d1 + p1) + k
    BY <2>1, <2>5, <2>9, <2>11
  <2>13. rc2 + e1 + s1 + d1 + p1 = rc1 + e2 + s2 + d2 + p2
    BY <2>7, <2>9, <2>10, <2>11
  <2>14. rc2 = (e2 + s2 + d2 + p2) + k
    BY <2>12, <2>13
  <2> QED
    BY <2>3, <2>4, <2>10, <2>11, <2>14
<1>2. Balanced'
  <2>1. Balanced' = \A c : Shared(c) => Rc(c, pool', partials') = AllReferences(c)' + Constant(c)'
    BY DEF Balanced
  <2> QED
    BY <1>1, <2>1
<1> QED
  BY <1>2 DEF IInv

-----------------------------------------------------------------------------
(* The stack.                                                              *)

LEMMA ListsEqual ==
  ASSUME NEW s, IsList(s), NEW t, IsList(t), NEW n \in Nat, Len(s) = n, Len(t) = n,
         \A i \in 1..n : s[i] = t[i]
  PROVE  s = t
<1>1. PICK S : s \in Seq(S) /\ t \in Seq(S)
  BY TwoLists
<1> QED
  BY <1>1, SeqEqual

LEMMA StackParts ==
  ASSUME IInv, NEW n \in Nat, NEW size \in Nat, size = Len(stack), n <= size
  PROVE  /\ Cells(Below(n)) /\ Len(Below(n)) = size - n
         /\ Cells(Top(n)) /\ Len(Top(n)) = n
         /\ \A i \in 1..n : Top(n)[i] = Operand(n - i) /\ Top(n)[i] = stack[size - n + i]
         /\ \A i \in 0..(n - 1) : WellMade(Operand(i)) /\ size - i \in DOMAIN stack
         /\ \A c : References(c, stack) = References(c, Below(n)) + References(c, Top(n))
<1>1. IsList(stack) /\ DOMAIN stack = 1..size /\ \A i \in DOMAIN stack : WellMade(stack[i])
  BY ListFinite DEF IInv, Cells
<1>2. size - n \in 0..size
  OBVIOUS
<1>3. PICK m \in 0..size : m = size - n
  OBVIOUS
<1>4. m \in Nat /\ size - m = n /\ size - n + 1 = m + 1
  BY <1>3
<1>5. Below(n) = SubSeq(stack, 1, m) /\ Top(n) = SubSeq(stack, m + 1, size)
  BY <1>3, <1>4 DEF Below, Top
<1>6. /\ IsList(Below(n)) /\ Len(Below(n)) = m /\ \A i \in 1..m : Below(n)[i] = stack[i]
      /\ IsList(Top(n)) /\ Len(Top(n)) = n /\ \A i \in 1..n : Top(n)[i] = stack[m + i]
  <2>1. PICK a, b : a = Below(n) /\ b = Top(n)
    OBVIOUS
  <2>2. PICK s : s = stack
    OBVIOUS
  <2>3. IsList(s) /\ size = Len(s)
    BY <1>1, <2>2
  <2>4. a = SubSeq(s, 1, m) /\ b = SubSeq(s, m + 1, size)
    BY <1>5, <2>1, <2>2
  <2>5. /\ IsList(SubSeq(s, 1, m)) /\ Len(SubSeq(s, 1, m)) = m
        /\ \A i \in 1..m : SubSeq(s, 1, m)[i] = s[i]
        /\ IsList(SubSeq(s, m + 1, size)) /\ Len(SubSeq(s, m + 1, size)) = size - m
        /\ \A i \in 1..(size - m) : SubSeq(s, m + 1, size)[i] = s[m + i]
    BY <2>3, ListSplit
  <2>6. /\ IsList(a) /\ Len(a) = m /\ \A i \in 1..m : a[i] = stack[i]
        /\ IsList(b) /\ Len(b) = size - m /\ \A i \in 1..(size - m) : b[i] = stack[m + i]
    BY <2>2, <2>4, <2>5
  <2> QED
    BY <1>3, <1>4, <2>1, <2>6
<1>7. Cells(Below(n))
  <2>1. DOMAIN Below(n) = 1..m /\ 1..m \subseteq 1..size
    BY <1>3, <1>4, <1>6, ListFinite
  <2> QED
    BY <1>1, <1>6, <2>1 DEF Cells
<1>8. Cells(Top(n))
  <2>1. DOMAIN Top(n) = 1..n /\ \A i \in 1..n : m + i \in 1..size
    BY <1>3, <1>4, <1>6, ListFinite
  <2> QED
    BY <1>1, <1>6, <2>1 DEF Cells
<1>9. \A i \in 1..n : stack[m + i] = Operand(n - i)
  <2> TAKE i \in 1..n
  <2>1. m + i = size - (n - i)
    BY <1>3, <1>4
  <2> QED
    BY <2>1 DEF Operand
<1>10. \A i \in 0..(n - 1) : WellMade(Operand(i)) /\ size - i \in DOMAIN stack
  <2> TAKE i \in 0..(n - 1)
  <2>1. size - i \in 1..size
    OBVIOUS
  <2> QED
    BY <1>1, <2>1 DEF Operand
<1>11. GoodList(stack)
  BY CellLists DEF IInv
<1>12. \A c : References(c, stack) = References(c, Below(n)) + References(c, Top(n))
  BY <1>3, <1>5, <1>11, ReferencesSplit
<1> QED
  BY <1>3, <1>4, <1>6, <1>7, <1>8, <1>9, <1>10, <1>12

LEMMA HasParts ==
  ASSUME IInv, NEW n \in Nat, Has(n)
  PROVE  \E size \in Nat : size = Len(stack) /\ n <= size
BY ListFinite DEF IInv, Cells, Has

(* The operands at the top, one after the other.                           *)
LEMMA TopNext ==
  ASSUME IInv, NEW n \in Nat, Has(n + 1), NEW c
  PROVE  References(c, Top(n + 1)) = One(c, Operand(n)) + References(c, Top(n))
<1>1. PICK size \in Nat : size = Len(stack) /\ n + 1 <= size
  BY HasParts
<1>2. PICK t : t = Top(n + 1)
  OBVIOUS
<1>3. /\ Cells(t) /\ Len(t) = n + 1
      /\ \A i \in 1..(n + 1) : t[i] = stack[size - (n + 1) + i] /\ t[i] = Operand(n + 1 - i)
  <2>1. PICK m \in Nat : m = n + 1
    OBVIOUS
  <2>2. /\ Cells(Top(m)) /\ Len(Top(m)) = m
        /\ \A i \in 1..m : Top(m)[i] = Operand(m - i) /\ Top(m)[i] = stack[size - m + i]
    BY <1>1, <2>1, StackParts
  <2> QED
    BY <1>2, <2>1, <2>2
<1>4. /\ Cells(Top(n)) /\ Len(Top(n)) = n /\ \A i \in 1..n : Top(n)[i] = stack[size - n + i]
  <2>1. n <= size
    BY <1>1
  <2> QED
    BY <1>1, <2>1, StackParts
<1>5. IsList(t) /\ GoodList(t) /\ 1 \in 0..(n + 1)
  BY <1>3, CellLists DEF Cells
<1>6. /\ IsList(SubSeq(t, 1, 1)) /\ Len(SubSeq(t, 1, 1)) = 1
      /\ \A i \in 1..1 : SubSeq(t, 1, 1)[i] = t[i]
      /\ IsList(SubSeq(t, 2, n + 1)) /\ Len(SubSeq(t, 2, n + 1)) = n
      /\ \A i \in 1..n : SubSeq(t, 2, n + 1)[i] = t[1 + i]
  <2>1. 1 + 1 = 2 /\ (n + 1) - 1 = n
    OBVIOUS
  <2> QED
    BY <1>3, <1>5, <2>1, ListSplit
<1>7. References(c, t) = References(c, SubSeq(t, 1, 1)) + References(c, SubSeq(t, 1 + 1, n + 1))
  BY <1>3, <1>5, ReferencesSplit
<1>8. SubSeq(t, 1, 1) = <<Operand(n)>>
  <2>1. t[1] = Operand(n)
    <3>1. n + 1 - 1 = n /\ 1 \in 1..(n + 1)
      OBVIOUS
    <3> QED
      BY <1>3, <3>1
  <2>2. PICK x : x = Operand(n)
    OBVIOUS
  <2>3. \A i \in 1..1 : SubSeq(t, 1, 1)[i] = <<x>>[i]
    BY <1>6, <2>1, <2>2
  <2>4. IsList(<<x>>) /\ Len(<<x>>) = 1 /\ 1 \in Nat
    BY OneElement
  <2>5. SubSeq(t, 1, 1) = <<x>>
    BY <1>6, <2>3, <2>4, ListsEqual
  <2> QED
    BY <2>2, <2>5
<1>9. SubSeq(t, 1 + 1, n + 1) = Top(n)
  <2>1. \A i \in 1..n : SubSeq(t, 2, n + 1)[i] = Top(n)[i]
    <3> TAKE i \in 1..n
    <3>1. 1 + i \in 1..(n + 1) /\ size - (n + 1) + (1 + i) = size - n + i
      BY <1>1
    <3>2. t[1 + i] = stack[size - n + i]
      BY <1>3, <3>1
    <3> QED
      BY <1>4, <1>6, <3>2
  <2>2. SubSeq(t, 2, n + 1) = Top(n)
    BY <1>4, <1>6, <2>1, ListsEqual DEF Cells
  <2> QED
    BY <2>2
<1>10. IsList(Operand(n).e)
  <2>1. n \in 0..((n + 1) - 1)
    OBVIOUS
  <2> QED
    BY <1>1, <2>1, StackParts, CellLists
<1> QED
  BY <1>2, <1>7, <1>8, <1>9, <1>10, ReferencesOne

LEMMA TopNone ==
  ASSUME IInv, NEW c, Has(0)
  PROVE  Below(0) = stack /\ References(c, Top(0)) = 0
<1>1. PICK size \in Nat : size = Len(stack) /\ 0 <= size
  BY HasParts
<1>2. IsList(Top(0)) /\ Len(Top(0)) = 0
  BY <1>1, StackParts DEF Cells
<1>3. Top(0) = <<>>
  <2>1. \A i \in 1..0 : Top(0)[i] = <<>>[i]
    OBVIOUS
  <2> QED
    BY <1>2, <2>1, EmptyList, ListsEqual
<1>4. Below(0) = stack
  <2>1. /\ IsList(Below(0)) /\ Len(Below(0)) = size - 0
    BY <1>1, StackParts DEF Cells
  <2>2. PICK S : stack \in Seq(S)
    BY DEF IInv, Cells, IsList
  <2>3. SubSeq(stack, 1, Len(stack)) = stack
    BY <2>2, SubSeqFull
  <2> QED
    BY <1>1, <2>3 DEF Below
<1> QED
  BY <1>3, <1>4, ReferencesEmpty

LEMMA TopOne ==
  ASSUME IInv, Has(1), NEW c
  PROVE  References(c, Top(1)) = One(c, Operand(0)) /\ One(c, Operand(0)) \in Nat
<1>1. Has(0)
  BY DEF Has
<1>2. 0 + 1 = 1
  OBVIOUS
<1>3. References(c, Top(1)) = One(c, Operand(0)) + References(c, Top(0))
  BY <1>2, TopNext
<1>4. PICK size \in Nat : size = Len(stack) /\ 1 <= size
  BY HasParts
<1>5. WellMade(Operand(0))
  BY <1>4, StackParts
<1>6. One(c, Operand(0)) \in Nat
  BY <1>5, CellLists, AtFinite
<1> QED
  BY <1>1, <1>3, <1>6, TopNone

LEMMA TopTwo ==
  ASSUME IInv, Has(2), NEW c
  PROVE  /\ References(c, Top(2)) = One(c, Operand(1)) + One(c, Operand(0))
         /\ One(c, Operand(0)) \in Nat /\ One(c, Operand(1)) \in Nat
<1>1. PICK size \in Nat : size = Len(stack) /\ 2 <= size
  BY HasParts
<1>2. Has(1)
  BY <1>1 DEF Has
<1>3. 1 + 1 = 2
  OBVIOUS
<1>4. References(c, Top(2)) = One(c, Operand(1)) + References(c, Top(1))
  BY <1>3, TopNext
<1>5. WellMade(Operand(1))
  BY <1>1, StackParts
<1>6. One(c, Operand(1)) \in Nat
  BY <1>5, CellLists, AtFinite
<1> QED
  BY <1>2, <1>4, <1>6, TopOne

LEMMA OperandValues ==
  ASSUME IInv, NEW n \in Nat, Values(n)
  PROVE  Has(n) /\ \A i \in 0..(n - 1) : IsValueCell(Operand(i)) /\ ~IsRaw(Operand(i))
<1>1. PICK size \in Nat : size = Len(stack) /\ n <= size
  BY HasParts DEF Values
<1>2. \A i \in 0..(n - 1) : WellMade(Operand(i))
  BY <1>1, StackParts
<1>3. \A c : WellMade(c) /\ c.k # "arr" => IsValueCell(c)
  BY CellFields DEF WellMade
<1> QED
  BY <1>2, <1>3 DEF Values, IsValue

-----------------------------------------------------------------------------
(* What operators do.                                                      *)

LEMMA CellsAppend ==
  ASSUME NEW s, Cells(s), NEW r, WellMade(r)
  PROVE  Cells(Append(s, r))
<1>1. PICK n \in Nat : n = Len(s) /\ DOMAIN s = 1..n
  BY ListFinite DEF Cells
<1>2. /\ IsList(Append(s, r)) /\ Len(Append(s, r)) = n + 1
      /\ \A i \in 1..n : Append(s, r)[i] = s[i]
      /\ Append(s, r)[n + 1] = r
  BY <1>1, ListAppend DEF Cells
<1>3. DOMAIN Append(s, r) = 1..(n + 1) /\ \A i \in 1..(n + 1) : i \in 1..n \/ i = n + 1
  BY <1>2, ListFinite
<1> QED
  BY <1>1, <1>2, <1>3 DEF Cells

LEMMA ClearedLoose ==
  ASSUME NEW s, LooseCells(s), NEW c, Shared(c)
  PROVE  LooseCells(Cleared(s)) /\ References(c, Cleared(s)) = References(c, s)
<1>1. LooseCells(<<>>)
  BY EmptyList DEF LooseCells
<1>2. LooseCells(Cleared(s))
  BY <1>1 DEF Cleared
<1> QED
  BY <1>2, CellLists, ClearedSame

LEMMA DoKeeps ==
  ASSUME IInv, NEW n \in Nat, Has(n), NEW r, WellMade(r),
         NEW np, PoolOK(np), NEW nps, PartialsOK(nps), NEW d, LooseCells(d),
         \A c : Shared(c) =>
           Rc(c, np, nps) + References(c, Top(n)) + References(c, SlotsOf(partials)) =
           Rc(c, pool, partials) + One(c, r) + References(c, d) + References(c, SlotsOf(nps)),
         Do(Append(Below(n), r), np, nps, d)
  PROVE  IInv'
<1>1. PICK size \in Nat : size = Len(stack) /\ n <= size
  BY HasParts
<1>2. /\ stack' = Append(Below(n), r) /\ pool' = np /\ partials' = nps /\ drop' = Cleared(d)
      /\ script' = script /\ env' = env /\ status' = status
      /\ drop = <<>>
  BY DEF Do, Has
<1>3. Cells(Below(n)) /\ Cells(Top(n))
      /\ \A c : References(c, stack) = References(c, Below(n)) + References(c, Top(n))
  BY <1>1, StackParts
<1>4. ASSUME NEW c, Shared(c)
      PROVE  Rc(c, pool', partials') + References(c, env) + References(c, stack)
               + References(c, drop) + References(c, SlotsOf(partials)) =
             Rc(c, pool, partials) + References(c, env') + References(c, stack')
               + References(c, drop') + References(c, SlotsOf(partials'))
  <2>1. PICK e \in Nat, sl \in Nat : e = References(c, env) /\ sl = References(c, SlotsOf(partials))
    BY AllCounted
  <2>2. PICK b \in Nat, t \in Nat : b = References(c, Below(n)) /\ t = References(c, Top(n))
    BY <1>3, CellLists, ListCounted
  <2>3. PICK o \in Nat : o = One(c, r)
    BY CellLists, AtFinite
  <2>4. PICK f \in Nat : f = References(c, d)
    BY ListCounted
  <2>5. PICK sm \in Nat : sm = References(c, SlotsOf(nps))
    BY SlotsGood
  <2>6. PICK rc1 \in Nat, rc2 \in Nat : rc1 = Rc(c, pool, partials) /\ rc2 = Rc(c, np, nps)
    BY <1>4, RcNumber DEF IInv
  <2>7. References(c, stack) = b + t
    BY <1>3, <2>2
  <2>8. References(c, stack') = b + o
    BY <1>2, <1>3, <2>2, <2>3, CellLists, ReferencesAppend
  <2>9. References(c, drop) = 0
    BY <1>2, ReferencesEmpty
  <2>10. References(c, drop') = f
    BY <1>2, <1>4, <2>4, ClearedLoose
  <2>11. rc2 + t + sl = rc1 + o + f + sm
    BY <1>4, <2>1, <2>2, <2>3, <2>4, <2>5, <2>6
  <2>12. rc2 + e + (b + t) + 0 + sl = rc1 + e + (b + o) + f + sm
    BY <2>11
  <2> QED
    BY <1>2, <2>1, <2>5, <2>6, <2>7, <2>8, <2>9, <2>10, <2>12
<1>5. Cells(stack')
  BY <1>2, <1>3, CellsAppend
<1>6. LooseCells(drop')
  <2>1. LooseCells(<<>>)
    BY EmptyList DEF LooseCells
  <2> QED
    BY <1>2, <2>1 DEF Cleared
<1> QED
  BY <1>2, <1>4, <1>5, <1>6, Keeps DEF IInv

LEMMA StopKeeps ==
  ASSUME IInv, NEW how \in {"error", "freed", "trap", "misbound"}, Stop(how)
  PROVE  IInv'
<1>1. /\ script' = script /\ env' = env /\ stack' = stack /\ pool' = pool
      /\ partials' = partials /\ drop' = drop /\ status' = how
  BY DEF Stop
<1>2. Balanced' = Balanced
  BY <1>1 DEF Balanced, Rc, AllReferences, Slots, Constant
<1> QED
  BY <1>1, <1>2 DEF IInv

LEMMA NotShared ==
  ASSUME NEW r, IsValueCell(r), ~Counted(r), NEW c, Shared(c)
  PROVE  One(c, r) = 0
<1>1. r # c
  BY SharedCells DEF Counted
<1> QED
  BY <1>1, FlatCells, OneFlat

LEMMA AnswerKeeps ==
  ASSUME IInv, NEW n \in Nat, Has(n), NEW r, IsValueCell(r), ~Counted(r), Answer(n, r)
  PROVE  IInv'
<1>1. PICK size \in Nat : size = Len(stack) /\ n <= size
  BY HasParts
<1>2. LooseCells(Top(n)) /\ WellMade(r)
  BY <1>1, StackParts, CellLists DEF WellMade
<1>3. ASSUME NEW c, Shared(c)
      PROVE  Rc(c, pool, partials) + References(c, Top(n)) + References(c, SlotsOf(partials)) =
             Rc(c, pool, partials) + One(c, r) + References(c, Top(n)) + References(c, SlotsOf(partials))
  <2>1. PICK t \in Nat, rc \in Nat : t = References(c, Top(n)) /\ rc = Rc(c, pool, partials)
    BY <1>2, <1>3, ListCounted, RcNumber DEF IInv
  <2>2. One(c, r) = 0
    BY <1>3, NotShared
  <2>3. rc + t = rc + 0 + t
    OBVIOUS
  <2> QED
    BY <2>1, <2>2, <2>3
<1> QED
  BY <1>2, <1>3, DoKeeps DEF IInv, Answer

LEMMA AnswerTextKeeps ==
  ASSUME IInv, NEW n \in Nat, Has(n), NEW s \in Seq(Bytes), AnswerText(n, s)
  PROVE  IInv'
<1>1. CASE Stop("freed")
  BY <1>1, StopKeeps
<1>2. CASE ~Stop("freed")
  <2>1. Len(s) <= MaxText /\ Do(Append(Below(n), Text(s)), Interned(s), partials, Top(n))
    BY <1>2 DEF AnswerText
  <2>2. PICK size \in Nat : size = Len(stack) /\ n <= size
    BY HasParts
  <2>3. LooseCells(Top(n)) /\ WellMade(Text(s))
    BY <2>1, <2>2, StackParts, CellLists, ValuesMade DEF WellMade
  <2>4. PoolOK(Interned(s))
    BY DEF IInv, PoolOK, Interned
  <2>5. ASSUME NEW c, Shared(c)
        PROVE  Rc(c, Interned(s), partials) + References(c, Top(n)) + References(c, SlotsOf(partials)) =
               Rc(c, pool, partials) + One(c, Text(s)) + References(c, Top(n))
                 + References(c, SlotsOf(partials))
    <3>1. PICK k \in Nat, rc \in Nat : k = References(c, Top(n)) /\ rc = Rc(c, pool, partials)
      BY <2>3, <2>5, ListCounted, RcNumber DEF IInv
    <3>2. One(c, Text(s)) = IF Text(s) = c THEN 1 ELSE 0
      BY CellFields, OneFlat
    <3>3. Rc(c, Interned(s), partials) = rc + One(c, Text(s))
      <4>1. ASSUME NEW x, c = Text(x), c.k = "text", c.v = x
            PROVE  Rc(c, Interned(s), partials) = rc + One(c, Text(s))
        <5>1. Text(s) = c <=> s = x
          BY <4>1, TextsApart
        <5>2. rc = IF x \in DOMAIN pool THEN pool[x] ELSE 0
          BY <3>1, <4>1 DEF Rc
        <5>3. Rc(c, Interned(s), partials) = IF x \in DOMAIN Interned(s) THEN Interned(s)[x] ELSE 0
          BY <4>1 DEF Rc
        <5>4. CASE s \in DOMAIN pool
          <6>1. Interned(s) = [pool EXCEPT ![s] = @ + 1]
            BY <5>4 DEF Interned
          <6> QED
            BY <3>2, <5>1, <5>2, <5>3, <5>4, <6>1
        <5>5. CASE s \notin DOMAIN pool
          <6>1. Interned(s) = [t \in DOMAIN pool \union {s} |-> IF t = s THEN 1 ELSE pool[t]]
            BY <5>5 DEF Interned
          <6> QED
            BY <3>2, <5>1, <5>2, <5>3, <5>5, <6>1
        <5> QED
          BY <5>4, <5>5
      <4>2. ASSUME c.k = "partial" PROVE Rc(c, Interned(s), partials) = rc + One(c, Text(s))
        <5>1. Text(s) # c
          BY <4>2, CellFields
        <5>2. Rc(c, Interned(s), partials) = rc
          BY <3>1, <4>2 DEF Rc
        <5> QED
          BY <3>2, <5>1, <5>2
      <4> QED
        BY <2>5, <4>1, <4>2, SharedCells
    <3>4. PICK o \in Nat : o = One(c, Text(s))
      BY <3>2
    <3>5. (rc + o) + k = rc + o + k
      OBVIOUS
    <3> QED
      BY <3>1, <3>3, <3>4, <3>5
  <2> QED
    BY <2>1, <2>3, <2>4, <2>5, DoKeeps DEF IInv
<1> QED
  BY <1>1, <1>2

-----------------------------------------------------------------------------
(* Copies.                                                                 *)

(* What cells refer to, cells or elements, is referred to.                 *)
LEMMA ReferencesSome ==
  ASSUME NEW f, Good(f), NEW x \in DOMAIN f, NEW c,
         f[x] = c \/ \E j \in DOMAIN f[x].e : f[x].e[j] = c
  PROVE  References(c, f) \in Nat /\ References(c, f) # 0
<1>1. PICK n \in Nat : n = Len(f[x].e) /\ DOMAIN f[x].e = 1..n
  BY ListFinite DEF Good
<1>2. \E j : j \in At(c, f[x])
  <2>1. CASE f[x] = c
    <3>1. 0 \in At(c, f[x])
      BY <1>1, <2>1 DEF At
    <3> QED
      BY <3>1
  <2>2. CASE \E j \in DOMAIN f[x].e : f[x].e[j] = c
    <3>1. PICK j \in 1..n : f[x].e[j] = c
      BY <1>1, <2>2
    <3>2. j \in 0..n /\ j # 0
      OBVIOUS
    <3>3. j \in At(c, f[x])
      BY <1>1, <3>1, <3>2 DEF At
    <3> QED
      BY <3>3
  <2> QED
    BY <2>1, <2>2
<1>3. PICK j \in At(c, f[x]) : TRUE
  BY <1>2
<1>4. <<x, j>> \in Places(c, f)
  BY PlacesAre
<1>5. IsFiniteSet(Places(c, f)) /\ References(c, f) \in Nat
  BY PlacesFinite
<1> QED
  BY <1>4, <1>5, FS_EmptySet DEF References

(* Strings and partial applications exist that cells refer to.             *)
Present(c) ==
  /\ c.k = "text" => c.v \in DOMAIN pool
  /\ c.k = "partial" => partials[N(c)] # Dead

LEMMA ReferredPresent ==
  ASSUME IInv, NEW c, Shared(c), AllReferences(c) # 0 \/ c \in script.values
  PROVE  Present(c)
<1>1. AllReferences(c) \in Nat
  BY AllCounted
<1>2. Constant(c) \in Nat /\ (c \in script.values => Constant(c) = 1)
  BY DEF Constant
<1>3. Rc(c, pool, partials) = AllReferences(c) + Constant(c)
  BY DEF IInv, Balanced
<1>4. Rc(c, pool, partials) # 0
  BY <1>1, <1>2, <1>3
<1>5. c.k = "text" => c.v \in DOMAIN pool
  BY <1>4 DEF Rc
<1>6. Dead.rc = 0
  BY DEF Dead
<1>7. c.k = "partial" => partials[N(c)] # Dead
  BY <1>4, <1>6 DEF Rc
<1> QED
  BY <1>5, <1>7 DEF Present

LEMMA ValuesShared ==
  ASSUME NEW c, IsValueCell(c), c.k \in {"text", "partial"}
  PROVE  Shared(c)
BY ValueCells DEF Shared

LEMMA CellPresent ==
  ASSUME IInv, NEW c, IsValueCell(c),
         \/ c \in script.values
         \/ \E v \in script.vars : env[v] = c
         \/ \E i \in DOMAIN stack : stack[i] = c \/ \E j \in DOMAIN stack[i].e : stack[i].e[j] = c
         \/ \E i \in DOMAIN drop : drop[i] = c \/ \E j \in DOMAIN drop[i].e : drop[i].e[j] = c
         \/ \E p \in PartialIds : \E j \in DOMAIN partials[p].slots : partials[p].slots[j] = c
  PROVE  Present(c)
<1>1. CASE c.k \notin {"text", "partial"}
  BY <1>1 DEF Present
<1>2. CASE c.k \in {"text", "partial"}
  <2>1. Shared(c)
    BY <1>2, ValuesShared
  <2>2. CASE c \in script.values
    BY <2>1, <2>2, ReferredPresent
  <2>3. /\ References(c, env) \in Nat /\ References(c, stack) \in Nat
        /\ References(c, drop) \in Nat /\ References(c, SlotsOf(partials)) \in Nat
        /\ AllReferences(c) = References(c, env) + References(c, stack)
                                + References(c, drop) + References(c, SlotsOf(partials))
    BY AllCounted
  <2>4. ASSUME \/ References(c, env) # 0 \/ References(c, stack) # 0
               \/ References(c, drop) # 0 \/ References(c, SlotsOf(partials)) # 0
        PROVE  Present(c)
    <3>1. PICK a \in Nat, b \in Nat, d \in Nat, e \in Nat :
            /\ a = References(c, env) /\ b = References(c, stack)
            /\ d = References(c, drop) /\ e = References(c, SlotsOf(partials))
      BY <2>3
    <3>2. a + b + d + e # 0
      BY <2>4, <3>1
    <3>3. AllReferences(c) # 0
      BY <2>3, <3>1, <3>2
    <3> QED
      BY <2>1, <3>3, ReferredPresent
  <2>5. CASE \E v \in script.vars : env[v] = c
    <3>1. Good(env) /\ DOMAIN env = script.vars
      BY EnvGood DEF IInv
    <3>2. References(c, env) # 0
      BY <2>5, <3>1, ReferencesSome
    <3> QED
      BY <2>4, <3>2
  <2>6. CASE \E i \in DOMAIN stack : stack[i] = c \/ \E j \in DOMAIN stack[i].e : stack[i].e[j] = c
    <3>1. Good(stack)
      BY CellLists, GoodLists DEF IInv
    <3>2. References(c, stack) # 0
      BY <2>6, <3>1, ReferencesSome
    <3> QED
      BY <2>4, <3>2
  <2>7. CASE \E i \in DOMAIN drop : drop[i] = c \/ \E j \in DOMAIN drop[i].e : drop[i].e[j] = c
    <3>1. Good(drop)
      BY CellLists, GoodLists DEF IInv
    <3>2. References(c, drop) # 0
      BY <2>7, <3>1, ReferencesSome
    <3> QED
      BY <2>4, <3>2
  <2>8. CASE \E p \in PartialIds : \E j \in DOMAIN partials[p].slots : partials[p].slots[j] = c
    <3>1. PICK p \in PartialIds : \E j \in DOMAIN partials[p].slots : partials[p].slots[j] = c
      BY <2>8
    <3>2. Good(SlotsOf(partials))
      BY SlotsGood DEF IInv
    <3>3. p \in DOMAIN SlotsOf(partials) /\ SlotsOf(partials)[p].e = partials[p].slots
      BY CellFields DEF SlotsOf
    <3>4. References(c, SlotsOf(partials)) # 0
      BY <3>1, <3>2, <3>3, ReferencesSome
    <3> QED
      BY <2>4, <3>4
  <2> QED
    BY <2>2, <2>5, <2>6, <2>7, <2>8
<1> QED
  BY <1>1, <1>2

LEMMA OperandPresent ==
  ASSUME IInv, NEW n \in Nat, Values(n)
  PROVE  \A i \in 0..(n - 1) : IsValueCell(Operand(i)) /\ Present(Operand(i)) /\ ~IsRaw(Operand(i))
<1> TAKE i \in 0..(n - 1)
<1>1. Has(n) /\ IsValueCell(Operand(i)) /\ ~IsRaw(Operand(i))
  BY OperandValues
<1>2. PICK size \in Nat : size = Len(stack) /\ n <= size
  BY <1>1, HasParts
<1>3. size - i \in DOMAIN stack
  BY <1>2, StackParts
<1>4. Operand(i) = stack[size - i]
  BY <1>2 DEF Operand
<1>5. \E j \in DOMAIN stack : stack[j] = Operand(i) \/ \E k \in DOMAIN stack[j].e : stack[j].e[k] = Operand(i)
  BY <1>3, <1>4
<1> QED
  BY <1>1, <1>5, CellPresent

(* Cells that may be copied when there are partial applications ps.        *)
MayCopy(cells, ps) ==
  /\ Flat(cells)
  /\ \A i \in DOMAIN cells :
       /\ cells[i].k = "text" => cells[i].v \in DOMAIN pool
       /\ cells[i].k = "partial" => ps[N(cells[i])] # Dead

LEMMA NotReferred ==
  ASSUME NEW s, Flat(s), NEW c, \A i \in DOMAIN s : s[i] # c
  PROVE  References(c, s) = 0
<1>1. \A i \in DOMAIN s : At(c, s[i]) = {}
  <2> TAKE i \in DOMAIN s
  <2>1. s[i].e = <<>>
    BY FlatCells DEF Flat
  <2>2. At(c, s[i]) = {j \in 0..0 : IF j = 0 THEN s[i] = c ELSE s[i].e[j] = c}
    BY <2>1, EmptyList DEF At
  <2> QED
    BY <2>2
<1> QED
  BY <1>1, ReferencesNone

LEMMA Copying ==
  ASSUME PoolOK(pool), NEW ps, PartialsOK(ps), NEW cells, MayCopy(cells, ps)
  PROVE  /\ PoolOK(PoolCopying(cells)) /\ PartialsOK(PartialsCopying(ps, cells))
         /\ SlotsOf(PartialsCopying(ps, cells)) = SlotsOf(ps)
         /\ \A c : Shared(c) =>
              Rc(c, PoolCopying(cells), PartialsCopying(ps, cells)) =
                Rc(c, pool, ps) + References(c, cells)
<1>1. Flat(cells) /\ \A c : References(c, cells) \in Nat
  BY CellLists, ListCounted DEF MayCopy
<1>2. PoolOK(PoolCopying(cells))
  <2>1. ASSUME NEW s \in DOMAIN pool PROVE pool[s] + References(Text(s), cells) \in Nat \ {0}
    <3>1. PICK a \in Nat, b \in Nat : a = pool[s] /\ b = References(Text(s), cells) /\ a # 0
      BY <1>1, <2>1 DEF PoolOK
    <3> QED
      BY <3>1
  <2> QED
    BY <2>1 DEF PoolOK, PoolCopying
<1> DEFINE new == PartialsCopying(ps, cells)
<1>3. \A p \in PartialIds : new[p] = [ps[p] EXCEPT !.rc = @ + References(Partial(p), cells)]
  BY DEF PartialsCopying
<1>4. new = [p \in PartialIds |-> new[p]]
  BY DEF PartialsCopying
<1>5. ASSUME NEW p \in PartialIds, ps[p] = Dead PROVE References(Partial(p), cells) = 0
  <2>1. \A i \in DOMAIN cells : cells[i] # Partial(p)
    BY <1>5, CellFields DEF MayCopy
  <2> QED
    BY <1>1, <2>1, NotReferred
<1> HIDE DEF new
<1>6. ASSUME NEW p \in PartialIds
      PROVE  /\ PartialOK(new[p]) /\ new[p].slots = ps[p].slots
             /\ new[p].rc = ps[p].rc + References(Partial(p), cells)
  <2>1. PICK r \in Nat : r = References(Partial(p), cells)
    BY <1>1
  <2>2. new[p] = [ps[p] EXCEPT !.rc = @ + r]
    BY <1>3, <2>1
  <2>3. CASE ps[p] = Dead
    <3>1. r = 0
      BY <1>5, <2>1, <2>3
    <3>2. new[p] = Dead
      BY <2>2, <2>3, <3>1 DEF Dead
    <3> QED
      BY <2>1, <2>3, <3>1, <3>2 DEF PartialOK, Dead
  <2>4. CASE ps[p] # Dead
    <3>1. /\ ps[p] = [rc |-> ps[p].rc, f |-> ps[p].f, nargs |-> ps[p].nargs, slots |-> ps[p].slots]
          /\ ps[p].rc \in Nat \ {0} /\ ps[p].f \in DOMAIN Functions
          /\ SlotsOK(ps[p].f, ps[p].nargs, ps[p].slots)
      BY <2>4 DEF PartialsOK, PartialOK
    <3>2. PICK rc, f, nargs, slots :
            /\ rc = ps[p].rc /\ f = ps[p].f /\ nargs = ps[p].nargs /\ slots = ps[p].slots
      OBVIOUS
    <3>3. ps[p] = [rc |-> rc, f |-> f, nargs |-> nargs, slots |-> slots]
      BY <3>1, <3>2
    <3>4. new[p] = [rc |-> rc + r, f |-> f, nargs |-> nargs, slots |-> slots]
      BY <2>2, <3>3
    <3>5. rc + r \in Nat \ {0}
      BY <3>1, <3>2
    <3> QED
      BY <2>1, <3>1, <3>2, <3>4, <3>5 DEF PartialOK
  <2> QED
    BY <2>3, <2>4
<1>7. PartialsOK(new)
  BY <1>4, <1>6 DEF PartialsOK
<1>8. SlotsOf(new) = SlotsOf(ps)
  BY <1>6 DEF SlotsOf
<1>9. ASSUME NEW c, Shared(c)
      PROVE  Rc(c, PoolCopying(cells), new) = Rc(c, pool, ps) + References(c, cells)
  <2>1. ASSUME NEW s, c = Text(s), c.k = "text", c.v = s
        PROVE  Rc(c, PoolCopying(cells), new) = Rc(c, pool, ps) + References(c, cells)
    <3>1. CASE s \in DOMAIN pool
      <4>1. Rc(c, pool, ps) = pool[s]
        BY <2>1, <3>1 DEF Rc
      <4>2. Rc(c, PoolCopying(cells), new) = pool[s] + References(Text(s), cells)
        BY <2>1, <3>1 DEF Rc, PoolCopying
      <4> QED
        BY <2>1, <4>1, <4>2
    <3>2. CASE s \notin DOMAIN pool
      <4>1. Rc(c, pool, ps) = 0 /\ Rc(c, PoolCopying(cells), new) = 0
        BY <2>1, <3>2 DEF Rc, PoolCopying
      <4>2. \A i \in DOMAIN cells : cells[i] # c
        BY <2>1, <3>2 DEF MayCopy
      <4> QED
        BY <1>1, <4>1, <4>2, NotReferred
    <3> QED
      BY <3>1, <3>2
  <2>2. ASSUME NEW p \in PartialIds, c = Partial(p), c.k = "partial", N(c) = p
        PROVE  Rc(c, PoolCopying(cells), new) = Rc(c, pool, ps) + References(c, cells)
    BY <1>6, <2>2 DEF Rc
  <2> QED
    BY <1>9, <2>1, <2>2, SharedCells
<1> QED
  BY <1>2, <1>7, <1>8, <1>9 DEF new

(* A copy is pushed.                                                       *)
LEMMA CopyKeeps ==
  ASSUME IInv, Has(0), NEW c, IsValueCell(c), Present(c), Copy(c)
  PROVE  IInv'
<1>1. MayCopy(<<c>>, partials)
  <2>1. \A i \in DOMAIN <<c>> : <<c>>[i] = c
    BY OneElement
  <2> QED
    BY <2>1, OneElement DEF MayCopy, Flat, Present
<1>2. Below(0) = stack /\ LooseCells(<<>>) /\ WellMade(c)
  BY TopNone, EmptyList DEF LooseCells, WellMade
<1>3. /\ PoolOK(PoolCopying(<<c>>)) /\ PartialsOK(PartialsCopying(partials, <<c>>))
      /\ SlotsOf(PartialsCopying(partials, <<c>>)) = SlotsOf(partials)
  BY <1>1, Copying DEF IInv
<1>4. ASSUME NEW d, Shared(d)
      PROVE  Rc(d, PoolCopying(<<c>>), PartialsCopying(partials, <<c>>)) + References(d, Top(0))
               + References(d, SlotsOf(partials)) =
             Rc(d, pool, partials) + One(d, c) + References(d, <<>>)
               + References(d, SlotsOf(PartialsCopying(partials, <<c>>)))
  <2>1. References(d, Top(0)) = 0 /\ References(d, <<>>) = 0
    BY TopNone, ReferencesEmpty
  <2>2. References(d, <<c>>) = One(d, c)
    BY <1>2, CellLists, ReferencesOne
  <2>3. Rc(d, PoolCopying(<<c>>), PartialsCopying(partials, <<c>>)) = Rc(d, pool, partials) + One(d, c)
    BY <1>1, <1>4, <2>2, Copying DEF IInv
  <2>4. PICK rc \in Nat, o \in Nat : rc = Rc(d, pool, partials) /\ o = One(d, c)
    BY <1>2, <1>4, RcNumber, CellLists, AtFinite DEF IInv
  <2>5. (rc + o) + 0 = rc + o + 0
    OBVIOUS
  <2> QED
    BY <1>3, <2>1, <2>3, <2>4, <2>5
<1>5. Do(Append(Below(0), c), PoolCopying(<<c>>), PartialsCopying(partials, <<c>>), <<>>)
  BY <1>2 DEF Copy
<1> QED
  BY <1>2, <1>3, <1>4, <1>5, 0 \in Nat, DoKeeps

-----------------------------------------------------------------------------
(* Functions.                                                              *)

LEMMA FreePartial ==
  ASSUME IInv, Free # {}
  PROVE  NewPartial \in PartialIds /\ partials[NewPartial] = Dead
<1>1. Free \in SUBSET Nat
  BY OperandAssumption DEF Free, PartialIds
<1>2. NewPartial \in Free
  BY <1>1, FirstIs DEF NewPartial
<1> QED
  BY <1>2, PartialSlots DEF Free, IInv, PartialsOK

(* A new partial application, with nobody but its owner referring to it.   *)
Made(p, new, ps) == ps = [partials EXCEPT ![p] = new]

LEMMA NewKeeps ==
  ASSUME PartialsOK(partials), PoolOK(pool), NEW p \in PartialIds, partials[p] = Dead,
         NEW new, PartialOK(new), new.rc = 1, NEW ps, Made(p, new, ps)
  PROVE  /\ PartialsOK(ps)
         /\ \A c : Shared(c) =>
              /\ Rc(c, pool, ps) = Rc(c, pool, partials) + One(c, Partial(p))
              /\ References(c, SlotsOf(ps)) = References(c, SlotsOf(partials)) + References(c, new.slots)
<1>1. PICK slots : slots = new.slots
  OBVIOUS
<1>2. PartialOK(new)
  OBVIOUS
<1>3. /\ DOMAIN partials = PartialIds /\ DOMAIN ps = PartialIds
      /\ ps[p] = new /\ \A q \in PartialIds \ {p} : ps[q] = partials[q]
  BY DEF PartialsOK, Made
<1>4. ps = [q \in PartialIds |-> ps[q]]
  BY <1>3 DEF PartialsOK, Made
<1>5. PartialsOK(ps)
  BY <1>2, <1>3, <1>4 DEF PartialsOK
<1>6. ASSUME NEW c, Shared(c)
      PROVE  Rc(c, pool, ps) = Rc(c, pool, partials) + One(c, Partial(p))
  <2>1. One(c, Partial(p)) = IF Partial(p) = c THEN 1 ELSE 0
    BY CellFields, OneFlat
  <2>2. Rc(c, pool, partials) \in Nat
    BY <1>6, RcNumber
  <2>3. ASSUME c.k = "text" PROVE Rc(c, pool, ps) = Rc(c, pool, partials) + One(c, Partial(p))
    <3>1. Partial(p) # c
      BY <2>3, CellFields
    <3>2. Rc(c, pool, ps) = Rc(c, pool, partials)
      BY <2>3 DEF Rc
    <3> QED
      BY <2>1, <2>2, <3>1, <3>2
  <2>4. ASSUME NEW q \in PartialIds, c = Partial(q), c.k = "partial", N(c) = q
        PROVE  Rc(c, pool, ps) = Rc(c, pool, partials) + One(c, Partial(p))
    <3>1. Rc(c, pool, ps) = ps[q].rc /\ Rc(c, pool, partials) = partials[q].rc
      BY <2>4 DEF Rc
    <3>2. Dead.rc = 0
      BY DEF Dead
    <3>3. CASE q = p
      BY <1>3, <2>1, <2>4, <3>1, <3>2, <3>3
    <3>4. CASE q # p
      <4>1. Partial(p) # c
        BY <2>4, <3>4, PartialsApart
      <4> QED
        BY <1>3, <2>1, <2>2, <3>1, <3>4, <4>1
    <3> QED
      BY <3>3, <3>4
  <2> QED
    BY <1>6, <2>3, <2>4, SharedCells
<1>7. ASSUME NEW c, Shared(c)
      PROVE  References(c, SlotsOf(ps)) = References(c, SlotsOf(partials)) + References(c, slots)
  <2>1. Good(SlotsOf(partials)) /\ Good(SlotsOf(ps))
    BY <1>5, SlotsGood
  <2>2. /\ DOMAIN SlotsOf(ps) = DOMAIN SlotsOf(partials) /\ p \in DOMAIN SlotsOf(partials)
        /\ \A q \in DOMAIN SlotsOf(partials) \ {p} : SlotsOf(ps)[q] = SlotsOf(partials)[q]
        /\ SlotsOf(ps)[p] = Arr(slots) /\ SlotsOf(partials)[p] = Arr(<<>>)
    BY <1>1, <1>3 DEF SlotsOf, Dead
  <2>3. References(c, SlotsOf(ps)) + One(c, Arr(<<>>)) = References(c, SlotsOf(partials)) + One(c, Arr(slots))
    <3>1. PICK g, h : g = SlotsOf(partials) /\ h = SlotsOf(ps)
      OBVIOUS
    <3>2. Good(g) /\ Good(h) /\ DOMAIN h = DOMAIN g /\ p \in DOMAIN g
      BY <2>1, <2>2, <3>1
    <3>3. \A q \in DOMAIN g \ {p} : h[q] = g[q]
      BY <2>2, <3>1
    <3>4. References(c, h) + One(c, g[p]) = References(c, g) + One(c, h[p])
      BY <3>2, <3>3, ReferencesChange
    <3> QED
      BY <2>2, <3>1, <3>4
  <2>4. Flat(slots) /\ Flat(<<>>)
    BY <1>1, <1>2, PartialSlots, EmptyList DEF Flat
  <2>5. One(c, Arr(<<>>)) = 0 /\ One(c, Arr(slots)) = References(c, slots)
    BY <1>7, <2>4, OneArray, ReferencesEmpty
  <2>6. PICK a \in Nat, b \in Nat, d \in Nat :
          /\ a = References(c, SlotsOf(ps)) /\ b = References(c, SlotsOf(partials))
          /\ d = References(c, slots)
    BY <1>5, <2>4, SlotsGood, CellLists, ListCounted
  <2>7. a + 0 = b + d
    BY <2>3, <2>5, <2>6
  <2> QED
    BY <2>6, <2>7
<1> QED
  BY <1>1, <1>5, <1>6, <1>7

(* A call gives what its function returns, a copy of a cell of its frame.  *)
LEMMA ReturnsKeeps ==
  ASSUME IInv, NEW n \in Nat, Has(n), NEW f \in DOMAIN Functions,
         NEW frame, IsList(frame), Len(frame) = Functions[f].arguments + Functions[f].captures,
         \A i \in DOMAIN frame : IsValueCell(frame[i]),
         NEW ps, PartialsOK(ps), MayCopy(frame, ps), NEW copied, MayCopy(copied, ps),
         NEW d, LooseCells(d),
         \A c : Shared(c) =>
           Rc(c, pool, ps) + References(c, copied) + References(c, Top(n))
             + References(c, SlotsOf(partials)) =
           Rc(c, pool, partials) + References(c, d) + References(c, SlotsOf(ps)),
         Returns(n, f, frame, ps, copied, d)
  PROVE  IInv'
<1>1. PICK r : r = IF Functions[f].returns = 0 THEN Null ELSE frame[Functions[f].returns]
  OBVIOUS
<1>2. IsValueCell(r) /\ (r.k = "text" => r.v \in DOMAIN pool) /\ (r.k = "partial" => ps[N(r)] # Dead)
  <2>1. CASE Functions[f].returns = 0
    BY <1>1, <2>1, ValuesMade, CellFields
  <2>2. CASE Functions[f].returns # 0
    <3>1. PICK size \in Nat : size = Functions[f].arguments + Functions[f].captures
      BY FunctionShape
    <3>2. Functions[f].returns \in 0..size
      BY <3>1, FunctionShape
    <3>3. Functions[f].returns \in 1..size
      BY <2>2, <3>2
    <3>4. Functions[f].returns \in DOMAIN frame
      BY <3>1, <3>3, ListFinite
    <3> QED
      BY <1>1, <2>2, <3>4 DEF MayCopy
  <2> QED
    BY <2>1, <2>2
<1>3. PICK cells : cells = Append(copied, r)
  OBVIOUS
<1>4. MayCopy(cells, ps)
  <2>1. PICK m \in Nat : m = Len(copied) /\ DOMAIN copied = 1..m
    BY ListFinite DEF MayCopy, Flat
  <2>2. /\ IsList(cells) /\ Len(cells) = m + 1
        /\ \A i \in 1..m : cells[i] = copied[i]
        /\ cells[m + 1] = r
    BY <1>3, <2>1, ListAppend DEF MayCopy, Flat
  <2>3. DOMAIN cells = 1..(m + 1) /\ \A i \in 1..(m + 1) : i \in 1..m \/ i = m + 1
    BY <2>2, ListFinite
  <2> QED
    BY <1>2, <2>1, <2>2, <2>3 DEF MayCopy, Flat
<1>5. WellMade(r)
  BY <1>2 DEF WellMade
<1>6. Do(Append(Below(n), r), PoolCopying(cells), PartialsCopying(ps, cells), d)
  BY <1>1, <1>3 DEF Returns
<1>7. /\ PoolOK(PoolCopying(cells)) /\ PartialsOK(PartialsCopying(ps, cells))
      /\ SlotsOf(PartialsCopying(ps, cells)) = SlotsOf(ps)
      /\ \A c : Shared(c) =>
           Rc(c, PoolCopying(cells), PartialsCopying(ps, cells)) = Rc(c, pool, ps) + References(c, cells)
  BY <1>4, Copying DEF IInv
<1>8. ASSUME NEW c, Shared(c)
      PROVE  Rc(c, PoolCopying(cells), PartialsCopying(ps, cells)) + References(c, Top(n))
               + References(c, SlotsOf(partials)) =
             Rc(c, pool, partials) + One(c, r) + References(c, d)
               + References(c, SlotsOf(PartialsCopying(ps, cells)))
  <2>1. GoodList(copied) /\ IsList(r.e) /\ References(c, copied) \in Nat
    BY <1>5, CellLists, ListCounted DEF MayCopy
  <2>2. References(c, cells) = References(c, copied) + One(c, r) /\ One(c, r) \in Nat
    BY <1>3, <2>1, ReferencesAppend, AtFinite
  <2>3. PICK size \in Nat : size = Len(stack) /\ n <= size
    BY HasParts
  <2>4. PICK k \in Nat, o \in Nat, t \in Nat, a \in Nat, b \in Nat, x \in Nat :
          /\ k = References(c, copied) /\ o = One(c, r) /\ t = References(c, Top(n))
          /\ a = References(c, SlotsOf(partials)) /\ b = References(c, SlotsOf(ps))
          /\ x = References(c, d)
    <3>1. References(c, Top(n)) \in Nat
      BY <2>3, StackParts, CellLists, ListCounted
    <3> QED
      BY <2>1, <2>2, <3>1, SlotsGood, ListCounted DEF IInv
  <2>5. PICK rc1 \in Nat, rc2 \in Nat : rc1 = Rc(c, pool, partials) /\ rc2 = Rc(c, pool, ps)
    BY <1>8, RcNumber DEF IInv
  <2>6. rc2 + k + t + a = rc1 + x + b
    BY <1>8, <2>4, <2>5
  <2>7. (rc2 + (k + o)) + t + a = rc1 + o + x + b
    BY <2>6
  <2>8. Rc(c, PoolCopying(cells), PartialsCopying(ps, cells)) = rc2 + (k + o)
    BY <1>7, <1>8, <2>2, <2>4, <2>5
  <2> QED
    BY <1>7, <2>4, <2>5, <2>7, <2>8
<1> QED
  BY <1>5, <1>6, <1>7, <1>8, DoKeeps

LEMMA RawCaptures ==
  ASSUME NEW c, IsValueCell(c), c.k = "func"
  PROVE  N(c) \in DOMAIN Functions /\ (~IsRaw(c) => Functions[N(c)].captures = 0)
<1>1. N(c) \in DOMAIN Functions
  BY ValueCells
<1>2. Functions[N(c)].captures \in Nat
  BY <1>1, FunctionShape
<1> QED
  BY <1>1, <1>2 DEF IsRaw

(* What a partial application that is referred to looks like.              *)
LEMMA AlivePartial ==
  ASSUME IInv, NEW p \in PartialIds, partials[p] # Dead
  PROVE  /\ partials[p] = [rc |-> partials[p].rc, f |-> partials[p].f,
                           nargs |-> partials[p].nargs, slots |-> partials[p].slots]
         /\ partials[p].rc \in Nat \ {0} /\ partials[p].f \in DOMAIN Functions
         /\ SlotsOK(partials[p].f, partials[p].nargs, partials[p].slots)
         /\ MayCopy(partials[p].slots, partials)
<1>1. PartialOK(partials[p])
  BY DEF IInv, PartialsOK
<1>2. Flat(partials[p].slots)
  BY <1>1, PartialSlots
<1>3. ASSUME NEW i \in DOMAIN partials[p].slots, IsValueCell(partials[p].slots[i])
      PROVE  Present(partials[p].slots[i])
  BY <1>3, CellPresent
<1>4. None.k = "none"
  BY CellFields
<1>5. MayCopy(partials[p].slots, partials)
  BY <1>2, <1>3, <1>4 DEF MayCopy, Flat, Present
<1> QED
  BY <1>1, <1>5 DEF PartialOK

(* A cell can be bound to the first empty slot.                            *)
FirstEmpty(f, nargs) == Functions[f].arguments - nargs + 1

Filled(f, nargs, slots, x, new) == new = [slots EXCEPT ![FirstEmpty(f, nargs)] = x]

LEMMA SlotFilled ==
  ASSUME NEW f \in DOMAIN Functions, NEW nargs, NEW slots, SlotsOK(f, nargs, slots), nargs # 0,
         NEW x, IsValueCell(x), NEW new, Filled(f, nargs, slots, x, new)
  PROVE  /\ \A p : p.slots = slots => First(Empty(p)) = FirstEmpty(f, nargs)
         /\ SlotsOK(f, nargs - 1, new)
         /\ DOMAIN new = DOMAIN slots /\ \A j \in DOMAIN slots : new[j] = x \/ new[j] = slots[j]
         /\ \A c : Shared(c) => References(c, new) = References(c, slots) + One(c, x)
<1>1. PICK a \in Nat, k \in Nat : a = Functions[f].arguments /\ k = Functions[f].captures
  BY FunctionShape
<1>2. /\ nargs \in 0..a /\ IsList(slots) /\ Len(slots) = a + k
      /\ \A i \in DOMAIN slots : IF i \in (a - nargs + 1)..a THEN slots[i] = None ELSE IsValueCell(slots[i])
  BY <1>1 DEF SlotsOK
<1>3. DOMAIN slots = 1..(a + k)
  BY <1>2, ListFinite
<1>4. PICK i : i = a - nargs + 1 /\ i = FirstEmpty(f, nargs)
  BY <1>1 DEF FirstEmpty
<1>5. i \in 1..a /\ i \in 1..(a + k) /\ i \in (a - nargs + 1)..a /\ i \in Nat
  BY <1>2, <1>4
<1>6. slots[i] = None
  BY <1>2, <1>3, <1>5
<1>7. None.k = "none" /\ \A c : IsValueCell(c) => c # None
  BY CellFields, ValueCells
<1>8. ASSUME NEW p, p.slots = slots PROVE First(Empty(p)) = i
  <2>1. Empty(p) = (a - nargs + 1)..a
    <3>1. (a - nargs + 1)..a \subseteq 1..(a + k)
      BY <1>2
    <3> QED
      BY <1>2, <1>3, <1>7, <1>8, <3>1 DEF Empty
  <2>2. PICK T : T = Empty(p)
    OBVIOUS
  <2>3. T = i..a /\ T \in SUBSET Nat /\ T # {} /\ i \in T
    BY <1>4, <1>5, <2>1, <2>2
  <2>4. First(T) \in T /\ \A y \in T : First(T) <= y
    BY <2>3, FirstIs
  <2>5. PICK y : y = First(T)
    OBVIOUS
  <2>6. y \in i..a /\ y <= i
    BY <2>3, <2>4, <2>5
  <2> QED
    BY <1>5, <2>2, <2>5, <2>6
<1>9. new = [slots EXCEPT ![i] = x]
  BY <1>4 DEF Filled
<1>10. /\ DOMAIN new = 1..(a + k) /\ new[i] = x
       /\ \A j \in 1..(a + k) \ {i} : new[j] = slots[j]
  BY <1>3, <1>5, <1>9
<1>11. IsList(new) /\ Len(new) = a + k
  <2>1. PICK S : slots \in Seq(S)
    BY <1>2 DEF IsList
  <2>2. PICK size \in Nat : size = a + k
    OBVIOUS
  <2>3. slots \in [1..size -> S]
    BY <1>2, <2>1, <2>2
  <2>4. new \in [1..size -> S \union {x}]
    BY <1>9, <2>3
  <2>5. new = [j \in 1..size |-> new[j]]
    BY ONLY <2>4
  <2> QED
    BY ONLY <2>2, <2>5, ListOf
<1>12. SlotsOK(f, nargs - 1, new)
  <2>1. nargs - 1 \in 0..a
    BY <1>2
  <2>2. \A j \in 1..(a + k) :
          IF j \in (a - (nargs - 1) + 1)..a THEN new[j] = None ELSE IsValueCell(new[j])
    <3> TAKE j \in 1..(a + k)
    <3>1. CASE j = i
      BY <1>2, <1>4, <1>10, <3>1
    <3>2. CASE j # i
      <4>1. j \in (a - (nargs - 1) + 1)..a <=> j \in (a - nargs + 1)..a
        BY <1>2, <1>4, <3>2
      <4> QED
        BY <1>2, <1>3, <1>10, <3>2, <4>1
    <3> QED
      BY <3>1, <3>2
  <2> QED
    BY <1>1, <1>10, <1>11, <2>1, <2>2 DEF SlotsOK
<1>13. ASSUME NEW c, Shared(c) PROVE References(c, new) = References(c, slots) + One(c, x)
  <2>1. GoodList(slots)
    BY <1>2, CellLists, FlatGood DEF Flat
  <2>2. \A j \in DOMAIN new : IsList(new[j].e)
    <3>1. \A j \in 1..(a + k) : new[j] = None \/ IsValueCell(new[j])
      BY <1>2, <1>3, <1>10
    <3> QED
      BY <1>10, <3>1, FlatCells, EmptyList
  <2>3. Good(slots) /\ Good(new)
    BY <1>11, <2>1, <2>2, GoodLists DEF GoodList
  <2>4. References(c, new) + One(c, slots[i]) = References(c, slots) + One(c, new[i])
    <3>1. DOMAIN new = DOMAIN slots /\ i \in DOMAIN slots /\ \A j \in DOMAIN slots \ {i} : new[j] = slots[j]
      BY <1>3, <1>5, <1>10
    <3> QED
      BY ONLY <2>3, <3>1, ReferencesChange
  <2>5. One(c, None) = 0
    <3>1. c # None
      BY <1>7, <1>13, SharedCells
    <3> QED
      BY <3>1, CellFields, OneFlat
  <2>6. PICK r \in Nat, s \in Nat, o \in Nat :
          r = References(c, new) /\ s = References(c, slots) /\ o = One(c, x)
    <3>1. IsList(x.e)
      BY FlatCells, EmptyList
    <3> QED
      BY <2>3, <3>1, PlacesFinite, AtFinite
  <2>7. r + 0 = s + o
    BY <1>6, <1>10, <2>4, <2>5, <2>6
  <2> QED
    BY <2>6, <2>7
<1> QED
  BY <1>3, <1>4, <1>8, <1>10, <1>12, <1>13

LEMMA BindIs ==
  ASSUME NEW p, p = [rc |-> p.rc, f |-> p.f, nargs |-> p.nargs, slots |-> p.slots],
         NEW x, NEW new, Filled(p.f, p.nargs, p.slots, x, new),
         First(Empty(p)) = FirstEmpty(p.f, p.nargs)
  PROVE  /\ Bind(p, x) = [rc |-> p.rc, f |-> p.f, nargs |-> p.nargs - 1, slots |-> new]
         /\ [Bind(p, x) EXCEPT !.rc = 1] = [rc |-> 1, f |-> p.f, nargs |-> p.nargs - 1, slots |-> new]
<1>1. PICK rc, f, nargs, slots, i :
        /\ rc = p.rc /\ f = p.f /\ nargs = p.nargs /\ slots = p.slots /\ i = FirstEmpty(p.f, p.nargs)
  OBVIOUS
<1>2. p = [rc |-> rc, f |-> f, nargs |-> nargs, slots |-> slots]
  BY <1>1
<1>3. Bind(p, x) = [p EXCEPT !.slots[i] = x, !.nargs = @ - 1]
  BY <1>1 DEF Bind
<1>4. Bind(p, x) = [rc |-> rc, f |-> f, nargs |-> nargs - 1, slots |-> [slots EXCEPT ![i] = x]]
  BY <1>2, <1>3
<1>5. new = [slots EXCEPT ![i] = x]
  BY <1>1 DEF Filled
<1> QED
  BY <1>1, <1>4, <1>5

LEMMA ApplyFuncKeeps ==
  ASSUME IInv, Values(2), Operand(1).k = "func", ApplyFunc(N(Operand(1)), Operand(0))
  PROVE  IInv'
<1>1. /\ IsValueCell(Operand(0)) /\ Present(Operand(0))
      /\ IsValueCell(Operand(1)) /\ ~IsRaw(Operand(1)) /\ Has(2)
  <2>1. 2 \in Nat /\ 0 \in 0..(2 - 1) /\ 1 \in 0..(2 - 1)
    OBVIOUS
  <2> QED
    BY <2>1, OperandPresent DEF Values
<1>2. PICK f, x : f = N(Operand(1)) /\ x = Operand(0)
  OBVIOUS
<1>3. f \in DOMAIN Functions /\ Functions[f].captures = 0 /\ Functions[f].arguments \in Nat
  BY <1>1, <1>2, RawCaptures, FunctionShape
<1>4. ASSUME NEW c, Shared(c)
      PROVE  References(c, Top(2)) = One(c, x) /\ One(c, x) \in Nat
  <2>1. ~Counted(Operand(1))
    BY DEF Counted
  <2>2. One(c, Operand(1)) = 0
    BY <1>1, <1>4, <2>1, NotShared
  <2>3. References(c, Top(2)) = One(c, Operand(1)) + One(c, x) /\ One(c, x) \in Nat
    BY <1>1, <1>2, TopTwo
  <2> QED
    BY <2>2, <2>3
<1>5. \A i \in DOMAIN <<x>> : <<x>>[i] = x
  BY OneElement
<1>6. MayCopy(<<x>>, partials) /\ ValueList(<<x>>)
  BY <1>1, <1>2, <1>5, OneElement DEF MayCopy, Flat, Present, ValueList
<1>7. CASE Functions[f].arguments = 0
  BY <1>2, <1>7, StopKeeps DEF ApplyFunc
<1>8. CASE Functions[f].arguments = 1
  <2>1. Returns(2, f, <<x>>, partials, <<>>, <<x>>)
    BY <1>2, <1>8 DEF ApplyFunc
  <2>2. MayCopy(<<>>, partials) /\ LooseCells(<<x>>)
    BY <1>6, EmptyList, CellLists DEF MayCopy, Flat
  <2>3. IsList(<<x>>) /\ Len(<<x>>) = Functions[f].arguments + Functions[f].captures
    BY <1>3, <1>8, OneElement
  <2>4. ASSUME NEW c, Shared(c)
        PROVE  Rc(c, pool, partials) + References(c, <<>>) + References(c, Top(2))
                 + References(c, SlotsOf(partials)) =
               Rc(c, pool, partials) + References(c, <<x>>) + References(c, SlotsOf(partials))
    <3>1. References(c, <<>>) = 0
      BY ReferencesEmpty
    <3>2. References(c, <<x>>) = One(c, x)
      BY <1>1, <1>2, FlatCells, EmptyList, ReferencesOne
    <3>3. PICK o \in Nat, rc \in Nat : o = One(c, x) /\ rc = Rc(c, pool, partials)
      BY <1>4, <2>4, RcNumber DEF IInv
    <3>4. rc + 0 + o = rc + o
      OBVIOUS
    <3> QED
      BY <1>4, <2>4, <3>1, <3>2, <3>3, <3>4
  <2>5. \A i \in DOMAIN <<x>> : IsValueCell(<<x>>[i])
    BY <1>1, <1>2, <1>5
  <2>6. PartialsOK(partials) /\ 2 \in Nat /\ Has(2)
    BY <1>1 DEF IInv
  <2> QED
    BY <1>3, <1>6, <2>1, <2>2, <2>3, <2>4, <2>5, <2>6, ReturnsKeeps
<1>9. CASE Functions[f].arguments \notin {0, 1}
  <2>1. /\ Free # {}
        /\ Do(Append(Below(2), Partial(NewPartial)), pool,
              [partials EXCEPT ![NewPartial] = Bind(Unapplied(f), x)], <<>>)
    BY <1>2, <1>9 DEF ApplyFunc
  <2>2. PICK p \in PartialIds : p = NewPartial /\ partials[p] = Dead
    BY <2>1, FreePartial
  <2>3. PICK a \in Nat : a = Functions[f].arguments /\ a # 0
    BY <1>3, <1>9
  <2>4. PICK none : none = [i \in 1..a |-> None]
    OBVIOUS
  <2>5. /\ DOMAIN none = 1..a /\ IsList(none) /\ Len(none) = a
        /\ \A i \in 1..a : none[i] = None
    <3>1. none = [i \in 1..a |-> none[i]]
      BY <2>4
    <3> QED
      BY <2>4, <3>1, ListOf
  <2>6. SlotsOK(f, a, none)
    <3>1. a \in 0..a /\ a + 0 = a /\ \A i \in 1..a : i \in (a - a + 1)..a
      OBVIOUS
    <3> QED
      BY <1>3, <2>3, <2>5, <3>1 DEF SlotsOK
  <2>7. PICK u : u = Unapplied(f)
    OBVIOUS
  <2>8. /\ u = [rc |-> u.rc, f |-> u.f, nargs |-> u.nargs, slots |-> u.slots]
        /\ u.rc = 1 /\ u.f = f /\ u.nargs = a /\ u.slots = none
    BY <1>3, <2>3, <2>4, <2>7 DEF Unapplied
  <2>9. PICK slots : Filled(f, a, none, x, slots)
    BY DEF Filled
  <2>10. /\ First(Empty(u)) = FirstEmpty(f, a) /\ SlotsOK(f, a - 1, slots)
         /\ \A c : Shared(c) => References(c, slots) = References(c, none) + One(c, x)
    BY <1>1, <1>2, <1>3, <2>3, <2>6, <2>8, <2>9, SlotFilled
  <2>11. PICK new : new = Bind(Unapplied(f), x)
    OBVIOUS
  <2>12. PICK ps : ps = [partials EXCEPT ![p] = new]
    OBVIOUS
  <2>13. /\ PartialsOK(ps)
         /\ \A c : Shared(c) =>
              /\ Rc(c, pool, ps) = Rc(c, pool, partials) + One(c, Partial(p))
              /\ References(c, SlotsOf(ps)) = References(c, SlotsOf(partials)) + References(c, slots)
    <3>1. new = [rc |-> 1, f |-> f, nargs |-> a - 1, slots |-> slots]
      <4>1. Filled(u.f, u.nargs, u.slots, x, slots) /\ First(Empty(u)) = FirstEmpty(u.f, u.nargs)
        BY <2>8, <2>9, <2>10
      <4>2. Bind(u, x) = [rc |-> u.rc, f |-> u.f, nargs |-> u.nargs - 1, slots |-> slots]
        BY ONLY <2>8, <4>1, BindIs
      <4> QED
        BY <2>7, <2>8, <2>11, <4>2
    <3>2. new.rc = 1 /\ new.f = f /\ new.nargs = a - 1 /\ new.slots = slots
      BY <3>1
    <3>3. PartialOK(new)
      BY <1>3, <2>10, <3>1, <3>2 DEF PartialOK
    <3>4. PartialsOK(partials) /\ PoolOK(pool) /\ partials[p] = Dead /\ Made(p, new, ps)
      BY <2>2, <2>12 DEF IInv, Made
    <3> QED
      BY <3>2, <3>3, <3>4, NewKeeps
  <2>14. ASSUME NEW c, Shared(c)
         PROVE  Rc(c, pool, ps) + References(c, Top(2)) + References(c, SlotsOf(partials)) =
                Rc(c, pool, partials) + One(c, Partial(p)) + References(c, <<>>) + References(c, SlotsOf(ps))
    <3>1. References(c, none) = 0
      <4>1. \A j \in DOMAIN none : none[j] # c
        BY <2>5, <2>14, SharedCells, CellFields
      <4>2. Flat(none)
        BY <2>5 DEF Flat
      <4> QED
        BY <4>1, <4>2, NotReferred
    <3>2. PICK rc \in Nat, o \in Nat, e \in Nat, s \in Nat :
            /\ rc = Rc(c, pool, partials) /\ o = One(c, x) /\ e = One(c, Partial(p))
            /\ s = References(c, SlotsOf(partials))
      <4>1. One(c, Partial(p)) \in Nat
        BY CellFields, EmptyList, AtFinite
      <4> QED
        BY <1>4, <2>14, <4>1, RcNumber, SlotsGood DEF IInv
    <3>3. References(c, slots) = o
      BY <2>10, <2>14, <3>1, <3>2
    <3>4. References(c, SlotsOf(ps)) = s + o /\ Rc(c, pool, ps) = rc + e
      BY <2>13, <2>14, <3>2, <3>3
    <3>5. (rc + e) + o + s = rc + e + 0 + (s + o)
      OBVIOUS
    <3> QED
      BY <1>4, <2>14, <3>2, <3>4, <3>5, ReferencesEmpty
  <2>15. LooseCells(<<>>) /\ WellMade(Partial(p)) /\ PoolOK(pool) /\ 2 \in Nat
    BY EmptyList, ValuesMade DEF LooseCells, WellMade, IInv
  <2>16. Do(Append(Below(2), Partial(p)), pool, ps, <<>>)
    BY <2>1, <2>2, <2>11, <2>12
  <2> QED
    BY <1>1, <2>13, <2>14, <2>15, <2>16, DoKeeps
<1> QED
  BY <1>3, <1>7, <1>8, <1>9

LEMMA ApplyPartialKeeps ==
  ASSUME IInv, Values(2), Operand(1).k = "partial", ApplyPartial(Operand(1), Operand(0))
  PROVE  IInv'
<1>1. /\ IsValueCell(Operand(0)) /\ Present(Operand(0))
      /\ IsValueCell(Operand(1)) /\ Present(Operand(1)) /\ Has(2)
  <2>1. 2 \in Nat /\ 0 \in 0..(2 - 1) /\ 1 \in 0..(2 - 1)
    OBVIOUS
  <2> QED
    BY <2>1, OperandPresent DEF Values
<1>2. PICK b, x : b = Operand(1) /\ x = Operand(0)
  OBVIOUS
<1>3. PICK q \in PartialIds : q = N(b) /\ b = Partial(q) /\ partials[q] # Dead
  BY <1>1, <1>2, ValueCells DEF Present
<1>4. PICK p : p = partials[q]
  OBVIOUS
<1>5. /\ p = [rc |-> p.rc, f |-> p.f, nargs |-> p.nargs, slots |-> p.slots]
      /\ p.f \in DOMAIN Functions /\ SlotsOK(p.f, p.nargs, p.slots) /\ MayCopy(p.slots, partials)
  BY <1>3, <1>4, AlivePartial
<1>6. CASE p.nargs = 0
  <2>1. Stop("error")
    BY <1>2, <1>3, <1>4, <1>6 DEF ApplyPartial
  <2> QED
    BY <2>1, StopKeeps
<1>7. CASE p.nargs # 0
  <2>1. PICK slots : Filled(p.f, p.nargs, p.slots, x, slots)
    BY DEF Filled
  <2>2. /\ First(Empty(p)) = FirstEmpty(p.f, p.nargs) /\ SlotsOK(p.f, p.nargs - 1, slots)
        /\ DOMAIN slots = DOMAIN p.slots /\ \A j \in DOMAIN p.slots : slots[j] = x \/ slots[j] = p.slots[j]
        /\ \A c : Shared(c) => References(c, slots) = References(c, p.slots) + One(c, x)
    BY <1>1, <1>2, <1>5, <1>7, <2>1, SlotFilled
  <2>3. PICK new : new = [Bind(p, x) EXCEPT !.rc = 1]
    OBVIOUS
  <2>4. new = [rc |-> 1, f |-> p.f, nargs |-> p.nargs - 1, slots |-> slots]
    BY <1>5, <2>1, <2>2, <2>3, BindIs
  <2>5. new.rc = 1 /\ new.f = p.f /\ new.nargs = p.nargs - 1 /\ new.slots = slots
    BY <2>4
  <2>6. PartialOK(new)
    BY <1>5, <2>2, <2>4, <2>5 DEF PartialOK
  <2>7. PICK id, ps : id = NewPartial /\ Made(id, new, ps)
    BY DEF Made
  <2>8. /\ Free # {}
        /\ IF new.nargs > 0
           THEN Do(Append(Below(2), Partial(id)), PoolCopying(p.slots), PartialsCopying(ps, p.slots), <<b>>)
           ELSE Returns(2, p.f, new.slots, ps, p.slots, <<b, Partial(id)>>)
    BY <1>2, <1>3, <1>4, <1>7, <2>3, <2>7 DEF ApplyPartial, Made
  <2>9. id \in PartialIds /\ partials[id] = Dead
    BY <2>7, <2>8, FreePartial
  <2>10. /\ PartialsOK(ps)
         /\ \A c : Shared(c) =>
              /\ Rc(c, pool, ps) = Rc(c, pool, partials) + One(c, Partial(id))
              /\ References(c, SlotsOf(ps)) = References(c, SlotsOf(partials)) + References(c, slots)
    BY <2>5, <2>6, <2>7, <2>9, NewKeeps DEF IInv
  <2>11. \A r \in PartialIds : partials[r] # Dead => ps[r] # Dead
    <3>1. Dead.rc = 0 /\ DOMAIN partials = PartialIds
      BY DEF Dead, IInv, PartialsOK
    <3> QED
      BY <2>5, <2>7, <2>9, <3>1 DEF Made
  <2>12. ASSUME NEW c, c = None \/ IsValueCell(c), c.k = "partial" => partials[N(c)] # Dead
         PROVE  c.k = "partial" => ps[N(c)] # Dead
    BY <2>11, <2>12, ValueCells, CellFields
  <2>13. MayCopy(p.slots, ps)
    BY <1>5, <2>12 DEF MayCopy, Flat
  <2>14. ASSUME NEW c, Shared(c)
         PROVE  \E rc, t, k, s, o, m \in Nat :
                  /\ rc = Rc(c, pool, partials) /\ t = One(c, b) /\ o = One(c, x)
                  /\ s = References(c, SlotsOf(partials)) /\ k = References(c, p.slots)
                  /\ m = One(c, Partial(id))
                  /\ References(c, Top(2)) = t + o
                  /\ Rc(c, pool, ps) = rc + m
                  /\ References(c, SlotsOf(ps)) = s + (k + o)
    <3>1. One(c, b) \in Nat /\ One(c, x) \in Nat /\ References(c, Top(2)) = One(c, b) + One(c, x)
      BY <1>1, <1>2, TopTwo
    <3>2. One(c, Partial(id)) \in Nat
      BY CellFields, EmptyList, AtFinite
    <3>3. References(c, SlotsOf(partials)) \in Nat /\ Rc(c, pool, partials) \in Nat
      BY <2>14, SlotsGood, RcNumber DEF IInv
    <3>4. References(c, p.slots) \in Nat
      BY <1>5, CellLists, ListCounted DEF MayCopy
    <3>5. References(c, slots) = References(c, p.slots) + One(c, x)
      BY <2>2, <2>14
    <3>6. /\ Rc(c, pool, ps) = Rc(c, pool, partials) + One(c, Partial(id))
          /\ References(c, SlotsOf(ps)) = References(c, SlotsOf(partials)) + References(c, slots)
      BY <2>10, <2>14
    <3> QED
      BY <3>1, <3>2, <3>3, <3>4, <3>5, <3>6
  <2>15. IsValueCell(Partial(id)) /\ WellMade(Partial(id)) /\ 2 \in Nat /\ WellMade(b)
    BY <1>1, <1>2, <2>9, ValuesMade DEF WellMade
  <2>16. IsList(b.e) /\ IsList(Partial(id).e)
    BY <2>15, CellLists
  <2>17. CASE new.nargs > 0
    <3>1. Do(Append(Below(2), Partial(id)), PoolCopying(p.slots), PartialsCopying(ps, p.slots), <<b>>)
      BY <2>8, <2>17
    <3>2. LooseCells(<<b>>)
      BY <2>15, OneElement DEF LooseCells
    <3>3. /\ PoolOK(PoolCopying(p.slots)) /\ PartialsOK(PartialsCopying(ps, p.slots))
          /\ SlotsOf(PartialsCopying(ps, p.slots)) = SlotsOf(ps)
          /\ \A c : Shared(c) =>
               Rc(c, PoolCopying(p.slots), PartialsCopying(ps, p.slots)) =
                 Rc(c, pool, ps) + References(c, p.slots)
      BY <2>10, <2>13, Copying DEF IInv
    <3>4. ASSUME NEW c, Shared(c)
          PROVE  Rc(c, PoolCopying(p.slots), PartialsCopying(ps, p.slots)) + References(c, Top(2))
                   + References(c, SlotsOf(partials)) =
                 Rc(c, pool, partials) + One(c, Partial(id)) + References(c, <<b>>)
                   + References(c, SlotsOf(PartialsCopying(ps, p.slots)))
      <4>1. PICK rc, t, k, s, o, m \in Nat :
              /\ rc = Rc(c, pool, partials) /\ t = One(c, b) /\ o = One(c, x)
              /\ s = References(c, SlotsOf(partials)) /\ k = References(c, p.slots)
              /\ m = One(c, Partial(id))
              /\ References(c, Top(2)) = t + o
              /\ Rc(c, pool, ps) = rc + m
              /\ References(c, SlotsOf(ps)) = s + (k + o)
        BY <2>14, <3>4
      <4>2. References(c, <<b>>) = t
        BY <2>16, <4>1, ReferencesOne
      <4>3. Rc(c, PoolCopying(p.slots), PartialsCopying(ps, p.slots)) = (rc + m) + k
        BY <3>3, <3>4, <4>1
      <4>4. ((rc + m) + k) + (t + o) + s = rc + m + t + (s + (k + o))
        OBVIOUS
      <4> QED
        BY <3>3, <4>1, <4>2, <4>3, <4>4
    <3> QED
      BY <1>1, <2>15, <3>1, <3>2, <3>3, <3>4, DoKeeps
  <2>18. CASE ~(new.nargs > 0)
    <3>1. Returns(2, p.f, slots, ps, p.slots, <<b, Partial(id)>>)
      BY <2>5, <2>8, <2>18
    <3>2. PICK d : d = <<b, Partial(id)>>
      OBVIOUS
    <3>3. d = <<b>> \o <<Partial(id)>>
      BY <3>2
    <3>4. LooseCells(d) /\ \A c : References(c, d) = One(c, b) + One(c, Partial(id))
      <4>1. GoodList(<<b>>) /\ GoodList(<<Partial(id)>>)
        BY <2>16, GoodLists
      <4>2. \A c : References(c, <<b>>) = One(c, b) /\ References(c, <<Partial(id)>>) = One(c, Partial(id))
        BY <2>16, ReferencesOne
      <4>3. IsList(d) /\ \A i \in DOMAIN d : d[i] = b \/ d[i] = Partial(id)
        <5>1. d \in Seq({b, Partial(id)})
          BY <3>2
        <5> QED
          BY <5>1, ElementOfSeq, LenProperties DEF IsList
      <4>4. LooseCells(d)
        BY <2>15, <4>3 DEF LooseCells
      <4> QED
        BY <3>3, <4>1, <4>2, <4>4, ReferencesConcat
    <3>5. /\ IsList(slots) /\ Len(slots) = Functions[p.f].arguments + Functions[p.f].captures
          /\ \A i \in DOMAIN slots : IsValueCell(slots[i])
      <4>1. PICK a \in Nat : a = Functions[p.f].arguments
        BY <1>5, FunctionShape
      <4>2. p.nargs - 1 = 0
        BY <1>5, <1>7, <2>5, <2>18, <4>1 DEF SlotsOK
      <4>3. \A i : i \notin (a - 0 + 1)..a
        OBVIOUS
      <4>4. SlotsOK(p.f, 0, slots)
        BY <2>2, <4>2
      <4> QED
        BY <4>1, <4>3, <4>4 DEF SlotsOK
    <3>6. MayCopy(slots, ps)
      <4>1. ASSUME NEW i \in DOMAIN slots
            PROVE  /\ slots[i].k = "text" => slots[i].v \in DOMAIN pool
                   /\ slots[i].k = "partial" => ps[N(slots[i])] # Dead
        <5>1. CASE slots[i] = x
          BY <1>1, <1>2, <2>12, <5>1 DEF Present
        <5>2. CASE slots[i] = p.slots[i]
          BY <2>2, <2>13, <5>2 DEF MayCopy
        <5> QED
          BY <2>2, <5>1, <5>2
      <4> QED
        BY <3>5, <4>1 DEF MayCopy, Flat
    <3>7. ASSUME NEW c, Shared(c)
          PROVE  Rc(c, pool, ps) + References(c, p.slots) + References(c, Top(2))
                   + References(c, SlotsOf(partials)) =
                 Rc(c, pool, partials) + References(c, d) + References(c, SlotsOf(ps))
      <4>1. PICK rc, t, k, s, o, m \in Nat :
              /\ rc = Rc(c, pool, partials) /\ t = One(c, b) /\ o = One(c, x)
              /\ s = References(c, SlotsOf(partials)) /\ k = References(c, p.slots)
              /\ m = One(c, Partial(id))
              /\ References(c, Top(2)) = t + o
              /\ Rc(c, pool, ps) = rc + m
              /\ References(c, SlotsOf(ps)) = s + (k + o)
        BY <2>14, <3>7
      <4>2. (rc + m) + k + (t + o) + s = rc + (t + m) + (s + (k + o))
        OBVIOUS
      <4> QED
        BY <3>4, <4>1, <4>2
    <3>8. Returns(2, p.f, slots, ps, p.slots, d)
      BY <3>1, <3>2
    <3> QED
      BY <1>1, <1>5, <2>10, <2>13, <2>15, <3>4, <3>5, <3>6, <3>7, <3>8, ReturnsKeeps
  <2> QED
    BY <2>17, <2>18
<1> QED
  BY <1>6, <1>7

LEMMA CreateClosureKeeps == IInv /\ CreateClosure => IInv'
<1> SUFFICES ASSUME IInv, CreateClosure PROVE IInv'
  OBVIOUS
<1>1. PICK n \in 1..(Len(stack) - 1) :
        /\ Has(n + 1) /\ IsRaw(Operand(n)) /\ Functions[N(Operand(n))].captures = n
        /\ \A i \in 0..(n - 1) : IsValue(Operand(i))
        /\ Free # {}
        /\ Do(Append(Below(n + 1), Partial(NewPartial)), pool,
              [partials EXCEPT ![NewPartial] = Captured(N(Operand(n)), Top(n))], <<>>)
  BY DEF CreateClosure
<1>2. n \in Nat /\ n + 1 \in Nat /\ n \in 0..((n + 1) - 1)
  BY <1>1
<1>3. PICK size \in Nat : size = Len(stack) /\ n + 1 <= size
  BY <1>1, <1>2, HasParts
<1>4. PICK b, f : b = Operand(n) /\ f = N(b)
  OBVIOUS
<1>5. WellMade(b) /\ b.k = "func"
  BY <1>1, <1>2, <1>3, <1>4, StackParts DEF IsRaw
<1>6. IsValueCell(b) /\ f \in DOMAIN Functions
  BY <1>4, <1>5, CellFields, RawCaptures DEF WellMade
<1>7. PICK a \in Nat : a = Functions[f].arguments
  BY <1>6, FunctionShape
<1>8. Functions[f].captures = n
  BY <1>1, <1>4
<1>9. PICK id \in PartialIds : id = NewPartial /\ partials[id] = Dead
  BY <1>1, FreePartial
<1>10. PICK t : t = Top(n)
  OBVIOUS
<1>11. /\ IsList(t) /\ Len(t) = n /\ DOMAIN t = 1..n /\ \A i \in 1..n : IsValueCell(t[i])
  <2>1. /\ Cells(t) /\ Len(t) = n /\ \A i \in 1..n : t[i] = Operand(n - i)
    <3>1. n <= size
      BY <1>2, <1>3
    <3> QED
      BY <1>2, <1>3, <1>10, <3>1, StackParts
  <2>2. \A i \in 1..n : WellMade(t[i]) /\ t[i].k # "arr"
    <3> TAKE i \in 1..n
    <3>1. n - i \in 0..(n - 1) /\ i \in DOMAIN t
      BY <2>1, ListFinite DEF Cells
    <3> QED
      BY <1>1, <2>1, <3>1 DEF IsValue, Cells
  <2> QED
    BY <2>1, <2>2, ListFinite, CellFields DEF Cells, WellMade
<1>12. PICK none : none = [i \in 1..a |-> None]
  OBVIOUS
<1>13. IsList(none) /\ Len(none) = a /\ DOMAIN none = 1..a /\ \A i \in 1..a : none[i] = None
  <2>1. none = [i \in 1..a |-> none[i]]
    BY <1>12
  <2> QED
    BY <1>12, <2>1, ListOf
<1>14. PICK slots : slots = none \o t
  OBVIOUS
<1>15. /\ IsList(slots) /\ Len(slots) = a + n
       /\ \A i \in 1..a : slots[i] = None
       /\ \A i \in 1..n : slots[a + i] = t[i]
  <2>1. IsList(none) /\ IsList(t)
    BY <1>11, <1>13
  <2>2. /\ IsList(none \o t) /\ Len(none \o t) = Len(none) + Len(t)
        /\ \A i \in 1..Len(none) : (none \o t)[i] = none[i]
        /\ \A i \in 1..Len(t) : (none \o t)[Len(none) + i] = t[i]
    BY ONLY <2>1, ListConcat
  <2> QED
    BY <1>11, <1>13, <1>14, <2>2
<1>16. SlotsOK(f, a, slots)
  <2>1. DOMAIN slots = 1..(a + n)
    BY <1>15, ListFinite
  <2>2. \A i \in 1..(a + n) : IF i \in (a - a + 1)..a THEN slots[i] = None ELSE IsValueCell(slots[i])
    <3> TAKE i \in 1..(a + n)
    <3>1. CASE i <= a
      BY <1>15, <3>1
    <3>2. CASE ~(i <= a)
      <4>1. i - a \in 1..n /\ a + (i - a) = i /\ i \notin (a - a + 1)..a
        BY <3>2
      <4>2. slots[i] = t[i - a]
        BY <1>15, <4>1
      <4> QED
        BY <1>11, <4>1, <4>2
    <3> QED
      BY <3>1, <3>2
  <2>3. a \in 0..a
    OBVIOUS
  <2> QED
    BY <1>7, <1>8, <1>15, <2>1, <2>2, <2>3 DEF SlotsOK
<1>17. PICK new : new = Captured(f, t)
  OBVIOUS
<1>18. new = [rc |-> 1, f |-> f, nargs |-> a, slots |-> slots]
  <2>1. PICK u, all : u = Unapplied(f) /\ all = [i \in 1..(a + n) |-> None]
    OBVIOUS
  <2>2. u = [rc |-> 1, f |-> f, nargs |-> a, slots |-> all]
    BY <1>7, <1>8, <2>1 DEF Unapplied
  <2>3. SubSeq(all, 1, a) = none
    <3>1. a + n \in Nat /\ a \in 0..(a + n) /\ all = [i \in 1..(a + n) |-> all[i]]
      BY <1>2, <2>1
    <3>2. IsList(all) /\ Len(all) = a + n
      BY <3>1, ListOf
    <3>3. /\ IsList(SubSeq(all, 1, a)) /\ Len(SubSeq(all, 1, a)) = a
          /\ \A i \in 1..a : SubSeq(all, 1, a)[i] = all[i]
      BY <3>1, <3>2, ListSplit
    <3>4. \A i \in 1..a : all[i] = None
      BY <1>2, <2>1
    <3>5. IsList(none) /\ Len(none) = a /\ \A i \in 1..a : SubSeq(all, 1, a)[i] = none[i]
      BY <1>13, <3>3, <3>4
    <3> QED
      BY ONLY <3>3, <3>5, a \in Nat, ListsEqual
  <2>4. new = [u EXCEPT !.slots = SubSeq(@, 1, a) \o t]
    BY <1>7, <1>17, <2>1 DEF Captured
  <2> QED
    BY <1>14, <2>2, <2>3, <2>4
<1>19. new.rc = 1 /\ new.f = f /\ new.nargs = a /\ new.slots = slots
  BY <1>18
<1>20. PartialOK(new)
  BY <1>6, <1>16, <1>18, <1>19 DEF PartialOK
<1>21. PICK ps : Made(id, new, ps)
  BY DEF Made
<1>22. /\ PartialsOK(ps)
       /\ \A c : Shared(c) =>
            /\ Rc(c, pool, ps) = Rc(c, pool, partials) + One(c, Partial(id))
            /\ References(c, SlotsOf(ps)) = References(c, SlotsOf(partials)) + References(c, slots)
  BY <1>9, <1>19, <1>20, <1>21, NewKeeps DEF IInv
<1>23. ASSUME NEW c, Shared(c)
       PROVE  Rc(c, pool, ps) + References(c, Top(n + 1)) + References(c, SlotsOf(partials)) =
              Rc(c, pool, partials) + One(c, Partial(id)) + References(c, <<>>) + References(c, SlotsOf(ps))
  <2>1. Flat(none) /\ Flat(t)
    BY <1>11, <1>13 DEF Flat
  <2>2. References(c, none) = 0
    <3>1. \A j \in DOMAIN none : none[j] # c
      BY <1>13, <1>23, SharedCells, CellFields
    <3> QED
      BY <2>1, <3>1, NotReferred
  <2>3. References(c, slots) = References(c, none) + References(c, t)
    BY <1>14, <2>1, CellLists, ReferencesConcat
  <2>4. References(c, Top(n + 1)) = One(c, b) + References(c, t)
    BY <1>1, <1>2, <1>4, <1>10, TopNext
  <2>5. One(c, b) = 0
    <3>1. ~Counted(b)
      BY <1>5 DEF Counted
    <3> QED
      BY <1>6, <1>23, <3>1, NotShared
  <2>6. PICK rc \in Nat, m \in Nat, s \in Nat, k \in Nat :
          /\ rc = Rc(c, pool, partials) /\ m = One(c, Partial(id))
          /\ s = References(c, SlotsOf(partials)) /\ k = References(c, t)
    <3>1. One(c, Partial(id)) \in Nat
      BY CellFields, EmptyList, AtFinite
    <3>2. References(c, t) \in Nat
      BY <2>1, CellLists, ListCounted
    <3> QED
      BY <1>23, <3>1, <3>2, RcNumber, SlotsGood DEF IInv
  <2>7. Rc(c, pool, ps) = rc + m /\ References(c, SlotsOf(ps)) = s + (0 + k)
    BY <1>22, <1>23, <2>2, <2>3, <2>6
  <2>8. (rc + m) + (0 + k) + s = rc + m + 0 + (s + (0 + k))
    OBVIOUS
  <2> QED
    BY <2>4, <2>5, <2>6, <2>7, <2>8, ReferencesEmpty
<1>24. LooseCells(<<>>) /\ WellMade(Partial(id)) /\ PoolOK(pool)
  BY EmptyList, ValuesMade DEF LooseCells, WellMade, IInv
<1>25. Do(Append(Below(n + 1), Partial(id)), pool, ps, <<>>)
  BY <1>1, <1>4, <1>9, <1>10, <1>17, <1>21 DEF Made
<1>26. PICK m \in Nat : m = n + 1
  BY <1>2
<1>27. Has(m) /\ Do(Append(Below(m), Partial(id)), pool, ps, <<>>)
  BY <1>1, <1>25, <1>26
<1>28. \A c : Shared(c) =>
         Rc(c, pool, ps) + References(c, Top(m)) + References(c, SlotsOf(partials)) =
         Rc(c, pool, partials) + One(c, Partial(id)) + References(c, <<>>) + References(c, SlotsOf(ps))
  BY <1>23, <1>26
<1> QED
  BY <1>22, <1>24, <1>27, <1>28, DoKeeps

LEMMA ApplyKeeps == IInv /\ Apply => IInv'
<1> SUFFICES ASSUME IInv, Apply PROVE IInv'
  OBVIOUS
<1>1. Values(2)
  BY DEF Apply, Uses
<1>2. CASE Operand(1).k = "func"
  <2>1. ApplyFunc(N(Operand(1)), Operand(0))
    BY <1>2 DEF Apply
  <2> QED
    BY <1>1, <1>2, <2>1, ApplyFuncKeeps
<1>3. CASE Operand(1).k = "partial"
  <2>1. ApplyPartial(Operand(1), Operand(0))
    BY <1>3 DEF Apply
  <2> QED
    BY <1>1, <1>3, <2>1, ApplyPartialKeeps
<1>4. CASE Operand(1).k \notin {"func", "partial"}
  <2>1. Stop("error")
    BY <1>4 DEF Apply
  <2> QED
    BY <2>1, StopKeeps
<1> QED
  BY <1>2, <1>3, <1>4

(* The arguments and captures of a call are values that exist.             *)
LEMMA CallFrame ==
  ASSUME IInv, NEW n \in Nat, Values(n + 1)
  PROVE  /\ IsList(Top(n)) /\ Len(Top(n)) = n /\ DOMAIN Top(n) = 1..n
         /\ \A i \in 1..n : IsValueCell(Top(n)[i]) /\ Present(Top(n)[i])
         /\ IsValueCell(Operand(n)) /\ Present(Operand(n)) /\ ~IsRaw(Operand(n))
         /\ Has(n + 1)
<1>1. PICK m \in Nat : m = n + 1
  OBVIOUS
<1>2. \A i \in 0..(m - 1) : IsValueCell(Operand(i)) /\ Present(Operand(i)) /\ ~IsRaw(Operand(i))
  BY <1>1, OperandPresent
<1>3. Has(m)
  BY <1>1 DEF Values
<1>4. PICK size \in Nat : size = Len(stack) /\ m <= size
  BY <1>3, HasParts
<1>5. Cells(Top(n)) /\ Len(Top(n)) = n /\ \A i \in 1..n : Top(n)[i] = Operand(n - i)
  <2>1. n <= size
    BY <1>1, <1>4
  <2> QED
    BY <1>4, <2>1, StackParts
<1>6. n \in 0..(m - 1) /\ \A i \in 1..n : n - i \in 0..(m - 1)
  BY <1>1
<1>7. \A i \in 1..n : IsValueCell(Top(n)[i]) /\ Present(Top(n)[i])
  BY <1>2, <1>5, <1>6
<1> QED
  BY <1>1, <1>2, <1>3, <1>5, <1>6, <1>7, ListFinite DEF Cells

-----------------------------------------------------------------------------
(* Numbers, comparisons and booleans.                                      *)

LEMMA Numbers ==
  ASSUME NEW c, IsValueCell(c)
  PROVE  /\ c.k = "int" => N(c) \in IntOf /\ N(c) \in Int
         /\ c.k = "float" => N(c) \in Floats /\ N(c) \in Int
         /\ c.k = "bool" => N(c) \in {0, 1}
<1>1. IntOf \subseteq Int
  BY OperandAssumption DEF IntOf
<1>2. Floats \subseteq Int
  BY DEF Floats, NaN
<1> QED
  BY <1>1, <1>2, ValueCells

LEMMA UncountedMade ==
  /\ \A n \in IntOf : IsValueCell(Int_(n)) /\ ~Counted(Int_(n))
  /\ \A n \in Floats : IsValueCell(Float(n)) /\ ~Counted(Float(n))
  /\ \A b : IsValueCell(Bool(b)) /\ ~Counted(Bool(b))
BY ValuesMade, CellFields DEF Counted

LEMMA DifferenceIs ==
  ASSUME NEW a, IsValueCell(a), IsNumber(a), NEW b, IsValueCell(b), IsNumber(b)
  PROVE  FloatDifference(a, b) \in Int
<1>1. N(a) \in Int /\ N(b) \in Int
  BY Numbers DEF IsNumber
<1> QED
  BY <1>1 DEF FloatDifference, AsFloat

LEMMA ArithKeeps == IInv /\ Arith => IInv'
<1> SUFFICES ASSUME IInv, Arith PROVE IInv'
  OBVIOUS
<1>1. PICK a, b : a = Operand(1) /\ b = Operand(0)
  OBVIOUS
<1>2. Values(2)
  BY DEF Arith, Uses
<1>3. Has(2) /\ IsValueCell(a) /\ IsValueCell(b)
  <2>1. 1 \in 0..(2 - 1) /\ 0 \in 0..(2 - 1) /\ 2 \in Nat
    OBVIOUS
  <2> QED
    BY <1>1, <1>2, <2>1, OperandValues
<1>4. PICK op \in {"Add", "Sub", "Mul", "Div", "Mod"} :
        IF ~IsNumber(a) \/ ~IsNumber(b) THEN Stop("error")
        ELSE IF "float" \in {a.k, b.k} THEN \E x \in Floats : Answer(2, Float(x))
        ELSE IF op \in {"Div", "Mod"} /\ N(b) = 0 THEN Stop("error")
        ELSE IF op \in {"Div", "Mod"} /\ N(a) = -Half /\ N(b) = -1 THEN Stop("trap")
        ELSE Answer(2, Int_(IntOp(op, N(a), N(b))))
  BY <1>1 DEF Arith
<1>5. CASE Stop("error") \/ Stop("trap")
  BY <1>5, StopKeeps
<1>6. CASE \E x \in Floats : Answer(2, Float(x))
  BY <1>3, <1>6, 2 \in Nat, UncountedMade, AnswerKeeps
<1>7. CASE /\ a.k = "int" /\ b.k = "int" /\ Answer(2, Int_(IntOp(op, N(a), N(b))))
           /\ ~(op \in {"Div", "Mod"} /\ N(b) = 0)
           /\ ~(op \in {"Div", "Mod"} /\ N(a) = -Half /\ N(b) = -1)
  <2>1. PICK m, n \in IntOf : m = N(a) /\ n = N(b) /\ m \in Int /\ n \in Int
    BY <1>3, <1>7, Numbers
  <2>2. IntOp(op, m, n) \in IntOf
    <3>1. CASE op = "Add"
      BY <2>1, <3>1, WrappedIs, m + n \in Int DEF IntOp
    <3>2. CASE op = "Sub"
      BY <2>1, <3>2, WrappedIs, m - n \in Int DEF IntOp
    <3>3. CASE op = "Mul"
      <4>1. m * n \in Int
        BY <2>1
      <4>2. IntOp(op, m, n) = Wrapped(m * n)
        BY <3>3, Zenon DEF IntOp
      <4> QED
        BY <4>1, <4>2, WrappedIs
    <3>4. CASE op = "Div"
      <4>1. IntOp(op, m, n) = Quotient(m, n)
        BY <3>4, Zenon DEF IntOp
      <4>2. n # 0 /\ ~(m = -Half /\ n = -1)
        BY <1>7, <2>1, <3>4
      <4> QED
        BY <4>1, <4>2, QuotientIs
    <3>5. CASE op = "Mod"
      <4>1. IntOp(op, m, n) = Remainder(m, n)
        BY <3>5, Zenon DEF IntOp
      <4>2. n # 0 /\ ~(m = -Half /\ n = -1)
        BY <1>7, <2>1, <3>5
      <4> QED
        BY <4>1, <4>2, QuotientIs
    <3> QED
      BY <3>1, <3>2, <3>3, <3>4, <3>5
  <2>3. PICK r \in IntOf : r = IntOp(op, m, n)
    BY <2>2
  <2>4. Answer(2, Int_(r))
    BY <1>7, <2>1, <2>3
  <2> QED
    BY <1>3, <2>4, 2 \in Nat, UncountedMade, AnswerKeeps
<1> QED
  BY <1>4, <1>5, <1>6, <1>7 DEF IsNumber

LEMMA NegKeeps == IInv /\ Neg => IInv'
<1> SUFFICES ASSUME IInv, Neg PROVE IInv'
  OBVIOUS
<1>1. PICK c : c = Operand(0)
  OBVIOUS
<1>2. Values(1) /\ 0 \in 0..(1 - 1) /\ 1 \in Nat
  BY DEF Neg, Uses
<1>3. Has(1) /\ IsValueCell(c)
  BY <1>1, <1>2, OperandValues
<1>4. CASE c.k = "int"
  <2>1. -N(c) \in Int
    BY <1>3, <1>4, Numbers
  <2>2. Wrapped(-N(c)) \in IntOf
    BY <2>1, WrappedIs
  <2>3. Answer(1, Int_(Wrapped(-N(c))))
    BY <1>1, <1>4 DEF Neg
  <2> QED
    BY <1>2, <1>3, <2>2, <2>3, UncountedMade, AnswerKeeps
<1>5. CASE c.k = "float"
  <2>1. PICK x : x = IF IsNaN(c) THEN NaN ELSE -N(c)
    OBVIOUS
  <2>2. N(c) \in Floats /\ N(c) \in Int
    BY <1>3, <1>5, Numbers
  <2>3. x \in Floats
    BY <1>5, <2>1, <2>2 DEF Floats, IsNaN
  <2>4. Answer(1, Float(x))
    BY <1>1, <1>5, <2>1 DEF Neg
  <2> QED
    BY <1>2, <1>3, <2>3, <2>4, UncountedMade, AnswerKeeps
<1>6. CASE c.k \notin {"int", "float"}
  <2>1. Stop("error")
    BY <1>1, <1>6 DEF Neg
  <2> QED
    BY <2>1, StopKeeps
<1> QED
  BY <1>4, <1>5, <1>6

LEMMA CmpKeeps == IInv /\ Cmp => IInv'
<1> SUFFICES ASSUME IInv, Cmp PROVE IInv'
  OBVIOUS
<1>1. PICK a, b : a = Operand(1) /\ b = Operand(0)
  OBVIOUS
<1>2. Values(2) /\ 1 \in 0..(2 - 1) /\ 0 \in 0..(2 - 1) /\ 2 \in Nat
  BY DEF Cmp, Uses
<1>3. Has(2) /\ IsValueCell(a) /\ IsValueCell(b)
  BY <1>1, <1>2, OperandValues
<1>4. IF IsNumber(a) /\ IsNumber(b)
      THEN Answer(2, Int_(Sign(IF a.k = "int" /\ b.k = "int" THEN Wrapped(N(a) - N(b))
                               ELSE FloatDifference(a, b))))
      ELSE IF a.k # b.k \/ a.k \notin {"null", "bool", "text"} THEN Stop("error")
      ELSE Answer(2, Int_(CASE a.k = "null" -> 0
                            [] a.k = "bool" -> N(a) - N(b)
                            [] a.k = "text" -> CmpBytes(a.v, b.v)))
  BY <1>1 DEF Cmp
<1>5. ASSUME NEW n \in IntOf, Answer(2, Int_(n)) PROVE IInv'
  BY <1>2, <1>3, <1>5, UncountedMade, AnswerKeeps
<1>6. CASE IsNumber(a) /\ IsNumber(b)
  <2>1. PICK d : d = IF a.k = "int" /\ b.k = "int" THEN Wrapped(N(a) - N(b)) ELSE FloatDifference(a, b)
    OBVIOUS
  <2>2. d \in Int
    <3>1. CASE a.k = "int" /\ b.k = "int"
      <4>1. N(a) - N(b) \in Int
        BY <1>3, <3>1, Numbers
      <4>2. IntOf \subseteq Int
        BY OperandAssumption DEF IntOf
      <4> QED
        BY <2>1, <3>1, <4>1, <4>2, WrappedIs
    <3>2. CASE ~(a.k = "int" /\ b.k = "int")
      BY <1>3, <1>6, <2>1, <3>2, DifferenceIs
    <3> QED
      BY <3>1, <3>2
  <2>3. Sign(d) \in IntOf
    BY <2>2, SignIs, SmallIs
  <2>4. Answer(2, Int_(Sign(d)))
    BY <1>4, <1>6, <2>1
  <2> QED
    BY <1>5, <2>3, <2>4
<1>7. CASE ~(IsNumber(a) /\ IsNumber(b)) /\ (a.k # b.k \/ a.k \notin {"null", "bool", "text"})
  BY <1>4, <1>7, StopKeeps
<1>8. CASE ~(IsNumber(a) /\ IsNumber(b)) /\ a.k = b.k /\ a.k \in {"null", "bool", "text"}
  <2>1. PICK n : n = CASE a.k = "null" -> 0
                       [] a.k = "bool" -> N(a) - N(b)
                       [] a.k = "text" -> CmpBytes(a.v, b.v)
    OBVIOUS
  <2>2. n \in IntOf
    <3>1. CASE a.k = "null"
      BY <2>1, <3>1, SmallIs, 0 \in -1..1
    <3>2. CASE a.k = "bool"
      <4>1. N(a) - N(b) \in -1..1
        <5>1. N(a) \in {0, 1} /\ N(b) \in {0, 1}
          BY <1>3, <1>8, <3>2, Numbers
        <5>2. PICK x, y : x = N(a) /\ y = N(b)
          OBVIOUS
        <5>3. x \in {0, 1} /\ y \in {0, 1}
          BY <5>1, <5>2
        <5>4. x - y \in -1..1
          BY <5>3
        <5> QED
          BY <5>2, <5>4
      <4>2. n = N(a) - N(b)
        BY <2>1, <3>2
      <4> QED
        BY <4>1, <4>2, SmallIs
    <3>3. CASE a.k = "text"
      <4>1. a.v \in Seq(Bytes) /\ b.v \in Seq(Bytes)
        BY <1>3, <1>8, <3>3, ValueCells
      <4>2. n = CmpBytes(a.v, b.v)
        BY <2>1, <3>3
      <4> QED
        BY <4>1, <4>2, CmpBytesIs
    <3> QED
      BY <1>8, <3>1, <3>2, <3>3
  <2>3. Answer(2, Int_(n))
    BY <1>4, <1>8, <2>1
  <2> QED
    BY <1>5, <2>2, <2>3
<1> QED
  BY <1>6, <1>7, <1>8

LEMMA CmpOpKeeps == IInv /\ CmpOp => IInv'
<1> SUFFICES ASSUME IInv, CmpOp PROVE IInv'
  OBVIOUS
<1>1. Values(2) /\ 2 \in Nat
  BY DEF CmpOp, Uses
<1>2. Has(2)
  BY <1>1, OperandValues
<1>3. Stop("error") \/ \E r : Answer(2, Bool(r))
  BY Zenon DEF CmpOp
<1> QED
  BY <1>1, <1>2, <1>3, StopKeeps, UncountedMade, AnswerKeeps

LEMMA NotKeeps == IInv /\ Not => IInv'
<1> SUFFICES ASSUME IInv, Not PROVE IInv'
  OBVIOUS
<1>1. Values(1) /\ 1 \in Nat
  BY DEF Not, Uses
<1>2. Has(1)
  BY <1>1, OperandValues
<1>3. Stop("error") \/ \E r : Answer(1, Bool(r))
  <2>1. PICK c : c = Operand(0)
    OBVIOUS
  <2>2. CASE c.k = "null"
    BY <2>1, <2>2 DEF Not
  <2>3. CASE c.k \in {"bool", "int", "float"}
    BY <2>1, <2>3 DEF Not
  <2>4. CASE c.k \notin {"null", "bool", "int", "float"}
    BY <2>1, <2>4 DEF Not
  <2> QED
    BY <2>2, <2>3, <2>4
<1> QED
  BY <1>1, <1>2, <1>3, StopKeeps, UncountedMade, AnswerKeeps

-----------------------------------------------------------------------------
(* Strings.                                                                *)

LEMMA AppendOpKeeps == IInv /\ AppendOp => IInv'
<1> SUFFICES ASSUME IInv, AppendOp PROVE IInv'
  OBVIOUS
<1>1. PICK a, b : a = Operand(1) /\ b = Operand(0)
  OBVIOUS
<1>2. Values(2) /\ 1 \in 0..(2 - 1) /\ 0 \in 0..(2 - 1) /\ 2 \in Nat
  BY DEF AppendOp, Uses
<1>3. Has(2) /\ IsValueCell(a) /\ IsValueCell(b)
  BY <1>1, <1>2, OperandValues
<1>4. ASSUME NEW c, IsValueCell(c), c.k \in {"text", "int", "bool"}
      PROVE  BytesOf(c) \in Seq(Bytes)
  <2>1. CASE c.k = "int"
    BY <1>4, <2>1, Numbers, DecimalIs DEF BytesOf
  <2>2. CASE c.k = "bool"
    <3>1. (c = Bool(TRUE)) \in BOOLEAN
      OBVIOUS
    <3>2. Words[c = Bool(TRUE)] \in Seq(Bytes \ {0})
      BY <3>1, OperandAssumption
    <3>3. BytesOf(c) = Words[c = Bool(TRUE)]
      BY <2>2, Zenon DEF BytesOf
    <3>4. Seq(Bytes \ {0}) \subseteq Seq(Bytes)
      BY SeqMonotonic
    <3> QED
      BY <3>2, <3>3, <3>4
  <2>3. CASE c.k = "text"
    <3>1. c.v \in Seq(Bytes)
      BY <1>4, <2>3, ValueCells
    <3>2. BytesOf(c) = c.v
      BY <2>3 DEF BytesOf
    <3> QED
      BY <3>1, <3>2
  <2> QED
    BY <1>4, <2>1, <2>2, <2>3
<1>5. CASE {a.k, b.k} \subseteq {"text", "int", "bool"} /\ AnswerText(2, BytesOf(a) \o BytesOf(b))
  <2>1. a.k \in {"text", "int", "bool"} /\ b.k \in {"text", "int", "bool"}
    BY <1>5
  <2>2. BytesOf(a) \in Seq(Bytes) /\ BytesOf(b) \in Seq(Bytes)
    BY ONLY <1>3, <1>4, <2>1, Zenon
  <2>3. BytesOf(a) \o BytesOf(b) \in Seq(Bytes)
    BY <2>2, ConcatProperties
  <2> QED
    BY <1>2, <1>3, <1>5, <2>3, AnswerTextKeeps
<1>6. CASE Stop("error")
  BY <1>6, StopKeeps
<1>7. \/ {a.k, b.k} \subseteq {"text", "int", "bool"} /\ AnswerText(2, BytesOf(a) \o BytesOf(b))
      \/ Stop("error")
  BY <1>1 DEF AppendOp
<1> QED
  BY <1>5, <1>6, <1>7

LEMMA GetKeeps == IInv /\ Get => IInv'
<1> SUFFICES ASSUME IInv, Get PROVE IInv'
  OBVIOUS
<1>1. PICK a, b : a = Operand(1) /\ b = Operand(0)
  OBVIOUS
<1>2. Values(2) /\ 1 \in 0..(2 - 1) /\ 0 \in 0..(2 - 1) /\ 2 \in Nat
  BY DEF Get, Uses
<1>3. Has(2) /\ IsValueCell(a) /\ IsValueCell(b)
  BY <1>1, <1>2, OperandValues
<1>4. PICK index : index = IF N(b) < 0 THEN Utf8Len(a.v) + N(b) ELSE N(b)
  OBVIOUS
<1>5. IF a.k # "text" \/ b.k # "int" THEN Stop("error")
      ELSE IF Glyph(a.v, index % IndexMod) = NoGlyph THEN Stop("error")
      ELSE AnswerText(2, Glyph(a.v, index % IndexMod))
  BY <1>1, <1>4 DEF Get
<1>6. CASE Stop("error")
  BY <1>6, StopKeeps
<1>7. CASE a.k = "text" /\ b.k = "int" /\ AnswerText(2, Glyph(a.v, index % IndexMod))
  <2>1. PICK s \in Seq(Bytes), n \in Int : s = a.v /\ n = N(b)
    BY <1>3, <1>7, ValueCells, Numbers
  <2>2. PICK size \in Nat : size = Utf8Len(s)
    <3>1. PICK m \in Nat : m = Len(s)
      OBVIOUS
    <3> QED
      BY <3>1, VisibleIs
  <2>3. index \in Int
    BY <1>4, <2>1, <2>2
  <2>4. IndexMod \in Nat \ {0}
    BY OperandAssumption
  <2>5. PICK i \in Nat : i = index % IndexMod
    BY <2>3, <2>4
  <2>6. Glyph(s, i) \in Seq(Bytes)
    BY GlyphIs
  <2>7. AnswerText(2, Glyph(s, i))
    BY <1>7, <2>1, <2>5
  <2> QED
    BY <1>2, <1>3, <2>6, <2>7, AnswerTextKeeps
<1> QED
  BY <1>5, <1>6, <1>7

LEMMA SliceKeeps == IInv /\ Slice => IInv'
<1> SUFFICES ASSUME IInv, Slice PROVE IInv'
  OBVIOUS
<1>1. PICK s, a, b : s = Operand(2) /\ a = Operand(1) /\ b = Operand(0)
  OBVIOUS
<1>2. Values(3) /\ 2 \in 0..(3 - 1) /\ 1 \in 0..(3 - 1) /\ 0 \in 0..(3 - 1) /\ 3 \in Nat
  BY DEF Slice, Uses
<1>3. Has(3) /\ IsValueCell(s) /\ IsValueCell(a) /\ IsValueCell(b)
  BY <1>1, <1>2, OperandValues
<1>4. \/ s.k = "text" /\ {a.k, b.k} \subseteq {"int", "null"} /\ AnswerText(3, SliceBytes(s.v, a, b))
      \/ Stop("error")
  BY <1>1 DEF Slice
<1>5. CASE Stop("error")
  BY <1>5, StopKeeps
<1>6. CASE s.k = "text" /\ {a.k, b.k} \subseteq {"int", "null"} /\ AnswerText(3, SliceBytes(s.v, a, b))
  <2>1. s.v \in Seq(Bytes)
    BY <1>3, <1>6, ValueCells
  <2>2. Index(a) /\ Index(b)
    BY <1>3, <1>6, Numbers DEF Index
  <2>3. SliceBytes(s.v, a, b) \in Seq(Bytes)
    BY <2>1, <2>2, SliceIs
  <2> QED
    BY <1>2, <1>3, <1>6, <2>3, AnswerTextKeeps
<1> QED
  BY <1>4, <1>5, <1>6

-----------------------------------------------------------------------------
(* Arrays of values, made to be searched.                                  *)

LEMMA CreateArrayKeeps == IInv /\ CreateArray => IInv'
<1> SUFFICES ASSUME IInv, CreateArray PROVE IInv'
  OBVIOUS
<1>1. PICK n \in 1..MaxArray :
        Uses("In", n) /\ Do(Append(Below(n), Arr(Top(n))), pool, partials, <<>>)
  BY DEF CreateArray
<1>2. n \in Nat /\ Values(n)
  BY <1>1 DEF Uses
<1>3. Has(n) /\ \A i \in 0..(n - 1) : IsValueCell(Operand(i))
  BY <1>2, OperandValues
<1>4. PICK size \in Nat : size = Len(stack) /\ n <= size
  BY <1>2, <1>3, HasParts
<1>5. PICK t : t = Top(n)
  OBVIOUS
<1>6. Cells(t) /\ Len(t) = n /\ \A i \in 1..n : t[i] = Operand(n - i)
  BY <1>2, <1>4, <1>5, StackParts
<1>7. ValueList(t)
  <2>1. DOMAIN t = 1..n /\ IsList(t)
    BY <1>6, ListFinite DEF Cells
  <2>2. \A i \in 1..n : n - i \in 0..(n - 1)
    BY <1>2
  <2> QED
    BY <1>3, <1>6, <2>1, <2>2 DEF ValueList
<1>8. WellMade(Arr(t)) /\ LooseCells(<<>>) /\ Flat(t)
  BY <1>7, CellFields, CellLists, EmptyList DEF WellMade, LooseCells
<1>9. ASSUME NEW c, Shared(c)
      PROVE  Rc(c, pool, partials) + References(c, Top(n)) + References(c, SlotsOf(partials)) =
             Rc(c, pool, partials) + One(c, Arr(t)) + References(c, <<>>) + References(c, SlotsOf(partials))
  <2>1. One(c, Arr(t)) = References(c, t) /\ References(c, <<>>) = 0
    BY <1>8, <1>9, OneArray, ReferencesEmpty
  <2>2. PICK k \in Nat, rc \in Nat : k = References(c, t) /\ rc = Rc(c, pool, partials)
    BY <1>8, <1>9, CellLists, ListCounted, RcNumber DEF IInv
  <2>3. rc + k = rc + k + 0
    OBVIOUS
  <2> QED
    BY <1>5, <2>1, <2>2, <2>3
<1>10. Do(Append(Below(n), Arr(t)), pool, partials, <<>>)
  BY <1>1, <1>5
<1> QED
  BY <1>2, <1>3, <1>8, <1>9, <1>10, DoKeeps DEF IInv

LEMMA InKeeps == IInv /\ In => IInv'
<1> SUFFICES ASSUME IInv, In PROVE IInv'
  OBVIOUS
<1>1. Has(2) /\ \E r : Answer(2, Bool(r))
  BY DEF In
<1> QED
  BY <1>1, 2 \in Nat, UncountedMade, AnswerKeeps

-----------------------------------------------------------------------------
(* Variables and the stack.                                                *)

LEMMA PushKeeps == IInv /\ Push => IInv'
<1> SUFFICES ASSUME IInv, Push PROVE IInv'
  OBVIOUS
<1>1. PICK c \in script.values : Has(0) /\ Copy(c)
  BY DEF Push
<1>2. IsValueCell(c)
  BY ScriptsAssumption DEF IInv
<1>3. Present(c)
  BY <1>2, CellPresent
<1> QED
  BY <1>1, <1>2, <1>3, CopyKeeps

LEMMA PushVarKeeps == IInv /\ PushVar => IInv'
<1> SUFFICES ASSUME IInv, PushVar PROVE IInv'
  OBVIOUS
<1>1. PICK v \in script.vars : Has(0) /\ Copy(env[v])
  BY DEF PushVar
<1>2. IsValueCell(env[v])
  BY DEF IInv
<1>3. Present(env[v])
  BY <1>2, CellPresent
<1> QED
  BY <1>1, <1>2, <1>3, CopyKeeps

LEMMA PopKeeps == IInv /\ Pop => IInv'
<1> SUFFICES ASSUME IInv, Pop PROVE IInv'
  OBVIOUS
<1>1. Has(1) /\ stack' = Below(1) /\ pool' = pool /\ partials' = partials
      /\ drop' = Cleared(Top(1)) /\ script' = script /\ env' = env /\ status' = status
      /\ drop = <<>> /\ 1 \in Nat
  BY DEF Pop, Do, Has
<1>2. PICK size \in Nat : size = Len(stack) /\ 1 <= size
  BY <1>1, HasParts
<1>3. /\ Cells(Below(1)) /\ Cells(Top(1))
      /\ \A c : References(c, stack) = References(c, Below(1)) + References(c, Top(1))
  BY <1>1, <1>2, StackParts
<1>4. LooseCells(Top(1))
  BY <1>3, CellLists
<1>5. LooseCells(drop')
  <2>1. LooseCells(<<>>)
    BY EmptyList DEF LooseCells
  <2> QED
    BY <1>1, <1>4, <2>1 DEF Cleared
<1>6. ASSUME NEW c, Shared(c)
      PROVE  Rc(c, pool', partials') + References(c, env) + References(c, stack)
               + References(c, drop) + References(c, SlotsOf(partials)) =
             Rc(c, pool, partials) + References(c, env') + References(c, stack')
               + References(c, drop') + References(c, SlotsOf(partials'))
  <2>1. References(c, drop) = 0 /\ References(c, drop') = References(c, Top(1))
    BY <1>1, <1>4, <1>6, ClearedLoose, ReferencesEmpty
  <2>2. PICK rc, e, s, b, t \in Nat :
          /\ rc = Rc(c, pool, partials) /\ e = References(c, env) /\ s = References(c, SlotsOf(partials))
          /\ b = References(c, Below(1)) /\ t = References(c, Top(1))
    <3>1. References(c, Below(1)) \in Nat /\ References(c, Top(1)) \in Nat
      BY <1>3, CellLists, ListCounted
    <3> QED
      BY <1>6, <3>1, AllCounted, RcNumber DEF IInv
  <2>3. References(c, stack) = b + t
    BY <1>3, <2>2
  <2>4. rc + e + (b + t) + 0 + s = rc + e + b + t + s
    OBVIOUS
  <2> QED
    BY <1>1, <2>1, <2>2, <2>3, <2>4
<1> QED
  BY <1>1, <1>3, <1>5, <1>6, Keeps DEF IInv

LEMMA WriteVarKeeps == IInv /\ WriteVar => IInv'
<1> SUFFICES ASSUME IInv, WriteVar PROVE IInv'
  OBVIOUS
<1>1. PICK v \in script.vars : env' = [env EXCEPT ![v] = Operand(0)] /\ drop' = Cleared(<<env[v]>>)
  BY DEF WriteVar
<1>2. Values(1) /\ stack' = Below(1) /\ pool' = pool /\ partials' = partials
      /\ script' = script /\ status' = status /\ 1 \in Nat /\ 0 \in 0..(1 - 1)
  BY DEF WriteVar
<1>3. Has(1) /\ drop = <<>> /\ IsValueCell(Operand(0))
  BY <1>2, OperandValues DEF Has
<1>4. PICK size \in Nat : size = Len(stack) /\ 1 <= size
  BY <1>2, <1>3, HasParts
<1>5. /\ Cells(Below(1))
      /\ \A c : References(c, stack) = References(c, Below(1)) + References(c, Top(1))
  BY <1>2, <1>4, StackParts
<1>6. PICK x, y : x = env[v] /\ y = Operand(0)
  OBVIOUS
<1>7. IsValueCell(x) /\ IsValueCell(y)
  BY <1>3, <1>6 DEF IInv
<1>8. IsList(x.e) /\ IsList(y.e) /\ LooseCells(<<x>>)
  <2>1. x.e = <<>> /\ y.e = <<>>
    BY <1>7, ValueCells
  <2>2. \A i \in DOMAIN <<x>> : <<x>>[i] = x
    BY OneElement
  <2> QED
    BY <1>7, <2>1, <2>2, EmptyList, OneElement DEF LooseCells, WellMade
<1>9. LooseCells(drop')
  <2>1. LooseCells(<<>>)
    BY EmptyList DEF LooseCells
  <2> QED
    BY <1>1, <1>6, <1>8, <2>1 DEF Cleared
<1>10. /\ DOMAIN env = script.vars /\ DOMAIN env' = script.vars /\ env'[v] = y
       /\ \A w \in script.vars \ {v} : env'[w] = env[w]
  BY <1>1, <1>6 DEF IInv
<1>11. \A w \in script.vars : IsValueCell(env'[w])
  BY <1>7, <1>10 DEF IInv
<1>12. ASSUME NEW c, Shared(c)
       PROVE  Rc(c, pool', partials') + References(c, env) + References(c, stack)
                + References(c, drop) + References(c, SlotsOf(partials)) =
              Rc(c, pool, partials) + References(c, env') + References(c, stack')
                + References(c, drop') + References(c, SlotsOf(partials'))
  <2>1. References(c, drop) = 0
    BY <1>3, ReferencesEmpty
  <2>2. References(c, drop') = One(c, x)
    BY <1>1, <1>6, <1>8, <1>12, ClearedLoose, ReferencesOne
  <2>3. References(c, Top(1)) = One(c, y)
    BY <1>3, <1>6, TopOne
  <2>4. Good(env) /\ Good(env') /\ References(c, env') \in Nat
    BY <1>10, <1>11, EnvGood DEF IInv
  <2>5. References(c, env') + One(c, x) = References(c, env) + One(c, y)
    <3>1. PICK g, h : g = env /\ h = env'
      OBVIOUS
    <3>2. DOMAIN h = DOMAIN g /\ v \in DOMAIN g /\ \A w \in DOMAIN g \ {v} : h[w] = g[w]
      BY <1>10, <3>1
    <3>3. References(c, h) + One(c, g[v]) = References(c, g) + One(c, h[v])
      BY <2>4, <3>1, <3>2, ReferencesChange
    <3> QED
      BY <1>6, <1>10, <3>1, <3>3
  <2>6. PICK rc, e, e2, s, b, ox, oy \in Nat :
          /\ rc = Rc(c, pool, partials) /\ e = References(c, env) /\ e2 = References(c, env')
          /\ s = References(c, SlotsOf(partials)) /\ b = References(c, Below(1))
          /\ ox = One(c, x) /\ oy = One(c, y)
    <3>1. References(c, Below(1)) \in Nat
      BY <1>5, CellLists, ListCounted
    <3>2. One(c, x) \in Nat /\ One(c, y) \in Nat
      BY <1>8, AtFinite
    <3> QED
      BY <1>12, <2>4, <3>1, <3>2, AllCounted, RcNumber DEF IInv
  <2>7. References(c, stack) = b + oy
    BY <1>5, <2>3, <2>6
  <2>8. e2 + ox = e + oy
    BY <2>5, <2>6
  <2>9. rc + e + (b + oy) + 0 + s = rc + e2 + b + ox + s
    BY <2>8
  <2> QED
    BY <1>2, <2>1, <2>2, <2>6, <2>7, <2>9
<1> QED
  BY <1>2, <1>5, <1>9, <1>10, <1>11, <1>12, Keeps DEF IInv

LEMMA StutterKeeps == IInv /\ UNCHANGED vars => IInv'
<1> SUFFICES ASSUME IInv, UNCHANGED vars PROVE IInv'
  OBVIOUS
<1>1. /\ script' = script /\ env' = env /\ stack' = stack /\ pool' = pool
      /\ partials' = partials /\ drop' = drop /\ status' = status
  BY DEF vars
<1>2. Balanced' = Balanced
  BY <1>1 DEF Balanced, Rc, AllReferences, Slots, Constant
<1> QED
  BY <1>1, <1>2 DEF IInv

-----------------------------------------------------------------------------
(* Calls.                                                                  *)

LEMMA CallFuncKeeps ==
  ASSUME IInv, NEW n \in Nat, Values(n + 1), Operand(n).k = "func",
         Functions[N(Operand(n))].arguments = n,
         Returns(n + 1, N(Operand(n)), Top(n), partials, <<>>, Top(n))
  PROVE  IInv'
<1>1. PICK m \in Nat : m = n + 1
  OBVIOUS
<1>2. PICK t, b, f : t = Top(n) /\ b = Operand(n) /\ f = N(b)
  OBVIOUS
<1>3. /\ IsList(t) /\ Len(t) = n /\ DOMAIN t = 1..n
      /\ \A i \in 1..n : IsValueCell(t[i]) /\ Present(t[i])
      /\ IsValueCell(b) /\ ~IsRaw(b) /\ Has(m)
  BY <1>1, <1>2, CallFrame
<1>4. f \in DOMAIN Functions /\ Functions[f].captures = 0 /\ Functions[f].arguments = n
  BY <1>2, <1>3, RawCaptures
<1>5. Len(t) = Functions[f].arguments + Functions[f].captures
  BY <1>3, <1>4
<1>6. Flat(t) /\ MayCopy(t, partials) /\ MayCopy(<<>>, partials) /\ LooseCells(t)
  BY <1>3, EmptyList, CellLists DEF Flat, MayCopy, Present
<1>7. ASSUME NEW c, Shared(c)
      PROVE  Rc(c, pool, partials) + References(c, <<>>) + References(c, Top(m))
               + References(c, SlotsOf(partials)) =
             Rc(c, pool, partials) + References(c, t) + References(c, SlotsOf(partials))
  <2>1. References(c, Top(n + 1)) = One(c, b) + References(c, t)
    BY <1>1, <1>2, <1>3, TopNext
  <2>2. One(c, b) = 0
    BY <1>2, <1>3, <1>7, NotShared DEF Counted
  <2>3. PICK rc, k \in Nat : rc = Rc(c, pool, partials) /\ k = References(c, t)
    BY <1>6, <1>7, ListCounted, RcNumber DEF IInv
  <2>4. rc + 0 + (0 + k) = rc + k
    OBVIOUS
  <2> QED
    BY <1>1, <2>1, <2>2, <2>3, <2>4, ReferencesEmpty
<1>8. Returns(m, f, t, partials, <<>>, t)
  BY <1>1, <1>2
<1>9. \A i \in DOMAIN t : IsValueCell(t[i])
  BY <1>3
<1> QED
  BY <1>3, <1>4, <1>5, <1>6, <1>7, <1>8, <1>9, ReturnsKeeps DEF IInv

LEMMA CallPartialKeeps ==
  ASSUME IInv, NEW n \in Nat, Values(n + 1), Operand(n).k = "partial",
         NEW p, p = partials[N(Operand(n))], p.nargs = n, Functions[p.f].arguments = n,
         Returns(n + 1, p.f, Top(n) \o SubSeq(p.slots, n + 1, Len(p.slots)),
                 partials, <<>>, Top(n + 1))
  PROVE  IInv'
<1>1. PICK m \in Nat : m = n + 1
  OBVIOUS
<1>2. PICK t, b, id : t = Top(n) /\ b = Operand(n) /\ id = N(b)
  OBVIOUS
<1>3. /\ IsList(t) /\ Len(t) = n /\ DOMAIN t = 1..n
      /\ \A i \in 1..n : IsValueCell(t[i]) /\ Present(t[i])
      /\ IsValueCell(b) /\ Present(b) /\ Has(m)
  BY <1>1, <1>2, CallFrame
<1>4. b.k = "partial" /\ id \in PartialIds /\ p = partials[id] /\ p # Dead
  BY <1>2, <1>3, ValueCells DEF Present
<1>5. /\ p.f \in DOMAIN Functions /\ SlotsOK(p.f, p.nargs, p.slots) /\ MayCopy(p.slots, partials)
  BY <1>4, AlivePartial
<1>6. PICK f, slots : f = p.f /\ slots = p.slots
  OBVIOUS
<1>7. PICK k \in Nat : k = Functions[f].captures
  BY <1>5, <1>6, FunctionShape
<1>8. /\ Functions[f].arguments = n /\ IsList(slots) /\ Len(slots) = n + k
      /\ \A i \in DOMAIN slots : IF i \in (n - n + 1)..n THEN slots[i] = None ELSE IsValueCell(slots[i])
  BY <1>5, <1>6, <1>7 DEF SlotsOK
<1>9. PICK rest : rest = SubSeq(slots, n + 1, Len(slots))
  OBVIOUS
<1>10. IsList(rest) /\ Len(rest) = k /\ \A i \in 1..k : rest[i] = slots[n + i]
  <2>1. n + k \in Nat /\ n \in 0..(n + k) /\ (n + k) - n = k
    OBVIOUS
  <2> QED
    BY <1>8, <1>9, <2>1, ListSplit
<1>11. PICK frame : frame = t \o rest
  OBVIOUS
<1>12. /\ IsList(frame) /\ Len(frame) = n + k
       /\ \A i \in 1..n : frame[i] = t[i]
       /\ \A i \in 1..k : frame[n + i] = rest[i]
  <2>1. IsList(t) /\ IsList(rest)
    BY <1>3, <1>10
  <2>2. /\ IsList(t \o rest) /\ Len(t \o rest) = Len(t) + Len(rest)
        /\ \A i \in 1..Len(t) : (t \o rest)[i] = t[i]
        /\ \A i \in 1..Len(rest) : (t \o rest)[Len(t) + i] = rest[i]
    BY ONLY <2>1, ListConcat
  <2> QED
    BY <1>3, <1>10, <1>11, <2>2
<1>13. DOMAIN frame = 1..(n + k) /\ DOMAIN slots = 1..(n + k)
  BY <1>8, <1>12, ListFinite
<1>14. ASSUME NEW i \in 1..(n + k)
       PROVE  /\ IsValueCell(frame[i])
              /\ frame[i].k = "text" => frame[i].v \in DOMAIN pool
              /\ frame[i].k = "partial" => partials[N(frame[i])] # Dead
  <2>1. CASE i <= n
    <3>1. i \in 1..n
      BY <2>1
    <3>2. frame[i] = t[i]
      BY <1>12, <3>1
    <3> QED
      BY <1>3, <3>1, <3>2 DEF Present
  <2>2. CASE ~(i <= n)
    <3>1. PICK j \in 1..k : i = n + j /\ i \notin (n - n + 1)..n
      <4>1. i - n \in 1..k /\ i = n + (i - n) /\ i \notin (n - n + 1)..n
        BY <2>2
      <4> QED
        BY <4>1
    <3>2. frame[i] = slots[i]
      BY <1>10, <1>12, <3>1
    <3> QED
      BY <1>5, <1>6, <1>8, <1>13, <3>1, <3>2 DEF MayCopy
  <2> QED
    BY <2>1, <2>2
<1>15. MayCopy(frame, partials) /\ MayCopy(<<>>, partials)
  BY <1>12, <1>13, <1>14, EmptyList DEF Flat, MayCopy
<1>16. PICK size \in Nat : size = Len(stack) /\ m <= size
  BY <1>3, HasParts
<1>17. LooseCells(Top(m))
  BY <1>16, StackParts, CellLists
<1>18. ASSUME NEW c, Shared(c)
       PROVE  Rc(c, pool, partials) + References(c, <<>>) + References(c, Top(m))
                + References(c, SlotsOf(partials)) =
              Rc(c, pool, partials) + References(c, Top(m)) + References(c, SlotsOf(partials))
  <2>1. PICK rc \in Nat : rc = Rc(c, pool, partials)
    BY <1>18, RcNumber DEF IInv
  <2>2. rc + 0 = rc
    OBVIOUS
  <2> QED
    BY <2>1, <2>2, ReferencesEmpty
<1>19. Returns(m, f, frame, partials, <<>>, Top(m))
  BY <1>1, <1>2, <1>6, <1>9, <1>11
<1>20. f \in DOMAIN Functions /\ Len(frame) = Functions[f].arguments + Functions[f].captures
       /\ \A i \in DOMAIN frame : IsValueCell(frame[i])
  BY <1>5, <1>6, <1>7, <1>8, <1>12, <1>13, <1>14
<1> QED
  BY <1>3, <1>12, <1>15, <1>17, <1>18, <1>19, <1>20, ReturnsKeeps DEF IInv

LEMMA CallKeeps == IInv /\ Call => IInv'
<1> SUFFICES ASSUME IInv, Call PROVE IInv'
  OBVIOUS
<1>1. PICK n \in 0..(Len(stack) - 1) :
        /\ Uses("Call", n + 1)
        /\ LET c == Operand(n) IN
           CASE c.k = "func" /\ Functions[N(c)].arguments = n ->
                  Returns(n + 1, N(c), Top(n), partials, <<>>, Top(n))
             [] c.k = "partial" /\ partials[N(c)].nargs = n ->
                  LET p == partials[N(c)] IN
                  IF Functions[p.f].arguments # n THEN Stop("misbound")
                  ELSE Returns(n + 1, p.f, Top(n) \o SubSeq(p.slots, n + 1, Len(p.slots)),
                               partials, <<>>, Top(n + 1))
             [] OTHER -> Stop("error")
  BY DEF Call
<1>2. n \in Nat /\ Values(n + 1)
  BY <1>1 DEF Uses
<1>3. PICK c : c = Operand(n)
  OBVIOUS
<1>4. CASE c.k = "func" /\ Functions[N(c)].arguments = n
  <2>1. Returns(n + 1, N(c), Top(n), partials, <<>>, Top(n))
    BY <1>1, <1>3, <1>4
  <2> QED
    BY <1>2, <1>3, <1>4, <2>1, CallFuncKeeps
<1>5. CASE c.k = "partial" /\ partials[N(c)].nargs = n
  <2>1. PICK p : p = partials[N(c)]
    OBVIOUS
  <2>2. IF Functions[p.f].arguments # n THEN Stop("misbound")
        ELSE Returns(n + 1, p.f, Top(n) \o SubSeq(p.slots, n + 1, Len(p.slots)),
                     partials, <<>>, Top(n + 1))
    BY <1>1, <1>3, <1>5, <2>1
  <2>3. CASE Functions[p.f].arguments # n
    BY <2>2, <2>3, StopKeeps
  <2>4. CASE Functions[p.f].arguments = n
    <3>1. Returns(n + 1, p.f, Top(n) \o SubSeq(p.slots, n + 1, Len(p.slots)),
                  partials, <<>>, Top(n + 1))
      BY <2>2, <2>4
    <3> QED
      BY <1>2, <1>3, <1>5, <2>1, <2>4, <3>1, CallPartialKeeps
  <2> QED
    BY <2>3, <2>4
<1>6. CASE ~(c.k = "func" /\ Functions[N(c)].arguments = n) /\ ~(c.k = "partial" /\ partials[N(c)].nargs = n)
  <2>1. Stop("error")
    BY <1>1, <1>3, <1>6
  <2> QED
    BY <2>1, StopKeeps
<1> QED
  BY <1>4, <1>5, <1>6

-----------------------------------------------------------------------------
(* References that are given back.                                         *)

LEMMA ReleaseParts ==
  ASSUME IInv, Release, NEW h, h = Head(drop)
  PROVE  /\ drop = <<h>> \o Tail(drop) /\ LooseCells(Tail(drop))
         /\ h = None \/ WellMade(h)
         /\ \A i \in DOMAIN <<h>> : h = drop[1] /\ 1 \in DOMAIN drop
         /\ \A c : References(c, drop) = One(c, h) + References(c, Tail(drop))
<1>1. IsList(drop) /\ drop # <<>> /\ \A i \in DOMAIN drop : drop[i] = None \/ WellMade(drop[i])
  BY DEF IInv, LooseCells, Release
<1>2. PICK d, t : d = drop /\ t = Tail(drop)
  OBVIOUS
<1>3. /\ d = <<h>> \o t /\ IsList(t) /\ h = d[1] /\ 1 \in DOMAIN d
      /\ \A i \in DOMAIN t : i + 1 \in DOMAIN d /\ t[i] = d[i + 1]
  BY <1>1, <1>2, ListTail
<1>4. LooseCells(t) /\ (h = None \/ WellMade(h))
  BY <1>1, <1>2, <1>3 DEF LooseCells
<1>5. IsList(h.e)
  BY <1>4, CellLists, CellFields, EmptyList
<1>6. GoodList(t)
  BY <1>4, CellLists
<1>7. ASSUME NEW c PROVE References(c, d) = One(c, h) + References(c, t)
  <2>1. GoodList(<<h>>) /\ References(c, <<h>>) = One(c, h)
    BY <1>5, ReferencesOne
  <2>2. References(c, <<h>> \o t) = References(c, <<h>>) + References(c, t)
    BY <1>6, <2>1, ReferencesConcat
  <2> QED
    BY <1>3, <2>1, <2>2
<1> QED
  BY <1>2, <1>3, <1>4, <1>7

(* Releasing changes counts as it changes what is to be released.          *)
LEMMA ReleasedKeeps ==
  ASSUME IInv, Release, PoolOK(pool'), PartialsOK(partials'),
         NEW more, LooseCells(more), drop' = more \o Tail(drop),
         \A c : Shared(c) =>
           Rc(c, pool', partials') + One(c, Head(drop)) + References(c, SlotsOf(partials)) =
           Rc(c, pool, partials) + References(c, more) + References(c, SlotsOf(partials'))
  PROVE  IInv'
<1>1. script' = script /\ env' = env /\ stack' = stack /\ status' = status
  BY DEF Release
<1>2. PICK h, t : h = Head(drop) /\ t = Tail(drop)
  OBVIOUS
<1>3. /\ LooseCells(t) /\ \A c : References(c, drop) = One(c, h) + References(c, t)
      /\ h = None \/ WellMade(h)
  BY <1>2, ReleaseParts
<1>4. GoodList(more) /\ GoodList(t)
  BY <1>3, CellLists
<1>5. LooseCells(drop')
  <2>1. PICK m, n \in Nat : m = Len(more) /\ n = Len(t) /\ DOMAIN more = 1..m /\ DOMAIN t = 1..n
    BY <1>3, ListFinite DEF LooseCells
  <2>2. /\ IsList(more \o t) /\ Len(more \o t) = m + n
        /\ \A i \in 1..m : (more \o t)[i] = more[i]
        /\ \A i \in 1..n : (more \o t)[m + i] = t[i]
    BY <1>3, <2>1, ListConcat DEF LooseCells
  <2>3. PICK d : d = more \o t
    OBVIOUS
  <2>4. DOMAIN d = 1..(m + n)
    BY <2>2, <2>3, ListFinite
  <2>5. \A i \in 1..(m + n) : d[i] = None \/ WellMade(d[i])
    <3> TAKE i \in 1..(m + n)
    <3>1. CASE i <= m
      BY <2>1, <2>2, <2>3, <3>1 DEF LooseCells
    <3>2. CASE ~(i <= m)
      <4>1. i - m \in 1..n /\ m + (i - m) = i
        BY <3>2
      <4>2. d[i] = t[i - m]
        BY <2>2, <2>3, <4>1
      <4> QED
        BY <1>3, <2>1, <4>1, <4>2 DEF LooseCells
    <3> QED
      BY <3>1, <3>2
  <2> QED
    BY <1>2, <2>2, <2>3, <2>4, <2>5 DEF LooseCells
<1>6. ASSUME NEW c, Shared(c)
      PROVE  Rc(c, pool', partials') + References(c, env) + References(c, stack)
               + References(c, drop) + References(c, SlotsOf(partials)) =
             Rc(c, pool, partials) + References(c, env') + References(c, stack')
               + References(c, drop') + References(c, SlotsOf(partials'))
  <2>1. References(c, drop') = References(c, more) + References(c, t)
    BY <1>2, <1>4, ReferencesConcat
  <2>2. PICK rc, rc2, e, k, s, s2, o, m, n \in Nat :
          /\ rc = Rc(c, pool, partials) /\ rc2 = Rc(c, pool', partials')
          /\ e = References(c, env) /\ k = References(c, stack)
          /\ s = References(c, SlotsOf(partials)) /\ s2 = References(c, SlotsOf(partials'))
          /\ o = One(c, h) /\ m = References(c, more) /\ n = References(c, t)
    <3>1. One(c, h) \in Nat
      BY <1>3, CellLists, CellFields, EmptyList, AtFinite
    <3>2. References(c, more) \in Nat /\ References(c, t) \in Nat
      BY <1>3, ListCounted
    <3> QED
      BY <1>6, <3>1, <3>2, AllCounted, RcNumber, SlotsGood DEF IInv
  <2>3. rc2 + o + s = rc + m + s2
    BY <1>2, <1>6, <2>2
  <2>4. rc2 + e + k + (o + n) + s = rc + e + k + (m + n) + s2
    BY <2>3
  <2> QED
    BY <1>1, <1>3, <2>1, <2>2, <2>4
<1> QED
  BY <1>1, <1>5, <1>6, Keeps DEF IInv

LEMMA EmptyConcat == \A s : IsList(s) => <<>> \o s = s
<1> SUFFICES ASSUME NEW s, IsList(s) PROVE <<>> \o s = s
  OBVIOUS
<1>1. PICK S : s \in Seq(S)
  BY DEF IsList
<1> QED
  BY <1>1

LEMMA ReleaseOther ==
  ASSUME IInv, Release, Head(drop).k \notin {"text", "partial"}
  PROVE  IInv'
<1>1. PICK h : h = Head(drop)
  OBVIOUS
<1>2. pool' = pool /\ partials' = partials /\ drop' = h.e \o Tail(drop)
  BY <1>1 DEF Release
<1>3. h = None \/ WellMade(h)
  BY <1>1, ReleaseParts
<1>4. Flat(h.e) /\ \A c : Shared(c) => One(c, h) = References(c, h.e)
  <2>1. CASE h = None \/ IsValueCell(h)
    <3>1. h.e = <<>> /\ Flat(<<>>)
      BY <2>1, FlatCells, EmptyList DEF Flat
    <3>2. ASSUME NEW c, Shared(c) PROVE One(c, h) = 0
      <4>1. h # c
        BY <1>1, <3>2, SharedCells
      <4> QED
        BY <3>1, <4>1, OneFlat
    <3> QED
      BY <3>1, <3>2, ReferencesEmpty
  <2>2. CASE h = Arr(h.e) /\ ValueList(h.e)
    <3>1. PICK s : s = h.e
      OBVIOUS
    <3>2. Flat(s) /\ h = Arr(s)
      BY <2>2, <3>1, CellLists
    <3>3. \A c : Shared(c) => One(c, Arr(s)) = References(c, s)
      BY <3>2, OneArray
    <3> QED
      BY <3>1, <3>2, <3>3
  <2> QED
    BY <1>3, <2>1, <2>2 DEF WellMade
<1>5. LooseCells(h.e)
  BY <1>4, CellLists
<1>6. ASSUME NEW c, Shared(c)
      PROVE  Rc(c, pool', partials') + One(c, Head(drop)) + References(c, SlotsOf(partials)) =
             Rc(c, pool, partials) + References(c, h.e) + References(c, SlotsOf(partials'))
  BY <1>1, <1>2, <1>4, <1>6
<1> QED
  BY <1>2, <1>5, <1>6, ReleasedKeeps DEF IInv

LEMMA ReleaseText ==
  ASSUME IInv, Release, Head(drop).k = "text"
  PROVE  IInv'
<1>1. PICK h, s : h = Head(drop) /\ s = h.v
  OBVIOUS
<1>2. partials' = partials /\ drop' = Tail(drop)
      /\ pool' = IF pool[s] = 1 THEN [t \in DOMAIN pool \ {s} |-> pool[t]] ELSE [pool EXCEPT ![s] = @ - 1]
  BY <1>1 DEF Release
<1>3. (h = None \/ WellMade(h)) /\ h = drop[1] /\ 1 \in DOMAIN drop /\ LooseCells(Tail(drop))
  <2>1. 1 \in DOMAIN <<h>>
    BY OneElement
  <2> QED
    BY <1>1, <2>1, ReleaseParts
<1>4. IsValueCell(h) /\ h = Text(s) /\ h.k = "text" /\ h.e = <<>>
  <2>1. IsValueCell(h)
    BY <1>1, <1>3, CellFields DEF WellMade
  <2> QED
    BY <1>1, <2>1, ValueCells
<1>5. s \in DOMAIN pool /\ pool[s] \in Nat \ {0}
  <2>1. Present(h)
    BY <1>3, <1>4, CellPresent
  <2> QED
    BY <1>1, <1>4, <2>1 DEF Present, IInv, PoolOK
<1>6. PoolOK(pool')
  <2>1. CASE pool[s] = 1
    BY <1>2, <2>1 DEF IInv, PoolOK
  <2>2. CASE pool[s] # 1
    <3>1. pool[s] - 1 \in Nat \ {0}
      BY <1>5, <2>2
    <3> QED
      BY <1>2, <2>2, <3>1 DEF IInv, PoolOK
  <2> QED
    BY <2>1, <2>2
<1>7. LooseCells(<<>>) /\ drop' = <<>> \o Tail(drop)
  BY <1>2, <1>3, EmptyList, EmptyConcat DEF LooseCells
<1>8. ASSUME NEW c, Shared(c)
      PROVE  Rc(c, pool', partials') + One(c, Head(drop)) + References(c, SlotsOf(partials)) =
             Rc(c, pool, partials) + References(c, <<>>) + References(c, SlotsOf(partials'))
  <2>1. One(c, h) = IF h = c THEN 1 ELSE 0
    BY <1>4, OneFlat
  <2>2. PICK rc, rc2, k \in Nat :
          /\ rc = Rc(c, pool, partials) /\ rc2 = Rc(c, pool', partials')
          /\ k = References(c, SlotsOf(partials))
    BY <1>2, <1>6, <1>8, RcNumber, SlotsGood DEF IInv
  <2>3. rc2 + One(c, h) = rc
    <3>1. ASSUME NEW x, c = Text(x), c.k = "text", c.v = x PROVE rc2 + One(c, h) = rc
      <4>1. h = c <=> s = x
        BY <1>4, <3>1, TextsApart
      <4>2. rc = IF x \in DOMAIN pool THEN pool[x] ELSE 0
        BY <2>2, <3>1 DEF Rc
      <4>3. rc2 = IF x \in DOMAIN pool' THEN pool'[x] ELSE 0
        BY <2>2, <3>1 DEF Rc
      <4>4. CASE pool[s] = 1
        BY <1>2, <1>5, <2>1, <2>2, <4>1, <4>2, <4>3, <4>4
      <4>5. CASE pool[s] # 1
        BY <1>2, <1>5, <2>1, <2>2, <4>1, <4>2, <4>3, <4>5
      <4> QED
        BY <4>4, <4>5
    <3>2. ASSUME c.k = "partial" PROVE rc2 + One(c, h) = rc
      <4>1. h # c /\ rc2 = rc
        BY <1>2, <1>4, <2>2, <3>2 DEF Rc
      <4> QED
        BY <2>1, <2>2, <4>1
    <3> QED
      BY <1>8, <3>1, <3>2, SharedCells
  <2>4. PICK o \in Nat : o = One(c, h)
    BY <2>1
  <2>5. rc2 + o + k = rc + 0 + k
    BY <2>3, <2>4
  <2> QED
    BY <1>1, <1>2, <2>2, <2>4, <2>5, ReferencesEmpty
<1> QED
  BY <1>2, <1>6, <1>7, <1>8, ReleasedKeeps DEF IInv

LEMMA ReleasePartial ==
  ASSUME IInv, Release, Head(drop).k = "partial"
  PROVE  IInv'
<1>1. PICK h, id : h = Head(drop) /\ id = N(h)
  OBVIOUS
<1>2. PICK p : p = partials[id]
  OBVIOUS
<1>3. PICK more, new :
        /\ more = IF p.rc = 1 THEN p.slots ELSE <<>>
        /\ new = IF p.rc = 1 THEN Dead ELSE [p EXCEPT !.rc = @ - 1]
  OBVIOUS
<1>4. pool' = pool /\ partials' = [partials EXCEPT ![id] = new] /\ drop' = more \o Tail(drop)
  <2>1. /\ pool' = pool
        /\ drop' = (IF partials[N(h)].rc = 1 THEN partials[N(h)].slots ELSE <<>>) \o Tail(drop)
    BY <1>1 DEF Release
  <2>2. partials' = [partials EXCEPT ![N(h)] = OneLess(partials[N(h)])]
    BY <1>1 DEF Release
  <2>3. OneLess(p) = new
    BY <1>3 DEF OneLess
  <2> QED
    BY <1>1, <1>2, <1>3, <2>1, <2>2, <2>3
<1>5. (h = None \/ WellMade(h)) /\ h = drop[1] /\ 1 \in DOMAIN drop /\ LooseCells(Tail(drop))
  <2>1. 1 \in DOMAIN <<h>>
    BY OneElement
  <2> QED
    BY <1>1, <2>1, ReleaseParts
<1>6. IsValueCell(h) /\ h = Partial(id) /\ h.k = "partial" /\ h.e = <<>> /\ id \in PartialIds
  <2>1. IsValueCell(h)
    BY <1>1, <1>5, CellFields DEF WellMade
  <2> QED
    BY <1>1, <2>1, ValueCells
<1>7. p # Dead
  <2>1. Present(h)
    BY <1>5, <1>6, CellPresent
  <2> QED
    BY <1>1, <1>2, <1>6, <2>1 DEF Present
<1>8. PICK rc, f, nargs, slots :
        /\ p = [rc |-> rc, f |-> f, nargs |-> nargs, slots |-> slots]
        /\ rc \in Nat \ {0} /\ f \in DOMAIN Functions /\ SlotsOK(f, nargs, slots)
        /\ rc = p.rc /\ slots = p.slots /\ f = p.f /\ nargs = p.nargs
  BY <1>2, <1>6, <1>7, AlivePartial
<1>9. Flat(slots) /\ Flat(<<>>)
  BY <1>8, EmptyList DEF SlotsOK, Flat
<1>10. /\ new = IF rc = 1 THEN Dead ELSE [rc |-> rc - 1, f |-> f, nargs |-> nargs, slots |-> slots]
       /\ more = IF rc = 1 THEN slots ELSE <<>>
  BY <1>3, <1>8
<1>11. PartialOK(new) /\ new.rc = rc - 1
  <2>1. CASE rc = 1
    BY <1>10, <2>1 DEF PartialOK, Dead
  <2>2. CASE rc # 1
    <3>1. rc - 1 \in Nat \ {0}
      BY <1>8, <2>2
    <3> QED
      BY <1>8, <1>10, <2>2, <3>1 DEF PartialOK
  <2> QED
    BY <2>1, <2>2
<1>12. /\ DOMAIN partials = PartialIds /\ DOMAIN partials' = PartialIds
       /\ partials'[id] = new /\ \A q \in PartialIds \ {id} : partials'[q] = partials[q]
       /\ partials' = [q \in PartialIds |-> partials'[q]]
  BY <1>4, <1>6 DEF IInv, PartialsOK
<1>13. PartialsOK(partials')
  BY <1>11, <1>12 DEF IInv, PartialsOK
<1>14. LooseCells(more)
  BY <1>9, <1>10, CellLists
<1>15. ASSUME NEW c, Shared(c)
       PROVE  References(c, SlotsOf(partials')) + References(c, more) = References(c, SlotsOf(partials))
  <2>1. PICK g, h2 : g = SlotsOf(partials) /\ h2 = SlotsOf(partials')
    OBVIOUS
  <2>2. Good(g) /\ Good(h2) /\ References(c, g) \in Nat /\ References(c, h2) \in Nat
    BY <1>13, <2>1, SlotsGood DEF IInv
  <2>3. /\ DOMAIN h2 = DOMAIN g /\ id \in DOMAIN g /\ \A q \in DOMAIN g \ {id} : h2[q] = g[q]
        /\ g[id] = Arr(slots) /\ h2[id] = Arr(new.slots)
    BY <1>2, <1>6, <1>8, <1>12, <2>1 DEF SlotsOf
  <2>4. References(c, h2) + One(c, g[id]) = References(c, g) + One(c, h2[id])
    BY <2>2, <2>3, ReferencesChange
  <2>5. One(c, Arr(slots)) = References(c, slots)
    BY <1>9, <1>15, OneArray
  <2>6. PICK k \in Nat : k = References(c, slots)
    BY <1>9, CellLists, ListCounted
  <2>7. CASE rc = 1
    <3>1. new.slots = <<>> /\ more = slots
      BY <1>10, <2>7 DEF Dead
    <3>2. One(c, Arr(<<>>)) = 0
      BY <1>9, <1>15, OneArray, ReferencesEmpty
    <3>3. References(c, h2) + k = References(c, g) + 0
      BY <2>3, <2>4, <2>5, <2>6, <3>1, <3>2
    <3> QED
      BY <2>1, <2>2, <2>6, <3>1, <3>3
  <2>8. CASE rc # 1
    <3>1. new.slots = slots /\ more = <<>>
      BY <1>10, <2>8
    <3>2. References(c, h2) + k = References(c, g) + k
      BY <2>3, <2>4, <2>5, <2>6, <3>1
    <3>3. PICK x, y \in Nat : x = References(c, h2) /\ y = References(c, g)
      BY <2>2
    <3>4. x + 0 = y
      BY <2>6, <3>2, <3>3
    <3> QED
      BY <2>1, <3>1, <3>3, <3>4, ReferencesEmpty
  <2> QED
    BY <2>7, <2>8
<1>16. ASSUME NEW c, Shared(c)
       PROVE  Rc(c, pool', partials') + One(c, h) = Rc(c, pool, partials)
  <2>1. One(c, h) = IF h = c THEN 1 ELSE 0
    BY <1>6, OneFlat
  <2>2. ASSUME c.k = "text" PROVE Rc(c, pool', partials') + One(c, h) = Rc(c, pool, partials)
    <3>1. h # c
      BY <1>6, <2>2
    <3>2. Rc(c, pool', partials') = Rc(c, pool, partials)
      BY <1>4, <2>2 DEF Rc
    <3>3. Rc(c, pool, partials) \in Nat
      BY <1>16, RcNumber DEF IInv
    <3> QED
      BY <2>1, <3>1, <3>2, <3>3
  <2>3. ASSUME NEW q \in PartialIds, c = Partial(q), c.k = "partial", N(c) = q
        PROVE  Rc(c, pool', partials') + One(c, h) = Rc(c, pool, partials)
    <3>1. Rc(c, pool', partials') = partials'[q].rc /\ Rc(c, pool, partials) = partials[q].rc
      BY <2>3 DEF Rc
    <3>2. h = c <=> id = q
      BY <1>6, <2>3, PartialsApart
    <3>3. CASE q = id
      <4>1. partials'[q].rc = rc - 1 /\ partials[q].rc = rc
        BY <1>2, <1>8, <1>11, <1>12, <3>3
      <4>2. One(c, h) = 1
        BY <2>1, <3>2, <3>3
      <4> QED
        BY <1>8, <3>1, <4>1, <4>2
    <3>4. CASE q # id
      <4>1. partials'[q].rc = partials[q].rc /\ One(c, h) = 0
        BY <1>12, <2>1, <3>2, <3>4
      <4>2. Rc(c, pool, partials) \in Nat
        BY <1>16, RcNumber DEF IInv
      <4> QED
        BY <3>1, <4>1, <4>2
    <3> QED
      BY <3>3, <3>4
  <2> QED
    BY <1>16, <2>2, <2>3, SharedCells
<1>17. ASSUME NEW c, Shared(c)
       PROVE  Rc(c, pool', partials') + One(c, Head(drop)) + References(c, SlotsOf(partials)) =
              Rc(c, pool, partials) + References(c, more) + References(c, SlotsOf(partials'))
  <2>1. PICK r, r2, m, s, s2, o \in Nat :
          /\ r = Rc(c, pool, partials) /\ r2 = Rc(c, pool', partials')
          /\ m = References(c, more) /\ o = One(c, h)
          /\ s = References(c, SlotsOf(partials)) /\ s2 = References(c, SlotsOf(partials'))
    <3>1. One(c, h) \in Nat
      BY <1>6, EmptyList, AtFinite
    <3> QED
      BY <1>4, <1>13, <1>14, <1>17, <3>1, ListCounted, RcNumber, SlotsGood DEF IInv
  <2>2. s2 + m = s /\ r2 + o = r
    BY <1>15, <1>16, <1>17, <2>1
  <2>3. r2 + o + s = r + m + s2
    BY <2>2
  <2> QED
    BY <1>1, <2>1, <2>3
<1>18. PoolOK(pool')
  BY <1>4 DEF IInv
<1> QED
  BY <1>4, <1>13, <1>14, <1>17, <1>18, ReleasedKeeps

LEMMA ReleaseKeeps == IInv /\ Release => IInv'
BY ReleaseText, ReleasePartial, ReleaseOther

-----------------------------------------------------------------------------
(* The invariant holds.                                                    *)

LEMMA InitInv == Init => IInv
<1> SUFFICES ASSUME Init PROVE IInv
  OBVIOUS
<1>1. /\ script \in Scripts /\ env = [v \in script.vars |-> Null] /\ stack = <<>>
      /\ pool = [s \in {c.v : c \in {c \in script.values : c.k = "text"}} |-> 1]
      /\ partials = [p \in PartialIds |-> Dead] /\ drop = <<>> /\ status = "ok"
  BY DEF Init
<1>2. DOMAIN env = script.vars /\ \A v \in script.vars : env[v] = Null /\ IsValueCell(env[v])
  BY <1>1, ValuesMade
<1>3. Cells(stack) /\ LooseCells(drop)
  BY <1>1, EmptyList DEF Cells, LooseCells
<1>4. PoolOK(pool)
  BY <1>1 DEF PoolOK
<1>5. PartialsOK(partials) /\ \A p \in PartialIds : partials[p] = Dead
  <2>1. DOMAIN partials = PartialIds /\ \A p \in PartialIds : partials[p] = Dead
    BY <1>1
  <2>2. partials = [p \in PartialIds |-> partials[p]]
    BY <1>1
  <2> QED
    BY <2>1, <2>2 DEF PartialsOK, PartialOK
<1>6. ASSUME NEW c, Shared(c) PROVE Rc(c, pool, partials) = AllReferences(c) + Constant(c)
  <2>1. References(c, stack) = 0 /\ References(c, drop) = 0
    BY <1>1, ReferencesEmpty
  <2>2. References(c, env) = 0
    <3>1. \A v \in DOMAIN env : At(c, env[v]) = {}
      <4> TAKE v \in DOMAIN env
      <4>1. env[v] = Null /\ Null.e = <<>> /\ Null # c
        BY <1>2, <1>6, SharedCells, CellFields
      <4>2. At(c, env[v]) = {j \in 0..0 : IF j = 0 THEN Null = c ELSE Null.e[j] = c}
        BY <4>1, EmptyList DEF At
      <4> QED
        BY <4>1, <4>2
    <3> QED
      BY <3>1, ReferencesNone
  <2>3. References(c, Slots) = 0
    <3>1. \A p \in DOMAIN Slots : At(c, Slots[p]) = {}
      <4> TAKE p \in DOMAIN Slots
      <4>1. PICK x : x = Slots[p]
        OBVIOUS
      <4>2. x = Arr(<<>>)
        BY <1>5, <4>1 DEF Slots, Dead
      <4>3. x.e = <<>> /\ x # c
        BY <1>6, <4>2, SharedCells, CellFields
      <4>4. At(c, x) = {j \in 0..0 : IF j = 0 THEN x = c ELSE x.e[j] = c}
        BY <4>3, EmptyList DEF At
      <4> QED
        BY <4>1, <4>3, <4>4
    <3> QED
      BY <3>1, ReferencesNone
  <2>4. AllReferences(c) = 0
    BY <2>1, <2>2, <2>3 DEF AllReferences
  <2>5. ASSUME NEW s, c = Text(s), c.k = "text", c.v = s
        PROVE  Rc(c, pool, partials) = Constant(c)
    <3>1. c.v \in DOMAIN pool <=> c \in script.values
      <4>1. ASSUME NEW d \in script.values, d.k = "text", d.v = c.v PROVE c \in script.values
        <5>1. IsValueCell(d)
          BY <1>1, ScriptsAssumption
        <5>2. d = Text(c.v)
          BY <4>1, <5>1, ValueCells
        <5> QED
          BY <2>5, <5>2
      <4> QED
        BY <1>1, <2>5, <4>1
    <3>2. c.v \in DOMAIN pool => pool[c.v] = 1
      BY <1>1
    <3> QED
      BY <2>5, <3>1, <3>2 DEF Rc, Constant
  <2>6. ASSUME NEW p \in PartialIds, c = Partial(p), c.k = "partial", N(c) = p
        PROVE  Rc(c, pool, partials) = Constant(c)
    <3>1. c \notin script.values
      BY <1>1, <2>6, ScriptsAssumption
    <3>2. Rc(c, pool, partials) = 0
      BY <1>5, <2>6 DEF Rc, Dead
    <3> QED
      BY <3>1, <3>2 DEF Constant
  <2>7. Rc(c, pool, partials) = Constant(c) /\ Constant(c) \in Nat
    BY <1>6, <2>5, <2>6, SharedCells DEF Constant
  <2> QED
    BY <2>4, <2>7
<1> QED
  BY <1>1, <1>2, <1>3, <1>4, <1>5, <1>6 DEF IInv, Balanced

LEMMA NextInv == IInv /\ [Next]_vars => IInv'
<1> SUFFICES ASSUME IInv, [Next]_vars PROVE IInv'
  OBVIOUS
<1>1. CASE Release
  BY <1>1, ReleaseKeeps
<1>2. CASE Push \/ PushVar \/ WriteVar \/ Pop
  BY <1>2, PushKeeps, PushVarKeeps, WriteVarKeeps, PopKeeps
<1>3. CASE Arith \/ Neg \/ Cmp \/ CmpOp \/ Not
  BY <1>3, ArithKeeps, NegKeeps, CmpKeeps, CmpOpKeeps, NotKeeps
<1>4. CASE AppendOp \/ Get \/ Slice \/ CreateArray \/ In
  BY <1>4, AppendOpKeeps, GetKeeps, SliceKeeps, CreateArrayKeeps, InKeeps
<1>5. CASE CreateClosure \/ Apply \/ Call
  BY <1>5, CreateClosureKeeps, ApplyKeeps, CallKeeps
<1>6. CASE UNCHANGED vars
  BY <1>6, StutterKeeps
<1> QED
  BY <1>1, <1>2, <1>3, <1>4, <1>5, <1>6 DEF Next

LEMMA Invariant == Spec => []IInv
BY InitInv, NextInv, PTL DEF Spec

(* What variables, operands and references to be released hold are cells,  *)
(* strings and partial applications have counts while something refers to  *)
(* them, and there is no outcome but those named.                          *)
THEOREM TypesAlwaysRight == Spec => []TypeOK
<1>1. IInv => TypeOK
  <2> SUFFICES ASSUME IInv PROVE TypeOK
    OBVIOUS
  <2>1. \A c : WellMade(c) => IsCell(c)
    BY CellFields DEF WellMade, IsCell, ValueList
  <2>2. \A i \in DOMAIN stack : IsCell(stack[i])
    BY <2>1 DEF IInv, Cells
  <2>3. \A i \in DOMAIN drop : drop[i] = None \/ IsCell(drop[i])
    BY <2>1 DEF IInv, LooseCells
  <2>4. DOMAIN partials = PartialIds
    BY DEF IInv, PartialsOK
  <2>5. \A p \in PartialIds : partials[p].rc > 0 <=> partials[p] # Dead
    <3> TAKE p \in PartialIds
    <3>1. PartialOK(partials[p])
      BY DEF IInv, PartialsOK
    <3>2. partials[p].rc \in Nat /\ (partials[p].rc = 0 <=> partials[p] = Dead)
      BY <3>1, PartialSlots
    <3> QED
      BY <3>2
  <2> QED
    BY <2>2, <2>3, <2>4, <2>5 DEF IInv, PoolOK, TypeOK
<1> QED
  BY <1>1, Invariant, PTL

LEMMA TextsPresent ==
  ASSUME IInv, NEW cells, NEW i \in DOMAIN cells, cells[i] = None \/ WellMade(cells[i]),
         \A c : IsValueCell(c) /\ (cells[i] = c \/ \E j \in DOMAIN cells[i].e : cells[i].e[j] = c)
                => Present(c),
         NEW c, c = cells[i] \/ \E j \in DOMAIN cells[i].e : cells[i].e[j] = c, c.k = "text"
  PROVE  c.v \in DOMAIN pool
<1>1. PICK x : x = cells[i]
  OBVIOUS
<1>2. IsValueCell(c)
  <2>1. CASE x = None \/ IsValueCell(x)
    <3>1. x.e = <<>>
      BY <2>1, FlatCells
    <3>2. c = x /\ c # None
      BY <1>1, <3>1, EmptyList, CellFields
    <3> QED
      BY <2>1, <3>2
  <2>2. CASE x = Arr(x.e) /\ ValueList(x.e)
    <3>1. x.k = "arr"
      BY <2>2, CellFields
    <3> QED
      BY <1>1, <2>2, <3>1 DEF ValueList
  <2> QED
    BY <1>1, <2>1, <2>2 DEF WellMade
<1>3. Present(c)
  BY <1>2
<1> QED
  BY <1>3 DEF Present

(* Counts are exact: a string's entry of the table counts the cells and    *)
(* elements of arrays that refer to it, a partial application's count      *)
(* those that refer to it, and what cells refer to exists.  So the string  *)
(* operators, the binding of captures and arguments and the release of     *)
(* operands neither leak nor leave anything dangling.                      *)
THEOREM CountsAlwaysExact == Spec => []CountsExact
<1>1. IInv => CountsExact
  <2> SUFFICES ASSUME IInv PROVE CountsExact
    OBVIOUS
  <2>1. ASSUME NEW s \in DOMAIN pool
        PROVE  pool[s] = AllReferences(Text(s)) + (IF Text(s) \in script.values THEN 1 ELSE 0)
    <3>1. PICK c : c = Text(s)
      OBVIOUS
    <3>2. c.k = "text" /\ c.v = s /\ Shared(c)
      BY <3>1, CellFields DEF Shared
    <3>3. Rc(c, pool, partials) = AllReferences(c) + Constant(c)
      BY <3>2 DEF IInv, Balanced
    <3> QED
      BY <3>1, <3>2, <3>3 DEF Rc, Constant
  <2>2. ASSUME NEW p \in PartialIds
        PROVE  partials[p].rc = AllReferences(Partial(p))
    <3>1. PICK c : c = Partial(p)
      OBVIOUS
    <3>2. c.k = "partial" /\ N(c) = p /\ Shared(c)
      BY <3>1, CellFields DEF Shared
    <3>3. Rc(c, pool, partials) = AllReferences(c) + Constant(c)
      BY <3>2 DEF IInv, Balanced
    <3>4. Constant(c) = 0
      BY <3>2, ScriptsAssumption DEF IInv, Constant
    <3>5. AllReferences(c) \in Nat
      BY AllCounted
    <3>6. Rc(c, pool, partials) = partials[p].rc
      BY <3>2 DEF Rc
    <3> QED
      BY <3>1, <3>3, <3>4, <3>5, <3>6
  <2>3. ASSUME NEW cells, \A i \in DOMAIN cells : cells[i] = None \/ WellMade(cells[i]),
               \A i \in DOMAIN cells : \A c :
                 IsValueCell(c) /\ (cells[i] = c \/ \E j \in DOMAIN cells[i].e : cells[i].e[j] = c)
                   => Present(c)
        PROVE  TextsIn(cells) \subseteq DOMAIN pool
    <3> SUFFICES ASSUME NEW s \in TextsIn(cells) PROVE s \in DOMAIN pool
      OBVIOUS
    <3>1. PICK i \in DOMAIN cells :
            \E c : c.k = "text" /\ s = c.v
                   /\ (c = cells[i] \/ \E j \in DOMAIN cells[i].e : cells[i].e[j] = c)
      BY DEF TextsIn
    <3> QED
      BY <2>3, <3>1, TextsPresent
  <2>4. TextsIn(env) \subseteq DOMAIN pool
    <3>1. \A v \in DOMAIN env : WellMade(env[v]) /\ env[v].e = <<>>
      BY ValueCells DEF IInv, WellMade
    <3>2. \A v \in DOMAIN env : \A c :
            IsValueCell(c) /\ (env[v] = c \/ \E j \in DOMAIN env[v].e : env[v].e[j] = c) => Present(c)
      BY <3>1, EmptyList, CellPresent DEF IInv
    <3> QED
      BY <2>3, <3>1, <3>2
  <2>5. TextsIn(stack) \subseteq DOMAIN pool
    <3>1. \A i \in DOMAIN stack : WellMade(stack[i])
      BY DEF IInv, Cells
    <3>2. \A i \in DOMAIN stack : \A c :
            IsValueCell(c) /\ (stack[i] = c \/ \E j \in DOMAIN stack[i].e : stack[i].e[j] = c) => Present(c)
      BY CellPresent
    <3> QED
      BY <2>3, <3>1, <3>2
  <2>6. TextsIn(drop) \subseteq DOMAIN pool
    <3>1. \A i \in DOMAIN drop : drop[i] = None \/ WellMade(drop[i])
      BY DEF IInv, LooseCells
    <3>2. \A i \in DOMAIN drop : \A c :
            IsValueCell(c) /\ (drop[i] = c \/ \E j \in DOMAIN drop[i].e : drop[i].e[j] = c) => Present(c)
      BY CellPresent
    <3> QED
      BY <2>3, <3>1, <3>2
  <2>7. TextsIn(Slots) \subseteq DOMAIN pool
    <3> SUFFICES ASSUME NEW s \in TextsIn(Slots) PROVE s \in DOMAIN pool
      OBVIOUS
    <3>1. PICK p \in PartialIds :
            \E c : c.k = "text" /\ s = c.v
                   /\ (c = Slots[p] \/ \E j \in DOMAIN Slots[p].e : Slots[p].e[j] = c)
      BY DEF TextsIn, Slots
    <3>2. Slots[p] = Arr(partials[p].slots)
      BY DEF Slots
    <3>3. Slots[p].k = "arr" /\ Slots[p].e = partials[p].slots
      BY <3>2, CellFields
    <3>4. PICK j \in DOMAIN partials[p].slots :
            partials[p].slots[j].k = "text" /\ s = partials[p].slots[j].v
      BY <3>1, <3>3
    <3>5. PartialOK(partials[p])
      BY DEF IInv, PartialsOK
    <3>6. Flat(partials[p].slots)
      BY <3>5, PartialSlots
    <3>7. IsValueCell(partials[p].slots[j])
      BY <3>4, <3>6, CellFields DEF Flat
    <3>8. Present(partials[p].slots[j])
      BY <3>7, CellPresent
    <3> QED
      BY <3>4, <3>8 DEF Present
  <2> QED
    BY <2>1, <2>2, <2>4, <2>5, <2>6, <2>7 DEF CountsExact
<1> QED
  BY <1>1, Invariant, PTL

(* A partial application lacks its last arguments, as many as it says, and *)
(* never a capture, so that apply always finds the slot of a parameter.    *)
THEOREM SlotsAlwaysInOrder == Spec => []SlotsInOrder
<1>1. IInv => SlotsInOrder
  <2> SUFFICES ASSUME IInv, NEW p \in PartialIds, partials[p].rc > 0
               PROVE  Empty(partials[p]) =
                        (Functions[partials[p].f].arguments - partials[p].nargs + 1)
                          ..Functions[partials[p].f].arguments
    BY DEF SlotsInOrder
  <2>1. partials[p] # Dead
    BY DEF Dead
  <2>2. partials[p].f \in DOMAIN Functions /\ SlotsOK(partials[p].f, partials[p].nargs, partials[p].slots)
    BY <2>1, AlivePartial
  <2>3. PICK f, nargs, slots :
          /\ f = partials[p].f /\ nargs = partials[p].nargs /\ slots = partials[p].slots
    OBVIOUS
  <2>4. PICK a, k \in Nat : a = Functions[f].arguments /\ k = Functions[f].captures
    BY <2>2, <2>3, FunctionShape
  <2>5. /\ nargs \in 0..a /\ IsList(slots) /\ Len(slots) = a + k
        /\ \A i \in DOMAIN slots :
             IF i \in (a - nargs + 1)..a THEN slots[i] = None ELSE IsValueCell(slots[i])
    BY <2>2, <2>3, <2>4 DEF SlotsOK
  <2>6. DOMAIN slots = 1..(a + k) /\ (a - nargs + 1)..a \subseteq 1..(a + k)
    BY <2>5, ListFinite
  <2>7. \A c : IsValueCell(c) => c # None
    BY CellFields, ValueCells
  <2>8. {i \in DOMAIN slots : slots[i] = None} = (a - nargs + 1)..a
    BY <2>5, <2>6, <2>7
  <2> QED
    BY <2>3, <2>4, <2>8 DEF Empty
<1> QED
  BY <1>1, Invariant, PTL
=============================================================================
