----------------------------- MODULE HeapProofs -----------------------------
(***************************************************************************)
(* Proofs about ValueHeap, for every number of variables and operands, for *)
(* arrays and tables of every number and size, and for careless scripts    *)
(* too: counts are exact as long as they do not wrap, and no table has a   *)
(* key twice.                                                              *)
(***************************************************************************)
EXTENDS ValueHeap, FunctionTheorems, FiniteSetTheorems, SequenceTheorems, TLAPS

(* No array or table has as many references as a count has values.         *)
Few == \A o \in Obj : AllReferences(o) < RcMod

One(c, o) == IF RefersTo(c, o) THEN 1 ELSE 0

Places(cells, o) == {j \in DOMAIN cells : RefersTo(cells[j], o)}

-----------------------------------------------------------------------------
(* Counting the references in a function or a sequence.                    *)

LEMMA PlacesFinite ==
  ASSUME NEW f, IsFiniteSet(DOMAIN f), NEW o
  PROVE  IsFiniteSet(Places(f, o)) /\ References(f, o) = Cardinality(Places(f, o))
         /\ References(f, o) \in Nat
<1>1. Places(f, o) \in SUBSET DOMAIN f
  BY DEF Places
<1>2. IsFiniteSet(Places(f, o))
  BY <1>1, FS_Subset
<1>3. References(f, o) = Cardinality(Places(f, o))
  BY DEF References, Places
<1> QED
  BY <1>2, <1>3, FS_CardinalityType

(* One cell is overwritten.                                                *)
LEMMA ReferencesExcept ==
  ASSUME NEW f, IsFiniteSet(DOMAIN f), NEW x \in DOMAIN f, NEW c, NEW o
  PROVE  References([f EXCEPT ![x] = c], o) + One(f[x], o) = References(f, o) + One(c, o)
<1> DEFINE g == [f EXCEPT ![x] = c]
           R == Places(f, o) \ {x}
<1>1. DOMAIN g = DOMAIN f /\ g[x] = c /\ \A y \in DOMAIN f \ {x} : g[y] = f[y]
  OBVIOUS
<1> HIDE DEF g
<1>2. IsFiniteSet(Places(f, o)) /\ IsFiniteSet(Places(g, o))
  BY <1>1, PlacesFinite
<1>3. IsFiniteSet(R) /\ x \notin R
  BY <1>2, FS_RemoveElement
<1>5. Cardinality(R) \in Nat
  BY <1>3, FS_CardinalityType
<1>4. ASSUME NEW h, h \in {f, g} PROVE References(h, o) = Cardinality(R) + One(h[x], o)
  <2>0. References(h, o) = Cardinality(Places(h, o)) /\ DOMAIN h = DOMAIN f
    BY <1>1, <1>4, PlacesFinite
  <2>1. CASE RefersTo(h[x], o)
    <3>1. Places(h, o) = R \union {x}
      BY <1>1, <1>4, <2>1 DEF Places
    <3>2. Cardinality(R \union {x}) = Cardinality(R) + 1
      BY <1>3, FS_AddElement
    <3> QED
      BY <2>0, <2>1, <3>1, <3>2 DEF One
  <2>2. CASE ~RefersTo(h[x], o)
    <3>1. Places(h, o) = R
      BY <1>1, <1>4, <2>2 DEF Places
    <3> QED
      BY <1>5, <2>0, <2>2, <3>1 DEF One
  <2> QED
    BY <2>1, <2>2
<1>6. One(f[x], o) \in Nat /\ One(c, o) \in Nat
  BY DEF One
<1>7. References(f, o) = Cardinality(R) + One(f[x], o) /\ References(g, o) = Cardinality(R) + One(c, o)
  BY <1>1, <1>4
<1>8. References(g, o) + One(f[x], o) = References(f, o) + One(c, o)
  BY <1>5, <1>6, <1>7
<1> QED
  BY <1>8 DEF g

LEMMA SeqFinite ==
  ASSUME NEW S, NEW s \in Seq(S)
  PROVE  DOMAIN s = 1..Len(s) /\ Len(s) \in Nat /\ IsFiniteSet(DOMAIN s)
BY LenProperties, FS_Interval

(* A set moved along the numbers keeps its cardinality.                    *)
LEMMA Shifted ==
  ASSUME NEW S \in SUBSET Nat, IsFiniteSet(S), NEW m \in Nat
  PROVE  IsFiniteSet({m + j : j \in S}) /\ Cardinality({m + j : j \in S}) = Cardinality(S)
<1> DEFINE T == {m + j : j \in S}
           f == [j \in S |-> m + j]
<1>1. f \in Bijection(S, T)
  <2>1. f \in [S -> T]
    OBVIOUS
  <2>2. \A j, k \in S : f[j] = f[k] => j = k
    OBVIOUS
  <2>3. \A t \in T : \E j \in S : f[j] = t
    OBVIOUS
  <2> QED
    BY <2>1, <2>2, <2>3, Fun_IsBij
<1>2. ExistsBijection(S, T)
  BY <1>1 DEF ExistsBijection
<1> HIDE DEF T
<1> QED
  BY <1>2, FS_Bijection DEF T

LEMMA ReferencesConcat ==
  ASSUME NEW S, NEW s \in Seq(S), NEW t \in Seq(S), NEW o
  PROVE  References(s \o t, o) = References(s, o) + References(t, o)
<1> DEFINE m == Len(s)
           n == Len(t)
           A == Places(s, o)
           B == Places(t, o)
           C == {m + j : j \in B}
<1>1. /\ s \o t \in Seq(S) /\ Len(s \o t) = m + n
      /\ \A i \in 1..(m + n) : (s \o t)[i] = IF i <= m THEN s[i] ELSE t[i - m]
  BY ConcatProperties
<1>2. DOMAIN s = 1..m /\ DOMAIN t = 1..n /\ DOMAIN (s \o t) = 1..(m + n) /\ m \in Nat /\ n \in Nat
  BY <1>1, SeqFinite
<1>3. Places(s \o t, o) = A \union C
  <2>1. ASSUME NEW i \in Places(s \o t, o) PROVE i \in A \union C
    <3>1. i \in 1..(m + n) /\ RefersTo((s \o t)[i], o)
      BY <1>2, <2>1 DEF Places
    <3>2. CASE i <= m
      BY <1>1, <1>2, <3>1, <3>2 DEF Places
    <3>3. CASE ~(i <= m)
      <4>1. i - m \in 1..n /\ t[i - m] = (s \o t)[i]
        BY <1>1, <1>2, <3>1, <3>3
      <4>2. i - m \in B
        BY <1>2, <3>1, <4>1 DEF Places
      <4>3. i = m + (i - m)
        BY <1>2, <3>1
      <4> QED
        BY <4>2, <4>3
    <3> QED
      BY <3>2, <3>3
  <2>2. ASSUME NEW i \in A PROVE i \in Places(s \o t, o)
    BY <1>1, <1>2, <2>2 DEF Places
  <2>3. ASSUME NEW j \in B PROVE m + j \in Places(s \o t, o)
    <3>1. j \in 1..n /\ RefersTo(t[j], o)
      BY <1>2, <2>3 DEF Places
    <3>2. m + j \in 1..(m + n) /\ ~(m + j <= m) /\ (m + j) - m = j
      BY <1>2, <3>1
    <3>3. (s \o t)[m + j] = t[j]
      BY <1>1, <3>2
    <3> QED
      BY <1>2, <3>1, <3>2, <3>3 DEF Places
  <2> QED
    BY <2>1, <2>2, <2>3
<1>4. A \intersect C = {}
  BY <1>2 DEF Places
<1>5. IsFiniteSet(A) /\ IsFiniteSet(B) /\ References(s, o) = Cardinality(A)
      /\ References(t, o) = Cardinality(B) /\ References(s \o t, o) = Cardinality(Places(s \o t, o))
  BY <1>1, SeqFinite, PlacesFinite
<1>6. B \in SUBSET Nat
  BY <1>2 DEF Places
<1>7. IsFiniteSet(C) /\ Cardinality(C) = Cardinality(B)
  BY <1>2, <1>5, <1>6, Shifted
<1> HIDE DEF A, B, C, m, n
<1>8. Cardinality(A \union C) = Cardinality(A) + Cardinality(C) - Cardinality(A \intersect C)
  BY <1>5, <1>7, FS_Union
<1>9. Cardinality(A) \in Nat /\ Cardinality(B) \in Nat /\ Cardinality(A \intersect C) = 0
  BY <1>4, <1>5, FS_CardinalityType, FS_EmptySet
<1>10. References(s \o t, o) = Cardinality(A \union C)
  BY <1>3, <1>5
<1>11. Cardinality(A \union C) = Cardinality(A) + Cardinality(B)
  BY <1>7, <1>8, <1>9
<1> QED
  BY <1>5, <1>10, <1>11

LEMMA ReferencesShort ==
  ASSUME NEW o
  PROVE  /\ References(<<>>, o) = 0
         /\ \A c : References(<<c>>, o) = One(c, o)
         /\ \A c, d : References(<<c, d>>, o) = One(c, o) + One(d, o)
<1>1. References(<<>>, o) = 0
  <2>1. {j \in DOMAIN <<>> : RefersTo(<<>>[j], o)} = {}
    OBVIOUS
  <2> QED
    BY <2>1, FS_EmptySet DEF References
<1>2. ASSUME NEW c PROVE References(<<c>>, o) = One(c, o)
  <2>1. DOMAIN <<c>> = {1} /\ <<c>>[1] = c
    OBVIOUS
  <2>2. CASE RefersTo(c, o)
    <3>1. {j \in DOMAIN <<c>> : RefersTo(<<c>>[j], o)} = {1}
      BY <2>1, <2>2
    <3> QED
      BY <2>2, <3>1, FS_Singleton DEF References, One
  <2>3. CASE ~RefersTo(c, o)
    <3>1. {j \in DOMAIN <<c>> : RefersTo(<<c>>[j], o)} = {}
      BY <2>1, <2>3
    <3> QED
      BY <2>3, <3>1, FS_EmptySet DEF References, One
  <2> QED
    BY <2>2, <2>3
<1>3. ASSUME NEW c, NEW d PROVE References(<<c, d>>, o) = One(c, o) + One(d, o)
  <2>1. <<c>> \in Seq({c, d}) /\ <<d>> \in Seq({c, d})
    OBVIOUS
  <2>3. <<c>> \o <<d>> = <<c, d>>
    <3>1. /\ <<c>> \o <<d>> \in Seq({c, d}) /\ Len(<<c>> \o <<d>>) = 2
          /\ (<<c>> \o <<d>>)[1] = c /\ (<<c>> \o <<d>>)[2] = d
      BY <2>1, ConcatProperties
    <3>2. <<c, d>> \in Seq({c, d}) /\ Len(<<c, d>>) = 2 /\ <<c, d>>[1] = c /\ <<c, d>>[2] = d
      OBVIOUS
    <3>3. \A i \in 1..2 : (<<c>> \o <<d>>)[i] = <<c, d>>[i]
      <4>1. \A i \in 1..2 : i = 1 \/ i = 2
        OBVIOUS
      <4> QED
        BY <3>1, <3>2, <4>1
    <3> DEFINE u == <<c>> \o <<d>>
               w == <<c, d>>
    <3> HIDE DEF u, w
    <3>4. u \in Seq({c, d}) /\ w \in Seq({c, d}) /\ Len(u) = 2 /\ Len(w) = 2
          /\ \A i \in 1..2 : u[i] = w[i]
      BY <3>1, <3>2, <3>3 DEF u, w
    <3>5. u = w
      BY <3>4, SeqEqual
    <3> QED
      BY <3>5 DEF u, w
  <2>2. References(<<c>> \o <<d>>, o) = References(<<c>>, o) + References(<<d>>, o)
    BY <2>1, ReferencesConcat
  <2> QED
    BY <1>2, <2>2, <2>3
<1> QED
  BY <1>1, <1>2, <1>3

LEMMA ReferencesCons ==
  ASSUME NEW S, NEW c \in S, NEW s \in Seq(S), NEW o
  PROVE  References(<<c>> \o s, o) = One(c, o) + References(s, o)
<1>1. <<c>> \in Seq(S)
  OBVIOUS
<1>2. References(<<c>> \o s, o) = References(<<c>>, o) + References(s, o)
  BY <1>1, ReferencesConcat
<1> QED
  BY <1>2, ReferencesShort

(* A value is pushed.                                                      *)
LEMMA ReferencesAppend ==
  ASSUME NEW S, NEW s \in Seq(S), NEW c \in S, NEW o
  PROVE  References(Append(s, c), o) = References(s, o) + One(c, o)
<1>1. <<c>> \in Seq(S)
  OBVIOUS
<1>2. Append(s, c) = s \o <<c>>
  BY AppendIsConcat
<1>3. References(s \o <<c>>, o) = References(s, o) + References(<<c>>, o)
  BY <1>1, ReferencesConcat
<1> QED
  BY <1>2, <1>3, ReferencesShort

(* A sequence is its beginning and its end.                                *)
LEMMA ReferencesSplit ==
  ASSUME NEW S, NEW s \in Seq(S), NEW n \in 0..Len(s), NEW o
  PROVE  /\ SubSeq(s, 1, n) \in Seq(S) /\ Len(SubSeq(s, 1, n)) = n
         /\ \A i \in 1..n : SubSeq(s, 1, n)[i] = s[i]
         /\ SubSeq(s, n + 1, Len(s)) \in Seq(S) /\ Len(SubSeq(s, n + 1, Len(s))) = Len(s) - n
         /\ References(s, o) = References(SubSeq(s, 1, n), o) + References(SubSeq(s, n + 1, Len(s)), o)
<1>1. Len(s) \in Nat /\ n \in Nat
  BY SeqFinite
<1>2. (\A i \in 1..n : s[i] \in S) /\ (\A i \in (n + 1)..Len(s) : s[i] \in S)
  BY <1>1, ElementOfSeq
<1>3. /\ SubSeq(s, 1, n) \in Seq(S)
      /\ Len(SubSeq(s, 1, n)) = IF 1 <= n THEN n - 1 + 1 ELSE 0
      /\ \A i \in 1..(n - 1 + 1) : SubSeq(s, 1, n)[i] = s[1 + i - 1]
  BY <1>1, <1>2, SubSeqProperties
<1>4. /\ SubSeq(s, n + 1, Len(s)) \in Seq(S)
      /\ Len(SubSeq(s, n + 1, Len(s))) = IF n + 1 <= Len(s) THEN Len(s) - (n + 1) + 1 ELSE 0
  BY <1>1, <1>2, SubSeqProperties
<1>5. SubSeq(s, 1, n) \o SubSeq(s, n + 1, Len(s)) = s
  <2>1. 1 \in 1..(Len(s) + 1) /\ n \in (1 - 1)..Len(s) /\ Len(s) \in n..Len(s)
    BY <1>1
  <2>2. SubSeq(s, 1, n) \o SubSeq(s, n + 1, Len(s)) = SubSeq(s, 1, Len(s))
    BY <2>1, ConcatAdjacentSubSeq
  <2> QED
    BY <2>2, SubSeqFull
<1>6. References(SubSeq(s, 1, n) \o SubSeq(s, n + 1, Len(s)), o) =
        References(SubSeq(s, 1, n), o) + References(SubSeq(s, n + 1, Len(s)), o)
  BY <1>3, <1>4, ReferencesConcat
<1>7. Len(SubSeq(s, 1, n)) = n /\ Len(SubSeq(s, n + 1, Len(s))) = Len(s) - n
  BY <1>1, <1>3, <1>4
<1>8. \A i \in 1..n : SubSeq(s, 1, n)[i] = s[i]
  BY <1>1, <1>3
<1> QED
  BY <1>3, <1>4, <1>5, <1>6, <1>7, <1>8

(* What refers to o is counted.                                            *)
LEMMA ReferencesPositive ==
  ASSUME NEW f, IsFiniteSet(DOMAIN f), NEW x \in DOMAIN f, NEW o, RefersTo(f[x], o)
  PROVE  References(f, o) >= 1
<1>1. x \in Places(f, o)
  BY DEF Places
<1>2. Cardinality(Places(f, o)) # 0
  BY <1>1, PlacesFinite, FS_EmptySet
<1> QED
  BY <1>2, PlacesFinite

-----------------------------------------------------------------------------
(* Counting the references in the elements of arrays.                      *)

Shaped(h) == \A p \in Obj : h[p].e \in Seq(ValueCell) /\ Len(h[p].e) <= MaxLen

ElementPlaces(h, o) ==
  {q \in Obj \X (1..MaxLen) : q[2] \in DOMAIN h[q[1]].e /\ RefersTo(h[q[1]].e[q[2]], o)}

OtherPlaces(h, p, o) ==
  {q \in (Obj \ {p}) \X (1..MaxLen) : q[2] \in DOMAIN h[q[1]].e /\ RefersTo(h[q[1]].e[q[2]], o)}

LEMMA ElementPlacesFinite ==
  ASSUME NEW h, NEW p, NEW o
  PROVE  /\ IsFiniteSet(ElementPlaces(h, o)) /\ IsFiniteSet(OtherPlaces(h, p, o))
         /\ ElementReferences(h, o) = Cardinality(ElementPlaces(h, o))
         /\ ElementReferences(h, o) \in Nat /\ Cardinality(OtherPlaces(h, p, o)) \in Nat
<1>1. IsFiniteSet(Obj) /\ IsFiniteSet(1..MaxLen)
  BY HeapAssumption, FS_Interval
<1>2. IsFiniteSet(Obj \X (1..MaxLen))
  BY <1>1, FS_Product
<1>3. ElementPlaces(h, o) \in SUBSET (Obj \X (1..MaxLen))
  BY DEF ElementPlaces
<1>4. OtherPlaces(h, p, o) \in SUBSET (Obj \X (1..MaxLen))
  BY DEF OtherPlaces
<1>5. IsFiniteSet(ElementPlaces(h, o)) /\ IsFiniteSet(OtherPlaces(h, p, o))
  BY <1>2, <1>3, <1>4, FS_Subset
<1>6. ElementReferences(h, o) = Cardinality(ElementPlaces(h, o))
  BY DEF ElementReferences, ElementPlaces
<1> QED
  BY <1>5, <1>6, FS_CardinalityType

(* Those of one array, and the others.                                     *)
LEMMA ElementReferencesOf ==
  ASSUME NEW h, Shaped(h), NEW p \in Obj, NEW o
  PROVE  ElementReferences(h, o) = Cardinality(OtherPlaces(h, p, o)) + References(h[p].e, o)
<1> DEFINE e == h[p].e
           P == Places(e, o)
           Q == {p} \X P
           R == OtherPlaces(h, p, o)
<1>1. e \in Seq(ValueCell) /\ Len(e) <= MaxLen /\ DOMAIN e = 1..Len(e) /\ Len(e) \in Nat
      /\ IsFiniteSet(DOMAIN e) /\ MaxLen \in Nat
  BY HeapAssumption, SeqFinite DEF Shaped
<1>2. IsFiniteSet(P) /\ References(e, o) = Cardinality(P)
  BY <1>1, PlacesFinite
<1>3. IsFiniteSet(Q) /\ Cardinality(Q) = Cardinality(P)
  <2>1. IsFiniteSet({p}) /\ Cardinality({p}) = 1
    BY FS_Singleton
  <2>2. IsFiniteSet(Q) /\ Cardinality(Q) = 1 * Cardinality(P)
    <3> HIDE DEF P
    <3> QED
      BY <1>2, <2>1, FS_Product
  <2>3. Cardinality(P) \in Nat
    BY <1>2, FS_CardinalityType
  <2> HIDE DEF P, Q
  <2> QED
    BY <2>2, <2>3
<1>4. ElementPlaces(h, o) = R \union Q
  <2>1. \A j \in P : j \in 1..MaxLen /\ j \in DOMAIN e /\ RefersTo(e[j], o)
    BY <1>1 DEF Places
  <2>2. \A j \in DOMAIN e : RefersTo(e[j], o) => j \in P
    BY DEF Places
  <2>3. ASSUME NEW q \in ElementPlaces(h, o) PROVE q \in R \union Q
    <3>1. q \in Obj \X (1..MaxLen) /\ q[2] \in DOMAIN h[q[1]].e /\ RefersTo(h[q[1]].e[q[2]], o)
      BY <2>3 DEF ElementPlaces
    <3>2. CASE q[1] = p
      <4>1. q[2] \in P
        BY <2>2, <3>1, <3>2
      <4> HIDE DEF P
      <4> QED
        BY <3>1, <3>2, <4>1
    <3>3. CASE q[1] # p
      BY <3>1, <3>3 DEF OtherPlaces
    <3> QED
      BY <3>2, <3>3
  <2>4. ASSUME NEW q \in R PROVE q \in ElementPlaces(h, o)
    BY <2>4 DEF OtherPlaces, ElementPlaces
  <2>5. ASSUME NEW q \in Q PROVE q \in ElementPlaces(h, o)
    <3>1. q \in {p} \X P /\ q[1] = p /\ q[2] \in P
      OBVIOUS
    <3>2. q[2] \in 1..MaxLen /\ q[2] \in DOMAIN e /\ RefersTo(e[q[2]], o)
      BY <2>1, <3>1
    <3> HIDE DEF P
    <3>3. q \in Obj \X (1..MaxLen)
      BY <3>1, <3>2
    <3> QED
      BY <3>1, <3>2, <3>3 DEF ElementPlaces
  <2> QED
    BY <2>3, <2>4, <2>5
<1>5. R \intersect Q = {}
  BY DEF OtherPlaces
<1> HIDE DEF e, P, Q, R
<1>6. IsFiniteSet(R) /\ Cardinality(R) \in Nat /\ ElementReferences(h, o) = Cardinality(R \union Q)
  BY <1>4, ElementPlacesFinite DEF R
<1>7. Cardinality(R \union Q) = Cardinality(R) + Cardinality(Q) - Cardinality(R \intersect Q)
  BY <1>3, <1>6, FS_Union
<1>8. Cardinality(R \intersect Q) = 0 /\ Cardinality(Q) \in Nat
  BY <1>3, <1>5, FS_EmptySet, FS_CardinalityType
<1>9. ElementReferences(h, o) = Cardinality(R) + References(e, o)
  BY <1>2, <1>3, <1>6, <1>7, <1>8
<1> QED
  BY <1>9 DEF e, R

(* The elements of one array change.                                       *)
LEMMA ElementsChange ==
  ASSUME NEW h, Shaped(h), NEW g, Shaped(g), NEW p \in Obj,
         \A q \in Obj \ {p} : h[q].e = g[q].e, NEW o
  PROVE  ElementReferences(h, o) + References(g[p].e, o)
           = ElementReferences(g, o) + References(h[p].e, o)
<1>1. OtherPlaces(h, p, o) = OtherPlaces(g, p, o)
  <2>1. \A q \in (Obj \ {p}) \X (1..MaxLen) : h[q[1]].e = g[q[1]].e
    OBVIOUS
  <2> QED
    BY <2>1 DEF OtherPlaces
<1>2. /\ ElementReferences(h, o) = Cardinality(OtherPlaces(h, p, o)) + References(h[p].e, o)
      /\ ElementReferences(g, o) = Cardinality(OtherPlaces(h, p, o)) + References(g[p].e, o)
  BY <1>1, ElementReferencesOf
<1>3. IsFiniteSet(DOMAIN h[p].e) /\ IsFiniteSet(DOMAIN g[p].e)
  BY SeqFinite DEF Shaped
<1>4. References(h[p].e, o) \in Nat /\ References(g[p].e, o) \in Nat
      /\ Cardinality(OtherPlaces(h, p, o)) \in Nat
  BY <1>3, PlacesFinite, ElementPlacesFinite
<1> QED
  BY <1>2, <1>4

LEMMA ElementsSame ==
  ASSUME NEW h, NEW g, \A q \in Obj : h[q].e = g[q].e, NEW o
  PROVE  ElementReferences(h, o) = ElementReferences(g, o)
<1>1. \A q \in Obj \X (1..MaxLen) : h[q[1]].e = g[q[1]].e
  OBVIOUS
<1> QED
  BY <1>1 DEF ElementReferences

LEMMA ElementsCounted ==
  ASSUME NEW h, Shaped(h), NEW p \in Obj, NEW o
  PROVE  References(h[p].e, o) \in Nat /\ References(h[p].e, o) <= ElementReferences(h, o)
<1>1. IsFiniteSet(DOMAIN h[p].e)
  BY SeqFinite DEF Shaped
<1>2. References(h[p].e, o) \in Nat /\ Cardinality(OtherPlaces(h, p, o)) \in Nat
  BY <1>1, PlacesFinite, ElementPlacesFinite
<1> QED
  BY <1>2, ElementReferencesOf

LEMMA ReferencesNone ==
  ASSUME NEW f, NEW o, \A x \in DOMAIN f : ~RefersTo(f[x], o)
  PROVE  References(f, o) = 0
<1>1. {x \in DOMAIN f : RefersTo(f[x], o)} = {}
  OBVIOUS
<1> QED
  BY <1>1, FS_EmptySet DEF References

-----------------------------------------------------------------------------
(* Cells.                                                                  *)

LEMMA ValueCells ==
  /\ \A c \in ValueCell : /\ c.k \in {"num", "null", "ref"}
                          /\ Counts(c) <=> c.k = "ref"
                          /\ c.k = "ref" => c.o \in Obj /\ c = Ref(c.o)
                          /\ c.k = "num" => c.n \in Int
                          /\ c \in OperandCell
  /\ Null \in ValueCell
  /\ \A o \in Obj : Ref(o) \in ValueCell
  /\ \A n \in Int : Number(n) \in ValueCell
  /\ Literal \subseteq ValueCell
  /\ \A c \in Literal : c.k # "ref"
<1>1. \A c \in ValueCell : \/ c.k = "num" /\ c.n \in Int
                           \/ c.k = "null"
                           \/ \E o \in Obj : c = Ref(o)
  BY DEF ValueCell, Null
<1>2. \A o : Ref(o).k = "ref" /\ Ref(o).o = o
  BY DEF Ref
<1>3. Null \in ValueCell /\ Literal \subseteq ValueCell
  BY HeapAssumption DEF ValueCell
<1>4. \A n \in Int : Number(n) \in ValueCell
  BY DEF ValueCell, Number
<1>5. \A c \in Literal : c.k # "ref"
  BY HeapAssumption DEF Null
<1>6. \A o \in Obj : Ref(o) \in ValueCell
  BY DEF ValueCell
<1> QED
  BY <1>1, <1>2, <1>3, <1>4, <1>5, <1>6 DEF Counts, OperandCell

LEMMA OperandCells ==
  ASSUME NEW c \in OperandCell
  PROVE  /\ IsCell(c) => c \in ValueCell
         /\ c.k = "iter" => c \in IterCell
         /\ c.k = "borrow" => c \in BorrowCell
         /\ Counts(c) => c.o \in Obj
         /\ c.k = "ref" => c \in ValueCell
         /\ c.k \in {"num", "null", "ref", "iter", "borrow"}
<1>1. \A d \in IterCell : d.k = "iter" /\ d.o \in Obj
  BY DEF IterCell
<1>2. \A d \in BorrowCell : d.k = "borrow"
  BY DEF BorrowCell
<1> QED
  BY <1>1, <1>2, ValueCells DEF OperandCell, IsCell, Counts

-----------------------------------------------------------------------------
(* The inductive invariant: where cells are, they are what they should be; *)
(* what is not alive is empty; and each count is the number of references, *)
(* none of which is lost to the modulus as long as there are Few.          *)

(* A table has as many keys as values, and none of them twice.             *)
Keyed(x) ==
  x.tab => /\ Len(x.keys) = Len(x.e)
           /\ \A i, j \in DOMAIN x.keys : x.keys[i] = x.keys[j] => i = j

HeapOK(h) ==
  /\ h \in [Obj -> [live : BOOLEAN, rc : 0..(RcMod - 1), tab : BOOLEAN, keys : Seq(Int), e : Seq(ValueCell)]]
  /\ Shaped(h)
  /\ \A o \in Obj : ~h[o].live => h[o].e = <<>>
  /\ \A o \in Obj : Keyed(h[o])

IInv ==
  /\ env \in [Var -> ValueCell]
  /\ stack \in Seq(OperandCell) /\ drop \in Seq(OperandCell)
  /\ HeapOK(heap)
  /\ status \in {"ok", "raised", "dangling"}
  /\ \A o \in Obj : heap[o].live <=> heap[o].rc > 0
  /\ \A o \in Obj : heap[o].rc = AllReferences(o)

LEMMA IInvTypeOK == IInv => TypeOK
BY DEF IInv, TypeOK, HeapOK

LEMMA IInvKeysUnique == IInv => KeysUnique
BY DEF IInv, HeapOK, Keyed, KeysUnique

LEMMA Finite ==
  ASSUME IInv
  PROVE  /\ IsFiniteSet(DOMAIN env) /\ DOMAIN env = Var
         /\ \A o : References(env, o) \in Nat /\ References(stack, o) \in Nat
                   /\ References(drop, o) \in Nat /\ ElementReferences(heap, o) \in Nat
<1>1. DOMAIN env = Var /\ IsFiniteSet(DOMAIN env)
  BY HeapAssumption DEF IInv
<1>2. IsFiniteSet(DOMAIN stack) /\ IsFiniteSet(DOMAIN drop)
  BY SeqFinite DEF IInv
<1> QED
  BY <1>1, <1>2, PlacesFinite, ElementPlacesFinite

(* Nothing refers to an array that is not alive.                           *)
LEMMA DeadUnreferenced ==
  ASSUME IInv, NEW o \in Obj, ~heap[o].live
  PROVE  /\ AllReferences(o) = 0
         /\ References(env, o) = 0 /\ References(stack, o) = 0 /\ References(drop, o) = 0
         /\ ElementReferences(heap, o) = 0
         /\ \A p \in Obj : References(heap[p].e, o) = 0
<1>1. heap[o].rc = AllReferences(o) /\ heap[o].rc \in Nat /\ ~(heap[o].rc > 0)
  BY HeapAssumption DEF IInv, HeapOK
<1>2. AllReferences(o) = 0
  BY <1>1
<1>3. References(env, o) = 0 /\ References(stack, o) = 0 /\ References(drop, o) = 0
      /\ ElementReferences(heap, o) = 0
  BY <1>2, Finite DEF AllReferences
<1>4. ASSUME NEW p \in Obj PROVE References(heap[p].e, o) = 0
  <2>1. References(heap[p].e, o) \in Nat /\ References(heap[p].e, o) <= ElementReferences(heap, o)
    BY ElementsCounted DEF IInv, HeapOK
  <2> QED
    BY <1>3, <2>1
<1> QED
  BY <1>2, <1>3, <1>4

(* c is no reference, or one to an array that is alive.                    *)
Alive(c) == \A o : RefersTo(c, o) => o \in Obj /\ heap[o].live

Existing(e) == e \in Seq(ValueCell) /\ \A j \in DOMAIN e : Alive(e[j])

LEMMA AllAlive ==
  ASSUME IInv
  PROVE  /\ \A v \in Var : env[v] \in ValueCell /\ Alive(env[v])
         /\ \A j \in DOMAIN stack : stack[j] \in OperandCell /\ Alive(stack[j])
         /\ \A j \in DOMAIN drop : drop[j] \in OperandCell /\ Alive(drop[j])
         /\ \A p \in Obj : Existing(heap[p].e)
<1>1. \A c \in OperandCell : \A o : RefersTo(c, o) => o \in Obj
  BY OperandCells DEF RefersTo
<1>2. ASSUME NEW f, IsFiniteSet(DOMAIN f), \A x \in DOMAIN f : f[x] \in OperandCell,
             \A o \in Obj : ~heap[o].live => References(f, o) = 0
      PROVE  \A x \in DOMAIN f : Alive(f[x])
  <2> SUFFICES ASSUME NEW x \in DOMAIN f, NEW o, RefersTo(f[x], o)
               PROVE  o \in Obj /\ heap[o].live
    BY DEF Alive
  <2>1. o \in Obj
    BY <1>1, <1>2
  <2>2. References(f, o) >= 1
    BY <1>2, ReferencesPositive
  <2> QED
    BY <1>2, <2>1, <2>2
<1>3. \A s \in Seq(OperandCell) : IsFiniteSet(DOMAIN s) /\ \A j \in DOMAIN s : s[j] \in OperandCell
  BY SeqFinite, ElementOfSeq
<1>4. \A v \in Var : env[v] \in ValueCell /\ env[v] \in OperandCell
  BY ValueCells DEF IInv
<1>5. \A v \in Var : Alive(env[v])
  BY <1>2, <1>4, Finite, DeadUnreferenced
<1>6. \A j \in DOMAIN stack : stack[j] \in OperandCell /\ Alive(stack[j])
  BY <1>2, <1>3, DeadUnreferenced DEF IInv
<1>7. \A j \in DOMAIN drop : drop[j] \in OperandCell /\ Alive(drop[j])
  BY <1>2, <1>3, DeadUnreferenced DEF IInv
<1>8. ASSUME NEW p \in Obj PROVE Existing(heap[p].e)
  <2>1. heap[p].e \in Seq(ValueCell)
    BY DEF IInv, HeapOK, Shaped
  <2>2. heap[p].e \in Seq(OperandCell)
    BY <2>1, ValueCells, SeqMonotonic
  <2> QED
    BY <1>2, <1>3, <2>1, <2>2, DeadUnreferenced DEF Existing
<1> QED
  BY <1>4, <1>5, <1>6, <1>7, <1>8

-----------------------------------------------------------------------------
(* A step counts copies of the cells e and makes the arrays N, each with   *)
(* one reference.                                                          *)

WellFormed(h) ==
  /\ h \in [Obj -> [live : BOOLEAN, rc : Int, tab : BOOLEAN, keys : Seq(Int), e : Seq(ValueCell)]]
  /\ Shaped(h)
  /\ \A o \in Obj : ~h[o].live => h[o].e = <<>>
  /\ \A o \in Obj : Keyed(h[o])

Fresh(N, o) == IF o \in N THEN 1 ELSE 0

Grows(h, e, N) ==
  /\ WellFormed(h) /\ Existing(e)
  /\ \A o \in Obj \ N : /\ h[o].live = heap[o].live
                        /\ h[o].rc = (heap[o].rc + References(e, o)) % RcMod
  /\ \A o \in N : o \in Obj /\ ~heap[o].live /\ h[o].live /\ h[o].rc = 1

LEMMA ExistingCounted ==
  ASSUME NEW e, Existing(e)
  PROVE  /\ \A o : References(e, o) \in Nat
         /\ \A o \in Obj : ~heap[o].live => References(e, o) = 0
<1>1. IsFiniteSet(DOMAIN e)
  BY SeqFinite DEF Existing
<1>2. ASSUME NEW o \in Obj, ~heap[o].live PROVE References(e, o) = 0
  <2>1. \A j \in DOMAIN e : ~RefersTo(e[j], o)
    BY <1>2 DEF Existing, Alive
  <2> QED
    BY <2>1, ReferencesNone
<1> QED
  BY <1>1, <1>2, PlacesFinite

LEMMA Unwrapped ==
  ASSUME NEW m \in Nat \ {0}, NEW a \in 0..(m - 1), NEW b \in Nat, a + b < m
  PROVE  a + b \in 0..(m - 1) /\ (a + b) % m = a + b
<1>1. a + b \in 0..(m - 1)
  OBVIOUS
<1>2. \A x \in 0..(m - 1) : x % m = x
  OBVIOUS
<1> QED
  BY <1>1, <1>2

(* Such a step keeps the invariant when it makes as many references.       *)
LEMMA StateKeeps ==
  ASSUME IInv, Few', UNCHANGED status,
         env' \in [Var -> ValueCell], stack' \in Seq(OperandCell), drop' \in Seq(OperandCell),
         NEW e, NEW N, Grows(heap', e, N),
         \A o \in Obj : AllReferences(o)' = AllReferences(o) + References(e, o) + Fresh(N, o)
  PROVE  IInv'
<1>0. RcMod \in Nat \ {0}
  BY HeapAssumption
<1>1. WellFormed(heap') /\ Existing(e)
  BY DEF Grows
<1>2. ASSUME NEW o \in Obj
      PROVE  /\ heap'[o].rc = AllReferences(o)' /\ (heap'[o].live <=> heap'[o].rc > 0)
             /\ heap'[o].rc \in 0..(RcMod - 1)
  <2>1. AllReferences(o)' < RcMod /\ AllReferences(o)' = AllReferences(o) + References(e, o) + Fresh(N, o)
    BY DEF Few
  <2>2. References(e, o) \in Nat /\ (~heap[o].live => References(e, o) = 0)
    BY <1>1, ExistingCounted
  <2>3. heap[o].rc \in 0..(RcMod - 1) /\ heap[o].rc = AllReferences(o) /\ (heap[o].live <=> heap[o].rc > 0)
    BY DEF IInv, HeapOK
  <2>4. CASE o \in N
    <3>1. ~heap[o].live /\ heap'[o].live /\ heap'[o].rc = 1 /\ Fresh(N, o) = 1
      BY <2>4 DEF Grows, Fresh
    <3> QED
      BY <1>0, <2>1, <2>2, <2>3, <3>1
  <2>5. CASE o \notin N
    <3>1. heap'[o].live = heap[o].live /\ heap'[o].rc = (heap[o].rc + References(e, o)) % RcMod /\ Fresh(N, o) = 0
      BY <2>5 DEF Grows, Fresh
    <3>2. AllReferences(o)' = heap[o].rc + References(e, o)
      BY <2>1, <2>2, <2>3, <3>1
    <3>3. heap[o].rc + References(e, o) < RcMod
      BY <2>1, <3>2
    <3>4. /\ heap[o].rc + References(e, o) \in 0..(RcMod - 1)
          /\ (heap[o].rc + References(e, o)) % RcMod = heap[o].rc + References(e, o)
      BY <1>0, <2>2, <2>3, <3>3, Unwrapped
    <3>5. heap'[o].rc = AllReferences(o)' /\ heap'[o].rc \in 0..(RcMod - 1)
      BY <3>1, <3>2, <3>4
    <3>6. heap[o].rc + References(e, o) > 0 <=> heap[o].rc > 0
      BY <2>2, <2>3
    <3> QED
      BY <2>3, <3>1, <3>2, <3>5, <3>6
  <2> QED
    BY <2>4, <2>5
<1>3. HeapOK(heap')
  BY <1>1, <1>2 DEF WellFormed, HeapOK
<1>4. status' \in {"ok", "raised", "dangling"}
  BY DEF IInv
<1> QED
  BY <1>2, <1>3, <1>4 DEF IInv

(* What does nothing but return early or stop keeps it too.                *)
LEMMA StopKeeps ==
  ASSUME IInv, UNCHANGED <<env, stack, heap, drop>>, status' \in {"ok", "raised", "dangling"}
  PROVE  IInv'
<1>1. \A o : AllReferences(o)' = AllReferences(o)
  BY DEF AllReferences
<1> QED
  BY <1>1 DEF IInv, Alive

LEMMA HeapWellFormed == IInv => WellFormed(heap)
<1>1. 0..(RcMod - 1) \subseteq Int
  OBVIOUS
<1> QED
  BY <1>1 DEF IInv, HeapOK, WellFormed

(* Nothing is copied and nothing made.                                     *)
LEMMA SameGrows == IInv => Grows(heap, <<>>, {}) /\ \A o : References(<<>>, o) = 0 /\ Fresh({}, o) = 0
<1> SUFFICES ASSUME IInv PROVE Grows(heap, <<>>, {}) /\ \A o : References(<<>>, o) = 0 /\ Fresh({}, o) = 0
  OBVIOUS
<1>1. \A o : References(<<>>, o) = 0
  BY ReferencesShort
<1>2. \A o \in Obj : heap[o].rc = (heap[o].rc + References(<<>>, o)) % RcMod
  <2> TAKE o \in Obj
  <2>1. heap[o].rc \in 0..(RcMod - 1) /\ RcMod \in Nat \ {0}
    BY HeapAssumption DEF IInv, HeapOK
  <2>2. heap[o].rc + 0 < RcMod /\ heap[o].rc + 0 = heap[o].rc
    BY <2>1
  <2>3. (heap[o].rc + 0) % RcMod = heap[o].rc + 0
    BY <2>1, <2>2, Unwrapped
  <2> QED
    BY <1>1, <2>2, <2>3
<1>3. Existing(<<>>)
  BY DEF Existing
<1> QED
  BY <1>1, <1>2, <1>3, HeapWellFormed DEF Grows, Fresh

LEMMA CopyingGrows ==
  ASSUME IInv, NEW e, Existing(e)
  PROVE  /\ Grows(Copying(e, heap), e, {}) /\ \A o : Fresh({}, o) = 0
         /\ \A o \in Obj : Copying(e, heap)[o].e = heap[o].e /\ Copying(e, heap)[o].tab = heap[o].tab
         /\ \A o : ElementReferences(Copying(e, heap), o) = ElementReferences(heap, o)
<1> DEFINE h == Copying(e, heap)
<1>0. RcMod \in Nat \ {0} /\ \A o \in Obj : References(e, o) \in Nat
  BY HeapAssumption, ExistingCounted
<1>1. WellFormed(heap)
  BY HeapWellFormed
<1>2. /\ DOMAIN h = Obj
      /\ \A o \in Obj : h[o] = [heap[o] EXCEPT !.rc = (heap[o].rc + References(e, o)) % RcMod]
  BY DEF Copying
<1>3. \A o \in Obj : /\ h[o] \in [live : BOOLEAN, rc : Int, tab : BOOLEAN, keys : Seq(Int), e : Seq(ValueCell)]
                     /\ h[o].live = heap[o].live /\ h[o].e = heap[o].e
                     /\ h[o].tab = heap[o].tab /\ h[o].keys = heap[o].keys
                     /\ h[o].rc = (heap[o].rc + References(e, o)) % RcMod
  <2> TAKE o \in Obj
  <2>1. heap[o] \in [live : BOOLEAN, rc : Int, tab : BOOLEAN, keys : Seq(Int), e : Seq(ValueCell)]
    BY <1>1 DEF WellFormed
  <2>2. (heap[o].rc + References(e, o)) % RcMod \in Int
    BY <1>0, <2>1
  <2> QED
    BY <1>2, <2>1, <2>2
<1>4. h = [o \in Obj |-> h[o]]
  BY DEF Copying
<1> HIDE DEF h
<1>5. WellFormed(h)
  <2>1. \A o \in Obj : Keyed(h[o])
    BY <1>1, <1>3 DEF WellFormed, Keyed
  <2> QED
    BY <1>1, <1>3, <1>4, <2>1 DEF WellFormed, Shaped
<1>6. Grows(h, e, {})
  BY <1>3, <1>5 DEF Grows
<1>7. \A o : ElementReferences(h, o) = ElementReferences(heap, o)
  BY <1>3, ElementsSame
<1> QED
  BY <1>3, <1>6, <1>7 DEF h, Fresh

(* A new object x at n.                                                    *)
NewObject(x) ==
  /\ x \in [live : BOOLEAN, rc : Int, tab : BOOLEAN, keys : Seq(Int), e : Seq(ValueCell)]
  /\ x.live /\ x.rc = 1 /\ Keyed(x) /\ Len(x.e) <= MaxLen

LEMMA NewArray ==
  ASSUME NEW e \in Seq(ValueCell), Len(e) <= MaxLen
  PROVE  NewObject(Array(e)) /\ Array(e).e = e
BY DEF NewObject, Array, Object, Keyed

LEMMA NewTwin ==
  ASSUME IInv, NEW o \in Obj, heap[o].live
  PROVE  NewObject(Twin(o)) /\ Twin(o).e = heap[o].e /\ Twin(o).tab = heap[o].tab
<1>1. WellFormed(heap)
  BY HeapWellFormed
<1>2. /\ heap[o] \in [live : BOOLEAN, rc : Int, tab : BOOLEAN, keys : Seq(Int), e : Seq(ValueCell)]
      /\ Keyed(heap[o]) /\ Len(heap[o].e) <= MaxLen
  BY <1>1 DEF WellFormed, Shaped
<1>3. /\ Twin(o) \in [live : BOOLEAN, rc : Int, tab : BOOLEAN, keys : Seq(Int), e : Seq(ValueCell)]
      /\ Twin(o).live /\ Twin(o).rc = 1 /\ Twin(o).tab = heap[o].tab
      /\ Twin(o).keys = heap[o].keys /\ Twin(o).e = heap[o].e
  <2> DEFINE x == heap[o]
  <2>1. x \in [live : BOOLEAN, rc : Int, tab : BOOLEAN, keys : Seq(Int), e : Seq(ValueCell)] /\ x.live
    BY <1>2
  <2>2. Twin(o) = [x EXCEPT !.rc = 1]
    BY DEF Twin
  <2> HIDE DEF x
  <2>3. /\ Twin(o) \in [live : BOOLEAN, rc : Int, tab : BOOLEAN, keys : Seq(Int), e : Seq(ValueCell)]
        /\ Twin(o).live /\ Twin(o).rc = 1 /\ Twin(o).tab = x.tab
        /\ Twin(o).keys = x.keys /\ Twin(o).e = x.e
    BY <2>1, <2>2
  <2> QED
    BY <2>3 DEF x
<1> QED
  BY <1>2, <1>3 DEF NewObject, Keyed

LEMMA MadeElements ==
  ASSUME IInv, NEW n \in Obj, ~heap[n].live, NEW x, NewObject(x),
         NEW h, h \in [Obj -> [live : BOOLEAN, rc : Int, tab : BOOLEAN, keys : Seq(Int), e : Seq(ValueCell)]],
         h[n] = x,
         \A o \in Obj \ {n} : h[o].e = heap[o].e /\ h[o].live = heap[o].live /\ Keyed(h[o])
  PROVE  /\ WellFormed(h)
         /\ \A o : ElementReferences(h, o) = ElementReferences(heap, o) + References(x.e, o)
<1>1. h[n].e = x.e /\ h[n].live /\ x.e \in Seq(ValueCell) /\ Len(x.e) <= MaxLen /\ Keyed(h[n])
  BY DEF NewObject
<1>2. WellFormed(heap) /\ heap[n].e = <<>>
  BY HeapWellFormed DEF WellFormed
<1>3. WellFormed(h)
  BY <1>1, <1>2 DEF WellFormed, Shaped
<1>4. ASSUME NEW o PROVE ElementReferences(h, o) = ElementReferences(heap, o) + References(x.e, o)
  <2>1. Shaped(h) /\ Shaped(heap) /\ \A q \in Obj \ {n} : heap[q].e = h[q].e
    BY <1>2, <1>3 DEF WellFormed
  <2>2. ElementReferences(heap, o) + References(h[n].e, o)
          = ElementReferences(h, o) + References(heap[n].e, o)
    BY <2>1, ElementsChange
  <2>3. References(heap[n].e, o) = 0
    BY <1>2, ReferencesShort
  <2>4. ElementReferences(heap, o) \in Nat /\ ElementReferences(h, o) \in Nat
    BY ElementPlacesFinite
  <2>5. References(x.e, o) \in Nat
    BY <1>1, SeqFinite, PlacesFinite
  <2> QED
    BY <1>1, <2>2, <2>3, <2>4, <2>5
<1> QED
  BY <1>3, <1>4

LEMMA NewCopyGrows ==
  ASSUME IInv, NEW n \in Free, NEW x, NewObject(x), Existing(x.e)
  PROVE  /\ Grows(NewCopy(n, x), x.e, {n}) /\ NewCopy(n, x)[n] = x
         /\ \A o \in Obj : heap[o].live => NewCopy(n, x)[o].e = heap[o].e
         /\ \A o : ElementReferences(NewCopy(n, x), o) = ElementReferences(heap, o) + References(x.e, o)
<1> DEFINE g == Copying(x.e, heap)
           h == NewCopy(n, x)
<1>1. n \in Obj /\ ~heap[n].live
  BY DEF Free
<1>2. Grows(g, x.e, {}) /\ \A o \in Obj : g[o].e = heap[o].e
  BY CopyingGrows
<1>3. /\ g \in [Obj -> [live : BOOLEAN, rc : Int, tab : BOOLEAN, keys : Seq(Int), e : Seq(ValueCell)]]
      /\ \A o \in Obj : /\ g[o].live = heap[o].live /\ Keyed(g[o])
                        /\ g[o].rc = (heap[o].rc + References(x.e, o)) % RcMod
  BY <1>2 DEF Grows, WellFormed
<1>4. /\ x \in [live : BOOLEAN, rc : Int, tab : BOOLEAN, keys : Seq(Int), e : Seq(ValueCell)]
      /\ x.live /\ x.rc = 1
  BY DEF NewObject
<1>5. h = [g EXCEPT ![n] = x]
  BY DEF NewCopy
<1> HIDE DEF g, h
<1>6. /\ h \in [Obj -> [live : BOOLEAN, rc : Int, tab : BOOLEAN, keys : Seq(Int), e : Seq(ValueCell)]]
      /\ h[n] = x /\ \A o \in Obj \ {n} : h[o] = g[o]
  BY <1>1, <1>3, <1>4, <1>5
<1>7. /\ WellFormed(h)
      /\ \A o : ElementReferences(h, o) = ElementReferences(heap, o) + References(x.e, o)
  <2>1. \A o \in Obj \ {n} : h[o].e = heap[o].e /\ h[o].live = heap[o].live /\ Keyed(h[o])
    BY <1>2, <1>3, <1>6
  <2> QED
    BY <1>1, <1>6, <2>1, MadeElements
<1>8. Grows(h, x.e, {n})
  BY <1>1, <1>3, <1>4, <1>6, <1>7 DEF Grows
<1>9. \A o \in Obj : heap[o].live => h[o].e = heap[o].e
  BY <1>1, <1>2, <1>6
<1> QED
  BY <1>6, <1>7, <1>8, <1>9 DEF h

LEMMA NewCopySame ==
  ASSUME IInv, NEW n \in Free, NEW x, NewObject(x), Existing(x.e)
  PROVE  \A o \in Obj : heap[o].live => NewCopy(n, x)[o].e = heap[o].e
<1> DEFINE g == Copying(x.e, heap)
<1>1. n \in Obj /\ ~heap[n].live
  BY DEF Free
<1>2. /\ g \in [Obj -> [live : BOOLEAN, rc : Int, tab : BOOLEAN, keys : Seq(Int), e : Seq(ValueCell)]]
      /\ \A o \in Obj : g[o].e = heap[o].e
  BY CopyingGrows DEF Grows, WellFormed
<1>3. NewCopy(n, x) = [g EXCEPT ![n] = x]
  BY DEF NewCopy
<1> HIDE DEF g
<1>4. \A o \in Obj : o # n => NewCopy(n, x)[o].e = heap[o].e
  BY <1>2, <1>3
<1> QED
  BY <1>1, <1>4

LEMMA ObjectGrows ==
  ASSUME IInv, NEW n \in Free, NEW x, NewObject(x)
  PROVE  /\ Grows([heap EXCEPT ![n] = x], <<>>, {n})
         /\ \A o : References(<<>>, o) = 0
         /\ \A o : ElementReferences([heap EXCEPT ![n] = x], o)
                    = ElementReferences(heap, o) + References(x.e, o)
<1> DEFINE h == [heap EXCEPT ![n] = x]
<1>1. n \in Obj /\ ~heap[n].live
  BY DEF Free
<1>2. Grows(heap, <<>>, {}) /\ \A o : References(<<>>, o) = 0
  BY SameGrows
<1>3. /\ heap \in [Obj -> [live : BOOLEAN, rc : Int, tab : BOOLEAN, keys : Seq(Int), e : Seq(ValueCell)]]
      /\ \A o \in Obj : Keyed(heap[o])
  BY <1>2 DEF Grows, WellFormed
<1>4. /\ x \in [live : BOOLEAN, rc : Int, tab : BOOLEAN, keys : Seq(Int), e : Seq(ValueCell)]
      /\ x.live /\ x.rc = 1
  BY DEF NewObject
<1>5. /\ h \in [Obj -> [live : BOOLEAN, rc : Int, tab : BOOLEAN, keys : Seq(Int), e : Seq(ValueCell)]]
      /\ h[n] = x /\ \A o \in Obj \ {n} : h[o] = heap[o]
  BY <1>1, <1>3, <1>4
<1> HIDE DEF h
<1>6. /\ WellFormed(h)
      /\ \A o : ElementReferences(h, o) = ElementReferences(heap, o) + References(x.e, o)
  <2>1. \A o \in Obj \ {n} : h[o].e = heap[o].e /\ h[o].live = heap[o].live /\ Keyed(h[o])
    BY <1>3, <1>5
  <2> QED
    BY <1>1, <1>5, <2>1, MadeElements, ZenonT(60)
<1>7. Grows(h, <<>>, {n})
  BY <1>1, <1>2, <1>4, <1>5, <1>6 DEF Grows
<1> QED
  BY <1>2, <1>6, <1>7 DEF h

-----------------------------------------------------------------------------
(* The cells given become the cells made: with the copies and new arrays   *)
(* of h, as many references as counts.                                     *)

Exchanges(h, given, made) ==
  /\ given \in Seq(OperandCell) /\ made \in Seq(OperandCell)
  /\ \E e, N :
       /\ Grows(h, e, N)
       /\ \A o \in Obj : References(made, o) + ElementReferences(h, o)
                         = References(given, o) + ElementReferences(heap, o)
                             + References(e, o) + Fresh(N, o)

LEMMA SeqCounted ==
  ASSUME NEW S, NEW s \in Seq(S), NEW o
  PROVE  References(s, o) \in Nat
BY SeqFinite, PlacesFinite

LEMMA OneNat == \A c, o : One(c, o) \in Nat
BY DEF One

LEMMA ExchangeKeeps ==
  ASSUME IInv, Few', UNCHANGED status,
         env' \in [Var -> ValueCell], stack' \in Seq(OperandCell), drop' \in Seq(OperandCell),
         NEW given, NEW made, Exchanges(heap', given, made),
         \A o \in Obj :
           References(env', o) + References(stack', o) + References(drop', o) + References(given, o)
             = References(env, o) + References(stack, o) + References(drop, o) + References(made, o)
  PROVE  IInv'
<1>1. PICK e, N : /\ Grows(heap', e, N)
                  /\ \A o \in Obj : References(made, o) + ElementReferences(heap', o)
                                    = References(given, o) + ElementReferences(heap, o)
                                        + References(e, o) + Fresh(N, o)
  BY DEF Exchanges
<1>2. given \in Seq(OperandCell) /\ made \in Seq(OperandCell) /\ Existing(e)
  BY <1>1 DEF Exchanges, Grows
<1>3. ASSUME NEW o \in Obj
      PROVE  AllReferences(o)' = AllReferences(o) + References(e, o) + Fresh(N, o)
  <2>1. References(given, o) \in Nat /\ References(made, o) \in Nat /\ References(e, o) \in Nat
        /\ Fresh(N, o) \in Nat
    BY <1>2, SeqCounted, ExistingCounted DEF Fresh
  <2>2. References(env, o) \in Nat /\ References(stack, o) \in Nat /\ References(drop, o) \in Nat
        /\ ElementReferences(heap, o) \in Nat
    BY Finite
  <2>3. References(env', o) \in Nat /\ References(stack', o) \in Nat /\ References(drop', o) \in Nat
        /\ ElementReferences(heap', o) \in Nat
    <3>1. IsFiniteSet(DOMAIN env')
      BY HeapAssumption
    <3> QED
      BY <3>1, SeqCounted, PlacesFinite, ElementPlacesFinite
  <2>4. References(env', o) + References(stack', o) + References(drop', o) + ElementReferences(heap', o)
          = References(env, o) + References(stack, o) + References(drop, o)
              + ElementReferences(heap, o) + References(e, o) + Fresh(N, o)
    <3>1. References(made, o) + ElementReferences(heap', o)
            = References(given, o) + ElementReferences(heap, o) + References(e, o) + Fresh(N, o)
      BY <1>1
    <3>2. References(env', o) + References(stack', o) + References(drop', o) + References(given, o)
            = References(env, o) + References(stack, o) + References(drop, o) + References(made, o)
      OBVIOUS
    <3> DEFINE a1 == References(env, o)
               a2 == References(stack, o)
               a3 == References(drop, o)
               a4 == ElementReferences(heap, o)
               b1 == References(env', o)
               b2 == References(stack', o)
               b3 == References(drop', o)
               b4 == ElementReferences(heap', o)
               g  == References(given, o)
               m  == References(made, o)
               r  == References(e, o)
               f  == Fresh(N, o)
    <3>3. /\ a1 \in Nat /\ a2 \in Nat /\ a3 \in Nat /\ a4 \in Nat
          /\ b1 \in Nat /\ b2 \in Nat /\ b3 \in Nat /\ b4 \in Nat
          /\ g \in Nat /\ m \in Nat /\ r \in Nat /\ f \in Nat
          /\ m + b4 = g + a4 + r + f /\ b1 + b2 + b3 + g = a1 + a2 + a3 + m
      BY <2>1, <2>2, <2>3, <3>1, <3>2
    <3> HIDE DEF a1, a2, a3, a4, b1, b2, b3, b4, g, m, r, f
    <3>4. b1 + b2 + b3 + b4 = a1 + a2 + a3 + a4 + r + f
      BY <3>3
    <3> QED
      BY <3>4 DEF a1, a2, a3, a4, b1, b2, b3, b4, r, f
  <2> QED
    BY <2>4 DEF AllReferences
<1> QED
  BY <1>1, <1>3, StateKeeps

LEMMA EmptyExchange == IInv => Exchanges(heap, <<>>, <<>>)
<1> SUFFICES ASSUME IInv PROVE Exchanges(heap, <<>>, <<>>)
  OBVIOUS
<1>1. Grows(heap, <<>>, {}) /\ \A o : References(<<>>, o) = 0 /\ Fresh({}, o) = 0
  BY SameGrows
<1>2. \A o : ElementReferences(heap, o) \in Nat
  BY Finite
<1> QED
  BY <1>1, <1>2 DEF Exchanges

LEMMA CopyExchange ==
  ASSUME IInv, NEW c \in ValueCell, Alive(c)
  PROVE  Exchanges(Copying(<<c>>, heap), <<>>, <<c>>)
<1>1. Existing(<<c>>)
  BY DEF Existing
<1>2. /\ Grows(Copying(<<c>>, heap), <<c>>, {}) /\ \A o : Fresh({}, o) = 0
      /\ \A o : ElementReferences(Copying(<<c>>, heap), o) = ElementReferences(heap, o)
  BY <1>1, CopyingGrows
<1>3. \A o : ElementReferences(heap, o) \in Nat /\ References(<<>>, o) = 0
            /\ References(<<c>>, o) = One(c, o) /\ One(c, o) \in Nat
  BY Finite, ReferencesShort, OneNat
<1>4. <<c>> \in Seq(OperandCell) /\ <<>> \in Seq(OperandCell)
  BY ValueCells
<1>5. \A o \in Obj : References(<<c>>, o) + ElementReferences(Copying(<<c>>, heap), o)
                    = References(<<>>, o) + ElementReferences(heap, o)
                        + References(<<c>>, o) + Fresh({}, o)
  BY <1>2, <1>3
<1> QED
  BY <1>2, <1>4, <1>5 DEF Exchanges

LEMMA RefIs == \A n \in Obj : \A o : One(Ref(n), o) = Fresh({n}, o)
BY DEF One, Fresh, Ref, RefersTo, Counts

LEMMA NewCopyExchange ==
  ASSUME IInv, NEW n \in Free, NEW x, NewObject(x), Existing(x.e)
  PROVE  Exchanges(NewCopy(n, x), <<>>, <<Ref(n)>>)
<1>1. /\ Grows(NewCopy(n, x), x.e, {n})
      /\ \A o : ElementReferences(NewCopy(n, x), o) = ElementReferences(heap, o) + References(x.e, o)
  BY NewCopyGrows
<1>2. \A o : ElementReferences(heap, o) \in Nat /\ References(<<>>, o) = 0 /\ References(x.e, o) \in Nat
            /\ References(<<Ref(n)>>, o) = One(Ref(n), o) /\ One(Ref(n), o) \in Nat
  BY Finite, ReferencesShort, OneNat, ExistingCounted
<1>3. \A o : One(Ref(n), o) = Fresh({n}, o)
  BY RefIs DEF Free
<1>4. <<Ref(n)>> \in Seq(OperandCell) /\ <<>> \in Seq(OperandCell)
  BY ValueCells DEF Free
<1>5. \A o \in Obj : References(<<Ref(n)>>, o) + ElementReferences(NewCopy(n, x), o)
                    = References(<<>>, o) + ElementReferences(heap, o)
                        + References(x.e, o) + Fresh({n}, o)
  <2> TAKE o \in Obj
  <2>1. ElementReferences(NewCopy(n, x), o) = ElementReferences(heap, o) + References(x.e, o)
    BY <1>1
  <2>2. References(<<Ref(n)>>, o) = Fresh({n}, o) /\ References(<<Ref(n)>>, o) \in Nat
    BY <1>2, <1>3
  <2> QED
    BY <1>2, <2>1, <2>2
<1> QED
  <2> DEFINE h == NewCopy(n, x)
             d == x.e
             N == {n}
  <2>1. Grows(h, d, N)
    BY <1>1
  <2>2. \A o \in Obj : References(<<Ref(n)>>, o) + ElementReferences(h, o)
                      = References(<<>>, o) + ElementReferences(heap, o) + References(d, o) + Fresh(N, o)
    BY <1>5
  <2> HIDE DEF d, N, h
  <2>3. Exchanges(h, <<>>, <<Ref(n)>>)
    BY <1>4, <2>1, <2>2 DEF Exchanges
  <2> QED
    BY <2>3 DEF h

LEMMA ObjectExchange ==
  ASSUME IInv, NEW n \in Free, NEW x, NewObject(x)
  PROVE  Exchanges([heap EXCEPT ![n] = x], x.e, <<Ref(n)>>)
<1> DEFINE h == [heap EXCEPT ![n] = x]
<1>1. /\ Grows(h, <<>>, {n}) /\ \A o : References(<<>>, o) = 0
      /\ \A o : ElementReferences(h, o) = ElementReferences(heap, o) + References(x.e, o)
  BY ObjectGrows
<1>0. x.e \in Seq(ValueCell)
  BY DEF NewObject
<1>2. \A o : ElementReferences(heap, o) \in Nat /\ References(x.e, o) \in Nat
            /\ References(<<Ref(n)>>, o) = One(Ref(n), o) /\ One(Ref(n), o) \in Nat
  BY <1>0, Finite, ReferencesShort, OneNat, SeqCounted
<1>3. \A o : One(Ref(n), o) = Fresh({n}, o)
  BY RefIs DEF Free
<1>4. <<Ref(n)>> \in Seq(OperandCell) /\ x.e \in Seq(OperandCell)
  BY <1>0, ValueCells, SeqMonotonic DEF Free
<1> HIDE DEF h
<1>5. \A o \in Obj : References(<<Ref(n)>>, o) + ElementReferences(h, o)
                    = References(x.e, o) + ElementReferences(heap, o)
                        + References(<<>>, o) + Fresh({n}, o)
  <2> TAKE o \in Obj
  <2>1. ElementReferences(h, o) = ElementReferences(heap, o) + References(x.e, o) /\ References(<<>>, o) = 0
    BY <1>1
  <2>2. References(<<Ref(n)>>, o) = Fresh({n}, o) /\ References(<<Ref(n)>>, o) \in Nat
    BY <1>2, <1>3
  <2> QED
    BY <1>2, <2>1, <2>2
<1>6. Exchanges(h, x.e, <<Ref(n)>>)
  <2> DEFINE d == <<>>
             N == {n}
  <2>1. Grows(h, d, N)
    BY <1>1
  <2>2. \A o \in Obj : References(<<Ref(n)>>, o) + ElementReferences(h, o)
                      = References(x.e, o) + ElementReferences(heap, o) + References(d, o) + Fresh(N, o)
    BY <1>5
  <2> HIDE DEF d, N
  <2> QED
    BY <1>4, <2>1, <2>2 DEF Exchanges
<1> QED
  BY <1>6 DEF h

LEMMA ExchangeMore ==
  ASSUME IInv, NEW h, NEW m, Exchanges(h, <<>>, m), NEW s \in Seq(OperandCell)
  PROVE  Exchanges(h, s, m \o s)
<1>1. m \in Seq(OperandCell)
  BY DEF Exchanges
<1>2. PICK e, N : /\ Grows(h, e, N)
                  /\ \A o \in Obj : References(m, o) + ElementReferences(h, o)
                                    = References(<<>>, o) + ElementReferences(heap, o)
                                        + References(e, o) + Fresh(N, o)
  BY DEF Exchanges
<1>3. ASSUME NEW o \in Obj
      PROVE  References(m \o s, o) + ElementReferences(h, o)
               = References(s, o) + ElementReferences(heap, o) + References(e, o) + Fresh(N, o)
  <2>1. References(m \o s, o) = References(m, o) + References(s, o)
    BY <1>1, ReferencesConcat
  <2>2. References(<<>>, o) = 0 /\ References(m, o) \in Nat /\ References(s, o) \in Nat
        /\ ElementReferences(h, o) \in Nat /\ ElementReferences(heap, o) \in Nat
        /\ References(e, o) \in Nat /\ Fresh(N, o) \in Nat
    BY <1>1, <1>2, ReferencesShort, SeqCounted, ElementPlacesFinite, ExistingCounted DEF Grows, Fresh
  <2>3. References(m, o) + ElementReferences(h, o)
          = References(<<>>, o) + ElementReferences(heap, o) + References(e, o) + Fresh(N, o)
    BY <1>2
  <2> QED
    BY <2>1, <2>2, <2>3
<1>4. m \o s \in Seq(OperandCell)
  BY <1>1, ConcatProperties
<1> QED
  BY <1>2, <1>3, <1>4 DEF Exchanges

LEMMA ClonedExchange ==
  ASSUME IInv, NEW c \in ValueCell, Alive(c), NEW r \in Cloned(c)
  PROVE  /\ r.c \in ValueCell /\ r.d \in Seq(OperandCell)
         /\ Exchanges(r.h, <<c>>, <<r.c>> \o r.d)
         /\ c.k = "ref" <=> r.c.k = "ref"
         /\ c.k = "ref" => /\ r.h[r.c.o].e = heap[c.o].e /\ r.h[r.c.o].rc \in Nat
                           /\ r.h[r.c.o].tab = heap[c.o].tab /\ r.h[r.c.o].live
         /\ \A p \in Obj : heap[p].live => r.h[p].e = heap[p].e
<1>0. c \in OperandCell /\ <<c>> \in Seq(OperandCell) /\ <<>> \in Seq(OperandCell)
      /\ (c.k = "ref" => c.o \in Obj)
  BY ValueCells
<1>1. CASE RcOf(c) > 1
  <2>1. PICK n \in Free : r = [c |-> Ref(n), h |-> NewCopy(n, Twin(c.o)), d |-> <<c>>]
    BY <1>1 DEF Cloned
  <2>2. c.k = "ref" /\ c.o \in Obj
    BY <1>0, <1>1 DEF RcOf
  <2>3. n \in Free /\ Ref(n) \in ValueCell /\ Ref(n).k = "ref" /\ Ref(n).o = n
    BY ValueCells DEF Free, Ref
  <2>4. NewObject(Twin(c.o)) /\ Twin(c.o).e = heap[c.o].e /\ Twin(c.o).tab = heap[c.o].tab
    BY <2>2, NewTwin DEF Alive, RefersTo, Counts
  <2>5. /\ Exchanges(NewCopy(n, Twin(c.o)), <<>>, <<Ref(n)>>) /\ NewCopy(n, Twin(c.o))[n] = Twin(c.o)
        /\ \A p \in Obj : heap[p].live => NewCopy(n, Twin(c.o))[p].e = heap[p].e
    <3>1. Existing(Twin(c.o).e)
      BY <2>2, <2>4, AllAlive
    <3> QED
      BY <2>4, <3>1, NewCopyExchange, NewCopyGrows
  <2>6. Exchanges(NewCopy(n, Twin(c.o)), <<c>>, <<Ref(n)>> \o <<c>>)
    BY <1>0, <2>5, ExchangeMore
  <2>7. Twin(c.o).rc = 1 /\ Twin(c.o).live
    BY <2>4 DEF NewObject
  <2> QED
    BY <1>0, <2>1, <2>2, <2>3, <2>4, <2>5, <2>6, <2>7
<1>2. CASE ~(RcOf(c) > 1)
  <2>1. r = [c |-> c, h |-> heap, d |-> <<>>]
    BY <1>2 DEF Cloned
  <2>2. Exchanges(heap, <<>>, <<>>)
    BY EmptyExchange
  <2>3. Exchanges(heap, <<c>>, <<>> \o <<c>>)
    BY <1>0, <2>2, ExchangeMore
  <2>4. <<>> \o <<c>> = <<c>> /\ <<c>> \o <<>> = <<c>>
    BY <1>0, ConcatEmptySeq
  <2>5. c.k = "ref" => heap[c.o].rc \in Nat /\ heap[c.o].live
    BY <1>0, HeapAssumption DEF IInv, HeapOK, Alive, RefersTo, Counts
  <2> QED
    BY <1>0, <2>1, <2>3, <2>4, <2>5
<1> QED
  BY <1>1, <1>2

LEMMA ExistingConcat ==
  ASSUME NEW a, Existing(a), NEW b, Existing(b)
  PROVE  Existing(a \o b) /\ Len(a \o b) = Len(a) + Len(b)
<1>1. a \in Seq(ValueCell) /\ b \in Seq(ValueCell)
  BY DEF Existing
<1>2. /\ a \o b \in Seq(ValueCell) /\ Len(a \o b) = Len(a) + Len(b)
      /\ \A i \in 1..(Len(a) + Len(b)) : (a \o b)[i] = IF i <= Len(a) THEN a[i] ELSE b[i - Len(a)]
  BY <1>1, ConcatProperties
<1>3. /\ DOMAIN a = 1..Len(a) /\ DOMAIN b = 1..Len(b) /\ Len(a) \in Nat /\ Len(b) \in Nat
      /\ DOMAIN (a \o b) = 1..(Len(a) + Len(b))
  BY <1>1, <1>2, SeqFinite
<1>4. ASSUME NEW i \in DOMAIN (a \o b) PROVE Alive((a \o b)[i])
  <2>1. CASE i <= Len(a)
    BY <1>2, <1>3, <2>1 DEF Existing
  <2>2. CASE ~(i <= Len(a))
    <3>1. i - Len(a) \in DOMAIN b
      BY <1>3, <2>2
    <3>2. (a \o b)[i] = b[i - Len(a)]
      BY <1>2, <1>3, <2>2
    <3> QED
      BY <3>1, <3>2 DEF Existing
  <2> QED
    BY <2>1, <2>2
<1> QED
  BY <1>2, <1>4 DEF Existing

(* An array grows where it is.                                             *)
LEMMA GrownExchange ==
  ASSUME IInv, NEW c \in ValueCell, Alive(c), IsArray(c), NEW r \in ValueCell,
         Len(heap[c.o].e) + 1 <= MaxLen
  PROVE  LET h == [heap EXCEPT ![c.o].e = Append(@, r)] IN
         /\ Exchanges(h, <<c, r>>, <<c>>)
         /\ \A p \in Obj : \A i \in DOMAIN heap[p].e :
              i \in DOMAIN h[p].e /\ h[p].e[i] = heap[p].e[i]
<1> DEFINE p == c.o
           e == heap[p].e
           h == [heap EXCEPT ![p].e = Append(@, r)]
<1>1. WellFormed(heap) /\ Grows(heap, <<>>, {}) /\ \A o : References(<<>>, o) = 0 /\ Fresh({}, o) = 0
  BY HeapWellFormed, SameGrows
<1>2. p \in Obj /\ heap[p].live /\ ~heap[p].tab
  BY ValueCells DEF Alive, RefersTo, Counts, IsArray
<1>3. e \in Seq(ValueCell) /\ Append(e, r) \in Seq(ValueCell) /\ Len(Append(e, r)) = Len(e) + 1
      /\ \A i \in 1..Len(e) : Append(e, r)[i] = e[i]
  BY <1>1, <1>2, AppendProperties DEF WellFormed, Shaped
<1>4. DOMAIN e = 1..Len(e) /\ Len(e) \in Nat /\ DOMAIN Append(e, r) = 1..(Len(e) + 1)
  BY <1>3, SeqFinite
<1>5. /\ h \in [Obj -> [live : BOOLEAN, rc : Int, tab : BOOLEAN, keys : Seq(Int), e : Seq(ValueCell)]]
      /\ h[p].e = Append(e, r) /\ \A q \in Obj \ {p} : h[q] = heap[q]
      /\ \A q \in Obj : h[q].live = heap[q].live /\ h[q].rc = heap[q].rc /\ h[q].tab = heap[q].tab
  BY <1>1, <1>2, <1>3 DEF WellFormed
<1> HIDE DEF h
<1>6. WellFormed(h)
  <2>1. ASSUME NEW q \in Obj
        PROVE  /\ h[q].e \in Seq(ValueCell) /\ Len(h[q].e) <= MaxLen
               /\ ~h[q].live => h[q].e = <<>>
               /\ Keyed(h[q])
    <3>1. CASE q = p
      BY <1>2, <1>3, <1>5, <3>1 DEF Keyed
    <3>2. CASE q # p
      BY <1>1, <1>5, <3>2 DEF WellFormed, Shaped
    <3> QED
      BY <3>1, <3>2
  <2> QED
    BY <1>5, <2>1 DEF WellFormed, Shaped
<1>7. Grows(h, <<>>, {})
  BY <1>1, <1>5, <1>6 DEF Grows
<1>8. ASSUME NEW o \in Obj PROVE References(<<c>>, o) + ElementReferences(h, o)
                                   = References(<<c, r>>, o) + ElementReferences(heap, o)
  <2>1. ElementReferences(h, o) + References(heap[p].e, o)
          = ElementReferences(heap, o) + References(h[p].e, o)
    <3>1. Shaped(h) /\ Shaped(heap)
      BY <1>1, <1>6 DEF WellFormed
    <3>2. \A q \in Obj \ {p} : heap[q].e = h[q].e
      BY <1>5
    <3> HIDE DEF p
    <3> QED
      BY <1>2, <3>1, <3>2, ElementsChange
  <2>2. References(h[p].e, o) = References(e, o) + One(r, o)
    BY <1>3, <1>5, ReferencesAppend
  <2>3. References(<<c>>, o) = One(c, o) /\ References(<<c, r>>, o) = One(c, o) + One(r, o)
    BY ReferencesShort
  <2>4. One(c, o) \in Nat /\ One(r, o) \in Nat /\ References(e, o) \in Nat
        /\ ElementReferences(h, o) \in Nat /\ ElementReferences(heap, o) \in Nat
    BY <1>3, OneNat, SeqCounted, ElementPlacesFinite
  <2>5. ElementReferences(h, o) = ElementReferences(heap, o) + One(r, o)
    BY <2>1, <2>2, <2>4
  <2> QED
    BY <2>3, <2>4, <2>5
<1>9. Exchanges(h, <<c, r>>, <<c>>)
  <2>1. <<c, r>> \in Seq(OperandCell) /\ <<c>> \in Seq(OperandCell)
    BY ValueCells
  <2> DEFINE d == <<>>
             N == {}
  <2>2. Grows(h, d, N)
    BY <1>7
  <2>3. \A o \in Obj : References(<<c>>, o) + ElementReferences(h, o)
                      = References(<<c, r>>, o) + ElementReferences(heap, o) + References(d, o) + Fresh(N, o)
    <3> TAKE o \in Obj
    <3>1. References(<<c, r>>, o) \in Nat /\ ElementReferences(heap, o) \in Nat
      BY <2>1, SeqCounted, ElementPlacesFinite
    <3>2. References(d, o) = 0 /\ Fresh(N, o) = 0
      BY <1>1
    <3> QED
      BY <1>8, <3>1, <3>2
  <2> HIDE DEF d, N
  <2> QED
    BY <2>1, <2>2, <2>3 DEF Exchanges
<1>10. \A q \in Obj : \A i \in DOMAIN heap[q].e : i \in DOMAIN h[q].e /\ h[q].e[i] = heap[q].e[i]
  <2> TAKE q \in Obj
  <2>1. CASE q = p
    <3>1. h[q].e = Append(e, r) /\ heap[q].e = e
      BY <1>5, <2>1
    <3> HIDE DEF e
    <3> QED
      BY <1>3, <1>4, <3>1
  <2>2. CASE q # p
    BY <1>5, <2>2
  <2> QED
    BY <2>1, <2>2
<1> QED
  BY <1>9, <1>10 DEF h

LEMMA AppendedExchange ==
  ASSUME IInv, NEW c \in ValueCell, Alive(c), NEW r \in ValueCell, Alive(r),
         IsArray(c) \/ IsArray(r), AppendedLen(c, r) <= MaxLen, NEW a \in Appended(c, r)
  PROVE  /\ a.c \in ValueCell /\ a.d \in Seq(OperandCell)
         /\ Exchanges(a.h, <<c, r>>, <<a.c>> \o a.d)
         /\ \A p \in Obj : heap[p].live =>
              \A i \in DOMAIN heap[p].e : i \in DOMAIN a.h[p].e /\ a.h[p].e[i] = heap[p].e[i]
<1>0. <<c, r>> \in Seq(OperandCell) /\ <<c>> \in Seq(OperandCell) /\ <<c>> \in Seq(ValueCell)
  BY ValueCells
<1>1. CASE IsArray(r)
  <2> DEFINE left == IF IsArray(c) THEN Elems(c) ELSE <<c>>
             e == left \o Elems(r)
  <2>1. PICK n \in Free : a = [c |-> Ref(n), h |-> NewCopy(n, Array(e)), d |-> <<c, r>>]
    BY <1>1 DEF Appended
  <2>2. Existing(Elems(r))
    BY <1>1, AllAlive, ValueCells DEF Elems, IsArray
  <2>3. Existing(left)
    <3>1. CASE IsArray(c)
      BY <3>1, AllAlive, ValueCells DEF Elems, IsArray
    <3>2. CASE ~IsArray(c)
      BY <1>0, <3>2 DEF Existing
    <3> QED
      BY <3>1, <3>2
  <2>4. Len(left) = IF IsArray(c) THEN Len(Elems(c)) ELSE 1
    OBVIOUS
  <2>5. Existing(e) /\ Len(e) <= MaxLen
    <3>1. Existing(e) /\ Len(e) = Len(left) + Len(Elems(r))
      BY <2>2, <2>3, ExistingConcat
    <3> QED
      BY <1>1, <2>4, <3>1 DEF AppendedLen
  <2> HIDE DEF left, e
  <2>6. /\ Exchanges(NewCopy(n, Array(e)), <<>>, <<Ref(n)>>)
        /\ \A p \in Obj : heap[p].live => NewCopy(n, Array(e))[p].e = heap[p].e
    <3>1. NewObject(Array(e)) /\ Array(e).e = e
      BY <2>5, NewArray DEF Existing
    <3>2. Existing(Array(e).e)
      BY <2>5, <3>1
    <3> DEFINE x == Array(e)
    <3> HIDE DEF x
    <3>3. NewObject(x) /\ Existing(x.e)
      BY <3>1, <3>2 DEF x
    <3>4. Exchanges(NewCopy(n, x), <<>>, <<Ref(n)>>)
      BY <3>3, NewCopyExchange
    <3>5. \A p \in Obj : heap[p].live => NewCopy(n, x)[p].e = heap[p].e
      BY <3>3, NewCopySame
    <3> QED
      BY <3>4, <3>5 DEF x
  <2>7. Exchanges(NewCopy(n, Array(e)), <<c, r>>, <<Ref(n)>> \o <<c, r>>)
    BY <1>0, <2>6, ExchangeMore
  <2>8. Ref(n) \in ValueCell
    BY ValueCells DEF Free
  <2> QED
    BY <1>0, <2>1, <2>6, <2>7, <2>8
<1>2. CASE ~IsArray(r)
  <2>1. IsArray(c) /\ Elems(c) = heap[c.o].e
    BY <1>2 DEF Elems, IsArray
  <2>2. a = [c |-> c, h |-> [heap EXCEPT ![c.o].e = Append(@, r)], d |-> <<>>]
    BY <1>2 DEF Appended
  <2>3. Len(heap[c.o].e) + 1 <= MaxLen
    BY <1>2, <2>1 DEF AppendedLen
  <2>4. <<c>> \o <<>> = <<c>>
    BY <1>0, ConcatEmptySeq
  <2> DEFINE h == [heap EXCEPT ![c.o].e = Append(@, r)]
  <2>5. /\ Exchanges(h, <<c, r>>, <<c>>)
        /\ \A p \in Obj : \A i \in DOMAIN heap[p].e : i \in DOMAIN h[p].e /\ h[p].e[i] = heap[p].e[i]
    BY <1>2, <2>1, <2>3, GrownExchange
  <2>6. a.c = c /\ a.h = h /\ a.d = <<>>
    BY <2>2
  <2> HIDE DEF h
  <2> QED
    BY <2>4, <2>5, <2>6
<1> QED
  BY <1>1, <1>2

-----------------------------------------------------------------------------
(* Operands.                                                               *)

LEMMA ReferencesLast ==
  ASSUME NEW S, NEW s \in Seq(S), NEW m \in 1..Len(s), NEW o
  PROVE  References(SubSeq(s, 1, m), o) = References(SubSeq(s, 1, m - 1), o) + One(s[m], o)
<1>1. Len(s) \in Nat /\ m \in Nat /\ m \in 0..Len(s) /\ m - 1 \in 0..Len(s) /\ s[m] \in S
  BY SeqFinite, ElementOfSeq
<1> DEFINE u == SubSeq(s, 1, m)
           w == SubSeq(s, 1, m - 1)
<1>2. u \in Seq(S) /\ Len(u) = m /\ \A i \in 1..m : u[i] = s[i]
  BY <1>1, ReferencesSplit
<1>3. w \in Seq(S) /\ Len(w) = m - 1 /\ \A i \in 1..(m - 1) : w[i] = s[i]
  BY <1>1, ReferencesSplit
<1> HIDE DEF u, w
<1>4. Append(w, s[m]) \in Seq(S) /\ Len(Append(w, s[m])) = m
      /\ \A i \in 1..m : Append(w, s[m])[i] = u[i]
  <2>1. /\ Append(w, s[m]) \in Seq(S) /\ Len(Append(w, s[m])) = Len(w) + 1
        /\ \A i \in 1..Len(w) : Append(w, s[m])[i] = w[i]
        /\ Append(w, s[m])[Len(w) + 1] = s[m]
    BY <1>1, <1>3, AppendProperties
  <2>2. ASSUME NEW i \in 1..m PROVE Append(w, s[m])[i] = u[i]
    <3>1. CASE i = m
      BY <1>1, <1>2, <1>3, <2>1, <3>1
    <3>2. CASE i # m
      <4>1. i \in 1..(m - 1)
        BY <1>1, <3>2
      <4> QED
        BY <1>2, <1>3, <2>1, <4>1
    <3> QED
      BY <3>1, <3>2
  <2> QED
    BY <1>1, <1>3, <2>1, <2>2
<1>5. Append(w, s[m]) = u
  BY <1>2, <1>4, SeqEqual
<1>6. References(Append(w, s[m]), o) = References(w, o) + One(s[m], o)
  BY <1>1, <1>3, ReferencesAppend
<1> QED
  BY <1>5, <1>6 DEF u, w

LEMMA Operands ==
  ASSUME IInv
  PROVE  /\ Len(stack) \in Nat
         /\ \A o : References(Below(0), o) = References(stack, o)
         /\ \A n \in 0..Len(stack) :
              /\ Below(n) \in Seq(OperandCell) /\ Len(Below(n)) = Len(stack) - n
              /\ \A o : References(Below(n), o) \in Nat
         /\ \A n \in 0..(Len(stack) - 1) :
              /\ Operand(n) \in OperandCell /\ Alive(Operand(n))
              /\ \A o : References(Below(n), o) = References(Below(n + 1), o) + One(Operand(n), o)
<1>1. stack \in Seq(OperandCell) /\ Len(stack) \in Nat /\ DOMAIN stack = 1..Len(stack)
  BY SeqFinite DEF IInv
<1>2. Below(0) = stack
  <2>1. Len(stack) - 0 = Len(stack)
    BY <1>1
  <2>2. SubSeq(stack, 1, Len(stack)) = stack
    BY <1>1, SubSeqFull
  <2> QED
    BY <2>1, <2>2 DEF Below
<1>3. ASSUME NEW n \in 0..Len(stack)
      PROVE  /\ Below(n) \in Seq(OperandCell) /\ Len(Below(n)) = Len(stack) - n
             /\ \A o : References(Below(n), o) \in Nat
  <2>1. Len(stack) - n \in 0..Len(stack)
    BY <1>1
  <2>2. Below(n) \in Seq(OperandCell) /\ Len(Below(n)) = Len(stack) - n
    BY <1>1, <2>1, ReferencesSplit DEF Below
  <2> QED
    BY <2>2, SeqCounted
<1>4. ASSUME NEW n \in 0..(Len(stack) - 1)
      PROVE  /\ Operand(n) \in OperandCell /\ Alive(Operand(n))
             /\ \A o : References(Below(n), o) = References(Below(n + 1), o) + One(Operand(n), o)
  <2>1. Len(stack) - n \in 1..Len(stack) /\ Len(stack) - (n + 1) = (Len(stack) - n) - 1
    BY <1>1
  <2>2. Operand(n) \in OperandCell /\ Alive(Operand(n))
    BY <1>1, <2>1, AllAlive DEF Operand
  <2>3. ASSUME NEW o
        PROVE  References(Below(n), o) = References(Below(n + 1), o) + One(Operand(n), o)
    BY <1>1, <2>1, ReferencesLast DEF Below, Operand
  <2> QED
    BY <2>2, <2>3
<1> QED
  BY <1>1, <1>2, <1>3, <1>4

LEMMA Operands1 ==
  ASSUME IInv, Len(stack) >= 1
  PROVE  /\ Operand(0) \in OperandCell /\ Alive(Operand(0)) /\ Below(1) \in Seq(OperandCell)
         /\ \A o : /\ References(stack, o) = References(Below(1), o) + One(Operand(0), o)
                  /\ References(Below(1), o) \in Nat
<1>1. 0 \in 0..(Len(stack) - 1) /\ 1 \in 0..Len(stack) /\ 0 + 1 = 1
  BY Operands
<1> QED
  BY <1>1, Operands

LEMMA Operands2 ==
  ASSUME IInv, Len(stack) >= 2
  PROVE  /\ Operand(0) \in OperandCell /\ Alive(Operand(0))
         /\ Operand(1) \in OperandCell /\ Alive(Operand(1)) /\ Below(2) \in Seq(OperandCell)
         /\ \A o : /\ References(stack, o) = References(Below(2), o) + One(Operand(1), o) + One(Operand(0), o)
                  /\ References(Below(2), o) \in Nat
<1>1. 1 \in 0..(Len(stack) - 1) /\ 2 \in 0..Len(stack) /\ 1 + 1 = 2 /\ Len(stack) >= 1
  BY Operands
<1>2. \A o : References(Below(1), o) = References(Below(2), o) + One(Operand(1), o)
  BY <1>1, Operands
<1>3. /\ Operand(1) \in OperandCell /\ Alive(Operand(1)) /\ Below(2) \in Seq(OperandCell)
      /\ \A o : References(Below(2), o) \in Nat
  BY <1>1, Operands
<1> QED
  BY <1>1, <1>2, <1>3, Operands1

LEMMA Operands3 ==
  ASSUME IInv, Len(stack) >= 3
  PROVE  /\ Operand(2) \in OperandCell /\ Alive(Operand(2)) /\ Below(3) \in Seq(OperandCell)
         /\ \A o : /\ References(stack, o) = References(Below(3), o) + One(Operand(2), o)
                                               + One(Operand(1), o) + One(Operand(0), o)
                  /\ References(Below(3), o) \in Nat
<1>1. 2 \in 0..(Len(stack) - 1) /\ 3 \in 0..Len(stack) /\ 2 + 1 = 3 /\ Len(stack) >= 2
  BY Operands
<1>2. \A o : References(Below(2), o) = References(Below(3), o) + One(Operand(2), o)
  BY <1>1, Operands
<1>3. /\ Operand(2) \in OperandCell /\ Alive(Operand(2)) /\ Below(3) \in Seq(OperandCell)
      /\ \A o : References(Below(3), o) \in Nat
  BY <1>1, Operands
<1> QED
  BY <1>1, <1>2, <1>3, Operands2

-----------------------------------------------------------------------------
(* Borrowed places.                                                        *)

LEMMA PlaceFacts ==
  ASSUME IInv, NEW b \in BorrowCell, ~Dangling(b)
  PROVE  /\ Pointed(b) \in ValueCell /\ Alive(Pointed(b)) /\ b.v \in Var
         /\ b.o = NoObj => Pointed(b) = env[b.v]
         /\ b.o # NoObj => /\ b.o \in Obj /\ heap[b.o].live /\ b.i \in DOMAIN heap[b.o].e
                           /\ Pointed(b) = heap[b.o].e[b.i]
<1>1. b.v \in Var /\ b.o \in Obj \union {NoObj} /\ (b.o \in Obj => b.i \in 1..b.len)
  BY DEF BorrowCell
<1>2. CASE b.o = NoObj
  BY <1>1, <1>2, AllAlive DEF Pointed
<1>3. CASE b.o # NoObj
  <2>0. b.o \in Obj /\ heap[b.o].live /\ ~(Len(heap[b.o].e) < b.len) /\ b.i \in 1..b.len /\ b.len \in Nat
    BY <1>1, <1>3 DEF Dangling, BorrowCell
  <2>1. b.o \in Obj /\ heap[b.o].live /\ b.i \in 1..Len(heap[b.o].e)
    <3>1. Len(heap[b.o].e) \in Nat
      BY <2>0, AllAlive, SeqFinite DEF Existing
    <3> QED
      BY <2>0, <3>1
  <2>2. Existing(heap[b.o].e)
    BY <2>1, AllAlive
  <2>3. b.i \in DOMAIN heap[b.o].e /\ heap[b.o].e[b.i] \in ValueCell /\ Alive(heap[b.o].e[b.i])
    BY <2>1, <2>2, SeqFinite, ElementOfSeq DEF Existing
  <2> QED
    BY <1>1, <1>3, <2>1, <2>3 DEF Pointed
<1> QED
  BY <1>2, <1>3

(* An element is overwritten.                                              *)
Overwritten(h, p, i, c) == [h EXCEPT ![p].e[i] = c]

LEMMA ElementWritten ==
  ASSUME NEW h, WellFormed(h), NEW p \in Obj, NEW i \in DOMAIN h[p].e, NEW c \in ValueCell
  PROVE  LET g == Overwritten(h, p, i, c) IN
         /\ WellFormed(g) /\ \A q \in Obj : g[q].live = h[q].live /\ g[q].rc = h[q].rc
         /\ \A o : ElementReferences(g, o) + One(h[p].e[i], o) = ElementReferences(h, o) + One(c, o)
<1> DEFINE old == h[p].e
           new == [old EXCEPT ![i] = c]
           g   == Overwritten(h, p, i, c)
<1>1. old \in Seq(ValueCell) /\ Len(old) <= MaxLen /\ h \in [Obj -> [live : BOOLEAN, rc : Int, tab : BOOLEAN, keys : Seq(Int), e : Seq(ValueCell)]]
  BY DEF WellFormed, Shaped
<1>2. IsFiniteSet(DOMAIN old) /\ DOMAIN old = 1..Len(old)
  BY <1>1, SeqFinite
<1>3. new \in Seq(ValueCell) /\ Len(new) = Len(old)
  BY <1>1, <1>2, ExceptSeq
<1> DEFINE r == [h[p] EXCEPT !.e = new]
<1>4. g = [h EXCEPT ![p] = r]
  BY <1>1 DEF Overwritten
<1>5. h[p] \in [live : BOOLEAN, rc : Int, tab : BOOLEAN, keys : Seq(Int), e : Seq(ValueCell)]
  BY <1>1
<1> HIDE DEF new
<1>6. r \in [live : BOOLEAN, rc : Int, tab : BOOLEAN, keys : Seq(Int), e : Seq(ValueCell)]
      /\ r.e = new /\ r.live = h[p].live /\ r.rc = h[p].rc /\ r.tab = h[p].tab /\ r.keys = h[p].keys
  BY <1>3, <1>5
<1> HIDE DEF r, g
<1>7. /\ g \in [Obj -> [live : BOOLEAN, rc : Int, tab : BOOLEAN, keys : Seq(Int), e : Seq(ValueCell)]]
      /\ g[p] = r /\ \A q \in Obj \ {p} : g[q] = h[q]
  BY <1>1, <1>4, <1>6
<1>8. h[p].live
  <2>1. old # <<>>
    BY <1>2
  <2> QED
    BY <2>1 DEF WellFormed
<1>9. ASSUME NEW q \in Obj
      PROVE  /\ g[q].live = h[q].live /\ g[q].rc = h[q].rc
             /\ g[q].e \in Seq(ValueCell) /\ Len(g[q].e) <= MaxLen
             /\ ~g[q].live => g[q].e = <<>>
             /\ Keyed(g[q])
  <2>1. CASE q = p
    <3>1. Keyed(h[p])
      BY DEF WellFormed
    <3>2. Keyed(r)
      BY <1>3, <1>6, <3>1 DEF Keyed
    <3> QED
      BY <1>1, <1>3, <1>6, <1>7, <1>8, <2>1, <3>2
  <2>2. CASE q # p
    BY <1>7, <2>2 DEF WellFormed, Shaped
  <2> QED
    BY <2>1, <2>2
<1>10. WellFormed(g)
  BY <1>7, <1>9 DEF WellFormed, Shaped
<1>11. ASSUME NEW o
       PROVE  ElementReferences(g, o) + One(old[i], o) = ElementReferences(h, o) + One(c, o)
  <2>1. References(new, o) + One(old[i], o) = References(old, o) + One(c, o)
    BY <1>2, ReferencesExcept DEF new
  <2>2. ElementReferences(h, o) + References(g[p].e, o) = ElementReferences(g, o) + References(old, o)
    <3>1. Shaped(h) /\ Shaped(g) /\ \A q \in Obj \ {p} : h[q].e = g[q].e
      BY <1>7, <1>10 DEF WellFormed
    <3>2. ElementReferences(h, o) + References(g[p].e, o) = ElementReferences(g, o) + References(h[p].e, o)
      BY <3>1, ElementsChange
    <3> QED
      BY <3>2
  <2>3. References(g[p].e, o) = References(new, o)
    BY <1>6, <1>7
  <2>4. /\ ElementReferences(h, o) \in Nat /\ ElementReferences(g, o) \in Nat
        /\ One(old[i], o) \in Nat /\ One(c, o) \in Nat
        /\ References(new, o) \in Nat /\ References(old, o) \in Nat
    BY <1>1, <1>3, SeqCounted, ElementPlacesFinite, OneNat
  <2> HIDE DEF old
  <2> QED
    BY <2>1, <2>2, <2>3, <2>4
<1> QED
  BY <1>9, <1>10, <1>11 DEF g

(* The cell c is written to the place b points at, in the heap h.          *)
LEMMA PlaceWritten ==
  ASSUME IInv, NEW b \in BorrowCell, ~Dangling(b), NEW c \in ValueCell,
         NEW h, NEW e, NEW N, Grows(h, e, N),
         b.o # NoObj => b.i \in DOMAIN h[b.o].e /\ h[b.o].e[b.i] = Pointed(b)
  PROVE  LET en == EnvWith(b, c)
             g  == HeapWith(h, b, c)
         IN
         /\ en \in [Var -> ValueCell] /\ Grows(g, e, N)
         /\ \A o : References(en, o) + ElementReferences(g, o) + One(Pointed(b), o)
                   = References(env, o) + ElementReferences(h, o) + One(c, o)
<1> DEFINE en == EnvWith(b, c)
           g  == HeapWith(h, b, c)
<1>0. WellFormed(h) /\ env \in [Var -> ValueCell] /\ b.v \in Var
  BY PlaceFacts DEF Grows, IInv
<1>1. CASE b.o = NoObj
  <2>1. en = [env EXCEPT ![b.v] = c] /\ g = h /\ Pointed(b) = env[b.v]
    BY <1>1 DEF EnvWith, HeapWith, Pointed
  <2> HIDE DEF en, g
  <2>2. en \in [Var -> ValueCell] /\ Grows(g, e, N)
    BY <1>0, <2>1
  <2>3. ASSUME NEW o
        PROVE  References(en, o) + ElementReferences(g, o) + One(Pointed(b), o)
                 = References(env, o) + ElementReferences(h, o) + One(c, o)
    <3>1. References(en, o) + One(env[b.v], o) = References(env, o) + One(c, o)
      <4>1. IsFiniteSet(DOMAIN env) /\ b.v \in DOMAIN env
        BY <1>0, Finite
      <4>2. References([env EXCEPT ![b.v] = c], o) + One(env[b.v], o) = References(env, o) + One(c, o)
        BY <4>1, ReferencesExcept
      <4> QED
        BY <2>1, <4>2
    <3>2. References(en, o) \in Nat
      <4>1. IsFiniteSet(DOMAIN en)
        BY <2>2, HeapAssumption
      <4> QED
        BY <4>1, PlacesFinite
    <3> DEFINE x == References(en, o)
               y == References(env, o)
               z == ElementReferences(h, o)
               m == One(env[b.v], o)
               n == One(c, o)
    <3>3. x \in Nat /\ y \in Nat /\ z \in Nat /\ m \in Nat /\ n \in Nat /\ x + m = y + n
      BY <3>1, <3>2, Finite, ElementPlacesFinite, OneNat
    <3> HIDE DEF x, y, z, m, n
    <3>4. x + z + m = y + z + n
      BY <3>3
    <3> QED
      BY <2>1, <3>4 DEF x, y, z, m, n
  <2> QED
    BY <2>2, <2>3 DEF en, g
<1>2. CASE b.o # NoObj
  <2> DEFINE p == b.o
             i == b.i
  <2>1. p \in Obj /\ i \in DOMAIN h[p].e /\ h[p].e[i] = Pointed(b)
    BY <1>2, PlaceFacts
  <2>2. en = env /\ g = [h EXCEPT ![p].e[i] = c]
    BY <1>2 DEF EnvWith, HeapWith
  <2> HIDE DEF p, i, en, g
  <2>3. /\ WellFormed(g) /\ \A q \in Obj : g[q].live = h[q].live /\ g[q].rc = h[q].rc
        /\ \A o : ElementReferences(g, o) + One(h[p].e[i], o) = ElementReferences(h, o) + One(c, o)
    <3> DEFINE w == Overwritten(h, p, i, c)
    <3>1. /\ WellFormed(w) /\ \A q \in Obj : w[q].live = h[q].live /\ w[q].rc = h[q].rc
          /\ \A o : ElementReferences(w, o) + One(h[p].e[i], o) = ElementReferences(h, o) + One(c, o)
      BY <1>0, <2>1, ElementWritten
    <3>2. g = w
      BY <2>2 DEF Overwritten
    <3> HIDE DEF w
    <3> QED
      BY <3>1, <3>2
  <2>4. Grows(g, e, N)
    BY <2>3 DEF Grows
  <2>5. ASSUME NEW o
        PROVE  References(en, o) + ElementReferences(g, o) + One(Pointed(b), o)
                 = References(env, o) + ElementReferences(h, o) + One(c, o)
    <3> DEFINE x == ElementReferences(g, o)
               y == References(env, o)
               z == ElementReferences(h, o)
               m == One(Pointed(b), o)
               n == One(c, o)
    <3>1. x \in Nat /\ y \in Nat /\ z \in Nat /\ m \in Nat /\ n \in Nat /\ x + m = z + n
      BY <2>1, <2>3, Finite, ElementPlacesFinite, OneNat
    <3> HIDE DEF x, y, z, m, n
    <3>2. y + x + m = y + z + n
      BY <3>1
    <3> QED
      BY <2>2, <3>2 DEF x, y, z, m, n
  <2>6. en \in [Var -> ValueCell]
    BY <1>0, <2>2
  <2> QED
    BY <2>4, <2>5, <2>6 DEF en, g
<1> QED
  BY <1>1, <1>2

(* The cell c is written to the place b points at, after the exchange h.   *)
LEMMA PlaceKeeps ==
  ASSUME IInv, Few', UNCHANGED status, NEW b \in BorrowCell, ~Dangling(b), NEW c \in ValueCell,
         NEW h, NEW given, NEW made, Exchanges(h, given, made),
         b.o # NoObj => b.i \in DOMAIN h[b.o].e /\ h[b.o].e[b.i] = Pointed(b),
         env' = EnvWith(b, c), heap' = HeapWith(h, b, c),
         stack' \in Seq(OperandCell), drop' \in Seq(OperandCell),
         \A o \in Obj :
           References(stack', o) + References(drop', o) + References(given, o) + One(c, o)
             = References(stack, o) + References(drop, o) + References(made, o) + One(Pointed(b), o)
  PROVE  IInv'
<1>1. PICK e, N : /\ Grows(h, e, N)
                  /\ \A o \in Obj : References(made, o) + ElementReferences(h, o)
                                    = References(given, o) + ElementReferences(heap, o)
                                        + References(e, o) + Fresh(N, o)
  BY DEF Exchanges
<1>2. /\ given \in Seq(OperandCell) /\ made \in Seq(OperandCell) /\ Existing(e)
      /\ WellFormed(h) /\ env \in [Var -> ValueCell] /\ b.v \in Var
  <2>1. env \in [Var -> ValueCell] /\ b.v \in Var
    BY PlaceFacts DEF IInv
  <2> QED
    BY <1>1, <2>1 DEF Exchanges, Grows
<1>3. /\ env' \in [Var -> ValueCell] /\ Grows(heap', e, N)
      /\ \A o : References(env', o) + ElementReferences(heap', o) + One(Pointed(b), o)
                = References(env, o) + ElementReferences(h, o) + One(c, o)
  BY <1>1, PlaceWritten, ZenonT(60)
<1>4. ASSUME NEW o \in Obj
      PROVE  AllReferences(o)' = AllReferences(o) + References(e, o) + Fresh(N, o)
  <2> DEFINE a1 == References(env, o)
             a2 == References(stack, o)
             a3 == References(drop, o)
             a4 == ElementReferences(heap, o)
             b1 == References(env', o)
             b2 == References(stack', o)
             b3 == References(drop', o)
             b4 == ElementReferences(heap', o)
             x  == ElementReferences(h, o)
             g  == References(given, o)
             m  == References(made, o)
             r  == References(e, o)
             f  == Fresh(N, o)
             n1 == One(c, o)
             n2 == One(Pointed(b), o)
  <2>1. g \in Nat /\ m \in Nat /\ r \in Nat /\ f \in Nat /\ n1 \in Nat /\ n2 \in Nat /\ x \in Nat
    BY <1>2, SeqCounted, ExistingCounted, OneNat, ElementPlacesFinite DEF Fresh
  <2>2. a1 \in Nat /\ a2 \in Nat /\ a3 \in Nat /\ a4 \in Nat
    BY Finite
  <2>3. b1 \in Nat /\ b2 \in Nat /\ b3 \in Nat /\ b4 \in Nat
    <3>1. IsFiniteSet(DOMAIN env')
      BY <1>3, HeapAssumption
    <3> QED
      BY <3>1, SeqCounted, PlacesFinite, ElementPlacesFinite
  <2>4. m + x = g + a4 + r + f
    BY <1>1
  <2>5. b1 + b4 + n2 = a1 + x + n1
    BY <1>3
  <2>6. b2 + b3 + g + n1 = a2 + a3 + m + n2
    OBVIOUS
  <2> HIDE DEF a1, a2, a3, a4, b1, b2, b3, b4, x, g, m, r, f, n1, n2
  <2>7. b1 + b2 + b3 + b4 = a1 + a2 + a3 + a4 + r + f
    BY <2>1, <2>2, <2>3, <2>4, <2>5, <2>6
  <2> QED
    BY <2>7 DEF AllReferences, a1, a2, a3, a4, b1, b2, b3, b4, r, f
<1> QED
  BY <1>3, <1>4, StateKeeps

-----------------------------------------------------------------------------
(* Every action keeps the invariant.                                       *)

LEMMA ReferencesHead ==
  ASSUME NEW S, NEW s \in Seq(S), s # <<>>, NEW o
  PROVE  /\ Head(s) \in S /\ Tail(s) \in Seq(S)
         /\ References(s, o) = One(Head(s), o) + References(Tail(s), o)
<1>1. Head(s) \in S /\ Tail(s) \in Seq(S) /\ Len(Tail(s)) = Len(s) - 1
      /\ (\A i \in 1..Len(Tail(s)) : Tail(s)[i] = s[i + 1]) /\ Head(s) = s[1]
  BY HeadTailProperties
<1>2. Len(s) \in Nat /\ Len(s) >= 1 /\ <<Head(s)>> \in Seq(S)
  BY <1>1, EmptySeq, LenProperties
<1> DEFINE u == <<Head(s)>> \o Tail(s)
<1>3. /\ u \in Seq(S) /\ Len(u) = Len(s)
      /\ \A i \in 1..Len(s) : u[i] = s[i]
  <2>1. /\ u \in Seq(S) /\ Len(u) = 1 + Len(Tail(s))
        /\ \A i \in 1..(1 + Len(Tail(s))) : u[i] = IF i <= 1 THEN <<Head(s)>>[i] ELSE Tail(s)[i - 1]
    BY <1>1, <1>2, ConcatProperties
  <2> HIDE DEF u
  <2>2. ASSUME NEW i \in 1..Len(s) PROVE u[i] = s[i]
    <3>1. CASE i = 1
      BY <1>1, <1>2, <2>1, <3>1
    <3>2. CASE i # 1
      <4>1. i - 1 \in 1..Len(Tail(s)) /\ (i - 1) + 1 = i /\ ~(i <= 1)
        BY <1>1, <1>2, <3>2
      <4> QED
        BY <1>1, <1>2, <2>1, <4>1
    <3> QED
      BY <3>1, <3>2
  <2> QED
    BY <1>1, <1>2, <2>1, <2>2
<1>4. u = s
  <2> HIDE DEF u
  <2> QED
    BY <1>3, SeqEqual
<1>5. References(u, o) = References(<<Head(s)>>, o) + References(Tail(s), o)
  BY <1>1, <1>2, ReferencesConcat
<1> QED
  BY <1>1, <1>4, <1>5, ReferencesShort

LEMMA NothingDropped == drop = <<>> => \A o : References(drop, o) = 0
BY ReferencesShort

LEMMA LessIs ==
  ASSUME IInv, NEW o \in Obj, heap[o].live
  PROVE  heap[o].rc \in 1..(RcMod - 1) /\ Less(o) = heap[o].rc - 1
<1>1. heap[o].rc \in 0..(RcMod - 1) /\ heap[o].rc > 0 /\ RcMod \in Nat \ {0}
  BY HeapAssumption DEF IInv, HeapOK
<1> DEFINE x == heap[o].rc - 1
<1>2. x \in 0..(RcMod - 1) /\ x + 0 < RcMod /\ x + 0 = x
  BY <1>1
<1> HIDE DEF x
<1>3. x % RcMod = x
  <2>1. (x + 0) % RcMod = x + 0
    BY <1>1, <1>2, Unwrapped
  <2> QED
    BY <1>2, <2>1
<1> QED
  BY <1>1, <1>3 DEF x, Less

LEMMA ReleaseKeeps ==
  ASSUME IInv, Few', Release
  PROVE  IInv'
<1> DEFINE c == Head(drop)
<1>1. /\ drop # <<>> /\ drop \in Seq(OperandCell) /\ UNCHANGED <<env, stack, status>>
      /\ env \in [Var -> ValueCell] /\ stack \in Seq(OperandCell)
  BY DEF Release, IInv
<1>2. /\ c \in OperandCell /\ Tail(drop) \in Seq(OperandCell)
      /\ \A o : References(drop, o) = One(c, o) + References(Tail(drop), o)
  BY <1>1, ReferencesHead
<1>3. Alive(c)
  <2>1. c = drop[1] /\ 1 \in DOMAIN drop
    <3>1. Len(drop) >= 1 /\ c = drop[1]
      BY <1>1, HeadTailProperties, EmptySeq, LenProperties
    <3> QED
      BY <1>1, <3>1, SeqFinite
  <2> QED
    BY <2>1, AllAlive
<1>4. \A o : /\ One(c, o) \in Nat /\ References(Tail(drop), o) \in Nat /\ References(env, o) \in Nat
            /\ References(stack, o) \in Nat /\ ElementReferences(heap, o) \in Nat
  BY <1>2, OneNat, SeqCounted, Finite
<1>5. CASE ~Counts(c)
  <2>1. heap' = heap /\ drop' = Tail(drop)
    BY <1>5 DEF Release
  <2>2. \A o : One(c, o) = 0
    BY <1>5 DEF One, RefersTo
  <2>3. \A o \in Obj : AllReferences(o)' = AllReferences(o)
    BY <1>1, <1>2, <1>4, <2>1, <2>2 DEF AllReferences
  <2> QED
    BY <1>1, <1>2, <2>1, <2>3 DEF IInv
<1>6. CASE Counts(c)
  <2> DEFINE p == c.o
  <2>1. p \in Obj /\ heap[p].live
    BY <1>3, <1>6 DEF Alive, RefersTo
  <2>2. \A o : One(c, o) = IF o = p THEN 1 ELSE 0
    BY <1>6 DEF One, RefersTo
  <2>3. heap[p].rc \in 1..(RcMod - 1) /\ Less(p) = heap[p].rc - 1
    BY <2>1, LessIs
  <2>4. HeapOK(heap) /\ (\A o \in Obj : heap[o].live <=> heap[o].rc > 0)
        /\ \A o \in Obj : heap[o].rc = AllReferences(o)
    BY DEF IInv
  <2>5. ASSUME HeapOK(heap'), drop' \in Seq(OperandCell),
               heap'[p].rc = heap[p].rc - 1, heap'[p].live <=> heap'[p].rc > 0,
               \A q \in Obj \ {p} : heap'[q].rc = heap[q].rc /\ heap'[q].live = heap[q].live,
               \A o : References(drop', o) + ElementReferences(heap', o)
                      = References(Tail(drop), o) + ElementReferences(heap, o)
        PROVE  IInv'
    <3>1. ASSUME NEW o \in Obj
          PROVE  heap'[o].rc = AllReferences(o)' /\ (heap'[o].live <=> heap'[o].rc > 0)
      <4>1. AllReferences(o)' + One(c, o) = AllReferences(o)
        <5> DEFINE a1 == References(env, o)
                   a2 == References(stack, o)
                   a3 == References(Tail(drop), o)
                   a4 == ElementReferences(heap, o)
                   b3 == References(drop', o)
                   b4 == ElementReferences(heap', o)
                   n  == One(c, o)
        <5>1. /\ a1 \in Nat /\ a2 \in Nat /\ a3 \in Nat /\ a4 \in Nat /\ b3 \in Nat /\ b4 \in Nat
              /\ n \in Nat /\ b3 + b4 = a3 + a4
          BY <1>4, <2>5, SeqCounted, ElementPlacesFinite
        <5> HIDE DEF a1, a2, a3, a4, b3, b4, n
        <5>2. (a1 + a2 + b3 + b4) + n = a1 + a2 + (n + a3) + a4
          BY <5>1
        <5>3. AllReferences(o)' = a1 + a2 + b3 + b4
          BY <1>1 DEF AllReferences, a1, a2, b3, b4
        <5>4. AllReferences(o) = a1 + a2 + (n + a3) + a4
          BY <1>2 DEF AllReferences, a1, a2, a3, a4, n
        <5> QED
          BY <5>2, <5>3, <5>4 DEF n
      <4>2. heap[o].rc = AllReferences(o) /\ heap[o].rc \in Int /\ AllReferences(o)' \in Nat
        <5>1. heap[o].rc \in Int
          BY <2>4 DEF HeapOK
        <5>2. IsFiniteSet(DOMAIN env')
          BY <1>1, Finite
        <5>3. /\ References(env', o) \in Nat /\ References(stack', o) \in Nat
              /\ References(drop', o) \in Nat /\ ElementReferences(heap', o) \in Nat
          BY <1>1, <2>5, <5>2, PlacesFinite, SeqCounted, ElementPlacesFinite
        <5> QED
          BY <2>4, <5>1, <5>3 DEF AllReferences
      <4>3. CASE o = p
        BY <2>2, <2>5, <4>1, <4>2, <4>3
      <4>4. CASE o # p
        BY <2>2, <2>4, <2>5, <4>1, <4>2, <4>4
      <4> QED
        BY <4>3, <4>4
    <3> QED
      BY <1>1, <2>5, <3>1 DEF IInv
  <2>6. CASE Less(p) = 0
    <3>1. heap' = [heap EXCEPT ![p] = Dead] /\ drop' = heap[p].e \o Tail(drop) /\ heap[p].rc = 1
      BY <1>6, <2>3, <2>6 DEF Release
    <3>2. heap'[p] = Dead /\ \A q \in Obj \ {p} : heap'[q] = heap[q]
      BY <2>1, <2>4, <3>1 DEF HeapOK
    <3>3. Dead.live = FALSE /\ Dead.rc = 0 /\ Dead.e = <<>> /\ Keyed(Dead)
          /\ Dead \in [live : BOOLEAN, rc : 0..(RcMod - 1), tab : BOOLEAN, keys : Seq(Int), e : Seq(ValueCell)]
      BY HeapAssumption DEF Dead, Object, Keyed
    <3>4. Shaped(heap) /\ heap[p].e \in Seq(ValueCell) /\ heap[p].e \in Seq(OperandCell)
      BY <2>1, <2>4, ValueCells, SeqMonotonic DEF HeapOK, Shaped
    <3>5. Shaped(heap')
      <4>1. <<>> \in Seq(ValueCell) /\ Len(<<>>) = 0 /\ 0 <= MaxLen
        BY HeapAssumption
      <4> QED
        BY <3>2, <3>3, <3>4, <4>1 DEF Shaped
    <3>6. HeapOK(heap')
      <4>1. heap' \in [Obj -> [live : BOOLEAN, rc : 0..(RcMod - 1), tab : BOOLEAN, keys : Seq(Int), e : Seq(ValueCell)]]
        BY <2>4, <3>1, <3>3 DEF HeapOK
      <4>2. \A q \in Obj : (~heap'[q].live => heap'[q].e = <<>>) /\ Keyed(heap'[q])
        <5> TAKE q \in Obj
        <5>1. CASE q = p
          BY <3>2, <3>3, <5>1
        <5>2. CASE q # p
          BY <2>4, <3>2, <5>2 DEF HeapOK
        <5> QED
          BY <5>1, <5>2
      <4> QED
        BY <3>5, <4>1, <4>2 DEF HeapOK
    <3>7. drop' \in Seq(OperandCell)
      BY <1>2, <3>1, <3>4, ConcatProperties
    <3>8. ASSUME NEW o
          PROVE  References(drop', o) + ElementReferences(heap', o)
                   = References(Tail(drop), o) + ElementReferences(heap, o)
      <4> DEFINE a == References(heap[p].e, o)
                 b == References(Tail(drop), o)
                 d == References(drop', o)
                 x == ElementReferences(heap, o)
                 y == ElementReferences(heap', o)
      <4>1. d = a + b
        BY <1>2, <3>1, <3>4, ReferencesConcat
      <4>2. x + References(heap'[p].e, o) = y + a
        <5>1. \A q \in Obj \ {p} : heap[q].e = heap'[q].e
          BY <3>2
        <5> HIDE DEF p
        <5> QED
          BY <2>1, <3>4, <3>5, <5>1, ElementsChange
      <4>3. References(heap'[p].e, o) = 0
        BY <3>2, <3>3, ReferencesShort
      <4>4. a \in Nat /\ b \in Nat /\ x \in Nat /\ y \in Nat
        BY <1>2, <3>4, SeqCounted, ElementPlacesFinite
      <4> HIDE DEF a, b, d, x, y
      <4>5. d + y = b + x
        BY <4>1, <4>2, <4>3, <4>4
      <4> QED
        BY <4>5 DEF b, d, x, y
    <3>9. /\ heap'[p].rc = heap[p].rc - 1 /\ (heap'[p].live <=> heap'[p].rc > 0)
          /\ \A q \in Obj \ {p} : heap'[q].rc = heap[q].rc /\ heap'[q].live = heap[q].live
      BY <3>1, <3>2, <3>3
    <3> HIDE DEF p
    <3> QED
      BY <2>5, <3>6, <3>7, <3>8, <3>9
  <2>7. CASE Less(p) # 0
    <3>1. heap' = [heap EXCEPT ![p].rc = heap[p].rc - 1] /\ drop' = Tail(drop) /\ heap[p].rc - 1 > 0
      BY <1>6, <2>3, <2>7 DEF Release
    <3>2. heap[p] \in [live : BOOLEAN, rc : 0..(RcMod - 1), tab : BOOLEAN, keys : Seq(Int), e : Seq(ValueCell)]
          /\ DOMAIN heap = Obj /\ heap[p].rc - 1 \in 0..(RcMod - 1)
      <4>1. heap[p] \in [live : BOOLEAN, rc : 0..(RcMod - 1), tab : BOOLEAN, keys : Seq(Int), e : Seq(ValueCell)] /\ DOMAIN heap = Obj
        BY <2>1, <2>4 DEF HeapOK
      <4>2. \A x \in 1..(RcMod - 1) : x - 1 \in 0..(RcMod - 1)
        BY HeapAssumption
      <4> QED
        BY <2>3, <4>1, <4>2
    <3>3. /\ heap' \in [Obj -> [live : BOOLEAN, rc : 0..(RcMod - 1), tab : BOOLEAN, keys : Seq(Int), e : Seq(ValueCell)]]
          /\ heap'[p].rc = heap[p].rc - 1 /\ heap'[p].live = heap[p].live
          /\ \A q \in Obj \ {p} : heap'[q] = heap[q]
          /\ \A q \in Obj : /\ heap'[q].e = heap[q].e /\ heap'[q].live = heap[q].live
                             /\ heap'[q].tab = heap[q].tab /\ heap'[q].keys = heap[q].keys
      BY <2>1, <2>4, <3>1, <3>2 DEF HeapOK
    <3>4. HeapOK(heap')
      <4>1. \A q \in Obj : Keyed(heap'[q])
        BY <2>4, <3>3 DEF HeapOK, Keyed
      <4> QED
        BY <2>4, <3>3, <4>1 DEF HeapOK, Shaped
    <3>5. \A o : ElementReferences(heap', o) = ElementReferences(heap, o)
      BY <3>3, ElementsSame
    <3>6. \A o : References(drop', o) + ElementReferences(heap', o)
                = References(Tail(drop), o) + ElementReferences(heap, o)
      BY <3>1, <3>5
    <3> QED
      BY <1>2, <2>1, <2>5, <3>1, <3>3, <3>4, <3>6
  <2> QED
    BY <2>6, <2>7
<1> QED
  BY <1>5, <1>6

(* What every instruction but those that stop has in common.               *)
LEMMA Instruction ==
  ASSUME IInv, NEW n \in Nat, Has(n)
  PROVE  /\ \A o : /\ References(drop, o) = 0 /\ References(<<>>, o) = 0
                  /\ References(env, o) \in Nat /\ References(stack, o) \in Nat
         /\ <<>> \in Seq(OperandCell) /\ Len(stack) >= n /\ n \in 0..Len(stack) /\ n \in Int
         /\ env \in [Var -> ValueCell] /\ stack \in Seq(OperandCell)
<1>1. drop = <<>> /\ Len(stack) >= n
  BY DEF Has
<1>2. Len(stack) \in Nat
  BY Operands
<1>3. \A o : References(<<>>, o) = 0
  BY ReferencesShort
<1> QED
  BY <1>1, <1>2, <1>3, Finite DEF IInv

LEMMA PushKeeps ==
  ASSUME IInv, Few', NEW c \in Literal, Push(c)
  PROVE  IInv'
<1>1. Has(0) /\ env' = env /\ stack' = Append(stack, c) /\ heap' = heap /\ drop' = <<>> /\ UNCHANGED status
  BY DEF Push, Do
<1>2. c \in OperandCell /\ \A o : One(c, o) = 0
  BY ValueCells DEF One, RefersTo
<1>3. stack' \in Seq(OperandCell)
  BY <1>1, <1>2, Instruction, AppendProperties
<1>4. ASSUME NEW o PROVE References(stack', o) = References(stack, o)
  <2>1. References(stack', o) = References(stack, o) + One(c, o)
    BY <1>1, <1>2, Instruction, ReferencesAppend
  <2> QED
    BY <1>1, <1>2, <2>1, Instruction
<1>5. \A o \in Obj :
        References(env', o) + References(stack', o) + References(drop', o) + References(<<>>, o)
          = References(env, o) + References(stack, o) + References(drop, o) + References(<<>>, o)
  BY <1>1, <1>4, Instruction
<1>6. Exchanges(heap', <<>>, <<>>)
  BY <1>1, EmptyExchange
<1>7. env' \in [Var -> ValueCell] /\ drop' \in Seq(OperandCell)
  BY <1>1, Instruction
<1> QED
  BY <1>1, <1>3, <1>5, <1>6, <1>7, ExchangeKeeps

LEMMA PushVarKeeps ==
  ASSUME IInv, Few', NEW v \in Var, PushVar(v)
  PROVE  IInv'
<1> DEFINE c == env[v]
<1>1. /\ Has(0) /\ env' = env /\ stack' = Append(stack, c) /\ heap' = Copying(<<c>>, heap)
      /\ drop' = <<>> /\ UNCHANGED status
  BY DEF PushVar, Do
<1>2. c \in ValueCell /\ c \in OperandCell /\ Alive(c)
  BY AllAlive, ValueCells
<1> HIDE DEF c
<1>3. stack' \in Seq(OperandCell)
  BY <1>1, <1>2, Instruction, AppendProperties
<1>4. ASSUME NEW o
      PROVE  References(env', o) + References(stack', o) + References(drop', o) + References(<<>>, o)
               = References(env, o) + References(stack, o) + References(drop, o) + References(<<c>>, o)
  <2>1. References(stack', o) = References(stack, o) + One(c, o)
    BY <1>1, <1>2, Instruction, ReferencesAppend
  <2>2. References(<<c>>, o) = One(c, o) /\ One(c, o) \in Nat
    BY ReferencesShort, OneNat
  <2> QED
    BY <1>1, <2>1, <2>2, Instruction
<1>5. Exchanges(heap', <<>>, <<c>>)
  BY <1>1, <1>2, CopyExchange
<1>6. env' \in [Var -> ValueCell] /\ drop' \in Seq(OperandCell)
  BY <1>1, Instruction
<1> QED
  BY <1>1, <1>3, <1>4, <1>5, <1>6, ExchangeKeeps

LEMMA PopKeeps ==
  ASSUME IInv, Few', Pop
  PROVE  IInv'
<1> DEFINE c == Operand(0)
<1>1. /\ Has(1) /\ env' = env /\ stack' = Below(1) /\ heap' = heap
      /\ drop' = <<c>> /\ UNCHANGED status
  BY DEF Pop, Do
<1>2. /\ c \in OperandCell /\ stack' \in Seq(OperandCell)
      /\ \A o : References(stack, o) = References(stack', o) + One(c, o) /\ References(stack', o) \in Nat
  BY <1>1, Operands1 DEF Has
<1> HIDE DEF c
<1>3. ASSUME NEW o
      PROVE  References(env', o) + References(stack', o) + References(drop', o) + References(<<>>, o)
               = References(env, o) + References(stack, o) + References(drop, o) + References(<<>>, o)
  <2>1. References(drop', o) = One(c, o) /\ One(c, o) \in Nat
    BY <1>1, ReferencesShort, OneNat
  <2> QED
    BY <1>1, <1>2, <2>1, Instruction
<1>4. Exchanges(heap', <<>>, <<>>)
  BY <1>1, EmptyExchange
<1>5. env' \in [Var -> ValueCell] /\ drop' \in Seq(OperandCell)
  BY <1>1, <1>2, Instruction
<1> QED
  BY <1>1, <1>2, <1>3, <1>4, <1>5, ExchangeKeeps

LEMMA WriteVarKeeps ==
  ASSUME IInv, Few', NEW v \in Var, WriteVar(v)
  PROVE  IInv'
<1> DEFINE c == Operand(0)
           old == env[v]
<1>1. /\ Has(1) /\ IsCell(c) /\ env' = [env EXCEPT ![v] = c] /\ stack' = Below(1) /\ heap' = heap
      /\ drop' = <<old>> /\ UNCHANGED status
  BY DEF WriteVar, Do
<1>2. /\ c \in OperandCell /\ stack' \in Seq(OperandCell)
      /\ \A o : References(stack, o) = References(stack', o) + One(c, o) /\ References(stack', o) \in Nat
  BY <1>1, Operands1 DEF Has
<1>3. c \in ValueCell /\ old \in OperandCell
  BY <1>1, <1>2, OperandCells, AllAlive, ValueCells
<1>4. env' \in [Var -> ValueCell] /\ drop' \in Seq(OperandCell)
  BY <1>1, <1>3, Instruction
<1>5. ASSUME NEW o PROVE References(env', o) + One(old, o) = References(env, o) + One(c, o)
                         /\ References(env', o) \in Nat
  <2>1. IsFiniteSet(DOMAIN env) /\ v \in DOMAIN env
    BY Finite
  <2>2. References([env EXCEPT ![v] = c], o) + One(env[v], o) = References(env, o) + One(c, o)
    BY <2>1, ReferencesExcept
  <2>3. IsFiniteSet(DOMAIN env')
    BY <1>4, HeapAssumption
  <2> QED
    BY <1>1, <2>2, <2>3, PlacesFinite
<1> HIDE DEF c, old
<1>6. ASSUME NEW o
      PROVE  References(env', o) + References(stack', o) + References(drop', o) + References(<<>>, o)
               = References(env, o) + References(stack, o) + References(drop, o) + References(<<>>, o)
  <2>1. References(drop', o) = One(old, o) /\ One(old, o) \in Nat /\ One(c, o) \in Nat
    BY <1>1, ReferencesShort, OneNat
  <2>2. References(drop, o) = 0 /\ References(<<>>, o) = 0 /\ References(env, o) \in Nat
    BY <1>1, Instruction
  <2> DEFINE e2 == References(env', o)
             e1 == References(env, o)
             s2 == References(stack', o)
             s1 == References(stack, o)
             n  == One(old, o)
             m  == One(c, o)
  <2>3. e1 \in Nat /\ e2 \in Nat /\ s2 \in Nat /\ n \in Nat /\ m \in Nat /\ s1 = s2 + m /\ e2 + n = e1 + m
    BY <1>2, <1>5, <2>1, <2>2
  <2> HIDE DEF e1, e2, s1, s2, n, m
  <2>4. e2 + s2 + n + 0 = e1 + s1 + 0 + 0
    BY <2>3
  <2> QED
    BY <2>1, <2>2, <2>4 DEF e1, e2, s1, s2, n
<1>7. Exchanges(heap', <<>>, <<>>)
  BY <1>1, EmptyExchange
<1> QED
  BY <1>1, <1>2, <1>4, <1>6, <1>7, ExchangeKeeps

LEMMA BorrowCells ==
  ASSUME NEW v \in Var, NEW p \in Seq(Int), NEW o \in Obj \union {NoObj}, NEW i \in Nat,
         NEW len \in Nat, NEW rcs \in Seq(Nat), Len(rcs) = Len(p) + 1, o \in Obj => i \in 1..len
  PROVE  LET b == BorrowOf(v, p, o, i, len, rcs) IN
         /\ b \in BorrowCell /\ b \in OperandCell /\ b.v = v /\ b.o = o
         /\ \A q : One(b, q) = 0
<1> DEFINE b == BorrowOf(v, p, o, i, len, rcs)
<1>1. /\ b \in [k : {"borrow"}, v : Var, p : Seq(Int), o : Obj \union {NoObj}, i : Nat, len : Nat,
                rcs : Seq(Nat)]
      /\ b.k = "borrow" /\ b.v = v /\ b.o = o /\ b.i = i /\ b.len = len /\ b.rcs = rcs /\ b.p = p
  BY DEF BorrowOf
<1>2. b \in BorrowCell
  BY <1>1 DEF BorrowCell
<1>3. \A q : One(b, q) = 0
  BY <1>1 DEF One, RefersTo, Counts
<1> QED
  BY <1>1, <1>2, <1>3 DEF OperandCell

LEMMA BorrowKeeps ==
  ASSUME IInv, Few', NEW v \in Var, Borrow(v)
  PROVE  IInv'
<1> DEFINE c == env[v]
<1>1. PICK r \in Cloned(c) :
        Do([env EXCEPT ![v] = r.c],
           Append(stack, BorrowOf(v, <<>>, NoObj, 0, 0,
                                  <<IF r.c.k = "ref" THEN r.h[r.c.o].rc ELSE 1>>)),
           r.h, r.d)
  BY DEF Borrow
<1>2. c \in ValueCell /\ Alive(c) /\ <<c>> \in Seq(OperandCell)
  BY AllAlive, ValueCells
<1> HIDE DEF c
<1>3. /\ r.c \in ValueCell /\ r.d \in Seq(OperandCell)
      /\ Exchanges(r.h, <<c>>, <<r.c>> \o r.d)
      /\ c.k = "ref" <=> r.c.k = "ref"
      /\ c.k = "ref" => r.h[r.c.o].rc \in Nat
  BY <1>2, ClonedExchange
<1> DEFINE n == IF r.c.k = "ref" THEN r.h[r.c.o].rc ELSE 1
           b == BorrowOf(v, <<>>, NoObj, 0, 0, <<n>>)
<1>4. /\ env' = [env EXCEPT ![v] = r.c] /\ stack' = Append(stack, b) /\ heap' = r.h
      /\ drop' = r.d /\ UNCHANGED status
  BY <1>1 DEF Do
<1>5. n \in Nat
  BY <1>3
<1> HIDE DEF n
<1>6. /\ b \in BorrowCell /\ b \in OperandCell /\ b.v = v /\ b.o = NoObj
      /\ \A q : One(b, q) = 0
  <2>1. <<>> \in Seq(Nat) /\ <<n>> \in Seq(Nat) /\ Len(<<n>>) = Len(<<>>) + 1 /\ NoObj \notin Obj
    BY <1>5, HeapAssumption
  <2> DEFINE p == <<>>
             rcs == <<n>>
  <2>2. p \in Seq(Int) /\ rcs \in Seq(Nat) /\ Len(rcs) = Len(p) + 1 /\ NoObj \in Obj \union {NoObj}
        /\ 0 \in Nat /\ (NoObj \in Obj => 0 \in 1..0) /\ b = BorrowOf(v, p, NoObj, 0, 0, rcs)
    BY <2>1
  <2> HIDE DEF b, p, rcs
  <2> QED
    BY <2>2, BorrowCells
<1> HIDE DEF b
<1>7. ~Dangling(b) /\ Pointed(b) = c /\ env' = EnvWith(b, r.c) /\ heap' = HeapWith(r.h, b, r.c)
  BY <1>4, <1>6 DEF Dangling, Pointed, EnvWith, HeapWith, c
<1>8. Has(0)
  BY DEF Borrow
<1>9. stack' \in Seq(OperandCell) /\ drop' \in Seq(OperandCell)
  BY <1>3, <1>4, <1>6, <1>8, Instruction, AppendProperties
<1>10. ASSUME NEW o \in Obj
       PROVE  References(stack', o) + References(drop', o) + References(<<c>>, o) + One(r.c, o)
                = References(stack, o) + References(drop, o) + References(<<r.c>> \o r.d, o) + One(Pointed(b), o)
  <2>1. References(stack', o) = References(stack, o) + One(b, o) /\ One(b, o) = 0
    BY <1>4, <1>6, <1>8, Instruction, ReferencesAppend
  <2>2. References(<<r.c>> \o r.d, o) = One(r.c, o) + References(r.d, o)
    <3>1. r.c \in OperandCell
      BY <1>3, ValueCells
    <3> QED
      BY <1>3, <3>1, ReferencesCons
  <2>3. References(<<c>>, o) = One(c, o)
    BY ReferencesShort
  <2> DEFINE s == References(stack, o)
             d == References(r.d, o)
             x == One(c, o)
             y == One(r.c, o)
  <2>4. s \in Nat /\ d \in Nat /\ x \in Nat /\ y \in Nat /\ References(drop, o) = 0
    BY <1>3, <1>8, Instruction, SeqCounted, OneNat
  <2> HIDE DEF s, d, x, y
  <2>5. (s + 0) + d + x + y = s + 0 + (y + d) + x
    BY <2>4
  <2> QED
    BY <1>4, <1>7, <2>1, <2>2, <2>3, <2>4, <2>5 DEF s, d, x, y
<1> QED
  BY <1>3, <1>4, <1>6, <1>7, <1>9, <1>10, PlaceKeeps

LEMMA IndexIs ==
  ASSUME NEW c, NEW i, Index(c, i) # 0
  PROVE  c.k = "ref" /\ i.k = "num" /\ Index(c, i) \in DOMAIN Elems(c) /\ Elems(c) = heap[c.o].e
BY DEF Index, Elems

LEMMA StepIsInt ==
  ASSUME IInv, NEW c \in ValueCell, c.k = "ref", NEW n \in Int
  PROVE  StepOf(c, n) \in Int
<1>1. Elems(c) \in Seq(ValueCell)
  BY AllAlive, ValueCells DEF Elems, Existing
<1>2. Len(Elems(c)) \in Nat
  BY <1>1, LenProperties
<1> QED
  BY <1>2 DEF StepOf, Position

LEMMA BorrowElementKeeps ==
  ASSUME IInv, Few', BorrowElement
  PROVE  IInv'
<1> DEFINE b == Operand(1)
           i == Operand(0)
           c == Pointed(b)
           at == Index(c, i)
           step == StepOf(c, i.n)
<1>1. Has(2) /\ b.k = "borrow" /\ IsCell(i)
  BY DEF BorrowElement
<1>2. b \in BorrowCell /\ i \in OperandCell /\ i \in ValueCell /\ Below(2) \in Seq(OperandCell)
      /\ \A o : References(stack, o) = References(Below(2), o) + One(b, o) + One(i, o)
              /\ References(Below(2), o) \in Nat
  <2>1. b \in OperandCell /\ i \in OperandCell /\ Below(2) \in Seq(OperandCell)
        /\ \A o : References(stack, o) = References(Below(2), o) + One(b, o) + One(i, o)
                /\ References(Below(2), o) \in Nat
    BY <1>1, Operands2 DEF Has
  <2> QED
    BY <1>1, <2>1, OperandCells
<1>3. CASE Dangling(b) \/ at = 0
  <2>1. Stop("dangling") \/ Stop("raised")
    BY <1>3 DEF BorrowElement
  <2> QED
    BY <2>1, StopKeeps DEF Stop
<1>4. CASE ~Dangling(b) /\ at # 0
  <2>1. PICK r \in Cloned(c) :
          Do(EnvWith(b, r.c),
             Append(Below(2),
               BorrowOf(b.v, Append(b.p, step), r.c.o, at, Len(r.h[r.c.o].e),
                        [b.rcs EXCEPT ![Len(b.rcs)] = r.h[r.c.o].rc] \o <<1>>)),
             HeapWith(r.h, b, r.c), r.d)
    BY <1>4 DEF BorrowElement
  <2>2. /\ c \in ValueCell /\ Alive(c) /\ b.v \in Var
        /\ b.o # NoObj => b.o \in Obj /\ heap[b.o].live /\ b.i \in DOMAIN heap[b.o].e
                          /\ c = heap[b.o].e[b.i]
    BY <1>2, <1>4, PlaceFacts
  <2>3. c.k = "ref" /\ i.k = "num" /\ at \in DOMAIN Elems(c) /\ Elems(c) = heap[c.o].e
    BY <1>4, IndexIs
  <2>11. step \in Int
    <3>1. i.n \in Int
      BY <1>2, <2>3, ValueCells
    <3> QED
      BY <2>2, <2>3, <3>1, StepIsInt
  <2> HIDE DEF b, c, i, at, step
  <2>4. /\ r.c \in ValueCell /\ r.d \in Seq(OperandCell)
        /\ Exchanges(r.h, <<c>>, <<r.c>> \o r.d)
        /\ r.c.k = "ref" /\ r.c.o \in Obj
        /\ r.h[r.c.o].e = heap[c.o].e /\ r.h[r.c.o].rc \in Nat
        /\ \A p \in Obj : heap[p].live => r.h[p].e = heap[p].e
    BY <2>2, <2>3, ClonedExchange, ValueCells
  <2> DEFINE p   == Append(b.p, step)
             len == Len(r.h[r.c.o].e)
             rcs == [b.rcs EXCEPT ![Len(b.rcs)] = r.h[r.c.o].rc] \o <<1>>
             new == BorrowOf(b.v, p, r.c.o, at, len, rcs)
  <2>5. new \in OperandCell /\ \A o : One(new, o) = 0
    <3>1. b.p \in Seq(Int) /\ b.rcs \in Seq(Nat) /\ Len(b.rcs) = Len(b.p) + 1
      BY <1>2 DEF BorrowCell
    <3>2. len \in Nat /\ at \in 1..len
      <4>1. Elems(c) \in Seq(ValueCell)
        BY <2>2, <2>3, AllAlive, ValueCells DEF Existing
      <4> QED
        BY <2>3, <2>4, <4>1, SeqFinite
    <3>3. p \in Seq(Int) /\ Len(p) = Len(b.p) + 1 /\ Len(b.p) \in Nat
      BY <2>11, <3>1, AppendProperties, LenProperties
    <3>4. rcs \in Seq(Nat) /\ Len(rcs) = Len(b.rcs) + 1
      <4> DEFINE s == [b.rcs EXCEPT ![Len(b.rcs)] = r.h[r.c.o].rc]
      <4>1. Len(b.rcs) \in 1..Len(b.rcs)
        BY <3>1, <3>3
      <4>2. s \in Seq(Nat) /\ Len(s) = Len(b.rcs)
        BY <2>4, <3>1, <4>1, ExceptSeq
      <4>3. <<1>> \in Seq(Nat) /\ Len(<<1>>) = 1
        OBVIOUS
      <4> HIDE DEF s
      <4>4. s \o <<1>> \in Seq(Nat) /\ Len(s \o <<1>>) = Len(s) + Len(<<1>>)
        BY <4>2, <4>3, ConcatProperties
      <4> QED
        BY <4>2, <4>3, <4>4 DEF s
    <3>5. Len(rcs) = Len(p) + 1 /\ at \in Nat
      BY <3>1, <3>2, <3>3, <3>4
    <3> DEFINE o == r.c.o
    <3>6. o \in Obj \union {NoObj} /\ new = BorrowOf(b.v, p, o, at, len, rcs) /\ (o \in Obj => at \in 1..len)
      BY <2>4, <3>2
    <3> DEFINE v == b.v
    <3>7. /\ v \in Var /\ p \in Seq(Int) /\ o \in Obj \union {NoObj} /\ at \in Nat /\ len \in Nat
          /\ rcs \in Seq(Nat) /\ Len(rcs) = Len(p) + 1 /\ (o \in Obj => at \in 1..len)
      BY <2>2, <3>2, <3>3, <3>4, <3>5, <3>6
    <3> HIDE DEF p, len, rcs, o, v
    <3>8. new = BorrowOf(v, p, o, at, len, rcs)
      BY <3>6 DEF v
    <3> HIDE DEF new
    <3> QED
      BY <3>7, <3>8, BorrowCells
  <2>6. /\ env' = EnvWith(b, r.c) /\ stack' = Append(Below(2), new) /\ heap' = HeapWith(r.h, b, r.c)
        /\ drop' = r.d /\ UNCHANGED status
    BY <2>1 DEF Do, b, at, c, i, step
  <2> HIDE DEF new
  <2>7. stack' \in Seq(OperandCell) /\ drop' \in Seq(OperandCell)
    BY <1>2, <2>4, <2>5, <2>6, AppendProperties
  <2>8. b.o # NoObj => b.i \in DOMAIN r.h[b.o].e /\ r.h[b.o].e[b.i] = c
    BY <2>2, <2>4
  <2>9. ASSUME NEW o \in Obj
        PROVE  References(stack', o) + References(drop', o) + References(<<c>>, o) + One(r.c, o)
                 = References(stack, o) + References(drop, o) + References(<<r.c>> \o r.d, o) + One(c, o)
    <3>1. References(stack', o) = References(Below(2), o) + One(new, o) /\ One(new, o) = 0
      BY <1>2, <2>5, <2>6, ReferencesAppend
    <3>2. References(<<r.c>> \o r.d, o) = One(r.c, o) + References(r.d, o)
      <4>1. r.c \in OperandCell
        BY <2>4, ValueCells
      <4> QED
        BY <2>4, <4>1, ReferencesCons
    <3>3. References(<<c>>, o) = One(c, o)
      BY ReferencesShort
    <3>4. One(b, o) = 0 /\ One(i, o) = 0
      BY <1>1, <2>3 DEF One, RefersTo, Counts, b, i
    <3> DEFINE s == References(Below(2), o)
               d == References(r.d, o)
               x == One(c, o)
               y == One(r.c, o)
    <3>5. s \in Nat /\ d \in Nat /\ x \in Nat /\ y \in Nat /\ References(drop, o) = 0
      BY <1>1, <1>2, <2>4, Instruction, SeqCounted, OneNat
    <3>6. References(stack, o) = s + 0 + 0
      BY <1>2, <3>4
    <3> HIDE DEF s, d, x, y
    <3>7. (s + 0) + d + x + y = (s + 0 + 0) + 0 + (y + d) + x
      BY <3>5
    <3> QED
      BY <2>6, <3>1, <3>2, <3>3, <3>5, <3>6, <3>7 DEF s, d, x, y
  <2>10. ~Dangling(b) /\ Pointed(b) = c
    BY <1>4 DEF b, c
  <2> QED
    BY <1>2, <2>4, <2>6, <2>7, <2>8, <2>9, <2>10, PlaceKeeps
<1> QED
  BY <1>3, <1>4

(* A key is entered: the table's values stay, and null joins them.         *)
LEMMA EnteredIs ==
  ASSUME NEW x \in [live : BOOLEAN, rc : Int, tab : BOOLEAN, keys : Seq(Int), e : Seq(ValueCell)],
         x.tab, Keyed(x), NEW n \in Int
  PROVE  LET t == Entered(x, n) IN
         /\ t \in [live : BOOLEAN, rc : Int, tab : BOOLEAN, keys : Seq(Int), e : Seq(ValueCell)]
         /\ t.live = x.live /\ t.rc = x.rc /\ Keyed(t)
         /\ t.e = x.e \/ t.e = Append(x.e, Null)
         /\ Entry(t.keys, n) \in 1..Len(t.e)
<1> DEFINE t == Entered(x, n)
<1>1. /\ x.keys \in Seq(Int) /\ x.e \in Seq(ValueCell) /\ Len(x.e) \in Nat /\ Len(x.keys) = Len(x.e)
      /\ DOMAIN x.keys = 1..Len(x.e) /\ 0 \notin DOMAIN x.keys
      /\ \A i, j \in DOMAIN x.keys : x.keys[i] = x.keys[j] => i = j
  BY SeqFinite DEF Keyed
<1>2. \A keys : (\E j \in DOMAIN keys : keys[j] = n) =>
                   Entry(keys, n) \in DOMAIN keys /\ keys[Entry(keys, n)] = n
  BY DEF Entry
<1>3. CASE Entry(x.keys, n) # 0
  <2>1. t = x
    BY <1>3 DEF Entered
  <2>2. Entry(x.keys, n) \in DOMAIN x.keys
    BY <1>2, <1>3 DEF Entry
  <2> QED
    BY <1>1, <2>1, <2>2
<1>4. CASE Entry(x.keys, n) = 0
  <2> DEFINE ks == Append(x.keys, n)
             vs == Append(x.e, Null)
  <2>1. \A j \in DOMAIN x.keys : x.keys[j] # n
    BY <1>1, <1>2, <1>4
  <2>2. /\ ks \in Seq(Int) /\ Len(ks) = Len(x.e) + 1 /\ ks[Len(x.e) + 1] = n
        /\ \A i \in 1..Len(x.e) : ks[i] = x.keys[i]
    BY <1>1, AppendProperties
  <2>3. vs \in Seq(ValueCell) /\ Len(vs) = Len(x.e) + 1
    BY <1>1, ValueCells, AppendProperties
  <2>4. t = [x EXCEPT !.keys = ks, !.e = vs]
    BY <1>4 DEF Entered
  <2> HIDE DEF ks, vs
  <2>5. DOMAIN ks = 1..(Len(x.e) + 1)
    BY <2>2, SeqFinite
  <2>6. /\ t \in [live : BOOLEAN, rc : Int, tab : BOOLEAN, keys : Seq(Int), e : Seq(ValueCell)]
        /\ t.live = x.live /\ t.rc = x.rc /\ t.keys = ks /\ t.e = vs
    BY <2>2, <2>3, <2>4
  <2>7. ASSUME NEW i \in DOMAIN ks, NEW j \in DOMAIN ks, ks[i] = ks[j] PROVE i = j
    <3>1. i \in 1..Len(x.e) \/ i = Len(x.e) + 1
      BY <1>1, <2>5
    <3>2. j \in 1..Len(x.e) \/ j = Len(x.e) + 1
      BY <1>1, <2>5
    <3> QED
      BY <1>1, <2>1, <2>2, <2>7, <3>1, <3>2
  <2>8. Keyed(t)
    BY <2>2, <2>3, <2>6, <2>7 DEF Keyed
  <2>9. Entry(ks, n) \in DOMAIN ks
    <3>1. Len(x.e) + 1 \in DOMAIN ks
      BY <1>1, <2>5
    <3> QED
      BY <1>2, <2>2, <3>1
  <2>10. t.e = Append(x.e, Null)
    BY <2>6 DEF vs
  <2> HIDE DEF t
  <2> QED
    BY <2>3, <2>5, <2>6, <2>8, <2>9, <2>10 DEF t
<1> QED
  BY <1>3, <1>4

LEMMA EnteredExchange ==
  ASSUME IInv, NEW h, NEW given, NEW made, Exchanges(h, given, made),
         NEW p \in Obj, h[p].live, h[p].tab, NEW n \in Int, Len(Entered(h[p], n).e) <= MaxLen
  PROVE  LET g == [h EXCEPT ![p] = Entered(h[p], n)] IN
         /\ Exchanges(g, given, made)
         /\ \A q \in Obj : \A i \in DOMAIN h[q].e : i \in DOMAIN g[q].e /\ g[q].e[i] = h[q].e[i]
<1> DEFINE t == Entered(h[p], n)
           g == [h EXCEPT ![p] = t]
<1>1. PICK e, N : /\ Grows(h, e, N)
                  /\ \A o \in Obj : References(made, o) + ElementReferences(h, o)
                                    = References(given, o) + ElementReferences(heap, o)
                                        + References(e, o) + Fresh(N, o)
  BY DEF Exchanges
<1>2. WellFormed(h)
  BY <1>1 DEF Grows
<1>3. /\ h \in [Obj -> [live : BOOLEAN, rc : Int, tab : BOOLEAN, keys : Seq(Int), e : Seq(ValueCell)]]
      /\ Keyed(h[p]) /\ h[p].e \in Seq(ValueCell) /\ Shaped(h)
  BY <1>2 DEF WellFormed, Shaped
<1>4. h[p] \in [live : BOOLEAN, rc : Int, tab : BOOLEAN, keys : Seq(Int), e : Seq(ValueCell)]
  BY <1>3
<1>5. /\ t \in [live : BOOLEAN, rc : Int, tab : BOOLEAN, keys : Seq(Int), e : Seq(ValueCell)]
      /\ t.live = h[p].live /\ t.rc = h[p].rc /\ Keyed(t)
      /\ t.e = h[p].e \/ t.e = Append(h[p].e, Null)
  BY <1>3, <1>4, EnteredIs
<1>6. Len(t.e) <= MaxLen
  OBVIOUS
<1> HIDE DEF t
<1>7. /\ g \in [Obj -> [live : BOOLEAN, rc : Int, tab : BOOLEAN, keys : Seq(Int), e : Seq(ValueCell)]]
      /\ g[p] = t /\ \A q \in Obj \ {p} : g[q] = h[q]
  BY <1>3, <1>5
<1> HIDE DEF g
<1>8. \A q \in Obj : g[q].live = h[q].live /\ g[q].rc = h[q].rc
  BY <1>5, <1>7
<1>9. WellFormed(g)
  <2>1. ASSUME NEW q \in Obj
        PROVE  /\ g[q].e \in Seq(ValueCell) /\ Len(g[q].e) <= MaxLen
               /\ ~g[q].live => g[q].e = <<>>
               /\ Keyed(g[q])
    <3>1. CASE q = p
      BY <1>5, <1>6, <1>7, <3>1
    <3>2. CASE q # p
      BY <1>2, <1>7, <3>2 DEF WellFormed, Shaped
    <3> QED
      BY <3>1, <3>2
  <2> QED
    BY <1>7, <2>1 DEF WellFormed, Shaped
<1>10. \A o : ElementReferences(g, o) = ElementReferences(h, o)
  <2> TAKE o
  <2>1. ElementReferences(h, o) + References(t.e, o) = ElementReferences(g, o) + References(h[p].e, o)
    <3>1. Shaped(g) /\ \A q \in Obj \ {p} : h[q].e = g[q].e
      BY <1>7, <1>9 DEF WellFormed
    <3>2. ElementReferences(h, o) + References(g[p].e, o) = ElementReferences(g, o) + References(h[p].e, o)
      BY <1>3, <3>1, ElementsChange
    <3> QED
      BY <1>7, <3>2
  <2>2. References(t.e, o) = References(h[p].e, o)
    <3>1. CASE t.e = h[p].e
      BY <3>1
    <3>2. CASE t.e = Append(h[p].e, Null)
      <4>1. References(Append(h[p].e, Null), o) = References(h[p].e, o) + One(Null, o)
        BY <1>3, ValueCells, ReferencesAppend
      <4>2. One(Null, o) = 0
        BY DEF One, RefersTo, Counts, Null
      <4>3. References(h[p].e, o) \in Nat
        BY <1>3, SeqCounted
      <4> QED
        BY <3>2, <4>1, <4>2, <4>3
    <3> QED
      BY <1>5, <3>1, <3>2
  <2>3. /\ ElementReferences(h, o) \in Nat /\ ElementReferences(g, o) \in Nat
        /\ References(h[p].e, o) \in Nat
    BY <1>3, SeqCounted, ElementPlacesFinite
  <2> QED
    BY <2>1, <2>2, <2>3
<1>11. Grows(g, e, N)
  BY <1>1, <1>8, <1>9 DEF Grows
<1>12. Exchanges(g, given, made)
  <2>1. given \in Seq(OperandCell) /\ made \in Seq(OperandCell)
    BY DEF Exchanges
  <2>2. \A o \in Obj : References(made, o) + ElementReferences(g, o)
                      = References(given, o) + ElementReferences(heap, o)
                          + References(e, o) + Fresh(N, o)
    BY <1>1, <1>10
  <2> QED
    BY <1>11, <2>1, <2>2 DEF Exchanges
<1>13. \A q \in Obj : \A i \in DOMAIN h[q].e : i \in DOMAIN g[q].e /\ g[q].e[i] = h[q].e[i]
  <2> TAKE q \in Obj
  <2>1. CASE q = p /\ t.e = Append(h[p].e, Null)
    <3>1. /\ t.e \in Seq(ValueCell) /\ Len(t.e) = Len(h[p].e) + 1
          /\ \A i \in 1..Len(h[p].e) : t.e[i] = h[p].e[i]
      BY <1>3, <2>1, ValueCells, AppendProperties
    <3>2. DOMAIN h[p].e = 1..Len(h[p].e) /\ Len(h[p].e) \in Nat /\ DOMAIN t.e = 1..Len(t.e)
      BY <1>3, <3>1, SeqFinite
    <3> QED
      BY <1>7, <2>1, <3>1, <3>2
  <2>2. CASE q # p \/ t.e = h[p].e
    BY <1>7, <2>2
  <2> QED
    BY <1>5, <2>1, <2>2
<1> QED
  BY <1>12, <1>13 DEF g, t

LEMMA BorrowInsertedKeeps ==
  ASSUME IInv, Few', BorrowInserted
  PROVE  IInv'
<1> DEFINE b == Operand(1)
           i == Operand(0)
           c == Pointed(b)
<1>1. Has(2) /\ b.k = "borrow" /\ IsCell(i)
  BY DEF BorrowInserted
<1>2. b \in BorrowCell /\ i \in OperandCell /\ i \in ValueCell /\ Below(2) \in Seq(OperandCell)
      /\ \A o : References(stack, o) = References(Below(2), o) + One(b, o) + One(i, o)
              /\ References(Below(2), o) \in Nat
  <2>1. b \in OperandCell /\ i \in OperandCell /\ Below(2) \in Seq(OperandCell)
        /\ \A o : References(stack, o) = References(Below(2), o) + One(b, o) + One(i, o)
                /\ References(Below(2), o) \in Nat
    BY <1>1, Operands2 DEF Has
  <2> QED
    BY <1>1, <2>1, OperandCells
<1>3. CASE Dangling(b) \/ ~IsTable(c) \/ i.k # "num"
  <2>1. Stop("dangling") \/ Stop("raised")
    BY <1>3 DEF BorrowInserted
  <2> QED
    BY <2>1, StopKeeps DEF Stop
<1>4. CASE ~Dangling(b) /\ IsTable(c) /\ i.k = "num"
  <2>1. PICK r \in Cloned(c) :
          LET t == Entered(r.h[r.c.o], i.n) IN
          /\ Len(t.e) <= MaxLen
          /\ Do(EnvWith(b, r.c),
                Append(Below(2),
                  BorrowOf(b.v, Append(b.p, i.n), r.c.o, Entry(t.keys, i.n), Len(t.e),
                           [b.rcs EXCEPT ![Len(b.rcs)] = t.rc] \o <<1>>)),
                HeapWith([r.h EXCEPT ![r.c.o] = t], b, r.c), r.d)
    BY <1>4 DEF BorrowInserted
  <2>2. /\ c \in ValueCell /\ Alive(c) /\ b.v \in Var
        /\ b.o # NoObj => b.o \in Obj /\ heap[b.o].live /\ b.i \in DOMAIN heap[b.o].e
                          /\ c = heap[b.o].e[b.i]
    BY <1>2, <1>4, PlaceFacts
  <2>3. c.k = "ref" /\ c.o \in Obj /\ heap[c.o].tab /\ heap[c.o].live /\ i.k = "num" /\ i.n \in Int
    BY <1>2, <1>4, <2>2, ValueCells DEF IsTable, Alive, RefersTo, Counts
  <2> DEFINE t   == Entered(r.h[r.c.o], i.n)
             h   == [r.h EXCEPT ![r.c.o] = t]
             at  == Entry(t.keys, i.n)
             p   == Append(b.p, i.n)
             len == Len(t.e)
             rcs == [b.rcs EXCEPT ![Len(b.rcs)] = t.rc] \o <<1>>
             new == BorrowOf(b.v, p, r.c.o, at, len, rcs)
  <2>6. /\ env' = EnvWith(b, r.c) /\ stack' = Append(Below(2), new) /\ heap' = HeapWith(h, b, r.c)
        /\ drop' = r.d /\ UNCHANGED status /\ Len(Entered(r.h[r.c.o], i.n).e) <= MaxLen
    BY <2>1 DEF Do
  <2> HIDE DEF b, c, i
  <2>4. /\ r.c \in ValueCell /\ r.d \in Seq(OperandCell)
        /\ Exchanges(r.h, <<c>>, <<r.c>> \o r.d)
        /\ r.c.k = "ref" /\ r.c.o \in Obj
        /\ r.h[r.c.o].tab /\ r.h[r.c.o].live /\ r.h[r.c.o].rc \in Nat
        /\ \A q \in Obj : heap[q].live => r.h[q].e = heap[q].e
    BY <2>2, <2>3, ClonedExchange, ValueCells
  <2>11. WellFormed(r.h)
    BY <2>4 DEF Exchanges, Grows
  <2>12. t.rc \in Nat /\ len \in Nat /\ at \in 1..len
    <3>1. /\ r.h[r.c.o] \in [live : BOOLEAN, rc : Int, tab : BOOLEAN, keys : Seq(Int), e : Seq(ValueCell)]
          /\ Keyed(r.h[r.c.o])
      BY <2>4, <2>11 DEF WellFormed
    <3> DEFINE x == r.h[r.c.o]
    <3> HIDE DEF x
    <3>2. LET y == Entered(x, i.n) IN y.rc = x.rc /\ y.e \in Seq(ValueCell) /\ Entry(y.keys, i.n) \in 1..Len(y.e)
      BY <2>3, <2>4, <3>1, EnteredIs DEF x
    <3> QED
      BY <2>4, <3>2, LenProperties DEF x
  <2>13. /\ Exchanges(h, <<c>>, <<r.c>> \o r.d)
         /\ \A q \in Obj : \A j \in DOMAIN r.h[q].e : j \in DOMAIN h[q].e /\ h[q].e[j] = r.h[q].e[j]
    <3> DEFINE f == r.h
               q == r.c.o
               m == i.n
               given == <<c>>
               made == <<r.c>> \o r.d
    <3>1. /\ Exchanges(f, given, made) /\ q \in Obj /\ f[q].live /\ f[q].tab /\ m \in Int
          /\ Len(Entered(f[q], m).e) <= MaxLen /\ h = [f EXCEPT ![q] = Entered(f[q], m)]
      BY <2>3, <2>4, <2>6
    <3> HIDE DEF f, q, m, given, made, h
    <3>2. Exchanges(h, given, made)
      BY <3>1, EnteredExchange
    <3>3. \A p0 \in Obj : \A j \in DOMAIN f[p0].e : j \in DOMAIN h[p0].e /\ h[p0].e[j] = f[p0].e[j]
      BY <3>1, EnteredExchange
    <3> QED
      BY <3>2, <3>3 DEF f, given, made
  <2> HIDE DEF t, h
  <2>5. new \in OperandCell /\ \A o : One(new, o) = 0
    <3>1. b.p \in Seq(Int) /\ b.rcs \in Seq(Nat) /\ Len(b.rcs) = Len(b.p) + 1
      BY <1>2 DEF BorrowCell
    <3>2. len \in Nat /\ at \in 1..len
      BY <2>12
    <3>3. p \in Seq(Int) /\ Len(p) = Len(b.p) + 1 /\ Len(b.p) \in Nat
      BY <2>3, <3>1, AppendProperties, LenProperties
    <3>4. rcs \in Seq(Nat) /\ Len(rcs) = Len(b.rcs) + 1
      <4> DEFINE s == [b.rcs EXCEPT ![Len(b.rcs)] = t.rc]
      <4>1. Len(b.rcs) \in 1..Len(b.rcs)
        BY <3>1, <3>3
      <4>2. s \in Seq(Nat) /\ Len(s) = Len(b.rcs)
        BY <2>12, <3>1, <4>1, ExceptSeq
      <4>3. <<1>> \in Seq(Nat) /\ Len(<<1>>) = 1
        OBVIOUS
      <4> HIDE DEF s
      <4>4. s \o <<1>> \in Seq(Nat) /\ Len(s \o <<1>>) = Len(s) + Len(<<1>>)
        BY <4>2, <4>3, ConcatProperties
      <4> QED
        BY <4>2, <4>3, <4>4 DEF s
    <3>5. Len(rcs) = Len(p) + 1 /\ at \in Nat
      BY <3>1, <3>2, <3>3, <3>4
    <3> DEFINE o == r.c.o
    <3>6. o \in Obj \union {NoObj} /\ new = BorrowOf(b.v, p, o, at, len, rcs) /\ (o \in Obj => at \in 1..len)
      BY <2>4, <3>2
    <3> DEFINE v == b.v
    <3>7. /\ v \in Var /\ p \in Seq(Int) /\ o \in Obj \union {NoObj} /\ at \in Nat /\ len \in Nat
          /\ rcs \in Seq(Nat) /\ Len(rcs) = Len(p) + 1 /\ (o \in Obj => at \in 1..len)
      BY <2>2, <3>2, <3>3, <3>4, <3>5, <3>6
    <3> HIDE DEF p, len, rcs, o, v, at
    <3>8. new = BorrowOf(v, p, o, at, len, rcs)
      BY <3>6 DEF v
    <3> HIDE DEF new
    <3> QED
      BY <3>7, <3>8, BorrowCells
  <2> HIDE DEF new
  <2>7. stack' \in Seq(OperandCell) /\ drop' \in Seq(OperandCell)
    BY <1>2, <2>4, <2>5, <2>6, AppendProperties
  <2>8. b.o # NoObj => b.i \in DOMAIN h[b.o].e /\ h[b.o].e[b.i] = c
    BY <2>2, <2>4, <2>13
  <2>9. ASSUME NEW o \in Obj
        PROVE  References(stack', o) + References(drop', o) + References(<<c>>, o) + One(r.c, o)
                 = References(stack, o) + References(drop, o) + References(<<r.c>> \o r.d, o) + One(c, o)
    <3>1. References(stack', o) = References(Below(2), o) + One(new, o) /\ One(new, o) = 0
      BY <1>2, <2>5, <2>6, ReferencesAppend
    <3>2. References(<<r.c>> \o r.d, o) = One(r.c, o) + References(r.d, o)
      <4>1. r.c \in OperandCell
        BY <2>4, ValueCells
      <4> QED
        BY <2>4, <4>1, ReferencesCons
    <3>3. References(<<c>>, o) = One(c, o)
      BY ReferencesShort
    <3>4. One(b, o) = 0 /\ One(i, o) = 0
      BY <1>1, <2>3 DEF One, RefersTo, Counts, b, i
    <3> DEFINE s == References(Below(2), o)
               d == References(r.d, o)
               x == One(c, o)
               y == One(r.c, o)
    <3>5. s \in Nat /\ d \in Nat /\ x \in Nat /\ y \in Nat /\ References(drop, o) = 0
      BY <1>1, <1>2, <2>4, Instruction, SeqCounted, OneNat
    <3>6. References(stack, o) = s + 0 + 0
      BY <1>2, <3>4
    <3> HIDE DEF s, d, x, y
    <3>7. (s + 0) + d + x + y = (s + 0 + 0) + 0 + (y + d) + x
      BY <3>5
    <3> QED
      BY <2>6, <3>1, <3>2, <3>3, <3>5, <3>6, <3>7 DEF s, d, x, y
  <2>10. ~Dangling(b) /\ Pointed(b) = c
    BY <1>4 DEF b, c
  <2> QED
    BY <1>2, <2>4, <2>6, <2>7, <2>8, <2>9, <2>10, <2>13, PlaceKeeps
<1> QED
  BY <1>3, <1>4

LEMMA WriteBorrowedKeeps ==
  ASSUME IInv, Few', WriteBorrowed
  PROVE  IInv'
<1> DEFINE b == Operand(1)
           c == Operand(0)
           old == Pointed(b)
<1>1. Has(2) /\ b.k = "borrow" /\ IsCell(c)
  BY DEF WriteBorrowed
<1>2. CASE Dangling(b)
  <2>1. Stop("dangling")
    BY <1>2 DEF WriteBorrowed
  <2> QED
    BY <2>1, StopKeeps DEF Stop
<1>3. CASE ~Dangling(b)
  <2>1. /\ env' = EnvWith(b, c) /\ stack' = Below(2) /\ heap' = HeapWith(heap, b, c)
        /\ drop' = <<old>> /\ UNCHANGED status
    BY <1>3 DEF WriteBorrowed, Do
  <2>2. b \in OperandCell /\ c \in OperandCell /\ Below(2) \in Seq(OperandCell)
        /\ \A o : References(stack, o) = References(Below(2), o) + One(b, o) + One(c, o)
                /\ References(Below(2), o) \in Nat
    BY <1>1, Operands2 DEF Has
  <2>3. b \in BorrowCell /\ c \in ValueCell /\ \A o : One(b, o) = 0
    BY <1>1, <2>2, OperandCells DEF One, RefersTo, Counts
  <2>4. /\ old \in ValueCell /\ old \in OperandCell
        /\ b.o # NoObj => b.i \in DOMAIN heap[b.o].e /\ heap[b.o].e[b.i] = old
    BY <1>3, <2>3, PlaceFacts, ValueCells
  <2> HIDE DEF b, c, old
  <2>5. stack' \in Seq(OperandCell) /\ drop' \in Seq(OperandCell)
    BY <2>1, <2>2, <2>4
  <2>6. ASSUME NEW o \in Obj
        PROVE  References(stack', o) + References(drop', o) + References(<<>>, o) + One(c, o)
                 = References(stack, o) + References(drop, o) + References(<<>>, o) + One(old, o)
    <3> DEFINE s == References(Below(2), o)
               x == One(c, o)
               y == One(old, o)
    <3>1. References(drop', o) = y /\ References(stack', o) = s /\ References(stack, o) = s + 0 + x
      BY <2>1, <2>2, <2>3, ReferencesShort
    <3>2. s \in Nat /\ x \in Nat /\ y \in Nat /\ References(drop, o) = 0 /\ References(<<>>, o) = 0
      BY <1>1, <2>2, Instruction, OneNat
    <3> HIDE DEF s, x, y
    <3>3. s + y + 0 + x = (s + 0 + x) + 0 + 0 + y
      BY <3>2
    <3> QED
      BY <3>1, <3>2, <3>3 DEF x, y
  <2>7. Exchanges(heap, <<>>, <<>>)
    BY EmptyExchange
  <2>8. ~Dangling(b) /\ Pointed(b) = old
    BY <1>3 DEF b, old
  <2> QED
    BY <2>1, <2>3, <2>4, <2>5, <2>6, <2>7, <2>8, PlaceKeeps
<1> QED
  BY <1>2, <1>3

LEMMA MoveKeeps ==
  ASSUME IInv, Few', Move
  PROVE  IInv'
<1> DEFINE b == Operand(0)
           old == Pointed(b)
<1>1. Has(1) /\ b.k = "borrow" /\ ~Dangling(b)
  BY DEF Move
<1>2. /\ env' = EnvWith(b, Null) /\ stack' = Append(Below(1), old) /\ heap' = HeapWith(heap, b, Null)
      /\ drop' = <<>> /\ UNCHANGED status
  BY DEF Move, Do
<1>3. b \in OperandCell /\ Below(1) \in Seq(OperandCell)
      /\ \A o : References(stack, o) = References(Below(1), o) + One(b, o)
              /\ References(Below(1), o) \in Nat
  BY <1>1, Operands1 DEF Has
<1>4. b \in BorrowCell /\ Null \in ValueCell /\ \A o : One(b, o) = 0 /\ One(Null, o) = 0
  BY <1>1, <1>3, OperandCells, ValueCells DEF One, RefersTo, Counts, Null
<1>5. /\ old \in ValueCell /\ old \in OperandCell
      /\ b.o # NoObj => b.i \in DOMAIN heap[b.o].e /\ heap[b.o].e[b.i] = old
  BY <1>1, <1>4, PlaceFacts, ValueCells
<1>8. ~Dangling(b) /\ Pointed(b) = old
  BY <1>1
<1> HIDE DEF b, old
<1>6. stack' \in Seq(OperandCell) /\ drop' \in Seq(OperandCell)
  BY <1>1, <1>2, <1>3, <1>5, Instruction, AppendProperties
<1>7. ASSUME NEW o \in Obj
      PROVE  References(stack', o) + References(drop', o) + References(<<>>, o) + One(Null, o)
               = References(stack, o) + References(drop, o) + References(<<>>, o) + One(old, o)
  <2> DEFINE s == References(Below(1), o)
             y == One(old, o)
  <2>1. References(stack', o) = s + y /\ References(stack, o) = s + 0
    BY <1>2, <1>3, <1>4, <1>5, ReferencesAppend
  <2>2. s \in Nat /\ y \in Nat /\ References(drop, o) = 0 /\ References(<<>>, o) = 0 /\ References(drop', o) = 0
    BY <1>1, <1>2, <1>3, Instruction, OneNat
  <2> HIDE DEF s, y
  <2>3. (s + y) + 0 + 0 + 0 = (s + 0) + 0 + 0 + y
    BY <2>2
  <2> QED
    BY <1>4, <2>1, <2>2, <2>3 DEF y
<1>9. Exchanges(heap, <<>>, <<>>)
  BY EmptyExchange
<1> QED
  BY <1>2, <1>4, <1>5, <1>6, <1>7, <1>8, <1>9, PlaceKeeps

LEMMA AppendBorrowedKeeps ==
  ASSUME IInv, Few', AppendBorrowed
  PROVE  IInv'
<1> DEFINE b == Operand(1)
           r == Operand(0)
           c == Pointed(b)
<1>1. Has(2) /\ b.k = "borrow" /\ IsCell(r)
  BY DEF AppendBorrowed
<1>2. CASE Dangling(b) \/ (~IsArray(c) /\ ~IsArray(r))
  <2>1. Stop("dangling") \/ Stop("raised")
    BY <1>2 DEF AppendBorrowed
  <2> QED
    BY <2>1, StopKeeps DEF Stop
<1>3. CASE ~Dangling(b) /\ (IsArray(c) \/ IsArray(r))
  <2>1. /\ AppendedLen(c, r) <= MaxLen
        /\ \E a \in Appended(c, r) : Do(EnvWith(b, a.c), Below(2), HeapWith(a.h, b, a.c), a.d)
    BY <1>3 DEF AppendBorrowed
  <2>2. PICK a \in Appended(c, r) :
          /\ env' = EnvWith(b, a.c) /\ stack' = Below(2) /\ heap' = HeapWith(a.h, b, a.c)
          /\ drop' = a.d /\ UNCHANGED status
    BY <2>1 DEF Do
  <2>3. b \in OperandCell /\ r \in OperandCell /\ Alive(r) /\ Below(2) \in Seq(OperandCell)
        /\ \A o : References(stack, o) = References(Below(2), o) + One(b, o) + One(r, o)
                /\ References(Below(2), o) \in Nat
    BY <1>1, Operands2 DEF Has
  <2>4. b \in BorrowCell /\ r \in ValueCell /\ \A o : One(b, o) = 0
    BY <1>1, <2>3, OperandCells DEF One, RefersTo, Counts
  <2>5. /\ c \in ValueCell /\ Alive(c)
        /\ b.o # NoObj => /\ b.o \in Obj /\ heap[b.o].live /\ b.i \in DOMAIN heap[b.o].e
                          /\ c = heap[b.o].e[b.i]
    BY <1>3, <2>4, PlaceFacts
  <2>6. ~Dangling(b) /\ Pointed(b) = c /\ (IsArray(c) \/ IsArray(r))
    BY <1>3
  <2> HIDE DEF b, r, c
  <2>7. /\ a.c \in ValueCell /\ a.d \in Seq(OperandCell)
        /\ Exchanges(a.h, <<c, r>>, <<a.c>> \o a.d)
        /\ \A p \in Obj : heap[p].live =>
             \A i \in DOMAIN heap[p].e : i \in DOMAIN a.h[p].e /\ a.h[p].e[i] = heap[p].e[i]
    BY <2>1, <2>3, <2>4, <2>5, <2>6, AppendedExchange
  <2>8. b.o # NoObj => b.i \in DOMAIN a.h[b.o].e /\ a.h[b.o].e[b.i] = c
    BY <2>5, <2>7
  <2>9. stack' \in Seq(OperandCell) /\ drop' \in Seq(OperandCell) /\ a.c \in OperandCell
    BY <2>2, <2>3, <2>7, ValueCells
  <2>10. ASSUME NEW o \in Obj
         PROVE  References(stack', o) + References(drop', o) + References(<<c, r>>, o) + One(a.c, o)
                  = References(stack, o) + References(drop, o) + References(<<a.c>> \o a.d, o) + One(c, o)
    <3> DEFINE s == References(Below(2), o)
               d == References(a.d, o)
               x == One(c, o)
               y == One(r, o)
               z == One(a.c, o)
    <3>1. /\ References(drop', o) = d /\ References(stack', o) = s /\ References(stack, o) = s + 0 + y
          /\ References(<<c, r>>, o) = x + y
      BY <2>2, <2>3, <2>4, ReferencesShort
    <3>2. References(<<a.c>> \o a.d, o) = z + d
      BY <2>7, <2>9, ReferencesCons
    <3>3. s \in Nat /\ d \in Nat /\ x \in Nat /\ y \in Nat /\ z \in Nat /\ References(drop, o) = 0
      BY <1>1, <2>3, <2>7, Instruction, SeqCounted, OneNat
    <3> HIDE DEF s, d, x, y, z
    <3>4. s + d + (x + y) + z = (s + 0 + y) + 0 + (z + d) + x
      BY <3>3
    <3> QED
      BY <3>1, <3>2, <3>3, <3>4 DEF x, z
  <2> QED
    BY <2>2, <2>4, <2>6, <2>7, <2>8, <2>9, <2>10, PlaceKeeps
<1> QED
  BY <1>2, <1>3

LEMMA AppendOpKeeps ==
  ASSUME IInv, Few', AppendOp
  PROVE  IInv'
<1> DEFINE c == Operand(1)
           r == Operand(0)
<1>1. Has(2) /\ IsCell(c) /\ IsCell(r)
  BY DEF AppendOp
<1>2. CASE ~IsArray(c) /\ ~IsArray(r)
  <2>1. Stop("raised")
    BY <1>2 DEF AppendOp
  <2> QED
    BY <2>1, StopKeeps DEF Stop
<1>3. CASE IsArray(c) \/ IsArray(r)
  <2>1. /\ AppendedLen(c, r) <= MaxLen
        /\ \E a \in Appended(c, r) : Do(env, Append(Below(2), a.c), a.h, a.d)
    BY <1>3 DEF AppendOp
  <2>2. PICK a \in Appended(c, r) :
          /\ env' = env /\ stack' = Append(Below(2), a.c) /\ heap' = a.h
          /\ drop' = a.d /\ UNCHANGED status
    BY <2>1 DEF Do
  <2>3. /\ c \in OperandCell /\ Alive(c) /\ r \in OperandCell /\ Alive(r) /\ Below(2) \in Seq(OperandCell)
        /\ \A o : References(stack, o) = References(Below(2), o) + One(c, o) + One(r, o)
                /\ References(Below(2), o) \in Nat
    BY <1>1, Operands2 DEF Has
  <2>4. c \in ValueCell /\ r \in ValueCell
    BY <1>1, <2>3, OperandCells
  <2>5. IsArray(c) \/ IsArray(r)
    BY <1>3
  <2> HIDE DEF r, c
  <2>6. /\ a.c \in ValueCell /\ a.d \in Seq(OperandCell) /\ a.c \in OperandCell
        /\ Exchanges(a.h, <<c, r>>, <<a.c>> \o a.d)
    BY <2>1, <2>3, <2>4, <2>5, AppendedExchange, ValueCells
  <2>7. env' \in [Var -> ValueCell] /\ stack' \in Seq(OperandCell) /\ drop' \in Seq(OperandCell)
    BY <1>1, <2>2, <2>3, <2>6, Instruction, AppendProperties
  <2>8. ASSUME NEW o \in Obj
        PROVE  References(env', o) + References(stack', o) + References(drop', o) + References(<<c, r>>, o)
                 = References(env, o) + References(stack, o) + References(drop, o) + References(<<a.c>> \o a.d, o)
    <3> DEFINE s == References(Below(2), o)
               d == References(a.d, o)
               x == One(c, o)
               y == One(r, o)
               z == One(a.c, o)
               v == References(env, o)
    <3>1. /\ References(drop', o) = d /\ References(env', o) = v /\ References(stack, o) = s + x + y
          /\ References(<<c, r>>, o) = x + y
      BY <2>2, <2>3, <2>4, ReferencesShort
    <3>2. References(<<a.c>> \o a.d, o) = z + d /\ References(stack', o) = s + z
      BY <2>2, <2>3, <2>6, ReferencesCons, ReferencesAppend
    <3>3. s \in Nat /\ d \in Nat /\ x \in Nat /\ y \in Nat /\ z \in Nat /\ v \in Nat /\ References(drop, o) = 0
      BY <1>1, <2>3, <2>6, Instruction, SeqCounted, OneNat
    <3> HIDE DEF s, d, x, y, z, v
    <3>4. v + (s + z) + d + (x + y) = v + (s + x + y) + 0 + (z + d)
      BY <3>3
    <3> QED
      BY <3>1, <3>2, <3>3, <3>4 DEF v
  <2> QED
    BY <2>2, <2>6, <2>7, <2>8, ExchangeKeeps
<1> QED
  BY <1>2, <1>3

(* The n operands on top.                                                  *)
LEMMA OperandCellsTop ==
  ASSUME IInv, NEW n \in 0..Len(stack), \A i \in 0..(n - 1) : IsCell(Operand(i))
  PROVE  LET e == SubSeq(stack, Len(stack) - n + 1, Len(stack)) IN
         /\ e \in Seq(ValueCell) /\ Len(e) = n /\ Below(n) \in Seq(OperandCell)
         /\ \A o : References(stack, o) = References(Below(n), o) + References(e, o)
                 /\ References(Below(n), o) \in Nat
<1> DEFINE m == Len(stack) - n
           e == SubSeq(stack, m + 1, Len(stack))
<1>3. Len(stack) \in Nat /\ stack \in Seq(OperandCell) /\ m \in 0..Len(stack) /\ n \in Nat
  BY Operands DEF IInv
<1>4. Below(n) \in Seq(OperandCell) /\ Len(e) = n
      /\ \A o : References(stack, o) = References(Below(n), o) + References(e, o)
              /\ References(Below(n), o) \in Nat
  <2>1. Len(stack) - m = n
    BY <1>3
  <2>2. Below(n) = SubSeq(stack, 1, m)
    BY DEF Below
  <2> HIDE DEF m
  <2>3. /\ SubSeq(stack, 1, m) \in Seq(OperandCell) /\ Len(e) = Len(stack) - m
        /\ \A o : References(stack, o) = References(SubSeq(stack, 1, m), o) + References(e, o)
    BY <1>3, ReferencesSplit
  <2>4. \A o : References(SubSeq(stack, 1, m), o) \in Nat
    BY <2>3, SeqCounted
  <2> HIDE DEF e
  <2> QED
    BY <2>1, <2>2, <2>3, <2>4
<1>5. e \in Seq(ValueCell)
  <2>1. ASSUME NEW i \in (m + 1)..Len(stack) PROVE stack[i] \in ValueCell
    <3>1. Len(stack) - i \in 0..(n - 1) /\ Len(stack) - (Len(stack) - i) = i
          /\ Len(stack) - i \in 0..(Len(stack) - 1)
      BY <1>3
    <3>2. Operand(Len(stack) - i) = stack[i]
      BY <3>1 DEF Operand
    <3>3. IsCell(stack[i]) /\ stack[i] \in OperandCell
      BY <3>1, <3>2, Operands
    <3> QED
      BY <3>3, OperandCells
  <2>2. m + 1 \in Int /\ Len(stack) \in Int
    BY <1>3
  <2> HIDE DEF m
  <2> QED
    BY <2>1, <2>2, SubSeqProperties
<1> QED
  BY <1>4, <1>5

LEMMA CreateArrayKeeps ==
  ASSUME IInv, Few', NEW n \in 0..MaxLen, CreateArray(n)
  PROVE  IInv'
<1> DEFINE m == Len(stack) - n
           e == SubSeq(stack, m + 1, Len(stack))
<1>0. MaxLen \in Nat /\ n \in Nat
  BY HeapAssumption
<1>1. Has(n) /\ \A i \in 0..(n - 1) : IsCell(Operand(i))
  BY DEF CreateArray
<1>2. PICK p \in Free :
        /\ env' = env /\ stack' = Append(Below(n), Ref(p)) /\ heap' = [heap EXCEPT ![p] = Array(e)]
        /\ drop' = <<>> /\ UNCHANGED status
  BY DEF CreateArray, Do
<1>3. n \in 0..Len(stack) /\ Len(stack) \in Nat /\ stack \in Seq(OperandCell) /\ m \in 0..Len(stack)
  BY <1>0, <1>1, Instruction, Operands
<1>4. Below(n) \in Seq(OperandCell) /\ Len(e) = n
      /\ \A o : References(stack, o) = References(Below(n), o) + References(e, o)
              /\ References(Below(n), o) \in Nat
  BY <1>1, <1>3, OperandCellsTop
<1>5. e \in Seq(ValueCell)
  BY <1>1, <1>3, OperandCellsTop
<1>6. Len(e) <= MaxLen
  BY <1>0, <1>4
<1> HIDE DEF m, e
<1>7. Exchanges(heap', e, <<Ref(p)>>)
  <2>1. NewObject(Array(e)) /\ Array(e).e = e
    BY <1>5, <1>6, NewArray
  <2> QED
    BY <1>2, <2>1, ObjectExchange
<1>8. Ref(p) \in OperandCell
  BY ValueCells DEF Free
<1>9. env' \in [Var -> ValueCell] /\ stack' \in Seq(OperandCell) /\ drop' \in Seq(OperandCell)
  BY <1>0, <1>1, <1>2, <1>4, <1>8, Instruction, AppendProperties
<1>10. ASSUME NEW o \in Obj
       PROVE  References(env', o) + References(stack', o) + References(drop', o) + References(e, o)
                = References(env, o) + References(stack, o) + References(drop, o) + References(<<Ref(p)>>, o)
  <2> DEFINE s == References(Below(n), o)
             x == References(e, o)
             y == One(Ref(p), o)
             v == References(env, o)
  <2>1. References(stack', o) = s + y /\ References(stack, o) = s + x /\ References(<<Ref(p)>>, o) = y
    <3>1. References(Append(Below(n), Ref(p)), o) = References(Below(n), o) + One(Ref(p), o)
      BY <1>4, <1>8, ReferencesAppend
    <3>2. References(<<Ref(p)>>, o) = y
      BY ReferencesShort
    <3> QED
      BY <1>2, <1>4, <3>1, <3>2
  <2>2. s \in Nat /\ x \in Nat /\ y \in Nat /\ v \in Nat /\ References(drop, o) = 0
        /\ References(drop', o) = 0 /\ References(env', o) = v
    BY <1>0, <1>1, <1>2, <1>4, <1>5, Instruction, SeqCounted, OneNat
  <2> HIDE DEF s, x, y, v
  <2>3. v + (s + y) + 0 + x = v + (s + x) + 0 + y
    BY <2>2
  <2> QED
    BY <2>1, <2>2, <2>3 DEF x, v
<1>11. UNCHANGED status
  BY <1>2
<1> QED
  BY <1>7, <1>9, <1>10, <1>11, ExchangeKeeps

LEMMA FunctionIsSeq ==
  ASSUME NEW S, NEW c \in Nat, NEW f \in [1..c -> S]
  PROVE  f \in Seq(S) /\ Len(f) = c
OBVIOUS

(* The values of the first pairs go to the table, the other cells are      *)
(* destroyed; the keys are all different.                                  *)
KeysOf(cells, s)   == [j \in 1..Cardinality(FirstPairs(cells)) |-> cells[2 * s[j] - 1].n]
ValuesOf(cells, s) == [j \in 1..Cardinality(FirstPairs(cells)) |-> cells[2 * s[j]]]
Others(cells, k) ==
  [j \in 1..k |-> IF j % 2 = 0 /\ j \div 2 \in FirstPairs(cells) THEN Null ELSE cells[j]]

InOrder(cells, k, s) ==
  /\ \E n \in Nat : k = 2 * n
  /\ cells \in Seq(ValueCell) /\ Len(cells) = k /\ AllKeys(cells)
  /\ s \in [1..Cardinality(FirstPairs(cells)) -> FirstPairs(cells)]
  /\ \A i, j \in 1..Cardinality(FirstPairs(cells)) : i < j => s[i] < s[j]

Split(cells, keys, e, dropped) ==
  /\ keys \in Seq(Int) /\ e \in Seq(ValueCell)
  /\ Len(keys) = Cardinality(FirstPairs(cells)) /\ Len(e) = Len(keys)
  /\ \A i, j \in DOMAIN keys : keys[i] = keys[j] => i = j
  /\ dropped \in Seq(ValueCell)
  /\ \A o : References(cells, o) = References(e, o) + References(dropped, o)

LEMMA PairsSplit ==
  ASSUME NEW cells, NEW k, NEW s, InOrder(cells, k, s)
  PROVE  Split(cells, KeysOf(cells, s), ValuesOf(cells, s), Others(cells, k))
<1> USE DEF InOrder
<1>0. PICK n \in Nat : k = 2 * n
  OBVIOUS
<1> DEFINE first == FirstPairs(cells)
           c == Cardinality(first)
           D == 1..c
           keys == [j \in D |-> cells[2 * s[j] - 1].n]
           e == [j \in D |-> cells[2 * s[j]]]
           dropped == [j \in 1..k |-> IF j % 2 = 0 /\ j \div 2 \in first THEN Null ELSE cells[j]]
<1>1. Pairs(cells) = 1..n /\ DOMAIN cells = 1..k
  <2>1. k \div 2 = n
    BY <1>0
  <2> QED
    BY <2>1, SeqFinite DEF Pairs
<1>2. /\ first \subseteq 1..n /\ IsFiniteSet(first) /\ c \in Nat /\ IsFiniteSet(D)
      /\ \A i, j \in first : cells[2 * i - 1].n = cells[2 * j - 1].n => i = j
  <2>1. first \subseteq 1..n
    <3>1. first \subseteq Pairs(cells)
      BY DEF FirstPairs
    <3>2. Pairs(cells) = 1..n
      BY <1>1
    <3> HIDE DEF first
    <3> QED
      BY <3>1, <3>2, Zenon
  <2>2. IsFiniteSet(first)
    <3> HIDE DEF first
    <3>1. IsFiniteSet(1..n)
      BY FS_Interval
    <3>2. first \in SUBSET (1..n)
      BY <2>1, Zenon
    <3> QED
      BY <3>1, <3>2, FS_Subset, Zenon
  <2>3. ASSUME NEW i \in first, NEW j \in first, i < j PROVE cells[2 * i - 1].n # cells[2 * j - 1].n
    <3>1. i \in 1..(j - 1)
      BY <2>1, <2>3
    <3> QED
      BY <3>1 DEF FirstPairs
  <2>4. \A i, j \in first : i < j \/ j < i \/ i = j
    BY <2>1
  <2> HIDE DEF first
  <2>5. c \in Nat
    BY <2>2, FS_CardinalityType
  <2>6. IsFiniteSet(D)
    BY <2>5, FS_Interval
  <2>7. \A i, j \in first : cells[2 * i - 1].n = cells[2 * j - 1].n => i = j
    BY <2>3, <2>4
  <2> QED
    BY <2>1, <2>2, <2>5, <2>6, <2>7
<1>3. \A i \in 1..n : /\ 2 * i \in 1..k /\ 2 * i - 1 \in 1..k
                      /\ cells[2 * i] \in ValueCell /\ cells[2 * i - 1].n \in Int
  <2> TAKE i \in 1..n
  <2>1. 2 * i \in 1..k /\ 2 * i - 1 \in 1..k
    BY <1>0
  <2>2. cells[2 * i] \in ValueCell /\ cells[2 * i - 1] \in ValueCell
    BY <2>1, ElementOfSeq
  <2>3. cells[2 * i - 1].k = "num"
    BY <1>1 DEF AllKeys
  <2> QED
    BY <2>1, <2>2, <2>3, ValueCells
<1>4. s \in [D -> first] /\ \A i, j \in D : i < j => s[i] < s[j]
  OBVIOUS
<1>11. cells \in Seq(ValueCell) /\ Len(cells) = k /\ k \in Nat
  BY <1>0
<1> HIDE DEF first, c, InOrder
<1>5. \A i, j \in D : s[i] = s[j] => i = j
  <2>1. \A i \in D : s[i] \in Int
    <3> TAKE i \in D
    <3>1. s[i] \in first
      BY <1>4
    <3>2. s[i] \in 1..n
      BY <1>2, <3>1
    <3> QED
      BY <3>2
  <2> QED
    BY <1>2, <1>4, <2>1
<1>6. \A i \in first : \E j \in D : s[j] = i
  <2>1. s \in Injection(D, first)
    BY <1>4, <1>5, Fun_IsInj
  <2>2. Cardinality(D) = c
    BY <1>2, FS_Interval
  <2>3. s \in Surjection(D, first)
    BY <1>2, <2>1, <2>2, FS_Injection DEF c
  <2> QED
    BY <2>3 DEF Surjection
<1>7. keys \in Seq(Int) /\ e \in Seq(ValueCell) /\ Len(keys) = c /\ Len(e) = c
  <2>1. \A j \in D : cells[2 * s[j] - 1].n \in Int /\ cells[2 * s[j]] \in ValueCell
    BY <1>2, <1>3, <1>4
  <2>2. keys \in [D -> Int] /\ e \in [D -> ValueCell]
    BY <2>1
  <2> HIDE DEF keys, e
  <2> QED
    BY <1>2, <2>2, FunctionIsSeq
<1>8. \A i, j \in DOMAIN keys : keys[i] = keys[j] => i = j
  <2>1. DOMAIN keys = D
    OBVIOUS
  <2> SUFFICES ASSUME NEW i \in D, NEW j \in D, keys[i] = keys[j] PROVE i = j
    BY <2>1
  <2>2. cells[2 * s[i] - 1].n = cells[2 * s[j] - 1].n
    OBVIOUS
  <2> QED
    BY <1>2, <1>4, <1>5, <2>2
<1>9. dropped \in Seq(ValueCell)
  <2>1. \A j \in 1..k : cells[j] \in ValueCell
    BY <1>11, ElementOfSeq
  <2>2. k \in Nat /\ dropped \in [1..k -> ValueCell]
    BY <1>0, <2>1, ValueCells
  <2> HIDE DEF dropped
  <2> QED
    BY <2>2, FunctionIsSeq
<1>10. ASSUME NEW o PROVE References(cells, o) = References(e, o) + References(dropped, o)
  <2> DEFINE A == Places(e, o)
             B == Places(dropped, o)
             C == {2 * s[j] : j \in A}
  <2>1. /\ IsFiniteSet(A) /\ References(e, o) = Cardinality(A)
        /\ IsFiniteSet(B) /\ References(dropped, o) = Cardinality(B)
        /\ References(cells, o) = Cardinality(Places(cells, o))
    BY <1>11, <1>7, <1>9, SeqFinite, PlacesFinite
  <2>2. A \subseteq D
    BY DEF Places
  <2>3. DOMAIN dropped = 1..k
    OBVIOUS
  <2>4. \A i \in Nat : (2 * i) % 2 = 0 /\ (2 * i) \div 2 = i
    OBVIOUS
  <2>5. \A i \in 1..k : i % 2 = 0 => i = 2 * (i \div 2)
    BY <1>11
  <2>6. ~RefersTo(Null, o)
    BY DEF RefersTo, Counts, Null
  <2>7. \A j \in D : s[j] \in first /\ s[j] \in 1..n
    BY <1>2, <1>4
  <2>8. Places(cells, o) \subseteq B \union C
    <3> SUFFICES ASSUME NEW i \in 1..k, RefersTo(cells[i], o) PROVE i \in B \union C
      BY <1>1 DEF Places
    <3>1. CASE i % 2 = 0 /\ i \div 2 \in first
      <4>1. PICK j \in D : s[j] = i \div 2
        BY <1>6, <3>1
      <4>2. 2 * s[j] = i
        BY <2>5, <3>1, <4>1
      <4>3. j \in A
        BY <4>2 DEF Places
      <4> QED
        BY <4>2, <4>3
    <3>2. CASE ~(i % 2 = 0 /\ i \div 2 \in first)
      <4>1. dropped[i] = cells[i]
        BY <3>2
      <4> HIDE DEF dropped
      <4>2. i \in B
        BY <2>3, <4>1 DEF Places
      <4> QED
        BY <4>2
    <3> QED
      BY <3>1, <3>2
  <2>9. C \subseteq Places(cells, o) /\ B \intersect C = {}
    <3> SUFFICES ASSUME NEW j \in A PROVE 2 * s[j] \in Places(cells, o) /\ 2 * s[j] \notin B
      OBVIOUS
    <3>1. j \in D /\ RefersTo(cells[2 * s[j]], o)
      BY <2>2 DEF Places
    <3>2. 2 * s[j] \in 1..k /\ (2 * s[j]) % 2 = 0 /\ (2 * s[j]) \div 2 = s[j] /\ s[j] \in first
      BY <1>3, <2>4, <2>7, <3>1
    <3>3. dropped[2 * s[j]] = Null
      BY <3>2
    <3> HIDE DEF dropped
    <3> QED
      BY <1>1, <2>6, <3>1, <3>2, <3>3 DEF Places
  <2>10. B \subseteq Places(cells, o)
    <3> SUFFICES ASSUME NEW i \in 1..k, RefersTo(dropped[i], o) PROVE RefersTo(cells[i], o)
      BY <1>1, <2>3 DEF Places
    <3> QED
      BY <2>6
  <2>11. IsFiniteSet(C) /\ Cardinality(C) = Cardinality(A)
    <3> DEFINE f == [j \in A |-> 2 * s[j]]
    <3>1. \A i, j \in A : f[i] = f[j] => i = j
      <4>1. \A i \in A : f[i] = 2 * s[i] /\ s[i] \in Int /\ i \in D
        BY <2>2, <2>7
      <4> HIDE DEF f, A
      <4> QED
        BY <1>5, <4>1
    <3> HIDE DEF A
    <3>2. f \in Bijection(A, C)
      <4>1. f \in [A -> C]
        OBVIOUS
      <4>2. \A t \in C : \E j \in A : f[j] = t
        OBVIOUS
      <4> QED
        BY <3>1, <4>1, <4>2, Fun_IsBij
    <3>3. ExistsBijection(A, C)
      BY <3>2 DEF ExistsBijection
    <3> HIDE DEF C
    <3> QED
      BY <2>1, <3>3, FS_Bijection
  <2> HIDE DEF A, B, C, e, dropped
  <2>12. Places(cells, o) = B \union C
    BY <2>8, <2>9, <2>10
  <2>13. Cardinality(B \union C) = Cardinality(B) + Cardinality(C) - Cardinality(B \intersect C)
    BY <2>1, <2>11, FS_Union
  <2>14. Cardinality(B \intersect C) = 0 /\ Cardinality(A) \in Nat /\ Cardinality(B) \in Nat
    BY <2>1, <2>9, FS_EmptySet, FS_CardinalityType
  <2> QED
    BY <2>1, <2>11, <2>12, <2>13, <2>14
<1> QED
  <2>1. KeysOf(cells, s) = keys /\ ValuesOf(cells, s) = e /\ Others(cells, k) = dropped
    BY DEF KeysOf, ValuesOf, Others, first, c
  <2>2. c = Cardinality(FirstPairs(cells))
    BY DEF first, c
  <2> HIDE DEF keys, e, dropped
  <2>3. /\ keys \in Seq(Int) /\ e \in Seq(ValueCell)
        /\ Len(keys) = Cardinality(FirstPairs(cells)) /\ Len(e) = Len(keys)
    BY <1>7, <2>2
  <2>4. \A o : References(cells, o) = References(e, o) + References(dropped, o)
    BY <1>10
  <2> QED
    BY <1>8, <1>9, <2>1, <2>3, <2>4, Zenon DEF Split

LEMMA CreateTableKeeps ==
  ASSUME IInv, Few', NEW n \in Tables, CreateTable(n)
  PROVE  IInv'
<1> DEFINE k == 2 * n
           m == Len(stack) - k
           cells == SubSeq(stack, m + 1, Len(stack))
<1>0. MaxLen \in Nat /\ n \in Nat /\ k \in Nat
  BY HeapAssumption
<1>1. Has(k) /\ \A i \in 0..(k - 1) : IsCell(Operand(i))
  BY DEF CreateTable
<1>3. k \in 0..Len(stack) /\ Len(stack) \in Nat /\ stack \in Seq(OperandCell) /\ m \in 0..Len(stack)
  BY <1>0, <1>1, Instruction, Operands
<1>4. Below(k) \in Seq(OperandCell) /\ Len(cells) = k
      /\ \A o : References(stack, o) = References(Below(k), o) + References(cells, o)
              /\ References(Below(k), o) \in Nat
  BY <1>1, <1>3, OperandCellsTop
<1>5. cells \in Seq(ValueCell)
  BY <1>1, <1>3, OperandCellsTop
<1>11. CASE ~AllKeys(cells)
  <2>1. Stop("raised")
    BY <1>11 DEF CreateTable
  <2> QED
    BY <2>1, StopKeeps DEF Stop
<1>12. CASE AllKeys(cells)
  <2> DEFINE first == FirstPairs(cells)
             D == 1..Cardinality(first)
             dropped == [j \in 1..k |-> IF j % 2 = 0 /\ j \div 2 \in first THEN Null ELSE cells[j]]
  <2>1. /\ Cardinality(first) <= MaxLen
        /\ \E p \in Free, s \in {s \in [D -> first] : \A i, j \in D : i < j => s[i] < s[j]} :
             Do(env, Append(Below(k), Ref(p)),
                [heap EXCEPT ![p] = Table([j \in D |-> cells[2 * s[j] - 1].n], [j \in D |-> cells[2 * s[j]]])],
                dropped)
    BY <1>12 DEF CreateTable
  <2>2. PICK p \in Free, s \in [D -> first] :
          /\ \A i, j \in D : i < j => s[i] < s[j]
          /\ env' = env /\ stack' = Append(Below(k), Ref(p))
          /\ heap' = [heap EXCEPT ![p] = Table([j \in D |-> cells[2 * s[j] - 1].n], [j \in D |-> cells[2 * s[j]]])]
          /\ drop' = dropped /\ UNCHANGED status
    BY <2>1 DEF Do
  <2> DEFINE keys == KeysOf(cells, s)
             e == ValuesOf(cells, s)
  <2>4. heap' = [heap EXCEPT ![p] = Table(keys, e)] /\ dropped = Others(cells, k)
    BY <2>2 DEF KeysOf, ValuesOf, Others
  <2> HIDE DEF k, m, cells, dropped
  <2>3. /\ keys \in Seq(Int) /\ e \in Seq(ValueCell) /\ Len(keys) = Cardinality(first) /\ Len(e) = Len(keys)
        /\ \A i, j \in DOMAIN keys : keys[i] = keys[j] => i = j
        /\ dropped \in Seq(ValueCell)
        /\ \A o : References(cells, o) = References(e, o) + References(dropped, o)
    <3>1. k = 2 * n /\ Len(cells) = k /\ cells \in Seq(ValueCell) /\ n \in Nat /\ AllKeys(cells)
      BY <1>0, <1>4, <1>5, <1>12 DEF k
    <3>2. InOrder(cells, k, s)
      BY <2>2, <3>1 DEF InOrder
    <3> HIDE DEF first, D, keys, e
    <3>3. Split(cells, KeysOf(cells, s), ValuesOf(cells, s), Others(cells, k))
      BY <3>2, PairsSplit
    <3>4. Split(cells, keys, e, dropped)
      BY <2>4, <3>3 DEF keys, e
    <3> QED
      BY <3>4 DEF Split, first
  <2> HIDE DEF keys, e, D
  <2> HIDE DEF first
  <2>5. Exchanges(heap', e, <<Ref(p)>>)
    <3>1. NewObject(Table(keys, e)) /\ Table(keys, e).e = e
      <4>1. Table(keys, e) \in [live : BOOLEAN, rc : Int, tab : BOOLEAN, keys : Seq(Int), e : Seq(ValueCell)]
            /\ Table(keys, e).live /\ Table(keys, e).rc = 1
            /\ Table(keys, e).keys = keys /\ Table(keys, e).e = e
        BY <2>3 DEF Table, Object
      <4>2. Keyed(Table(keys, e)) /\ Len(e) <= MaxLen
        BY <2>1, <2>3, <4>1 DEF Keyed
      <4> QED
        BY <4>1, <4>2 DEF NewObject
    <3> DEFINE x == Table(keys, e)
    <3> HIDE DEF x
    <3>2. Exchanges([heap EXCEPT ![p] = x], x.e, <<Ref(p)>>)
      BY <3>1, ObjectExchange DEF x
    <3> QED
      BY <2>4, <3>1, <3>2 DEF x
  <2>6. Ref(p) \in OperandCell
    BY ValueCells DEF Free
  <2>7. env' \in [Var -> ValueCell] /\ stack' \in Seq(OperandCell) /\ drop' \in Seq(OperandCell)
    <3>1. dropped \in Seq(OperandCell)
      BY <2>3, ValueCells, SeqMonotonic
    <3> QED
      BY <1>0, <1>1, <1>4, <2>2, <2>6, <3>1, Instruction, AppendProperties
  <2>8. ASSUME NEW o \in Obj
        PROVE  References(env', o) + References(stack', o) + References(drop', o) + References(e, o)
                 = References(env, o) + References(stack, o) + References(drop, o) + References(<<Ref(p)>>, o)
    <3> DEFINE b == References(Below(k), o)
               x == References(e, o)
               d == References(dropped, o)
               y == One(Ref(p), o)
               v == References(env, o)
    <3>1. References(stack', o) = b + y /\ References(stack, o) = b + (x + d) /\ References(<<Ref(p)>>, o) = y
      <4>1. References(Append(Below(k), Ref(p)), o) = References(Below(k), o) + One(Ref(p), o)
        BY <1>4, <2>6, ReferencesAppend
      <4>2. References(<<Ref(p)>>, o) = y
        BY ReferencesShort
      <4>3. References(stack, o) = References(Below(k), o) + References(cells, o)
        BY <1>4
      <4>4. References(cells, o) = References(e, o) + References(dropped, o)
        BY <2>3
      <4> QED
        BY <2>2, <4>1, <4>2, <4>3, <4>4
    <3>2. b \in Nat /\ x \in Nat /\ d \in Nat /\ y \in Nat /\ v \in Nat /\ References(drop, o) = 0
          /\ References(drop', o) = d /\ References(env', o) = v
      BY <1>0, <1>1, <1>4, <2>2, <2>3, Instruction, SeqCounted, OneNat
    <3> HIDE DEF b, x, d, y, v
    <3>3. v + (b + y) + d + x = v + (b + (x + d)) + 0 + y
      BY <3>2
    <3> QED
      BY <3>1, <3>2, <3>3 DEF x, v
  <2>9. UNCHANGED status
    BY <2>2
  <2> QED
    BY <2>5, <2>7, <2>8, <2>9, ExchangeKeeps
<1> QED
  BY <1>11, <1>12

LEMMA GetKeeps ==
  ASSUME IInv, Few', Get
  PROVE  IInv'
<1> DEFINE c == Operand(1)
           i == Operand(0)
           at == Index(c, i)
           x == Elems(c)[at]
<1>1. Has(2) /\ IsCell(c) /\ IsCell(i)
  BY DEF Get
<1>2. CASE at = 0 \/ RcOf(c) = 1
  <2>1. Stop("raised") \/ Stop("dangling")
    BY <1>2 DEF Get
  <2> QED
    BY <2>1, StopKeeps DEF Stop
<1>3. CASE at # 0 /\ RcOf(c) # 1
  <2>1. /\ env' = env /\ stack' = Append(Below(2), x) /\ heap' = Copying(<<x>>, heap)
        /\ drop' = <<c>> /\ UNCHANGED status
    BY <1>3 DEF Get, Do
  <2>2. /\ c \in OperandCell /\ Below(2) \in Seq(OperandCell)
        /\ \A o : References(stack, o) = References(Below(2), o) + One(c, o) + One(i, o)
                /\ References(Below(2), o) \in Nat
    BY <1>1, Operands2 DEF Has
  <2>3. c.k = "ref" /\ i.k = "num" /\ at \in DOMAIN Elems(c) /\ Elems(c) = heap[c.o].e
    BY <1>3, IndexIs
  <2>4. /\ c \in ValueCell /\ c.o \in Obj /\ \A o : One(i, o) = 0
    BY <1>1, <2>2, <2>3, OperandCells, ValueCells DEF One, RefersTo, Counts
  <2>5. x \in ValueCell /\ Alive(x) /\ x \in OperandCell
    <3>1. Existing(Elems(c))
      BY <2>3, <2>4, AllAlive
    <3>2. x \in ValueCell /\ Alive(x)
      BY <2>3, <3>1, SeqFinite, ElementOfSeq DEF Existing
    <3> QED
      BY <3>2, ValueCells
  <2> HIDE DEF c, i, at, x
  <2>6. Exchanges(heap', <<>>, <<x>>)
    BY <2>1, <2>5, CopyExchange
  <2>7. env' \in [Var -> ValueCell] /\ stack' \in Seq(OperandCell) /\ drop' \in Seq(OperandCell)
    BY <1>1, <2>1, <2>2, <2>5, Instruction, AppendProperties
  <2>8. ASSUME NEW o \in Obj
        PROVE  References(env', o) + References(stack', o) + References(drop', o) + References(<<>>, o)
                 = References(env, o) + References(stack, o) + References(drop, o) + References(<<x>>, o)
    <3> DEFINE s == References(Below(2), o)
               y == One(x, o)
               z == One(c, o)
               v == References(env, o)
    <3>1. /\ References(stack', o) = s + y /\ References(stack, o) = s + z + 0
          /\ References(<<x>>, o) = y /\ References(drop', o) = z
      <4>1. References(Append(Below(2), x), o) = References(Below(2), o) + One(x, o)
        BY <2>2, <2>5, ReferencesAppend
      <4>2. References(<<x>>, o) = y /\ References(<<c>>, o) = z
        BY ReferencesShort
      <4> QED
        BY <2>1, <2>2, <2>4, <4>1, <4>2
    <3>2. s \in Nat /\ y \in Nat /\ z \in Nat /\ v \in Nat /\ References(drop, o) = 0
          /\ References(<<>>, o) = 0 /\ References(env', o) = v
      BY <1>1, <2>1, <2>2, Instruction, OneNat
    <3> HIDE DEF s, y, z, v
    <3>3. v + (s + y) + z + 0 = v + (s + z + 0) + 0 + y
      BY <3>2
    <3> QED
      BY <3>1, <3>2, <3>3 DEF v
  <2> QED
    BY <2>1, <2>6, <2>7, <2>8, ExchangeKeeps
<1> QED
  BY <1>2, <1>3

LEMMA SlicedExisting ==
  ASSUME NEW e, Existing(e), Len(e) <= MaxLen, NEW f \in ValueCell, f.k # "ref",
         NEW t \in ValueCell, t.k # "ref"
  PROVE  Existing(Sliced(e, f, t)) /\ Len(Sliced(e, f, t)) <= MaxLen
<1>1. e \in Seq(ValueCell) /\ Len(e) \in Nat /\ DOMAIN e = 1..Len(e) /\ MaxLen \in Nat
  BY SeqFinite, HeapAssumption DEF Existing
<1>2. ASSUME NEW c \in ValueCell, c.k # "ref", NEW d \in 0..Len(e)
      PROVE  SliceEnd(c, Len(e), d) \in 0..Len(e)
  <2>1. c.k = "null" \/ c.n \in Int
    BY <1>2, ValueCells
  <2> QED
    BY <1>1, <1>2, <2>1 DEF SliceEnd
<1> DEFINE a == SliceEnd(f, Len(e), 0)
           b == SliceEnd(t, Len(e), Len(e))
           g == SubSeq(e, a + 1, b)
<1>3. 0 \in 0..Len(e) /\ Len(e) \in 0..Len(e)
  BY <1>1
<1>4. a \in 0..Len(e) /\ b \in 0..Len(e)
  BY <1>2, <1>3
<1> HIDE DEF a, b
<1>5. \A i \in (a + 1)..b : e[i] \in {c \in ValueCell : Alive(c)}
  <2> TAKE i \in (a + 1)..b
  <2>1. i \in 1..Len(e)
    BY <1>1, <1>4
  <2> QED
    BY <1>1, <2>1, ElementOfSeq DEF Existing
<1>6. /\ g \in Seq({c \in ValueCell : Alive(c)})
      /\ Len(g) = IF a + 1 <= b THEN b - (a + 1) + 1 ELSE 0
  <2>1. a + 1 \in Int /\ b \in Int
    BY <1>4
  <2> QED
    BY <1>5, <2>1, SubSeqProperties
<1> HIDE DEF g
<1>7. Existing(g)
  <2>1. g \in Seq(ValueCell)
    BY <1>6, SeqMonotonic
  <2>2. \A j \in DOMAIN g : Alive(g[j])
    BY <1>6, SeqFinite, ElementOfSeq
  <2> QED
    BY <2>1, <2>2 DEF Existing
<1>8. Len(g) <= MaxLen
  BY <1>1, <1>4, <1>6
<1> QED
  BY <1>7, <1>8 DEF g, a, b, Sliced

LEMMA SliceKeeps ==
  ASSUME IInv, Few', Slice
  PROVE  IInv'
<1> DEFINE c == Operand(2)
           f == Operand(1)
           t == Operand(0)
           e == Sliced(Elems(c), f, t)
<1>1. Has(3) /\ IsCell(c) /\ IsCell(f) /\ IsCell(t)
  BY DEF Slice
<1>2. CASE ~IsArray(c) \/ f.k = "ref" \/ t.k = "ref"
  <2>1. Stop("raised")
    BY <1>2 DEF Slice
  <2> QED
    BY <2>1, StopKeeps DEF Stop
<1>3. CASE IsArray(c) /\ c.k = "ref" /\ f.k # "ref" /\ t.k # "ref"
  <2>1. PICK n \in Free :
          /\ env' = env /\ stack' = Append(Below(3), Ref(n)) /\ heap' = NewCopy(n, Array(e))
          /\ drop' = <<c>> /\ UNCHANGED status
    BY <1>3 DEF Slice, Do
  <2>2. /\ c \in OperandCell /\ f \in OperandCell /\ t \in OperandCell /\ Below(3) \in Seq(OperandCell)
        /\ \A o : References(stack, o) = References(Below(3), o) + One(c, o) + One(f, o) + One(t, o)
                /\ References(Below(3), o) \in Nat
    <3>1. Len(stack) \in Nat /\ Len(stack) >= 3 /\ Len(stack) >= 2
      BY <1>1, Operands DEF Has
    <3> QED
      BY <3>1, Operands2, Operands3
  <2>3. /\ c \in ValueCell /\ f \in ValueCell /\ t \in ValueCell
        /\ \A o : One(f, o) = 0 /\ One(t, o) = 0
    BY <1>1, <1>3, <2>2, OperandCells, ValueCells DEF One, RefersTo
  <2>4. Existing(e) /\ Len(e) <= MaxLen
    <3>1. Existing(Elems(c)) /\ Len(Elems(c)) <= MaxLen
      BY <1>3, <2>3, AllAlive, ValueCells DEF Elems, IInv, HeapOK, Shaped
    <3> QED
      BY <1>3, <2>3, <3>1, SlicedExisting
  <2> HIDE DEF c, f, t, e
  <2>5. Exchanges(heap', <<>>, <<Ref(n)>>)
    <3>1. NewObject(Array(e)) /\ Existing(Array(e).e)
      <4>1. NewObject(Array(e)) /\ Array(e).e = e
        BY <2>4, NewArray DEF Existing
      <4> QED
        BY <2>4, <4>1
    <3> QED
      BY <2>1, <3>1, NewCopyExchange
  <2>6. Ref(n) \in OperandCell
    BY ValueCells DEF Free
  <2>7. env' \in [Var -> ValueCell] /\ stack' \in Seq(OperandCell) /\ drop' \in Seq(OperandCell)
    BY <1>1, <2>1, <2>2, <2>6, Instruction, AppendProperties
  <2>8. ASSUME NEW o \in Obj
        PROVE  References(env', o) + References(stack', o) + References(drop', o) + References(<<>>, o)
                 = References(env, o) + References(stack, o) + References(drop, o) + References(<<Ref(n)>>, o)
    <3> DEFINE s == References(Below(3), o)
               y == One(Ref(n), o)
               z == One(c, o)
               v == References(env, o)
    <3>1. /\ References(stack', o) = s + y /\ References(stack, o) = s + z + 0 + 0
          /\ References(<<Ref(n)>>, o) = y /\ References(drop', o) = z
      BY <2>1, <2>2, <2>3, <2>6, ReferencesAppend, ReferencesShort
    <3>2. s \in Nat /\ y \in Nat /\ z \in Nat /\ v \in Nat /\ References(drop, o) = 0
          /\ References(<<>>, o) = 0 /\ References(env', o) = v
      BY <1>1, <2>1, <2>2, Instruction, OneNat
    <3> HIDE DEF s, y, z, v
    <3>3. v + (s + y) + z + 0 = v + (s + z + 0 + 0) + 0 + y
      BY <3>2
    <3> QED
      BY <3>1, <3>2, <3>3 DEF v
  <2> QED
    BY <2>1, <2>5, <2>7, <2>8, ExchangeKeeps
<1> QED
  BY <1>2, <1>3 DEF IsArray

LEMMA BeginIterKeeps ==
  ASSUME IInv, Few', BeginIter
  PROVE  IInv'
<1> DEFINE c == Operand(0)
<1>1. Has(1) /\ c.k = "ref"
  BY DEF BeginIter
<1>10. PICK order \in Orders(c) :
         /\ env' = env /\ stack' = Append(Below(1), IterOf(c.o, order, 1)) /\ heap' = heap
         /\ drop' = <<>> /\ UNCHANGED status
  BY DEF BeginIter, Do
<1> DEFINE it == IterOf(c.o, order, 1)
<1>2. /\ env' = env /\ stack' = Append(Below(1), it) /\ heap' = heap
      /\ drop' = <<>> /\ UNCHANGED status
  BY <1>10
<1>3. c \in OperandCell /\ Below(1) \in Seq(OperandCell)
      /\ \A o : References(stack, o) = References(Below(1), o) + One(c, o)
              /\ References(Below(1), o) \in Nat
  BY <1>1, Operands1 DEF Has
<1>4. c \in ValueCell /\ c.o \in Obj
  BY <1>1, <1>3, OperandCells, ValueCells
<1>5. order \in Seq(Nat) /\ Len(order) \in Nat /\ \A j \in DOMAIN order : order[j] \in 1..Len(order)
  <2>1. Elems(c) \in Seq(ValueCell)
    BY <1>1, <1>4, AllAlive DEF Elems, Existing
  <2>2. DOMAIN Elems(c) = 1..Len(Elems(c)) /\ Len(Elems(c)) \in Nat
    BY <2>1, SeqFinite
  <2>3. order \in [1..Len(Elems(c)) -> 1..Len(Elems(c))]
    BY <2>2 DEF Orders
  <2>4. Len(order) = Len(Elems(c))
    BY <2>2, <2>3
  <2> QED
    BY <2>2, <2>3, <2>4
<1>6. it \in OperandCell /\ \A o : One(it, o) = One(c, o)
  <2>1. it \in [k : {"iter"}, o : Obj, order : Seq(Nat), at : Nat] /\ it.k = "iter" /\ it.o = c.o
        /\ it.at = 1 /\ it.order = order
    BY <1>4, <1>5 DEF IterOf
  <2>2. it \in IterCell
    BY <1>5, <2>1 DEF IterCell
  <2> QED
    BY <1>1, <2>1, <2>2 DEF OperandCell, One, RefersTo, Counts
<1> HIDE DEF c, it
<1>7. env' \in [Var -> ValueCell] /\ stack' \in Seq(OperandCell) /\ drop' \in Seq(OperandCell)
  BY <1>1, <1>2, <1>3, <1>6, Instruction, AppendProperties
<1>8. ASSUME NEW o \in Obj
      PROVE  References(env', o) + References(stack', o) + References(drop', o) + References(<<>>, o)
               = References(env, o) + References(stack, o) + References(drop, o) + References(<<>>, o)
  <2>1. References(Append(Below(1), it), o) = References(Below(1), o) + One(it, o)
    BY <1>3, <1>6, ReferencesAppend
  <2>2. References(stack', o) = References(stack, o)
    BY <1>2, <1>3, <1>6, <2>1
  <2> QED
    BY <1>1, <1>2, <2>2, Instruction
<1>9. Exchanges(heap', <<>>, <<>>)
  BY <1>2, EmptyExchange
<1> QED
  BY <1>2, <1>7, <1>8, <1>9, ExchangeKeeps

LEMMA NextOrJmpKeeps ==
  ASSUME IInv, Few', NEW key \in Var \union {Unnamed}, NEW v \in Var, key # v, NextOrJmp(key, v)
  PROVE  IInv'
<1> DEFINE it == Operand(0)
           e == heap[it.o].e
           at == it.order[it.at]
           x == e[at]
           num == Number(KeyAt(it.o, at))
           next == IterOf(it.o, it.order, it.at + 1)
           keys == IF key \in Var THEN <<env[key]>> ELSE <<>>
           new == [w \in Var |-> IF w = v THEN x ELSE IF w = key THEN num ELSE env[w]]
<1>1. Has(1) /\ it.k = "iter"
  BY DEF NextOrJmp
<1>2. it \in OperandCell /\ Below(1) \in Seq(OperandCell)
      /\ \A o : References(stack, o) = References(Below(1), o) + One(it, o)
              /\ References(Below(1), o) \in Nat
  BY <1>1, Operands1 DEF Has
<1>3. /\ it.o \in Obj /\ it.at \in Nat /\ it.order \in Seq(Nat) /\ it.at \in 1..(Len(it.order) + 1)
      /\ \A i \in DOMAIN it.order : it.order[i] \in 1..Len(it.order)
  <2>1. it \in IterCell
    BY <1>1, <1>2, OperandCells
  <2> QED
    BY <2>1 DEF IterCell
<1>4. CASE Len(e) # Len(it.order)
  <2>1. Stop("dangling")
    BY <1>4 DEF NextOrJmp
  <2> QED
    BY <2>1, StopKeeps DEF Stop
<1>5. CASE Len(e) = Len(it.order) /\ it.at > Len(it.order)
  <2>1. /\ env' = env /\ stack' = Below(1) /\ heap' = heap
        /\ drop' = <<it>> /\ UNCHANGED status
    BY <1>5 DEF NextOrJmp, Do
  <2> HIDE DEF it
  <2>2. ASSUME NEW o
        PROVE  References(env', o) + References(stack', o) + References(drop', o) + References(<<>>, o)
                 = References(env, o) + References(stack, o) + References(drop, o) + References(<<>>, o)
    <3>1. References(drop', o) = One(it, o) /\ One(it, o) \in Nat
      BY <2>1, ReferencesShort, OneNat
    <3> QED
      BY <1>1, <1>2, <2>1, <3>1, Instruction
  <2>3. Exchanges(heap', <<>>, <<>>)
    BY <2>1, EmptyExchange
  <2>4. env' \in [Var -> ValueCell] /\ stack' \in Seq(OperandCell) /\ drop' \in Seq(OperandCell)
    BY <1>1, <1>2, <2>1, Instruction
  <2> QED
    BY <2>1, <2>2, <2>3, <2>4, ExchangeKeeps
<1>6. CASE Len(e) = Len(it.order) /\ ~(it.at > Len(it.order))
  <2>1. /\ env' = new /\ stack' = Append(Below(1), next) /\ heap' = Copying(<<x>>, heap)
        /\ drop' = keys \o <<env[v]>> /\ UNCHANGED status
    BY <1>6 DEF NextOrJmp, Do
  <2>2. x \in ValueCell /\ Alive(x) /\ num \in ValueCell
    <3>1. Existing(e)
      BY <1>3, AllAlive
    <3>2. at \in 1..Len(e) /\ at \in Nat
      <4>1. DOMAIN it.order = 1..Len(it.order) /\ Len(it.order) \in Nat
        BY <1>3, SeqFinite
      <4>2. it.at \in DOMAIN it.order
        BY <1>3, <1>6, <4>1
      <4> QED
        BY <1>3, <1>6, <4>1, <4>2
    <3>3. num \in ValueCell
      <4>1. CASE heap[it.o].tab
        <5>1. Len(heap[it.o].keys) = Len(e) /\ heap[it.o].keys \in Seq(Int)
          BY <1>3, <4>1 DEF IInv, HeapOK, Keyed
        <5>2. heap[it.o].keys[at] \in Int
          BY <3>2, <5>1, ElementOfSeq
        <5> QED
          BY <4>1, <5>2, ValueCells DEF KeyAt
      <4>2. CASE ~heap[it.o].tab
        BY <3>2, <4>2, ValueCells DEF KeyAt
      <4> QED
        BY <4>1, <4>2
    <3> HIDE DEF e, num, at
    <3> QED
      BY <3>1, <3>2, <3>3, SeqFinite, ElementOfSeq DEF Existing
  <2>3. next \in OperandCell /\ \A o : One(next, o) = One(it, o)
    <3>1. /\ next \in [k : {"iter"}, o : Obj, order : Seq(Nat), at : Nat] /\ next.k = "iter" /\ next.o = it.o
          /\ next.at = it.at + 1 /\ next.order = it.order
      BY <1>3 DEF IterOf
    <3>2. next.at \in 1..(Len(next.order) + 1)
      BY <1>3, <1>6, <3>1, LenProperties
    <3>3. next \in IterCell
      BY <1>3, <3>1, <3>2 DEF IterCell
    <3> QED
      BY <1>1, <3>1, <3>3 DEF OperandCell, One, RefersTo, Counts
  <2>4. \A o : One(num, o) = 0
    BY DEF One, RefersTo, Counts, Number
  <2>5. env \in [Var -> ValueCell] /\ IsFiniteSet(Var) /\ Unnamed \notin Var
    BY HeapAssumption DEF IInv
  <2> HIDE DEF it, e, at, x, num, next
  <2>6. /\ new \in [Var -> ValueCell] /\ keys \o <<env[v]>> \in Seq(OperandCell)
        /\ \A o : References(new, o) + References(keys \o <<env[v]>>, o) = References(env, o) + One(x, o)
    <3> DEFINE one == [env EXCEPT ![v] = x]
    <3>1. one \in [Var -> ValueCell] /\ DOMAIN one = Var /\ DOMAIN env = Var
      BY <2>2, <2>5
    <3>2. ASSUME NEW o PROVE References(one, o) + One(env[v], o) = References(env, o) + One(x, o)
      <4>1. IsFiniteSet(DOMAIN env) /\ v \in DOMAIN env
        BY <2>5, <3>1
      <4> QED
        BY <4>1, ReferencesExcept
    <3>3. env[v] \in OperandCell /\ env[v] \in ValueCell
      BY AllAlive, ValueCells
    <3>4. CASE key \notin Var
      <4>1. new = one
        BY <2>5, <3>4
      <4>2. keys \o <<env[v]>> = <<env[v]>>
        <5>1. <<env[v]>> \in Seq(OperandCell) /\ keys = <<>>
          BY <3>3, <3>4
        <5> HIDE DEF keys
        <5> QED
          BY <5>1, ConcatEmptySeq
      <4>3. \A o : References(<<env[v]>>, o) = One(env[v], o)
        BY ReferencesShort
      <4>4. <<env[v]>> \in Seq(OperandCell)
        BY <3>3
      <4>5. \A o : References(one, o) + References(<<env[v]>>, o) = References(env, o) + One(x, o)
        <5> HIDE DEF one
        <5> QED
          BY <3>2, <4>3
      <4> HIDE DEF new, one, keys
      <4> QED
        BY <3>1, <4>1, <4>2, <4>4, <4>5
    <3>5. CASE key \in Var
      <4> DEFINE two == [one EXCEPT ![key] = num]
      <4>1. new = two
        BY <2>5, <3>5
      <4>2. keys = <<env[key]>> /\ env[key] \in OperandCell /\ one[key] = env[key]
        BY <2>5, <3>5, AllAlive, ValueCells
      <4>3. two \in [Var -> ValueCell]
        BY <2>2, <3>1
      <4>4. ASSUME NEW o PROVE References(two, o) + One(one[key], o) = References(one, o) + One(num, o)
        <5>1. IsFiniteSet(DOMAIN one) /\ key \in DOMAIN one
          BY <2>5, <3>1, <3>5
        <5> HIDE DEF one
        <5> QED
          BY <5>1, ReferencesExcept
      <4>5. <<env[v]>> \in Seq(OperandCell)
        BY <3>3
      <4>6. \A o : References(<<env[key]>> \o <<env[v]>>, o) = One(env[key], o) + One(env[v], o)
        <5> TAKE o
        <5>1. References(<<env[key]>> \o <<env[v]>>, o) = One(env[key], o) + References(<<env[v]>>, o)
          BY <4>2, <4>5, ReferencesCons
        <5>2. References(<<env[v]>>, o) = One(env[v], o)
          BY ReferencesShort
        <5> QED
          BY <5>1, <5>2
      <4>7. keys \o <<env[v]>> \in Seq(OperandCell)
        <5>1. keys \in Seq(OperandCell)
          BY <4>2
        <5> HIDE DEF keys
        <5> QED
          BY <4>5, <5>1, ConcatProperties
      <4>8. DOMAIN two = Var
        BY <4>3
      <4> HIDE DEF new, one, two, keys
      <4>9. ASSUME NEW o
            PROVE  References(two, o) + References(keys \o <<env[v]>>, o) = References(env, o) + One(x, o)
        <5> DEFINE a == References(two, o)
                   b == References(one, o)
                   c == References(env, o)
                   p == One(env[key], o)
                   q == One(env[v], o)
                   r == One(x, o)
        <5>1. a + p = b + 0 /\ b + q = c + r /\ References(keys \o <<env[v]>>, o) = p + q
          BY <2>4, <3>2, <4>2, <4>4, <4>6
        <5>2. a \in Nat /\ b \in Nat /\ c \in Nat /\ p \in Nat /\ q \in Nat /\ r \in Nat
          BY <2>5, <3>1, <4>8, PlacesFinite, OneNat
        <5> HIDE DEF a, b, c, p, q, r
        <5>3. a + (p + q) = c + r
          BY <5>1, <5>2
        <5> QED
          BY <5>1, <5>3 DEF a, c, r
      <4> QED
        BY <4>1, <4>3, <4>7, <4>9
    <3> QED
      BY <3>4, <3>5
  <2> HIDE DEF new, keys
  <2>7. Exchanges(heap', <<>>, <<x>>)
    BY <2>1, <2>2, CopyExchange
  <2>8. env' \in [Var -> ValueCell] /\ stack' \in Seq(OperandCell) /\ drop' \in Seq(OperandCell)
    BY <1>2, <2>1, <2>3, <2>6, AppendProperties
  <2>9. ASSUME NEW o \in Obj
        PROVE  References(env', o) + References(stack', o) + References(drop', o) + References(<<>>, o)
                 = References(env, o) + References(stack, o) + References(drop, o) + References(<<x>>, o)
    <3> DEFINE s == References(Below(1), o)
               y == One(x, o)
               z == One(it, o)
               a == References(new, o)
               d == References(keys \o <<env[v]>>, o)
               c == References(env, o)
    <3>1. References(stack', o) = s + z /\ References(stack, o) = s + z /\ References(<<x>>, o) = y
      <4>1. References(Append(Below(1), next), o) = References(Below(1), o) + One(next, o)
        BY <1>2, <2>3, ReferencesAppend
      <4>2. References(<<x>>, o) = y
        BY ReferencesShort
      <4> QED
        BY <1>2, <2>1, <2>3, <4>1, <4>2
    <3>2. s \in Nat /\ y \in Nat /\ z \in Nat /\ a \in Nat /\ d \in Nat /\ c \in Nat
      <4>1. IsFiniteSet(DOMAIN new)
        BY <2>5, <2>6
      <4> QED
        BY <1>1, <1>2, <2>6, <4>1, PlacesFinite, SeqCounted, OneNat, Instruction
    <3>3. a + d = c + y /\ References(drop, o) = 0 /\ References(<<>>, o) = 0
          /\ References(env', o) = a /\ References(drop', o) = d
      BY <1>1, <2>1, <2>6, Instruction
    <3> HIDE DEF s, y, z, a, d, c
    <3>4. a + (s + z) + d + 0 = c + (s + z) + 0 + y
      BY <3>2, <3>3
    <3> QED
      BY <3>1, <3>3, <3>4 DEF c
  <2>10. UNCHANGED status
    BY <2>1
  <2> QED
    BY <2>7, <2>8, <2>9, <2>10, ExchangeKeeps
<1> QED
  BY <1>4, <1>5, <1>6

LEMMA NextKeeps == IInv /\ Few' /\ [Next]_vars => IInv'
<1> SUFFICES ASSUME IInv, Few', [Next]_vars PROVE IInv'
  OBVIOUS
<1>1. CASE Release
  BY <1>1, ReleaseKeeps
<1>2. ASSUME NEW c \in Literal, Push(c) PROVE IInv'
  BY <1>2, PushKeeps
<1>3. ASSUME NEW v \in Var, PushVar(v) PROVE IInv'
  BY <1>3, PushVarKeeps
<1>4. ASSUME NEW v \in Var, WriteVar(v) PROVE IInv'
  BY <1>4, WriteVarKeeps
<1>5. ASSUME NEW v \in Var, Borrow(v) PROVE IInv'
  BY <1>5, BorrowKeeps
<1>6. ASSUME NEW key \in Var \union {Unnamed}, NEW v \in Var, key # v, NextOrJmp(key, v) PROVE IInv'
  BY <1>6, NextOrJmpKeeps
<1>7. CASE Pop
  BY <1>7, PopKeeps
<1>8. CASE BorrowElement
  BY <1>8, BorrowElementKeeps
<1>9. CASE WriteBorrowed
  BY <1>9, WriteBorrowedKeeps
<1>10. CASE AppendBorrowed
  BY <1>10, AppendBorrowedKeeps
<1>11. CASE Move
  BY <1>11, MoveKeeps
<1>12. ASSUME NEW n \in 0..MaxLen, CreateArray(n) PROVE IInv'
  BY <1>12, CreateArrayKeeps
<1>13. CASE Get
  BY <1>13, GetKeeps
<1>14. CASE Slice
  BY <1>14, SliceKeeps
<1>15. CASE AppendOp
  BY <1>15, AppendOpKeeps
<1>16. CASE BeginIter
  BY <1>16, BeginIterKeeps
<1>17. CASE BorrowInserted
  BY <1>17, BorrowInsertedKeeps
<1>18. ASSUME NEW n \in Tables, CreateTable(n) PROVE IInv'
  BY <1>18, CreateTableKeeps
<1>19. CASE UNCHANGED vars
  <2>1. UNCHANGED <<env, stack, heap, drop, status>>
    BY <1>19 DEF vars
  <2>2. status' \in {"ok", "raised", "dangling"}
    BY <2>1 DEF IInv
  <2> QED
    BY <2>1, <2>2, StopKeeps
<1> QED
  BY <1>1, <1>2, <1>3, <1>4, <1>5, <1>6, <1>7, <1>8, <1>9, <1>10, <1>11, <1>12, <1>13, <1>14,
     <1>15, <1>16, <1>17, <1>18, <1>19 DEF Next

LEMMA InitIInv == Init => IInv
<1> SUFFICES ASSUME Init PROVE IInv
  OBVIOUS
<1>1. /\ env = [v \in Var |-> Null] /\ stack = <<>> /\ drop = <<>> /\ heap = [o \in Obj |-> Dead]
      /\ status = "ok"
  BY DEF Init
<1>2. Dead.e = <<>> /\ Dead.rc = 0 /\ Dead.live = FALSE /\ Keyed(Dead)
      /\ Dead \in [live : BOOLEAN, rc : 0..(RcMod - 1), tab : BOOLEAN, keys : Seq(Int), e : Seq(ValueCell)]
  BY HeapAssumption DEF Dead, Object, Keyed
<1>3. HeapOK(heap)
  <2>1. Len(<<>>) = 0 /\ 0 <= MaxLen /\ <<>> \in Seq(ValueCell)
    BY HeapAssumption
  <2> QED
    BY <1>1, <1>2, <2>1 DEF HeapOK, Shaped
<1>4. ASSUME NEW o \in Obj PROVE AllReferences(o) = 0
  <2>1. References(env, o) = 0
    <3>1. \A v \in DOMAIN env : ~RefersTo(env[v], o)
      BY <1>1 DEF RefersTo, Counts, Null
    <3> QED
      BY <3>1, ReferencesNone
  <2>2. References(stack, o) = 0 /\ References(drop, o) = 0
    BY <1>1, ReferencesShort
  <2>3. ElementReferences(heap, o) = 0
    <3>1. \A q \in Obj \X (1..MaxLen) : DOMAIN heap[q[1]].e = {}
      BY <1>1, <1>2
    <3>2. ElementPlaces(heap, o) = {}
      BY <3>1 DEF ElementPlaces
    <3> QED
      BY <3>2, ElementPlacesFinite, FS_EmptySet
  <2> QED
    BY <2>1, <2>2, <2>3 DEF AllReferences
<1>5. env \in [Var -> ValueCell] /\ stack \in Seq(OperandCell) /\ drop \in Seq(OperandCell)
  BY <1>1, ValueCells
<1>6. \A o \in Obj : heap[o].rc = AllReferences(o) /\ (heap[o].live <=> heap[o].rc > 0)
  BY <1>1, <1>2, <1>4
<1> QED
  BY <1>1, <1>3, <1>5, <1>6 DEF IInv

LEMMA IInvCountsExact == IInv => CountsExact
<1> SUFFICES ASSUME IInv, NEW o \in Obj PROVE heap[o].rc = AllReferences(o) % RcMod
  BY DEF CountsExact
<1>1. heap[o].rc = AllReferences(o) /\ heap[o].rc \in 0..(RcMod - 1) /\ RcMod \in Nat \ {0}
  BY HeapAssumption DEF IInv, HeapOK
<1>2. \A x \in 0..(RcMod - 1) : x % RcMod = x
  <2> TAKE x \in 0..(RcMod - 1)
  <2>1. x + 0 < RcMod /\ x + 0 = x
    BY <1>1
  <2>2. (x + 0) % RcMod = x + 0
    BY <1>1, <2>1, Unwrapped
  <2> QED
    BY <2>1, <2>2
<1> QED
  BY <1>1, <1>2

-----------------------------------------------------------------------------
(* The theorems.                                                           *)

LEMMA Inductive == Spec /\ []Few => []IInv
BY InitIInv, NextKeeps, PTL DEF Spec

(* As long as no array has as many references as its count has values, 2^16 *)
(* in the code, every variable, operand, array and count is what the code   *)
(* takes it for: value.cpp's switches on a type meet no other.              *)
THEOREM CellsTyped == Spec /\ []Few => []TypeOK
BY Inductive, IInvTypeOK, PTL

(* No table ever holds a key twice, or a key without its value, whatever    *)
(* keys a table is written with and however it is shared, cloned and grown. *)
THEOREM KeysStayUnique == Spec /\ []Few => []KeysUnique
BY Inductive, IInvKeysUnique, PTL

(* Every count is the number of references there are: the pairing of    *)
(* incRefCount and decRefCount over copy_, clear_, clone, append, steal and *)
(* the iterators loses none and counts none twice.                          *)
THEOREM CountsAreExact == Spec /\ []Few => []CountsExact
BY Inductive, IInvCountsExact, PTL

(* No variable, operand or element, and no value still to be released, is   *)
(* a reference to an array that was freed: however it is shared, cloned and *)
(* released, an array lives as long as the last reference to it.            *)
ReferencesAlive ==
  /\ \A v \in Var : Alive(env[v])
  /\ \A j \in DOMAIN stack : Alive(stack[j])
  /\ \A j \in DOMAIN drop : Alive(drop[j])
  /\ \A o \in Obj : \A j \in DOMAIN heap[o].e : Alive(heap[o].e[j])

THEOREM NoReferenceDangles == Spec /\ []Few => []ReferencesAlive
<1>1. IInv => ReferencesAlive
  BY AllAlive DEF ReferencesAlive, Existing
<1> QED
  BY <1>1, Inductive, PTL
=============================================================================
