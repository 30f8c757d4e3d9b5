--------------------------- MODULE HeapSemantics ----------------------------
(***************************************************************************)
(* Proofs about ValueHeap for careful scripts: it implements ValueSem.     *)
(*                                                                         *)
(* What is left are the instructions on places. The objects on the way     *)
(* from a variable to a borrowed place are referred to once each, by the   *)
(* one before, so that writing where the pointer leads changes the tree of *)
(* that variable, at that place, and no other tree.                        *)
(***************************************************************************)
EXTENDS HeapValues

-----------------------------------------------------------------------------
(* Places in trees: where a path leads, and what replacing it makes.       *)

Along(a, t, p) ==
  /\ a[0] = t
  /\ \A j \in 1..Len(p) : a[j] = Child(a[j - 1], p[j])

LEMMA AtIs ==
  ASSUME NEW S, NEW p \in Seq(S), NEW t, NEW a, Along(a, t, p)
  PROVE  At(t, p) = a[Len(p)]
<1>1. PICK l \in Nat : l = Len(p)
  BY LenProperties
<1> DEFINE A(f) == f = [i \in 0..Len(p) |-> IF i = 0 THEN t ELSE Child(f[i - 1], p[i])]
           w == CHOOSE f : A(f)
<1>2. At(t, p) = w[l]
  BY <1>1 DEF At
<1> DEFINE b == [i \in 0..l |-> a[i]]
<1>3. A(b)
  <2>1. ASSUME NEW i \in 0..l PROVE a[i] = IF i = 0 THEN t ELSE Child(b[i - 1], p[i])
    <3>1. CASE i = 0
      BY <3>1 DEF Along
    <3>2. CASE i # 0
      <4>1. i \in 1..l /\ i - 1 \in 0..l
        BY <3>2
      <4> QED
        BY <1>1, <3>2, <4>1 DEF Along
    <3> QED
      BY <3>1, <3>2
  <2> HIDE DEF b
  <2>2. b = [i \in 0..l |-> IF i = 0 THEN t ELSE Child(b[i - 1], p[i])]
    BY <2>1 DEF b
  <2> QED
    BY <1>1, <2>2
<1> HIDE DEF b
<1>4. A(w)
  <2> HIDE DEF A
  <2> QED
    BY <1>3
<1> HIDE DEF w
<1> DEFINE T == {i \in Nat : i <= l => w[i] = a[i]}
<1>5. 0 \in T
  <2>1. 0 \in 0..l
    OBVIOUS
  <2> QED
    BY <1>1, <1>4, <2>1 DEF Along
<1>6. ASSUME NEW i \in T PROVE i + 1 \in T
  <2> SUFFICES ASSUME i + 1 <= l PROVE w[i + 1] = a[i + 1]
    OBVIOUS
  <2>1. i + 1 \in 1..l /\ i + 1 \in 0..l /\ i + 1 # 0 /\ (i + 1) - 1 = i /\ i <= l
    OBVIOUS
  <2>2. w[i] = a[i]
    BY <2>1
  <2>3. w[i + 1] = Child(w[i], p[i + 1])
    <3>1. PICK j : j = i + 1
      OBVIOUS
    <3>2. w[j] = Child(w[j - 1], p[j])
      BY <1>1, <1>4, <2>1, <3>1
    <3> QED
      BY <2>1, <3>1, <3>2
  <2>4. a[i + 1] = Child(a[i], p[i + 1])
    BY <1>1, <2>1 DEF Along
  <2> QED
    BY <2>2, <2>3, <2>4
<1>7. T \in SUBSET Nat
  OBVIOUS
<1> HIDE DEF T
<1>8. T = Nat
  BY <1>5, <1>6, <1>7, AllNaturals
<1>9. w[l] = a[l]
  BY <1>8 DEF T
<1> QED
  BY <1>1, <1>2, <1>9

LEMMA AtPrefix ==
  ASSUME NEW S, NEW p \in Seq(S), NEW t, NEW a, Along(a, t, p), NEW i \in 0..Len(p)
  PROVE  At(t, SubSeq(p, 1, i)) = a[i]
<1>1. PICK q : q = SubSeq(p, 1, i)
  OBVIOUS
<1>2. q \in Seq(S) /\ Len(q) = i /\ \A j \in 1..i : q[j] = p[j]
  BY <1>1, ReferencesSplit
<1>3. Along(a, t, q)
  <2>1. \A j \in 1..i : j \in 1..Len(p)
    BY LenProperties
  <2> QED
    BY <1>2, <2>1 DEF Along
<1>4. At(t, q) = a[Len(q)]
  BY <1>2, <1>3, AtIs
<1> QED
  BY <1>1, <1>2, <1>4

Graft(t, x, u) == [t EXCEPT !.e[x] = u]

Grafted(w, a, p, new) ==
  /\ w[Len(p)] = new
  /\ \A i \in 0..(Len(p) - 1) : w[i] = Graft(a[i], p[i + 1], w[i + 1])

LEMMA WithIs ==
  ASSUME NEW S, NEW p \in Seq(S), NEW t, NEW a, Along(a, t, p), NEW new,
         NEW w, Grafted(w, a, p, new)
  PROVE  Sem!With(t, p, new) = w[0]
<1>1. PICK l \in Nat : l = Len(p)
  BY LenProperties
<1> DEFINE A(f) == f = [i \in 0..Len(p) |->
                          IF i = Len(p) THEN new
                          ELSE [Sem!At(t, SubSeq(p, 1, i)) EXCEPT !.e[p[i + 1]] = f[i + 1]]]
           u == CHOOSE f : A(f)
<1>2. Sem!With(t, p, new) = u[0]
  BY DEF Sem!With
<1> DEFINE B(f) == f = [i \in 0..l |-> IF i = l THEN new ELSE Graft(a[i], p[i + 1], f[i + 1])]
<1>3. \A f : A(f) <=> B(f)
  <2>1. \A i \in 0..l : Sem!At(t, SubSeq(p, 1, i)) = a[i]
    BY <1>1, AtPrefix, SameNames
  <2> SUFFICES ASSUME NEW f PROVE A(f) <=> B(f)
    OBVIOUS
  <2>2. [i \in 0..Len(p) |-> IF i = Len(p) THEN new
                             ELSE [Sem!At(t, SubSeq(p, 1, i)) EXCEPT !.e[p[i + 1]] = f[i + 1]]]
          = [i \in 0..l |-> IF i = l THEN new ELSE Graft(a[i], p[i + 1], f[i + 1])]
    BY <1>1, <2>1 DEF Graft
  <2> QED
    BY <2>2
<1> DEFINE b == [i \in 0..l |-> w[i]]
<1>4. B(b)
  <2>1. ASSUME NEW i \in 0..l PROVE w[i] = IF i = l THEN new ELSE Graft(a[i], p[i + 1], b[i + 1])
    <3>1. CASE i = l
      BY <1>1, <3>1 DEF Grafted
    <3>2. CASE i # l
      <4>1. i \in 0..(l - 1) /\ i + 1 \in 0..l
        BY <3>2
      <4>2. b[i + 1] = w[i + 1]
        BY <4>1
      <4> QED
        BY <1>1, <3>2, <4>1, <4>2 DEF Grafted
    <3> QED
      BY <3>1, <3>2
  <2> HIDE DEF b
  <2>2. b = [i \in 0..l |-> IF i = l THEN new ELSE Graft(a[i], p[i + 1], b[i + 1])]
    BY <2>1 DEF b
  <2> QED
    BY <2>2
<1> HIDE DEF b
<1>5. B(u)
  <2> HIDE DEF A, B
  <2>1. A(b)
    BY <1>3, <1>4
  <2>2. A(u)
    BY <2>1
  <2> QED
    BY <1>3, <2>2
<1> HIDE DEF u, A
<1> DEFINE T == {i \in Nat : i <= l => u[l - i] = w[l - i]}
<1>6. 0 \in T
  <2>1. l \in 0..l /\ l - 0 = l
    OBVIOUS
  <2>2. u[l] = new
    BY <1>5, <2>1
  <2> QED
    BY <1>1, <2>1, <2>2 DEF Grafted
<1>7. ASSUME NEW i \in T PROVE i + 1 \in T
  <2> SUFFICES ASSUME i + 1 <= l PROVE u[l - (i + 1)] = w[l - (i + 1)]
    OBVIOUS
  <2>1. PICK j : j = l - (i + 1)
    OBVIOUS
  <2>2. j \in 0..(l - 1) /\ j \in 0..l /\ j # l /\ j + 1 = l - i /\ i <= l
    BY <2>1
  <2>3. u[j + 1] = w[j + 1]
    BY <2>2
  <2>4. u[j] = Graft(a[j], p[j + 1], u[j + 1])
    BY <1>5, <2>2
  <2>5. w[j] = Graft(a[j], p[j + 1], w[j + 1])
    BY <1>1, <2>2 DEF Grafted
  <2> QED
    BY <2>1, <2>3, <2>4, <2>5
<1>8. T \in SUBSET Nat
  OBVIOUS
<1> HIDE DEF T
<1>9. T = Nat
  BY <1>6, <1>7, <1>8, AllNaturals
<1>10. l - l = 0 /\ l <= l
  OBVIOUS
<1>11. u[0] = w[0]
  BY <1>9, <1>10 DEF T
<1> QED
  BY <1>2, <1>11

LEMMA GraftIs ==
  \A E, z, u : /\ Graft(Arr(E), z, u) = Arr([E EXCEPT ![z] = u])
               /\ Graft(Tab(E), z, u) = Tab([E EXCEPT ![z] = u])
BY DEF Graft, Arr, Tab

(* The tree of an object of which one element changed.                     *)
LEMMA GraftOf ==
  ASSUME NEW T, NEW U, NEW x, NEW y, Keyed(x), Keyed(y), x.keys \in Seq(Int),
         x.e \in Seq(ValueCell), y.e \in Seq(ValueCell), Len(y.e) = Len(x.e),
         y.tab = x.tab, y.keys = x.keys, NEW z \in Int,
         NEW at \in DOMAIN x.e, at = (IF x.tab THEN Entry(x.keys, z) ELSE z),
         \A i \in DOMAIN x.e : i # at => Of(U, y.e[i]) = Of(T, x.e[i])
  PROVE  Over(U, y) = Graft(Over(T, x), z, Of(U, y.e[at]))
<1>1. DOMAIN x.e = 1..Len(x.e) /\ DOMAIN x.keys = 1..Len(x.keys)
  BY SeqFinite
<1>2. CASE ~x.tab
  <2>1. PICK E, F : E = Shows(T, x.e) /\ F = Shows(U, y.e)
    OBVIOUS
  <2>2. Over(T, x) = Arr(E) /\ Over(U, y) = Arr(F)
    BY <1>2, <2>1, ArrayTree
  <2>3. E = [i \in DOMAIN x.e |-> Of(T, x.e[i])] /\ F = [i \in DOMAIN x.e |-> Of(U, y.e[i])]
    BY <1>1, <2>1 DEF Shows
  <2>4. F = [E EXCEPT ![z] = Of(U, y.e[at])]
    BY <1>2, <2>3
  <2>5. PICK u : u = Of(U, y.e[at])
    OBVIOUS
  <2>6. PICK G : G = [E EXCEPT ![z] = u]
    OBVIOUS
  <2>7. Arr(G) = Graft(Arr(E), z, u)
    BY <2>6, GraftIs
  <2>8. F = G
    BY <2>4, <2>5, <2>6
  <2> QED
    BY <2>2, <2>5, <2>7, <2>8
<1>3. CASE x.tab
  <2>1. PICK keys, K : keys = x.keys /\ K = {keys[j] : j \in DOMAIN keys}
    OBVIOUS
  <2>2. \A j \in DOMAIN keys : Entry(keys, keys[j]) = j
    BY <1>3, <2>1, TableTree
  <2>3. PICK E, F : E = [n \in K |-> Of(T, x.e[Entry(keys, n)])] /\ F = [n \in K |-> Of(U, y.e[Entry(keys, n)])]
    OBVIOUS
  <2>4. Over(T, x) = Tab(E) /\ Over(U, y) = Tab(F)
    BY <1>3, <2>1, <2>3 DEF Over, TreeOver, Of
  <2>5. DOMAIN keys = DOMAIN x.e
    BY <1>1, <1>3, <2>1 DEF Keyed
  <2>6. z \in K /\ \A n \in K : n # z => Entry(keys, n) \in DOMAIN x.e /\ Entry(keys, n) # at
    <3>1. /\ Entry(keys, z) # 0 => Entry(keys, z) \in DOMAIN keys /\ keys[Entry(keys, z)] = z
      <4>1. \A i, j \in DOMAIN keys : keys[i] = keys[j] => i = j
        BY <1>3, <2>1 DEF Keyed
      <4> QED
        BY <2>1, <4>1, EntryFound
    <3>2. at # 0 /\ at = Entry(keys, z)
      BY <1>1, <1>3, <2>1
    <3> QED
      BY <2>1, <2>2, <2>5, <3>1, <3>2
  <2>7. F = [E EXCEPT ![z] = Of(U, y.e[at])]
    BY <1>3, <2>1, <2>3, <2>6
  <2>8. PICK u : u = Of(U, y.e[at])
    OBVIOUS
  <2>9. PICK G : G = [E EXCEPT ![z] = u]
    OBVIOUS
  <2>10. Tab(G) = Graft(Tab(E), z, u)
    BY <2>9, GraftIs
  <2>11. F = G
    BY <2>7, <2>8, <2>9
  <2> QED
    BY <2>4, <2>8, <2>10, <2>11
<1> QED
  BY <1>2, <1>3

-----------------------------------------------------------------------------
(* The way to a borrowed place: the cells a path goes through.             *)

StepAt(g, b, j) == AtStep(heap, g[j - 1], b.p[j])

WayTo(g, b) ==
  /\ g[0] = env[b.v] /\ g[Len(b.p)] = Pointed(b)
  /\ \A j \in 0..Len(b.p) : g[j] \in ValueCell /\ Alive(g[j])
  /\ \A j \in 0..(Len(b.p) - 1) : g[j].k = "ref" /\ heap[g[j].o].rc = 1
  /\ \A j \in 1..Len(b.p) : /\ StepAt(g, b, j) \in DOMAIN heap[g[j - 1].o].e
                            /\ g[j] = heap[g[j - 1].o].e[StepAt(g, b, j)]
  /\ Len(b.p) = 0 => b.o = NoObj
  /\ Len(b.p) > 0 => /\ b.o \in Obj /\ b.o # NoObj
                     /\ g[Len(b.p) - 1].o = b.o /\ StepAt(g, b, Len(b.p)) = b.i

LEMMA Ways ==
  ASSUME CInv, NEW b \in BorrowCell, BorrowFits(env, heap, b), Leads(b)
  PROVE  \E g : WayTo(g, b)
<1>1. IInv
  BY DEF CInv
<1>2. /\ b.p \in Seq(Int) /\ b.v \in Var /\ b.len \in Nat
      /\ b.rcs \in Seq(Nat) /\ Len(b.rcs) = Len(b.p) + 1 /\ DOMAIN b.rcs = 1..(Len(b.p) + 1)
  BY SeqFinite DEF BorrowCell
<1>3. PICK L \in Nat : L = Len(b.p)
  BY <1>2, LenProperties
<1>4. PICK g : LeadsBy(g, b)
  BY <1>2, LeadsPath
<1>5. g[0] = env[b.v] /\ \A j \in 1..L : g[j] = Onward(heap, g[j - 1], b.p[j])
  BY <1>3, <1>4 DEF LeadsBy, Path
<1>6. ASSUME NEW c \in ValueCell, NEW x PROVE Onward(heap, c, x) \in ValueCell /\ Alive(Onward(heap, c, x))
  <2>1. CASE Onward(heap, c, x) = Null
    BY <2>1, ValueCells DEF Alive, RefersTo, Counts, Null
  <2>2. CASE Onward(heap, c, x) # Null
    <3>1. PICK i : i = AtStep(heap, c, x)
      OBVIOUS
    <3>2. c.k = "ref" /\ c.o \in Obj /\ i \in DOMAIN heap[c.o].e /\ Onward(heap, c, x) = heap[c.o].e[i]
      BY <2>2, <3>1, ValueCells DEF Onward
    <3>3. heap[c.o].e \in Seq(ValueCell) /\ Alive(heap[c.o].e[i])
      BY <1>1, <3>2, AllAlive DEF Existing
    <3>4. heap[c.o].e[i] \in ValueCell
      BY <3>2, <3>3, SeqFinite
    <3> QED
      BY <3>2, <3>3, <3>4
  <2> QED
    BY <2>1, <2>2
<1> DEFINE T == {j \in Nat : j <= L => g[j] \in ValueCell /\ Alive(g[j])}
<1>7. 0 \in T
  BY <1>1, <1>2, <1>5, AllAlive
<1>8. ASSUME NEW j \in T PROVE j + 1 \in T
  <2> SUFFICES ASSUME j + 1 <= L PROVE g[j + 1] \in ValueCell /\ Alive(g[j + 1])
    OBVIOUS
  <2>1. PICK m : m = j + 1
    OBVIOUS
  <2>2. m \in 1..L /\ m - 1 = j /\ j <= L
    BY <2>1
  <2>3. g[m] = Onward(heap, g[j], b.p[m]) /\ g[j] \in ValueCell
    BY <1>5, <2>2
  <2> QED
    BY <1>6, <2>1, <2>3
<1>9. T \in SUBSET Nat
  OBVIOUS
<1> HIDE DEF T
<1>10. T = Nat
  BY <1>7, <1>8, <1>9, AllNaturals
<1>11. \A j \in 0..L : g[j] \in ValueCell /\ Alive(g[j])
  BY <1>10 DEF T
<1>12. ASSUME NEW j \in 0..(L - 1) PROVE g[j].k = "ref" /\ heap[g[j].o].rc = 1 /\ g[j].o \in Obj
  <2>1. j + 1 \in 1..L /\ (j + 1) - 1 = j /\ j + 1 \in 1..(L + 1) /\ j \in 0..L
    OBVIOUS
  <2>2. PICK m : m = j + 1
    OBVIOUS
  <2>3. b.rcs[m] = 1
    BY <1>2, <1>3, <2>1, <2>2 DEF BorrowFits
  <2>4. g[m - 1].k = "ref" /\ RcOf(g[m - 1]) <= b.rcs[m]
    BY <1>3, <1>4, <2>1, <2>2 DEF LeadsBy
  <2>5. g[j].k = "ref" /\ RcOf(g[j]) <= 1
    BY <2>1, <2>2, <2>3, <2>4
  <2>6. g[j].o \in Obj /\ heap[g[j].o].live
    BY <1>11, <2>1, <2>5, ValueCells DEF Alive, RefersTo
  <2>7. heap[g[j].o].rc > 0 /\ heap[g[j].o].rc \in Nat
    <3>1. HeapOK(heap) /\ heap[g[j].o].rc > 0
      BY <1>1, <2>6 DEF IInv
    <3>2. heap[g[j].o].rc \in 0..(RcMod - 1)
      BY <2>6, <3>1 DEF HeapOK
    <3> QED
      BY <3>1, <3>2
  <2> QED
    BY <2>5, <2>6, <2>7 DEF RcOf
<1>13. b.p = <<>> <=> L = 0
  BY <1>2, <1>3, EmptySeq
<1>14. ASSUME L > 0
       PROVE  /\ b.o \in Obj /\ b.o # NoObj /\ g[L - 1].o = b.o /\ StepAt(g, b, L) = b.i
              /\ b.i \in DOMAIN heap[b.o].e /\ g[L] = heap[b.o].e[b.i]
  <2>1. b.o \in Obj /\ b.o # NoObj
    BY <1>13, <1>14 DEF BorrowFits, BorrowCell
  <2>2. L - 1 \in 0..(L - 1) /\ L \in 1..L
    BY <1>14
  <2>3. PICK c : c = g[L - 1]
    OBVIOUS
  <2>4. c.o = b.o /\ c.k = "ref"
    BY <1>3, <1>4, <1>12, <1>13, <1>14, <2>2, <2>3 DEF LeadsBy
  <2>5. Fits(heap, b, c)
    BY <1>3, <1>4, <1>13, <1>14, <2>3 DEF BorrowFits, LeadsBy
  <2>6. AtStep(heap, c, b.p[L]) = b.i
    BY <1>3, <2>4, <2>5 DEF Fits
  <2>7. b.i \in DOMAIN heap[b.o].e
    <3>1. Len(heap[b.o].e) >= b.len
      <4>1. IF heap[c.o].tab THEN Len(heap[c.o].e) >= b.len ELSE Len(heap[c.o].e) = b.len
        BY <2>4, <2>5 DEF Fits
      <4> QED
        BY <1>2, <2>4, <4>1
    <3>2. DOMAIN heap[b.o].e = 1..Len(heap[b.o].e) /\ Len(heap[b.o].e) \in Nat
      BY <1>1, <2>1, SeqFinite DEF IInv, HeapOK, Shaped
    <3>3. b.i \in 1..b.len
      BY <2>1 DEF BorrowCell
    <3> QED
      BY <1>2, <3>1, <3>2, <3>3
  <2>8. g[L] = heap[b.o].e[b.i]
    BY <1>5, <2>2, <2>3, <2>4, <2>6, <2>7 DEF Onward
  <2> QED
    BY <2>1, <2>3, <2>4, <2>6, <2>7, <2>8 DEF StepAt
<1>15. ASSUME NEW j \in 1..L
       PROVE  StepAt(g, b, j) \in DOMAIN heap[g[j - 1].o].e /\ g[j] = heap[g[j - 1].o].e[StepAt(g, b, j)]
  <2>1. CASE j = L
    BY <1>14, <2>1
  <2>2. CASE j # L
    <3>1. j \in 0..(L - 1)
      BY <2>2
    <3>2. g[j] # Null
      BY <1>12, <3>1 DEF Null
    <3> QED
      BY <1>5, <3>2 DEF Onward, StepAt
  <2> QED
    BY <2>1, <2>2
<1>16. g[L] = Pointed(b) /\ (L = 0 => b.o = NoObj)
  <2>1. CASE L = 0
    BY <1>5, <1>13, <2>1 DEF Pointed, BorrowFits
  <2>2. CASE L > 0
    BY <1>14, <2>2 DEF Pointed
  <2> QED
    BY <2>1, <2>2
<1>17. WayTo(g, b)
  BY <1>3, <1>5, <1>11, <1>12, <1>14, <1>15, <1>16 DEF WayTo
<1> QED
  BY <1>17

(* The trees on the way are those the path goes through.                   *)
LEMMA WayTrees ==
  ASSUME CInv, NEW b \in BorrowCell, NEW g, WayTo(g, b),
         NEW a, a = [j \in 0..Len(b.p) |-> Of(Trees, g[j])]
  PROVE  /\ Along(a, SemEnv[b.v], b.p)
         /\ At(SemEnv[b.v], b.p) = Of(Trees, Pointed(b))
<1>1. IInv /\ HeapOK(heap) /\ Ordered(heap)
  BY DEF CInv, IInv
<1>2. b.p \in Seq(Int) /\ b.v \in Var
  BY DEF BorrowCell
<1>3. PICK L \in Nat : L = Len(b.p)
  BY <1>2, LenProperties
<1>4. a[0] = SemEnv[b.v] /\ a[L] = Of(Trees, Pointed(b))
  BY <1>2, <1>3, VarShown DEF WayTo
<1>5. ASSUME NEW j \in 1..L PROVE a[j] = Child(a[j - 1], b.p[j])
  <2>1. PICK m : m = j - 1
    OBVIOUS
  <2>2. m \in 0..(L - 1) /\ m \in 0..L /\ j \in 0..L
    BY <2>1
  <2>3. PICK c : c = g[m]
    OBVIOUS
  <2>4. c.k = "ref" /\ c \in ValueCell
    BY <1>3, <2>2, <2>3 DEF WayTo
  <2>5. c.o \in Obj
    BY <2>4, ValueCells
  <2>6. PICK i : i = AtStep(heap, c, b.p[j])
    OBVIOUS
  <2>7. i \in DOMAIN heap[c.o].e /\ g[j] = heap[c.o].e[i]
    BY <1>3, <2>1, <2>3, <2>6 DEF WayTo, StepAt
  <2>8. Trees[c.o] = Over(Trees, heap[c.o])
    BY <1>1, <2>5, TreesUnfold DEF Unfolded
  <2>9. b.p[j] \in Int
    BY <1>2, <1>3, ElementOfSeq
  <2>10. Child(Of(Trees, c), b.p[j]) = Of(Trees, heap[c.o].e[i])
    BY <1>1, <2>4, <2>5, <2>6, <2>7, <2>8, <2>9, ChildOf
  <2>11. a[j] = Of(Trees, g[j]) /\ a[m] = Of(Trees, c)
    BY <1>3, <2>2, <2>3
  <2> QED
    BY <2>1, <2>7, <2>10, <2>11
<1>6. Along(a, SemEnv[b.v], b.p)
  BY <1>3, <1>4, <1>5 DEF Along
<1>7. At(SemEnv[b.v], b.p) = a[Len(b.p)]
  BY <1>2, <1>6, AtIs
<1> QED
  BY <1>3, <1>4, <1>6, <1>7

-----------------------------------------------------------------------------
(* The first n objects on a way have one reference each, the one that     *)
(* leads there.                                                            *)

AloneTo(g, b, n) ==
  /\ n = Len(b.p) \/ n = Len(b.p) + 1
  /\ \A j \in 0..(n - 1) : g[j].k = "ref" /\ heap[g[j].o].rc = 1

OnWay(g, n) == {g[j].o : j \in 0..(n - 1)}

LEMMA WayDistinct ==
  ASSUME CInv, NEW b \in BorrowCell, NEW g, WayTo(g, b), NEW n \in Nat, AloneTo(g, b, n),
         NEW i \in 0..(n - 1), NEW j \in 0..(n - 1), i < j
  PROVE  g[i].o # g[j].o
<1>1. IInv /\ b.v \in Var
  BY DEF CInv, BorrowCell
<1>2. PICK L \in Nat : L = Len(b.p)
  BY LenProperties DEF BorrowCell
<1>3. \A x \in 0..(n - 1) : /\ x \in 0..L /\ g[x].k = "ref" /\ g[x].o \in Obj /\ heap[g[x].o].rc = 1
  <2> TAKE x \in 0..(n - 1)
  <2>1. x \in 0..L
    BY <1>2 DEF AloneTo
  <2> QED
    BY <1>2, <2>1, ValueCells DEF AloneTo, WayTo
<1>4. ASSUME NEW x \in 0..(n - 1), x # 0
      PROVE  /\ x - 1 \in 0..(n - 1) /\ StepAt(g, b, x) \in DOMAIN heap[g[x - 1].o].e
             /\ RefersTo(heap[g[x - 1].o].e[StepAt(g, b, x)], g[x].o)
  <2>1. x \in 1..L /\ x - 1 \in 0..(n - 1)
    BY <1>3, <1>4
  <2> QED
    BY <1>2, <1>3, <2>1 DEF WayTo, RefersTo, Counts
<1> DEFINE T == {x \in Nat : \A y \in 0..(n - 1) : x < y => g[x].o # g[y].o}
<1>5. 0 \in T
  <2> SUFFICES ASSUME NEW y \in 0..(n - 1), 0 < y, g[0].o = g[y].o PROVE FALSE
    OBVIOUS
  <2>1. 0 \in 0..(n - 1) /\ y # 0
    OBVIOUS
  <2>2. InEnv(g[0].o)
    BY <1>1, <1>3, <2>1 DEF InEnv, RefersTo, Counts, WayTo
  <2>3. InHeap(g[y].o)
    BY <1>3, <1>4, <2>1 DEF InHeap, Refers
  <2> QED
    BY <1>1, <1>3, <2>1, <2>2, <2>3, OneReference
<1>6. ASSUME NEW x \in T PROVE x + 1 \in T
  <2> SUFFICES ASSUME NEW y \in 0..(n - 1), x + 1 < y, g[x + 1].o = g[y].o PROVE FALSE
    OBVIOUS
  <2>1. PICK z : z = x + 1
    OBVIOUS
  <2>2. z \in 0..(n - 1) /\ z # 0 /\ y # 0 /\ z - 1 = x /\ x < y - 1
    BY <2>1
  <2>3. g[z - 1].o = g[y - 1].o
    <3>1. PICK p, q, s, t : p = g[z - 1].o /\ q = g[y - 1].o /\ s = StepAt(g, b, z) /\ t = StepAt(g, b, y)
      OBVIOUS
    <3>2. z - 1 \in 0..(n - 1) /\ y - 1 \in 0..(n - 1)
      BY <1>4, <2>2
    <3>3. p \in Obj /\ q \in Obj /\ s \in DOMAIN heap[p].e /\ t \in DOMAIN heap[q].e
      BY <1>3, <1>4, <2>2, <3>1, <3>2
    <3>4. PICK o : o = g[y].o
      OBVIOUS
    <3>5. RefersTo(heap[p].e[s], o) /\ RefersTo(heap[q].e[t], o)
      BY <1>4, <2>1, <2>2, <3>1, <3>4
    <3>6. o \in Obj /\ heap[o].rc = 1
      BY <1>3, <3>4
    <3>7. p = q
      BY <1>1, <3>3, <3>5, <3>6, OneReference
    <3> QED
      BY <3>1, <3>7
  <2>4. y - 1 \in 0..(n - 1)
    BY <1>4, <2>2
  <2>5. g[x].o # g[y - 1].o
    BY <2>2, <2>4
  <2> QED
    BY <2>2, <2>3, <2>5
<1>7. T \in SUBSET Nat
  OBVIOUS
<1> HIDE DEF T
<1>8. T = Nat
  BY <1>5, <1>6, <1>7, AllNaturals
<1> QED
  BY <1>8 DEF T

(* Nothing but the way leads to its objects.                               *)
Apartness(g, b, n) ==
  /\ OnWay(g, n) \in SUBSET Obj /\ Closed(OnWay(g, n))
  /\ \A o \in OnWay(g, n) : ~OnStack(o)
  /\ \A o \in OnWay(g, n) : \A v \in Var : RefersTo(env[v], o) => v = b.v
  /\ \A j \in 0..(n - 1) : \A i \in DOMAIN heap[g[j].o].e : \A o \in OnWay(g, n) :
       RefersTo(heap[g[j].o].e[i], o) => j + 1 < n /\ i = StepAt(g, b, j + 1)

LEMMA WayApart ==
  ASSUME CInv, NEW b \in BorrowCell, NEW g, WayTo(g, b), NEW n \in Nat, AloneTo(g, b, n)
  PROVE  Apartness(g, b, n)
<1>1. IInv /\ b.v \in Var
  BY DEF CInv, BorrowCell
<1>2. PICK L \in Nat : L = Len(b.p)
  BY LenProperties DEF BorrowCell
<1>3. \A x \in 0..(n - 1) : /\ x \in 0..L /\ g[x].k = "ref" /\ g[x].o \in Obj /\ heap[g[x].o].rc = 1
  <2> TAKE x \in 0..(n - 1)
  <2>1. x \in 0..L
    BY <1>2 DEF AloneTo
  <2> QED
    BY <1>2, <2>1, ValueCells DEF AloneTo, WayTo
<1>4. ASSUME NEW x \in 0..(n - 1), x # 0
      PROVE  /\ x - 1 \in 0..(n - 1) /\ StepAt(g, b, x) \in DOMAIN heap[g[x - 1].o].e
             /\ RefersTo(heap[g[x - 1].o].e[StepAt(g, b, x)], g[x].o)
  <2>1. x \in 1..L /\ x - 1 \in 0..(n - 1)
    BY <1>3, <1>4
  <2> QED
    BY <1>2, <1>3, <2>1 DEF WayTo, RefersTo, Counts
<1>5. ASSUME NEW x \in 0..(n - 1)
      PROVE  IF x = 0 THEN RefersTo(env[b.v], g[x].o) ELSE InHeap(g[x].o)
  <2>1. CASE x = 0
    BY <1>3, <2>1 DEF RefersTo, Counts, WayTo
  <2>2. CASE x # 0
    BY <1>3, <1>4, <2>2 DEF InHeap, Refers
  <2> QED
    BY <2>1, <2>2
<1>6. \A o \in OnWay(g, n) : \E j \in 0..(n - 1) : o = g[j].o
  BY DEF OnWay
<1>7. \A j \in 0..(n - 1) : g[j].o \in OnWay(g, n)
  BY DEF OnWay
<1>8. ASSUME NEW p \in Obj, NEW i \in DOMAIN heap[p].e, NEW j \in 0..(n - 1), RefersTo(heap[p].e[i], g[j].o)
      PROVE  j # 0 /\ j - 1 \in 0..(n - 1) /\ p = g[j - 1].o /\ i = StepAt(g, b, j)
  <2>1. PICK o \in Obj : o = g[j].o
    BY <1>3
  <2>2. InHeap(o) /\ heap[o].rc = 1
    BY <1>3, <1>8, <2>1 DEF InHeap, Refers
  <2>3. j # 0
    <3>1. ~InEnv(o)
      BY <1>1, <2>2, OneReference
    <3> QED
      BY <1>1, <1>5, <2>1, <3>1 DEF InEnv
  <2>4. PICK q, t : q = g[j - 1].o /\ t = StepAt(g, b, j)
    OBVIOUS
  <2>5. q \in Obj /\ t \in DOMAIN heap[q].e /\ RefersTo(heap[q].e[t], o)
    BY <1>3, <1>4, <2>1, <2>3, <2>4
  <2>6. p = q /\ i = t
    BY <1>1, <1>8, <2>1, <2>2, <2>5, OneReference
  <2> QED
    BY <1>4, <2>3, <2>4, <2>6
<1>9. OnWay(g, n) \in SUBSET Obj
  BY <1>3, <1>6
<1>10. Closed(OnWay(g, n))
  <2> SUFFICES ASSUME NEW p \in Obj, NEW o \in OnWay(g, n), Refers(heap, p, o) PROVE p \in OnWay(g, n)
    BY DEF Closed
  <2>1. PICK i \in DOMAIN heap[p].e : RefersTo(heap[p].e[i], o)
    BY DEF Refers
  <2>2. PICK j \in 0..(n - 1) : o = g[j].o
    BY <1>6
  <2> QED
    BY <1>7, <1>8, <2>1, <2>2
<1>11. ASSUME NEW o \in OnWay(g, n) PROVE ~OnStack(o) /\ \A v \in Var : RefersTo(env[v], o) => v = b.v
  <2>1. PICK j \in 0..(n - 1) : o = g[j].o
    BY <1>6
  <2>2. o \in Obj /\ heap[o].rc = 1
    BY <1>3, <2>1
  <2>3. InEnv(o) \/ InHeap(o)
    BY <1>1, <1>5, <2>1 DEF InEnv
  <2>4. ~OnStack(o)
    BY <1>1, <2>2, <2>3, OneReference
  <2>5. ASSUME NEW v \in Var, RefersTo(env[v], o) PROVE v = b.v
    <3>1. ~InHeap(o)
      BY <1>1, <2>2, <2>5, OneReference DEF InEnv
    <3>2. RefersTo(env[b.v], o)
      BY <1>5, <2>1, <3>1
    <3> QED
      BY <1>1, <2>2, <2>5, <3>2, OneReference
  <2> QED
    BY <2>4, <2>5
<1>12. ASSUME NEW j \in 0..(n - 1), NEW i \in DOMAIN heap[g[j].o].e, NEW o \in OnWay(g, n),
              RefersTo(heap[g[j].o].e[i], o)
       PROVE  j + 1 < n /\ i = StepAt(g, b, j + 1)
  <2>1. PICK m \in 0..(n - 1) : o = g[m].o
    BY <1>6
  <2>2. PICK p \in Obj : p = g[j].o
    BY <1>3
  <2>3. m # 0 /\ m - 1 \in 0..(n - 1) /\ p = g[m - 1].o /\ i = StepAt(g, b, m)
    BY <1>8, <1>12, <2>1, <2>2
  <2>4. PICK l \in 0..(n - 1) : l = m - 1
    BY <2>3
  <2>5. ~(l < j) /\ ~(j < l)
    BY <2>2, <2>3, <2>4, WayDistinct
  <2>6. l = j
    BY <2>5
  <2>7. m = j + 1
    BY <2>4, <2>6
  <2> QED
    BY <2>3, <2>7
<1> QED
  BY <1>9, <1>10, <1>11, <1>12 DEF Apartness

(* What a write to the place of b does to the objects on the way.          *)
WrittenOnWay(g, b, d) ==
  \A j \in 0..(Len(b.p) - 1) :
    LET x == heap[g[j].o]
        y == heap'[g[j].o]
    IN  /\ y.tab = x.tab /\ y.keys = x.keys /\ Len(y.e) = Len(x.e)
        /\ \A i \in DOMAIN x.e : y.e[i] = IF g[j].o = b.o /\ i = b.i THEN d ELSE x.e[i]

(* A write to the place of b is one in the tree of its variable.           *)
LEMMA PlaceMapped ==
  ASSUME CInv, CInv', NEW b \in BorrowCell, NEW g, WayTo(g, b), NEW n \in Nat, AloneTo(g, b, n),
         Touches(OnWay(g, n)), NEW d \in ValueCell, env' = EnvWith(b, d), WrittenOnWay(g, b, d)
  PROVE  SemEnv' = [SemEnv EXCEPT ![b.v] = Sem!With(SemEnv[b.v], b.p, Of(Trees', d))]
<1>1. IInv /\ IInv' /\ HeapOK(heap) /\ HeapOK(heap') /\ env \in [Var -> ValueCell]
  BY DEF CInv, IInv
<1>2. b.p \in Seq(Int) /\ b.v \in Var
  BY DEF BorrowCell
<1>3. PICK L \in Nat : L = Len(b.p)
  BY <1>2, LenProperties
<1>4. Apartness(g, b, n)
  BY WayApart
<1>5. \A j \in 0..(L - 1) : j \in 0..(n - 1) /\ j \in 0..L /\ j + 1 \in 1..L /\ j + 1 \in 0..L /\ (j + 1) - 1 = j
  BY <1>3 DEF AloneTo
<1> DEFINE a == [j \in 0..Len(b.p) |-> Of(Trees, g[j])]
           w == [j \in 0..L |-> IF j = L THEN Of(Trees', d) ELSE Of(Trees', g[j])]
<1>6. Along(a, SemEnv[b.v], b.p)
  BY WayTrees
<1>7. \A j \in 0..L : a[j] = Of(Trees, g[j])
  BY <1>3
<1>8. ASSUME NEW j \in 0..(L - 1) PROVE w[j] = Graft(a[j], b.p[j + 1], w[j + 1])
  <2>1. PICK m : m = j + 1
    OBVIOUS
  <2>2. m \in 1..L /\ m - 1 = j /\ j \in 0..L /\ m \in 0..L /\ j # L /\ j \in 0..(n - 1)
    BY <1>5, <2>1
  <2>3. PICK o \in Obj : o = g[j].o
    BY <1>3, <1>8, <2>2, ValueCells DEF WayTo
  <2>4. PICK at : at = StepAt(g, b, m)
    OBVIOUS
  <2>5. PICK x, y : x = heap[o] /\ y = heap'[o]
    OBVIOUS
  <2>6. g[j].k = "ref" /\ at \in DOMAIN x.e /\ g[m] = x.e[at]
    BY <1>3, <1>8, <2>2, <2>3, <2>4, <2>5 DEF WayTo
  <2>7. PICK z \in Int : z = b.p[m]
    BY <1>2, <1>3, <2>2, ElementOfSeq
  <2>8. at = IF x.tab THEN Entry(x.keys, z) ELSE z
    BY <2>2, <2>3, <2>4, <2>5, <2>7 DEF StepAt, AtStep
  <2>9. /\ y.tab = x.tab /\ y.keys = x.keys /\ Len(y.e) = Len(x.e)
        /\ \A i \in DOMAIN x.e : y.e[i] = IF o = b.o /\ i = b.i THEN d ELSE x.e[i]
    BY <1>3, <1>8, <2>3, <2>5 DEF WrittenOnWay
  <2>10. o = b.o <=> j = L - 1
    <3>1. CASE j = L - 1
      BY <1>3, <2>3, <3>1 DEF WayTo
    <3>2. CASE j # L - 1
      <4>1. L - 1 \in 0..(L - 1) /\ j < L - 1
        BY <3>2
      <4>2. PICK l \in 0..(n - 1) : l = L - 1
        BY <1>5, <4>1
      <4>3. g[j].o # g[l].o
        BY <2>2, <4>1, <4>2, WayDistinct
      <4>4. g[l].o = b.o
        BY <1>3, <4>1, <4>2 DEF WayTo
      <4> QED
        BY <2>3, <3>2, <4>3, <4>4
    <3> QED
      BY <3>1, <3>2
  <2>11. j = L - 1 => at = b.i
    BY <1>3, <2>1, <2>4 DEF WayTo
  <2>12. y.e[at] = IF m = L THEN d ELSE g[m]
    BY <2>1, <2>2, <2>6, <2>9, <2>10, <2>11
  <2>13. ASSUME NEW i \in DOMAIN x.e, i # at PROVE Of(Trees', y.e[i]) = Of(Trees, x.e[i])
    <3>1. PICK c : c = x.e[i]
      OBVIOUS
    <3>2. y.e[i] = c
      BY <2>9, <2>10, <2>11, <2>13, <3>1
    <3>3. x.e \in Seq(ValueCell) /\ Alive(c)
      BY <1>1, <2>5, <2>13, <3>1, AllAlive DEF Existing
    <3>4. c \in ValueCell
      BY <2>13, <3>1, <3>3, SeqFinite
    <3>5. Alive(c)'
      <4>1. y.e \in Seq(ValueCell)
        BY <1>1, <2>5 DEF HeapOK, Shaped
      <4>2. i \in DOMAIN y.e
        BY <2>9, <2>13, <3>3, <4>1, SeqFinite
      <4> QED
        BY <1>1, <2>5, <3>2, <4>2, AliveElsewhere
    <3>6. \A q \in OnWay(g, n) : ~RefersTo(c, q)
      BY <1>4, <2>1, <2>2, <2>3, <2>4, <2>5, <2>13, <3>1 DEF Apartness
    <3>7. c \in OperandCell
      BY <3>4, ValueCells
    <3>8. Of(Trees', c) = Of(Trees, c)
      BY <3>3, <3>5, <3>6, <3>7, CellKept
    <3> QED
      BY <3>1, <3>2, <3>8
  <2>14. Keyed(x) /\ Keyed(y) /\ x.keys \in Seq(Int) /\ x.e \in Seq(ValueCell) /\ y.e \in Seq(ValueCell)
    BY <1>1, <2>5 DEF HeapOK, Shaped
  <2>15. PICK T, U : T = Trees /\ U = Trees'
    OBVIOUS
  <2>16. Over(U, y) = Graft(Over(T, x), z, Of(U, y.e[at]))
    <3>1. \A i \in DOMAIN x.e : i # at => Of(U, y.e[i]) = Of(T, x.e[i])
      BY <2>13, <2>15
    <3> QED
      BY <2>6, <2>8, <2>9, <2>14, <3>1, GraftOf
  <2>17. Of(T, g[j]) = Over(T, x) /\ Of(U, g[j]) = Over(U, y)
    <3>1. T[o] = Over(T, x) /\ U[o] = Over(U, y)
      <4>1. Unfolded /\ Unfolded'
        BY TreesUnfold, TreesUnfoldNext DEF CInv
      <4> QED
        BY <2>5, <2>15, <4>1 DEF Unfolded
    <3>2. Of(T, g[j]) = T[o] /\ Of(U, g[j]) = U[o]
      BY <2>3, <2>6 DEF Of, TreeIn
    <3> QED
      BY <3>1, <3>2
  <2>18. w[j] = Of(U, g[j]) /\ a[j] = Of(T, g[j]) /\ w[m] = Of(U, y.e[at])
    <3>1. w[j] = Of(Trees', g[j]) /\ w[m] = IF m = L THEN Of(Trees', d) ELSE Of(Trees', g[m])
      BY <2>2
    <3> QED
      BY <1>7, <2>2, <2>12, <2>15, <3>1
  <2> HIDE DEF w, a
  <2> QED
    BY <2>1, <2>7, <2>16, <2>17, <2>18
<1>9. w[L] = Of(Trees', d) /\ w[0] = IF L = 0 THEN Of(Trees', d) ELSE Of(Trees', g[0])
  OBVIOUS
<1> HIDE DEF w, a
<1>10. PICK new : new = Of(Trees', d)
  OBVIOUS
<1>11. Grafted(w, a, b.p, new)
  BY <1>3, <1>8, <1>9, <1>10 DEF Grafted
<1>12. PICK t : t = SemEnv[b.v]
  OBVIOUS
<1>13. Sem!With(t, b.p, new) = w[0]
  BY <1>2, <1>6, <1>11, <1>12, WithIs
<1>14. w[0] = SemEnv'[b.v]
  <2>1. SemEnv'[b.v] = Of(Trees', env'[b.v])
    BY <1>2, VarShownNext
  <2>2. CASE L = 0
    <3>1. env'[b.v] = d
      BY <1>1, <1>2, <1>3, <2>2 DEF WayTo, EnvWith
    <3> QED
      BY <1>9, <2>1, <2>2, <3>1
  <2>3. CASE L # 0
    <3>1. env'[b.v] = g[0]
      BY <1>3, <2>3 DEF WayTo, EnvWith
    <3> QED
      BY <1>9, <2>1, <2>3, <3>1
  <2> QED
    BY <2>2, <2>3
<1>15. ASSUME NEW v \in Var, v # b.v PROVE SemEnv'[v] = SemEnv[v]
  <2>1. env'[v] = env[v]
    BY <1>1, <1>15 DEF EnvWith
  <2>2. \A o \in OnWay(g, n) : ~RefersTo(env[v], o)
    BY <1>4, <1>15 DEF Apartness
  <2> QED
    BY <2>1, <2>2, VarKeptTree
<1>16. PICK E : E = SemEnv'
  OBVIOUS
<1>17. PICK F : F = SemEnv
  OBVIOUS
<1>18. E = [v \in Var |-> E[v]] /\ F = [v \in Var |-> F[v]]
  BY <1>16, <1>17, VarShown, VarShownNext
<1>19. \A v \in Var : E[v] = IF v = b.v THEN w[0] ELSE F[v]
  BY <1>14, <1>15, <1>16, <1>17
<1>20. E = [F EXCEPT ![b.v] = w[0]]
  BY <1>18, <1>19
<1> QED
  BY <1>10, <1>12, <1>13, <1>16, <1>17, <1>20

-----------------------------------------------------------------------------
(* Writing to a place.                                                     *)

LEMMA PlaceOperand ==
  ASSUME CInv, NEW k \in 0..1, Has(k + 1), NEW b, b = Operand(k), b.k = "borrow", Leads(b)
  PROVE  /\ b \in BorrowCell /\ ~Dangling(b) /\ b.v \in Var
         /\ Pointed(b) \in ValueCell /\ Alive(Pointed(b))
         /\ Sem!Operand(k) = Sem!Place(b.v, b.p)
         /\ Sem!IsPlace(k) /\ Sem!AtPlace(Sem!Operand(k)) = Of(Trees, Pointed(b))
         /\ \A new : Sem!SetPlace(Sem!Operand(k), new)
                       = [SemEnv EXCEPT ![b.v] = Sem!With(SemEnv[b.v], b.p, new)]
         /\ \E g : WayTo(g, b) /\ AloneTo(g, b, Len(b.p))
<1>1. IInv
  BY DEF CInv
<1>2. PICK j : j = Len(stack) - k
  OBVIOUS
<1>3. j \in DOMAIN stack /\ stack[j] = b
  <2>1. DOMAIN stack = 1..Len(stack) /\ Len(stack) \in Nat
    BY <1>1, SeqFinite DEF IInv
  <2> QED
    BY <1>2, <2>1 DEF Has, Operand
<1>4. /\ b \in BorrowCell /\ BorrowFits(env, heap, b) /\ ~Dangling(b)
      /\ Pointed(b) \in ValueCell /\ Alive(Pointed(b)) /\ b.v \in Var
  BY <1>3, Borrowed
<1>5. PICK g : WayTo(g, b)
  BY <1>4, Ways
<1>6. AloneTo(g, b, Len(b.p))
  BY <1>5 DEF AloneTo, WayTo
<1>7. Sem!Operand(k) = Sem!Place(b.v, b.p)
  <2>1. k \in 0..(Len(stack) - 1)
    BY <1>1, SemOperands DEF Has
  <2> QED
    BY <1>1, <2>1, SemOperands, ShownCells
<1>8. PICK pl : pl = Sem!Place(b.v, b.p)
  OBVIOUS
<1>9. pl.k = "place" /\ pl.v = b.v /\ pl.p = b.p
  BY <1>8 DEF Sem!Place
<1>10. Sem!AtPlace(pl) = Of(Trees, Pointed(b))
  <2>1. Sem!AtPlace(pl) = Sem!At(SemEnv[b.v], b.p)
    BY <1>9 DEF Sem!AtPlace, SemEnv
  <2>2. At(SemEnv[b.v], b.p) = Of(Trees, Pointed(b))
    BY <1>4, <1>5, WayTrees
  <2> QED
    BY <2>1, <2>2, SameNames
<1>11. Of(Trees, Pointed(b)) # Sem!Missing
  BY <1>4, CellValue, SameNames
<1>12. Sem!IsPlace(k) /\ Sem!AtPlace(Sem!Operand(k)) = Of(Trees, Pointed(b))
  BY <1>7, <1>8, <1>9, <1>10, <1>11 DEF Sem!IsPlace
<1>13. \A new : Sem!SetPlace(Sem!Operand(k), new)
                  = [SemEnv EXCEPT ![b.v] = Sem!With(SemEnv[b.v], b.p, new)]
  <2>1. \A new : Sem!SetPlace(pl, new) = [SemEnv EXCEPT ![b.v] = Sem!With(SemEnv[b.v], b.p, new)]
    BY <1>9 DEF Sem!SetPlace, SemEnv
  <2> QED
    BY <1>7, <1>8, <2>1
<1> QED
  BY <1>4, <1>5, <1>6, <1>7, <1>12, <1>13

(* Neither what b points at nor the elements of that lead to the way.      *)
LEMMA PlaceFree ==
  ASSUME CInv, NEW b \in BorrowCell, NEW g, WayTo(g, b), NEW n \in Nat, AloneTo(g, b, n),
         NEW c, c = Pointed(b), NEW o \in OnWay(g, n)
  PROVE  /\ n = Len(b.p) => ~RefersTo(c, o)
         /\ c.k = "ref" => \A i \in DOMAIN heap[c.o].e : ~RefersTo(heap[c.o].e[i], o)
<1>1. PICK L \in Nat : L = Len(b.p)
  BY LenProperties DEF BorrowCell
<1>2. Apartness(g, b, n) /\ c \in ValueCell /\ c = g[L]
  BY <1>1, WayApart DEF WayTo
<1>3. ASSUME n = L PROVE ~RefersTo(c, o)
  <2>1. PICK j \in 0..(n - 1) : o = g[j].o
    BY DEF OnWay
  <2>2. L \in 1..L /\ L - 1 \in 0..(n - 1)
    BY <1>3, <2>1
  <2>3. PICK l \in 0..(n - 1) : l = L - 1
    BY <2>2
  <2>4. PICK i : i = StepAt(g, b, L)
    OBVIOUS
  <2>5. i \in DOMAIN heap[g[l].o].e /\ c = heap[g[l].o].e[i]
    BY <1>1, <1>2, <2>2, <2>3, <2>4 DEF WayTo
  <2>6. ~(l + 1 < n)
    BY <1>3, <2>3
  <2> QED
    BY <1>2, <2>5, <2>6 DEF Apartness
<1>4. ASSUME c.k = "ref", NEW i \in DOMAIN heap[c.o].e PROVE ~RefersTo(heap[c.o].e[i], o)
  <2>1. CASE n = L
    <3>1. ~RefersTo(c, o) /\ c.o \in Obj
      BY <1>2, <1>3, <1>4, <2>1, ValueCells
    <3>2. RefersTo(heap[c.o].e[i], o) => c.o \in OnWay(g, n)
      BY <1>2, <1>4, <3>1 DEF Apartness, Closed, Refers
    <3>3. c.o # o
      BY <1>4, <3>1 DEF RefersTo, Counts
    <3>4. c.o \notin OnWay(g, n)
      <4> SUFFICES ASSUME c.o \in OnWay(g, n) PROVE FALSE
        OBVIOUS
      <4>1. PICK j \in 0..(n - 1) : c.o = g[j].o
        BY DEF OnWay
      <4>2. L \in 1..L /\ L - 1 \in 0..(n - 1)
        BY <2>1, <4>1
      <4>3. PICK l \in 0..(n - 1) : l = L - 1
        BY <4>2
      <4>4. PICK t : t = StepAt(g, b, L)
        OBVIOUS
      <4>5. t \in DOMAIN heap[g[l].o].e /\ c = heap[g[l].o].e[t]
        BY <1>1, <1>2, <4>2, <4>3, <4>4 DEF WayTo
      <4>6. RefersTo(c, c.o)
        BY <1>4 DEF RefersTo, Counts
      <4>7. l + 1 < n
        BY <1>2, <4>5, <4>6 DEF Apartness
      <4> QED
        BY <2>1, <4>3, <4>7
    <3> QED
      BY <3>2, <3>4
  <2>2. CASE n = L + 1
    <3>1. L \in 0..(n - 1) /\ ~(L + 1 < n)
      BY <2>2
    <3> QED
      BY <1>2, <1>4, <3>1 DEF Apartness
  <2> QED
    BY <1>1, <2>1, <2>2 DEF AloneTo
<1> QED
  BY <1>1, <1>2, <1>3, <1>4 DEF WayTo

(* Heap h is heap, but for the object pointed at when only b leads to it.  *)
Around(h, g, b, n) ==
  /\ WellFormed(h)
  /\ \A o \in Obj : heap[o].live => Same(heap[o], h[o]) \/ (n = Len(b.p) + 1 /\ o = g[Len(b.p)].o)

LEMMA WrittenHere ==
  ASSUME CInv, NEW b \in BorrowCell, NEW g, WayTo(g, b), NEW n \in Nat, AloneTo(g, b, n),
         NEW d \in ValueCell, NEW h, Around(h, g, b, n), heap' = HeapWith(h, b, d)
  PROVE  /\ Touches(OnWay(g, n)) /\ WrittenOnWay(g, b, d)
         /\ b.o # NoObj => b.o \in Obj /\ b.i \in DOMAIN heap'[b.o].e /\ heap'[b.o].e[b.i] = d
         /\ \A o \in Obj : o # b.o => heap'[o] = h[o]
<1>1. IInv
  BY DEF CInv
<1>2. PICK L \in Nat : L = Len(b.p)
  BY LenProperties DEF BorrowCell
<1>3. Apartness(g, b, n)
  BY WayApart
<1>4. ASSUME NEW j \in 0..(L - 1) PROVE Same(heap[g[j].o], h[g[j].o]) /\ g[j].o \in Obj /\ j \in 0..(n - 1)
  <2>1. j \in 0..(n - 1) /\ j \in 0..L
    BY <1>2 DEF AloneTo
  <2>2. PICK o : o = g[j].o
    OBVIOUS
  <2>3. o \in Obj /\ heap[o].live
    <3>1. g[j].k = "ref" /\ g[j] \in ValueCell /\ Alive(g[j])
      BY <1>2, <1>4, <2>1 DEF WayTo
    <3> QED
      BY <2>2, <3>1, ValueCells DEF Alive, RefersTo
  <2>4. ASSUME n = L + 1 PROVE o # g[L].o
    <3>1. L \in 0..(n - 1) /\ j < L
      BY <2>4
    <3> QED
      BY <2>1, <2>2, <3>1, WayDistinct
  <2>5. Same(heap[o], h[o])
    BY <1>2, <2>3, <2>4 DEF Around
  <2> QED
    BY <2>1, <2>2, <2>3, <2>5
<1>5. b.o # NoObj => b.o \in Obj /\ b.o \in OnWay(g, n) /\ b.i \in DOMAIN h[b.o].e
  <2> SUFFICES ASSUME b.o # NoObj PROVE b.o \in Obj /\ b.o \in OnWay(g, n) /\ b.i \in DOMAIN h[b.o].e
    OBVIOUS
  <2>1. L > 0
    BY <1>2 DEF WayTo
  <2>2. L - 1 \in 0..(L - 1) /\ L \in 1..L
    BY <2>1
  <2>3. PICK l \in 0..(L - 1) : l = L - 1
    BY <2>2
  <2>4. g[l].o = b.o /\ b.i \in DOMAIN heap[g[l].o].e
    BY <1>2, <2>1, <2>2, <2>3 DEF WayTo
  <2> QED
    BY <1>4, <2>4 DEF Same, OnWay
<1>6. WellFormed(h) /\ DOMAIN h = Obj /\ h = [o \in Obj |-> h[o]]
  BY DEF Around, WellFormed
<1>7. \A o \in Obj : /\ heap'[o].tab = h[o].tab /\ heap'[o].keys = h[o].keys /\ Len(heap'[o].e) = Len(h[o].e)
                     /\ DOMAIN heap'[o].e = DOMAIN h[o].e
                     /\ \A j \in DOMAIN h[o].e : heap'[o].e[j] = IF o = b.o /\ j = b.i THEN d ELSE h[o].e[j]
  BY <1>5, <1>6, WrittenIs
<1>8. \A o \in Obj : o # b.o => heap'[o] = h[o]
  BY <1>6, WrittenElsewhere
<1>9. WrittenOnWay(g, b, d)
  <2>1. ASSUME NEW j \in 0..(L - 1)
        PROVE  /\ heap'[g[j].o].tab = heap[g[j].o].tab /\ heap'[g[j].o].keys = heap[g[j].o].keys
               /\ Len(heap'[g[j].o].e) = Len(heap[g[j].o].e)
               /\ \A i \in DOMAIN heap[g[j].o].e :
                    heap'[g[j].o].e[i] = IF g[j].o = b.o /\ i = b.i THEN d ELSE heap[g[j].o].e[i]
    <3>1. PICK o : o = g[j].o
      OBVIOUS
    <3>2. Same(heap[o], h[o]) /\ o \in Obj
      BY <1>4, <2>1, <3>1
    <3>3. /\ heap'[o].tab = heap[o].tab /\ heap'[o].keys = heap[o].keys
          /\ Len(heap'[o].e) = Len(heap[o].e)
          /\ \A i \in DOMAIN heap[o].e : heap'[o].e[i] = IF o = b.o /\ i = b.i THEN d ELSE heap[o].e[i]
      BY <1>7, <3>2 DEF Same
    <3> QED
      BY <3>1, <3>3
  <2> QED
    BY <1>2, <2>1 DEF WrittenOnWay
<1>10. Touches(OnWay(g, n))
  <2>1. ASSUME NEW o \in Obj \ OnWay(g, n), heap[o].live PROVE Same(heap[o], heap'[o])
    <3>1. heap'[o] = h[o]
      BY <1>5, <1>8, <2>1, HeapAssumption
    <3>2. n = L + 1 => o # g[L].o
      BY <1>2, <2>1 DEF OnWay
    <3> QED
      BY <1>2, <2>1, <3>1, <3>2 DEF Around
  <2> QED
    BY <1>3, <2>1 DEF Touches, Apartness
<1> QED
  BY <1>5, <1>7, <1>8, <1>9, <1>10

LEMMA PlaceStep ==
  ASSUME CInv, CInv', NEW b \in BorrowCell, NEW g, WayTo(g, b), NEW n \in Nat, AloneTo(g, b, n),
         NEW d \in ValueCell, NEW h, Around(h, g, b, n), heap' = HeapWith(h, b, d), env' = EnvWith(b, d),
         UNCHANGED status, NEW m \in 0..Len(stack), NEW x \in OperandCell, Len(stack') <= MaxStack,
         NEW E, E = [SemEnv EXCEPT ![b.v] = Sem!With(SemEnv[b.v], b.p, Of(Trees', d))]
  PROVE  /\ stack' = Below(m) => Sem!Step(E, Sem!Below(m))
         /\ stack' = Append(Below(m), x) => Sem!Step(E, Append(Sem!Below(m), Shown(Trees', heap', x)))
<1>1. IInv
  BY DEF CInv
<1>2. Touches(OnWay(g, n)) /\ WrittenOnWay(g, b, d)
  BY WrittenHere
<1>3. SemEnv' = E
  BY <1>2, PlaceMapped
<1>4. \A o \in OnWay(g, n) : \A j \in 1..(Len(stack) - m) : ~RefersTo(stack[j], o)
  <2>1. \A o \in OnWay(g, n) : ~OnStack(o)
    BY WayApart DEF Apartness
  <2>2. DOMAIN stack = 1..Len(stack) /\ Len(stack) \in Nat
    BY <1>1, SeqFinite DEF IInv
  <2>3. \A j \in 1..(Len(stack) - m) : j \in DOMAIN stack
    BY <2>2
  <2> QED
    BY <2>1, <2>3 DEF OnStack
<1>5. PICK P : P = OnWay(g, n)
  OBVIOUS
<1>6. Touches(P) /\ \A o \in P : \A j \in 1..(Len(stack) - m) : ~RefersTo(stack[j], o)
  BY <1>2, <1>4, <1>5
<1> QED
  BY <1>3, <1>6, SemLeft

(* What is written is alive after the step.                                *)
LEMMA WrittenAlive ==
  ASSUME CInv, CInv', NEW b \in BorrowCell, NEW g, WayTo(g, b), NEW n \in Nat, AloneTo(g, b, n),
         NEW d \in ValueCell, NEW h, Around(h, g, b, n), heap' = HeapWith(h, b, d), env' = EnvWith(b, d)
  PROVE  Alive(d)'
<1>1. IInv' /\ b.v \in Var /\ env \in [Var -> ValueCell]
  BY DEF CInv, IInv, BorrowCell
<1>2. CASE b.o = NoObj
  <2>1. env'[b.v] = d
    BY <1>1, <1>2 DEF EnvWith
  <2> QED
    BY <1>1, <2>1, AliveElsewhere
<1>3. CASE b.o # NoObj
  <2>1. b.o \in Obj /\ b.i \in DOMAIN heap'[b.o].e /\ heap'[b.o].e[b.i] = d
    BY <1>3, WrittenHere
  <2> QED
    BY <1>1, <2>1, AliveElsewhere
<1> QED
  BY <1>2, <1>3

LEMMA QuietAround ==
  ASSUME CInv, NEW b, NEW g
  PROVE  \A n : Around(heap, g, b, n)
<1>1. WellFormed(heap)
  BY HeapWellFormed DEF CInv
<1> QED
  BY <1>1 DEF Around, Same

(* An unchanged place.                                                     *)
LEMMA WithSame ==
  ASSUME CInv, NEW b \in BorrowCell, NEW g, WayTo(g, b)
  PROVE  Sem!With(SemEnv[b.v], b.p, Of(Trees, Pointed(b))) = SemEnv[b.v]
<1>1. IInv /\ HeapOK(heap) /\ Ordered(heap) /\ b.p \in Seq(Int)
  BY DEF CInv, IInv, BorrowCell
<1>2. PICK L \in Nat : L = Len(b.p)
  BY <1>1, LenProperties
<1>3. PICK a : a = [j \in 0..Len(b.p) |-> Of(Trees, g[j])]
  OBVIOUS
<1>4. Along(a, SemEnv[b.v], b.p)
  BY <1>3, WayTrees
<1>5. ASSUME NEW j \in 0..(L - 1) PROVE a[j] = Graft(a[j], b.p[j + 1], a[j + 1])
  <2>1. PICK m : m = j + 1
    OBVIOUS
  <2>2. m \in 1..L /\ m - 1 = j /\ j \in 0..L /\ m \in 0..L
    BY <2>1
  <2>3. PICK c : c = g[j]
    OBVIOUS
  <2>4. c.k = "ref" /\ c \in ValueCell /\ c.o \in Obj
    BY <1>2, <2>2, <2>3, ValueCells DEF WayTo
  <2>5. PICK at, x : at = StepAt(g, b, m) /\ x = heap[c.o]
    OBVIOUS
  <2>6. at \in DOMAIN x.e /\ g[m] = x.e[at]
    BY <1>2, <2>2, <2>3, <2>5 DEF WayTo
  <2>7. PICK z \in Int : z = b.p[m]
    BY <1>1, <1>2, <2>2, ElementOfSeq
  <2>8. at = IF x.tab THEN Entry(x.keys, z) ELSE z
    BY <2>2, <2>3, <2>5, <2>7 DEF StepAt, AtStep
  <2>9. Keyed(x) /\ x.keys \in Seq(Int) /\ x.e \in Seq(ValueCell)
    BY <1>1, <2>4, <2>5 DEF HeapOK, Shaped
  <2>10. PICK T : T = Trees
    OBVIOUS
  <2>11. Over(T, x) = Graft(Over(T, x), z, Of(T, x.e[at]))
    BY <2>6, <2>8, <2>9, GraftOf
  <2>12. Of(T, c) = Over(T, x)
    BY <2>4, <2>5, <2>10, CellValue
  <2>13. a[j] = Of(T, c) /\ a[m] = Of(T, x.e[at])
    BY <1>2, <1>3, <2>2, <2>3, <2>6, <2>10
  <2> QED
    BY <2>1, <2>7, <2>11, <2>12, <2>13
<1>6. PICK new : new = Of(Trees, Pointed(b))
  OBVIOUS
<1>7. a[L] = new /\ a[0] = SemEnv[b.v]
  BY <1>2, <1>3, <1>4, <1>6 DEF WayTo, Along
<1>8. Grafted(a, a, b.p, new)
  BY <1>2, <1>5, <1>7 DEF Grafted
<1>9. PICK t : t = SemEnv[b.v]
  OBVIOUS
<1>10. Sem!With(t, b.p, new) = a[0]
  BY <1>1, <1>4, <1>8, <1>9, WithIs
<1> QED
  BY <1>6, <1>7, <1>9, <1>10

-----------------------------------------------------------------------------
(* The actions on places are those of ValueSem.                            *)

LEMMA WriteBorrowedSem ==
  ASSUME CInv, CInv', Careful, WriteBorrowed
  PROVE  Sem!WriteBorrowed
<1>1. PICK b, d : b = Operand(1) /\ d = Operand(0)
  OBVIOUS
<1>2. IInv /\ Has(2) /\ b.k = "borrow" /\ IsCell(d) /\ Leads(b) /\ 2 \in 0..Len(stack)
  BY <1>1, Leaving DEF CInv, WriteBorrowed, MayUse, Careful
<1>3. PICK k \in 0..1 : k = 1
  OBVIOUS
<1>4. Has(k + 1) /\ b = Operand(k)
  <2>1. k + 1 = 2
    BY <1>3
  <2> QED
    BY <1>1, <1>2, <1>3, <2>1
<1>5. /\ b \in BorrowCell /\ ~Dangling(b) /\ Sem!IsPlace(k)
      /\ \A new : Sem!SetPlace(Sem!Operand(k), new)
                    = [SemEnv EXCEPT ![b.v] = Sem!With(SemEnv[b.v], b.p, new)]
  BY <1>2, <1>4, PlaceOperand
<1>6. PICK g : WayTo(g, b) /\ AloneTo(g, b, Len(b.p))
  BY <1>2, <1>4, PlaceOperand
<1>7. PICK n \in Nat : n = Len(b.p)
  BY <1>5, LenProperties DEF BorrowCell
<1>8. d \in ValueCell /\ Alive(d) /\ Sem!Operand(0) = Of(Trees, d) /\ Sem!Value(0)
  <2>1. 0 \in 0..(2 - 1) /\ 2 \in Nat
    OBVIOUS
  <2> QED
    BY <1>1, <1>2, <2>1, SemValues
<1>9. /\ env' = EnvWith(b, d) /\ heap' = HeapWith(heap, b, d) /\ stack' = Below(2) /\ UNCHANGED status
      /\ Len(stack') <= MaxStack
  <2>1. Do(EnvWith(b, d), Below(2), HeapWith(heap, b, d), <<Pointed(b)>>)
    BY <1>1, <1>5 DEF WriteBorrowed
  <2> QED
    BY <2>1, StackBounded
<1>10. AloneTo(g, b, n) /\ Around(heap, g, b, n)
  BY <1>6, <1>7, QuietAround
<1>11. Of(Trees', d) = Of(Trees, d)
  <2>1. Alive(d)'
    BY <1>5, <1>6, <1>8, <1>9, <1>10, WrittenAlive
  <2>2. Touches(OnWay(g, n))
    BY <1>5, <1>6, <1>8, <1>9, <1>10, WrittenHere
  <2>3. \A o \in OnWay(g, n) : ~RefersTo(d, o)
    <3>1. \A o \in OnWay(g, n) : ~OnStack(o)
      BY <1>5, <1>6, <1>10, WayApart DEF Apartness
    <3>2. Len(stack) \in DOMAIN stack /\ stack[Len(stack)] = d
      BY <1>1, <1>2, Tops
    <3> QED
      BY <3>1, <3>2 DEF OnStack
  <2>4. d \in OperandCell
    BY <1>8, ValueCells
  <2> QED
    BY <1>8, <2>1, <2>2, <2>3, <2>4, CellKept
<1>12. PICK E : E = [SemEnv EXCEPT ![b.v] = Sem!With(SemEnv[b.v], b.p, Of(Trees', d))]
  OBVIOUS
<1>13. Sem!Step(E, Sem!Below(2))
  <2>1. PICK m \in 0..Len(stack) : m = 2
    BY <1>2
  <2>2. stack' = Below(m) /\ d \in OperandCell
    BY <1>8, <1>9, <2>1, ValueCells
  <2>3. Sem!Step(E, Sem!Below(m))
    BY <1>5, <1>6, <1>8, <1>9, <1>10, <1>12, <2>2, PlaceStep
  <2> QED
    BY <2>1, <2>3
<1>14. E = Sem!SetPlace(Sem!Operand(1), Sem!Operand(0))
  BY <1>3, <1>5, <1>8, <1>11, <1>12
<1>15. Sem!Has(2)
  BY <1>2, SemOperands
<1> QED
  BY <1>3, <1>5, <1>8, <1>13, <1>14, <1>15 DEF Sem!WriteBorrowed

LEMMA MoveSem ==
  ASSUME CInv, CInv', Move
  PROVE  Sem!Move
<1>1. PICK b : b = Operand(0)
  OBVIOUS
<1>2. PICK c : c = Pointed(b)
  OBVIOUS
<1>3. /\ IInv /\ Has(1) /\ b.k = "borrow" /\ Leads(b) /\ 1 \in 0..Len(stack)
      /\ env' = EnvWith(b, Null) /\ stack' = Append(Below(1), c) /\ heap' = HeapWith(heap, b, Null)
      /\ UNCHANGED status /\ Len(stack') <= MaxStack
  BY <1>1, <1>2, Leaving DEF CInv, Move, Do
<1>4. PICK k \in 0..1 : k = 0
  OBVIOUS
<1>5. Has(k + 1) /\ b = Operand(k)
  <2>1. k + 1 = 1
    BY <1>4
  <2> QED
    BY <1>1, <1>3, <1>4, <2>1
<1>6. /\ b \in BorrowCell /\ c \in ValueCell /\ Alive(c) /\ Sem!IsPlace(k)
      /\ Sem!AtPlace(Sem!Operand(k)) = Of(Trees, c)
      /\ \A new : Sem!SetPlace(Sem!Operand(k), new)
                    = [SemEnv EXCEPT ![b.v] = Sem!With(SemEnv[b.v], b.p, new)]
  BY <1>2, <1>3, <1>5, PlaceOperand
<1>7. PICK g : WayTo(g, b) /\ AloneTo(g, b, Len(b.p))
  BY <1>3, <1>5, PlaceOperand
<1>8. PICK n \in Nat : n = Len(b.p)
  BY <1>6, LenProperties DEF BorrowCell
<1>9. PICK d \in ValueCell : d = Null
  BY ValueCells
<1>10. AloneTo(g, b, n) /\ Around(heap, g, b, n) /\ env' = EnvWith(b, d) /\ heap' = HeapWith(heap, b, d)
  BY <1>3, <1>7, <1>8, <1>9, QuietAround
<1>11. c \in OperandCell /\ c.k \in {"num", "null", "ref"}
  BY <1>6, ValueCells
<1>12. Of(Trees', c) = Of(Trees, c)
  <2>1. Alive(c)'
    <3>1. Below(1) \in Seq(OperandCell)
      BY <1>3, Operands
    <3>2. stack'[Len(Below(1)) + 1] = c /\ Len(Below(1)) + 1 \in DOMAIN stack'
      BY <1>3, <1>11, <3>1, AppendProperties, SeqFinite
    <3> QED
      BY <3>2, AliveElsewhere DEF CInv
  <2>2. Touches(OnWay(g, n))
    BY <1>6, <1>7, <1>10, WrittenHere
  <2>3. \A o \in OnWay(g, n) : ~RefersTo(c, o)
    BY <1>2, <1>6, <1>7, <1>8, <1>10, PlaceFree
  <2> QED
    BY <1>6, <1>11, <2>1, <2>2, <2>3, CellKept
<1>13. PICK E : E = [SemEnv EXCEPT ![b.v] = Sem!With(SemEnv[b.v], b.p, Of(Trees', d))]
  OBVIOUS
<1>14. Sem!Step(E, Append(Sem!Below(1), Of(Trees, c)))
  <2>1. PICK m \in 0..Len(stack) : m = 1
    BY <1>3
  <2>2. stack' = Append(Below(m), c)
    BY <1>3, <2>1
  <2>3. Sem!Step(E, Append(Sem!Below(m), Shown(Trees', heap', c)))
    BY <1>3, <1>6, <1>7, <1>10, <1>11, <1>13, <2>2, PlaceStep
  <2> QED
    BY <1>11, <1>12, <2>1, <2>3, ShownCells
<1>15. Of(Trees', d) = Sem!Null
  <2>1. Of(Trees', Null) = Null
    BY DEF Of, TreeIn, Null
  <2> QED
    BY <1>9, <2>1, SameNames
<1>16. E = Sem!SetPlace(Sem!Operand(0), Sem!Null)
  BY <1>4, <1>6, <1>13, <1>15
<1>17. Sem!Has(1)
  BY <1>3, SemOperands
<1> QED
  BY <1>4, <1>6, <1>14, <1>16, <1>17 DEF Sem!Move

(* An object that is what c refers to, under another name, is not where    *)
(* the place is.                                                           *)
LEMMA ElsewhereThanPlace ==
  ASSUME CInv, NEW b \in BorrowCell, NEW g, WayTo(g, b), NEW c, c = Pointed(b), c.k = "ref",
         NEW o, o = c.o \/ (o \in Obj /\ ~heap[o].live)
  PROVE  o # b.o
<1>1. CASE b.o = NoObj
  BY <1>1, HeapAssumption, ValueCells, LenProperties DEF WayTo, BorrowCell
<1>2. CASE b.o # NoObj
  <2>1. PICK n \in Nat : n = Len(b.p)
    BY LenProperties DEF BorrowCell
  <2>2. AloneTo(g, b, n)
    BY <2>1 DEF AloneTo, WayTo
  <2>3. n > 0 /\ n - 1 \in 0..(n - 1) /\ n - 1 \in 0..n
    BY <1>2, <2>1 DEF WayTo
  <2>4. b.o = g[n - 1].o /\ g[n - 1].k = "ref" /\ Alive(g[n - 1])
    BY <2>1, <2>3 DEF WayTo
  <2>5. b.o \in OnWay(g, n) /\ heap[b.o].live
    BY <2>3, <2>4 DEF OnWay, Alive, RefersTo, Counts
  <2>6. ~RefersTo(c, b.o)
    BY <2>1, <2>2, <2>5, PlaceFree
  <2> QED
    BY <2>5, <2>6 DEF RefersTo, Counts
<1> QED
  BY <1>1, <1>2

LEMMA ClonedFrom ==
  ASSUME NEW c \in ValueCell, c.k = "ref", NEW r \in Cloned(c)
  PROVE  \/ r.c = c /\ r.h = heap /\ ~(RcOf(c) > 1)
         \/ r.c.k = "ref" /\ r.c.o \in Obj /\ ~heap[r.c.o].live
<1>1. CASE RcOf(c) > 1
  BY <1>1 DEF Cloned, Free, Ref
<1>2. CASE ~(RcOf(c) > 1)
  BY <1>2 DEF Cloned
<1> QED
  BY <1>1, <1>2

-----------------------------------------------------------------------------
(* Borrowing a place in a place.                                           *)

LEMMA ClonedAround ==
  ASSUME CInv, NEW b \in BorrowCell, NEW g, WayTo(g, b), NEW n \in Nat, n = Len(b.p),
         NEW c, c = Pointed(b), c.k = "ref", NEW r \in Cloned(c)
  PROVE  /\ Around(r.h, g, b, n) /\ r.c \in ValueCell /\ r.c.k = "ref" /\ r.c.o \in Obj
         /\ c \in ValueCell /\ c.o \in Obj /\ Same(heap[c.o], r.h[r.c.o]) /\ r.c.o # b.o
<1>1. IInv /\ c \in ValueCell /\ Alive(c)
  <2>1. n \in 0..Len(b.p)
    OBVIOUS
  <2> QED
    BY <2>1 DEF CInv, WayTo
<1>2. /\ r.c \in ValueCell /\ WellFormed(r.h) /\ r.c.k = "ref" /\ r.c.o \in Obj /\ c.o \in Obj
      /\ \A o \in Obj : heap[o].live => Same(heap[o], r.h[o])
      /\ Same(heap[c.o], r.h[r.c.o])
  BY <1>1, ClonedIs
<1>3. r.c.o = c.o \/ (r.c.o \in Obj /\ ~heap[r.c.o].live)
  BY <1>1, ClonedFrom
<1>4. r.c.o # b.o
  BY <1>3, ElsewhereThanPlace
<1> QED
  BY <1>1, <1>2, <1>4 DEF Around

LEMMA BorrowElementSem ==
  ASSUME CInv, CInv', Careful, BorrowElement
  PROVE  Sem!BorrowElement
<1>1. PICK b, i : b = Operand(1) /\ i = Operand(0)
  OBVIOUS
<1>2. PICK c : c = Pointed(b)
  OBVIOUS
<1>3. PICK at : at = Index(c, i)
  OBVIOUS
<1>4. IInv /\ Has(2) /\ b.k = "borrow" /\ IsCell(i) /\ Leads(b) /\ 2 \in 0..Len(stack)
  BY <1>1, Leaving DEF CInv, BorrowElement, MayUse, Careful
<1>5. PICK k \in 0..1 : k = 1
  OBVIOUS
<1>6. Has(k + 1) /\ b = Operand(k)
  <2>1. k + 1 = 2
    BY <1>5
  <2> QED
    BY <1>1, <1>4, <1>5, <2>1
<1>7. /\ b \in BorrowCell /\ ~Dangling(b) /\ b.v \in Var /\ c \in ValueCell /\ Alive(c)
      /\ Sem!IsPlace(k) /\ Sem!Operand(k) = Sem!Place(b.v, b.p)
      /\ Sem!AtPlace(Sem!Operand(k)) = Of(Trees, c)
  BY <1>2, <1>4, <1>6, PlaceOperand
<1>8. PICK g : WayTo(g, b) /\ AloneTo(g, b, Len(b.p))
  BY <1>4, <1>6, PlaceOperand
<1>9. PICK n \in Nat : n = Len(b.p)
  BY <1>7, LenProperties DEF BorrowCell
<1>10. i \in ValueCell /\ Alive(i) /\ Sem!Operand(0) = Of(Trees, i) /\ Sem!Value(0)
  <2>1. 0 \in 0..(2 - 1) /\ 2 \in Nat
    OBVIOUS
  <2> QED
    BY <1>1, <1>4, <2>1, SemValues
<1>11. PICK pl, t : pl = Sem!Operand(1) /\ t = Sem!AtPlace(pl)
  OBVIOUS
<1>12. pl.v = b.v /\ pl.p = b.p /\ t = Of(Trees, c)
  <2>1. pl = Sem!Place(b.v, b.p)
    BY <1>5, <1>7, <1>11
  <2> QED
    BY <1>5, <1>7, <1>11, <2>1 DEF Sem!Place
<1>13. Sem!Has(2) /\ Sem!IsPlace(1)
  BY <1>4, <1>5, <1>7, SemOperands
<1>14. CASE at = 0
  <2>1. Stop("raised")
    BY <1>1, <1>2, <1>3, <1>7, <1>14 DEF BorrowElement
  <2>2. Sem!Raise
    BY <2>1, StopSem
  <2>3. Sem!Indexed(t, Sem!Operand(0)) = Sem!Missing
    BY <1>3, <1>7, <1>10, <1>12, <1>14, IndexedOf, SameNames
  <2> QED
    BY <1>10, <1>11, <1>13, <2>2, <2>3 DEF Sem!BorrowElement
<1>15. CASE at # 0
  <2>1. PICK s : s = StepOf(c, i.n)
    OBVIOUS
  <2>2. /\ Sem!Indexed(t, Sem!Operand(0)) # Sem!Missing /\ c.k = "ref"
        /\ Sem!Toward(t, Sem!Operand(0).n) = s
    <3>1. /\ Indexed(Of(Trees, c), Of(Trees, i)) = Of(Trees, Elems(c)[Index(c, i)])
          /\ Of(Trees, Elems(c)[Index(c, i)]) # Missing
          /\ c.k = "ref" /\ Of(Trees, i) = i /\ Toward(Of(Trees, c), i.n) = StepOf(c, i.n)
      BY <1>3, <1>7, <1>10, <1>15, IndexedOf
    <3> QED
      BY <1>10, <1>12, <2>1, <3>1, SameNames
  <2>3. PICK r \in Cloned(c) : \E rcs, len :
          Do(EnvWith(b, r.c), Append(Below(2), BorrowOf(b.v, Append(b.p, s), r.c.o, at, len, rcs)),
             HeapWith(r.h, b, r.c), r.d)
    BY <1>1, <1>2, <1>3, <1>7, <1>15, <2>1 DEF BorrowElement
  <2>4. PICK rcs, len : Do(EnvWith(b, r.c), Append(Below(2), BorrowOf(b.v, Append(b.p, s), r.c.o, at, len, rcs)),
                           HeapWith(r.h, b, r.c), r.d)
    BY <2>3
  <2>5. PICK x : x = BorrowOf(b.v, Append(b.p, s), r.c.o, at, len, rcs)
    OBVIOUS
  <2>6. PICK d, h : d = r.c /\ h = r.h
    OBVIOUS
  <2>7. /\ env' = EnvWith(b, d) /\ stack' = Append(Below(2), x) /\ heap' = HeapWith(h, b, d)
        /\ UNCHANGED status /\ Len(stack') <= MaxStack
    BY <2>4, <2>6, <2>5, StackBounded
  <2>8. /\ Around(h, g, b, n) /\ d \in ValueCell /\ d.k = "ref" /\ d.o \in Obj
        /\ c.o \in Obj /\ Same(heap[c.o], h[d.o]) /\ d.o # b.o
    BY <1>2, <1>7, <1>8, <1>9, <2>2, <2>6, ClonedAround
  <2>9. AloneTo(g, b, n)
    BY <1>8, <1>9
  <2>10. Touches(OnWay(g, n)) /\ heap'[d.o] = h[d.o]
    BY <1>7, <1>8, <2>7, <2>8, <2>9, WrittenHere
  <2>11. Alive(d)'
    BY <1>7, <1>8, <2>7, <2>8, <2>9, WrittenAlive
  <2>12. Of(Trees', d) = Of(Trees, c)
    <3>1. \A o \in OnWay(g, n) : ~RefersTo(c, o)
      BY <1>2, <1>7, <1>8, <1>9, <2>9, PlaceFree
    <3>2. PICK P : P = OnWay(g, n)
      OBVIOUS
    <3>3. Touches(P) /\ \A o \in P : ~RefersTo(c, o)
      BY <2>10, <3>1, <3>2
    <3> QED
      BY <1>7, <2>2, <2>8, <2>10, <2>11, <3>3, TwinTree
  <2>13. PICK E : E = [SemEnv EXCEPT ![b.v] = Sem!With(SemEnv[b.v], b.p, Of(Trees', d))]
    OBVIOUS
  <2>14. E = SemEnv
    <3>1. Sem!With(SemEnv[b.v], b.p, Of(Trees', d)) = SemEnv[b.v]
      BY <1>2, <1>7, <1>8, <2>12, WithSame
    <3>2. PICK F : F = SemEnv
      OBVIOUS
    <3>3. F = [v \in Var |-> F[v]]
      BY <3>2, VarShown
    <3>4. E = [F EXCEPT ![b.v] = F[b.v]]
      BY <2>13, <3>1, <3>2
    <3> QED
      BY <3>2, <3>3, <3>4
  <2>15. x.k = "borrow" /\ x.v = b.v /\ x.p = Append(b.p, s)
    BY <2>5 DEF BorrowOf
  <2>16. Sem!Step(SemEnv, Append(Sem!Below(2), Sem!Place(b.v, Append(b.p, s))))
    <3>1. PICK m \in 0..Len(stack) : m = 2
      BY <1>4
    <3>2. x \in OperandCell /\ stack' = Append(Below(m), x)
      BY <1>4, <2>7, <3>1, Pushed DEF CInv
    <3>3. Sem!Step(E, Append(Sem!Below(m), Shown(Trees', heap', x)))
      BY <1>7, <1>8, <2>7, <2>8, <2>9, <2>13, <3>2, PlaceStep
    <3>4. Shown(Trees', heap', x) = Sem!Place(b.v, Append(b.p, s))
      BY <2>15, ShownCells
    <3> QED
      BY <2>14, <3>1, <3>3, <3>4
  <2>17. Sem!Step(SemEnv, Append(Sem!Below(2),
                    Sem!Place(pl.v, Append(pl.p, Sem!Toward(t, Sem!Operand(0).n)))))
    BY <1>12, <2>2, <2>16
  <2> QED
    BY <1>10, <1>11, <1>13, <2>2, <2>17 DEF Sem!BorrowElement, SemEnv
<1> QED
  BY <1>14, <1>15

Gains(y, z, t) == t = Entered(y, z)

TreeGains(T, x, z, t) ==
  /\ Over(T, t) = Inserted(Over(T, x), z)
  /\ Cardinality(DOMAIN Over(T, x).e \union {z}) = Len(t.e)

(* The tree of a table that was given a key.                               *)
LEMMA EnteredTree ==
  ASSUME NEW T, NEW x, NEW y, Same(x, y), x.tab, Keyed(x), x.keys \in Seq(Int), x.e \in Seq(ValueCell),
         NEW z \in Int, NEW t, Gains(y, z, t), t.tab, Keyed(t), t.keys \in Seq(Int), t.e \in Seq(ValueCell)
  PROVE  TreeGains(T, x, z, t)
<1>1. PICK f, u, e : f = x.keys /\ u = t.keys /\ e = x.e
  OBVIOUS
<1>2. /\ f \in Seq(Int) /\ u \in Seq(Int) /\ e \in Seq(ValueCell) /\ Len(f) = Len(e) /\ Len(u) = Len(t.e)
      /\ DOMAIN f = 1..Len(f) /\ DOMAIN u = 1..Len(u) /\ DOMAIN e = 1..Len(e) /\ DOMAIN t.e = 1..Len(t.e)
      /\ Len(f) \in Nat /\ Len(u) \in Nat
  BY <1>1, SeqFinite DEF Keyed
<1>3. y.keys = f /\ y.e = e
  BY <1>1 DEF Same
<1>4. PICK K, M : K = {f[j] : j \in DOMAIN f} /\ M = {u[j] : j \in DOMAIN u}
  OBVIOUS
<1>5. /\ Over(T, x) = Tab([n \in K |-> Of(T, e[Entry(f, n)])]) /\ Over(T, t) = Tab([n \in M |-> Of(T, t.e[Entry(u, n)])])
      /\ \A j \in DOMAIN f : Entry(f, f[j]) = j
      /\ \A j \in DOMAIN u : Entry(u, u[j]) = j
  <2>1. /\ Over(T, x) = Tab([n \in {x.keys[j] : j \in DOMAIN x.keys} |-> Of(T, x.e[Entry(x.keys, n)])])
        /\ \A j \in DOMAIN x.keys : Entry(x.keys, x.keys[j]) = j
    BY TableTree
  <2>2. /\ Over(T, t) = Tab([n \in {t.keys[j] : j \in DOMAIN t.keys} |-> Of(T, t.e[Entry(t.keys, n)])])
        /\ \A j \in DOMAIN t.keys : Entry(t.keys, t.keys[j]) = j
    <3>1. PICK s : s = t
      OBVIOUS
    <3>2. s.tab /\ Keyed(s) /\ s.keys \in Seq(Int) /\ s.e \in Seq(ValueCell)
      BY <3>1
    <3>3. /\ Over(T, s) = Tab([n \in {s.keys[j] : j \in DOMAIN s.keys} |-> Of(T, s.e[Entry(s.keys, n)])])
          /\ \A j \in DOMAIN s.keys : Entry(s.keys, s.keys[j]) = j
      BY <3>2, TableTree
    <3> QED
      BY <3>1, <3>3
  <2> QED
    BY <1>1, <1>4, <2>1, <2>2
<1>6. M = K \union {z} /\ \A n \in M : IF n \in K THEN t.e[Entry(u, n)] = e[Entry(f, n)] ELSE t.e[Entry(u, n)] = Null
  <2>1. CASE Entry(f, z) # 0
    <3>1. u = f /\ t.e = e
      BY <1>1, <1>3, <2>1 DEF Gains, Entered
    <3>2. z \in K
      <4>1. \A i, j \in DOMAIN f : f[i] = f[j] => i = j
        BY <1>1 DEF Keyed
      <4>2. Entry(f, z) \in DOMAIN f /\ f[Entry(f, z)] = z
        BY <1>2, <2>1, <4>1, EntryFound
      <4> QED
        BY <1>4, <4>2
    <3> QED
      BY <1>4, <3>1, <3>2
  <2>2. CASE Entry(f, z) = 0
    <3>1. u = Append(f, z) /\ t.e = Append(e, Null)
      BY <1>1, <1>3, <2>2 DEF Gains, Entered
    <3>2. /\ Len(u) = Len(f) + 1 /\ u[Len(f) + 1] = z /\ \A j \in 1..Len(f) : u[j] = f[j]
          /\ Len(t.e) = Len(f) + 1 /\ t.e[Len(f) + 1] = Null /\ \A j \in 1..Len(f) : t.e[j] = e[j]
      BY <1>2, <3>1, AppendProperties, ValueCells
    <3>3. PICK l \in Nat : l = Len(f)
      BY <1>2
    <3>4. DOMAIN u = 1..(l + 1) /\ DOMAIN f = 1..l /\ l + 1 \in 1..(l + 1)
          /\ \A j \in 1..(l + 1) : j \in 1..l \/ j = l + 1
      BY <1>2, <3>2, <3>3
    <3>5. \A j \in 1..l : j \in 1..(l + 1)
      OBVIOUS
    <3>6. z \notin K
      <4> SUFFICES ASSUME NEW j \in DOMAIN f, f[j] = z PROVE FALSE
        BY <1>4
      <4>1. j \in 1..l /\ j # 0
        BY <3>4
      <4> QED
        BY <1>5, <2>2, <4>1
    <3>7. M = K \union {z}
      <4>1. \A n : n \in M => n \in K \union {z}
        BY <1>4, <3>2, <3>3, <3>4
      <4>2. \A n : n \in K \union {z} => n \in M
        BY <1>4, <3>2, <3>3, <3>4, <3>5
      <4> QED
        BY <4>1, <4>2
    <3>8. ASSUME NEW n \in K PROVE t.e[Entry(u, n)] = e[Entry(f, n)]
      <4>1. PICK j \in 1..l : n = f[j]
        BY <1>4, <3>4
      <4>2. Entry(f, n) = j /\ Entry(u, n) = j
        BY <1>5, <3>2, <3>3, <3>4, <3>5, <4>1
      <4> QED
        BY <3>2, <3>3, <4>1, <4>2
    <3>9. t.e[Entry(u, z)] = Null
      BY <1>5, <3>2, <3>3, <3>4
    <3> QED
      BY <3>6, <3>7, <3>8, <3>9
  <2> QED
    BY <2>1, <2>2
<1>7. DOMAIN Over(T, x).e = K /\ \A n \in K : Over(T, x).e[n] = Of(T, e[Entry(f, n)])
  BY <1>5 DEF Tab
<1>8. Of(T, Null) = Null
  BY DEF Of, TreeIn, Null
<1>9. PICK w : w = Over(T, x)
  OBVIOUS
<1>10. Inserted(w, z) = Tab([n \in M |-> IF n \in K THEN w.e[n] ELSE Null])
  BY <1>6, <1>7, <1>9 DEF Inserted
<1>11. PICK F, G : F = [n \in M |-> Of(T, t.e[Entry(u, n)])] /\ G = [n \in M |-> IF n \in K THEN w.e[n] ELSE Null]
  OBVIOUS
<1>12. \A n \in M : Of(T, t.e[Entry(u, n)]) = IF n \in K THEN w.e[n] ELSE Null
  BY <1>6, <1>7, <1>8, <1>9
<1>13. F = G
  BY <1>11, <1>12
<1>14. Over(T, t) = Inserted(w, z)
  BY <1>5, <1>10, <1>11, <1>13
<1>15. IsFiniteSet(M) /\ Cardinality(M) = Len(u)
  <2>1. \A i, j \in DOMAIN u : u[i] = u[j] => i = j
    BY <1>1 DEF Keyed
  <2> QED
    BY <1>2, <1>4, <2>1, KeysCounted
<1> QED
  BY <1>2, <1>6, <1>7, <1>9, <1>14, <1>15 DEF TreeGains

-----------------------------------------------------------------------------
(* Borrowing the place of a key that a table may not have.                 *)

(* The heap of a borrow that inserts a key.                                *)
LEMMA InsertedAround ==
  ASSUME CInv, NEW b \in BorrowCell, NEW g, WayTo(g, b), NEW c, c = Pointed(b), IsTable(c),
         NEW r \in Cloned(c), NEW z \in Int, NEW t, t = Entered(r.h[r.c.o], z), Len(t.e) <= MaxLen,
         NEW h, h = Replaced(r.h, r.c.o, t)
  PROVE  /\ \E n \in Nat : AloneTo(g, b, n) /\ Around(h, g, b, n)
         /\ r.c \in ValueCell /\ r.c.k = "ref" /\ r.c.o \in Obj /\ r.c.o # b.o
         /\ c \in ValueCell /\ c.o \in Obj
         /\ Same(heap[c.o], r.h[r.c.o]) /\ WellFormed(h) /\ h[r.c.o] = t /\ t.tab
<1>1. PICK L \in Nat : L = Len(b.p)
  BY LenProperties DEF BorrowCell
<1>2. IInv /\ c \in ValueCell /\ Alive(c) /\ c = g[L] /\ c.k = "ref" /\ heap[c.o].tab
  <2>1. L \in 0..L
    OBVIOUS
  <2> QED
    BY <1>1, <2>1 DEF CInv, WayTo, IsTable
<1>3. PICK d, m : d = r.c /\ m = r.h
  OBVIOUS
<1>4. /\ d \in ValueCell /\ WellFormed(m) /\ Put(m, c, d) /\ d.k = "ref" /\ d.o \in Obj /\ c.o \in Obj
      /\ \A o \in Obj : heap[o].live => Same(heap[o], m[o])
      /\ Same(heap[c.o], m[d.o]) /\ m[d.o].live
      /\ d = c => heap[c.o].rc = 1
  BY <1>2, <1>3, ClonedIs
<1>5. d = c \/ (d.o \in Obj /\ ~heap[d.o].live)
  BY <1>2, <1>3, ClonedFrom
<1>6. d.o # b.o
  BY <1>2, <1>5, ElsewhereThanPlace
<1>7. WellFormed(h) /\ h[d.o] = t /\ t.tab /\ \A o \in Obj \ {d.o} : h[o] = m[o]
  <2>1. m[d.o].tab
    BY <1>2, <1>4 DEF Same
  <2>2. t = Entered(m[d.o], z) /\ h = Replaced(m, d.o, t)
    BY <1>3
  <2> QED
    BY <1>2, <1>4, <2>1, <2>2, EnteredPut
<1>8. CASE d = c
  <2>1. AloneTo(g, b, L + 1)
    <3>1. \A j \in 0..((L + 1) - 1) : j \in 0..(L - 1) \/ j = L
      OBVIOUS
    <3> QED
      BY <1>1, <1>2, <1>4, <1>8, <3>1 DEF AloneTo, WayTo
  <2>2. Around(h, g, b, L + 1)
    BY <1>1, <1>2, <1>4, <1>7, <1>8 DEF Around
  <2> QED
    BY <1>2, <1>3, <1>4, <1>6, <1>7, <2>1, <2>2
<1>9. CASE d # c
  <2>1. AloneTo(g, b, L)
    BY <1>1 DEF AloneTo, WayTo
  <2>2. Around(h, g, b, L)
    BY <1>4, <1>5, <1>7, <1>9 DEF Around
  <2> QED
    BY <1>2, <1>3, <1>4, <1>6, <1>7, <2>1, <2>2
<1> QED
  BY <1>8, <1>9

LEMMA BorrowInsertedSem ==
  ASSUME CInv, CInv', Careful, BorrowInserted
  PROVE  Sem!BorrowInserted
<1>1. PICK b, i : b = Operand(1) /\ i = Operand(0)
  OBVIOUS
<1>2. PICK c : c = Pointed(b)
  OBVIOUS
<1>3. IInv /\ Has(2) /\ b.k = "borrow" /\ IsCell(i) /\ Leads(b) /\ 2 \in 0..Len(stack) /\ HeapOK(heap)
  BY <1>1, Leaving DEF CInv, IInv, BorrowInserted, MayUse, Careful
<1>4. PICK k \in 0..1 : k = 1
  OBVIOUS
<1>5. Has(k + 1) /\ b = Operand(k)
  <2>1. k + 1 = 2
    BY <1>4
  <2> QED
    BY <1>1, <1>3, <1>4, <2>1
<1>6. /\ b \in BorrowCell /\ ~Dangling(b) /\ b.v \in Var /\ c \in ValueCell /\ Alive(c)
      /\ Sem!IsPlace(k) /\ Sem!Operand(k) = Sem!Place(b.v, b.p)
      /\ Sem!AtPlace(Sem!Operand(k)) = Of(Trees, c)
      /\ \A new : Sem!SetPlace(Sem!Operand(k), new)
                    = [SemEnv EXCEPT ![b.v] = Sem!With(SemEnv[b.v], b.p, new)]
  BY <1>2, <1>3, <1>5, PlaceOperand
<1>7. PICK g : WayTo(g, b)
  BY <1>3, <1>5, PlaceOperand
<1>8. i \in ValueCell /\ Alive(i) /\ Sem!Operand(0) = Of(Trees, i) /\ Sem!Value(0)
  <2>1. 0 \in 0..(2 - 1) /\ 2 \in Nat
    OBVIOUS
  <2> QED
    BY <1>1, <1>3, <2>1, SemValues
<1>9. PICK pl, old : pl = Sem!Operand(1) /\ old = Sem!AtPlace(pl)
  OBVIOUS
<1>10. pl.v = b.v /\ pl.p = b.p /\ old = Of(Trees, c)
  <2>1. pl = Sem!Place(b.v, b.p)
    BY <1>4, <1>6, <1>9
  <2> QED
    BY <1>4, <1>6, <1>9, <2>1 DEF Sem!Place
<1>11. Sem!Has(2) /\ Sem!IsPlace(1)
  BY <1>3, <1>4, <1>6, SemOperands
<1>12. /\ old.k = "tab" <=> IsTable(c)
       /\ Sem!Operand(0).k = "num" <=> i.k = "num"
       /\ i.k = "num" => Sem!Operand(0) = i /\ i.n \in Int
  BY <1>6, <1>8, <1>10, CellValue, ValueCells DEF IsTable
<1>13. CASE ~IsTable(c) \/ i.k # "num"
  <2>1. Stop("raised")
    BY <1>1, <1>2, <1>6, <1>13 DEF BorrowInserted
  <2>2. Sem!Raise
    BY <2>1, StopSem
  <2> QED
    BY <1>8, <1>9, <1>11, <1>12, <1>13, <2>2 DEF Sem!BorrowInserted
<1>14. CASE IsTable(c) /\ i.k = "num"
  <2>1. PICK z \in Int : z = i.n
    BY <1>12, <1>14
  <2>2. PICK r \in Cloned(c) :
          LET t == Entered(r.h[r.c.o], z) IN
          /\ Len(t.e) <= MaxLen
          /\ Do(EnvWith(b, r.c),
                Append(Below(2),
                  BorrowOf(b.v, Append(b.p, z), r.c.o, Entry(t.keys, z), Len(t.e),
                           [b.rcs EXCEPT ![Len(b.rcs)] = t.rc] \o <<1>>)),
                HeapWith([r.h EXCEPT ![r.c.o] = t], b, r.c), r.d)
    BY <1>1, <1>2, <1>6, <1>14, <2>1 DEF BorrowInserted
  <2>3. PICK t : t = Entered(r.h[r.c.o], z)
    OBVIOUS
  <2>4. PICK h : h = Replaced(r.h, r.c.o, t)
    OBVIOUS
  <2>5. PICK at, len, rcs :
          /\ at = Entry(t.keys, z) /\ len = Len(t.e)
          /\ rcs = [b.rcs EXCEPT ![Len(b.rcs)] = t.rc] \o <<1>>
    OBVIOUS
  <2>6. PICK x : x = BorrowOf(b.v, Append(b.p, z), r.c.o, at, len, rcs)
    OBVIOUS
  <2>7. PICK d : d = r.c
    OBVIOUS
  <2>8. Len(t.e) <= MaxLen /\ Do(EnvWith(b, d), Append(Below(2), x), HeapWith(h, b, d), r.d)
    BY <2>2, <2>3, <2>4, <2>5, <2>6, <2>7 DEF Replaced
  <2>9. /\ env' = EnvWith(b, d) /\ stack' = Append(Below(2), x) /\ heap' = HeapWith(h, b, d)
        /\ UNCHANGED status /\ Len(stack') <= MaxStack
    BY <2>8, StackBounded
  <2>10. /\ d \in ValueCell /\ d.k = "ref" /\ d.o \in Obj /\ d.o # b.o /\ c.o \in Obj
         /\ Same(heap[c.o], r.h[d.o]) /\ WellFormed(h) /\ h[d.o] = t /\ t.tab
    BY <1>2, <1>6, <1>7, <1>14, <2>3, <2>4, <2>7, <2>8, InsertedAround
  <2>11. PICK n \in Nat : AloneTo(g, b, n) /\ Around(h, g, b, n)
    BY <1>2, <1>6, <1>7, <1>14, <2>3, <2>4, <2>8, InsertedAround
  <2>12. Touches(OnWay(g, n)) /\ heap'[d.o] = t
    BY <1>6, <1>7, <2>9, <2>10, <2>11, WrittenHere
  <2>13. PICK y : y = heap[c.o]
    OBVIOUS
  <2>14. y.tab /\ Keyed(y) /\ y.keys \in Seq(Int) /\ y.e \in Seq(ValueCell) /\ Same(y, r.h[d.o]) /\ c.k = "ref"
    BY <1>3, <1>14, <2>10, <2>13 DEF HeapOK, Shaped, IsTable
  <2>15. Keyed(t) /\ t.keys \in Seq(Int) /\ t.e \in Seq(ValueCell)
    BY <2>10 DEF WellFormed, Shaped
  <2>16. ASSUME NEW j \in DOMAIN t.e PROVE t.e[j] = Null \/ (j \in DOMAIN y.e /\ t.e[j] = y.e[j])
    <3>1. t.e = y.e \/ t.e = Append(y.e, Null)
      BY <2>3, <2>7, <2>14 DEF Entered, Same
    <3>2. CASE t.e = Append(y.e, Null)
      <4>1. PICK l \in Nat : l = Len(y.e)
        BY <2>14, LenProperties
      <4>2. DOMAIN t.e = 1..(l + 1) /\ DOMAIN y.e = 1..l /\ t.e[l + 1] = Null /\ \A q \in 1..l : t.e[q] = y.e[q]
        BY <2>14, <2>15, <3>2, <4>1, AppendProperties, SeqFinite, ValueCells
      <4>3. j \in 1..l \/ j = l + 1
        BY <2>16, <4>2
      <4> QED
        BY <4>2, <4>3
    <3> QED
      BY <2>16, <3>1, <3>2
  <2>17. \A j \in DOMAIN heap'[d.o].e :
           Alive(heap'[d.o].e[j]) /\ \A o \in OnWay(g, n) : ~RefersTo(heap'[d.o].e[j], o)
    <3> SUFFICES ASSUME NEW j \in DOMAIN t.e PROVE Alive(t.e[j]) /\ \A o \in OnWay(g, n) : ~RefersTo(t.e[j], o)
      BY <2>12
    <3>1. CASE t.e[j] = Null
      BY <3>1 DEF Alive, RefersTo, Counts, Null
    <3>2. CASE j \in DOMAIN y.e /\ t.e[j] = y.e[j]
      <4>1. Alive(y.e[j])
        BY <1>3, <2>10, <2>13, <3>2, AllAlive DEF Existing
      <4>2. \A o \in OnWay(g, n) : ~RefersTo(y.e[j], o)
        BY <1>2, <1>6, <1>7, <2>11, <2>13, <2>14, <3>2, PlaceFree
      <4> QED
        BY <3>2, <4>1, <4>2
    <3> QED
      BY <2>16, <3>1, <3>2
  <2>18. Of(Trees', d) = Over(Trees, t)
    <3>1. PICK P : P = OnWay(g, n)
      OBVIOUS
    <3>2. PICK q \in Obj : q = d.o
      BY <2>10
    <3>3. Trees'[q] = Over(Trees, heap'[q])
      BY <2>12, <2>17, <3>1, <3>2, MadeOf
    <3> QED
      BY <2>10, <2>12, <3>2, <3>3 DEF Of, TreeIn
  <2>19. PICK T : T = Trees
    OBVIOUS
  <2>20. /\ Over(T, t) = Inserted(Over(T, y), z)
         /\ Cardinality(DOMAIN Over(T, y).e \union {z}) = Len(t.e)
    <3>1. PICK w : w = r.h[d.o]
      OBVIOUS
    <3>2. Gains(w, z, t) /\ Same(y, w)
      BY <2>3, <2>7, <2>14, <3>1 DEF Gains
    <3>3. /\ Same(y, w) /\ y.tab /\ Keyed(y) /\ y.keys \in Seq(Int) /\ y.e \in Seq(ValueCell)
          /\ t.tab /\ Keyed(t) /\ t.keys \in Seq(Int) /\ t.e \in Seq(ValueCell)
      BY <2>10, <2>14, <2>15, <3>2
    <3>4. TreeGains(T, y, z, t)
      BY <3>2, <3>3, EnteredTree
    <3> QED
      BY <3>4 DEF TreeGains
  <2>21. old = Over(T, y)
    BY <1>6, <1>10, <2>13, <2>14, <2>19, CellValue
  <2>22. PICK E : E = [SemEnv EXCEPT ![b.v] = Sem!With(SemEnv[b.v], b.p, Of(Trees', d))]
    OBVIOUS
  <2>23. E = Sem!SetPlace(pl, Sem!Inserted(old, Sem!Operand(0).n))
    <3>1. Of(Trees', d) = Sem!Inserted(old, Sem!Operand(0).n)
      BY <1>12, <1>14, <2>1, <2>18, <2>19, <2>20, <2>21, SameNames
    <3> QED
      BY <1>4, <1>6, <1>9, <2>22, <3>1
  <2>24. Sem!Cardinality(DOMAIN old.e \union {Sem!Operand(0).n}) <= MaxLen
    BY <1>12, <1>14, <2>1, <2>8, <2>20, <2>21, SameCardinality
  <2>25. x.k = "borrow" /\ x.v = b.v /\ x.p = Append(b.p, z)
    BY <2>6 DEF BorrowOf
  <2>26. Sem!Step(E, Append(Sem!Below(2), Sem!Place(b.v, Append(b.p, z))))
    <3>1. PICK m \in 0..Len(stack) : m = 2
      BY <1>3
    <3>2. x \in OperandCell /\ stack' = Append(Below(m), x)
      BY <1>3, <2>9, <3>1, Pushed DEF CInv
    <3>3. Sem!Step(E, Append(Sem!Below(m), Shown(Trees', heap', x)))
      BY <1>6, <1>7, <2>9, <2>10, <2>11, <2>22, <3>2, PlaceStep
    <3>4. Shown(Trees', heap', x) = Sem!Place(b.v, Append(b.p, z))
      BY <2>25, ShownCells
    <3> QED
      BY <3>1, <3>3, <3>4
  <2>27. Sem!Step(Sem!SetPlace(pl, Sem!Inserted(old, Sem!Operand(0).n)),
                  Append(Sem!Below(2), Sem!Place(pl.v, Append(pl.p, Sem!Operand(0).n))))
    BY <1>10, <1>12, <1>14, <2>1, <2>23, <2>26
  <2> QED
    BY <1>8, <1>9, <1>11, <1>12, <1>14, <2>24, <2>27 DEF Sem!BorrowInserted
<1> QED
  BY <1>13, <1>14

-----------------------------------------------------------------------------
(* Appending to a place.                                                   *)

(* None of the cells that append joins leads to the way.                   *)
LEMMA JoinedFree ==
  ASSUME CInv, NEW b \in BorrowCell, NEW g, WayTo(g, b), NEW n \in Nat, AloneTo(g, b, n),
         NEW c, c = Pointed(b), NEW r \in ValueCell, NEW k \in DOMAIN stack, stack[k] = r,
         NEW e, IF IsArray(r) THEN n = Len(b.p) /\ e = Listed(c) \o Listed(r)
                ELSE IsArray(c) /\ e = Append(heap[c.o].e, r)
  PROVE  \A j \in DOMAIN e : Alive(e[j]) /\ \A o \in OnWay(g, n) : ~RefersTo(e[j], o)
<1>1. IInv /\ c \in ValueCell /\ Alive(c) /\ Alive(r)
  <2>1. PICK L \in Nat : L = Len(b.p)
    BY LenProperties DEF BorrowCell
  <2>2. L \in 0..L
    OBVIOUS
  <2>3. IInv
    BY DEF CInv
  <2> QED
    BY <2>1, <2>2, <2>3, AllAlive DEF WayTo
<1>2. Apartness(g, b, n)
  BY WayApart
<1>3. \A o \in OnWay(g, n) : ~RefersTo(r, o)
  BY <1>2 DEF Apartness, OnStack
<1>4. ASSUME NEW s \in ValueCell, IsArray(s), Alive(s), NEW j \in DOMAIN heap[s.o].e
      PROVE  Alive(heap[s.o].e[j])
  <2>1. s.o \in Obj
    BY <1>4, ValueCells DEF IsArray
  <2> QED
    BY <1>1, <1>4, <2>1, AllAlive DEF Existing
<1>5. ASSUME IsArray(c), NEW j \in DOMAIN heap[c.o].e, NEW o \in OnWay(g, n) PROVE ~RefersTo(heap[c.o].e[j], o)
  BY <1>5, PlaceFree DEF IsArray
<1>6. CASE IsArray(r)
  <2>1. n = Len(b.p) /\ e = Listed(c) \o Listed(r)
    BY <1>6
  <2>2. ASSUME NEW j \in DOMAIN Listed(c), NEW o \in OnWay(g, n) PROVE ~RefersTo(Listed(c)[j], o)
    <3>1. CASE IsArray(c)
      <4>1. Listed(c) = heap[c.o].e
        BY <3>1 DEF Listed, IsArray, Elems
      <4> QED
        BY <1>5, <2>2, <3>1, <4>1
    <3>2. CASE ~IsArray(c)
      <4>1. Listed(c) = << c >>
        BY <3>2 DEF Listed
      <4>2. Listed(c)[j] = c
        BY <2>2, <4>1
      <4> QED
        BY <2>1, <2>2, <4>2, PlaceFree
    <3> QED
      BY <3>1, <3>2
  <2>3. ASSUME NEW j \in DOMAIN Listed(r), NEW o \in OnWay(g, n) PROVE ~RefersTo(Listed(r)[j], o)
    <3>1. Listed(r) = heap[r.o].e /\ r.k = "ref" /\ r.o \in Obj
      BY <1>6, ValueCells DEF Listed, IsArray, Elems
    <3>2. RefersTo(Listed(r)[j], o) => r.o \in OnWay(g, n)
      BY <1>2, <2>3, <3>1 DEF Apartness, Closed, Refers
    <3>3. RefersTo(r, r.o)
      BY <3>1 DEF RefersTo, Counts
    <3> QED
      BY <1>3, <3>2, <3>3
  <2>4. PICK s, t : s = Listed(c) /\ t = Listed(r)
    OBVIOUS
  <2>5. s \in Seq(ValueCell) /\ t \in Seq(ValueCell) /\ e = s \o t
    BY <1>1, <2>1, <2>4, ListedOf
  <2>6. PICK l, m \in Nat : l = Len(s) /\ m = Len(t)
    BY <2>5, LenProperties
  <2>7. e \in Seq(ValueCell) /\ Len(e) = l + m /\ \A j \in 1..(l + m) : e[j] = IF j <= l THEN s[j] ELSE t[j - l]
    BY <2>5, <2>6, ConcatIs
  <2>8. DOMAIN e = 1..(l + m) /\ DOMAIN s = 1..l /\ DOMAIN t = 1..m
    BY <2>5, <2>6, <2>7, SeqFinite
  <2>9. \A j \in DOMAIN e : \A o \in OnWay(g, n) : ~RefersTo(e[j], o)
    <3> TAKE j \in DOMAIN e
    <3> TAKE o \in OnWay(g, n)
    <3>1. CASE j <= l
      <4>1. j \in DOMAIN s /\ e[j] = s[j]
        BY <2>7, <2>8, <3>1
      <4> QED
        BY <2>2, <2>4, <4>1
    <3>2. CASE ~(j <= l)
      <4>1. PICK i \in 1..(l + m) : i = j
        BY <2>8
      <4>2. i - l \in 1..m
        BY <3>2, <4>1
      <4>3. j - l \in DOMAIN t /\ e[j] = t[j - l]
        BY <2>7, <2>8, <3>2, <4>1, <4>2
      <4> QED
        BY <2>3, <2>4, <4>3
    <3> QED
      BY <3>1, <3>2
  <2>10. \A j \in DOMAIN e : Alive(e[j])
    BY <1>1, <2>1, ListedAlive
  <2> QED
    BY <2>9, <2>10
<1>7. CASE ~IsArray(r)
  <2>1. IsArray(c) /\ e = Append(heap[c.o].e, r) /\ c.o \in Obj
    BY <1>1, <1>7, ValueCells DEF IsArray
  <2>2. PICK f : f = heap[c.o].e
    OBVIOUS
  <2>3. f \in Seq(ValueCell)
    BY <1>1, <2>1, <2>2 DEF IInv, HeapOK, Shaped
  <2>4. PICK l \in Nat : l = Len(f)
    BY <2>3, LenProperties
  <2>5. DOMAIN e = 1..(l + 1) /\ DOMAIN f = 1..l /\ e[l + 1] = r /\ \A j \in 1..l : e[j] = f[j]
    BY <2>1, <2>2, <2>3, <2>4, AppendProperties, SeqFinite
  <2>6. \A j \in DOMAIN e : j \in 1..l \/ j = l + 1
    BY <2>5
  <2>7. \A j \in 1..l : Alive(f[j]) /\ \A o \in OnWay(g, n) : ~RefersTo(f[j], o)
    BY <1>1, <1>4, <1>5, <2>1, <2>2, <2>5
  <2> QED
    BY <1>1, <1>3, <2>5, <2>6, <2>7
<1> QED
  BY <1>6, <1>7

(* What append makes of the place: a new array, or more of the one there.  *)
AppendMakes(b, g, c, r, a, n) ==
  /\ AloneTo(g, b, n) /\ Around(a.h, g, b, n)
  /\ a.c \in ValueCell /\ a.c.k = "ref" /\ a.c.o \in Obj /\ a.c.o # b.o
  /\ ~a.h[a.c.o].tab
  /\ IF IsArray(r) THEN n = Len(b.p) /\ a.h[a.c.o].e = Listed(c) \o Listed(r)
     ELSE IsArray(c) /\ a.h[a.c.o].e = Append(heap[c.o].e, r)

LEMMA AppendedAround ==
  ASSUME CInv, NEW b \in BorrowCell, NEW g, WayTo(g, b), NEW c, c = Pointed(b),
         NEW r \in ValueCell, Alive(r), IsArray(c) \/ IsArray(r), AppendedLen(c, r) <= MaxLen,
         ~IsArray(r) => RcOf(c) <= 1, NEW a \in Appended(c, r)
  PROVE  \E n \in Nat : AppendMakes(b, g, c, r, a, n)
<1>1. PICK L \in Nat : L = Len(b.p)
  BY LenProperties DEF BorrowCell
<1>2. IInv /\ c \in ValueCell /\ Alive(c) /\ c = g[L] /\ WellFormed(heap)
  <2>1. L \in 0..L
    OBVIOUS
  <2> QED
    BY <1>1, <2>1, HeapWellFormed DEF CInv, WayTo
<1>3. AloneTo(g, b, L)
  BY <1>1 DEF AloneTo, WayTo
<1>4. CASE IsArray(r)
  <2>1. PICK e : e = Listed(c) \o Listed(r)
    OBVIOUS
  <2>2. e \in Seq(ValueCell) /\ Len(e) <= MaxLen /\ JoinedCells(c, r) = e
    BY <1>2, <1>4, <2>1, JoinedOf
  <2>3. PICK p \in Free : a.c = Ref(p) /\ a.h = NewCopy(p, Array(e))
    BY <1>4, <2>2, AppendedIs
  <2>4. p \in Obj /\ ~heap[p].live
    BY <2>3 DEF Free
  <2>5. PICK x : x = Array(e)
    OBVIOUS
  <2>6. NewObject(x) /\ x.e = e /\ ~x.tab
    BY <2>2, <2>5, NewArray DEF Array, Object
  <2>7. Existing(x.e)
    BY <1>2, <2>1, <2>2, <2>6, ListedAlive DEF Existing
  <2>8. PICK h : h = NewCopy(p, x)
    OBVIOUS
  <2>9. WellFormed(h) /\ h[p] = x
    <3>1. Grows(NewCopy(p, x), x.e, {p}) /\ NewCopy(p, x)[p] = x
      BY <1>2, <2>6, <2>7, NewCopyGrows
    <3> QED
      BY <2>8, <3>1 DEF Grows
  <2>10. \A o \in Obj : heap[o].live => Same(heap[o], h[o])
    BY <1>2, <2>8, NewCopyIs
  <2>11. p # b.o
    <3>1. CASE b.o = NoObj
      BY <2>4, <3>1, HeapAssumption
    <3>2. CASE b.o # NoObj
      <4>1. L > 0 /\ L - 1 \in 0..(L - 1) /\ L - 1 \in 0..L
        BY <1>1, <3>2 DEF WayTo
      <4>2. b.o = g[L - 1].o /\ g[L - 1].k = "ref" /\ Alive(g[L - 1])
        BY <1>1, <4>1 DEF WayTo
      <4>3. heap[b.o].live
        BY <4>2 DEF Alive, RefersTo, Counts
      <4> QED
        BY <2>4, <4>3
    <3> QED
      BY <3>1, <3>2
  <2>12. Around(h, g, b, L)
    BY <2>9, <2>10 DEF Around
  <2>13. a.c \in ValueCell /\ a.c.k = "ref" /\ a.c.o = p /\ a.h = h
    BY <2>3, <2>4, <2>5, <2>8, ValueCells DEF Ref
  <2>14. AppendMakes(b, g, c, r, a, L)
    BY <1>1, <1>3, <1>4, <2>1, <2>4, <2>6, <2>9, <2>11, <2>12, <2>13 DEF AppendMakes
  <2> QED
    BY <2>14
<1>5. CASE ~IsArray(r)
  <2>1. IsArray(c) /\ c.k = "ref" /\ c.o \in Obj /\ ~heap[c.o].tab
    BY <1>2, <1>5, ValueCells DEF IsArray
  <2>2. heap[c.o].rc = 1
    <3>1. RcOf(c) <= 1 /\ RcOf(c) = heap[c.o].rc
      BY <1>5, <2>1 DEF RcOf
    <3>2. heap[c.o].live
      BY <1>2, <2>1 DEF Alive, RefersTo, Counts
    <3>3. heap[c.o].rc > 0 /\ heap[c.o].rc \in 0..(RcMod - 1)
      BY <1>2, <2>1, <3>2 DEF IInv, HeapOK
    <3>4. heap[c.o].rc \in Nat
      BY <3>3
    <3> QED
      BY <3>1, <3>3, <3>4
  <2>3. AloneTo(g, b, L + 1)
    <3>1. \A j \in 0..((L + 1) - 1) : j \in 0..(L - 1) \/ j = L
      OBVIOUS
    <3> QED
      BY <1>1, <1>2, <2>1, <2>2, <3>1 DEF AloneTo, WayTo
  <2>4. a.c = c /\ a.h = Grown(heap, c.o, r)
    BY <1>5, AppendedIs
  <2>5. PICK h : h = Grown(heap, c.o, r)
    OBVIOUS
  <2>6. /\ h[c.o].e = Append(heap[c.o].e, r) /\ h[c.o].tab = heap[c.o].tab
        /\ h[c.o].keys = heap[c.o].keys /\ h[c.o].live = heap[c.o].live
        /\ \A o \in Obj \ {c.o} : h[o] = heap[o]
    BY <1>2, <2>1, <2>5, GrownIs
  <2>7. WellFormed(h)
    <3>1. AppendedLen(c, r) = Len(heap[c.o].e) + 1
      BY <1>5, <2>1 DEF AppendedLen, Elems
    <3>2. Exchanges(h, << c, r >>, << c >>)
      BY <1>2, <2>1, <2>5, <3>1, GrownExchange DEF Grown
    <3> QED
      BY <3>2 DEF Exchanges, Grows
  <2>8. Around(h, g, b, L + 1)
    BY <1>1, <1>2, <2>6, <2>7 DEF Around, Same
  <2>9. c.o # b.o
    BY <2>1, ElsewhereThanPlace
  <2>10. PICK n \in Nat : n = L + 1
    OBVIOUS
  <2>11. AloneTo(g, b, n) /\ Around(h, g, b, n)
    BY <2>3, <2>8, <2>10
  <2>12. AppendMakes(b, g, c, r, a, n)
    BY <1>2, <1>5, <2>1, <2>4, <2>5, <2>6, <2>9, <2>11 DEF AppendMakes
  <2> QED
    BY <2>12
<1> QED
  BY <1>4, <1>5

LEMMA AppendBorrowedSem ==
  ASSUME CInv, CInv', Careful, AppendBorrowed
  PROVE  Sem!AppendBorrowed
<1>1. PICK b, r : b = Operand(1) /\ r = Operand(0)
  OBVIOUS
<1>2. PICK c : c = Pointed(b)
  OBVIOUS
<1>3. IInv /\ Has(2) /\ b.k = "borrow" /\ IsCell(r) /\ Leads(b) /\ 2 \in 0..Len(stack)
  BY <1>1, Leaving DEF CInv, AppendBorrowed, MayUse, Careful
<1>4. PICK k \in 0..1 : k = 1
  OBVIOUS
<1>5. Has(k + 1) /\ b = Operand(k)
  <2>1. k + 1 = 2
    BY <1>4
  <2> QED
    BY <1>1, <1>3, <1>4, <2>1
<1>6. /\ b \in BorrowCell /\ ~Dangling(b) /\ b.v \in Var /\ c \in ValueCell /\ Alive(c)
      /\ Sem!IsPlace(k) /\ Sem!AtPlace(Sem!Operand(k)) = Of(Trees, c)
      /\ \A new : Sem!SetPlace(Sem!Operand(k), new)
                    = [SemEnv EXCEPT ![b.v] = Sem!With(SemEnv[b.v], b.p, new)]
  BY <1>2, <1>3, <1>5, PlaceOperand
<1>7. PICK g : WayTo(g, b)
  BY <1>3, <1>5, PlaceOperand
<1>8. r \in ValueCell /\ Alive(r) /\ Sem!Operand(0) = Of(Trees, r) /\ Sem!Value(0)
  <2>1. 0 \in 0..(2 - 1) /\ 2 \in Nat
    OBVIOUS
  <2> QED
    BY <1>1, <1>3, <2>1, SemValues
<1>9. Len(stack) \in DOMAIN stack /\ stack[Len(stack)] = r
  BY <1>1, <1>3, Tops
<1>10. Sem!Has(2) /\ Sem!IsPlace(1) /\ Sem!AtPlace(Sem!Operand(1)) = Of(Trees, c)
  BY <1>3, <1>4, <1>6, SemOperands
<1>11. PICK e : e = Listed(c) \o Listed(r)
  OBVIOUS
<1>12. PICK old, new : old = Sem!AtPlace(Sem!Operand(1)) /\ new = Sem!Operand(0)
  OBVIOUS
<1>13. /\ Sem!CanJoin(old, new) <=> IsArray(c) \/ IsArray(r)
       /\ Sem!Joined(old, new) = Shows(Trees, e)
       /\ e \in Seq(ValueCell) /\ Len(e) = AppendedLen(c, r)
       /\ ~IsArray(r) /\ IsArray(c) => Append(heap[c.o].e, r) = e
  BY <1>6, <1>8, <1>10, <1>11, <1>12, JoinedOf, SameNames
<1>14. CASE ~IsArray(c) /\ ~IsArray(r)
  <2>1. Sem!Raise
    BY <1>1, <1>2, <1>6, <1>14, StopSem DEF AppendBorrowed
  <2> QED
    BY <1>8, <1>10, <1>12, <1>13, <1>14, <2>1 DEF Sem!AppendBorrowed
<1>15. CASE IsArray(c) \/ IsArray(r)
  <2>1. AppendedLen(c, r) <= MaxLen /\ (IsArray(r) \/ RcOf(c) <= b.rcs[Len(b.rcs)])
    BY <1>1, <1>2, <1>6, <1>15 DEF AppendBorrowed, Careful
  <2>2. b.rcs[Len(b.rcs)] = 1
    <3>1. \A j \in DOMAIN b.rcs : b.rcs[j] = 1
      BY <1>1, <1>3, Writing DEF AppendBorrowed
    <3>2. Len(b.rcs) \in DOMAIN b.rcs
      BY <1>1, <1>3, Writing DEF AppendBorrowed
    <3> QED
      BY <3>1, <3>2
  <2>3. PICK a \in Appended(c, r) : Do(EnvWith(b, a.c), Below(2), HeapWith(a.h, b, a.c), a.d)
    BY <1>1, <1>2, <1>6, <1>15 DEF AppendBorrowed
  <2>4. ~IsArray(r) => RcOf(c) <= 1
    BY <2>1, <2>2
  <2>5. PICK n \in Nat : AppendMakes(b, g, c, r, a, n)
    BY <1>2, <1>6, <1>7, <1>8, <1>15, <2>1, <2>4, AppendedAround
  <2>6. PICK d, h : d = a.c /\ h = a.h
    OBVIOUS
  <2>7. /\ env' = EnvWith(b, d) /\ stack' = Below(2) /\ heap' = HeapWith(h, b, d)
        /\ UNCHANGED status /\ Len(stack') <= MaxStack
    BY <2>3, <2>6, StackBounded
  <2>8. /\ AloneTo(g, b, n) /\ Around(h, g, b, n)
        /\ d \in ValueCell /\ d.k = "ref" /\ d.o \in Obj /\ d.o # b.o /\ ~h[d.o].tab
        /\ IF IsArray(r) THEN n = Len(b.p) /\ h[d.o].e = e
           ELSE IsArray(c) /\ h[d.o].e = Append(heap[c.o].e, r)
    BY <1>11, <2>5, <2>6 DEF AppendMakes
  <2>9. h[d.o].e = e
    BY <1>13, <2>8
  <2>10. Touches(OnWay(g, n)) /\ heap'[d.o] = h[d.o]
    BY <1>6, <1>7, <2>7, <2>8, WrittenHere
  <2>11. \A j \in DOMAIN e : Alive(e[j]) /\ \A o \in OnWay(g, n) : ~RefersTo(e[j], o)
    <3>1. IF IsArray(r) THEN n = Len(b.p) /\ e = Listed(c) \o Listed(r)
          ELSE IsArray(c) /\ e = Append(heap[c.o].e, r)
      BY <1>11, <2>8, <2>9
    <3> QED
      BY <1>2, <1>6, <1>7, <1>8, <1>9, <2>8, <3>1, JoinedFree
  <2>12. Of(Trees', d) = Arr(Shows(Trees, e))
    <3>1. PICK P : P = OnWay(g, n)
      OBVIOUS
    <3>2. PICK p \in Obj : p = d.o
      BY <2>8
    <3>3. Of(Trees', Ref(p)) = Arr(Shows(Trees, e))
      <4>1. e = heap'[p].e /\ ~heap'[p].tab
        BY <2>8, <2>9, <2>10, <3>2
      <4>2. Touches(P) /\ \A j \in DOMAIN e : Alive(e[j]) /\ \A o \in P : ~RefersTo(e[j], o)
        BY <2>10, <2>11, <3>1
      <4> QED
        BY <4>1, <4>2, NewArrayTree
    <3>4. d = Ref(p)
      BY <2>8, <3>2, ValueCells
    <3> QED
      BY <3>3, <3>4
  <2>13. PICK E : E = [SemEnv EXCEPT ![b.v] = Sem!With(SemEnv[b.v], b.p, Of(Trees', d))]
    OBVIOUS
  <2>14. E = Sem!SetPlace(Sem!Operand(1), Sem!Arr(Sem!Joined(old, new)))
    <3>1. Of(Trees', d) = Sem!Arr(Sem!Joined(old, new))
      BY <1>13, <2>12, SameNames
    <3> QED
      BY <1>4, <1>6, <2>13, <3>1
  <2>15. Sem!Step(E, Sem!Below(2))
    <3>1. PICK m \in 0..Len(stack) : m = 2
      BY <1>3
    <3>2. d \in OperandCell /\ stack' = Below(m)
      BY <2>7, <2>8, <3>1, ValueCells
    <3>3. Sem!Step(E, Sem!Below(m))
      BY <1>6, <1>7, <2>7, <2>8, <2>13, <3>2, PlaceStep
    <3> QED
      BY <3>1, <3>3
  <2>16. Len(Sem!Joined(old, new)) <= MaxLen
    <3>1. Len(Shows(Trees, e)) <= MaxLen
      BY <1>13, <2>1, ShowsSeq
    <3> QED
      BY <1>13, <3>1
  <2> QED
    BY <1>8, <1>10, <1>12, <1>13, <1>15, <2>14, <2>15, <2>16 DEF Sem!AppendBorrowed
<1> QED
  BY <1>14, <1>15

-----------------------------------------------------------------------------
(* Every step is one of ValueSem, or none.                                 *)

Semvars == <<SemEnv, SemStack, status>>

LEMMA StepSem ==
  Careful /\ CInv /\ CInv' /\ Next => Sem!Next \/ UNCHANGED Semvars
<1> SUFFICES ASSUME Careful, CInv, CInv', Next
             PROVE  Sem!Next \/ UNCHANGED Semvars
  OBVIOUS
<1>1. CASE Release
  BY <1>1, ReleaseSem DEF SemStutters, Semvars
<1>2. ASSUME NEW c \in Literal, Push(c) PROVE Sem!Next
  BY <1>2, PushSem DEF Sem!Next
<1>3. ASSUME NEW v \in Var, PushVar(v) \/ WriteVar(v) \/ Borrow(v) PROVE Sem!Next
  BY <1>3, PushVarSem, WriteVarSem, BorrowSem DEF Sem!Next
<1>4. ASSUME NEW key \in Var \union {Unnamed}, NEW v \in Var, key # v, NextOrJmp(key, v) PROVE Sem!Next
  BY <1>4, NextOrJmpSem DEF Sem!Next
<1>5. CASE Pop
  BY <1>5, PopSem DEF Sem!Next
<1>6. CASE BorrowElement
  BY <1>6, BorrowElementSem DEF Sem!Next
<1>7. CASE BorrowInserted
  BY <1>7, BorrowInsertedSem DEF Sem!Next
<1>8. CASE WriteBorrowed
  BY <1>8, WriteBorrowedSem DEF Sem!Next
<1>9. CASE AppendBorrowed
  BY <1>9, AppendBorrowedSem DEF Sem!Next
<1>10. CASE Move
  BY <1>10, MoveSem DEF Sem!Next
<1>11. ASSUME NEW n \in 0..MaxLen, CreateArray(n) PROVE Sem!Next
  BY <1>11, CreateArraySem DEF Sem!Next
<1>12. ASSUME NEW n \in Tables, CreateTable(n) PROVE Sem!Next
  BY <1>12, CreateTableSem DEF Sem!Next
<1>13. CASE Get
  BY <1>13, GetSem DEF Sem!Next
<1>14. CASE Slice
  BY <1>14, SliceSem DEF Sem!Next
<1>15. CASE AppendOp
  BY <1>15, AppendOpSem DEF Sem!Next
<1>16. CASE BeginIter
  BY <1>16, BeginIterSem DEF Sem!Next
<1> QED
  BY <1>1, <1>2, <1>3, <1>4, <1>5, <1>6, <1>7, <1>8, <1>9, <1>10, <1>11, <1>12, <1>13, <1>14, <1>15, <1>16
     DEF Next

LEMMA InitSem == Init => Sem!Init
<1> SUFFICES ASSUME Init PROVE Sem!Init
  OBVIOUS
<1>1. env = [v \in Var |-> Null] /\ stack = << >> /\ status = "ok"
  BY DEF Init
<1>2. Null.k # "ref" /\ Sem!Null = Null
  BY SameNames DEF Null
<1>3. \A v \in Var : TreeOf(env[v]) = Null
  BY <1>1, <1>2 DEF TreeOf
<1>4. [v \in Var |-> TreeOf(env[v])] = [v \in Var |-> Null]
  BY <1>3
<1>5. [j \in 1..Len(stack) |-> SemOperand(stack[j])] = << >>
  BY <1>1
<1> QED
  BY <1>1, <1>2, <1>4, <1>5 DEF Sem!Init

SemNext == [Sem!Next]_(Sem!vars)

LEMMA NextSem == Careful /\ CInv /\ CInv' /\ [Next]_vars => SemNext
<1> SUFFICES ASSUME Careful, CInv, CInv', [Next]_vars PROVE SemNext
  OBVIOUS
<1>1. Sem!vars = Semvars
  BY DEF Sem!vars, Semvars, SemEnv, SemStack
<1>2. (Sem!vars)' = Semvars'
  BY DEF Sem!vars, Semvars, SemEnv, SemStack
<1>3. CASE Next
  BY <1>1, <1>2, <1>3, StepSem DEF SemNext
<1>4. CASE UNCHANGED vars
  <2>1. Touches({}) /\ UNCHANGED <<env, stack, status>>
    BY <1>4, SameQuiet DEF vars, Same
  <2> QED
    BY <1>1, <1>2, <2>1, StillSem DEF SemStutters, Semvars, SemNext
<1> QED
  BY <1>3, <1>4

(* Sharing never shows in such a script.  Whatever arrays and tables its   *)
(* variables and operands share, and whenever the interpreter copies,      *)
(* clones, moves or frees them, every instruction does to the whole trees  *)
(* what ValueSem says it does, and giving references back does nothing.    *)
THEOREM CarefulImplements == Careful => (Spec /\ []Few => ImplementsValueSem)
<1> SUFFICES ASSUME Careful PROVE Spec /\ []Few => ImplementsValueSem
  OBVIOUS
<1>1. CInv /\ CInv' /\ [Next]_vars => [Sem!Next]_(Sem!vars)
  BY NextSem DEF SemNext
<1>2. Spec /\ []Few => []CInv
  BY CarefulKeeps
<1>3. ImplementsValueSem <=> Sem!Init /\ [][Sem!Next]_(Sem!vars)
  BY DEF ImplementsValueSem, Sem!Spec
<1> QED
  BY <1>1, <1>2, <1>3, InitSem, PTL DEF Spec

=============================================================================
