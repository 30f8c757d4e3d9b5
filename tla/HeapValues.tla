----------------------------- MODULE HeapValues -----------------------------
(***************************************************************************)
(* Proofs about ValueHeap for careful scripts: a variable changes only     *)
(* when it is written (CopySemantics), and the instructions on values do   *)
(* to the trees of variables and operands what those of ValueSem do.       *)
(*                                                                         *)
(* The tree of an object is made of the trees of what its elements refer   *)
(* to, and in an ordered heap of no other trees. So it stays as it is in a *)
(* step that changes nothing it leads to.                                  *)
(***************************************************************************)
EXTENDS HeapCareful

-----------------------------------------------------------------------------
(* The trees that cells stand for: layer by layer, from the depth below.   *)

TreeIn(d, below, c) ==
  IF c.k # "ref" THEN c ELSE IF d = 0 THEN Missing ELSE below[c.o]

TreeOver(x, d, below) ==
  IF x.tab
  THEN Tab([n \in {x.keys[j] : j \in DOMAIN x.keys} |-> TreeIn(d, below, x.e[Entry(x.keys, n)])])
  ELSE Arr([j \in 1..Len(x.e) |-> TreeIn(d, below, x.e[j])])

Layer(h, d, below) == [o \in Obj |-> TreeOver(h[o], d, below)]

Layered(h, n, t) ==
  /\ t = [d \in 0..n |-> t[d]]
  /\ \A d \in 0..n : t[d] = Layer(h, d, t[d - 1])

LEMMA LowestLayer ==
  ASSUME NEW h, NEW x, NEW y
  PROVE  Layer(h, 0, x) = Layer(h, 0, y)
<1>1. \A c : TreeIn(0, x, c) = TreeIn(0, y, c)
  BY DEF TreeIn
<1>2. \A z : TreeOver(z, 0, x) = TreeOver(z, 0, y)
  BY <1>1 DEF TreeOver
<1> QED
  BY <1>2 DEF Layer

LEMMA LayersExist ==
  ASSUME NEW h, NEW n \in Nat
  PROVE  \E t : Layered(h, n, t)
<1> DEFINE T == {m \in Nat : \E t : Layered(h, m, t)}
<1>1. 0 \in T
  <2> DEFINE t == [d \in 0..0 |-> Layer(h, 0, <<>>)]
  <2>1. t = [d \in 0..0 |-> t[d]] /\ t[0] = Layer(h, 0, <<>>)
    OBVIOUS
  <2> HIDE DEF t
  <2>2. Layer(h, 0, <<>>) = Layer(h, 0, t[0 - 1])
    BY LowestLayer
  <2>3. \A d \in 0..0 : d = 0
    OBVIOUS
  <2>4. Layered(h, 0, t)
    BY <2>1, <2>2, <2>3 DEF Layered
  <2> QED
    BY <2>4
<1>2. ASSUME NEW m \in T PROVE m + 1 \in T
  <2>1. PICK t : Layered(h, m, t)
    BY <1>2
  <2>2. m \in Nat /\ m + 1 \in Nat /\ m + 1 # 0 /\ (m + 1) - 1 = m /\ m \in 0..m
    OBVIOUS
  <2> DEFINE u == [d \in 0..(m + 1) |-> IF d = m + 1 THEN Layer(h, m + 1, t[m]) ELSE t[d]]
  <2>3. /\ u = [d \in 0..(m + 1) |-> u[d]] /\ u[m + 1] = Layer(h, m + 1, t[m])
        /\ \A d \in 0..m : u[d] = t[d]
    BY <2>2
  <2> HIDE DEF u
  <2>4. ASSUME NEW d \in 0..(m + 1) PROVE u[d] = Layer(h, d, u[d - 1])
    <3>1. CASE d = m + 1
      <4>1. d - 1 = m
        BY <2>2, <3>1
      <4> QED
        BY <2>2, <2>3, <3>1, <4>1
    <3>2. CASE d # m + 1 /\ d # 0
      <4>1. d \in 0..m /\ d - 1 \in 0..m
        BY <2>2, <3>2
      <4> QED
        BY <2>1, <2>3, <4>1 DEF Layered
    <3>3. CASE d = 0
      <4>1. d \in 0..m
        BY <2>2, <3>3
      <4>2. u[d] = Layer(h, 0, t[d - 1])
        BY <2>1, <2>3, <3>3, <4>1 DEF Layered
      <4>3. Layer(h, 0, t[d - 1]) = Layer(h, 0, u[d - 1])
        BY LowestLayer
      <4> QED
        BY <3>3, <4>2, <4>3
    <3> QED
      BY <3>1, <3>2, <3>3
  <2>5. Layered(h, m + 1, u)
    BY <2>3, <2>4 DEF Layered
  <2> QED
    BY <2>2, <2>5
<1>3. T \in SUBSET Nat
  OBVIOUS
<1> HIDE DEF T
<1>4. T = Nat
  BY <1>1, <1>2, <1>3, AllNaturals
<1> QED
  BY <1>4 DEF T

Depth == Cardinality(Obj)

LEMMA DepthNat == Depth \in Nat
BY HeapAssumption, FS_CardinalityType DEF Depth

(* Trees is the layer whose depth is the number of objects.                *)
TreesLayered == \E t : Layered(heap, Depth, t) /\ Trees = t[Depth]

LEMMA TreesAreLayered == TreesLayered
<1> DEFINE A(f) == f = [depth \in 0..Cardinality(Obj) |->
                    [o \in Obj |->
                       LET Tree(c) == IF c.k # "ref" THEN c
                                      ELSE IF depth = 0 THEN Missing
                                      ELSE f[depth - 1][c.o]
                           keys == heap[o].keys
                       IN  IF heap[o].tab
                           THEN Tab([n \in {keys[j] : j \in DOMAIN keys} |-> Tree(heap[o].e[Entry(keys, n)])])
                           ELSE Arr([j \in 1..Len(heap[o].e) |-> Tree(heap[o].e[j])])]]
           w == CHOOSE f : A(f)
<1>1. Trees = w[Cardinality(Obj)]
  BY DEF Trees
<1> DEFINE B(f) == f = [depth \in 0..Cardinality(Obj) |-> Layer(heap, depth, f[depth - 1])]
<1>2. \A f : A(f) <=> B(f)
  BY DEF Layer, TreeOver, TreeIn
<1>3. PICK t : Layered(heap, Depth, t)
  BY DepthNat, LayersExist
<1>4. B(t)
  BY <1>3 DEF Layered, Depth
<1> HIDE DEF B
<1>5. A(t)
  BY <1>2, <1>4
<1> HIDE DEF A
<1>6. A(w)
  BY <1>5
<1> HIDE DEF w
<1>7. B(w)
  BY <1>2, <1>6
<1>8. Layered(heap, Depth, w)
  BY <1>7 DEF B, Layered, Depth
<1> QED
  BY <1>1, <1>8 DEF TreesLayered, Depth

LEMMA TreesLayeredNext == TreesLayered'
BY TreesAreLayered, PTL

-----------------------------------------------------------------------------
(* What a step leaves a variable's tree as it is.                          *)

(* The objects of Q, which may change, are none that variable v leads to.  *)
Spares(Q, v) ==
  /\ Q \in SUBSET Obj /\ Closed(Q)
  /\ \A o \in Q : ~RefersTo(env[v], o)
  /\ \A o \in Obj \ Q : Same(heap[o], heap'[o])

LEMMA TreeOverSame ==
  ASSUME NEW x, NEW y, Same(x, y), Keyed(x), x.keys \in Seq(Int), x.e \in Seq(ValueCell),
         NEW d, NEW s, NEW f, NEW t,
         \A j \in DOMAIN x.e : TreeIn(d, s, x.e[j]) = TreeIn(f, t, x.e[j])
  PROVE  TreeOver(x, d, s) = TreeOver(y, f, t)
<1>1. y.tab = x.tab /\ y.keys = x.keys /\ y.e = x.e
  BY DEF Same
<1>2. CASE x.tab
  <2>1. Len(x.keys) = Len(x.e) /\ \A i, j \in DOMAIN x.keys : x.keys[i] = x.keys[j] => i = j
    BY <1>2 DEF Keyed
  <2>2. DOMAIN x.keys = DOMAIN x.e /\ 0 \notin DOMAIN x.keys
    BY <2>1, SeqFinite
  <2> DEFINE K == {x.keys[j] : j \in DOMAIN x.keys}
  <2>3. ASSUME NEW n \in K PROVE TreeIn(d, s, x.e[Entry(x.keys, n)]) = TreeIn(f, t, x.e[Entry(x.keys, n)])
    <3>1. PICK j \in DOMAIN x.keys : x.keys[j] = n
      OBVIOUS
    <3>2. PICK keys : keys = x.keys
      OBVIOUS
    <3>3. keys \in Seq(Int) /\ \A i, l \in DOMAIN keys : keys[i] = keys[l] => i = l
      BY <2>1, <3>2
    <3>4. \A l \in DOMAIN keys : keys[l] = n => Entry(keys, n) = l
      BY <3>3, EntryFound
    <3>5. Entry(x.keys, n) = j
      BY <3>1, <3>2, <3>4
    <3> QED
      BY <2>2, <3>5
  <2>4. [n \in K |-> TreeIn(d, s, x.e[Entry(x.keys, n)])] = [n \in K |-> TreeIn(f, t, x.e[Entry(x.keys, n)])]
    BY <2>3
  <2>5. TreeOver(x, d, s) = Tab([n \in K |-> TreeIn(d, s, x.e[Entry(x.keys, n)])])
    BY <1>2 DEF TreeOver
  <2>6. TreeOver(y, f, t) = Tab([n \in K |-> TreeIn(f, t, x.e[Entry(x.keys, n)])])
    BY <1>1, <1>2 DEF TreeOver
  <2> QED
    BY <2>4, <2>5, <2>6
<1>3. CASE ~x.tab
  <2>1. DOMAIN x.e = 1..Len(x.e)
    BY SeqFinite
  <2>2. [j \in 1..Len(x.e) |-> TreeIn(d, s, x.e[j])] = [j \in 1..Len(x.e) |-> TreeIn(f, t, x.e[j])]
    BY <2>1
  <2> QED
    BY <1>1, <1>3, <2>2 DEF TreeOver
<1> QED
  BY <1>2, <1>3

LEMMA LayersSame ==
  ASSUME IInv, NEW Q \in SUBSET Obj, Closed(Q), NEW g, \A o \in Obj \ Q : Same(heap[o], g[o]),
         NEW n \in Nat, NEW s, Layered(heap, n, s), NEW t, Layered(g, n, t)
  PROVE  \A o \in Obj \ Q : s[n][o] = t[n][o]
<1> DEFINE Agree(d) == \A o \in Obj \ Q : s[d][o] = t[d][o]
           T == {d \in Nat : d <= n => Agree(d)}
<1>1. ASSUME NEW o \in Obj \ Q, NEW j \in DOMAIN heap[o].e, heap[o].e[j].k = "ref"
      PROVE  heap[o].e[j].o \in Obj \ Q
  <2>1. Refers(heap, o, heap[o].e[j].o)
    BY <1>1 DEF Refers, RefersTo, Counts
  <2> QED
    BY <2>1, AliveReferred DEF ReferredAlive, InHeap, Closed
<1>2. ASSUME NEW d \in 0..n, d = 0 \/ Agree(d - 1) PROVE Agree(d)
  <2>1. s[d] = Layer(heap, d, s[d - 1]) /\ t[d] = Layer(g, d, t[d - 1])
    BY DEF Layered
  <2> SUFFICES ASSUME NEW o \in Obj \ Q PROVE s[d][o] = t[d][o]
    OBVIOUS
  <2>2. s[d][o] = TreeOver(heap[o], d, s[d - 1]) /\ t[d][o] = TreeOver(g[o], d, t[d - 1])
    BY <2>1 DEF Layer
  <2>3. \A j \in DOMAIN heap[o].e : TreeIn(d, s[d - 1], heap[o].e[j]) = TreeIn(d, t[d - 1], heap[o].e[j])
    BY <1>1, <1>2 DEF TreeIn
  <2>4. Keyed(heap[o]) /\ heap[o].keys \in Seq(Int) /\ heap[o].e \in Seq(ValueCell)
    BY DEF IInv, HeapOK
  <2>5. PICK x, y, a, b : x = heap[o] /\ y = g[o] /\ a = s[d - 1] /\ b = t[d - 1]
    OBVIOUS
  <2>6. /\ Same(x, y) /\ Keyed(x) /\ x.keys \in Seq(Int) /\ x.e \in Seq(ValueCell)
        /\ \A j \in DOMAIN x.e : TreeIn(d, a, x.e[j]) = TreeIn(d, b, x.e[j])
    BY <2>3, <2>4, <2>5
  <2>7. TreeOver(x, d, a) = TreeOver(y, d, b)
    BY <2>6, TreeOverSame
  <2> QED
    BY <2>2, <2>5, <2>7
<1>3. T \in SUBSET Nat
  OBVIOUS
<1>4. 0 \in T
  BY <1>2
<1>5. ASSUME NEW d \in T PROVE d + 1 \in T
  <2>1. d \in Nat /\ d + 1 \in Nat /\ (d + 1) - 1 = d /\ (d + 1 <= n => d <= n /\ d + 1 \in 0..n)
    OBVIOUS
  <2>2. d <= n => Agree(d)
    OBVIOUS
  <2> HIDE DEF Agree
  <2>3. d + 1 <= n => Agree(d + 1)
    BY <1>2, <2>1, <2>2
  <2> QED
    BY <2>1, <2>3
<1> HIDE DEF T
<1>6. T = Nat
  BY <1>3, <1>4, <1>5, AllNaturals
<1>7. n <= n => Agree(n)
  BY <1>6 DEF T
<1> QED
  BY <1>7

(* A variable that is not written, and leads to nothing that is, keeps its *)
(* tree.                                                                   *)
LEMMA SparedTree ==
  ASSUME IInv, NEW v \in Var, env'[v] = env[v], NEW Q, Spares(Q, v)
  PROVE  TreeOf(env[v])' = TreeOf(env[v])
<1>1. CASE env[v].k # "ref"
  BY <1>1 DEF TreeOf
<1>2. CASE env[v].k = "ref"
  <2>1. PICK o : o = env[v].o
    OBVIOUS
  <2>2. InEnv(o) /\ RefersTo(env[v], o)
    BY <1>2, <2>1 DEF InEnv, RefersTo, Counts
  <2>3. o \in Obj \ Q
    BY <2>2, AliveReferred DEF ReferredAlive, Spares
  <2>4. PICK s : Layered(heap, Depth, s) /\ Trees = s[Depth]
    BY TreesAreLayered DEF TreesLayered
  <2>5. PICK t : Layered(heap', Depth, t) /\ Trees' = t[Depth]
    BY TreesLayeredNext DEF TreesLayered, Depth
  <2>6. s[Depth][o] = t[Depth][o]
    BY <2>3, <2>4, <2>5, DepthNat, LayersSame DEF Spares
  <2> QED
    BY <1>2, <2>1, <2>4, <2>5, <2>6 DEF TreeOf
<1> QED
  BY <1>1, <1>2

LEMMA KeptSpares ==
  ASSUME IInv, IInv', NEW P \in SUBSET Obj, Closed(P),
         \A o \in Obj \ P : heap[o].live /\ heap'[o].live => Same(heap[o], heap'[o]),
         NEW v \in Var, env'[v] = env[v], \A o \in P : ~RefersTo(env[v], o)
  PROVE  \E Q : Spares(Q, v)
<1> DEFINE G == {o \in Obj : ~heap[o].live \/ ~heap'[o].live}
           Q == P \union G
<1>1. ReferredAlive /\ ReferredAlive'
  BY AliveReferred, AliveReferredNext
<1>2. Closed(Q)
  <2> SUFFICES ASSUME NEW p \in Obj, NEW o \in Q, Refers(heap, p, o), p \notin Q PROVE FALSE
    BY DEF Closed
  <2>1. o \notin P
    BY DEF Closed
  <2>2. o \in Obj /\ heap[o].live /\ ~heap'[o].live
    BY <1>1, <2>1 DEF ReferredAlive, InHeap
  <2>3. Same(heap[p], heap'[p])
    OBVIOUS
  <2>4. Refers(heap', p, o)
    BY <2>3 DEF Refers, Same
  <2>5. InHeap(o)'
    BY <2>4 DEF InHeap
  <2> QED
    BY <1>1, <2>2, <2>5 DEF ReferredAlive
<1>3. ASSUME NEW o \in Q PROVE ~RefersTo(env[v], o)
  <2> SUFFICES ASSUME RefersTo(env[v], o) PROVE FALSE
    OBVIOUS
  <2>1. InEnv(o) /\ InEnv(o)'
    BY DEF InEnv
  <2>2. heap[o].live /\ heap'[o].live
    BY <1>1, <2>1 DEF ReferredAlive
  <2> QED
    BY <2>2
<1>4. \A o \in Obj \ Q : Same(heap[o], heap'[o])
  OBVIOUS
<1>5. Q \in SUBSET Obj
  OBVIOUS
<1> HIDE DEF Q
<1> QED
  BY <1>2, <1>3, <1>4, <1>5 DEF Spares

(* What CopySemantics asks of a step.                                      *)
Faithful ==
  \A v \in Var : TreeOf(env[v])' # TreeOf(env[v]) => env'[v] # env[v] \/ BorrowUsed(v)

LEMMA QuietFaithful ==
  ASSUME IInv, IInv', \A o \in Obj : heap[o].live /\ heap'[o].live => Same(heap[o], heap'[o])
  PROVE  Faithful
<1> SUFFICES ASSUME NEW v \in Var, env'[v] = env[v] PROVE TreeOf(env[v])' = TreeOf(env[v])
  BY DEF Faithful
<1> DEFINE P == {}
<1>1. P \in SUBSET Obj /\ Closed(P) /\ \A o \in P : ~RefersTo(env[v], o)
  BY DEF Closed
<1> HIDE DEF P
<1>2. \E Q : Spares(Q, v)
  BY <1>1, KeptSpares
<1> QED
  BY <1>2, SparedTree

(* A step that writes, through borrow b, the object its place is in, or    *)
(* one that only this place refers to.                                     *)
LEMMA PlaceFaithful ==
  ASSUME CInv, IInv', NEW b, b.k = "borrow", Leads(b), NEW i \in DOMAIN stack, stack[i] = b,
         BorrowUsed(b.v), NEW c, c = Pointed(b),
         \A o \in Obj : heap[o].live /\ heap'[o].live =>
           \/ o = b.o
           \/ c.k = "ref" /\ o = c.o /\ heap[o].rc = 1
           \/ Same(heap[o], heap'[o])
  PROVE  Faithful
<1>1. IInv /\ b \in BorrowCell /\ BorrowFits(env, heap, b) /\ ~Dangling(b) /\ b.v \in Var
  BY Borrowed DEF CInv
<1>2. PICK K \in Nat : \E r : Ranked(heap, r, K)
  BY DEF CInv, Ordered
<1>3. PICK r : Ranked(heap, r, K)
  BY <1>2
<1>4. PICK P \in SUBSET Live : OwnedBy(P, b.v) /\ (b.o # NoObj => b.o \in P)
  BY <1>1, <1>3, WayOwned
<1> DEFINE Alone(o) == c.k = "ref" /\ o = c.o /\ heap[o].rc = 1
           Q == P \union {o \in Obj : Alone(o)}
<1> SUFFICES ASSUME NEW v \in Var, v # b.v, env'[v] = env[v] PROVE TreeOf(env[v])' = TreeOf(env[v])
  BY DEF Faithful
<1>5. /\ b.o = NoObj => c = env[b.v]
      /\ b.o # NoObj => b.o \in Obj /\ b.i \in DOMAIN heap[b.o].e /\ c = heap[b.o].e[b.i]
  BY <1>1, PlaceFacts
<1>6. ASSUME NEW o \in Obj, Alone(o)
      PROVE  ~RefersTo(env[v], o) /\ \A p \in Obj : Refers(heap, p, o) => p \in P
  <2>1. RefersTo(c, o)
    BY <1>6 DEF RefersTo, Counts
  <2>2. CASE b.o = NoObj
    <3>1. RefersTo(env[b.v], o) /\ InEnv(o)
      BY <1>1, <1>5, <2>1, <2>2 DEF InEnv
    <3> QED
      BY <1>1, <1>6, <3>1, OneReference DEF InHeap
  <2>3. CASE b.o # NoObj
    <3>1. b.o \in Obj /\ b.i \in DOMAIN heap[b.o].e /\ RefersTo(heap[b.o].e[b.i], o)
      BY <1>5, <2>1, <2>3
    <3>2. InHeap(o)
      BY <3>1 DEF InHeap, Refers
    <3>3. ~RefersTo(env[v], o)
      BY <1>1, <1>6, <3>2, OneReference DEF InEnv
    <3>4. \A p \in Obj : Refers(heap, p, o) => p = b.o
      BY <1>1, <1>6, <3>1, OneReference DEF Refers
    <3> QED
      BY <1>4, <2>3, <3>3, <3>4
  <2> QED
    BY <2>2, <2>3
<1>7. Q \in SUBSET Obj
  BY DEF Live
<1>8. Closed(Q)
  BY <1>4, <1>6 DEF Closed, OwnedBy
<1>9. \A o \in Q : ~RefersTo(env[v], o)
  BY <1>4, <1>6 DEF OwnedBy
<1>10. \A o \in Obj \ Q : heap[o].live /\ heap'[o].live => Same(heap[o], heap'[o])
  BY <1>4, HeapAssumption
<1> HIDE DEF Q, Alone
<1>11. \E R : Spares(R, v)
  BY <1>1, <1>7, <1>8, <1>9, <1>10, KeptSpares
<1> QED
  BY <1>1, <1>11, SparedTree

(* The borrow that is the n-th operand from the top is used.               *)
LEMMA UsedUp ==
  ASSUME IInv, NEW n \in 1..Len(stack), NEW b, b = stack[Len(stack) - (n - 1)], b.k = "borrow",
         NEW x, stack' = Below(n) \/ (stack' = Append(Below(n), x) /\ x # b)
  PROVE  BorrowUsed(b.v) /\ Len(stack) - (n - 1) \in DOMAIN stack
<1>1. stack \in Seq(OperandCell) /\ DOMAIN stack = 1..Len(stack) /\ Len(stack) \in Nat
  BY SeqFinite DEF IInv
<1>2. PICK m \in Nat : m = Len(stack)
  BY <1>1
<1>3. n \in 0..m /\ n \in 1..m
  BY <1>2
<1>4. PICK s : s = Below(n)
  OBVIOUS
<1>5. s \in Seq(OperandCell) /\ Len(s) = m - n
  BY <1>2, <1>3, <1>4, Operands
<1>6. m - (n - 1) \in 1..m /\ m - (n - 1) > m - n /\ (m - n) + 1 = m - (n - 1)
  BY <1>3
<1>7. PICK j : j = m - (n - 1)
  OBVIOUS
<1>8. j \in DOMAIN stack /\ stack[j] = b
  BY <1>1, <1>2, <1>6, <1>7
<1>9. CASE stack' = s
  <2>1. j > Len(stack')
    BY <1>5, <1>6, <1>7, <1>9
  <2> QED
    BY <1>8, <2>1 DEF BorrowUsed
<1>10. CASE stack' = Append(s, x) /\ x # b
  <2>1. stack'[Len(s) + 1] = x
    <3>1. Append(s, x)[Len(s) + 1] = x
      BY <1>5
    <3> QED
      BY <1>10, <3>1
  <2>2. stack'[j] = x
    BY <1>5, <1>6, <1>7, <2>1
  <2> QED
    BY <1>2, <1>7, <1>8, <1>10, <2>2 DEF BorrowUsed
<1> QED
  BY <1>2, <1>4, <1>7, <1>8, <1>9, <1>10

LEMMA SameFaithful ==
  ASSUME IInv, IInv', \A o \in Obj : Same(heap[o], heap'[o])
  PROVE  Faithful
BY QuietFaithful

LEMMA StopFaithful == ASSUME IInv, IInv', heap' = heap PROVE Faithful
BY SameFaithful DEF Same

LEMMA NewFaithful ==
  ASSUME IInv, IInv', NEW p \in Free, \A o \in Obj \ {p} : Same(heap[o], heap'[o])
  PROVE  Faithful
<1>1. \A o \in Obj : heap[o].live => o # p
  BY DEF Free
<1> QED
  BY <1>1, QuietFaithful

LEMMA ReleaseSame ==
  ASSUME IInv, Release
  PROVE  \A o \in Obj : heap[o].live /\ heap'[o].live => Same(heap[o], heap'[o])
<1> DEFINE c == Head(drop)
<1>1. heap \in [Obj -> [live : BOOLEAN, rc : 0..(RcMod - 1), tab : BOOLEAN, keys : Seq(Int), e : Seq(ValueCell)]]
  BY DEF IInv, HeapOK
<1>2. \A o \in Obj : heap[o].live /\ heap'[o].live => Same(heap[o], heap'[o])
  <2>1. Dead.live = FALSE
    BY DEF Dead, Object
  <2>2. CASE ~Counts(c)
    BY <2>2 DEF Release, Same
  <2>3. CASE Counts(c) /\ Less(c.o) = 0
    <3>1. heap' = [heap EXCEPT ![c.o] = Dead]
      BY <2>3 DEF Release
    <3> HIDE DEF c
    <3> QED
      BY <1>1, <2>1, <3>1 DEF Same
  <2>4. CASE Counts(c) /\ Less(c.o) # 0
    <3>1. heap' = [heap EXCEPT ![c.o].rc = Less(c.o)]
      BY <2>4 DEF Release
    <3> HIDE DEF c
    <3> DEFINE m == Less(c.o)
    <3> HIDE DEF m
    <3>2. heap' = [heap EXCEPT ![c.o].rc = m]
      BY <3>1 DEF m
    <3> QED
      BY <1>1, <3>2 DEF Same
  <2> QED
    BY <2>2, <2>3, <2>4
<1> QED
  BY <1>2

LEMMA ReleaseFaithful ==
  ASSUME IInv, IInv', Release
  PROVE  Faithful
BY ReleaseSame, QuietFaithful

LEMMA BorrowFaithful ==
  ASSUME IInv, IInv', NEW v \in Var, Borrow(v)
  PROVE  Faithful
<1>1. PICK c : c = env[v]
  OBVIOUS
<1>2. c \in ValueCell /\ Alive(c)
  BY <1>1, AllAlive
<1>3. PICK r \in Cloned(c) : heap' = r.h
  BY <1>1 DEF Borrow, Do
<1>4. \A o \in Obj : heap[o].live => Same(heap[o], heap'[o])
  BY <1>2, <1>3, ClonedIs
<1> QED
  BY <1>4, QuietFaithful

LEMMA NextOrJmpFaithful ==
  ASSUME IInv, IInv', NEW key \in Var \union {Unnamed}, NEW v \in Var, NextOrJmp(key, v)
  PROVE  Faithful
<1>1. heap' = heap \/ \E x : heap' = Copying(<<x>>, heap)
  BY DEF NextOrJmp, Stop, Do
<1>2. \A o \in Obj : Same(heap[o], heap'[o])
  BY <1>1, CopyingSame DEF Same
<1> QED
  BY <1>2, SameFaithful

LEMMA CreateArrayFaithful ==
  ASSUME IInv, IInv', NEW n \in 0..MaxLen, CreateArray(n)
  PROVE  Faithful
<1>1. PICK p \in Free : \E x : heap' = [heap EXCEPT ![p] = x]
  BY DEF CreateArray, Do
<1>2. \A o \in Obj \ {p} : Same(heap[o], heap'[o])
  BY <1>1 DEF Same, IInv, HeapOK
<1> QED
  BY <1>2, NewFaithful

LEMMA CreateTableFaithful ==
  ASSUME IInv, IInv', NEW n \in Tables, CreateTable(n)
  PROVE  Faithful
<1>1. CASE Stop("raised")
  BY <1>1, StopFaithful DEF Stop
<1>2. CASE ~Stop("raised")
  <2>1. PICK p \in Free : \E x : heap' = [heap EXCEPT ![p] = x]
    BY <1>2 DEF CreateTable, Do
  <2>2. \A o \in Obj \ {p} : Same(heap[o], heap'[o])
    BY <2>1 DEF Same, IInv, HeapOK
  <2> QED
    BY <2>2, NewFaithful
<1> QED
  BY <1>1, <1>2

LEMMA GetFaithful ==
  ASSUME IInv, IInv', Get
  PROVE  Faithful
<1>1. heap' = heap \/ \E x : heap' = Copying(<<x>>, heap)
  BY DEF Get, Stop, Do
<1>2. \A o \in Obj : Same(heap[o], heap'[o])
  BY <1>1, CopyingSame DEF Same
<1> QED
  BY <1>2, SameFaithful

LEMMA SliceFaithful ==
  ASSUME IInv, IInv', Slice
  PROVE  Faithful
<1>1. CASE Stop("raised")
  BY <1>1, StopFaithful DEF Stop
<1>2. CASE ~Stop("raised")
  <2>1. PICK p \in Free : \E x : heap' = NewCopy(p, x)
    BY <1>2 DEF Slice, Do
  <2>2. \A o \in Obj \ {p} : Same(heap[o], heap'[o])
    BY <2>1, NewCopyIs
  <2> QED
    BY <2>2, NewFaithful
<1> QED
  BY <1>1, <1>2

(* An operand grows only when no variable leads to it.                     *)
LEMMA AppendOpFaithful ==
  ASSUME IInv, IInv', Careful, AppendOp
  PROVE  Faithful
<1>1. PICK c, r : c = Operand(1) /\ r = Operand(0)
  OBVIOUS
<1>2. Has(2) /\ IsCell(c)
  BY <1>1 DEF AppendOp
<1>3. CASE Stop("raised")
  BY <1>3, StopFaithful DEF Stop
<1>4. CASE ~Stop("raised") /\ IsArray(r)
  <2>1. PICK a \in Appended(c, r) : heap' = a.h
    BY <1>1, <1>4 DEF AppendOp, Do
  <2>2. PICK p \in Free : a.h = NewCopy(p, Array(JoinedCells(c, r)))
    BY <1>4, AppendedIs
  <2>3. \A o \in Obj \ {p} : Same(heap[o], heap'[o])
    BY <2>1, <2>2, NewCopyIs
  <2> QED
    BY <2>3, NewFaithful
<1>5. CASE ~Stop("raised") /\ ~IsArray(r)
  <2>1. IsArray(c) /\ RcOf(c) = 1
    BY <1>1, <1>5 DEF AppendOp, Careful
  <2>2. PICK o : o = c.o
    OBVIOUS
  <2>3. c \in OperandCell
    BY <1>1, <1>2, Operands2 DEF Has
  <2>4. c.k = "ref" /\ o \in Obj /\ heap[o].rc = 1
    BY <2>1, <2>2, <2>3, OperandCells DEF IsArray, RcOf, Counts
  <2>5. PICK a \in Appended(c, r) : env' = env /\ heap' = a.h
    BY <1>1, <1>5 DEF AppendOp, Do
  <2>6. heap' = Grown(heap, o, r)
    BY <1>5, <2>2, <2>5, AppendedIs
  <2>7. \A p \in Obj \ {o} : heap'[p] = heap[p]
    BY <2>4, <2>6, GrownIs
  <2>8. OnStack(o)
    <3>1. Len(stack) - 1 \in DOMAIN stack /\ stack[Len(stack) - 1] = c
      BY <1>1, <1>2, Tops
    <3> QED
      BY <2>2, <2>4, <3>1 DEF OnStack, RefersTo, Counts
  <2>9. ~InEnv(o) /\ ~InHeap(o)
    BY <2>4, <2>8, OneReference
  <2> SUFFICES ASSUME NEW v \in Var PROVE TreeOf(env[v])' = TreeOf(env[v])
    BY DEF Faithful
  <2> DEFINE P == {o}
  <2>10. P \in SUBSET Obj /\ Closed(P) /\ \A q \in P : ~RefersTo(env[v], q)
    BY <2>4, <2>9 DEF Closed, InEnv, InHeap
  <2>11. \A p \in Obj \ P : heap[p].live /\ heap'[p].live => Same(heap[p], heap'[p])
    BY <2>7 DEF Same
  <2> HIDE DEF P
  <2>12. \E Q : Spares(Q, v)
    BY <2>5, <2>10, <2>11, KeptSpares
  <2> QED
    BY <2>5, <2>12, SparedTree
<1> QED
  BY <1>3, <1>4, <1>5

LEMMA WrittenElsewhere ==
  ASSUME NEW h, DOMAIN h = Obj, h = [o \in Obj |-> h[o]], NEW b, NEW d
  PROVE  \A o \in Obj : o # b.o => HeapWith(h, b, d)[o] = h[o]
<1> TAKE o \in Obj
<1>1. CASE b.o = NoObj
  BY <1>1 DEF HeapWith
<1>2. CASE b.o # NoObj
  <2>1. PICK x : HeapWith(h, b, d) = [h EXCEPT ![b.o] = x]
    BY <1>2 DEF HeapWith
  <2> QED
    BY <2>1
<1> QED
  BY <1>1, <1>2

(* HeapWith of the heap as it is.                                          *)
LEMMA HeapWritten ==
  ASSUME IInv, NEW b, NEW d, heap' = HeapWith(heap, b, d)
  PROVE  \A o \in Obj : o # b.o => heap'[o] = heap[o]
<1>1. PICK h : h = heap
  OBVIOUS
<1>2. DOMAIN h = Obj /\ h = [o \in Obj |-> h[o]]
  BY <1>1 DEF IInv, HeapOK
<1>3. \A o \in Obj : o # b.o => HeapWith(h, b, d)[o] = h[o]
  BY <1>2, WrittenElsewhere
<1> QED
  BY <1>1, <1>3

LEMMA MoveFaithful ==
  ASSUME CInv, IInv', Move
  PROVE  Faithful
<1>1. PICK b : b = Operand(0)
  OBVIOUS
<1>2. PICK c : c = Pointed(b)
  OBVIOUS
<1>3. /\ IInv /\ Has(1) /\ b.k = "borrow" /\ Leads(b) /\ ~Dangling(b)
      /\ stack' = Append(Below(1), c) /\ heap' = HeapWith(heap, b, Null)
  BY <1>1, <1>2 DEF CInv, Move, Do
<1>4. PICK m \in Nat : m = Len(stack) /\ m >= 1
  BY <1>3, LenProperties DEF Has, IInv
<1>5. 1 \in 1..m /\ m - (1 - 1) = m /\ m - 0 = m
  BY <1>4
<1>6. b = stack[Len(stack) - (1 - 1)] /\ 1 \in 1..Len(stack)
  BY <1>1, <1>4, <1>5 DEF Operand
<1>7. b \in BorrowCell /\ c \in ValueCell
  <2>1. b \in OperandCell
    BY <1>1, <1>3, Operands1 DEF Has
  <2>2. b \in BorrowCell
    BY <1>3, <2>1, OperandCells
  <2> QED
    BY <1>2, <1>3, <2>2, PlaceFacts
<1>8. c # b
  BY <1>3, <1>7, CellKinds
<1>9. BorrowUsed(b.v) /\ Len(stack) - (1 - 1) \in DOMAIN stack
  <2>1. PICK n, x : n = 1 /\ x = c
    OBVIOUS
  <2>2. n \in 1..Len(stack) /\ b = stack[Len(stack) - (n - 1)]
    BY <1>6, <2>1
  <2>3. stack' = Append(Below(n), x) /\ x # b
    BY <1>3, <1>8, <2>1
  <2>4. BorrowUsed(b.v) /\ Len(stack) - (n - 1) \in DOMAIN stack
    BY <1>3, <2>2, <2>3, UsedUp
  <2> QED
    BY <2>1, <2>4
<1>10. \A o \in Obj : o # b.o => heap'[o] = heap[o]
  <2>1. PICK d : d = Null
    OBVIOUS
  <2>2. heap' = HeapWith(heap, b, d)
    BY <1>3, <2>1
  <2> QED
    BY <1>3, <2>2, HeapWritten
<1>11. \A o \in Obj : heap[o].live /\ heap'[o].live => o = b.o \/ Same(heap[o], heap'[o])
  BY <1>10 DEF Same
<1> QED
  BY <1>2, <1>3, <1>6, <1>9, <1>11, PlaceFaithful

(* The same of the instructions whose borrow is the second operand.        *)
LEMMA SecondUsed ==
  ASSUME CInv, IInv', Careful, Has(2), NEW b, b = Operand(1), b.k = "borrow", MayUse(b),
         NEW x, stack' = Below(2) \/ (stack' = Append(Below(2), x) /\ x # b),
         NEW c, c = Pointed(b),
         \A o \in Obj : heap[o].live /\ heap'[o].live =>
           \/ o = b.o
           \/ c.k = "ref" /\ o = c.o /\ heap[o].rc = 1
           \/ Same(heap[o], heap'[o])
  PROVE  Faithful
<1>1. IInv /\ Leads(b)
  BY DEF CInv, MayUse, Careful
<1>2. PICK m \in Nat : m = Len(stack) /\ m >= 2
  BY <1>1, LenProperties DEF Has, IInv
<1>3. 2 \in 1..m /\ m - (2 - 1) = m - 1
  BY <1>2
<1>4. b = stack[Len(stack) - (2 - 1)] /\ 2 \in 1..Len(stack)
  BY <1>2, <1>3 DEF Operand
<1>5. BorrowUsed(b.v) /\ Len(stack) - (2 - 1) \in DOMAIN stack
  BY <1>1, <1>4, UsedUp
<1> QED
  BY <1>1, <1>4, <1>5, PlaceFaithful

(* A borrow of an element is not the borrow it was made from.              *)
LEMMA LongerPlace ==
  ASSUME NEW p \in Seq(Int), NEW s
  PROVE  Append(p, s) # p
<1>1. Len(Append(p, s)) = Len(p) + 1 /\ Len(p) \in Nat
  BY LenProperties
<1> QED
  BY <1>1

LEMMA BorrowElementFaithful ==
  ASSUME CInv, IInv', Careful, BorrowElement
  PROVE  Faithful
<1>1. PICK b, i : b = Operand(1) /\ i = Operand(0)
  OBVIOUS
<1>2. PICK c : c = Pointed(b)
  OBVIOUS
<1>3. IInv /\ Has(2) /\ b.k = "borrow" /\ MayUse(b)
  BY <1>1 DEF CInv, BorrowElement
<1>4. b \in BorrowCell /\ ~Dangling(b) /\ c \in ValueCell /\ Alive(c)
  BY <1>1, <1>2, <1>3, Writing, PlaceFacts
<1>5. PICK at : at = Index(c, i)
  OBVIOUS
<1>6. CASE at = 0
  <2>1. Stop("raised")
    BY <1>1, <1>2, <1>4, <1>5, <1>6 DEF BorrowElement
  <2> QED
    BY <1>3, <2>1, StopFaithful DEF Stop
<1>7. CASE at # 0
  <2>0. PICK s : s = StepOf(c, i.n)
    OBVIOUS
  <2>1. PICK r \in Cloned(c) :
          Do(EnvWith(b, r.c),
             Append(Below(2),
               BorrowOf(b.v, Append(b.p, s), r.c.o, at, Len(r.h[r.c.o].e),
                        [b.rcs EXCEPT ![Len(b.rcs)] = r.h[r.c.o].rc] \o <<1>>)),
             HeapWith(r.h, b, r.c), r.d)
    BY <1>1, <1>2, <1>4, <1>5, <1>7, <2>0 DEF BorrowElement
  <2>2. PICK x : /\ stack' = Append(Below(2), x) /\ heap' = HeapWith(r.h, b, r.c)
                 /\ x.p = Append(b.p, s)
    <3>1. PICK rcs, len : /\ rcs = [b.rcs EXCEPT ![Len(b.rcs)] = r.h[r.c.o].rc] \o <<1>>
                          /\ len = Len(r.h[r.c.o].e)
      OBVIOUS
    <3>2. PICK x : x = BorrowOf(b.v, Append(b.p, s), r.c.o, at, len, rcs)
      OBVIOUS
    <3>3. stack' = Append(Below(2), x) /\ heap' = HeapWith(r.h, b, r.c)
      BY <2>1, <3>1, <3>2 DEF Do
    <3>4. x.p = Append(b.p, s)
      BY <3>2 DEF BorrowOf
    <3> QED
      BY <3>3, <3>4
  <2>3. b.p \in Seq(Int)
    BY <1>4 DEF BorrowCell
  <2>4. x # b
    BY <2>2, <2>3, LongerPlace
  <2>5. WellFormed(r.h) /\ \A o \in Obj : heap[o].live => Same(heap[o], r.h[o])
    BY <1>3, <1>4, ClonedIs
  <2>6. \A o \in Obj : o # b.o => heap'[o] = r.h[o]
    <3>1. PICK h, d : h = r.h /\ d = r.c
      OBVIOUS
    <3>2. \A o \in Obj : o # b.o => HeapWith(h, b, d)[o] = h[o]
      BY <2>5, <3>1, WrittenElsewhere DEF WellFormed
    <3> QED
      BY <2>2, <3>1, <3>2
  <2>7. \A o \in Obj : heap[o].live /\ heap'[o].live => o = b.o \/ Same(heap[o], heap'[o])
    BY <2>5, <2>6 DEF Same
  <2> QED
    BY <1>1, <1>2, <1>3, <2>2, <2>4, <2>7, SecondUsed
<1> QED
  BY <1>6, <1>7

LEMMA BorrowInsertedFaithful ==
  ASSUME CInv, IInv', Careful, BorrowInserted
  PROVE  Faithful
<1>1. PICK b, i : b = Operand(1) /\ i = Operand(0)
  OBVIOUS
<1>2. PICK c : c = Pointed(b)
  OBVIOUS
<1>3. IInv /\ Has(2) /\ b.k = "borrow" /\ MayUse(b)
  BY <1>1 DEF CInv, BorrowInserted
<1>4. b \in BorrowCell /\ ~Dangling(b) /\ c \in ValueCell /\ Alive(c)
  BY <1>1, <1>2, <1>3, Writing, PlaceFacts
<1>5. CASE ~IsTable(c) \/ i.k # "num"
  <2>1. Stop("raised")
    BY <1>1, <1>2, <1>4, <1>5 DEF BorrowInserted
  <2> QED
    BY <1>3, <2>1, StopFaithful DEF Stop
<1>6. CASE IsTable(c) /\ i.k = "num"
  <2>1. c.k = "ref"
    BY <1>4, <1>6, ValueCells DEF IsTable
  <2>2. PICK r \in Cloned(c) :
          LET t == Entered(r.h[r.c.o], i.n) IN
          /\ Len(t.e) <= MaxLen
          /\ Do(EnvWith(b, r.c),
                Append(Below(2),
                  BorrowOf(b.v, Append(b.p, i.n), r.c.o, Entry(t.keys, i.n), Len(t.e),
                           [b.rcs EXCEPT ![Len(b.rcs)] = t.rc] \o <<1>>)),
                HeapWith([r.h EXCEPT ![r.c.o] = t], b, r.c), r.d)
    BY <1>1, <1>2, <1>4, <1>6 DEF BorrowInserted
  <2>3. PICK x, t :
          /\ stack' = Append(Below(2), x) /\ heap' = HeapWith([r.h EXCEPT ![r.c.o] = t], b, r.c)
          /\ x.p = Append(b.p, i.n)
    <3>1. PICK t : t = Entered(r.h[r.c.o], i.n)
      OBVIOUS
    <3>2. PICK rcs, len, at : /\ rcs = [b.rcs EXCEPT ![Len(b.rcs)] = t.rc] \o <<1>>
                              /\ len = Len(t.e) /\ at = Entry(t.keys, i.n)
      OBVIOUS
    <3>3. PICK x : x = BorrowOf(b.v, Append(b.p, i.n), r.c.o, at, len, rcs)
      OBVIOUS
    <3>4. stack' = Append(Below(2), x) /\ heap' = HeapWith([r.h EXCEPT ![r.c.o] = t], b, r.c)
      BY <2>2, <3>1, <3>2, <3>3 DEF Do
    <3>5. x.p = Append(b.p, i.n)
      BY <3>3 DEF BorrowOf
    <3> QED
      BY <3>4, <3>5
  <2>4. b.p \in Seq(Int)
    BY <1>4 DEF BorrowCell
  <2>5. x # b
    BY <2>3, <2>4, LongerPlace
  <2>6. /\ WellFormed(r.h) /\ \A o \in Obj : heap[o].live => Same(heap[o], r.h[o])
        /\ Put(r.h, c, r.c) /\ r.c.k = "ref" /\ r.c.o \in Obj
        /\ r.c = c => heap[c.o].rc = 1
    BY <1>3, <1>4, <2>1, ClonedIs
  <2>7. \A o \in Obj : o # b.o /\ o # r.c.o => heap'[o] = r.h[o]
    <3>1. PICK h, d, q : h = r.h /\ d = r.c /\ q = r.c.o
      OBVIOUS
    <3>2. DOMAIN h = Obj
      BY <2>6, <3>1 DEF WellFormed
    <3>3. PICK g : g = [h EXCEPT ![q] = t]
      OBVIOUS
    <3>4. DOMAIN g = Obj /\ g = [o \in Obj |-> g[o]] /\ \A o \in Obj : o # q => g[o] = h[o]
      BY <3>2, <3>3
    <3>5. \A o \in Obj : o # b.o => HeapWith(g, b, d)[o] = g[o]
      BY <3>4, WrittenElsewhere
    <3> QED
      BY <2>3, <3>1, <3>3, <3>4, <3>5
  <2>8. r.c = c \/ ~heap[r.c.o].live
    BY <2>6 DEF Put
  <2>9. \A o \in Obj : heap[o].live /\ heap'[o].live =>
          o = b.o \/ (c.k = "ref" /\ o = c.o /\ heap[o].rc = 1) \/ Same(heap[o], heap'[o])
    BY <2>1, <2>6, <2>7, <2>8 DEF Same
  <2> QED
    BY <1>1, <1>2, <1>3, <2>3, <2>5, <2>9, SecondUsed
<1> QED
  BY <1>5, <1>6

LEMMA WriteBorrowedFaithful ==
  ASSUME CInv, IInv', Careful, WriteBorrowed
  PROVE  Faithful
<1>1. PICK b, d : b = Operand(1) /\ d = Operand(0)
  OBVIOUS
<1>2. PICK c : c = Pointed(b)
  OBVIOUS
<1>3. IInv /\ Has(2) /\ b.k = "borrow" /\ MayUse(b)
  BY <1>1 DEF CInv, WriteBorrowed
<1>4. ~Dangling(b)
  BY <1>1, <1>3, Writing
<1>5. stack' = Below(2) /\ heap' = HeapWith(heap, b, d)
  BY <1>1, <1>4 DEF WriteBorrowed, Do
<1>6. \A o \in Obj : o # b.o => heap'[o] = heap[o]
  BY <1>3, <1>5, HeapWritten
<1>7. \A o \in Obj : heap[o].live /\ heap'[o].live => o = b.o \/ Same(heap[o], heap'[o])
  BY <1>6 DEF Same
<1> QED
  BY <1>1, <1>2, <1>3, <1>5, <1>7, SecondUsed

LEMMA AppendBorrowedFaithful ==
  ASSUME CInv, IInv', Careful, AppendBorrowed
  PROVE  Faithful
<1>1. PICK b, r : b = Operand(1) /\ r = Operand(0)
  OBVIOUS
<1>2. PICK c : c = Pointed(b)
  OBVIOUS
<1>3. IInv /\ Has(2) /\ b.k = "borrow" /\ MayUse(b)
  BY <1>1 DEF CInv, AppendBorrowed
<1>4. b \in BorrowCell /\ ~Dangling(b) /\ c \in ValueCell /\ Alive(c)
  BY <1>1, <1>2, <1>3, Writing, PlaceFacts
<1>5. \A j \in DOMAIN b.rcs : b.rcs[j] = 1 /\ Len(b.rcs) \in DOMAIN b.rcs
  BY <1>1, <1>3, Writing
<1>6. CASE Stop("raised")
  BY <1>3, <1>6, StopFaithful DEF Stop
<1>7. CASE ~Stop("raised")
  <2>1. /\ IsArray(c) \/ IsArray(r)
        /\ IsArray(r) \/ RcOf(c) <= b.rcs[Len(b.rcs)]
        /\ \E a \in Appended(c, r) : stack' = Below(2) /\ heap' = HeapWith(a.h, b, a.c)
    BY <1>1, <1>2, <1>4, <1>7 DEF AppendBorrowed, Careful, Do
  <2>2. PICK a \in Appended(c, r) : stack' = Below(2) /\ heap' = HeapWith(a.h, b, a.c)
    BY <2>1
  <2>3. PICK h, d : h = a.h /\ d = a.c
    OBVIOUS
  <2>4. heap = [o \in Obj |-> heap[o]]
    BY <1>3 DEF IInv, HeapOK
  <2>5. DOMAIN h = Obj /\ h = [o \in Obj |-> h[o]]
    <3>1. CASE IsArray(r)
      <4>1. PICK p, e : h = NewCopy(p, e)
        BY <2>2, <2>3, <3>1, AppendedIs
      <4>2. PICK k : k = e.e
        OBVIOUS
      <4>3. PICK g : g = Copying(k, heap)
        OBVIOUS
      <4>4. h = [g EXCEPT ![p] = e]
        BY <4>1, <4>2, <4>3 DEF NewCopy
      <4>5. DOMAIN g = Obj
        BY <4>3 DEF Copying
      <4> QED
        BY <4>4, <4>5
    <3>2. CASE ~IsArray(r)
      <4>1. h = Grown(heap, c.o, r)
        BY <2>2, <2>3, <3>2, AppendedIs
      <4>2. PICK g, p : g = heap /\ p = c.o
        OBVIOUS
      <4>3. DOMAIN g = Obj
        BY <2>4, <4>2
      <4>4. PICK x : h = [g EXCEPT ![p] = x]
        BY <4>1, <4>2 DEF Grown
      <4> QED
        BY <4>3, <4>4
    <3> QED
      BY <3>1, <3>2
  <2>6. \A o \in Obj : o # b.o => heap'[o] = h[o]
    BY <2>2, <2>3, <2>5, WrittenElsewhere
  <2>7. \A o \in Obj : heap[o].live =>
          (c.k = "ref" /\ o = c.o /\ heap[o].rc = 1) \/ Same(heap[o], h[o])
    <3>1. CASE IsArray(r)
      <4>1. PICK p \in Free : h = NewCopy(p, Array(JoinedCells(c, r)))
        BY <2>2, <2>3, <3>1, AppendedIs
      <4>2. \A o \in Obj \ {p} : Same(heap[o], h[o])
        BY <1>3, <4>1, NewCopyIs
      <4> QED
        BY <4>2 DEF Free
    <3>2. CASE ~IsArray(r)
      <4>1. h = Grown(heap, c.o, r)
        BY <2>2, <2>3, <3>2, AppendedIs
      <4>2. c.k = "ref" /\ c.o \in Obj /\ RcOf(c) <= 1
        <5>1. b.rcs[Len(b.rcs)] = 1
          <6>1. b.rcs # <<>>
            <7>1. b.rcs \in Seq(Nat) /\ Len(b.rcs) = Len(b.p) + 1 /\ Len(b.p) \in Nat
              BY <1>4, LenProperties DEF BorrowCell
            <7> QED
              BY <7>1
          <6> QED
            BY <1>1, <1>3, Writing
        <5> QED
          BY <1>4, <2>1, <3>2, <5>1, ValueCells DEF IsArray
      <4>3. heap[c.o].rc = 1
        <5>1. heap[c.o].rc > 0 /\ heap[c.o].rc \in Int /\ heap[c.o].rc <= 1
          BY <1>3, <1>4, <4>2, HeapAssumption DEF RcOf, IInv, HeapOK, Alive, RefersTo, Counts
        <5> QED
          BY <5>1
      <4>4. \A o \in Obj \ {c.o} : h[o] = heap[o]
        BY <1>3, <4>1, <4>2, GrownIs
      <4> QED
        BY <4>2, <4>3, <4>4 DEF Same
    <3> QED
      BY <3>1, <3>2
  <2>8. \A o \in Obj : heap[o].live /\ heap'[o].live =>
          o = b.o \/ (c.k = "ref" /\ o = c.o /\ heap[o].rc = 1) \/ Same(heap[o], heap'[o])
    BY <2>6, <2>7
  <2> QED
    BY <1>1, <1>2, <1>3, <2>2, <2>8, SecondUsed
<1> QED
  BY <1>6, <1>7

LEMMA NextFaithful == Careful /\ CInv /\ IInv' /\ [Next]_vars => [Faithful]_vars
<1> SUFFICES ASSUME Careful, CInv, IInv', Next PROVE Faithful
  OBVIOUS
<1>0. IInv
  BY DEF CInv
<1>1. CASE Release
  BY <1>0, <1>1, ReleaseFaithful
<1>2. ASSUME NEW c \in Literal, Push(c) PROVE Faithful
  <2>1. heap' = heap
    BY <1>2 DEF Push, Do
  <2> QED
    BY <1>0, <2>1, StopFaithful
<1>3. ASSUME NEW v \in Var, PushVar(v) PROVE Faithful
  <2>1. PICK x : heap' = Copying(<<x>>, heap)
    BY <1>3 DEF PushVar, Do
  <2>2. \A o \in Obj : Same(heap[o], heap'[o])
    BY <1>0, <2>1, CopyingSame
  <2> QED
    BY <1>0, <2>2, SameFaithful
<1>4. ASSUME NEW v \in Var, WriteVar(v) PROVE Faithful
  <2>1. heap' = heap
    BY <1>4 DEF WriteVar, Do
  <2> QED
    BY <1>0, <2>1, StopFaithful
<1>5. ASSUME NEW v \in Var, Borrow(v) PROVE Faithful
  BY <1>0, <1>5, BorrowFaithful
<1>6. ASSUME NEW key \in Var \union {Unnamed}, NEW v \in Var, key # v, NextOrJmp(key, v) PROVE Faithful
  BY <1>0, <1>6, NextOrJmpFaithful
<1>7. CASE Pop
  <2>1. heap' = heap
    BY <1>7 DEF Pop, Do
  <2> QED
    BY <1>0, <2>1, StopFaithful
<1>8. CASE BorrowElement
  BY <1>8, BorrowElementFaithful
<1>9. CASE BorrowInserted
  BY <1>9, BorrowInsertedFaithful
<1>10. CASE WriteBorrowed
  BY <1>10, WriteBorrowedFaithful
<1>11. CASE AppendBorrowed
  BY <1>11, AppendBorrowedFaithful
<1>12. CASE Move
  BY <1>12, MoveFaithful
<1>13. ASSUME NEW n \in 0..MaxLen, CreateArray(n) PROVE Faithful
  BY <1>0, <1>13, CreateArrayFaithful
<1>14. ASSUME NEW n \in Tables, CreateTable(n) PROVE Faithful
  BY <1>0, <1>14, CreateTableFaithful
<1>15. CASE Get
  BY <1>0, <1>15, GetFaithful
<1>16. CASE Slice
  BY <1>0, <1>16, SliceFaithful
<1>17. CASE AppendOp
  BY <1>0, <1>17, AppendOpFaithful
<1>18. CASE BeginIter
  <2>1. heap' = heap
    BY <1>18 DEF BeginIter, Do
  <2> QED
    BY <1>0, <2>1, StopFaithful
<1> QED
  BY <1>1, <1>2, <1>3, <1>4, <1>5, <1>6, <1>7, <1>8, <1>9, <1>10, <1>11, <1>12, <1>13, <1>14,
     <1>15, <1>16, <1>17, <1>18 DEF Next

(* A script that appends, writes and gets with care has value semantics: a *)
(* variable's whole tree changes only when the variable is written or a    *)
(* place borrowed from it is used, whatever else its arrays are shared     *)
(* with (test/mutable_arrays.jarl). Counting is what makes it so: nothing  *)
(* that another variable leads to is ever written in place.                *)
THEOREM CarefulCopies == Careful => (Spec /\ []Few => CopySemantics)
<1> SUFFICES ASSUME Careful PROVE Spec /\ []Few => CopySemantics
  OBVIOUS
<1>1. CInv /\ IInv' /\ [Next]_vars => [Faithful]_vars
  BY NextFaithful
<1>2. CopySemantics <=> [][Faithful]_vars
  BY DEF CopySemantics, Faithful
<1>3. Spec /\ []Few => []CInv
  BY CarefulKeeps
<1> QED
  BY <1>1, <1>2, <1>3, Inductive, PTL DEF Spec

-----------------------------------------------------------------------------
(* The tree of an object is that of its elements' trees, and there is only *)
(* one way to give trees to the objects of an ordered heap so.             *)

Of(T, c) == TreeIn(1, T, c)

Over(T, x) == TreeOver(x, 1, T)

LEMMA Deeper == \A d \in Nat \ {0} : \A T, c : TreeIn(d, T, c) = Of(T, c)
BY DEF Of, TreeIn

LEMMA Treed == \A c : TreeOf(c) = Of(Trees, c)
BY DEF Of, TreeIn, TreeOf

ReferredIn(h, S) == \A p \in S, o \in Obj : Refers(h, p, o) => o \in S

(* Where an element refers to.                                             *)
LEMMA ElementRefers ==
  ASSUME NEW h, NEW p, NEW j \in DOMAIN h[p].e, h[p].e[j].k = "ref"
  PROVE  Refers(h, p, h[p].e[j].o)
BY DEF Refers, RefersTo, Counts

LEMMA OneTree ==
  ASSUME NEW h, HeapOK(h), Ordered(h), NEW S \in SUBSET Obj, ReferredIn(h, S),
         NEW F, \A o \in S : F[o] = Over(F, h[o]),
         NEW G, \A o \in S : G[o] = Over(G, h[o])
  PROVE  \A o \in S : F[o] = G[o]
<1> SUFFICES ASSUME NEW q \in S, F[q] # G[q] PROVE FALSE
  OBVIOUS
<1>1. PICK K \in Nat : \E r : Ranked(h, r, K)
  BY DEF Ordered
<1>2. PICK r : Ranked(h, r, K)
  BY <1>1
<1>3. \A o \in Obj : r[o] \in Nat
  BY <1>2 DEF Ranked
<1> DEFINE T == {r[o] : o \in {o \in S : F[o] # G[o]}}
<1>4. T \in SUBSET Nat /\ T # {}
  BY <1>3
<1>5. PICK m \in T : \A n \in T : m <= n
  <2> HIDE DEF T
  <2> QED
    BY <1>4, Least
<1>6. PICK o \in S : F[o] # G[o] /\ r[o] = m
  OBVIOUS
<1>7. ASSUME NEW j \in DOMAIN h[o].e PROVE TreeIn(1, F, h[o].e[j]) = TreeIn(1, G, h[o].e[j])
  <2> SUFFICES ASSUME h[o].e[j].k = "ref" PROVE F[h[o].e[j].o] = G[h[o].e[j].o]
    BY DEF TreeIn
  <2>1. PICK p : p = h[o].e[j].o
    OBVIOUS
  <2>2. p \in Obj
    <3>1. h[o].e[j] \in ValueCell
      BY ElementOfSeq, SeqFinite DEF HeapOK, Shaped
    <3> QED
      BY <2>1, <3>1, ValueCells
  <2>3. Refers(h, o, p)
    BY <2>1, ElementRefers
  <2>4. p \in S /\ r[p] < r[o]
    BY <1>2, <2>2, <2>3 DEF ReferredIn, Ranked
  <2>5. ~(m <= r[p])
    BY <1>3, <1>6, <2>2, <2>4
  <2> QED
    BY <1>5, <2>1, <2>4, <2>5
<1>8. PICK x : x = h[o]
  OBVIOUS
<1>9. Keyed(x) /\ x.keys \in Seq(Int) /\ x.e \in Seq(ValueCell) /\ Same(x, x)
  BY <1>8 DEF HeapOK, Same
<1>10. TreeOver(x, 1, F) = TreeOver(x, 1, G)
  BY <1>7, <1>8, <1>9, TreeOverSame
<1> QED
  BY <1>6, <1>8, <1>10 DEF Over

Unfolded == \A o \in Obj : Trees[o] = Over(Trees, heap[o])

LEMMA TreesUnfold == IInv /\ Ordered(heap) => Unfolded
<1> SUFFICES ASSUME IInv, Ordered(heap), NEW z \in Obj PROVE Trees[z] = Over(Trees, heap[z])
  BY DEF Unfolded
<1>1. PICK n \in Nat : n = Depth
  BY DepthNat
<1>2. PICK t : Layered(heap, n, t) /\ Trees = t[n]
  BY <1>1, TreesAreLayered DEF TreesLayered
<1>3. PICK K \in Nat : \E r : Ranked(heap, r, K)
  BY DEF Ordered
<1>4. PICK r : Ranked(heap, r, K)
  BY <1>3
<1>5. \A o \in Obj : r[o] \in Nat
  BY <1>4 DEF Ranked
<1> DEFINE Lower(o) == {p \in Obj : r[p] < r[o]}
           Size(o) == Cardinality(Lower(o))
<1>6. IsFiniteSet(Obj)
  BY HeapAssumption
<1>7. \A o \in Obj : IsFiniteSet(Lower(o)) /\ Size(o) \in Nat
  BY <1>6, FS_Subset, FS_CardinalityType
<1>8. \A o \in Obj : Size(o) <= n - 1 /\ n >= 1
  <2> TAKE o \in Obj
  <2>1. Lower(o) \subseteq Obj \ {o}
    BY <1>5
  <2>2. Cardinality(Obj \ {o}) = n - 1 /\ IsFiniteSet(Obj \ {o}) /\ n - 1 \in Nat
    BY <1>1, <1>6, FS_RemoveElement, FS_CardinalityType DEF Depth
  <2>3. Size(o) <= n - 1
    BY <2>1, <2>2, FS_Subset
  <2> QED
    BY <2>2, <2>3
<1>9. ASSUME NEW o \in Obj, NEW j \in DOMAIN heap[o].e, heap[o].e[j].k = "ref"
      PROVE  heap[o].e[j].o \in Obj /\ Size(heap[o].e[j].o) < Size(o)
  <2>1. PICK p : p = heap[o].e[j].o
    OBVIOUS
  <2>2. Refers(heap, o, p) /\ p \in Obj
    BY <1>9, <2>1, ElementRefers, AliveReferred DEF ReferredAlive, InHeap
  <2>3. r[p] < r[o] /\ r[p] \in Nat /\ r[o] \in Nat
    BY <1>4, <1>5, <2>2 DEF Ranked
  <2>4. Lower(p) \subseteq Lower(o) \ {p} /\ p \in Lower(o)
    BY <1>5, <2>2, <2>3
  <2>5. Cardinality(Lower(o) \ {p}) = Size(o) - 1 /\ IsFiniteSet(Lower(o) \ {p})
    BY <1>7, <2>4, FS_RemoveElement
  <2>6. Size(p) <= Size(o) - 1
    BY <2>4, <2>5, FS_Subset
  <2>7. Size(p) \in Nat /\ Size(o) \in Nat
    BY <1>7, <2>2
  <2> HIDE DEF Size
  <2>8. Size(p) < Size(o)
    BY <2>6, <2>7
  <2> QED
    BY <2>1, <2>2, <2>8
<1> HIDE DEF Lower, Size
<1> DEFINE Stays(d) == \A o \in Obj : Size(o) <= d => t[d + 1][o] = t[d][o]
           T == {d \in Nat : d + 1 <= n => Stays(d)}
<1>10. ASSUME NEW d \in Nat, d + 1 <= n, d = 0 \/ (d - 1 \in Nat /\ Stays(d - 1)) PROVE Stays(d)
  <2> SUFFICES ASSUME NEW o \in Obj, Size(o) <= d PROVE t[d + 1][o] = t[d][o]
    OBVIOUS
  <2>1. d \in 0..n /\ d + 1 \in 0..n /\ (d + 1) - 1 = d /\ d + 1 # 0
    BY <1>10
  <2>2. t[d] = Layer(heap, d, t[d - 1]) /\ t[d + 1] = Layer(heap, d + 1, t[d])
    BY <1>2, <2>1 DEF Layered
  <2>3. t[d][o] = TreeOver(heap[o], d, t[d - 1]) /\ t[d + 1][o] = TreeOver(heap[o], d + 1, t[d])
    BY <2>2 DEF Layer
  <2>4. ASSUME NEW j \in DOMAIN heap[o].e
        PROVE  TreeIn(d, t[d - 1], heap[o].e[j]) = TreeIn(d + 1, t[d], heap[o].e[j])
    <3>1. CASE heap[o].e[j].k # "ref"
      BY <3>1 DEF TreeIn
    <3>2. CASE heap[o].e[j].k = "ref"
      <4>1. PICK p : p = heap[o].e[j].o
        OBVIOUS
      <4>2. p \in Obj /\ Size(p) < Size(o) /\ Size(p) \in Nat /\ Size(o) \in Nat
        BY <1>7, <1>9, <3>2, <4>1
      <4>3. d # 0 /\ Size(p) <= d - 1
        BY <4>2
      <4>4. t[d][p] = t[d - 1][p]
        <5>1. (d - 1) + 1 = d
          OBVIOUS
        <5> QED
          BY <1>10, <4>2, <4>3, <5>1
      <4> QED
        BY <2>1, <3>2, <4>1, <4>3, <4>4 DEF TreeIn
    <3> QED
      BY <3>1, <3>2
  <2>5. PICK x, a, b, f : x = heap[o] /\ a = t[d - 1] /\ b = t[d] /\ f = d + 1
    OBVIOUS
  <2>6. Keyed(x) /\ x.keys \in Seq(Int) /\ x.e \in Seq(ValueCell) /\ Same(x, x)
        /\ \A j \in DOMAIN x.e : TreeIn(d, a, x.e[j]) = TreeIn(f, b, x.e[j])
    BY <2>4, <2>5 DEF IInv, HeapOK, Same
  <2>7. TreeOver(x, d, a) = TreeOver(x, f, b)
    BY <2>6, TreeOverSame
  <2> QED
    BY <2>3, <2>5, <2>7
<1>11. T \in SUBSET Nat /\ 0 \in T
  BY <1>10
<1>12. ASSUME NEW d \in T PROVE d + 1 \in T
  <2>1. d \in Nat /\ d + 1 \in Nat /\ (d + 1) - 1 = d /\ ((d + 1) + 1 <= n => d + 1 <= n)
    OBVIOUS
  <2>2. d + 1 <= n => Stays(d)
    OBVIOUS
  <2> HIDE DEF Stays
  <2>3. (d + 1) + 1 <= n => Stays(d + 1)
    BY <1>10, <2>1, <2>2
  <2> QED
    BY <2>1, <2>3
<1> HIDE DEF T
<1>13. T = Nat
  BY <1>11, <1>12, AllNaturals
<1>14. n >= 1 /\ n - 1 \in Nat /\ (n - 1) + 1 = n /\ n \in 0..n
  BY <1>8
<1>15. \A o \in Obj : t[n][o] = t[n - 1][o]
  <2>1. n - 1 \in T
    BY <1>13, <1>14
  <2> QED
    BY <1>8, <1>14, <2>1 DEF T
<1>16. t[n][z] = TreeOver(heap[z], n, t[n - 1])
  <2>1. t[n] = Layer(heap, n, t[n - 1])
    BY <1>2, <1>14 DEF Layered
  <2> QED
    BY <2>1 DEF Layer
<1>17. \A j \in DOMAIN heap[z].e : TreeIn(n, t[n - 1], heap[z].e[j]) = TreeIn(1, t[n], heap[z].e[j])
  BY <1>9, <1>14, <1>15 DEF TreeIn
<1>18. PICK x, a, b : x = heap[z] /\ a = t[n - 1] /\ b = t[n]
  OBVIOUS
<1>19. Keyed(x) /\ x.keys \in Seq(Int) /\ x.e \in Seq(ValueCell) /\ Same(x, x)
       /\ \A j \in DOMAIN x.e : TreeIn(n, a, x.e[j]) = TreeIn(1, b, x.e[j])
  BY <1>17, <1>18 DEF IInv, HeapOK, Same
<1>20. PICK f : f = 1
  OBVIOUS
<1>21. TreeOver(x, n, a) = TreeOver(x, f, b)
  BY <1>19, <1>20, TreeOverSame
<1> QED
  BY <1>2, <1>16, <1>18, <1>20, <1>21 DEF Over

LEMMA TreesUnfoldNext == CInv' => Unfolded'
<1>1. CInv => Unfolded
  BY TreesUnfold DEF CInv
<1> QED
  BY <1>1, PTL

-----------------------------------------------------------------------------
(* The variables and operands as ValueSem sees them.                       *)

SemEnv   == [v \in Var |-> TreeOf(env[v])]
SemStack == [j \in 1..Len(stack) |-> SemOperand(stack[j])]

KeyIn(h, o, at) == IF h[o].tab THEN h[o].keys[at] ELSE at - 1

Shown(T, h, c) ==
  CASE c.k = "borrow" -> [k |-> "place", v |-> c.v, p |-> c.p]
    [] c.k = "iter"   -> [k |-> "loop", at |-> c.at,
                          e |-> [j \in DOMAIN c.order |->
                                   <<KeyIn(h, c.o, c.order[j]), Of(T, h[c.o].e[c.order[j]])>>]]
    [] OTHER          -> Of(T, c)

Mapped ==
  /\ SemEnv = [v \in Var |-> Of(Trees, env[v])]
  /\ SemStack = [j \in 1..Len(stack) |-> Shown(Trees, heap, stack[j])]

LEMMA StateMapped == Mapped
<1>1. \A c : SemOperand(c) = Shown(Trees, heap, c)
  BY Treed DEF SemOperand, Shown, KeyAt, KeyIn
<1> QED
  BY <1>1, Treed DEF Mapped, SemEnv, SemStack

LEMMA StateMappedNext == Mapped'
BY StateMapped, PTL

(* The objects of P may change in a step, the others may come and go.      *)
Touches(P) ==
  /\ P \in SUBSET Obj /\ Closed(P)
  /\ \A o \in Obj \ P : heap[o].live /\ heap'[o].live => Same(heap[o], heap'[o])

LEMMA KeptTrees ==
  ASSUME CInv, CInv', NEW K \in SUBSET Obj, \A o \in K : Same(heap[o], heap'[o]), ReferredIn(heap, K)
  PROVE  \A o \in K : Trees'[o] = Trees[o]
<1>1. PICK h, F, G : h = heap /\ F = Trees /\ G = Trees'
  OBVIOUS
<1>2. HeapOK(h) /\ Ordered(h)
  BY <1>1 DEF CInv, IInv
<1>3. \A o \in K : F[o] = Over(F, h[o])
  BY <1>1, TreesUnfold DEF CInv, Unfolded
<1>4. \A o \in K : G[o] = Over(G, h[o])
  <2> TAKE o \in K
  <2>1. G[o] = TreeOver(heap'[o], 1, G)
    BY <1>1, TreesUnfoldNext DEF Unfolded, Over
  <2>2. PICK x, y, f : x = heap[o] /\ y = heap'[o] /\ f = 1
    OBVIOUS
  <2>3. Keyed(x) /\ x.keys \in Seq(Int) /\ x.e \in Seq(ValueCell) /\ Same(x, y)
    BY <1>1, <1>2, <2>2 DEF HeapOK
  <2>4. TreeOver(x, f, G) = TreeOver(y, f, G)
    BY <2>3, TreeOverSame
  <2> QED
    BY <1>1, <2>1, <2>2, <2>4 DEF Over
<1>5. ReferredIn(h, K)
  BY <1>1
<1>6. \A o \in K : F[o] = G[o]
  BY <1>2, <1>3, <1>4, <1>5, OneTree
<1> QED
  BY <1>1, <1>6

LEMMA Untouched ==
  ASSUME CInv, CInv', NEW P, Touches(P)
  PROVE  \A o \in Obj \ P : heap[o].live /\ heap'[o].live =>
           /\ Same(heap[o], heap'[o]) /\ Trees'[o] = Trees[o]
           /\ \A p \in Obj : Refers(heap, o, p) =>
                p \notin P /\ heap[p].live /\ heap'[p].live /\ Trees'[p] = Trees[p]
<1> DEFINE K == {o \in Obj \ P : heap[o].live /\ heap'[o].live}
<1>1. ReferredAlive /\ ReferredAlive'
  BY AliveReferred, AliveReferredNext DEF CInv
<1>2. \A o \in K : Same(heap[o], heap'[o])
  BY DEF Touches
<1>3. ReferredIn(heap, K)
  <2> SUFFICES ASSUME NEW p \in K, NEW o \in Obj, Refers(heap, p, o) PROVE o \in K
    BY DEF ReferredIn
  <2>1. heap[o].live
    BY <1>1 DEF ReferredAlive, InHeap
  <2>2. Refers(heap', p, o)
    BY <1>2 DEF Refers, Same
  <2>3. heap'[o].live
    BY <1>1, <2>2 DEF ReferredAlive, InHeap
  <2>4. o \notin P
    BY DEF Touches, Closed
  <2> QED
    BY <2>1, <2>3, <2>4
<1>4. K \in SUBSET Obj
  OBVIOUS
<1>5. \A o \in K : Trees'[o] = Trees[o]
  <2> HIDE DEF K
  <2> QED
    BY <1>2, <1>3, <1>4, KeptTrees
<1> QED
  BY <1>2, <1>3, <1>5 DEF ReferredIn

(* What keeps a cell's tree.                                               *)
LEMMA CellKept ==
  ASSUME CInv, CInv', NEW P, Touches(P), NEW c \in OperandCell, Alive(c), Alive(c)',
         \A o \in P : ~RefersTo(c, o)
  PROVE  /\ Of(Trees', c) = Of(Trees, c)
         /\ CellFits(env, heap, c) => Shown(Trees', heap', c) = Shown(Trees, heap, c)
<1>1. c.k \in {"ref", "iter"} => /\ c.o \in Obj \ P /\ heap[c.o].live /\ heap'[c.o].live
                                /\ Same(heap[c.o], heap'[c.o]) /\ Trees'[c.o] = Trees[c.o]
  <2> SUFFICES ASSUME c.k \in {"ref", "iter"} PROVE c.o \in Obj \ P /\ heap[c.o].live /\ heap'[c.o].live
    BY Untouched
  <2> QED
    BY DEF Alive, RefersTo, Counts
<1>2. Of(Trees', c) = Of(Trees, c)
  BY <1>1 DEF Of, TreeIn
<1>3. ASSUME c.k = "iter", CellFits(env, heap, c) PROVE Shown(Trees', heap', c) = Shown(Trees, heap, c)
  <2>1. c \in IterCell /\ Len(heap[c.o].e) = Len(c.order)
    BY <1>3, OperandCells DEF CellFits
  <2>2. PICK o, e : o = c.o /\ e = heap[o].e
    OBVIOUS
  <2>3. o \in Obj /\ e \in Seq(ValueCell) /\ c.order \in Seq(Nat) /\ Len(e) = Len(c.order)
    BY <1>1, <1>3, <2>1, <2>2 DEF CInv, IInv, HeapOK, IterCell
  <2>4. ASSUME NEW j \in DOMAIN c.order PROVE Of(Trees', e[c.order[j]]) = Of(Trees, e[c.order[j]])
    <3>1. PICK i : i = c.order[j]
      OBVIOUS
    <3>2. i \in DOMAIN e
      <4>1. i \in 1..Len(c.order)
        BY <2>1, <3>1 DEF IterCell
      <4> QED
        BY <2>3, <4>1, SeqFinite
    <3>3. e[i] \in ValueCell
      BY <2>3, <3>2, ElementOfSeq, SeqFinite
    <3>4. e[i].k = "ref" => Refers(heap, o, e[i].o) /\ e[i].o \in Obj
      BY <2>2, <3>2, <3>3, ElementRefers, ValueCells
    <3>5. e[i].k = "ref" => Trees'[e[i].o] = Trees[e[i].o]
      BY <1>1, <1>3, <2>2, <3>4, Untouched
    <3> QED
      BY <3>1, <3>5 DEF Of, TreeIn
  <2>5. \A j : KeyIn(heap', o, j) = KeyIn(heap, o, j) /\ heap'[o].e = e
    BY <1>1, <1>3, <2>2 DEF KeyIn, Same
  <2>6. [j \in DOMAIN c.order |-> <<KeyIn(heap, o, c.order[j]), Of(Trees, e[c.order[j]])>>]
          = [j \in DOMAIN c.order |-> <<KeyIn(heap', o, c.order[j]), Of(Trees', e[c.order[j]])>>]
    BY <2>4, <2>5
  <2> QED
    BY <1>3, <2>2, <2>5, <2>6 DEF Shown
<1>4. c.k # "iter" => Shown(Trees', heap', c) = Shown(Trees, heap, c)
  BY <1>2 DEF Shown
<1> QED
  BY <1>2, <1>3, <1>4

(* The operands a step leaves are as they were.                            *)
LEMMA StackLeft ==
  ASSUME CInv, CInv', NEW P, Touches(P), NEW n \in 0..Len(stack), NEW s, NEW x \in OperandCell,
         s = Below(n), stack' = s \/ stack' = Append(s, x),
         \A o \in P : \A j \in 1..(Len(stack) - n) : ~RefersTo(stack[j], o)
  PROVE  /\ stack' = s => SemStack' = SubSeq(SemStack, 1, Len(SemStack) - n)
         /\ stack' = Append(s, x) =>
              SemStack' = Append(SubSeq(SemStack, 1, Len(SemStack) - n), Shown(Trees', heap', x))
         /\ Len(SemStack) = Len(stack) /\ Len(SemStack') = Len(stack')
<1>1. /\ IInv /\ IInv' /\ StackFits
      /\ SemStack = [j \in 1..Len(stack) |-> Shown(Trees, heap, stack[j])]
      /\ SemStack' = [j \in 1..Len(stack') |-> Shown(Trees', heap', stack'[j])]
  BY StateMapped, StateMappedNext DEF Mapped, CInv
<1>2. PICK l \in Nat : l = Len(stack) /\ DOMAIN stack = 1..l
  BY <1>1, SeqFinite DEF IInv
<1>3. PICK m \in Nat : m = l - n /\ m <= l
  BY <1>2
<1>4. m \in Int /\ m >= 0 /\ m <= l /\ l \in Nat
  BY <1>2, <1>3
<1>5. /\ s \in Seq(OperandCell) /\ Len(s) = m /\ DOMAIN s = 1..m /\ \A j \in 1..m : s[j] = stack[j]
  <2>1. s \in Seq(OperandCell) /\ Len(s) = m
    BY <1>1, <1>2, <1>3, Operands
  <2>2. s = SubSeq(stack, 1, m) /\ stack \in Seq(OperandCell)
    BY <1>1, <1>2, <1>3 DEF Below, IInv
  <2>3. \A j \in 1..m : s[j] = stack[j]
    BY <1>2, <1>3, <2>2
  <2> QED
    BY <2>1, <2>3, SeqFinite
<1>6. DOMAIN stack' = 1..Len(stack') /\ (stack' = s => Len(stack') = m)
      /\ (stack' = Append(s, x) => Len(stack') = m + 1 /\ stack'[m + 1] = x)
      /\ \A j \in 1..m : j \in DOMAIN stack' /\ stack'[j] = stack[j]
  <2>1. CASE stack' = s
    <3>1. m # m + 1 /\ stack' # Append(s, x)
      BY <1>5, <2>1
    <3> QED
      BY <1>5, <2>1, <3>1
  <2>2. CASE stack' = Append(s, x)
    <3>1. /\ Append(s, x) \in Seq(OperandCell) /\ Len(Append(s, x)) = m + 1
          /\ Append(s, x)[m + 1] = x /\ \A j \in 1..m : Append(s, x)[j] = s[j]
      BY <1>5, AppendProperties
    <3>2. stack' # s
      BY <1>5, <2>2, <3>1
    <3>3. DOMAIN Append(s, x) = 1..(m + 1)
      BY <3>1, SeqFinite
    <3> QED
      BY <1>5, <2>2, <3>1, <3>2, <3>3
  <2> QED
    BY <2>1, <2>2
<1>7. ASSUME NEW j \in 1..m PROVE Shown(Trees', heap', stack'[j]) = Shown(Trees, heap, stack[j])
  <2>1. PICK c : c = stack[j]
    OBVIOUS
  <2>2. j \in DOMAIN stack /\ j \in 1..(Len(stack) - n)
    BY <1>2, <1>3
  <2>3. c \in OperandCell /\ Alive(c) /\ CellFits(env, heap, c)
    BY <1>1, <2>1, <2>2, AllAlive DEF StackFits
  <2>4. Alive(c)'
    <3>1. \A o : RefersTo(c, o) => OnStack(o)'
      BY <1>6, <2>1 DEF OnStack
    <3> QED
      BY <1>1, <3>1, AliveReferredNext DEF ReferredAlive, Alive
  <2>5. \A o \in P : ~RefersTo(c, o)
    BY <2>1, <2>2
  <2>6. Shown(Trees', heap', c) = Shown(Trees, heap, c)
    BY <2>3, <2>4, <2>5, CellKept
  <2> QED
    BY <1>6, <2>1, <2>6
<1>8. PICK S, S2 : S = SemStack /\ S2 = SemStack'
  OBVIOUS
<1>9. PICK Z : Z = {S[j] : j \in 1..l}
  OBVIOUS
<1>10. /\ S \in Seq(Z) /\ Len(S) = l
       /\ Len(S2) = Len(stack') /\ DOMAIN S2 = 1..Len(stack')
  <2>1. Len(stack') \in Nat
    BY <1>1, LenProperties DEF IInv
  <2>2. S = [j \in 1..l |-> S[j]] /\ S2 = [j \in 1..Len(stack') |-> S2[j]]
    BY <1>1, <1>2, <1>8
  <2> QED
    BY <1>2, <1>9, <2>1, <2>2
<1>11. PICK B : B = SubSeq(S, 1, m)
  OBVIOUS
<1>12. Len(B) = m /\ DOMAIN B = 1..m /\ B = [j \in 1..m |-> S[j]]
  <2>1. \A a, b \in Nat : a <= b => a \in 0..b
    OBVIOUS
  <2>2. m \in 0..Len(S)
    BY <1>4, <1>3, <1>10, <2>1
  <2>3. B \in Seq(Z) /\ Len(B) = m /\ \A j \in 1..m : B[j] = S[j]
    BY <1>10, <1>11, <2>2, ReferencesSplit
  <2>4. B = [j \in 1..Len(B) |-> B[j]]
    BY <2>3
  <2> QED
    BY <2>3, <2>4
<1>13. ASSUME NEW j \in 1..m PROVE S2[j] = S[j]
  <2>1. j \in 1..Len(stack) /\ j \in 1..Len(stack')
    <3>1. \A a, b \in Nat : a <= b => 1..a \subseteq 1..b
      OBVIOUS
    <3>2. 1..m \subseteq 1..l
      BY <1>4, <3>1
    <3>3. j \in 1..l /\ j \in DOMAIN stack'
      BY <1>6, <3>2
    <3> QED
      BY <1>2, <1>6, <3>3
  <2>2. S[j] = Shown(Trees, heap, stack[j]) /\ S2[j] = Shown(Trees', heap', stack'[j])
    BY <1>1, <1>8, <2>1
  <2> QED
    BY <1>7, <2>2
<1>14. stack' = s => S2 = B
  BY <1>1, <1>6, <1>8, <1>12, <1>13
<1>15. ASSUME stack' = Append(s, x) PROVE S2 = Append(B, Shown(Trees', heap', x))
  <2>1. PICK z : z = Shown(Trees', heap', x)
    OBVIOUS
  <2>2. S2 = [j \in 1..(m + 1) |-> S2[j]] /\ S2[m + 1] = z
    BY <1>1, <1>3, <1>6, <1>8, <1>15, <2>1
  <2>3. Append(B, z) = [j \in 1..(m + 1) |-> IF j = m + 1 THEN z ELSE B[j]]
    BY <1>12
  <2>4. \A j \in 1..(m + 1) : S2[j] = IF j = m + 1 THEN z ELSE B[j]
    <3> TAKE j \in 1..(m + 1)
    <3>1. j = m + 1 \/ j \in 1..m
      OBVIOUS
    <3> QED
      BY <1>12, <1>13, <2>2, <3>1
  <2> QED
    BY <2>1, <2>2, <2>3, <2>4
<1> QED
  BY <1>2, <1>3, <1>8, <1>10, <1>11, <1>14, <1>15

-----------------------------------------------------------------------------
(* ValueSem in the terms of ValueHeap.                                     *)

LEMMA SameNames ==
  /\ Sem!Null = Null /\ Sem!Missing = Missing
  /\ \A n : Sem!Number(n) = Number(n)
  /\ \A e : Sem!Arr(e) = Arr(e) /\ Sem!Tab(e) = Tab(e)
  /\ \A t : Sem!IsValue(t) = IsValue(t)
  /\ \A t, i : Sem!Child(t, i) = Child(t, i) /\ Sem!Toward(t, i) = Toward(t, i)
               /\ Sem!Indexed(t, i) = Indexed(t, i) /\ Sem!Inserted(t, i) = Inserted(t, i)
  /\ \A t, p : Sem!At(t, p) = At(t, p)
  /\ \A e, i, j : Sem!Sliced(e, i, j) = Sliced(e, i, j)
  /\ \A t, u : Sem!CanJoin(t, u) = CanJoin(t, u) /\ Sem!Joined(t, u) = Joined(t, u)
<1>1. Sem!Null = Null /\ Sem!Missing = Missing
  BY DEF Sem!Null, Null, Sem!Missing, Missing
<1>2. \A n : Sem!Number(n) = Number(n)
  BY DEF Sem!Number, Number
<1>3. \A e : Sem!Arr(e) = Arr(e) /\ Sem!Tab(e) = Tab(e)
  BY DEF Sem!Arr, Arr, Sem!Tab, Tab
<1>4. \A t : Sem!IsValue(t) = IsValue(t)
  BY DEF Sem!IsValue, IsValue
<1>5. \A t, i : Sem!Child(t, i) = Child(t, i)
  BY <1>1 DEF Sem!Child, Child
<1>6. \A t, i : Sem!Toward(t, i) = Toward(t, i)
  BY DEF Sem!Toward, Toward, Sem!Position, Position
<1>7. \A t, i : Sem!Indexed(t, i) = Indexed(t, i)
  BY <1>1, <1>5, <1>6 DEF Sem!Indexed, Indexed
<1>8. \A t, i : Sem!Inserted(t, i) = Inserted(t, i)
  BY <1>1, <1>3 DEF Sem!Inserted, Inserted
<1>9. \A t, p : Sem!At(t, p) = At(t, p)
  BY <1>5 DEF Sem!At, At
<1>10. \A e, i, j : Sem!Sliced(e, i, j) = Sliced(e, i, j)
  BY DEF Sem!Sliced, Sliced, Sem!SliceEnd, SliceEnd
<1>11. \A t, u : Sem!CanJoin(t, u) = CanJoin(t, u) /\ Sem!Joined(t, u) = Joined(t, u)
  BY DEF Sem!CanJoin, CanJoin, Sem!Joined, Joined
<1> QED
  BY <1>1, <1>2, <1>3, <1>4, <1>5, <1>6, <1>7, <1>8, <1>9, <1>10, <1>11

LEMMA SemStep ==
  ASSUME NEW E, NEW S, Len(S) <= MaxStack, SemEnv' = E, SemStack' = S, UNCHANGED status
  PROVE  Sem!Step(E, S)
BY DEF Sem!Step, SemEnv, SemStack

LEMMA SemBelow == \A n : Sem!Below(n) = SubSeq(SemStack, 1, Len(SemStack) - n)
BY DEF Sem!Below, SemStack

LEMMA SemOperands ==
  ASSUME IInv
  PROVE  /\ Len(SemStack) = Len(stack) /\ Len(stack) \in Nat
         /\ \A i \in 0..(Len(stack) - 1) : Sem!Operand(i) = Shown(Trees, heap, Operand(i))
         /\ \A n : Has(n) => Sem!Has(n)
<1>1. PICK l \in Nat : l = Len(stack)
  BY LenProperties DEF IInv
<1>2. SemStack = [j \in 1..l |-> Shown(Trees, heap, stack[j])]
  BY <1>1, StateMapped DEF Mapped
<1>3. Len(SemStack) = l
  BY <1>2
<1>4. \A i : Sem!Operand(i) = SemStack[Len(SemStack) - i]
  BY DEF Sem!Operand, SemStack
<1>5. ASSUME NEW i \in 0..(l - 1) PROVE Sem!Operand(i) = Shown(Trees, heap, Operand(i))
  <2>1. PICK j : j = l - i /\ j \in 1..l
    BY <1>1
  <2>2. Sem!Operand(i) = SemStack[j] /\ Operand(i) = stack[j]
    BY <1>1, <1>3, <1>4, <2>1 DEF Operand
  <2> QED
    BY <1>2, <2>1, <2>2
<1>6. \A n : Has(n) => Sem!Has(n)
  BY <1>1, <1>3 DEF Has, Sem!Has, SemStack
<1> QED
  BY <1>1, <1>3, <1>5, <1>6

LEMMA ShownCells ==
  \A T, h, c : /\ c.k \in {"num", "null", "ref"} => Shown(T, h, c) = Of(T, c)
               /\ c.k = "borrow" => Shown(T, h, c) = Sem!Place(c.v, c.p)
<1> SUFFICES ASSUME NEW T, NEW h, NEW c
             PROVE  /\ c.k \in {"num", "null", "ref"} => Shown(T, h, c) = Of(T, c)
                    /\ c.k = "borrow" => Shown(T, h, c) = Sem!Place(c.v, c.p)
  OBVIOUS
<1>1. c.k # "borrow" /\ c.k # "iter" => Shown(T, h, c) = Of(T, c)
  BY DEF Shown
<1>2. c.k = "borrow" => Shown(T, h, c) = Sem!Place(c.v, c.p)
  BY DEF Shown, Sem!Place
<1> QED
  BY <1>1, <1>2

(* The tree of a cell is a value, and of a number or null the cell.        *)
LEMMA CellValue ==
  ASSUME CInv, NEW c \in ValueCell
  PROVE  /\ IsValue(Of(Trees, c)) /\ Of(Trees, c) # Missing
         /\ c.k = "ref" => /\ c.o \in Obj
                           /\ Of(Trees, c) = Over(Trees, heap[c.o])
                           /\ heap[c.o].tab  => Of(Trees, c).k = "tab"
                           /\ ~heap[c.o].tab => Of(Trees, c).k = "arr"
         /\ c.k # "ref" => Of(Trees, c) = c /\ c.k \in {"num", "null"}
<1>1. Unfolded
  BY TreesUnfold DEF CInv
<1>2. c.k \in {"num", "null", "ref"} /\ (c.k = "ref" => c.o \in Obj)
  BY ValueCells
<1>3. CASE c.k = "ref"
  <2>1. Of(Trees, c) = Over(Trees, heap[c.o])
    BY <1>1, <1>2, <1>3 DEF Of, TreeIn, Unfolded
  <2>2. /\ heap[c.o].tab  => Over(Trees, heap[c.o]).k = "tab"
        /\ ~heap[c.o].tab => Over(Trees, heap[c.o]).k = "arr"
    BY DEF Over, TreeOver, Arr, Tab
  <2> QED
    BY <1>2, <1>3, <2>1, <2>2 DEF IsValue, Missing
<1>4. CASE c.k # "ref"
  BY <1>2, <1>4 DEF Of, TreeIn, IsValue, Missing
<1> QED
  BY <1>3, <1>4

CellsShown == \A c \in ValueCell :
  /\ IsValue(Of(Trees, c)) /\ Of(Trees, c) # Missing
  /\ c.k = "ref" => /\ c.o \in Obj
                    /\ Of(Trees, c) = Over(Trees, heap[c.o])
                    /\ heap[c.o].tab  => Of(Trees, c).k = "tab"
                    /\ ~heap[c.o].tab => Of(Trees, c).k = "arr"
  /\ c.k # "ref" => Of(Trees, c) = c /\ c.k \in {"num", "null"}

LEMMA CellValueNext ==
  CInv' => \A c \in ValueCell :
         /\ IsValue(Of(Trees', c)) /\ Of(Trees', c) # Missing
         /\ c.k = "ref" => /\ c.o \in Obj
                           /\ Of(Trees', c) = Over(Trees', heap'[c.o])
                           /\ heap'[c.o].tab  => Of(Trees', c).k = "tab"
                           /\ ~heap'[c.o].tab => Of(Trees', c).k = "arr"
         /\ c.k # "ref" => Of(Trees', c) = c /\ c.k \in {"num", "null"}
<1>1. CInv => CellsShown
  BY CellValue DEF CellsShown
<1>2. CInv' => CellsShown'
  BY <1>1, PTL
<1> QED
  BY <1>2 DEF CellsShown

(* The value operands of an instruction.                                   *)
LEMMA SemValues ==
  ASSUME CInv, NEW n \in Nat, Has(n), NEW i \in 0..(n - 1), IsCell(Operand(i))
  PROVE  /\ Operand(i) \in ValueCell /\ Alive(Operand(i))
         /\ Sem!Operand(i) = Of(Trees, Operand(i)) /\ Sem!Value(i)
<1>1. IInv /\ Len(stack) \in Nat /\ Len(stack) >= n
  BY SemOperands DEF CInv, Has
<1>2. i \in 0..(Len(stack) - 1)
  BY <1>1
<1>3. Operand(i) \in OperandCell /\ Alive(Operand(i))
  BY <1>1, <1>2, Operands
<1>4. Operand(i) \in ValueCell
  BY <1>3, OperandCells
<1>5. Sem!Operand(i) = Of(Trees, Operand(i))
  BY <1>1, <1>2, <1>4, SemOperands, ShownCells DEF IsCell
<1>6. Sem!Value(i)
  BY <1>4, <1>5, CellValue, SameNames DEF Sem!Value
<1> QED
  BY <1>3, <1>4, <1>5, <1>6

(* What a variable shows.                                                  *)
LEMMA VarShown == SemEnv = [v \in Var |-> SemEnv[v]] /\ \A v \in Var : SemEnv[v] = Of(Trees, env[v])
BY StateMapped DEF Mapped

LEMMA VarShownNext ==
  SemEnv' = [v \in Var |-> SemEnv'[v]] /\ \A v \in Var : SemEnv'[v] = Of(Trees', env'[v])
BY StateMappedNext DEF Mapped

LEMMA VarKeptTree ==
  ASSUME CInv, CInv', NEW P, Touches(P), NEW v \in Var, env'[v] = env[v],
         \A o \in P : ~RefersTo(env[v], o)
  PROVE  SemEnv'[v] = SemEnv[v]
<1>1. PICK c : c = env[v]
  OBVIOUS
<1>2. c \in OperandCell /\ Alive(c)
  BY <1>1, AllAlive, ValueCells DEF CInv
<1>3. Alive(c)'
  <2>1. ReferredAlive'
    BY AliveReferredNext DEF CInv
  <2>2. \A o : RefersTo(c, o) => InEnv(o)'
    BY <1>1 DEF InEnv
  <2> QED
    BY <2>1, <2>2 DEF ReferredAlive, Alive
<1>4. Of(Trees', c) = Of(Trees, c)
  BY <1>1, <1>2, <1>3, CellKept
<1> QED
  BY <1>1, <1>4, VarShown, VarShownNext

LEMMA EnvKept ==
  ASSUME CInv, CInv', NEW P, Touches(P), env' = env, \A v \in Var : \A o \in P : ~RefersTo(env[v], o)
  PROVE  SemEnv' = SemEnv
<1>1. ASSUME NEW v \in Var PROVE SemEnv'[v] = SemEnv[v]
  BY VarKeptTree
<1> QED
  BY <1>1, VarShown, VarShownNext

-----------------------------------------------------------------------------
(* Steps that leave the objects that stay as they were.                    *)

LEMMA QuietTouches ==
  ASSUME \A o \in Obj : heap[o].live /\ heap'[o].live => Same(heap[o], heap'[o])
  PROVE  Touches({})
BY DEF Touches, Closed

LEMMA SameQuiet ==
  ASSUME \A o \in Obj : Same(heap[o], heap'[o])
  PROVE  Touches({})
BY QuietTouches

LEMMA SemBelowNone == IInv => Sem!Below(0) = SemStack
<1> SUFFICES ASSUME IInv PROVE Sem!Below(0) = SemStack
  OBVIOUS
<1>1. PICK l \in Nat : l = Len(stack)
  BY LenProperties DEF IInv
<1>2. PICK S : S = SemStack
  OBVIOUS
<1>3. S = [j \in 1..l |-> S[j]]
  BY <1>1, <1>2 DEF SemStack
<1>4. PICK Z : Z = {S[j] : j \in 1..l}
  OBVIOUS
<1>5. S \in Seq(Z) /\ Len(S) = l
  BY <1>3, <1>4
<1>6. SubSeq(S, 1, l) = S
  <2>1. l \in 0..Len(S)
    BY <1>5
  <2>2. SubSeq(S, 1, l) \in Seq(Z) /\ Len(SubSeq(S, 1, l)) = l /\ \A j \in 1..l : SubSeq(S, 1, l)[j] = S[j]
    BY <1>5, <2>1, ReferencesSplit
  <2>3. SubSeq(S, 1, l) = [j \in 1..l |-> SubSeq(S, 1, l)[j]]
    BY <2>2
  <2> QED
    BY <1>3, <2>2, <2>3
<1>7. Sem!Below(0) = SubSeq(S, 1, Len(S) - 0)
  BY <1>2, SemBelow
<1> QED
  BY <1>2, <1>5, <1>6, <1>7

(* A step that takes n operands and perhaps leaves x is one of ValueSem    *)
(* whose variables are E.                                                  *)
LEMMA SemLeft ==
  ASSUME CInv, CInv', NEW P, Touches(P), UNCHANGED status, NEW n \in 0..Len(stack),
         NEW x \in OperandCell, Len(stack') <= MaxStack,
         \A o \in P : \A j \in 1..(Len(stack) - n) : ~RefersTo(stack[j], o),
         NEW E, SemEnv' = E
  PROVE  /\ stack' = Below(n) => Sem!Step(E, Sem!Below(n))
         /\ stack' = Append(Below(n), x) => Sem!Step(E, Append(Sem!Below(n), Shown(Trees', heap', x)))
         /\ n = 0 /\ stack' = Append(stack, x) => Sem!Step(E, Append(SemStack, Shown(Trees', heap', x)))
         /\ n = 0 /\ stack' = stack => SemStack' = SemStack
<1>1. IInv /\ Below(0) = stack /\ Sem!Below(0) = SemStack
  BY BelowNone, SemBelowNone DEF CInv
<1>2. PICK s, y : s = Below(n) /\ y = Shown(Trees', heap', x)
  OBVIOUS
<1>3. PICK S, B : S = SemStack' /\ B = Sem!Below(n) /\ B = SubSeq(SemStack, 1, Len(SemStack) - n)
  BY SemBelow
<1>4. /\ stack' = s => S = B /\ Len(S) = Len(stack')
      /\ stack' = Append(s, x) => S = Append(B, y) /\ Len(S) = Len(stack')
  BY <1>2, <1>3, StackLeft
<1>5. ASSUME stack' = s PROVE Sem!Step(E, B)
  BY <1>3, <1>4, <1>5, SemStep
<1>6. ASSUME stack' = Append(s, x) PROVE Sem!Step(E, Append(B, y))
  <2>1. PICK T : T = Append(B, y)
    OBVIOUS
  <2>2. SemStack' = T /\ Len(T) <= MaxStack
    BY <1>3, <1>4, <1>6, <2>1
  <2>3. Sem!Step(E, T)
    BY <2>2, SemStep
  <2> QED
    BY <2>1, <2>3
<1>7. n = 0 => s = stack /\ B = SemStack
  BY <1>1, <1>2, <1>3
<1> QED
  BY <1>2, <1>3, <1>4, <1>5, <1>6, <1>7

LEMMA StackBounded ==
  ASSUME NEW e, NEW s, NEW h, NEW d, Do(e, s, h, d)
  PROVE  /\ env' = e /\ stack' = s /\ heap' = h /\ UNCHANGED status /\ Len(stack') <= MaxStack
BY DEF Do

(* A step of ValueHeap that is none of ValueSem.                           *)
SemStutters == UNCHANGED <<SemEnv, SemStack, status>>

LEMMA StillSem ==
  ASSUME CInv, CInv', Touches({}), UNCHANGED <<env, stack, status>>
  PROVE  SemStutters
<1>1. IInv /\ Touches({})
  BY DEF CInv
<1>2. UNCHANGED <<env, stack, status>>
  OBVIOUS
<1>3. SemEnv' = SemEnv
  BY <1>1, <1>2, EnvKept
<1>4. SemStack' = SemStack
  <2>1. PICK n, x : n = 0 /\ x = Null
    OBVIOUS
  <2>2. n \in 0..Len(stack) /\ x \in OperandCell
    BY <1>1, <2>1, Leaving, CellKinds
  <2>3. Below(n) = stack
    BY <1>1, <2>1, BelowNone
  <2>4. SemStack' = SubSeq(SemStack, 1, Len(SemStack) - n)
    <3>1. PICK s : s = Below(n)
      OBVIOUS
    <3> QED
      BY <1>1, <1>2, <2>2, <2>3, <3>1, StackLeft
  <2> QED
    BY <1>1, <2>1, <2>4, SemBelow, SemBelowNone
<1> QED
  BY <1>2, <1>3, <1>4 DEF SemStutters

LEMMA ReleaseSem ==
  ASSUME CInv, CInv', Release
  PROVE  SemStutters
<1>1. IInv /\ Touches({})
  BY ReleaseSame, QuietTouches DEF CInv
<1> QED
  BY <1>1, StillSem DEF Release

LEMMA StopSem ==
  ASSUME CInv, CInv', NEW w, Stop(w), w = "raised"
  PROVE  Sem!Raise
<1>1. Touches({}) /\ IInv
  BY SameQuiet DEF Stop, Same, CInv
<1>2. UNCHANGED <<env, stack, heap>> /\ status' = "raised"
  BY DEF Stop
<1>3. Mapped /\ Mapped'
  BY StateMapped, StateMappedNext
<1>4. Trees' = Trees
  BY <1>2 DEF Trees
<1>5. SemEnv' = SemEnv /\ SemStack' = SemStack
  BY <1>2, <1>3, <1>4 DEF Mapped
<1> QED
  BY <1>2, <1>5 DEF Sem!Raise, SemEnv, SemStack

LEMMA PushSem ==
  ASSUME CInv, CInv', NEW c \in Literal, Push(c)
  PROVE  Sem!Push(c)
<1>1. IInv /\ Has(0) /\ Do(env, Append(stack, c), heap, <<>>)
  BY DEF CInv, Push
<1>2. UNCHANGED <<env, heap, status>> /\ stack' = Append(stack, c) /\ Len(stack') <= MaxStack
  BY <1>1, StackBounded
<1>3. Touches({}) /\ c \in ValueCell /\ c.k # "ref" /\ c \in OperandCell /\ c.k \in {"num", "null"}
  BY <1>2, SameQuiet, ValueCells DEF Same
<1>4. SemEnv' = SemEnv
  BY <1>2, <1>3, EnvKept
<1>5. Shown(Trees', heap', c) = c
  BY <1>3, ShownCells DEF Of, TreeIn
<1>6. 0 \in 0..Len(stack)
  BY <1>1, Leaving
<1>7. Sem!Step(SemEnv, Append(SemStack, c))
  <2>1. PICK E, n : E = SemEnv /\ n = 0
    OBVIOUS
  <2>2. Sem!Step(E, Append(SemStack, Shown(Trees', heap', c)))
    BY <1>2, <1>3, <1>4, <1>6, <2>1, SemLeft
  <2> QED
    BY <1>5, <2>1, <2>2
<1> QED
  BY <1>1, <1>7, SemOperands DEF Sem!Push, SemEnv, SemStack

LEMMA PushVarSem ==
  ASSUME CInv, CInv', NEW v \in Var, PushVar(v)
  PROVE  Sem!PushVar(v)
<1>1. PICK c : c = env[v]
  OBVIOUS
<1>2. IInv /\ Has(0) /\ Do(env, Append(stack, c), Copying(<<c>>, heap), <<>>)
  BY <1>1 DEF CInv, PushVar
<1>3. UNCHANGED <<env, status>> /\ stack' = Append(stack, c) /\ Len(stack') <= MaxStack
      /\ heap' = Copying(<<c>>, heap)
  BY <1>2, StackBounded
<1>4. Touches({}) /\ c \in ValueCell /\ c \in OperandCell /\ c.k \in {"num", "null", "ref"}
  BY <1>1, <1>2, <1>3, SameQuiet, CopyingSame, AllAlive, ValueCells
<1>5. SemEnv' = SemEnv
  BY <1>3, <1>4, EnvKept
<1>6. Shown(Trees', heap', c) = SemEnv[v]
  BY <1>1, <1>3, <1>4, <1>5, ShownCells, VarShownNext
<1>7. 0 \in 0..Len(stack)
  BY <1>2, Leaving
<1>8. Sem!Step(SemEnv, Append(SemStack, SemEnv[v]))
  <2>1. PICK E, n : E = SemEnv /\ n = 0
    OBVIOUS
  <2>2. Sem!Step(E, Append(SemStack, Shown(Trees', heap', c)))
    BY <1>3, <1>4, <1>5, <1>7, <2>1, SemLeft
  <2> QED
    BY <1>6, <2>1, <2>2
<1> QED
  BY <1>2, <1>8, SemOperands DEF Sem!PushVar, SemEnv, SemStack

LEMMA PopSem ==
  ASSUME CInv, CInv', Pop
  PROVE  Sem!Pop
<1>1. IInv /\ Has(1) /\ Operand(0).k # "iter" /\ Do(env, Below(1), heap, <<Operand(0)>>)
  BY DEF CInv, Pop
<1>2. UNCHANGED <<env, heap, status>> /\ stack' = Below(1) /\ Len(stack') <= MaxStack
  BY <1>1, StackBounded
<1>3. Touches({}) /\ 1 \in 0..Len(stack) /\ Null \in OperandCell
  BY <1>1, <1>2, SameQuiet, Leaving, CellKinds DEF Same
<1>4. SemEnv' = SemEnv
  BY <1>2, <1>3, EnvKept
<1>5. Sem!Step(SemEnv, Sem!Below(1))
  <2>1. PICK E, n : E = SemEnv /\ n = 1
    OBVIOUS
  <2> QED
    BY <1>2, <1>3, <1>4, <2>1, SemLeft
<1>6. Sem!Operand(0) = Shown(Trees, heap, Operand(0)) /\ Operand(0) \in OperandCell
  <2>1. Len(stack) >= 1 /\ Len(stack) \in Nat
    BY <1>1, Leaving DEF Has
  <2> QED
    BY <1>1, <2>1, SemOperands, Operands1
<1>7. Sem!Operand(0).k # "loop"
  <2>1. PICK c : c = Operand(0)
    OBVIOUS
  <2>2. c.k = "borrow" => Shown(Trees, heap, c).k = "place"
    BY ShownCells DEF Sem!Place
  <2>3. c.k \in {"num", "null", "ref"} => c \in ValueCell
    BY <1>6, <2>1, OperandCells DEF IsCell
  <2>4. c.k \in {"num", "null", "ref"} => Shown(Trees, heap, c).k # "loop"
    <3>1. c.k \in {"num", "null", "ref"} => IsValue(Shown(Trees, heap, c))
      BY <2>3, ShownCells, CellValue
    <3> QED
      BY <3>1 DEF IsValue
  <2> QED
    BY <1>1, <1>6, <2>1, <2>2, <2>4, OperandCells
<1> QED
  BY <1>1, <1>5, <1>7, SemOperands DEF Sem!Pop, SemEnv, SemStack

LEMMA WriteVarSem ==
  ASSUME CInv, CInv', NEW v \in Var, WriteVar(v)
  PROVE  Sem!WriteVar(v)
<1>1. PICK c : c = Operand(0)
  OBVIOUS
<1>2. IInv /\ Has(1) /\ IsCell(c) /\ Do([env EXCEPT ![v] = c], Below(1), heap, <<env[v]>>)
  BY <1>1 DEF CInv, WriteVar
<1>3. UNCHANGED <<heap, status>> /\ stack' = Below(1) /\ Len(stack') <= MaxStack
      /\ env' = [env EXCEPT ![v] = c]
  BY <1>2, StackBounded
<1>4. Touches({}) /\ 1 \in 0..Len(stack) /\ Null \in OperandCell
  BY <1>2, <1>3, SameQuiet, Leaving, CellKinds DEF Same
<1>5. c \in ValueCell /\ Sem!Operand(0) = Of(Trees, c) /\ Sem!Value(0)
  <2>1. 0 \in 0..(1 - 1) /\ 1 \in Nat
    OBVIOUS
  <2> QED
    BY <1>1, <1>2, <2>1, SemValues
<1>6. Trees' = Trees
  BY <1>3 DEF Trees
<1>7. SemEnv' = [SemEnv EXCEPT ![v] = Of(Trees, c)]
  <2>1. DOMAIN env = Var
    BY <1>2 DEF IInv
  <2>2. \A w \in Var : env'[w] = IF w = v THEN c ELSE env[w]
    BY <1>3, <2>1
  <2>3. \A w \in Var : SemEnv'[w] = IF w = v THEN Of(Trees, c) ELSE SemEnv[w]
    BY <1>6, <2>2, VarShown, VarShownNext
  <2> QED
    BY <2>3, VarShown, VarShownNext
<1>8. Sem!Step([SemEnv EXCEPT ![v] = Sem!Operand(0)], Sem!Below(1))
  <2>1. PICK n : n = 1
    OBVIOUS
  <2>2. PICK E : SemEnv' = E
    OBVIOUS
  <2>3. UNCHANGED status /\ stack' = Below(n) /\ Len(stack') <= MaxStack /\ n \in 0..Len(stack)
    BY <1>3, <1>4, <2>1
  <2>4. Sem!Step(E, Sem!Below(n))
    BY <1>4, <2>2, <2>3, SemLeft
  <2>5. E = [SemEnv EXCEPT ![v] = Sem!Operand(0)]
    BY <1>5, <1>7, <2>2
  <2> QED
    BY <2>1, <2>4, <2>5
<1> QED
  BY <1>2, <1>5, <1>8, SemOperands DEF Sem!WriteVar, SemEnv, SemStack

-----------------------------------------------------------------------------
(* The trees of sequences of cells, and of the elements of an object.      *)

Shows(T, e) == [j \in 1..Len(e) |-> Of(T, e[j])]

LEMMA ShowsSeq ==
  ASSUME NEW T, NEW e \in Seq(ValueCell)
  PROVE  /\ Shows(T, e) \in Seq({Of(T, c) : c \in ValueCell}) /\ Len(Shows(T, e)) = Len(e)
         /\ \A j \in 1..Len(e) : Shows(T, e)[j] = Of(T, e[j])
<1>1. PICK l \in Nat : l = Len(e) /\ \A j \in 1..l : e[j] \in ValueCell
  BY LenProperties, ElementOfSeq
<1>2. Shows(T, e) = [j \in 1..l |-> Of(T, e[j])]
  BY <1>1 DEF Shows
<1>3. PICK Z : Z = {Of(T, c) : c \in ValueCell}
  OBVIOUS
<1>4. \A j \in 1..l : Of(T, e[j]) \in Z
  BY <1>1, <1>3
<1> QED
  BY <1>1, <1>2, <1>3, <1>4

LEMMA ShowsSame ==
  ASSUME NEW T, NEW U, NEW e \in Seq(ValueCell), \A j \in DOMAIN e : Of(T, e[j]) = Of(U, e[j])
  PROVE  Shows(T, e) = Shows(U, e)
<1>1. DOMAIN e = 1..Len(e)
  BY SeqFinite
<1> QED
  BY <1>1 DEF Shows

LEMMA SubSeqIs ==
  ASSUME NEW S, NEW s \in Seq(S), NEW a \in 1..(Len(s) + 1), NEW b \in 0..Len(s)
  PROVE  /\ SubSeq(s, a, b) \in Seq(S)
         /\ Len(SubSeq(s, a, b)) = IF a <= b THEN b - a + 1 ELSE 0
         /\ \A j \in 1..Len(SubSeq(s, a, b)) : a - 1 + j \in 1..Len(s) /\ SubSeq(s, a, b)[j] = s[a - 1 + j]
<1>1. Len(s) \in Nat /\ a \in Int /\ b \in Int /\ \A i \in a..b : s[i] \in S
  BY LenProperties, ElementOfSeq
<1>2. /\ SubSeq(s, a, b) \in Seq(S)
      /\ Len(SubSeq(s, a, b)) = IF a <= b THEN b - a + 1 ELSE 0
      /\ \A j \in 1..(b - a + 1) : SubSeq(s, a, b)[j] = s[a + j - 1]
  BY <1>1, SubSeqProperties
<1>3. ASSUME NEW j \in 1..Len(SubSeq(s, a, b))
      PROVE  a - 1 + j \in 1..Len(s) /\ SubSeq(s, a, b)[j] = s[a - 1 + j]
  <2>1. j \in 1..(b - a + 1) /\ a + j - 1 = a - 1 + j /\ a - 1 + j \in 1..Len(s)
    BY <1>1, <1>2
  <2> QED
    BY <1>2, <2>1
<1> QED
  BY <1>2, <1>3

LEMMA ShowsSub ==
  ASSUME NEW T, NEW e \in Seq(ValueCell), NEW a \in 1..(Len(e) + 1), NEW b \in 0..Len(e)
  PROVE  SubSeq(Shows(T, e), a, b) = Shows(T, SubSeq(e, a, b))
<1>1. PICK Z, S : Z = {Of(T, c) : c \in ValueCell} /\ S = Shows(T, e)
  OBVIOUS
<1>2. S \in Seq(Z) /\ Len(S) = Len(e) /\ \A j \in 1..Len(e) : S[j] = Of(T, e[j])
  BY <1>1, ShowsSeq
<1>3. PICK f : f = SubSeq(e, a, b)
  OBVIOUS
<1>4. PICK F : F = SubSeq(S, a, b)
  OBVIOUS
<1>5. /\ f \in Seq(ValueCell) /\ Len(f) = IF a <= b THEN b - a + 1 ELSE 0
      /\ \A j \in 1..Len(f) : a - 1 + j \in 1..Len(e) /\ f[j] = e[a - 1 + j]
  BY <1>3, SubSeqIs
<1>6. /\ F \in Seq(Z) /\ Len(F) = IF a <= b THEN b - a + 1 ELSE 0
      /\ \A j \in 1..Len(F) : F[j] = S[a - 1 + j]
  <2>1. a \in 1..(Len(S) + 1) /\ b \in 0..Len(S)
    BY <1>2
  <2> QED
    BY <1>2, <1>4, <2>1, SubSeqIs
<1>7. Len(f) = Len(F) /\ \A j \in 1..Len(f) : F[j] = Of(T, f[j])
  BY <1>2, <1>5, <1>6
<1>8. F = [j \in 1..Len(f) |-> Of(T, f[j])]
  <2>1. F = [j \in 1..Len(F) |-> F[j]]
    BY <1>6
  <2> QED
    BY <1>7, <2>1
<1> QED
  BY <1>1, <1>3, <1>4, <1>8 DEF Shows

LEMMA SeqIs ==
  ASSUME NEW S, NEW g \in Seq(S), NEW n, n = Len(g)
  PROVE  g = [j \in 1..n |-> g[j]]
<1>1. g \in [1..n -> S]
  BY LenProperties
<1> QED
  BY <1>1

LEMMA ConcatIs ==
  ASSUME NEW S, NEW s \in Seq(S), NEW t \in Seq(S), NEW g, g = s \o t
  PROVE  /\ g \in Seq(S) /\ Len(g) = Len(s) + Len(t)
         /\ \A j \in 1..(Len(s) + Len(t)) : g[j] = IF j <= Len(s) THEN s[j] ELSE t[j - Len(s)]
BY ConcatProperties

ShowsBy(T, e, E) == Len(E) = Len(e) /\ \A j \in 1..Len(e) : E[j] = Of(T, e[j])

LEMMA ShowsConcat ==
  ASSUME NEW T, NEW e \in Seq(ValueCell), NEW f \in Seq(ValueCell)
  PROVE  Shows(T, e \o f) = Shows(T, e) \o Shows(T, f)
<1>1. PICK Z : Z = {Of(T, c) : c \in ValueCell}
  OBVIOUS
<1>2. PICK E \in Seq(Z) : E = Shows(T, e) /\ ShowsBy(T, e, E)
  BY <1>1, ShowsSeq DEF ShowsBy
<1>3. PICK F \in Seq(Z) : F = Shows(T, f) /\ ShowsBy(T, f, F)
  BY <1>1, ShowsSeq DEF ShowsBy
<1>4. ShowsBy(T, e, E) /\ ShowsBy(T, f, F)
  BY <1>2, <1>3
<1>5. PICK m, n \in Nat : m = Len(e) /\ n = Len(f)
  BY LenProperties
<1>6. PICK g : g = e \o f
  OBVIOUS
<1>7. PICK G : G = E \o F
  OBVIOUS
<1>8. /\ Len(g) = m + n /\ \A j \in 1..(m + n) : g[j] = IF j <= m THEN e[j] ELSE f[j - m]
  BY <1>5, <1>6, ConcatIs
<1>9. /\ G \in Seq(Z) /\ Len(G) = Len(E) + Len(F)
      /\ \A j \in 1..(Len(E) + Len(F)) : G[j] = IF j <= Len(E) THEN E[j] ELSE F[j - Len(E)]
  BY <1>7, ConcatIs
<1>10. /\ Len(E) = m /\ Len(F) = n
       /\ \A j \in 1..m : E[j] = Of(T, e[j])
       /\ \A j \in 1..n : F[j] = Of(T, f[j])
  BY <1>4, <1>5 DEF ShowsBy
<1>11. \A j \in 1..(m + n) : G[j] = IF j <= m THEN E[j] ELSE F[j - m]
  BY <1>9, <1>10
<1>12. \A j \in 1..(m + n) : Of(T, g[j]) = G[j]
  <2> TAKE j \in 1..(m + n)
  <2>1. CASE j <= m
    <3>1. j \in 1..m
      BY <2>1
    <3> QED
      BY <1>8, <1>10, <1>11, <2>1, <3>1
  <2>2. CASE ~(j <= m)
    <3>1. PICK i : i = j - m /\ i \in 1..n
      BY <2>2
    <3>2. g[j] = f[i] /\ G[j] = F[i]
      BY <1>8, <1>11, <2>2, <3>1
    <3> QED
      BY <1>10, <3>1, <3>2
  <2> QED
    BY <2>1, <2>2
<1>13. Shows(T, g) = [j \in 1..(m + n) |-> Of(T, g[j])]
  BY <1>8 DEF Shows
<1>14. G = [j \in 1..(m + n) |-> G[j]]
  <2>1. PICK k : k = Len(G) /\ k = m + n
    BY <1>9, <1>10
  <2>2. G = [j \in 1..k |-> G[j]]
    BY <1>9, <2>1, SeqIs
  <2> QED
    BY <2>1, <2>2
<1> QED
  BY <1>6, <1>7, <1>12, <1>13, <1>14, <1>2, <1>3

LEMMA ShowsOne ==
  \A T, c : Shows(T, << c >>) = << Of(T, c) >>
BY DEF Shows

LEMMA ShowsAppend ==
  ASSUME NEW T, NEW e \in Seq(ValueCell), NEW c \in ValueCell
  PROVE  Shows(T, Append(e, c)) = Shows(T, e) \o << Of(T, c) >>
<1>1. Append(e, c) = e \o << c >>
  OBVIOUS
<1>2. << c >> \in Seq(ValueCell)
  OBVIOUS
<1> QED
  BY <1>1, <1>2, ShowsConcat, ShowsOne

(* The tree of an array, and of a table.                                   *)
LEMMA ArrayTree == \A T, x : ~x.tab => Over(T, x) = Arr(Shows(T, x.e))
BY DEF Over, TreeOver, Shows, Of

LEMMA TableTree ==
  ASSUME NEW T, NEW x, x.tab, Keyed(x), x.keys \in Seq(Int), x.e \in Seq(ValueCell)
  PROVE  /\ Over(T, x) = Tab([n \in {x.keys[j] : j \in DOMAIN x.keys} |-> Of(T, x.e[Entry(x.keys, n)])])
         /\ \A j \in DOMAIN x.keys : Entry(x.keys, x.keys[j]) = j
<1>1. Over(T, x) = Tab([n \in {x.keys[j] : j \in DOMAIN x.keys} |-> Of(T, x.e[Entry(x.keys, n)])])
  BY DEF Over, TreeOver, Of
<1>2. PICK keys : keys = x.keys
  OBVIOUS
<1>3. keys \in Seq(Int) /\ \A i, l \in DOMAIN keys : keys[i] = keys[l] => i = l
  BY <1>2 DEF Keyed
<1>4. \A n : \A j \in DOMAIN keys : keys[j] = n => Entry(keys, n) = j
  BY <1>3, EntryFound
<1> QED
  BY <1>1, <1>2, <1>4

(* Where a path leads in a tree.                                           *)
LEMMA ChildOf ==
  ASSUME NEW h, HeapOK(h), NEW T, NEW c, c.k = "ref", c.o \in Obj, T[c.o] = Over(T, h[c.o]),
         NEW x \in Int
  PROVE  /\ Child(Of(T, c), x) = IF AtStep(h, c, x) \in DOMAIN h[c.o].e
                                 THEN Of(T, h[c.o].e[AtStep(h, c, x)]) ELSE Missing
         /\ Of(T, c) = T[c.o] /\ Of(T, c).n = 0
         /\ x \in DOMAIN Of(T, c).e <=> AtStep(h, c, x) \in DOMAIN h[c.o].e
         /\ Of(T, c).k = IF h[c.o].tab THEN "tab" ELSE "arr"
<1>1. PICK y : y = h[c.o]
  OBVIOUS
<1>2. y.keys \in Seq(Int) /\ y.e \in Seq(ValueCell) /\ Keyed(y) /\ Of(T, c) = Over(T, y)
  BY <1>1 DEF HeapOK, Of, TreeIn
<1>3. DOMAIN y.e = 1..Len(y.e) /\ DOMAIN y.keys = 1..Len(y.keys) /\ 0 \notin DOMAIN y.keys
  BY <1>2, SeqFinite
<1>4. CASE ~y.tab
  <2>1. AtStep(h, c, x) = x
    BY <1>1, <1>4 DEF AtStep
  <2>2. Over(T, y) = Arr(Shows(T, y.e))
    BY <1>4, ArrayTree
  <2>3. Over(T, y).k = "arr" /\ Over(T, y).e = Shows(T, y.e) /\ Over(T, y).n = 0
    BY <2>2 DEF Arr
  <2>4. DOMAIN Shows(T, y.e) = DOMAIN y.e /\ \A j \in DOMAIN y.e : Shows(T, y.e)[j] = Of(T, y.e[j])
    BY <1>3 DEF Shows
  <2> QED
    BY <1>1, <1>2, <1>4, <2>1, <2>3, <2>4 DEF Child, Of, TreeIn
<1>5. CASE y.tab
  <2> DEFINE f == [n \in {y.keys[j] : j \in DOMAIN y.keys} |-> Of(T, y.e[Entry(y.keys, n)])]
  <2>1. Over(T, y) = Tab(f) /\ \A j \in DOMAIN y.keys : Entry(y.keys, y.keys[j]) = j
    BY <1>2, <1>5, TableTree
  <2>2. Len(y.keys) = Len(y.e)
    BY <1>2, <1>5 DEF Keyed
  <2>3. DOMAIN f = {y.keys[j] : j \in DOMAIN y.keys}
    OBVIOUS
  <2>4. x \in DOMAIN f <=> Entry(y.keys, x) \in DOMAIN y.e
    <3>1. ASSUME x \in DOMAIN f PROVE Entry(y.keys, x) \in DOMAIN y.e
      BY <1>3, <2>1, <2>2, <2>3, <3>1
    <3>2. ASSUME x \notin DOMAIN f PROVE Entry(y.keys, x) = 0
      BY <2>3, <3>2 DEF Entry
    <3> QED
      BY <1>3, <2>2, <3>1, <3>2
  <2>5. AtStep(h, c, x) = Entry(y.keys, x)
    BY <1>1, <1>5 DEF AtStep
  <2>6. x \in DOMAIN f => f[x] = Of(T, y.e[Entry(y.keys, x)])
    OBVIOUS
  <2> HIDE DEF f
  <2>7. Over(T, y).k = "tab" /\ Over(T, y).e = f /\ Over(T, y).n = 0
    BY <2>1 DEF Tab
  <2> QED
    BY <1>1, <1>2, <1>5, <2>4, <2>5, <2>6, <2>7 DEF Child, Of, TreeIn
<1> QED
  BY <1>4, <1>5

(* The element an index or a key names.                                    *)
LEMMA IndexedOf ==
  ASSUME CInv, NEW c \in ValueCell, NEW i \in ValueCell
  PROVE  /\ Index(c, i) = 0 => Indexed(Of(Trees, c), Of(Trees, i)) = Missing
         /\ Index(c, i) # 0 => /\ Indexed(Of(Trees, c), Of(Trees, i)) = Of(Trees, Elems(c)[Index(c, i)])
                               /\ Of(Trees, Elems(c)[Index(c, i)]) # Missing
                               /\ Elems(c)[Index(c, i)] \in ValueCell
                               /\ c.k = "ref" /\ i.k = "num" /\ i.n \in Int
                               /\ Of(Trees, i) = i
                               /\ Toward(Of(Trees, c), i.n) = StepOf(c, i.n)
<1>1. HeapOK(heap) /\ Unfolded
  BY TreesUnfold DEF CInv, IInv
<1>2. CASE c.k # "ref"
  <2>1. Index(c, i) = 0
    BY <1>2 DEF Index
  <2>2. Of(Trees, c).k \in {"num", "null"}
    BY <1>2, CellValue
  <2> QED
    BY <2>1, <2>2 DEF Indexed, Child
<1>3. CASE c.k = "ref" /\ i.k # "num"
  <2>1. Index(c, i) = 0
    BY <1>3 DEF Index
  <2>2. Of(Trees, i).k # "num"
    <3>1. CASE i.k = "ref"
      BY <3>1, CellValue DEF CInv
    <3>2. CASE i.k # "ref"
      BY <1>3, <3>2, CellValue
    <3> QED
      BY <3>1, <3>2
  <2> QED
    BY <2>1, <2>2 DEF Indexed
<1>4. CASE c.k = "ref" /\ i.k = "num"
  <2>1. c.o \in Obj /\ i.n \in Int /\ Of(Trees, i) = i
    BY <1>4, ValueCells, CellValue
  <2>2. PICK x : x = StepOf(c, i.n)
    OBVIOUS
  <2>3. x \in Int
    BY <1>4, <2>1, <2>2, StepIsInt DEF CInv
  <2>4. PICK at : at = AtStep(heap, c, x)
    OBVIOUS
  <2>5. StepIn(c, x) = at /\ Elems(c) = heap[c.o].e
    BY <1>4, <2>4 DEF StepIn, IsTable, AtStep, Elems
  <2>6. Index(c, i) = IF at \in DOMAIN Elems(c) THEN at ELSE 0
    BY <1>4, <2>2, <2>5 DEF Index
  <2>7. Trees[c.o] = Over(Trees, heap[c.o])
    BY <1>1, <2>1 DEF Unfolded
  <2>8. /\ Child(Of(Trees, c), x) = IF at \in DOMAIN heap[c.o].e THEN Of(Trees, heap[c.o].e[at]) ELSE Missing
        /\ Of(Trees, c).k = IF heap[c.o].tab THEN "tab" ELSE "arr"
    BY <1>1, <1>4, <2>1, <2>3, <2>4, <2>7, ChildOf
  <2>9. Toward(Of(Trees, c), i.n) = x
    <3>1. CASE heap[c.o].tab
      BY <1>4, <2>2, <2>8, <3>1 DEF Toward, StepOf, IsTable
    <3>2. CASE ~heap[c.o].tab
      <4>1. Of(Trees, c) = Arr(Shows(Trees, heap[c.o].e))
        BY <1>4, <3>2, <2>7, ArrayTree DEF Of, TreeIn
      <4>2. Len(Of(Trees, c).e) = Len(heap[c.o].e)
        <5>1. Of(Trees, c).e = Shows(Trees, heap[c.o].e)
          BY <4>1 DEF Arr
        <5>2. heap[c.o].e \in Seq(ValueCell)
          BY <1>1, <2>1 DEF HeapOK
        <5> QED
          BY <5>1, <5>2, ShowsSeq
      <4> QED
        BY <1>4, <2>2, <2>5, <2>8, <3>2, <4>2 DEF Toward, StepOf, IsTable
    <3> QED
      BY <3>1, <3>2
  <2>10. Indexed(Of(Trees, c), Of(Trees, i)) = Child(Of(Trees, c), x)
    BY <1>4, <2>1, <2>9 DEF Indexed
  <2>11. 0 \notin DOMAIN heap[c.o].e /\ \A j \in DOMAIN heap[c.o].e : heap[c.o].e[j] \in ValueCell
    <3>1. heap[c.o].e \in Seq(ValueCell)
      BY <1>1, <2>1 DEF HeapOK
    <3> QED
      BY <3>1, SeqFinite, ElementOfSeq
  <2>12. \A d \in ValueCell : Of(Trees, d) # Missing
    BY CellValue
  <2> QED
    BY <1>4, <2>1, <2>2, <2>5, <2>6, <2>8, <2>9, <2>10, <2>11, <2>12
<1> QED
  BY <1>2, <1>3, <1>4

-----------------------------------------------------------------------------
(* Steps that make a new object.                                           *)

(* The tree of an object of the new heap, from those of the old one.       *)
LEMMA MadeOf ==
  ASSUME CInv, CInv', NEW P, Touches(P), NEW q \in Obj,
         \A j \in DOMAIN heap'[q].e :
           Alive(heap'[q].e[j]) /\ \A o \in P : ~RefersTo(heap'[q].e[j], o)
  PROVE  /\ Trees'[q] = Over(Trees, heap'[q])
         /\ \A j \in DOMAIN heap'[q].e : Of(Trees', heap'[q].e[j]) = Of(Trees, heap'[q].e[j])
<1>1. PICK x : x = heap'[q]
  OBVIOUS
<1>2. Keyed(x) /\ x.keys \in Seq(Int) /\ x.e \in Seq(ValueCell)
  BY <1>1 DEF CInv, IInv, HeapOK
<1>3. Trees'[q] = Over(Trees', x)
  BY <1>1, TreesUnfoldNext DEF Unfolded
<1>4. ASSUME NEW j \in DOMAIN x.e PROVE Of(Trees', x.e[j]) = Of(Trees, x.e[j])
  <2>1. PICK c : c = x.e[j]
    OBVIOUS
  <2>2. c \in ValueCell /\ c \in OperandCell
    BY <1>2, <2>1, SeqFinite, ElementOfSeq, ValueCells
  <2>3. Alive(c) /\ \A o \in P : ~RefersTo(c, o)
    BY <1>1, <2>1
  <2>4. Alive(c)'
    <3>1. \A o : RefersTo(c, o) => Refers(heap', q, o)
      BY <1>1, <2>1 DEF Refers
    <3>2. \A o : RefersTo(c, o) => InHeap(o)'
      BY <3>1 DEF InHeap
    <3> QED
      BY <3>2, AliveReferredNext DEF ReferredAlive, Alive, CInv
  <2> QED
    BY <2>1, <2>2, <2>3, <2>4, CellKept
<1>5. PICK y, f, S, T : y = x /\ f = 1 /\ S = Trees' /\ T = Trees
  OBVIOUS
<1>6. TreeOver(x, f, S) = TreeOver(y, f, T)
  <2>1. Same(x, y) /\ \A j \in DOMAIN x.e : TreeIn(f, S, x.e[j]) = TreeIn(f, T, x.e[j])
    BY <1>4, <1>5 DEF Same, Of
  <2> QED
    BY <1>2, <2>1, TreeOverSame
<1> QED
  BY <1>1, <1>3, <1>4, <1>5, <1>6 DEF Over

(* A clone has the tree of what it is a clone of.                          *)
LEMMA TwinTree ==
  ASSUME CInv, CInv', NEW P, Touches(P), NEW c \in ValueCell, Alive(c), NEW d \in ValueCell, Alive(d)',
         \A o \in P : ~RefersTo(c, o),
         d.k = "ref" <=> c.k = "ref", c.k # "ref" => d = c,
         c.k = "ref" => Same(heap[c.o], heap'[d.o])
  PROVE  Of(Trees', d) = Of(Trees, c)
<1>1. CASE c.k # "ref"
  BY <1>1 DEF Of, TreeIn
<1>2. CASE c.k = "ref"
  <2>1. PICK o, q : o = c.o /\ q = d.o
    OBVIOUS
  <2>2. o \in Obj /\ q \in Obj /\ heap[o].live /\ o \notin P /\ Same(heap[o], heap'[q])
    BY <1>2, <2>1, ValueCells DEF Alive, RefersTo, Counts
  <2>3. \A j \in DOMAIN heap'[q].e :
           Alive(heap'[q].e[j]) /\ \A p \in P : ~RefersTo(heap'[q].e[j], p)
    <3>1. heap'[q].e = heap[o].e
      BY <2>2 DEF Same
    <3>2. \A j \in DOMAIN heap[o].e : Alive(heap[o].e[j])
      BY <2>2, AllAlive DEF CInv, Existing
    <3>3. \A j \in DOMAIN heap[o].e : \A p \in P : ~RefersTo(heap[o].e[j], p)
      <4> SUFFICES ASSUME NEW j \in DOMAIN heap[o].e, NEW p \in P, RefersTo(heap[o].e[j], p) PROVE FALSE
        OBVIOUS
      <4>1. Refers(heap, o, p)
        BY DEF Refers
      <4> QED
        BY <2>2, <4>1 DEF Touches, Closed
    <3> QED
      BY <3>1, <3>2, <3>3
  <2>4. Trees'[q] = Over(Trees, heap'[q])
    BY <2>2, <2>3, MadeOf
  <2>5. Over(Trees, heap'[q]) = Over(Trees, heap[o])
    <3>1. PICK x, y, f, T : x = heap[o] /\ y = heap'[q] /\ f = 1 /\ T = Trees
      OBVIOUS
    <3>2. Keyed(x) /\ x.keys \in Seq(Int) /\ x.e \in Seq(ValueCell) /\ Same(x, y)
      BY <2>2, <3>1 DEF CInv, IInv, HeapOK
    <3>3. TreeOver(x, f, T) = TreeOver(y, f, T)
      BY <3>2, TreeOverSame
    <3> QED
      BY <3>1, <3>3 DEF Over
  <2>6. Trees[o] = Over(Trees, heap[o])
    BY <2>2, TreesUnfold DEF CInv, Unfolded
  <2> QED
    BY <1>2, <2>1, <2>4, <2>5, <2>6 DEF Of, TreeIn
<1> QED
  BY <1>1, <1>2

LEMMA AliveElsewhere ==
  ASSUME IInv', NEW c
  PROVE  /\ \A v \in Var : env'[v] = c => Alive(c)'
         /\ \A j \in DOMAIN stack' : stack'[j] = c => Alive(c)'
         /\ \A q \in Obj : \A j \in DOMAIN heap'[q].e : heap'[q].e[j] = c => Alive(c)'
<1>1. \A v \in Var : env'[v] = c => \A o : RefersTo(c, o) => InEnv(o)'
  BY DEF InEnv
<1>2. \A j \in DOMAIN stack' : stack'[j] = c => \A o : RefersTo(c, o) => OnStack(o)'
  BY DEF OnStack
<1>3. \A q \in Obj : \A j \in DOMAIN heap'[q].e : heap'[q].e[j] = c => \A o : RefersTo(c, o) => InHeap(o)'
  BY DEF InHeap, Refers
<1> QED
  BY <1>1, <1>2, <1>3, AliveReferredNext DEF ReferredAlive, Alive

LEMMA BorrowSem ==
  ASSUME CInv, CInv', NEW v \in Var, Borrow(v)
  PROVE  Sem!Borrow(v)
<1>1. PICK c : c = env[v]
  OBVIOUS
<1>2. IInv /\ IInv' /\ c \in ValueCell /\ Alive(c) /\ 0 \in 0..Len(stack) /\ Has(0)
  BY <1>1, AllAlive, Leaving DEF CInv, Borrow
<1>3. PICK r \in Cloned(c) :
        Do([env EXCEPT ![v] = r.c],
           Append(stack, BorrowOf(v, <<>>, NoObj, 0, 0, <<IF r.c.k = "ref" THEN r.h[r.c.o].rc ELSE 1>>)),
           r.h, r.d)
  BY <1>1 DEF Borrow
<1>4. PICK x : x = BorrowOf(v, <<>>, NoObj, 0, 0, <<IF r.c.k = "ref" THEN r.h[r.c.o].rc ELSE 1>>)
  OBVIOUS
<1>5. env' = [env EXCEPT ![v] = r.c] /\ stack' = Append(stack, x) /\ heap' = r.h /\ UNCHANGED status
      /\ Len(stack') <= MaxStack
  BY <1>3, <1>4, StackBounded
<1>6. /\ r.c \in ValueCell
      /\ \A o \in Obj : heap[o].live => Same(heap[o], heap'[o]) /\ heap'[o].live
      /\ c.k = "ref" <=> r.c.k = "ref"
      /\ c.k = "ref" => Same(heap[c.o], heap'[r.c.o])
  BY <1>2, <1>5, ClonedIs
<1>7. c.k # "ref" => r.c = c
  BY DEF Cloned, RcOf
<1>8. Touches({})
  BY <1>6, QuietTouches
<1>9. x \in OperandCell
  <2>1. stack' = Append(Below(0), x)
    BY <1>2, <1>5, BelowNone
  <2> QED
    BY <1>2, <2>1, Pushed
<1>10. DOMAIN env = Var /\ \A w \in Var : env'[w] = IF w = v THEN r.c ELSE env[w]
  BY <1>2, <1>5 DEF IInv
<1>11. SemEnv' = SemEnv
  <2>1. \A w \in Var \ {v} : SemEnv'[w] = SemEnv[w]
    BY <1>8, <1>10, VarKeptTree
  <2>2. Alive(r.c)'
    BY <1>2, <1>10, AliveElsewhere
  <2>3. Of(Trees', r.c) = Of(Trees, c)
    <3>1. PICK d : d = r.c
      OBVIOUS
    <3>2. /\ d \in ValueCell /\ Alive(d)' /\ (d.k = "ref" <=> c.k = "ref") /\ (c.k # "ref" => d = c)
          /\ c.k = "ref" => Same(heap[c.o], heap'[d.o])
      BY <1>6, <1>7, <2>2, <3>1
    <3>3. \A o \in {} : ~RefersTo(c, o)
      OBVIOUS
    <3>4. Of(Trees', d) = Of(Trees, c)
      BY <1>2, <1>8, <3>2, <3>3, TwinTree
    <3> QED
      BY <3>1, <3>4
  <2>4. SemEnv'[v] = SemEnv[v]
    BY <1>1, <1>10, <2>3, VarShown, VarShownNext
  <2> QED
    BY <2>1, <2>4, VarShown, VarShownNext
<1>12. Shown(Trees', heap', x) = Sem!Place(v, <<>>)
  BY <1>4, ShownCells DEF BorrowOf
<1>13. Sem!Step(SemEnv, Append(SemStack, Sem!Place(v, <<>>)))
  <2>1. PICK E, n : E = SemEnv /\ n = 0
    OBVIOUS
  <2>2. Sem!Step(E, Append(SemStack, Shown(Trees', heap', x)))
    BY <1>2, <1>5, <1>8, <1>9, <1>11, <2>1, SemLeft
  <2> QED
    BY <1>12, <2>1, <2>2
<1> QED
  BY <1>2, <1>13, SemOperands DEF Sem!Borrow, SemEnv, SemStack

(* The cells on top of the stack.                                          *)
LEMMA TopCells ==
  ASSUME CInv, NEW n \in 0..Len(stack), \A i \in 0..(n - 1) : IsCell(Operand(i)),
         NEW e, e = SubSeq(stack, Len(stack) - n + 1, Len(stack))
  PROVE  /\ e \in Seq(ValueCell) /\ Len(e) = n /\ \A j \in DOMAIN e : Alive(e[j])
         /\ \A j \in 1..n : Len(stack) - n + j \in DOMAIN stack /\ e[j] = stack[Len(stack) - n + j]
         /\ SubSeq(SemStack, Len(SemStack) - n + 1, Len(SemStack)) = Shows(Trees, e)
<1>1. IInv /\ stack \in Seq(OperandCell) /\ Len(SemStack) = Len(stack)
  BY SemOperands DEF CInv, IInv
<1>2. PICK l \in Nat : l = Len(stack) /\ DOMAIN stack = 1..l
  BY <1>1, SeqFinite
<1>3. PICK a : a = l - n + 1 /\ a \in 1..(l + 1) /\ n \in Nat /\ l >= n /\ a \in Int
  BY <1>2
<1>4. e \in Seq(ValueCell) /\ Len(e) = n
  BY <1>1, OperandCellsTop
<1>5. e = SubSeq(stack, a, l)
  BY <1>2, <1>3
<1>6. /\ \A j \in 1..n : a - 1 + j \in 1..l /\ e[j] = stack[a - 1 + j]
  <2>1. \A j \in 1..Len(e) : a - 1 + j \in 1..Len(stack) /\ e[j] = stack[a - 1 + j]
    <3>1. a \in 1..(Len(stack) + 1) /\ l \in 0..Len(stack)
      BY <1>2, <1>3
    <3> QED
      BY <1>1, <1>5, <3>1, SubSeqIs
  <2> QED
    BY <1>2, <1>4, <2>1
<1>7. DOMAIN e = 1..n /\ \A j \in 1..n : e[j] \in ValueCell /\ Alive(e[j])
  <2>1. DOMAIN e = 1..n
    BY <1>4, SeqFinite
  <2>2. \A j \in 1..n : e[j] \in ValueCell
    BY <1>4, ElementOfSeq
  <2> QED
    BY <1>1, <1>2, <1>6, <2>1, <2>2, AllAlive
<1>8. SubSeq(SemStack, a, l) = Shows(Trees, e)
  <2>1. PICK S : S = SemStack
    OBVIOUS
  <2>2. S = [j \in 1..l |-> Shown(Trees, heap, stack[j])]
    BY <1>2, <2>1, StateMapped DEF Mapped
  <2>3. PICK Z : Z = {S[j] : j \in 1..l}
    OBVIOUS
  <2>4. S \in Seq(Z) /\ Len(S) = l
    BY <2>2, <2>3
  <2>5. PICK F : F = SubSeq(S, a, l)
    OBVIOUS
  <2>6. F \in Seq(Z) /\ Len(F) = (IF a <= l THEN l - a + 1 ELSE 0) /\ \A j \in 1..Len(F) : F[j] = S[a - 1 + j]
    <3>1. a \in 1..(Len(S) + 1) /\ l \in 0..Len(S)
      BY <1>3, <2>4
    <3> QED
      BY <2>4, <2>5, <3>1, SubSeqIs
  <2>7. Len(F) = n
    BY <1>3, <2>6
  <2>8. F = [j \in 1..n |-> F[j]]
    BY <2>6, <2>7, SeqIs
  <2>9. ASSUME NEW j \in 1..n PROVE F[j] = Of(Trees, e[j])
    <3>1. PICK i : i = a - 1 + j /\ i \in 1..l
      BY <1>6
    <3>2. F[j] = Shown(Trees, heap, stack[i]) /\ e[j] = stack[i]
      BY <1>6, <2>2, <2>6, <2>7, <3>1
    <3>3. e[j].k \in {"num", "null", "ref"}
      BY <1>7, ValueCells
    <3> QED
      BY <3>2, <3>3, ShownCells
  <2>10. Shows(Trees, e) = [j \in 1..n |-> Of(Trees, e[j])]
    BY <1>4 DEF Shows
  <2> QED
    BY <2>1, <2>5, <2>8, <2>9, <2>10
<1>9. Len(stack) - n + 1 = a /\ Len(SemStack) - n + 1 = a /\ Len(SemStack) = l
      /\ \A j \in 1..n : Len(stack) - n + j = a - 1 + j
  BY <1>1, <1>2, <1>3
<1> QED
  BY <1>2, <1>4, <1>6, <1>7, <1>8, <1>9

-----------------------------------------------------------------------------
(* Arrays, their elements and their parts.                                 *)

Listed(c) == IF IsArray(c) THEN Elems(c) ELSE << c >>

LEMMA ListedOf ==
  ASSUME CInv, NEW c \in ValueCell
  PROVE  /\ IsArray(c) <=> Of(Trees, c).k = "arr"
         /\ IsArray(c) => Of(Trees, c).e = Shows(Trees, Listed(c)) /\ Listed(c) = heap[c.o].e
         /\ ~IsArray(c) => << Of(Trees, c) >> = Shows(Trees, Listed(c)) /\ Listed(c) = << c >>
         /\ Listed(c) \in Seq(ValueCell)
<1>1. CASE IsArray(c)
  <2>1. c.k = "ref" /\ c.o \in Obj /\ ~heap[c.o].tab
    BY <1>1, ValueCells DEF IsArray
  <2>2. Of(Trees, c) = Over(Trees, heap[c.o]) /\ Of(Trees, c).k = "arr"
    BY <2>1, CellValue
  <2>3. Of(Trees, c).e = Shows(Trees, heap[c.o].e)
    BY <2>1, <2>2, ArrayTree DEF Arr
  <2>4. heap[c.o].e \in Seq(ValueCell)
    BY <2>1 DEF CInv, IInv, HeapOK
  <2> QED
    BY <1>1, <2>1, <2>2, <2>3, <2>4 DEF Listed, Elems
<1>2. CASE ~IsArray(c)
  <2>1. Of(Trees, c).k # "arr"
    <3>1. c.k = "ref" => c.o \in Obj /\ heap[c.o].tab
      BY <1>2, ValueCells DEF IsArray
    <3> QED
      BY <3>1, CellValue
  <2>2. << c >> \in Seq(ValueCell)
    OBVIOUS
  <2>3. Listed(c) = << c >>
    BY <1>2 DEF Listed
  <2> QED
    BY <1>2, <2>1, <2>2, <2>3, ShowsOne
<1> QED
  BY <1>1, <1>2

(* What append makes is what ValueSem joins.                               *)
LEMMA JoinedOf ==
  ASSUME CInv, NEW c \in ValueCell, NEW r \in ValueCell,
         NEW e, e = Listed(c) \o Listed(r)
  PROVE  /\ CanJoin(Of(Trees, c), Of(Trees, r)) <=> IsArray(c) \/ IsArray(r)
         /\ Joined(Of(Trees, c), Of(Trees, r)) = Shows(Trees, e)
         /\ e \in Seq(ValueCell) /\ Len(e) = AppendedLen(c, r)
         /\ IsArray(r) => JoinedCells(c, r) = e
         /\ ~IsArray(r) /\ IsArray(c) => Append(heap[c.o].e, r) = e
<1>1. /\ IsArray(c) <=> Of(Trees, c).k = "arr"
      /\ IsArray(r) <=> Of(Trees, r).k = "arr"
      /\ Listed(c) \in Seq(ValueCell) /\ Listed(r) \in Seq(ValueCell)
  BY ListedOf
<1>2. PICK a, b : a = Listed(c) /\ b = Listed(r)
  OBVIOUS
<1>3. Shows(Trees, a \o b) = Shows(Trees, a) \o Shows(Trees, b)
  BY <1>1, <1>2, ShowsConcat
<1>4. /\ (IF Of(Trees, c).k = "arr" THEN Of(Trees, c).e ELSE << Of(Trees, c) >>) = Shows(Trees, a)
      /\ (IF Of(Trees, r).k = "arr" THEN Of(Trees, r).e ELSE << Of(Trees, r) >>) = Shows(Trees, b)
  BY <1>1, <1>2, ListedOf
<1>5. Joined(Of(Trees, c), Of(Trees, r)) = Shows(Trees, e)
  BY <1>2, <1>3, <1>4 DEF Joined
<1>6. e \in Seq(ValueCell) /\ Len(e) = Len(a) + Len(b)
  BY <1>1, <1>2, ConcatProperties
<1>7. AppendedLen(c, r) = Len(a) + Len(b)
  <2>1. \A x : Len(<< x >>) = 1
    OBVIOUS
  <2> QED
    BY <1>2, <2>1 DEF AppendedLen, Listed
<1>8. IsArray(r) => JoinedCells(c, r) = e
  BY DEF JoinedCells, Listed
<1>9. ~IsArray(r) /\ IsArray(c) => Append(heap[c.o].e, r) = e
  <2> SUFFICES ASSUME ~IsArray(r), IsArray(c) PROVE Append(heap[c.o].e, r) = e
    OBVIOUS
  <2>1. e = heap[c.o].e \o << r >> /\ heap[c.o].e \in Seq(ValueCell)
    BY ListedOf
  <2> QED
    BY <2>1
<1> QED
  BY <1>1, <1>5, <1>6, <1>7, <1>8, <1>9 DEF CanJoin

LEMMA SlicedOf ==
  ASSUME NEW T, NEW e \in Seq(ValueCell), NEW f \in ValueCell, f.k # "ref", NEW t \in ValueCell, t.k # "ref"
  PROVE  Sliced(Shows(T, e), f, t) = Shows(T, Sliced(e, f, t))
<1>1. PICK l \in Nat : l = Len(e) /\ Len(Shows(T, e)) = l
  BY LenProperties, ShowsSeq
<1>2. ASSUME NEW c \in ValueCell, c.k # "ref", NEW d \in 0..l PROVE SliceEnd(c, l, d) \in 0..l
  <2>1. c.k = "null" \/ c.n \in Int
    BY <1>2, ValueCells
  <2> QED
    BY <1>1, <1>2, <2>1 DEF SliceEnd
<1>3. 0 \in 0..l /\ l \in 0..l
  OBVIOUS
<1>4. PICK a, b : a = SliceEnd(f, l, 0) + 1 /\ b = SliceEnd(t, l, l)
  OBVIOUS
<1>5. b \in 0..l /\ a \in 1..(l + 1)
  <2>1. SliceEnd(f, l, 0) \in 0..l /\ SliceEnd(t, l, l) \in 0..l
    BY <1>2, <1>3
  <2>2. \A z \in 0..l : z + 1 \in 1..(l + 1)
    OBVIOUS
  <2> QED
    BY <1>4, <2>1, <2>2
<1>6. Sliced(Shows(T, e), f, t) = SubSeq(Shows(T, e), a, b) /\ Sliced(e, f, t) = SubSeq(e, a, b)
  BY <1>1, <1>4 DEF Sliced
<1> QED
  BY <1>1, <1>5, <1>6, ShowsSub

(* A new array shows its cells.                                            *)
LEMMA NewArrayTree ==
  ASSUME CInv, CInv', NEW P, Touches(P), NEW p \in Obj, NEW e, e = heap'[p].e, ~heap'[p].tab,
         \A j \in DOMAIN e : Alive(e[j]) /\ \A o \in P : ~RefersTo(e[j], o)
  PROVE  Of(Trees', Ref(p)) = Arr(Shows(Trees, e)) /\ Shown(Trees', heap', Ref(p)) = Arr(Shows(Trees, e))
<1>1. Trees'[p] = Over(Trees, heap'[p])
  BY MadeOf
<1>2. Over(Trees, heap'[p]) = Arr(Shows(Trees, e))
  BY ArrayTree
<1>3. Shown(Trees', heap', Ref(p)) = Of(Trees', Ref(p)) /\ Of(Trees', Ref(p)) = Trees'[p]
  BY CellKinds, ShownCells DEF Of, TreeIn
<1> QED
  BY <1>1, <1>2, <1>3

(* The step that pushes a new array.                                       *)
LEMMA NewArraySem ==
  ASSUME CInv, CInv', NEW p \in Free, NEW n \in 0..Len(stack), NEW e,
         UNCHANGED <<env, status>>, stack' = Append(Below(n), Ref(p)), Len(stack') <= MaxStack,
         heap'[p] = Array(e), \A o \in Obj \ {p} : Same(heap[o], heap'[o]),
         \A j \in DOMAIN e : Alive(e[j])
  PROVE  Sem!Step(SemEnv, Append(Sem!Below(n), Arr(Shows(Trees, e))))
<1>1. p \in Obj /\ ~heap[p].live
  BY DEF Free
<1>2. Touches({})
  BY <1>1, QuietTouches
<1>3. heap'[p].e = e /\ ~heap'[p].tab
  BY DEF Array, Object
<1>4. Shown(Trees', heap', Ref(p)) = Arr(Shows(Trees, e))
  <2>1. \A j \in DOMAIN e : Alive(e[j]) /\ \A o \in {} : ~RefersTo(e[j], o)
    OBVIOUS
  <2> QED
    BY <1>1, <1>2, <1>3, <2>1, NewArrayTree
<1>5. SemEnv' = SemEnv
  BY <1>2, EnvKept
<1>6. PICK x, E, y : x = Ref(p) /\ E = SemEnv /\ y = Arr(Shows(Trees, e))
  OBVIOUS
<1>7. x \in OperandCell /\ Shown(Trees', heap', x) = y
  BY <1>1, <1>4, <1>6, CellKinds
<1>8. Sem!Step(E, Append(Sem!Below(n), Shown(Trees', heap', x)))
  BY <1>2, <1>5, <1>6, <1>7, SemLeft
<1> QED
  BY <1>6, <1>7, <1>8

LEMMA CreateArraySem ==
  ASSUME CInv, CInv', NEW n \in 0..MaxLen, CreateArray(n)
  PROVE  Sem!CreateArray(n)
<1>1. IInv /\ Has(n) /\ n \in Nat /\ n \in 0..Len(stack) /\ \A i \in 0..(n - 1) : IsCell(Operand(i))
  BY HeapAssumption, Leaving DEF CInv, CreateArray
<1>2. PICK e : e = SubSeq(stack, Len(stack) - n + 1, Len(stack))
  OBVIOUS
<1>3. PICK p \in Free : Do(env, Append(Below(n), Ref(p)), [heap EXCEPT ![p] = Array(e)], <<>>)
  BY <1>2 DEF CreateArray
<1>4. UNCHANGED <<env, status>> /\ stack' = Append(Below(n), Ref(p)) /\ Len(stack') <= MaxStack
      /\ heap' = [heap EXCEPT ![p] = Array(e)]
  BY <1>3, StackBounded
<1>5. heap'[p] = Array(e) /\ \A o \in Obj \ {p} : Same(heap[o], heap'[o])
  BY <1>1, <1>4 DEF Same, IInv, HeapOK, Free
<1>6. /\ \A j \in DOMAIN e : Alive(e[j])
      /\ SubSeq(SemStack, Len(SemStack) - n + 1, Len(SemStack)) = Shows(Trees, e)
  BY <1>1, <1>2, TopCells
<1>7. Sem!Step(SemEnv, Append(Sem!Below(n), Arr(Shows(Trees, e))))
  BY <1>1, <1>4, <1>5, <1>6, NewArraySem
<1>8. \A i \in 0..(n - 1) : Sem!Value(i)
  BY <1>1, SemValues
<1>9. Sem!Has(n)
  BY <1>1, SemOperands
<1>10. Sem!Step(SemEnv, Append(Sem!Below(n), Sem!Arr(SubSeq(SemStack, Len(SemStack) - n + 1, Len(SemStack)))))
  BY <1>6, <1>7, SameNames
<1> QED
  BY <1>8, <1>9, <1>10 DEF Sem!CreateArray, SemEnv, SemStack

LEMMA GetSem ==
  ASSUME CInv, CInv', Careful, Get
  PROVE  Sem!Get
<1>1. PICK c, i : c = Operand(1) /\ i = Operand(0)
  OBVIOUS
<1>2. IInv /\ Has(2) /\ IsCell(c) /\ IsCell(i) /\ 2 \in 0..Len(stack)
  BY <1>1, Leaving DEF CInv, Get
<1>3. /\ c \in ValueCell /\ i \in ValueCell /\ Alive(c)
      /\ Sem!Operand(1) = Of(Trees, c) /\ Sem!Operand(0) = Of(Trees, i) /\ Sem!Value(1) /\ Sem!Value(0)
  <2>1. 0 \in 0..(2 - 1) /\ 1 \in 0..(2 - 1) /\ 2 \in Nat
    OBVIOUS
  <2> QED
    BY <1>1, <1>2, <2>1, SemValues
<1>4. Sem!Has(2)
  BY <1>2, SemOperands
<1>5. CASE Index(c, i) = 0
  <2>1. Sem!Raise
    BY <1>1, <1>5, StopSem DEF Get
  <2>2. Sem!Indexed(Sem!Operand(1), Sem!Operand(0)) = Sem!Missing
    BY <1>3, <1>5, IndexedOf, SameNames
  <2> QED
    BY <1>3, <1>4, <2>1, <2>2 DEF Sem!Get
<1>6. CASE Index(c, i) # 0
  <2>1. PICK x : x = Elems(c)[Index(c, i)]
    OBVIOUS
  <2>2. RcOf(c) # 1
    BY <1>1, <1>6 DEF Get, Careful
  <2>3. Do(env, Append(Below(2), x), Copying(<<x>>, heap), <<c>>)
    BY <1>1, <1>6, <2>1, <2>2 DEF Get
  <2>4. UNCHANGED <<env, status>> /\ stack' = Append(Below(2), x) /\ Len(stack') <= MaxStack
        /\ heap' = Copying(<<x>>, heap)
    BY <2>3, StackBounded
  <2>5. Touches({})
    BY <1>2, <2>4, SameQuiet, CopyingSame
  <2>6. x \in ValueCell /\ x \in OperandCell /\ x.k \in {"num", "null", "ref"}
    BY <1>3, <1>6, <2>1, IndexedOf, CellKinds
  <2>7. Alive(x)
    <3>1. c.k = "ref" /\ Index(c, i) \in DOMAIN Elems(c) /\ Elems(c) = heap[c.o].e
      BY <1>6, IndexIs
    <3>2. c.o \in Obj
      BY <1>3, <3>1, ValueCells
    <3> QED
      BY <1>2, <2>1, <3>1, <3>2, AllAlive DEF Existing
  <2>8. Alive(x)'
    <3>1. Below(2) \in Seq(OperandCell)
      BY <1>2, Operands
    <3>2. stack'[Len(Below(2)) + 1] = x /\ Len(Below(2)) + 1 \in DOMAIN stack'
      BY <2>4, <2>6, <3>1, AppendProperties, SeqFinite
    <3> QED
      BY <3>2, AliveElsewhere DEF CInv
  <2>9. Shown(Trees', heap', x) = Of(Trees, x)
    <3>1. \A o \in {} : ~RefersTo(x, o)
      OBVIOUS
    <3>2. Of(Trees', x) = Of(Trees, x)
      BY <2>5, <2>6, <2>7, <2>8, <3>1, CellKept
    <3> QED
      BY <2>6, <3>2, ShownCells
  <2>10. SemEnv' = SemEnv
    BY <2>4, <2>5, EnvKept
  <2>11. Sem!Step(SemEnv, Append(Sem!Below(2), Of(Trees, x)))
    <3>1. PICK E, n : E = SemEnv /\ n = 2
      OBVIOUS
    <3>2. Sem!Step(E, Append(Sem!Below(n), Shown(Trees', heap', x)))
      BY <1>2, <2>4, <2>5, <2>6, <2>10, <3>1, SemLeft
    <3> QED
      BY <2>9, <3>1, <3>2
  <2>12. Sem!Indexed(Sem!Operand(1), Sem!Operand(0)) = Of(Trees, x) /\ Of(Trees, x) # Sem!Missing
    BY <1>3, <1>6, <2>1, IndexedOf, SameNames
  <2>13. Sem!Step(SemEnv, Append(Sem!Below(2), Sem!Indexed(Sem!Operand(1), Sem!Operand(0))))
    BY <2>11, <2>12
  <2> QED
    BY <1>3, <1>4, <2>12, <2>13 DEF Sem!Get, SemEnv
<1> QED
  BY <1>5, <1>6

LEMMA SliceSem ==
  ASSUME CInv, CInv', Slice
  PROVE  Sem!Slice
<1>1. PICK c, f, t : c = Operand(2) /\ f = Operand(1) /\ t = Operand(0)
  OBVIOUS
<1>2. IInv /\ Has(3) /\ IsCell(c) /\ IsCell(f) /\ IsCell(t) /\ 3 \in 0..Len(stack)
  <2>1. \A i \in 0..2 : IsCell(Operand(i))
    BY DEF Slice
  <2> QED
    BY <1>1, <2>1, Leaving DEF CInv, Slice
<1>3. /\ c \in ValueCell /\ f \in ValueCell /\ t \in ValueCell
      /\ Sem!Operand(2) = Of(Trees, c) /\ Sem!Operand(1) = Of(Trees, f) /\ Sem!Operand(0) = Of(Trees, t)
      /\ Sem!Value(2) /\ Sem!Value(1) /\ Sem!Value(0)
  <2>1. 0 \in 0..(3 - 1) /\ 1 \in 0..(3 - 1) /\ 2 \in 0..(3 - 1) /\ 3 \in Nat
    OBVIOUS
  <2> QED
    BY <1>1, <1>2, <2>1, SemValues
<1>4. Sem!Has(3)
  BY <1>2, SemOperands
<1>5. /\ IsArray(c) <=> Of(Trees, c).k = "arr"
      /\ f.k # "ref" <=> Of(Trees, f).k \in {"num", "null"}
      /\ t.k # "ref" <=> Of(Trees, t).k \in {"num", "null"}
  BY <1>3, ListedOf, CellValue
<1>6. CASE ~IsArray(c) \/ f.k = "ref" \/ t.k = "ref"
  <2>1. Sem!Raise
    BY <1>1, <1>6, StopSem DEF Slice
  <2>2. ~(Sem!Operand(2).k = "arr" /\ {Sem!Operand(1).k, Sem!Operand(0).k} \subseteq {"num", "null"})
    BY <1>3, <1>5, <1>6
  <2> QED
    BY <1>3, <1>4, <2>1, <2>2 DEF Sem!Slice
<1>7. CASE IsArray(c) /\ f.k # "ref" /\ t.k # "ref"
  <2>1. PICK g, e : g = Listed(c) /\ e = Sliced(g, f, t)
    OBVIOUS
  <2>2. g \in Seq(ValueCell) /\ g = heap[c.o].e /\ g = Elems(c) /\ Of(Trees, c).e = Shows(Trees, g)
    BY <1>3, <1>7, <2>1, ListedOf DEF Listed
  <2>3. PICK p \in Free : Do(env, Append(Below(3), Ref(p)), NewCopy(p, Array(e)), <<c>>)
    BY <1>1, <1>7, <2>1, <2>2 DEF Slice
  <2>4. UNCHANGED <<env, status>> /\ stack' = Append(Below(3), Ref(p)) /\ Len(stack') <= MaxStack
        /\ heap' = NewCopy(p, Array(e))
    BY <2>3, StackBounded
  <2>5. heap'[p] = Array(e) /\ \A o \in Obj \ {p} : Same(heap[o], heap'[o])
    BY <1>2, <2>4, NewCopyIs
  <2>6. \A j \in DOMAIN e : Alive(e[j])
    <3>1. c.o \in Obj
      BY <1>3, <1>7, ValueCells DEF IsArray
    <3>2. Existing(g) /\ Len(g) <= MaxLen
      BY <1>2, <2>2, <3>1, AllAlive DEF IInv, HeapOK, Shaped
    <3> QED
      BY <1>3, <1>7, <2>1, <3>2, SlicedExisting DEF Existing
  <2>7. Sem!Step(SemEnv, Append(Sem!Below(3), Arr(Shows(Trees, e))))
    <3>1. PICK n : n = 3
      OBVIOUS
    <3> QED
      BY <1>2, <2>4, <2>5, <2>6, <3>1, NewArraySem
  <2>8. Sem!Sliced(Sem!Operand(2).e, Sem!Operand(1), Sem!Operand(0)) = Shows(Trees, e)
    <3>1. Of(Trees, f) = f /\ Of(Trees, t) = t
      BY <1>7 DEF Of, TreeIn
    <3>2. Sliced(Shows(Trees, g), f, t) = Shows(Trees, e)
      BY <1>3, <1>7, <2>1, <2>2, SlicedOf
    <3> QED
      BY <1>3, <2>2, <3>1, <3>2, SameNames
  <2>9. Sem!Step(SemEnv, Append(Sem!Below(3),
          Sem!Arr(Sem!Sliced(Sem!Operand(2).e, Sem!Operand(1), Sem!Operand(0)))))
    BY <2>7, <2>8, SameNames
  <2>10. Sem!Operand(2).k = "arr" /\ {Sem!Operand(1).k, Sem!Operand(0).k} \subseteq {"num", "null"}
    BY <1>3, <1>5, <1>7
  <2> QED
    BY <1>3, <1>4, <2>9, <2>10 DEF Sem!Slice, SemEnv
<1> QED
  BY <1>6, <1>7

-----------------------------------------------------------------------------
(* append, which may put the elements where they are.                      *)

(* The cells append joins are of arrays and tables that exist.             *)
LEMMA ListedAlive ==
  ASSUME IInv, NEW c \in ValueCell, NEW r \in ValueCell, Alive(c), Alive(r),
         NEW e, e = Listed(c) \o Listed(r)
  PROVE  \A j \in DOMAIN e : Alive(e[j])
<1>1. ASSUME NEW d \in ValueCell, Alive(d)
      PROVE  Listed(d) \in Seq(ValueCell) /\ \A j \in DOMAIN Listed(d) : Alive(Listed(d)[j])
  <2>1. CASE IsArray(d)
    <3>1. d.k = "ref" /\ d.o \in Obj
      BY <1>1, <2>1, ValueCells DEF IsArray
    <3>2. Listed(d) = heap[d.o].e
      BY <2>1, <3>1 DEF Listed, Elems
    <3> QED
      BY <3>1, <3>2, AllAlive DEF Existing
  <2>2. CASE ~IsArray(d)
    <3>1. << d >> \in Seq(ValueCell) /\ DOMAIN << d >> = {1} /\ << d >>[1] = d
      BY <1>1
    <3> QED
      BY <1>1, <2>2, <3>1 DEF Listed
  <2> QED
    BY <2>1, <2>2
<1>2. PICK a, b : a = Listed(c) /\ b = Listed(r)
  OBVIOUS
<1>3. /\ a \in Seq(ValueCell) /\ \A j \in DOMAIN a : Alive(a[j])
      /\ b \in Seq(ValueCell) /\ \A j \in DOMAIN b : Alive(b[j])
  BY <1>1, <1>2
<1>4. PICK m, n \in Nat : m = Len(a) /\ n = Len(b) /\ DOMAIN a = 1..m /\ DOMAIN b = 1..n
  BY <1>3, SeqFinite
<1>5. e \in Seq(ValueCell) /\ Len(e) = m + n /\ \A j \in 1..(m + n) : e[j] = IF j <= m THEN a[j] ELSE b[j - m]
  BY <1>2, <1>3, <1>4, ConcatIs
<1>6. DOMAIN e = 1..(m + n)
  BY <1>5, SeqFinite
<1>7. ASSUME NEW j \in 1..(m + n) PROVE Alive(e[j])
  <2>1. (j <= m /\ j \in 1..m) \/ (~(j <= m) /\ j - m \in 1..n)
    OBVIOUS
  <2> QED
    BY <1>3, <1>4, <1>5, <2>1
<1> QED
  BY <1>6, <1>7

(* append to an array nothing else refers to.                              *)
LEMMA GrownSem ==
  ASSUME CInv, CInv', NEW c \in ValueCell, NEW r \in ValueCell, Has(2), c = Operand(1), r = Operand(0),
         IsArray(c), ~IsArray(r), RcOf(c) = 1,
         UNCHANGED <<env, status>>, stack' = Append(Below(2), c), heap' = Grown(heap, c.o, r),
         Len(stack') <= MaxStack
  PROVE  Sem!Step(SemEnv, Append(Sem!Below(2), Arr(Shows(Trees, Listed(c) \o Listed(r)))))
<1>1. IInv /\ IInv' /\ 2 \in 0..Len(stack) /\ Alive(c) /\ Alive(r)
  BY Leaving, Operands2 DEF CInv, Has
<1>2. PICK o : o = c.o
  OBVIOUS
<1>3. c.k = "ref" /\ o \in Obj /\ heap[o].rc = 1 /\ ~heap[o].tab /\ c = Ref(o)
  BY <1>2, ValueCells DEF IsArray, RcOf, ValueCell, Ref, Null
<1>4. /\ heap'[o].e = Append(heap[o].e, r) /\ heap'[o].tab = heap[o].tab
      /\ heap'[o].keys = heap[o].keys
      /\ \A p \in Obj \ {o} : heap'[p] = heap[p]
  <2>1. heap' = Grown(heap, o, r)
    BY <1>2
  <2> QED
    BY <1>1, <1>3, <2>1, GrownIs
<1>5. /\ Len(stack) \in Nat /\ Len(stack) - 1 \in DOMAIN stack /\ Len(stack) \in DOMAIN stack
      /\ stack[Len(stack) - 1] = c /\ stack[Len(stack)] = r /\ Len(stack) - 1 # Len(stack)
      /\ DOMAIN stack = 1..Len(stack)
  BY <1>1, Tops
<1>6. RefersTo(c, o) /\ OnStack(o)
  BY <1>2, <1>3, <1>5 DEF OnStack, RefersTo, Counts
<1>7. /\ ~InEnv(o) /\ ~InHeap(o) /\ ~RefersTo(r, o)
      /\ \A j \in DOMAIN stack : j # Len(stack) - 1 => ~RefersTo(stack[j], o)
  BY <1>1, <1>3, <1>5, <1>6, OneReference
<1> DEFINE P == {o}
<1>8. Touches(P)
  BY <1>3, <1>4, <1>7 DEF Touches, Closed, InHeap, Same
<1>9. \A q \in P : \A j \in 1..(Len(stack) - 2) : ~RefersTo(stack[j], q)
  <2>1. PICK m \in Nat : m = Len(stack) /\ DOMAIN stack = 1..m
    BY <1>5
  <2>2. \A j \in 1..(m - 2) : j \in 1..m /\ j # m - 1
    OBVIOUS
  <2> QED
    BY <1>7, <2>1, <2>2
<1>10. \A v \in Var : \A q \in P : ~RefersTo(env[v], q)
  BY <1>7 DEF InEnv
<1> HIDE DEF P
<1>11. SemEnv' = SemEnv
  BY <1>8, <1>10, EnvKept
<1>12. PICK e : e = Listed(c) \o Listed(r)
  OBVIOUS
<1>13. heap'[o].e = e /\ e \in Seq(ValueCell)
  BY <1>2, <1>4, <1>12, JoinedOf
<1>14. \A j \in DOMAIN e : Alive(e[j]) /\ \A q \in P : ~RefersTo(e[j], q)
  <2>1. heap[o].e \in Seq(ValueCell) /\ \A j \in DOMAIN heap[o].e : Alive(heap[o].e[j])
    BY <1>1, <1>3, AllAlive DEF Existing
  <2>2. \A j \in DOMAIN e : e[j] = r \/ (j \in DOMAIN heap[o].e /\ e[j] = heap[o].e[j])
    <3>1. PICK g : g = heap[o].e
      OBVIOUS
    <3>2. g \in Seq(ValueCell) /\ e = Append(g, r)
      BY <1>4, <1>13, <2>1, <3>1
    <3>3. PICK m \in Nat : m = Len(g) /\ DOMAIN g = 1..m
      BY <3>2, SeqFinite
    <3>4. /\ e \in Seq(ValueCell) /\ Len(e) = m + 1 /\ e[m + 1] = r
          /\ \A j \in 1..m : e[j] = g[j]
      BY <3>2, <3>3, AppendProperties
    <3>5. DOMAIN e = 1..(m + 1)
      BY <3>4, SeqFinite
    <3> QED
      BY <3>1, <3>3, <3>4, <3>5
  <2>3. \A j \in DOMAIN heap[o].e : ~RefersTo(heap[o].e[j], o)
    BY <1>3, <1>7 DEF InHeap, Refers
  <2> QED
    BY <1>1, <1>7, <2>1, <2>2, <2>3 DEF P
<1>15. Shown(Trees', heap', c) = Arr(Shows(Trees, e))
  BY <1>3, <1>4, <1>8, <1>13, <1>14, NewArrayTree
<1>16. PICK E, n, y : E = SemEnv /\ n = 2 /\ y = Arr(Shows(Trees, e))
  OBVIOUS
<1>17. c \in OperandCell
  BY ValueCells
<1>18. Sem!Step(E, Append(Sem!Below(n), Shown(Trees', heap', c)))
  BY <1>1, <1>8, <1>9, <1>11, <1>16, <1>17, SemLeft
<1> QED
  BY <1>12, <1>15, <1>16, <1>18

LEMMA AppendOpSem ==
  ASSUME CInv, CInv', Careful, AppendOp
  PROVE  Sem!AppendOp
<1>1. PICK c, r : c = Operand(1) /\ r = Operand(0)
  OBVIOUS
<1>2. IInv /\ Has(2) /\ IsCell(c) /\ IsCell(r) /\ 2 \in 0..Len(stack)
  BY <1>1, Leaving DEF CInv, AppendOp
<1>3. /\ c \in ValueCell /\ r \in ValueCell /\ Alive(c) /\ Alive(r)
      /\ Sem!Operand(1) = Of(Trees, c) /\ Sem!Operand(0) = Of(Trees, r) /\ Sem!Value(1) /\ Sem!Value(0)
  <2>1. 0 \in 0..(2 - 1) /\ 1 \in 0..(2 - 1) /\ 2 \in Nat
    OBVIOUS
  <2> QED
    BY <1>1, <1>2, <2>1, SemValues
<1>4. Sem!Has(2)
  BY <1>2, SemOperands
<1>5. PICK e : e = Listed(c) \o Listed(r)
  OBVIOUS
<1>6. /\ Sem!CanJoin(Sem!Operand(1), Sem!Operand(0)) <=> IsArray(c) \/ IsArray(r)
      /\ Sem!Joined(Sem!Operand(1), Sem!Operand(0)) = Shows(Trees, e)
      /\ e \in Seq(ValueCell) /\ Len(e) = AppendedLen(c, r)
      /\ IsArray(r) => JoinedCells(c, r) = e
  BY <1>3, <1>5, JoinedOf, SameNames
<1>7. CASE ~IsArray(c) /\ ~IsArray(r)
  <2>1. Sem!Raise
    BY <1>1, <1>7, StopSem DEF AppendOp
  <2> QED
    BY <1>3, <1>4, <1>6, <1>7, <2>1 DEF Sem!AppendOp
<1>8. CASE IsArray(c) \/ IsArray(r)
  <2>1. AppendedLen(c, r) <= MaxLen /\ (IsArray(r) \/ RcOf(c) = 1)
    BY <1>1, <1>8 DEF AppendOp, Careful
  <2>2. Len(Shows(Trees, e)) <= MaxLen
    BY <1>6, <2>1, ShowsSeq
  <2>3. PICK a \in Appended(c, r) : Do(env, Append(Below(2), a.c), a.h, a.d)
    BY <1>1, <1>8 DEF AppendOp
  <2>4. UNCHANGED <<env, status>> /\ stack' = Append(Below(2), a.c) /\ Len(stack') <= MaxStack
        /\ heap' = a.h
    BY <2>3, StackBounded
  <2>5. Sem!Step(SemEnv, Append(Sem!Below(2), Arr(Shows(Trees, e))))
    <3>1. CASE IsArray(r)
      <4>1. PICK p \in Free : a.c = Ref(p) /\ a.h = NewCopy(p, Array(e))
        BY <1>6, <3>1, AppendedIs
      <4>2. stack' = Append(Below(2), Ref(p)) /\ heap' = NewCopy(p, Array(e))
        BY <2>4, <4>1
      <4>3. heap'[p] = Array(e) /\ \A o \in Obj \ {p} : Same(heap[o], heap'[o])
        BY <1>2, <4>2, NewCopyIs
      <4>4. \A j \in DOMAIN e : Alive(e[j])
        BY <1>2, <1>3, <1>5, ListedAlive
      <4>5. PICK n : n = 2
        OBVIOUS
      <4> QED
        BY <1>2, <2>4, <4>2, <4>3, <4>4, <4>5, NewArraySem
    <3>2. CASE ~IsArray(r)
      <4>1. a.c = c /\ a.h = Grown(heap, c.o, r)
        BY <3>2, AppendedIs
      <4> QED
        BY <1>1, <1>2, <1>3, <1>5, <1>8, <2>1, <2>4, <3>2, <4>1, GrownSem
    <3> QED
      BY <3>1, <3>2
  <2>6. Sem!Step(SemEnv, Append(Sem!Below(2), Sem!Arr(Sem!Joined(Sem!Operand(1), Sem!Operand(0)))))
    BY <1>6, <2>5, SameNames
  <2>7. Len(Sem!Joined(Sem!Operand(1), Sem!Operand(0))) <= MaxLen
    BY <1>6, <2>2
  <2> QED
    BY <1>3, <1>4, <1>6, <1>8, <2>6, <2>7 DEF Sem!AppendOp, SemEnv
<1> QED
  BY <1>7, <1>8

-----------------------------------------------------------------------------
(* Iteration.                                                              *)

LEMMA SameCardinality == \A S : Sem!Cardinality(S) = Cardinality(S)
BY DEF Sem!Cardinality, Cardinality

LEMMA EntriesOfTable ==
  ASSUME NEW t, t.k # "arr", NEW n, n = Sem!Cardinality(DOMAIN t.e),
         NEW r \in [1..n -> DOMAIN t.e], \A i, j \in 1..n : r[i] = r[j] => i = j,
         NEW e, e = [j \in 1..n |-> <<r[j], t.e[r[j]]>>]
  PROVE  e \in Sem!Entries(t)
<1> DEFINE D == 1..Sem!Cardinality(DOMAIN t.e)
           R == {s \in [D -> DOMAIN t.e] : \A i, j \in D : s[i] = s[j] => i = j}
<1>1. Sem!Entries(t) = {[j \in D |-> <<s[j], t.e[s[j]]>>] : s \in R}
  BY Zenon DEF Sem!Entries
<1>2. r \in R
  BY Zenon
<1>3. e = [j \in D |-> <<r[j], t.e[r[j]]>>]
  BY Zenon
<1> DEFINE F(s) == [j \in D |-> <<s[j], t.e[s[j]]>>]
<1>4. Sem!Entries(t) = {F(s) : s \in R} /\ e = F(r)
  BY <1>1, <1>3, Zenon
<1> HIDE DEF R, D, F
<1> QED
  BY <1>2, <1>4

LEMMA EntriesOfArray ==
  ASSUME NEW t, t.k = "arr", NEW n, n = Len(t.e)
  PROVE  [j \in 1..n |-> <<j - 1, t.e[j]>>] \in Sem!Entries(t)
BY DEF Sem!Entries

(* A table has as many keys as values.                                     *)
LEMMA KeysCounted ==
  ASSUME NEW keys \in Seq(Int), \A i, j \in DOMAIN keys : keys[i] = keys[j] => i = j,
         NEW K, K = {keys[j] : j \in DOMAIN keys}
  PROVE  IsFiniteSet(K) /\ Cardinality(K) = Len(keys)
<1>1. PICK l \in Nat : l = Len(keys) /\ DOMAIN keys = 1..l
  BY SeqFinite
<1>2. IsFiniteSet(1..l) /\ Cardinality(1..l) = l
  BY FS_Interval
<1> DEFINE D == 1..l
           f == [j \in D |-> keys[j]]
<1>3. f \in [D -> K] /\ (\A i, j \in D : f[i] = f[j] => i = j) /\ \A t \in K : \E j \in D : f[j] = t
  BY <1>1
<1> HIDE DEF f, D
<1>4. f \in Bijection(D, K)
  BY <1>3, Fun_IsBij
<1>5. ExistsBijection(D, K)
  BY <1>4 DEF ExistsBijection
<1> QED
  BY <1>1, <1>2, <1>5, FS_Bijection DEF D

(* The elements an iterator meets are entries of the value.                *)
LEMMA EntriesOf ==
  ASSUME CInv, NEW c \in ValueCell, c.k = "ref", NEW s \in Orders(c), NEW e,
         e = [j \in DOMAIN s |-> <<KeyIn(heap, c.o, s[j]), Of(Trees, heap[c.o].e[s[j]])>>]
  PROVE  e \in Sem!Entries(Of(Trees, c))
<1>1. PICK o, x : o = c.o /\ x = heap[o]
  OBVIOUS
<1>2. o \in Obj /\ x.e \in Seq(ValueCell) /\ x.keys \in Seq(Int) /\ Keyed(x) /\ Elems(c) = x.e
  BY <1>1, ValueCells DEF CInv, IInv, HeapOK, Elems
<1>3. PICK l \in Nat : l = Len(x.e) /\ DOMAIN x.e = 1..l
  BY <1>2, SeqFinite
<1>4. /\ s \in [1..l -> 1..l] /\ DOMAIN s = 1..l /\ \A i, j \in 1..l : s[i] = s[j] => i = j
      /\ ~x.tab => \A i \in 1..l : s[i] = i
  BY <1>1, <1>2, <1>3 DEF Orders, IsTable
<1>5. Of(Trees, c) = Over(Trees, x) /\ (x.tab => Of(Trees, c).k = "tab") /\ (~x.tab => Of(Trees, c).k = "arr")
  BY <1>1, CellValue
<1>6. CASE ~x.tab
  <2>1. Of(Trees, c).e = Shows(Trees, x.e)
    BY <1>5, <1>6, ArrayTree DEF Arr
  <2>2. PICK S : S = Shows(Trees, x.e)
    OBVIOUS
  <2>3. Len(S) = l /\ \A j \in 1..l : S[j] = Of(Trees, x.e[j])
    BY <1>2, <1>3, <2>2, ShowsSeq
  <2>4. e = [j \in 1..l |-> <<j - 1, S[j]>>]
    <3>1. \A j \in 1..l : KeyIn(heap, o, s[j]) = j - 1 /\ s[j] = j
      BY <1>1, <1>4, <1>6 DEF KeyIn
    <3> QED
      BY <1>1, <1>4, <2>3, <3>1
  <2>5. PICK t : t = Of(Trees, c)
    OBVIOUS
  <2>6. t.k = "arr" /\ l = Len(t.e) /\ t.e = S
    BY <1>5, <1>6, <2>1, <2>2, <2>3, <2>5
  <2>7. [j \in 1..l |-> <<j - 1, t.e[j]>>] \in Sem!Entries(t)
    BY <2>6, EntriesOfArray
  <2> QED
    BY <2>4, <2>5, <2>6, <2>7
<1>7. CASE x.tab
  <2>1. PICK keys : keys = x.keys
    OBVIOUS
  <2>2. keys \in Seq(Int) /\ Len(keys) = l /\ \A i, j \in DOMAIN keys : keys[i] = keys[j] => i = j
    BY <1>2, <1>3, <1>7, <2>1 DEF Keyed
  <2>3. DOMAIN keys = 1..l
    BY <2>2, SeqFinite
  <2>4. PICK K : K = {keys[j] : j \in DOMAIN keys}
    OBVIOUS
  <2>5. Cardinality(K) = l
    BY <2>2, <2>4, KeysCounted
  <2>6. PICK f : f = [n \in {x.keys[j] : j \in DOMAIN x.keys} |-> Of(Trees, x.e[Entry(x.keys, n)])]
    OBVIOUS
  <2>7. /\ Over(Trees, x) = Tab([n \in {x.keys[j] : j \in DOMAIN x.keys} |-> Of(Trees, x.e[Entry(x.keys, n)])])
        /\ \A j \in DOMAIN x.keys : Entry(x.keys, x.keys[j]) = j
    BY <1>2, <1>7, TableTree
  <2>8. Of(Trees, c) = Tab(f) /\ \A j \in 1..l : Entry(keys, keys[j]) = j
    BY <1>5, <2>1, <2>3, <2>6, <2>7
  <2>9. Of(Trees, c).e = f /\ Of(Trees, c).k = "tab" /\ DOMAIN f = K
    BY <2>1, <2>4, <2>6, <2>8 DEF Tab
  <2>10. PICK r : r = [j \in 1..l |-> keys[s[j]]]
    OBVIOUS
  <2>11. r \in [1..l -> K] /\ \A i, j \in 1..l : r[i] = r[j] => i = j
    <3>1. \A j \in 1..l : keys[s[j]] \in K /\ r[j] = keys[s[j]] /\ s[j] \in 1..l
      BY <1>4, <2>3, <2>4, <2>10
    <3>2. \A i, j \in 1..l : r[i] = r[j] => i = j
      BY <1>4, <2>2, <2>3, <3>1
    <3>3. r \in [1..l -> K]
      BY <2>10, <3>1
    <3> QED
      BY <3>2, <3>3
  <2>12. e = [j \in 1..l |-> <<r[j], f[r[j]]>>]
    <3> SUFFICES ASSUME NEW j \in 1..l
                 PROVE  KeyIn(heap, o, s[j]) = r[j] /\ Of(Trees, x.e[s[j]]) = f[r[j]]
      BY <1>1, <1>4
    <3>1. s[j] \in 1..l /\ r[j] = keys[s[j]] /\ r[j] \in K
      BY <1>4, <2>10, <2>11
    <3>2. Entry(keys, r[j]) = s[j]
      BY <2>8, <3>1
    <3> QED
      BY <1>1, <1>7, <2>1, <2>4, <2>6, <3>1, <3>2 DEF KeyIn
  <2>13. PICK t : t = Of(Trees, c)
    OBVIOUS
  <2>14. t.k # "arr" /\ t.e = f /\ DOMAIN t.e = K /\ l = Sem!Cardinality(DOMAIN t.e)
    BY <2>5, <2>9, <2>13, SameCardinality
  <2>15. r \in [1..l -> DOMAIN t.e] /\ e = [j \in 1..l |-> <<r[j], t.e[r[j]]>>]
    BY <2>11, <2>12, <2>14
  <2> QED
    <3>1. e \in Sem!Entries(t)
      BY <2>11, <2>14, <2>15, EntriesOfTable
    <3> QED
      BY <2>13, <3>1
<1> QED
  BY <1>6, <1>7

LEMMA BeginIterSem ==
  ASSUME CInv, CInv', BeginIter
  PROVE  Sem!BeginIter
<1>1. PICK c : c = Operand(0)
  OBVIOUS
<1>2. IInv /\ Has(1) /\ c.k = "ref" /\ 1 \in 0..Len(stack)
  BY <1>1, Leaving DEF CInv, BeginIter
<1>3. c \in ValueCell /\ Sem!Operand(0) = Of(Trees, c)
  <2>1. 0 \in 0..(1 - 1) /\ 1 \in Nat /\ IsCell(c)
    BY <1>2 DEF IsCell
  <2> QED
    BY <1>1, <1>2, <2>1, SemValues
<1>4. PICK s \in Orders(c) : Do(env, Append(Below(1), IterOf(c.o, s, 1)), heap, <<>>)
  BY <1>1 DEF BeginIter
<1>5. PICK x : x = IterOf(c.o, s, 1)
  OBVIOUS
<1>6. UNCHANGED <<env, heap, status>> /\ stack' = Append(Below(1), x) /\ Len(stack') <= MaxStack
  BY <1>4, <1>5, StackBounded
<1>7. Touches({}) /\ Trees' = Trees
  BY <1>6, SameQuiet DEF Same, Trees
<1>8. x \in OperandCell
  BY <1>2, <1>6, Pushed DEF CInv
<1>9. SemEnv' = SemEnv
  BY <1>6, <1>7, EnvKept
<1>10. PICK e : e = [j \in DOMAIN s |-> <<KeyIn(heap, c.o, s[j]), Of(Trees, heap[c.o].e[s[j]])>>]
  OBVIOUS
<1>11. e \in Sem!Entries(Sem!Operand(0))
  BY <1>2, <1>3, <1>10, EntriesOf
<1>12. Shown(Trees', heap', x) = Sem!Loop(e, 1)
  <2>1. x.k = "iter" /\ x.at = 1 /\ x.order = s /\ x.o = c.o
    BY <1>5 DEF IterOf
  <2> QED
    BY <1>6, <1>7, <1>10, <2>1 DEF Shown, Sem!Loop
<1>13. Sem!Step(SemEnv, Append(Sem!Below(1), Sem!Loop(e, 1)))
  <2>1. PICK E, n : E = SemEnv /\ n = 1
    OBVIOUS
  <2>2. Sem!Step(E, Append(Sem!Below(n), Shown(Trees', heap', x)))
    BY <1>2, <1>6, <1>7, <1>8, <1>9, <2>1, SemLeft
  <2> QED
    BY <1>12, <2>1, <2>2
<1>14. Sem!Operand(0).k \in {"arr", "tab"} /\ Sem!Has(1)
  BY <1>2, <1>3, CellValue, SemOperands
<1> QED
  BY <1>11, <1>13, <1>14 DEF Sem!BeginIter, SemEnv

(* Where an iterator stands.                                               *)
LEMMA NextOrJmpSem ==
  ASSUME CInv, CInv', NEW key \in Var \union {Unnamed}, NEW v \in Var, key # v, NextOrJmp(key, v)
  PROVE  Sem!NextOrJmp(key, v)
<1>1. PICK it : it = Operand(0)
  OBVIOUS
<1>2. IInv /\ Has(1) /\ it.k = "iter" /\ 1 \in 0..Len(stack)
  BY <1>1, Leaving DEF CInv, NextOrJmp
<1>3. it \in OperandCell /\ Alive(it) /\ CellFits(env, heap, it)
      /\ Sem!Operand(0) = Shown(Trees, heap, it)
  <2>1. Len(stack) \in Nat /\ Len(stack) >= 1 /\ DOMAIN stack = 1..Len(stack)
    BY <1>2, Leaving, SeqFinite DEF Has, IInv
  <2>2. 0 \in 0..(Len(stack) - 1) /\ Len(stack) - 0 = Len(stack) /\ Len(stack) \in DOMAIN stack
    BY <2>1
  <2>3. it = stack[Len(stack)]
    BY <1>1, <2>2 DEF Operand
  <2> QED
    BY <1>1, <1>2, <2>2, <2>3, AllAlive, SemOperands DEF CInv, StackFits
<1>4. PICK o, s, n, h : o = it.o /\ s = it.order /\ n = it.at /\ h = heap[o].e
  OBVIOUS
<1>5. it \in IterCell /\ o \in Obj /\ Len(h) = Len(s)
  BY <1>2, <1>3, <1>4, OperandCells DEF CellFits, IterCell
<1>6. PICK l \in Nat : l = Len(s) /\ DOMAIN s = 1..l
  BY <1>4, <1>5, SeqFinite DEF IterCell
<1>7. n \in 1..(l + 1) /\ s \in Seq(Nat) /\ (\A j \in 1..l : s[j] \in 1..l) /\ it = IterOf(o, s, n)
  BY <1>4, <1>5, <1>6 DEF IterCell, IterOf
<1>8. h \in Seq(ValueCell) /\ DOMAIN h = 1..l /\ \A j \in DOMAIN h : Alive(h[j]) /\ h[j] \in ValueCell
  <2>1. h \in Seq(ValueCell) /\ \A j \in DOMAIN h : Alive(h[j])
    BY <1>2, <1>4, <1>5, AllAlive DEF Existing
  <2> QED
    BY <1>5, <1>6, <2>1, SeqFinite, ElementOfSeq
<1>9. PICK e : e = [j \in 1..l |-> <<KeyIn(heap, o, s[j]), Of(Trees, h[s[j]])>>]
  OBVIOUS
<1>10. Sem!Operand(0) = Sem!Loop(e, n) /\ Len(e) = l
  <2>1. Shown(Trees, heap, it) = Sem!Loop(e, n)
    BY <1>2, <1>4, <1>6, <1>9 DEF Shown, Sem!Loop
  <2> QED
    BY <1>3, <1>9, <2>1
<1>11. Sem!Operand(0).k = "loop" /\ Sem!Operand(0).at = n /\ Sem!Operand(0).e = e
  BY <1>10 DEF Sem!Loop
<1>12. Sem!Has(1)
  BY <1>2, SemOperands
<1>13. CASE n > l
  <2>1. Do(env, Below(1), heap, <<it>>)
    BY <1>1, <1>4, <1>5, <1>6, <1>13 DEF NextOrJmp
  <2>2. UNCHANGED <<env, heap, status>> /\ stack' = Below(1) /\ Len(stack') <= MaxStack
    BY <2>1, StackBounded
  <2>3. Touches({}) /\ Null \in OperandCell
    BY <2>2, SameQuiet, CellKinds DEF Same
  <2>4. SemEnv' = SemEnv
    BY <2>2, <2>3, EnvKept
  <2>5. Sem!Step(SemEnv, Sem!Below(1))
    <3>1. PICK E, m : E = SemEnv /\ m = 1
      OBVIOUS
    <3> QED
      BY <1>2, <2>2, <2>3, <2>4, <3>1, SemLeft
  <2>6. Sem!Operand(0).at > Len(Sem!Operand(0).e)
    BY <1>10, <1>11, <1>13
  <2> QED
    BY <1>11, <1>12, <2>5, <2>6 DEF Sem!NextOrJmp, SemEnv
<1>14. CASE ~(n > l)
  <2>1. n \in 1..l /\ s[n] \in 1..l /\ n + 1 \in 1..(l + 1)
    BY <1>7, <1>14
  <2>2. PICK x, k, y : x = h[s[n]] /\ k = KeyIn(heap, o, s[n]) /\ y = IterOf(o, s, n + 1)
    OBVIOUS
  <2>3. x \in ValueCell /\ x \in OperandCell /\ Alive(x) /\ e[n] = <<k, Of(Trees, x)>>
    BY <1>8, <1>9, <2>1, <2>2, ValueCells
  <2>4. PICK f : f = [w \in Var |-> IF w = v THEN x ELSE IF w = key THEN Number(k) ELSE env[w]]
    OBVIOUS
  <2>5. Do(f, Append(Below(1), y), Copying(<<x>>, heap),
           (IF key \in Var THEN <<env[key]>> ELSE <<>>) \o <<env[v]>>)
    BY <1>1, <1>4, <1>5, <1>6, <1>14, <2>2, <2>4 DEF NextOrJmp, KeyAt, KeyIn
  <2>6. env' = f /\ UNCHANGED status /\ stack' = Append(Below(1), y) /\ Len(stack') <= MaxStack
        /\ heap' = Copying(<<x>>, heap)
    BY <2>5, StackBounded
  <2>7. Touches({}) /\ \A p \in Obj : Same(heap[p], heap'[p])
    BY <1>2, <2>6, SameQuiet, CopyingSame
  <2>8. y \in OperandCell
    BY <1>2, <2>6, Pushed DEF CInv
  <2>9. Of(Trees', x) = Of(Trees, x)
    <3>1. Alive(x)'
      <4>1. env'[v] = x
        BY <2>4, <2>6
      <4> QED
        BY <4>1, AliveElsewhere DEF CInv
    <3>2. \A p \in {} : ~RefersTo(x, p)
      OBVIOUS
    <3> QED
      BY <2>3, <2>7, <3>1, <3>2, CellKept
  <2>10. SemEnv' = [w \in Var |-> IF w = v THEN e[n][2] ELSE IF w = key THEN Number(e[n][1]) ELSE SemEnv[w]]
    <3> SUFFICES ASSUME NEW w \in Var
                 PROVE  SemEnv'[w] = IF w = v THEN e[n][2] ELSE IF w = key THEN Number(e[n][1]) ELSE SemEnv[w]
      BY VarShownNext
    <3>1. SemEnv'[w] = Of(Trees', env'[w]) /\ env'[w] = IF w = v THEN x ELSE IF w = key THEN Number(k) ELSE env[w]
      BY <2>4, <2>6, VarShownNext
    <3>2. CASE w = v
      BY <2>3, <2>9, <3>1, <3>2
    <3>3. CASE w # v /\ w = key
      <4>1. Of(Trees', Number(k)) = Number(k)
        BY DEF Number, Of, TreeIn
      <4> QED
        BY <2>3, <3>1, <3>3, <4>1
    <3>4. CASE w # v /\ w # key
      <4>1. env'[w] = env[w]
        BY <3>1, <3>4
      <4>2. SemEnv'[w] = SemEnv[w]
        BY <2>7, <4>1, VarKeptTree
      <4> QED
        BY <3>4, <4>2
    <3> QED
      BY <3>2, <3>3, <3>4
  <2>11. Shown(Trees', heap', y) = Sem!Loop(e, n + 1)
    <3>1. y.k = "iter" /\ y.at = n + 1 /\ y.order = s /\ y.o = o
      BY <2>2 DEF IterOf
    <3>2. CellFits(env, heap, it) /\ Shown(Trees, heap, it) = Sem!Loop(e, n)
      BY <1>3, <1>10
    <3>3. Alive(it)'
      <4>1. \A p : RefersTo(it, p) => RefersTo(y, p)
        BY <1>2, <1>4, <3>1 DEF RefersTo, Counts
      <4>2. Below(1) \in Seq(OperandCell)
        BY <1>2, Operands
      <4>3. stack'[Len(Below(1)) + 1] = y /\ Len(Below(1)) + 1 \in DOMAIN stack'
        BY <2>6, <2>8, <4>2, AppendProperties, SeqFinite
      <4>4. Alive(y)'
        BY <4>3, AliveElsewhere DEF CInv
      <4> QED
        BY <4>1, <4>4 DEF Alive
    <3>4. Shown(Trees', heap', it) = Sem!Loop(e, n)
      <4>1. \A p \in {} : ~RefersTo(it, p)
        OBVIOUS
      <4> QED
        BY <1>3, <2>7, <3>2, <3>3, <4>1, CellKept
    <3>5. PICK z : z = [j \in 1..l |-> <<KeyIn(heap', o, s[j]), Of(Trees', heap'[o].e[s[j]])>>]
      OBVIOUS
    <3>6. Shown(Trees', heap', it) = Sem!Loop(z, n) /\ Shown(Trees', heap', y) = Sem!Loop(z, n + 1)
      BY <1>2, <1>4, <1>6, <3>1, <3>5 DEF Shown, Sem!Loop
    <3>7. z = e
      <4>1. Sem!Loop(z, n).e = z /\ Sem!Loop(e, n).e = e
        BY DEF Sem!Loop
      <4> QED
        BY <3>4, <3>6, <4>1
    <3> QED
      BY <3>6, <3>7
  <2>12. Sem!Step([w \in Var |-> IF w = v THEN e[n][2] ELSE IF w = key THEN Sem!Number(e[n][1]) ELSE SemEnv[w]],
                  Append(Sem!Below(1), Sem!Loop(e, n + 1)))
    <3>1. PICK m : m = 1
      OBVIOUS
    <3>2. PICK E : SemEnv' = E
      OBVIOUS
    <3>3. Sem!Step(E, Append(Sem!Below(m), Shown(Trees', heap', y)))
      BY <1>2, <2>6, <2>7, <2>8, <3>1, <3>2, SemLeft
    <3>4. E = [w \in Var |-> IF w = v THEN e[n][2] ELSE IF w = key THEN Sem!Number(e[n][1]) ELSE SemEnv[w]]
      BY <2>10, <3>2, SameNames
    <3> QED
      BY <2>11, <3>1, <3>3, <3>4
  <2>13. ~(Sem!Operand(0).at > Len(Sem!Operand(0).e))
    BY <1>10, <1>11, <1>14
  <2> QED
    BY <1>11, <1>12, <2>12, <2>13 DEF Sem!NextOrJmp, SemEnv
<1> QED
  BY <1>13, <1>14

-----------------------------------------------------------------------------
(* Tables made of cells.                                                   *)

(* The pairs a table is made of, in order.                                 *)
FirstOnes(cells, s, n, first, c) ==
  /\ Pairs(cells) = 1..n /\ first \subseteq 1..n /\ c \in Nat
  /\ \A i, j \in first : cells[2 * i - 1].n = cells[2 * j - 1].n => i = j
  /\ \A i \in 1..n : \E f \in first : cells[2 * f - 1].n = cells[2 * i - 1].n
  /\ s \in [1..c -> first] /\ \A i \in first : \E j \in 1..c : s[j] = i

LEMMA PairsOrdered ==
  ASSUME NEW cells, NEW k, NEW s, InOrder(cells, k, s), NEW n \in Nat, k = 2 * n,
         NEW first, first = FirstPairs(cells), NEW c, c = Cardinality(first)
  PROVE  FirstOnes(cells, s, n, first, c)
<1>1. Pairs(cells) = 1..n
  <2>1. (2 * n) \div 2 = n
    OBVIOUS
  <2> QED
    BY <2>1 DEF Pairs, InOrder
<1>2. first \subseteq 1..n
  BY <1>1 DEF FirstPairs
<1>3. IsFiniteSet(first) /\ c \in Nat
  <2>1. IsFiniteSet(1..n)
    BY FS_Interval
  <2>2. IsFiniteSet(first)
    BY <1>2, <2>1, FS_Subset
  <2> QED
    BY <2>2, FS_CardinalityType
<1>4. \A i, j \in first : cells[2 * i - 1].n = cells[2 * j - 1].n => i = j
  <2>1. ASSUME NEW i \in first, NEW j \in first, i < j PROVE cells[2 * i - 1].n # cells[2 * j - 1].n
    <3>1. i \in 1..(j - 1)
      BY <1>2, <2>1
    <3> QED
      BY <3>1 DEF FirstPairs
  <2>2. \A i, j \in first : i < j \/ j < i \/ i = j
    BY <1>2
  <2> QED
    BY <2>1, <2>2
<1>5. ASSUME NEW i \in 1..n PROVE \E f \in first : cells[2 * f - 1].n = cells[2 * i - 1].n
  <2> DEFINE T == {j \in 1..n : cells[2 * j - 1].n = cells[2 * i - 1].n}
  <2>1. T \in SUBSET Nat /\ T # {}
    <3>1. i \in T /\ \A j \in T : j \in 1..n
      OBVIOUS
    <3> HIDE DEF T
    <3> QED
      BY <3>1
  <2>2. PICK f \in T : \A j \in T : f <= j
    <3> HIDE DEF T
    <3> QED
      BY <2>1, Least
  <2>3. ASSUME NEW j \in 1..(f - 1) PROVE cells[2 * j - 1].n # cells[2 * f - 1].n
    <3>1. j \in 1..n /\ ~(f <= j)
      BY <2>2
    <3> QED
      BY <2>2, <3>1
  <2> QED
    BY <1>1, <2>3 DEF FirstPairs
<1>6. s \in [1..c -> first] /\ \A i, j \in 1..c : i < j => s[i] < s[j]
  BY DEF InOrder
<1>7. ASSUME NEW i \in first PROVE \E j \in 1..c : s[j] = i
  <2>1. \A a, b \in 1..c : s[a] = s[b] => a = b
    <3>1. \A a \in 1..c : s[a] \in Int /\ a \in Int
      <4> TAKE a \in 1..c
      <4>1. s[a] \in 1..n
        BY <1>2, <1>6
      <4> QED
        BY <4>1
    <3> QED
      BY <1>6, <3>1
  <2> DEFINE D == 1..c
  <2>2. IsFiniteSet(D) /\ Cardinality(D) = c
    BY <1>3, FS_Interval
  <2>3. s \in [D -> first] /\ \A a, b \in D : s[a] = s[b] => a = b
    BY <1>6, <2>1
  <2> HIDE DEF D
  <2>4. s \in Injection(D, first)
    BY <2>3, Fun_IsInj
  <2>5. s \in Surjection(D, first)
    BY <1>3, <2>2, <2>4, FS_Injection
  <2> QED
    BY <2>5 DEF Surjection, D
<1> QED
  BY <1>1, <1>2, <1>3, <1>4, <1>5, <1>6, <1>7 DEF FirstOnes

(* The keys among cells are those among their trees.                       *)
KeysShown(T, cells, C, n) ==
  /\ Len(C) = 2 * n /\ \A p \in 1..(2 * n) : C[p] = Of(T, cells[p])
  /\ Sem!Pairs(C) = 1..n /\ Pairs(cells) = 1..n
  /\ Sem!AllKeys(C) <=> AllKeys(cells)
  /\ AllKeys(cells) => /\ Sem!FirstPairs(C) = FirstPairs(cells)
                       /\ \A i \in 1..n : C[2 * i - 1] = cells[2 * i - 1]

NoKeyRef(T) == \A c \in ValueCell : c.k = "ref" => Of(T, c).k # "num"

LEMMA SameKeys ==
  ASSUME NEW T, NEW cells \in Seq(ValueCell), NEW n \in Nat, Len(cells) = 2 * n,
         NoKeyRef(T),
         NEW C, C = Shows(T, cells)
  PROVE  KeysShown(T, cells, C, n)
<1>1. Len(C) = 2 * n /\ \A p \in 1..(2 * n) : C[p] = Of(T, cells[p])
  BY ShowsSeq
<1>2. Sem!Pairs(C) = 1..n /\ Pairs(cells) = 1..n
  <2>1. (2 * n) \div 2 = n
    OBVIOUS
  <2> QED
    BY <1>1, <2>1 DEF Pairs, Sem!Pairs
<1>3. ASSUME NEW i \in 1..n
      PROVE  /\ C[2 * i - 1].k = "num" <=> cells[2 * i - 1].k = "num"
             /\ cells[2 * i - 1].k = "num" => C[2 * i - 1] = cells[2 * i - 1]
  <2>1. 2 * i - 1 \in 1..(2 * n)
    OBVIOUS
  <2>2. PICK x : x = cells[2 * i - 1] /\ x \in ValueCell /\ C[2 * i - 1] = Of(T, x)
    BY <1>1, <2>1, ElementOfSeq
  <2>3. x.k # "ref" => Of(T, x) = x
    BY DEF Of, TreeIn
  <2> QED
    BY <2>2, <2>3 DEF NoKeyRef
<1>4. Sem!AllKeys(C) <=> AllKeys(cells)
  BY <1>2, <1>3 DEF AllKeys, Sem!AllKeys
<1>5. ASSUME AllKeys(cells) PROVE \A i \in 1..n : C[2 * i - 1] = cells[2 * i - 1]
  BY <1>2, <1>3, <1>5 DEF AllKeys
<1>6. ASSUME AllKeys(cells) PROVE Sem!FirstPairs(C) = FirstPairs(cells)
  <2>1. \A i \in 1..n : \A j \in 1..(i - 1) : j \in 1..n
    OBVIOUS
  <2>2. PICK N : N = [i \in 1..n |-> cells[2 * i - 1].n]
    OBVIOUS
  <2>3. \A i \in 1..n : C[2 * i - 1].n = N[i] /\ cells[2 * i - 1].n = N[i]
    BY <1>5, <1>6, <2>2
  <2>4. Sem!FirstPairs(C) = {i \in 1..n : \A j \in 1..(i - 1) : N[j] # N[i]}
    BY <1>2, <2>1, <2>3 DEF Sem!FirstPairs
  <2>5. FirstPairs(cells) = {i \in 1..n : \A j \in 1..(i - 1) : N[j] # N[i]}
    BY <1>2, <2>1, <2>3 DEF FirstPairs
  <2> QED
    BY <2>4, <2>5
<1> QED
  BY <1>1, <1>2, <1>4, <1>5, <1>6 DEF KeysShown

(* The table made of the cells is the one made of their trees.             *)
LEMMA TablesMatch ==
  ASSUME NEW T, NEW cells, NEW k, NEW s, InOrder(cells, k, s),
         NoKeyRef(T),
         NEW C, C = Shows(T, cells), NEW x, x = Table(KeysOf(cells, s), ValuesOf(cells, s))
  PROVE  /\ Sem!TableOf(C) = Over(T, x) /\ Sem!AllKeys(C)
         /\ Sem!Cardinality(Sem!FirstPairs(C)) = Cardinality(FirstPairs(cells))
<1>1. PICK n \in Nat : k = 2 * n
  BY DEF InOrder
<1>2. cells \in Seq(ValueCell) /\ Len(cells) = 2 * n /\ AllKeys(cells)
  BY <1>1 DEF InOrder
<1>3. PICK first, c : first = FirstPairs(cells) /\ c = Cardinality(first)
  OBVIOUS
<1>4. /\ first \subseteq 1..n /\ c \in Nat
      /\ \A i, j \in first : cells[2 * i - 1].n = cells[2 * j - 1].n => i = j
      /\ \A i \in 1..n : \E f \in first : cells[2 * f - 1].n = cells[2 * i - 1].n
      /\ s \in [1..c -> first] /\ \A i \in first : \E j \in 1..c : s[j] = i
  <2>1. FirstOnes(cells, s, n, first, c)
    BY <1>1, <1>3, PairsOrdered
  <2> QED
    BY <2>1 DEF FirstOnes
<1>5. /\ \A p \in 1..(2 * n) : C[p] = Of(T, cells[p])
      /\ Sem!Pairs(C) = 1..n /\ Sem!AllKeys(C) /\ Sem!FirstPairs(C) = first
      /\ \A i \in 1..n : C[2 * i - 1] = cells[2 * i - 1]
  <2>1. KeysShown(T, cells, C, n)
    BY <1>2, SameKeys
  <2> QED
    BY <1>2, <1>3, <2>1 DEF KeysShown
<1>6. PICK keys, e : keys = KeysOf(cells, s) /\ e = ValuesOf(cells, s)
  OBVIOUS
<1>7. /\ keys = [j \in 1..c |-> cells[2 * s[j] - 1].n] /\ e = [j \in 1..c |-> cells[2 * s[j]]]
      /\ DOMAIN keys = 1..c
  BY <1>3, <1>6 DEF KeysOf, ValuesOf
<1>8. keys \in Seq(Int) /\ \A i, j \in DOMAIN keys : keys[i] = keys[j] => i = j
  BY <1>6, PairsSplit DEF Split
<1> DEFINE KS == {keys[j] : j \in DOMAIN keys}
           CS == {C[2 * i - 1].n : i \in Sem!Pairs(C)}
           Chosen(m) == CHOOSE i \in Sem!FirstPairs(C) : C[2 * i - 1].n = m
<1>9. \A m : m \in KS <=> m \in CS
  <2>1. ASSUME NEW j \in 1..c PROVE keys[j] \in CS
    <3>1. s[j] \in 1..n /\ keys[j] = cells[2 * s[j] - 1].n
      BY <1>4, <1>7
    <3> QED
      BY <1>5, <3>1
  <2>2. ASSUME NEW i \in 1..n PROVE C[2 * i - 1].n \in KS
    <3>1. PICK f \in first : cells[2 * f - 1].n = cells[2 * i - 1].n
      BY <1>4
    <3>2. PICK j \in 1..c : s[j] = f
      BY <1>4
    <3>3. keys[j] = C[2 * i - 1].n
      BY <1>5, <1>7, <3>1, <3>2
    <3> QED
      BY <1>7, <3>3
  <2> QED
    BY <1>5, <1>7, <2>1, <2>2
<1>10. ASSUME NEW m \in KS PROVE C[2 * Chosen(m)] = Of(T, e[Entry(keys, m)])
  <2>1. PICK j \in 1..c : keys[j] = m
    BY <1>7
  <2>2. Entry(keys, m) = j
    <3>1. j \in DOMAIN keys
      BY <1>7
    <3> HIDE DEF KS
    <3> QED
      BY <1>8, <2>1, <3>1, EntryFound
  <2>3. PICK i : i = s[j]
    OBVIOUS
  <2>4. i \in first /\ i \in 1..n /\ cells[2 * i - 1].n = m /\ e[j] = cells[2 * i]
    BY <1>4, <1>7, <2>1, <2>3
  <2>5. C[2 * i - 1].n = m /\ \A l \in first : C[2 * l - 1].n = m => l = i
    BY <1>4, <1>5, <2>4
  <2>6. Chosen(m) = i
    BY <1>5, <2>4, <2>5
  <2>7. C[2 * i] = Of(T, cells[2 * i])
    <3>1. 2 * i \in 1..(2 * n)
      BY <2>4
    <3> QED
      BY <1>5, <3>1
  <2> QED
    BY <2>2, <2>4, <2>6, <2>7
<1>11. Sem!TableOf(C) = Tab([m \in CS |-> C[2 * Chosen(m)]])
  BY SameNames DEF Sem!TableOf
<1>12. Over(T, x) = Tab([m \in KS |-> Of(T, e[Entry(keys, m)])])
  BY <1>6 DEF Over, TreeOver, Of, Table, Object
<1>13. Sem!Cardinality(Sem!FirstPairs(C)) = Cardinality(FirstPairs(cells))
  BY <1>3, <1>5, SameCardinality
<1>14. [m \in CS |-> C[2 * Chosen(m)]] = [m \in KS |-> Of(T, e[Entry(keys, m)])]
  <2> HIDE DEF CS, KS, Chosen
  <2>1. CS = KS
    BY <1>9
  <2> QED
    BY <1>10, <2>1
<1> QED
  BY <1>5, <1>11, <1>12, <1>13, <1>14

-----------------------------------------------------------------------------
(* Table literals.                                                         *)

(* The step that pushes a new table.                                       *)
LEMMA NewTableSem ==
  ASSUME CInv, CInv', NEW p \in Free, NEW n \in 0..Len(stack), NEW x,
         UNCHANGED <<env, status>>, stack' = Append(Below(n), Ref(p)), Len(stack') <= MaxStack,
         heap'[p] = x, \A o \in Obj \ {p} : Same(heap[o], heap'[o]),
         \A j \in DOMAIN x.e : Alive(x.e[j])
  PROVE  Sem!Step(SemEnv, Append(Sem!Below(n), Over(Trees, x)))
<1>1. p \in Obj /\ ~heap[p].live
  BY DEF Free
<1>2. Touches({})
  BY <1>1, QuietTouches
<1>3. PICK c, E, y : c = Ref(p) /\ E = SemEnv /\ y = Over(Trees, x)
  OBVIOUS
<1>4. Shown(Trees', heap', c) = y
  <2>1. \A j \in DOMAIN heap'[p].e : Alive(heap'[p].e[j]) /\ \A o \in {} : ~RefersTo(heap'[p].e[j], o)
    OBVIOUS
  <2>2. Trees'[p] = y
    BY <1>1, <1>2, <1>3, <2>1, MadeOf
  <2> QED
    BY <1>3, <2>2, CellKinds, ShownCells DEF Of, TreeIn
<1>5. SemEnv' = SemEnv
  BY <1>2, EnvKept
<1>6. c \in OperandCell
  BY <1>1, <1>3, CellKinds
<1>7. Sem!Step(E, Append(Sem!Below(n), Shown(Trees', heap', c)))
  BY <1>2, <1>3, <1>5, <1>6, SemLeft
<1> QED
  BY <1>3, <1>4, <1>7

LEMMA CreateTableSem ==
  ASSUME CInv, CInv', NEW n \in Tables, CreateTable(n)
  PROVE  Sem!CreateTable(n)
<1>1. PICK k \in Nat : k = 2 * n /\ n \in Nat
  BY HeapAssumption
<1>2. IInv /\ Has(k) /\ k \in 0..Len(stack) /\ \A i \in 0..(k - 1) : IsCell(Operand(i))
  BY <1>1, Leaving DEF CInv, CreateTable
<1>3. PICK cells : cells = SubSeq(stack, Len(stack) - k + 1, Len(stack))
  OBVIOUS
<1>4. PICK C : C = SubSeq(SemStack, Len(SemStack) - k + 1, Len(SemStack))
  OBVIOUS
<1>5. /\ cells \in Seq(ValueCell) /\ Len(cells) = k /\ DOMAIN cells = 1..k
      /\ \A j \in 1..k : Alive(cells[j]) /\ C = Shows(Trees, cells)
  <2>1. cells \in Seq(ValueCell) /\ Len(cells) = k /\ (\A j \in DOMAIN cells : Alive(cells[j]))
        /\ C = Shows(Trees, cells)
    BY <1>2, <1>3, <1>4, TopCells
  <2> QED
    BY <2>1, SeqFinite
<1>6. C = Shows(Trees, cells)
  BY <1>2, <1>3, <1>4, TopCells
<1>7. NoKeyRef(Trees)
  <2>1. \A c \in ValueCell : c.k = "ref" => Of(Trees, c).k \in {"arr", "tab"}
    BY CellValue
  <2> QED
    BY <2>1 DEF NoKeyRef
<1>8. Sem!AllKeys(C) <=> AllKeys(cells)
  <2>1. KeysShown(Trees, cells, C, n)
    BY <1>1, <1>5, <1>6, <1>7, SameKeys
  <2> QED
    BY <2>1 DEF KeysShown
<1>9. Sem!Has(2 * n) /\ \A i \in 0..(2 * n - 1) : Sem!Value(i)
  <2>1. \A i \in 0..(k - 1) : Sem!Value(i)
    BY <1>2, SemValues
  <2>2. Sem!Has(k)
    BY <1>2, SemOperands
  <2> QED
    BY <1>1, <2>1, <2>2
<1>10. C = SubSeq(SemStack, Len(SemStack) - 2 * n + 1, Len(SemStack))
       /\ cells = SubSeq(stack, Len(stack) - 2 * n + 1, Len(stack))
  BY <1>1, <1>3, <1>4
<1>11. CASE ~AllKeys(cells)
  <2>1. Sem!Raise
    BY <1>10, <1>11, StopSem DEF CreateTable
  <2> QED
    BY <1>8, <1>9, <1>10, <1>11, <2>1 DEF Sem!CreateTable, SemStack
<1>12. CASE AllKeys(cells)
  <2>1. PICK first, D : first = FirstPairs(cells) /\ D = 1..Cardinality(first)
    OBVIOUS
  <2>2. /\ Cardinality(first) <= MaxLen
        /\ \E p \in Free, s \in {s \in [D -> first] : \A i, j \in D : i < j => s[i] < s[j]} :
             Do(env, Append(Below(2 * n), Ref(p)),
                [heap EXCEPT ![p] = Table([j \in D |-> cells[2 * s[j] - 1].n], [j \in D |-> cells[2 * s[j]]])],
                [q \in 1..(2 * n) |-> IF q % 2 = 0 /\ q \div 2 \in first THEN Null ELSE cells[q]])
    BY <1>10, <1>12, <2>1 DEF CreateTable
  <2>3. PICK p \in Free, s \in [D -> first] :
          /\ \A i, j \in D : i < j => s[i] < s[j]
          /\ Do(env, Append(Below(2 * n), Ref(p)),
                [heap EXCEPT ![p] = Table([j \in D |-> cells[2 * s[j] - 1].n], [j \in D |-> cells[2 * s[j]]])],
                [q \in 1..(2 * n) |-> IF q % 2 = 0 /\ q \div 2 \in first THEN Null ELSE cells[q]])
    BY <2>2
  <2>4. PICK keys, e, x : keys = KeysOf(cells, s) /\ e = ValuesOf(cells, s) /\ x = Table(keys, e)
    OBVIOUS
  <2>5. keys = [j \in D |-> cells[2 * s[j] - 1].n] /\ e = [j \in D |-> cells[2 * s[j]]]
    BY <2>1, <2>4 DEF KeysOf, ValuesOf
  <2>6. UNCHANGED <<env, status>> /\ stack' = Append(Below(k), Ref(p)) /\ Len(stack') <= MaxStack
        /\ heap' = [heap EXCEPT ![p] = x]
    BY <1>1, <2>3, <2>4, <2>5, StackBounded
  <2>7. heap'[p] = x /\ \A o \in Obj \ {p} : Same(heap[o], heap'[o])
    BY <1>2, <2>6 DEF Same, IInv, HeapOK, Free
  <2>8. InOrder(cells, k, s)
    BY <1>1, <1>5, <1>12, <2>1, <2>3 DEF InOrder
  <2>9. ASSUME NEW j \in DOMAIN x.e PROVE Alive(x.e[j])
    <3>1. FirstOnes(cells, s, n, first, Cardinality(first))
      <4>1. PICK c : c = Cardinality(first)
        OBVIOUS
      <4> QED
        BY <1>1, <2>1, <2>8, <4>1, PairsOrdered
    <3>2. x.e = e
      BY <2>4 DEF Table, Object
    <3>3. j \in D /\ s[j] \in 1..n /\ x.e[j] = cells[2 * s[j]]
      BY <2>1, <2>5, <3>1, <3>2 DEF FirstOnes
    <3>4. 2 * s[j] \in 1..k
      BY <1>1, <3>3
    <3> QED
      BY <1>5, <3>3, <3>4
  <2>10. Sem!Step(SemEnv, Append(Sem!Below(k), Over(Trees, x)))
    BY <1>2, <2>6, <2>7, <2>9, NewTableSem
  <2>11. Sem!TableOf(C) = Over(Trees, x) /\ Sem!Cardinality(Sem!FirstPairs(C)) = Cardinality(first)
    BY <1>6, <1>7, <2>1, <2>4, <2>8, TablesMatch
  <2>12. Sem!Step(SemEnv, Append(Sem!Below(2 * n), Sem!TableOf(C))) /\ Sem!Cardinality(Sem!FirstPairs(C)) <= MaxLen
    BY <1>1, <2>2, <2>10, <2>11
  <2> QED
    BY <1>8, <1>9, <1>10, <1>12, <2>12 DEF Sem!CreateTable, SemStack, SemEnv
<1> QED
  BY <1>11, <1>12

=============================================================================
