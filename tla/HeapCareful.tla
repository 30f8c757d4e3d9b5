---------------------------- MODULE HeapCareful ----------------------------
(***************************************************************************)
(* Proofs about ValueHeap for scripts that are careful (they append, write *)
(* and get as ValueHeap says), for every number of variables, operands,    *)
(* arrays and tables: no freed or moved element is used (NeverDangling)    *)
(* and no array is kept alive by nothing but itself (NoLeak).              *)
(*                                                                         *)
(* They rest on where references lead: the heap is ordered, every borrow   *)
(* on the stack stays what its place leads to, and every iterator has the  *)
(* length of what it iterates over.                                        *)
(***************************************************************************)
EXTENDS HeapProofs, NaturalsInduction, WellFoundedInduction

Careful == {"append", "write", "get"} \cap Careless = {}

-----------------------------------------------------------------------------
(* Natural numbers.                                                        *)

LEMMA Least ==
  ASSUME NEW T \in SUBSET Nat, T # {}
  PROVE  \E x \in T : \A y \in T : x <= y
<1> DEFINE R == OpToRel(<, Nat)
<1>1. IsWellFoundedOn(R, Nat)
  BY NatLessThanWellFounded
<1>2. \A x, y \in Nat : y < x => <<y, x>> \in R
  BY DEF OpToRel
<1> HIDE DEF R
<1>3. PICK x \in T : \A y \in T : ~ (<<y, x>> \in R)
  BY <1>1, WFMin
<1>4. \A y \in T : ~ (y < x)
  BY <1>2, <1>3
<1> QED
  BY <1>4

(* Induction: the provers cannot instantiate a predicate, but a set.       *)
LEMMA AllNaturals ==
  ASSUME NEW T \in SUBSET Nat, 0 \in T, \A n \in T : n + 1 \in T
  PROVE  T = Nat
<1> SUFFICES ASSUME T # Nat PROVE FALSE
  OBVIOUS
<1> DEFINE U == Nat \ T
<1>1. U \in SUBSET Nat /\ U # {}
  OBVIOUS
<1> HIDE DEF U
<1>2. PICK x \in U : \A y \in U : x <= y
  BY <1>1, Least
<1>3. x \in Nat /\ x \notin T /\ x # 0
  BY <1>2 DEF U
<1>4. x - 1 \in Nat /\ ~(x <= x - 1) /\ (x - 1) + 1 = x
  BY <1>3
<1>5. x - 1 \in T
  BY <1>2, <1>4 DEF U
<1> QED
  BY <1>3, <1>4, <1>5

-----------------------------------------------------------------------------
(* Where references lead.                                                  *)

Refers(h, p, o) == \E j \in DOMAIN h[p].e : RefersTo(h[p].e[j], o)

(* Every object ranks above those it refers to.                            *)
Ranked(h, r, K) ==
  /\ r \in [Obj -> 0..K]
  /\ \A p, o \in Obj : Refers(h, p, o) => r[o] < r[p]

Ordered(h) == \E K \in Nat : \E r \in [Obj -> 0..K] : Ranked(h, r, K)

(* The ranks of a heap make those of another: where new references start   *)
(* are objects nothing else leads to (P), or new ones (N).                 *)
Above(h, g, P, N) ==
  /\ P \subseteq Obj /\ N \subseteq Obj /\ P \cap N = {}
  /\ \A p, o \in Obj : Refers(h, p, o) => (o \in P => p \in P) /\ o \notin N
  /\ \A p, o \in Obj : Refers(g, p, o) =>
       \/ Refers(h, p, o)
       \/ p \in N /\ o \notin P \union N
       \/ p \in P /\ o \notin P

LEMMA OrderedStep ==
  ASSUME NEW h, NEW g, NEW K \in Nat, NEW r, Ranked(h, r, K),
         NEW P, NEW N, Above(h, g, P, N)
  PROVE  Ordered(g)
<1> USE DEF Above
<1> DEFINE M == 2 * K + 2
           s == [x \in Obj |-> IF x \in P THEN r[x] + K + 2 ELSE IF x \in N THEN K + 1 ELSE r[x]]
<1>1. \A x \in Obj : r[x] \in 0..K
  BY DEF Ranked
<1>2. M \in Nat /\ \A x \in Obj : s[x] \in 0..M
  BY <1>1
<1>3. s \in [Obj -> 0..M]
  BY <1>2
<1>4. ASSUME NEW p \in Obj, NEW o \in Obj, Refers(g, p, o) PROVE s[o] < s[p]
  <2>1. CASE Refers(h, p, o)
    <3>1. r[o] < r[p] /\ o \notin N /\ (o \in P => p \in P)
      BY <2>1 DEF Ranked
    <3> QED
      BY <1>1, <3>1
  <2>2. CASE p \in N /\ o \notin P \union N
    BY <1>1, <2>2
  <2>3. CASE p \in P /\ o \notin P
    BY <1>1, <2>3
  <2> QED
    BY <1>4, <2>1, <2>2, <2>3
<1>5. Ranked(g, s, M)
  BY <1>3, <1>4 DEF Ranked
<1> QED
  BY <1>2, <1>3, <1>5 DEF Ordered

(* Where a step of a path leads from the cell c in heap h.                 *)
AtStep(h, c, x) == IF h[c.o].tab THEN Entry(h[c.o].keys, x) ELSE x

Onward(h, c, x) ==
  IF c.k = "ref" /\ AtStep(h, c, x) \in DOMAIN h[c.o].e THEN h[c.o].e[AtStep(h, c, x)] ELSE Null

Path(g, h, c, p) ==
  /\ g = [j \in 0..Len(p) |-> g[j]]
  /\ g[0] = c
  /\ \A j \in 1..Len(p) : g[j] = Onward(h, g[j - 1], p[j])

(* Every path leads somewhere.                                             *)
LEMMA PathExists ==
  ASSUME NEW h, NEW c, NEW p \in Seq(Int)
  PROVE  \E g : Path(g, h, c, p)
<1> DEFINE Good(n) == \E g : /\ g = [j \in 0..n |-> g[j]] /\ g[0] = c
                             /\ \A j \in 1..n : g[j] = Onward(h, g[j - 1], p[j])
           T == {n \in Nat : Good(n)}
<1>1. 0 \in T
  <2> DEFINE g == [j \in 0..0 |-> c]
  <2>1. g = [j \in 0..0 |-> g[j]] /\ g[0] = c /\ \A j \in 1..0 : g[j] = Onward(h, g[j - 1], p[j])
    OBVIOUS
  <2> HIDE DEF g
  <2> QED
    BY <2>1
<1>2. ASSUME NEW n \in T PROVE n + 1 \in T
  <2>1. PICK g : g = [j \in 0..n |-> g[j]] /\ g[0] = c /\ \A j \in 1..n : g[j] = Onward(h, g[j - 1], p[j])
    BY <1>2
  <2> DEFINE f == [j \in 0..(n + 1) |-> IF j = n + 1 THEN Onward(h, g[n], p[n + 1]) ELSE g[j]]
  <2>2. n \in Nat /\ n + 1 \in Nat
    OBVIOUS
  <2>3. f = [j \in 0..(n + 1) |-> f[j]] /\ f[0] = c /\ f[n + 1] = Onward(h, g[n], p[n + 1])
        /\ \A j \in 0..n : f[j] = g[j]
    BY <2>1, <2>2
  <2> HIDE DEF f
  <2>4. ASSUME NEW j \in 1..(n + 1) PROVE f[j] = Onward(h, f[j - 1], p[j])
    <3>1. CASE j = n + 1
      <4>1. j - 1 = n /\ n \in 0..n
        BY <2>2, <3>1
      <4> QED
        BY <2>3, <3>1, <4>1
    <3>2. CASE j # n + 1
      <4>1. j \in 1..n /\ j \in 0..n /\ j - 1 \in 0..n
        BY <2>2, <2>4, <3>2
      <4> QED
        BY <2>1, <2>3, <4>1
    <3> QED
      BY <3>1, <3>2
  <2> QED
    BY <2>2, <2>3, <2>4
<1>3. T = Nat
  <2>1. T \in SUBSET Nat
    OBVIOUS
  <2> HIDE DEF T
  <2> QED
    BY <1>1, <1>2, <2>1, AllNaturals
<1>4. Len(p) \in T
  BY <1>3, LenProperties
<1> QED
  BY <1>4 DEF Path

(* What Leads says of the cells on the way to a borrowed place.            *)
LeadsBy(g, b) ==
  /\ Path(g, heap, env[b.v], b.p)
  /\ \A j \in 1..Len(b.p) : g[j - 1].k = "ref" /\ RcOf(g[j - 1]) <= b.rcs[j]
  /\ b.p # <<>> => g[Len(b.p) - 1].o = b.o

LEMMA LeadsPath ==
  ASSUME NEW b, b.p \in Seq(Int), Leads(b)
  PROVE  \E g : LeadsBy(g, b)
<1> DEFINE A(g) == g = [j \in 0..Len(b.p) |->
                          IF j = 0 THEN env[b.v]
                          ELSE LET e  == Elems(g[j - 1])
                                   at == StepIn(g[j - 1], b.p[j])
                               IN  IF at \in DOMAIN e THEN e[at] ELSE Null]
           w == CHOOSE g : A(g)
<1>1. /\ \A j \in 1..Len(b.p) : w[j - 1].k = "ref" /\ RcOf(w[j - 1]) <= b.rcs[j]
      /\ b.p # <<>> => w[Len(b.p) - 1].o = b.o
  BY DEF Leads
<1>2. PICK g : Path(g, heap, env[b.v], b.p)
  BY PathExists
<1>3. \A c, x : LET e == Elems(c)
                    at == StepIn(c, x)
                IN  (IF at \in DOMAIN e THEN e[at] ELSE Null) = Onward(heap, c, x)
  <2>1. \A x : ~(x \in DOMAIN <<>>)
    OBVIOUS
  <2> QED
    BY <2>1 DEF Elems, StepIn, IsTable, Onward, AtStep
<1> DEFINE B(f) == f = [j \in 0..Len(b.p) |->
                          IF j = 0 THEN env[b.v] ELSE Onward(heap, f[j - 1], b.p[j])]
<1>4. \A f : A(f) <=> B(f)
  BY <1>3
<1>5. B(g)
  <2>1. Len(b.p) \in Nat
    BY LenProperties
  <2>2. \A j \in 0..Len(b.p) : g[j] = IF j = 0 THEN env[b.v] ELSE Onward(heap, g[j - 1], b.p[j])
    <3> TAKE j \in 0..Len(b.p)
    <3>1. j = 0 \/ j \in 1..Len(b.p)
      BY <2>1
    <3>2. 1..Len(b.p) \subseteq Nat \ {0}
      OBVIOUS
    <3> QED
      BY <1>2, <3>1, <3>2 DEF Path
  <2> QED
    BY <1>2, <2>2 DEF Path
<1>6. B(w)
  <2> HIDE DEF A, B
  <2>1. A(w)
    BY <1>4, <1>5
  <2> QED
    BY <1>4, <2>1
<1>7. Path(w, heap, env[b.v], b.p)
  <2>1. Len(b.p) \in Nat
    BY LenProperties
  <2> HIDE DEF w, A
  <2>2. w = [j \in 0..Len(b.p) |-> IF j = 0 THEN env[b.v] ELSE Onward(heap, w[j - 1], b.p[j])]
    BY <1>6
  <2> HIDE DEF B
  <2>3. 0 \in 0..Len(b.p) /\ \A j \in 1..Len(b.p) : j \in 0..Len(b.p) /\ j # 0
    BY <2>1
  <2> QED
    BY <2>2, <2>3 DEF Path
<1> HIDE DEF w
<1> QED
  BY <1>1, <1>7 DEF LeadsBy

-----------------------------------------------------------------------------
(* What a borrow on the stack must fit.                                    *)

(* c is the cell before the last step of b.                                *)
Fits(h, b, c) ==
  c.k = "ref" => /\ AtStep(h, c, b.p[Len(b.p)]) = b.i
                 /\ IF h[c.o].tab THEN Len(h[c.o].e) >= b.len ELSE Len(h[c.o].e) = b.len

BorrowFits(e, h, b) ==
  /\ b.p = <<>> <=> b.o = NoObj
  /\ \A j \in DOMAIN b.rcs : b.rcs[j] = 1
  /\ b.p # <<>> => \A g : Path(g, h, e[b.v], b.p) => Fits(h, b, g[Len(b.p) - 1])

(* Object y has what x had, and perhaps more keys.                         *)
Extends(x, y) ==
  /\ y.tab = x.tab
  /\ Len(y.e) >= Len(x.e) /\ (~x.tab => Len(y.e) = Len(x.e))
  /\ \A j \in DOMAIN x.keys : j \in DOMAIN y.keys /\ y.keys[j] = x.keys[j]

(* The pairs of M are objects of the heap before a step and what is in     *)
(* their place after it.                                                   *)
Starts(M, c, d) == d.k = "ref" => c.k = "ref" /\ <<c.o, d.o>> \in M

Carries(M, h, g) ==
  /\ M \subseteq Obj \X Obj
  /\ \A o, q \in Obj : <<o, q>> \in M =>
       /\ Extends(h[o], g[q])
       /\ \A j \in DOMAIN g[q].e : g[q].e[j].k = "ref" =>
            j \in DOMAIN h[o].e /\ Starts(M, h[o].e[j], g[q].e[j])

LEMMA EntryFound ==
  ASSUME NEW keys \in Seq(Int), NEW n,
         \A i, j \in DOMAIN keys : keys[i] = keys[j] => i = j
  PROVE  /\ Entry(keys, n) # 0 => Entry(keys, n) \in DOMAIN keys /\ keys[Entry(keys, n)] = n
         /\ \A j \in DOMAIN keys : keys[j] = n => Entry(keys, n) = j
<1>1. CASE \E j \in DOMAIN keys : keys[j] = n
  <2>1. PICK j \in DOMAIN keys : keys[j] = n
    BY <1>1
  <2> DEFINE at == CHOOSE i \in DOMAIN keys : keys[i] = n
  <2>2. at \in DOMAIN keys /\ keys[at] = n
    BY <2>1
  <2>3. Entry(keys, n) = at
    BY <1>1 DEF Entry
  <2> HIDE DEF at
  <2> QED
    BY <2>2, <2>3
<1>2. CASE ~ \E j \in DOMAIN keys : keys[j] = n
  BY <1>2 DEF Entry
<1> QED
  BY <1>1, <1>2

(* A step leads in an object where it leads in what extends it.            *)
SameStep(h, c, g, d, x) ==
  /\ AtStep(g, d, x) \in DOMAIN h[c.o].e => AtStep(h, c, x) = AtStep(g, d, x)
  /\ AtStep(h, c, x) \in 1..Len(h[c.o].e) => AtStep(h, c, x) = AtStep(g, d, x)

LEMMA StepKept ==
  ASSUME NEW h, HeapOK(h), NEW g, HeapOK(g), NEW c, NEW d, c.o \in Obj, d.o \in Obj,
         Extends(h[c.o], g[d.o]), NEW x \in Int
  PROVE  SameStep(h, c, g, d, x)
<1> USE DEF SameStep
<1> DEFINE a == h[c.o]
           b == g[d.o]
<1>1. /\ b.tab = a.tab /\ \A j \in DOMAIN a.keys : j \in DOMAIN b.keys /\ b.keys[j] = a.keys[j]
      /\ a.keys \in Seq(Int) /\ b.keys \in Seq(Int) /\ a.e \in Seq(ValueCell) /\ Keyed(a) /\ Keyed(b)
  BY DEF Extends, HeapOK
<1>2. CASE ~a.tab
  BY <1>1, <1>2 DEF AtStep
<1>3. CASE a.tab
  <2>1. AtStep(h, c, x) = Entry(a.keys, x) /\ AtStep(g, d, x) = Entry(b.keys, x)
    BY <1>1, <1>3 DEF AtStep
  <2> HIDE DEF a, b
  <2>2. /\ \A i, j \in DOMAIN a.keys : a.keys[i] = a.keys[j] => i = j
        /\ \A i, j \in DOMAIN b.keys : b.keys[i] = b.keys[j] => i = j
        /\ Len(a.keys) = Len(a.e)
    BY <1>1, <1>3 DEF Keyed
  <2>3. DOMAIN a.e = 1..Len(a.e) /\ DOMAIN a.keys = 1..Len(a.e) /\ 0 \notin DOMAIN a.e
    BY <1>1, <2>2, SeqFinite
  <2> DEFINE A == a.keys
             B == b.keys
  <2>4. /\ A \in Seq(Int) /\ \A i, j \in DOMAIN A : A[i] = A[j] => i = j
        /\ B \in Seq(Int) /\ \A i, j \in DOMAIN B : B[i] = B[j] => i = j
        /\ \A j \in DOMAIN A : j \in DOMAIN B /\ B[j] = A[j]
    BY <1>1, <2>2
  <2>5. 0 \notin DOMAIN B /\ DOMAIN A = DOMAIN a.e
    BY <2>3, <2>4, SeqFinite
  <2> HIDE DEF A, B
  <2>6. /\ Entry(A, x) # 0 => Entry(A, x) \in DOMAIN A /\ A[Entry(A, x)] = x
        /\ \A j \in DOMAIN A : A[j] = x => Entry(A, x) = j
    BY <2>4, EntryFound
  <2>7. /\ Entry(B, x) # 0 => Entry(B, x) \in DOMAIN B /\ B[Entry(B, x)] = x
        /\ \A j \in DOMAIN B : B[j] = x => Entry(B, x) = j
    BY <2>4, EntryFound
  <2>8. Entry(B, x) \in DOMAIN A => Entry(A, x) = Entry(B, x)
    BY <2>3, <2>4, <2>5, <2>6, <2>7
  <2>9. Entry(A, x) \in DOMAIN A => Entry(A, x) = Entry(B, x)
    BY <2>3, <2>4, <2>5, <2>6, <2>7
  <2> QED
    BY <2>1, <2>3, <2>5, <2>8, <2>9 DEF A, B, a
<1> QED
  BY <1>2, <1>3

LEMMA PathKept ==
  ASSUME NEW h, HeapOK(h), NEW g, HeapOK(g), NEW M, Carries(M, h, g),
         NEW c, NEW d, Starts(M, c, d), NEW p \in Seq(Int),
         NEW v, Path(v, h, c, p), NEW w, Path(w, g, d, p)
  PROVE  \A j \in 0..Len(p) : Starts(M, v[j], w[j])
<1> DEFINE T == {n \in Nat : n <= Len(p) => Starts(M, v[n], w[n])}
<1>0. Len(p) \in Nat /\ \A j \in 1..Len(p) : p[j] \in Int
  BY LenProperties, ElementOfSeq
<1>1. 0 \in T
  BY DEF Path
<1>2. ASSUME NEW n \in T PROVE n + 1 \in T
  <2> SUFFICES ASSUME n + 1 <= Len(p), w[n + 1].k = "ref"
               PROVE  v[n + 1].k = "ref" /\ <<v[n + 1].o, w[n + 1].o>> \in M
    BY DEF Starts
  <2>1. n \in Nat /\ n + 1 \in 1..Len(p) /\ n <= Len(p) /\ (n + 1) - 1 = n
    BY <1>0
  <2> DEFINE x == p[n + 1]
             a == v[n]
             b == w[n]
             at == AtStep(g, b, x)
  <2>2. x \in Int /\ Starts(M, a, b) /\ v[n + 1] = Onward(h, a, x) /\ w[n + 1] = Onward(g, b, x)
    BY <1>0, <1>2, <2>1 DEF Path
  <2> HIDE DEF x, a, b, T
  <2>3. b.k = "ref" /\ at \in DOMAIN g[b.o].e /\ w[n + 1] = g[b.o].e[at]
    BY <2>2 DEF Onward, Null
  <2>4. a.k = "ref" /\ <<a.o, b.o>> \in M
    BY <2>2, <2>3 DEF Starts
  <2>5. /\ a.o \in Obj /\ b.o \in Obj /\ Extends(h[a.o], g[b.o])
        /\ at \in DOMAIN h[a.o].e /\ Starts(M, h[a.o].e[at], g[b.o].e[at])
    BY <2>3, <2>4 DEF Carries
  <2>6. AtStep(h, a, x) = at
    <3>1. SameStep(h, a, g, b, x)
      BY <2>2, <2>5, StepKept
    <3> QED
      BY <2>5, <3>1 DEF SameStep
  <2>7. v[n + 1] = h[a.o].e[at]
    BY <2>2, <2>4, <2>5, <2>6 DEF Onward
  <2> QED
    BY <2>3, <2>5, <2>7 DEF Starts
<1>3. T = Nat
  <2>1. T \in SUBSET Nat
    OBVIOUS
  <2> HIDE DEF T
  <2> QED
    BY <1>1, <1>2, <2>1, AllNaturals
<1> QED
  BY <1>0, <1>3

(* A borrow keeps fitting where its way is carried over.                   *)
LEMMA BorrowKept ==
  ASSUME NEW h, HeapOK(h), NEW g, HeapOK(g), NEW M, Carries(M, h, g), NEW b \in BorrowCell,
         NEW e, NEW f, Starts(M, e[b.v], f[b.v]), BorrowFits(e, h, b)
  PROVE  BorrowFits(f, g, b)
<1> SUFFICES ASSUME b.p # <<>>, NEW w, Path(w, g, f[b.v], b.p), w[Len(b.p) - 1].k = "ref"
             PROVE  LET d == w[Len(b.p) - 1] IN
                    /\ AtStep(g, d, b.p[Len(b.p)]) = b.i
                    /\ IF g[d.o].tab THEN Len(g[d.o].e) >= b.len ELSE Len(g[d.o].e) = b.len
  BY DEF BorrowFits, Fits
<1>1. b.p \in Seq(Int) /\ b.o \in Obj /\ b.i \in 1..b.len /\ b.len \in Nat
  BY DEF BorrowFits, BorrowCell
<1>2. PICK v : Path(v, h, e[b.v], b.p)
  BY <1>1, PathExists
<1> DEFINE L == Len(b.p)
           x == b.p[L]
           c == v[L - 1]
           d == w[L - 1]
<1>3. L \in Nat /\ L >= 1 /\ L - 1 \in 0..L /\ x \in Int
  <2>1. L \in Nat /\ L # 0
    BY <1>1, LenProperties, EmptySeq
  <2>2. L \in 1..L
    BY <2>1
  <2> QED
    BY <1>1, <2>1, <2>2, ElementOfSeq
<1>4. Starts(M, c, d)
  <2> DEFINE p == b.p
             C == e[b.v]
             D == f[b.v]
  <2>1. p \in Seq(Int) /\ Path(v, h, C, p) /\ Path(w, g, D, p) /\ Starts(M, C, D) /\ L = Len(p)
    BY <1>1, <1>2
  <2> HIDE DEF p, C, D
  <2>2. \A j \in 0..Len(p) : Starts(M, v[j], w[j])
    BY <2>1, PathKept
  <2> HIDE DEF L
  <2> QED
    BY <1>3, <2>1, <2>2
<1>5. Fits(h, b, c) /\ x = b.p[Len(b.p)] /\ d.k = "ref"
  BY <1>2 DEF BorrowFits
<1> HIDE DEF L, x, c, d
<1>6. c.k = "ref" /\ c.o \in Obj /\ d.o \in Obj /\ Extends(h[c.o], g[d.o])
  BY <1>4, <1>5 DEF Starts, Carries
<1>7. /\ AtStep(h, c, x) = b.i
      /\ IF h[c.o].tab THEN Len(h[c.o].e) >= b.len ELSE Len(h[c.o].e) = b.len
  BY <1>5, <1>6 DEF Fits
<1>8. Len(h[c.o].e) \in Nat /\ Len(g[d.o].e) \in Nat
  BY <1>6, LenProperties DEF HeapOK, Shaped
<1>9. b.i \in 1..Len(h[c.o].e)
  BY <1>1, <1>7, <1>8
<1>10. AtStep(g, d, x) = b.i
  <2>1. SameStep(h, c, g, d, x)
    BY <1>3, <1>6, StepKept
  <2> QED
    BY <1>7, <1>9, <2>1 DEF SameStep
<1>11. IF g[d.o].tab THEN Len(g[d.o].e) >= b.len ELSE Len(g[d.o].e) = b.len
  BY <1>1, <1>6, <1>7, <1>8 DEF Extends
<1> QED
  BY <1>5, <1>10, <1>11 DEF d, L

-----------------------------------------------------------------------------
(* Who refers to an object.                                                *)

InEnv(o)   == \E v \in Var : RefersTo(env[v], o)
OnStack(o) == \E j \in DOMAIN stack : RefersTo(stack[j], o)
InHeap(o)  == \E p \in Obj : Refers(heap, p, o)

(* Every reference is to what is alive.                                    *)
ReferredAlive ==
  \A o : InEnv(o) \/ OnStack(o) \/ InHeap(o) => o \in Obj /\ heap[o].live

LEMMA AliveReferred == IInv => ReferredAlive
<1> SUFFICES ASSUME IInv PROVE ReferredAlive
  OBVIOUS
<1>1. ASSUME NEW p \in Obj, NEW j \in DOMAIN heap[p].e PROVE Alive(heap[p].e[j])
  BY AllAlive DEF Existing
<1> QED
  BY <1>1, AllAlive DEF ReferredAlive, InEnv, OnStack, InHeap, Refers, Alive

LEMMA AliveReferredNext == IInv' => ReferredAlive'
BY AliveReferred, PTL

(* An object with one reference is referred to from one place.             *)
LEMMA OneReference ==
  ASSUME IInv, NEW o \in Obj, heap[o].rc = 1
  PROVE  /\ ~(InEnv(o) /\ OnStack(o)) /\ ~(InEnv(o) /\ InHeap(o)) /\ ~(OnStack(o) /\ InHeap(o))
         /\ \A v, w \in Var : RefersTo(env[v], o) /\ RefersTo(env[w], o) => v = w
         /\ \A p, q \in Obj : \A i \in DOMAIN heap[p].e : \A j \in DOMAIN heap[q].e :
              RefersTo(heap[p].e[i], o) /\ RefersTo(heap[q].e[j], o) => p = q /\ i = j
         /\ \A i, j \in DOMAIN stack : RefersTo(stack[i], o) /\ RefersTo(stack[j], o) => i = j
<1>1. /\ References(env, o) + References(stack, o) + References(drop, o) + ElementReferences(heap, o) = 1
      /\ References(env, o) \in Nat /\ References(stack, o) \in Nat
      /\ References(drop, o) \in Nat /\ ElementReferences(heap, o) \in Nat
  <2>1. AllReferences(o) = 1
    BY DEF IInv
  <2> QED
    BY <2>1, Finite DEF AllReferences
<1>2. InEnv(o) => References(env, o) >= 1
  BY Finite, ReferencesPositive DEF InEnv
<1>3. OnStack(o) => References(stack, o) >= 1
  <2>1. IsFiniteSet(DOMAIN stack)
    BY SeqFinite DEF IInv
  <2> QED
    BY <2>1, ReferencesPositive DEF OnStack
<1>4. \A p \in Obj : \A j \in DOMAIN heap[p].e :
        RefersTo(heap[p].e[j], o) => <<p, j>> \in ElementPlaces(heap, o)
  <2> SUFFICES ASSUME NEW p \in Obj, NEW j \in DOMAIN heap[p].e, RefersTo(heap[p].e[j], o)
               PROVE  <<p, j>> \in ElementPlaces(heap, o)
    OBVIOUS
  <2>1. heap[p].e \in Seq(ValueCell) /\ Len(heap[p].e) <= MaxLen
    BY DEF IInv, HeapOK, Shaped
  <2>2. j \in 1..MaxLen
    BY <2>1, SeqFinite, HeapAssumption
  <2> QED
    BY <2>2 DEF ElementPlaces
<1>5. IsFiniteSet(ElementPlaces(heap, o)) /\ ElementReferences(heap, o) = Cardinality(ElementPlaces(heap, o))
  BY ElementPlacesFinite DEF ElementReferences, ElementPlaces
<1>6. InHeap(o) => ElementReferences(heap, o) >= 1
  <2> SUFFICES ASSUME InHeap(o) PROVE ElementReferences(heap, o) >= 1
    OBVIOUS
  <2>1. ElementPlaces(heap, o) # {}
    BY <1>4 DEF InHeap, Refers
  <2>2. Cardinality(ElementPlaces(heap, o)) # 0
    BY <1>5, <2>1, FS_EmptySet
  <2> QED
    BY <1>1, <1>5, <2>2
<1>7. ~(InEnv(o) /\ OnStack(o)) /\ ~(InEnv(o) /\ InHeap(o)) /\ ~(OnStack(o) /\ InHeap(o))
  BY <1>1, <1>2, <1>3, <1>6
<1>8. ASSUME NEW v \in Var, NEW w \in Var, RefersTo(env[v], o), RefersTo(env[w], o) PROVE v = w
  <2>1. References(env, o) = 1
    BY <1>1, <1>2, <1>8 DEF InEnv
  <2>2. IsFiniteSet(Places(env, o)) /\ Cardinality(Places(env, o)) = 1
    BY <2>1, Finite, PlacesFinite
  <2>3. PICK x : Places(env, o) = {x}
    BY <2>2, FS_Singleton
  <2>4. v \in Places(env, o) /\ w \in Places(env, o)
    BY <1>8, Finite DEF Places
  <2> QED
    BY <2>3, <2>4
<1>9. ASSUME NEW p \in Obj, NEW q \in Obj, NEW i \in DOMAIN heap[p].e, NEW j \in DOMAIN heap[q].e,
             RefersTo(heap[p].e[i], o), RefersTo(heap[q].e[j], o)
      PROVE  p = q /\ i = j
  <2>1. InHeap(o)
    BY <1>9 DEF InHeap, Refers
  <2>2. Cardinality(ElementPlaces(heap, o)) = 1
    BY <1>1, <1>5, <1>6, <2>1
  <2>3. PICK x : ElementPlaces(heap, o) = {x}
    BY <1>5, <2>2, FS_Singleton
  <2>4. <<p, i>> = x /\ <<q, j>> = x
    BY <1>4, <1>9, <2>3
  <2> QED
    BY <2>4
<1>10. ASSUME NEW i \in DOMAIN stack, NEW j \in DOMAIN stack, RefersTo(stack[i], o), RefersTo(stack[j], o)
       PROVE  i = j
  <2>1. References(stack, o) = 1 /\ IsFiniteSet(DOMAIN stack)
    BY <1>1, <1>3, <1>10, SeqFinite DEF OnStack, IInv
  <2>2. IsFiniteSet(Places(stack, o)) /\ Cardinality(Places(stack, o)) = 1
    BY <2>1, PlacesFinite
  <2>3. PICK x : Places(stack, o) = {x}
    BY <2>2, FS_Singleton
  <2>4. i \in Places(stack, o) /\ j \in Places(stack, o)
    BY <1>10 DEF Places
  <2> QED
    BY <2>3, <2>4
<1> QED
  BY <1>7, <1>8, <1>9, <1>10

(* Only variable v leads to the objects of P, and only through P.          *)
OwnedBy(P, v) ==
  /\ \A o \in P, w \in Var : RefersTo(env[w], o) => w = v
  /\ \A o \in P : ~OnStack(o)
  /\ \A p \in Obj, o \in P : Refers(heap, p, o) => p \in P

(* A borrow that still leads where it did is good, and its variable owns   *)
(* the object its place is in, and what refers to that.                    *)
LEMMA WayOwned ==
  ASSUME IInv, NEW b \in BorrowCell, BorrowFits(env, heap, b), Leads(b),
         NEW K \in Nat, NEW r, Ranked(heap, r, K)
  PROVE  /\ ~Dangling(b)
         /\ \E P \in SUBSET Live :
              /\ OwnedBy(P, b.v)
              /\ b.o = NoObj => P = {}
              /\ b.o # NoObj => b.o \in P /\ \A x \in P : r[b.o] <= r[x]
<1>0. /\ b.p \in Seq(Int) /\ b.v \in Var /\ b.len \in Nat /\ Len(b.p) \in Nat
      /\ b.rcs \in Seq(Nat) /\ Len(b.rcs) = Len(b.p) + 1 /\ DOMAIN b.rcs = 1..(Len(b.p) + 1)
  BY SeqFinite DEF BorrowCell
<1>1. CASE b.p = <<>>
  <2>1. b.o = NoObj
    BY <1>1 DEF BorrowFits
  <2>2. OwnedBy({}, b.v)
    BY DEF OwnedBy
  <2> QED
    BY <2>1, <2>2 DEF Dangling
<1>2. CASE b.p # <<>>
  <2>1. b.o \in Obj /\ b.o # NoObj
    BY <1>2, HeapAssumption DEF BorrowFits, BorrowCell
  <2>2. PICK g : LeadsBy(g, b)
    BY <1>0, LeadsPath
  <2> DEFINE L == Len(b.p)
  <2>3. L \in Nat /\ L >= 1 /\ L - 1 \in 0..(L - 1)
    BY <1>0, <1>2, EmptySeq
  <2>4. \A j \in 1..L : g[j - 1].k = "ref" /\ RcOf(g[j - 1]) <= 1
    <3> TAKE j \in 1..L
    <3>1. j \in DOMAIN b.rcs
      BY <1>0
    <3>2. b.rcs[j] = 1
      BY <3>1 DEF BorrowFits
    <3> QED
      BY <2>2, <3>2 DEF LeadsBy
  <2>5. \A j \in 0..(L - 1) : g[j].k = "ref" /\ RcOf(g[j]) <= 1
    <3> TAKE j \in 0..(L - 1)
    <3>1. j + 1 \in 1..L /\ (j + 1) - 1 = j
      BY <2>3
    <3> QED
      BY <2>4, <3>1
  <2>6. g[0] = env[b.v] /\ \A j \in 1..L : g[j] = Onward(heap, g[j - 1], b.p[j])
    BY <2>2 DEF LeadsBy, Path
  <2> HIDE DEF L
  <2>7. ASSUME NEW j \in 0..(L - 1)
        PROVE  /\ j = 0 => RefersTo(env[b.v], g[j].o)
               /\ j # 0 => j - 1 \in 0..(L - 1) /\ Refers(heap, g[j - 1].o, g[j].o)
    <3>1. CASE j = 0
      BY <2>5, <2>6, <3>1 DEF RefersTo, Counts
    <3>2. CASE j # 0
      <4>1. j \in 1..L /\ j - 1 \in 0..(L - 1)
        BY <2>3, <2>7, <3>2
      <4>2. g[j] = Onward(heap, g[j - 1], b.p[j]) /\ g[j].k = "ref"
        BY <2>5, <2>6, <4>1
      <4> DEFINE at == AtStep(heap, g[j - 1], b.p[j])
                 q == g[j - 1].o
      <4>3. at \in DOMAIN heap[q].e /\ g[j] = heap[q].e[at]
        BY <4>2 DEF Onward, Null
      <4> HIDE DEF at, q
      <4>4. Refers(heap, q, g[j].o)
        BY <4>2, <4>3 DEF Refers, RefersTo, Counts
      <4> QED
        BY <3>2, <4>1, <4>4 DEF q
    <3> QED
      BY <3>1, <3>2
  <2>8. ASSUME NEW j \in 0..(L - 1) PROVE g[j].o \in Obj /\ heap[g[j].o].live /\ heap[g[j].o].rc = 1
    <3> DEFINE T == {n \in Nat : n <= L - 1 => g[n].o \in Obj /\ heap[g[n].o].live}
    <3>1. 0 \in T
      BY <1>0, <2>3, <2>7, AliveReferred DEF ReferredAlive, InEnv
    <3>2. ASSUME NEW n \in T PROVE n + 1 \in T
      <4> SUFFICES ASSUME n + 1 <= L - 1 PROVE g[n + 1].o \in Obj /\ heap[g[n + 1].o].live
        OBVIOUS
      <4>1. n + 1 \in 0..(L - 1) /\ n + 1 # 0 /\ (n + 1) - 1 = n /\ n <= L - 1
        BY <2>3
      <4>2. Refers(heap, g[n].o, g[n + 1].o) /\ g[n].o \in Obj
        BY <2>7, <3>2, <4>1
      <4> HIDE DEF T
      <4> QED
        BY <4>2, AliveReferred DEF ReferredAlive, InHeap
    <3>3. T = Nat
      <4>1. T \in SUBSET Nat
        OBVIOUS
      <4> HIDE DEF T
      <4> QED
        BY <3>1, <3>2, <4>1, AllNaturals
    <3>4. g[j].o \in Obj /\ heap[g[j].o].live
      BY <2>3, <3>3
    <3>5. heap[g[j].o].rc <= 1 /\ heap[g[j].o].rc > 0 /\ heap[g[j].o].rc \in Int
      <4>1. heap[g[j].o].rc <= 1
        BY <2>5 DEF RcOf
      <4> QED
        BY <3>4, <4>1, HeapAssumption DEF IInv, HeapOK
    <3> QED
      BY <3>4, <3>5
  <2>9. g[L - 1].o = b.o
    BY <1>2, <2>2 DEF LeadsBy, L
  <2> DEFINE P == {x \in Obj : r[b.o] <= r[x] /\ \E j \in 0..(L - 1) : x = g[j].o}
  <2>10. r[b.o] \in Int
    BY <2>1 DEF Ranked
  <2>11. b.o \in P
    BY <2>1, <2>3, <2>9, <2>10
  <2>12. ASSUME NEW o \in P, NEW w \in Var, RefersTo(env[w], o) PROVE w = b.v
    <3>1. PICK j \in 0..(L - 1) : o = g[j].o
      OBVIOUS
    <3> HIDE DEF P
    <3>2. o \in Obj /\ heap[o].rc = 1 /\ InEnv(o)
      BY <2>8, <2>12, <3>1 DEF InEnv
    <3>3. j = 0
      <4>1. ~InHeap(o)
        BY <3>2, OneReference
      <4>2. j # 0 => InHeap(o)
        BY <2>7, <2>8, <3>1 DEF InHeap
      <4> QED
        BY <4>1, <4>2
    <3>4. RefersTo(env[b.v], o)
      BY <2>7, <3>1, <3>3
    <3> QED
      BY <1>0, <2>12, <3>2, <3>4, OneReference
  <2>13. ASSUME NEW o \in P PROVE ~OnStack(o)
    <3>1. PICK j \in 0..(L - 1) : o = g[j].o
      OBVIOUS
    <3> HIDE DEF P
    <3>2. o \in Obj /\ heap[o].rc = 1
      BY <2>8, <3>1
    <3>3. InEnv(o) \/ InHeap(o)
      BY <1>0, <2>7, <2>8, <3>1 DEF InEnv, InHeap
    <3> QED
      BY <3>2, <3>3, OneReference
  <2>14. ASSUME NEW p \in Obj, NEW o \in P, Refers(heap, p, o) PROVE p \in P
    <3>1. PICK j \in 0..(L - 1) : o = g[j].o
      OBVIOUS
    <3>2. o \in Obj /\ heap[o].rc = 1 /\ InHeap(o) /\ r[b.o] <= r[o]
      BY <2>8, <2>14, <3>1 DEF InHeap
    <3> HIDE DEF P
    <3>3. j # 0
      <4>1. ~InEnv(o)
        BY <3>2, OneReference
      <4> QED
        BY <1>0, <2>7, <3>1, <4>1 DEF InEnv
    <3>4. j - 1 \in 0..(L - 1) /\ g[j - 1].o \in Obj /\ Refers(heap, g[j - 1].o, o)
      BY <2>7, <2>8, <3>1, <3>3
    <3>5. p = g[j - 1].o
      <4>1. PICK i \in DOMAIN heap[p].e : RefersTo(heap[p].e[i], o)
        BY <2>14 DEF Refers
      <4>2. PICK k \in DOMAIN heap[g[j - 1].o].e : RefersTo(heap[g[j - 1].o].e[k], o)
        BY <3>4 DEF Refers
      <4> QED
        BY <3>2, <3>4, <4>1, <4>2, OneReference
    <3>6. r[b.o] <= r[p]
      <4>1. r[o] < r[p] /\ r[o] \in Int /\ r[p] \in Int
        BY <2>14, <3>2 DEF Ranked
      <4> QED
        BY <2>10, <3>2, <4>1
    <3> QED
      BY <3>4, <3>5, <3>6 DEF P
  <2>15. OwnedBy(P, b.v) /\ \A x \in P : r[b.o] <= r[x]
    <3>1. \A x \in P : r[b.o] <= r[x]
      OBVIOUS
    <3> HIDE DEF P
    <3> QED
      BY <2>12, <2>13, <2>14, <3>1 DEF OwnedBy
  <2>16. ~Dangling(b)
    <3> DEFINE c == g[L - 1]
    <3>1. Fits(heap, b, c) /\ c.k = "ref" /\ c.o = b.o /\ heap[b.o].live
      BY <1>2, <2>2, <2>3, <2>5, <2>8, <2>9 DEF BorrowFits, LeadsBy, L
    <3>2. IF heap[b.o].tab THEN Len(heap[b.o].e) >= b.len ELSE Len(heap[b.o].e) = b.len
      <4> HIDE DEF c
      <4> QED
        BY <3>1 DEF Fits
    <3>3. Len(heap[b.o].e) \in Nat
      BY <2>1, LenProperties DEF IInv, HeapOK, Shaped
    <3> QED
      BY <1>0, <3>1, <3>2, <3>3 DEF Dangling
  <2> HIDE DEF P
  <2>17. P \in SUBSET Live
    BY <2>8 DEF P, Live
  <2> QED
    BY <2>1, <2>11, <2>15, <2>16, <2>17
<1> QED
  BY <1>1, <1>2

-----------------------------------------------------------------------------
(* The inductive invariant for careful scripts.                            *)

CellFits(e, h, c) ==
  /\ c.k = "borrow" => BorrowFits(e, h, c)
  /\ c.k = "iter" => Len(h[c.o].e) = Len(c.order)

StackFits == \A j \in DOMAIN stack : CellFits(env, heap, stack[j])

CInv == IInv /\ Ordered(heap) /\ StackFits /\ status # "dangling"

(* What of a heap a step carries over: what is alive before and after it,  *)
(* except the objects of Q, and what becomes of cell c when it is now d.   *)
Moved(Q, c, d) ==
  {m \in Obj \X Obj :
     /\ heap[m[1]].live /\ heap'[m[2]].live
     /\ \/ m[1] = m[2] /\ m[1] \notin Q
        \/ c.k = "ref" /\ d.k = "ref" /\ m[1] = c.o /\ m[2] = d.o}

(* Object y is what x was, with d where c was, or less.                    *)
Onto(x, y, c, d) ==
  /\ Extends(x, y)
  /\ \A j \in DOMAIN y.e : y.e[j].k = "ref" =>
       j \in DOMAIN x.e /\ (y.e[j] = x.e[j] \/ (x.e[j] = c /\ y.e[j] = d))

Closed(Q) == \A p \in Obj, o \in Q : Refers(heap, p, o) => p \in Q

LEMMA MovedCarries ==
  ASSUME IInv, IInv', NEW Q \in SUBSET Obj, Closed(Q), NEW c \in ValueCell, NEW d \in ValueCell,
         \A o \in Obj \ Q : heap[o].live /\ heap'[o].live => Onto(heap[o], heap'[o], c, d),
         d.k = "ref" => c.k = "ref" /\ c.o \notin Q /\ Onto(heap[c.o], heap'[d.o], c, d)
  PROVE  Carries(Moved(Q, c, d), heap, heap')
<1> DEFINE M == Moved(Q, c, d)
<1>0. M \subseteq Obj \X Obj
  BY DEF Moved
<1>1. ReferredAlive /\ ReferredAlive'
  BY AliveReferred, AliveReferredNext
<1> SUFFICES ASSUME NEW o \in Obj, NEW q \in Obj, <<o, q>> \in M
             PROVE  /\ Extends(heap[o], heap'[q])
                    /\ \A j \in DOMAIN heap'[q].e : heap'[q].e[j].k = "ref" =>
                         j \in DOMAIN heap[o].e /\ Starts(M, heap[o].e[j], heap'[q].e[j])
  BY <1>0 DEF Carries
<1>2. /\ heap[o].live /\ heap'[q].live
      /\ \/ o = q /\ o \notin Q
         \/ c.k = "ref" /\ d.k = "ref" /\ o = c.o /\ q = d.o
  BY DEF Moved
<1>3. o \notin Q /\ Onto(heap[o], heap'[q], c, d)
  BY <1>2
<1>4. ASSUME NEW j \in DOMAIN heap'[q].e, heap'[q].e[j].k = "ref"
      PROVE  j \in DOMAIN heap[o].e /\ Starts(M, heap[o].e[j], heap'[q].e[j])
  <2> DEFINE x == heap[o].e[j]
             y == heap'[q].e[j]
  <2>1. j \in DOMAIN heap[o].e /\ (y = x \/ (x = c /\ y = d))
    BY <1>3, <1>4 DEF Onto
  <2>2. x.k = "ref" => Refers(heap, o, x.o) /\ x.o \in Obj /\ heap[x.o].live
    <3> SUFFICES ASSUME x.k = "ref" PROVE Refers(heap, o, x.o) /\ x.o \in Obj /\ heap[x.o].live
      OBVIOUS
    <3>1. Refers(heap, o, x.o)
      BY <2>1 DEF Refers, RefersTo, Counts
    <3> QED
      BY <1>1, <3>1 DEF ReferredAlive, InHeap
  <2>3. y.o \in Obj /\ heap'[y.o].live
    <3>1. Refers(heap', q, y.o)
      BY <1>4 DEF Refers, RefersTo, Counts
    <3> QED
      BY <1>1, <3>1 DEF ReferredAlive, InHeap
  <2>4. CASE y = x
    <3>1. x.o \notin Q
      BY <1>3, <1>4, <2>2, <2>4 DEF Closed
    <3>2. <<x.o, y.o>> \in M
      BY <1>4, <2>2, <2>3, <2>4, <3>1 DEF Moved
    <3> QED
      BY <1>4, <2>1, <2>4, <3>2 DEF Starts
  <2>5. CASE x = c /\ y = d
    <3>1. d.k = "ref"
      BY <1>4, <2>5
    <3>2. x.k = "ref" /\ c.k = "ref"
      BY <2>5, <3>1
    <3>3. <<x.o, y.o>> \in M
      BY <2>2, <2>3, <2>5, <3>1, <3>2 DEF Moved
    <3> QED
      BY <2>1, <3>2, <3>3 DEF Starts
  <2> QED
    BY <2>1, <2>4, <2>5
<1> QED
  BY <1>3, <1>4 DEF Onto

IterOn(o) == \E j \in DOMAIN stack : stack[j].k = "iter" /\ stack[j].o = o

LengthsKept ==
  \A o \in Obj : heap[o].live /\ heap'[o].live /\ IterOn(o) => Len(heap'[o].e) = Len(heap[o].e)

VarKept(Q, c, d, v) ==
  \/ env'[v] = env[v] /\ \A o \in Q : ~RefersTo(env[v], o)
  \/ env[v] = c /\ env'[v] = d
  \/ env'[v].k # "ref"

(* The operands below the first n stay; x may be a new one.                *)
Leaves(n, x) == stack' = Below(n) \/ stack' = Append(Below(n), x)

LEMMA Left ==
  ASSUME IInv, NEW n \in 0..Len(stack), NEW x \in OperandCell, Leaves(n, x), NEW k \in DOMAIN stack'
  PROVE  stack'[k] = x \/ \E j \in 1..(Len(stack) - n) : stack'[k] = stack[j]
<1>1. stack \in Seq(OperandCell) /\ Len(stack) \in Nat
  BY LenProperties DEF IInv
<1>2. Len(stack) - n \in 0..Len(stack)
  BY <1>1
<1> DEFINE s == Below(n)
<1>3. s \in Seq(OperandCell) /\ Len(s) = Len(stack) - n
  BY Operands
<1>4. \A j \in 1..(Len(stack) - n) : s[j] = stack[j]
  BY <1>1, <1>2 DEF Below
<1> HIDE DEF s
<1>5. CASE stack' = s
  <2>1. k \in 1..(Len(stack) - n)
    BY <1>3, <1>5, SeqFinite
  <2> QED
    BY <1>4, <1>5, <2>1
<1>6. CASE stack' = Append(s, x)
  <2>1. k \in 1..(Len(s) + 1)
    BY <1>3, <1>6, AppendProperties, SeqFinite
  <2>2. CASE k = Len(s) + 1
    BY <1>3, <1>6, <2>2, AppendProperties
  <2>3. CASE k # Len(s) + 1
    <3>1. k \in 1..Len(s)
      BY <1>2, <1>3, <2>1, <2>3
    <3>2. stack'[k] = s[k]
      BY <1>3, <1>6, <3>1, AppendProperties
    <3> QED
      BY <1>3, <1>4, <3>1, <3>2
  <2> QED
    BY <2>2, <2>3
<1> QED
  BY <1>5, <1>6 DEF Leaves, s

LEMMA StackKept ==
  ASSUME CInv, IInv', NEW Q, NEW c, NEW d, Carries(Moved(Q, c, d), heap, heap'), LengthsKept,
         d.k = "ref" => c.k = "ref",
         NEW n \in 0..Len(stack), NEW x \in OperandCell, Leaves(n, x),
         x.k \in {"num", "null", "ref"} \/ CellFits(env', heap', x),
         \A j \in 1..(Len(stack) - n) :
           stack[j].k = "borrow" => stack[j].o = NoObj \/ VarKept(Q, c, d, stack[j].v)
  PROVE  StackFits'
<1> DEFINE M == Moved(Q, c, d)
<1>1. IInv /\ StackFits /\ HeapOK(heap) /\ HeapOK(heap')
  BY DEF CInv, IInv
<1> SUFFICES ASSUME NEW k \in DOMAIN stack' PROVE CellFits(env', heap', stack'[k])
  BY DEF StackFits
<1>2. CASE stack'[k] = x
  BY <1>2 DEF CellFits
<1>3. CASE stack'[k] # x
  <2>1. PICK j \in 1..(Len(stack) - n) : stack'[k] = stack[j]
    BY <1>1, <1>3, Left
  <2>2. j \in DOMAIN stack
    <3>1. DOMAIN stack = 1..Len(stack) /\ Len(stack) \in Nat
      BY <1>1, SeqFinite DEF IInv
    <3> QED
      BY <3>1
  <2>8. PICK b : b = stack[j]
    OBVIOUS
  <2>3. /\ b \in OperandCell /\ CellFits(env, heap, b)
        /\ b.k = "borrow" => b.o = NoObj \/ VarKept(Q, c, d, b.v)
    BY <1>1, <2>2, <2>8, AllAlive DEF StackFits
  <2>4. b.k = "iter" => IterOn(b.o) /\ OnStack(b.o) /\ OnStack(b.o)'
    BY <2>1, <2>2, <2>8 DEF IterOn, OnStack, RefersTo, Counts
  <2>5. ReferredAlive /\ ReferredAlive'
    BY <1>1, AliveReferred, AliveReferredNext
  <2>6. ASSUME b.k = "iter" PROVE Len(heap'[b.o].e) = Len(b.order)
    <3>1. b.o \in Obj /\ heap[b.o].live
      BY <2>4, <2>5, <2>6 DEF ReferredAlive
    <3>2. heap'[b.o].live
      BY <2>4, <2>5, <2>6 DEF ReferredAlive
    <3> QED
      BY <2>3, <2>4, <2>6, <3>1, <3>2 DEF LengthsKept, CellFits
  <2>7. ASSUME b.k = "borrow" PROVE BorrowFits(env', heap', b)
    <3>1. b \in BorrowCell /\ BorrowFits(env, heap, b) /\ b.v \in Var
      <4>1. b \in BorrowCell
        BY <2>3, <2>7, OperandCells
      <4> QED
        BY <2>3, <2>7, <4>1 DEF CellFits, BorrowCell
    <3>2. CASE b.o = NoObj
      BY <3>1, <3>2 DEF BorrowFits
    <3>3. CASE VarKept(Q, c, d, b.v)
      <4>1. Starts(M, env[b.v], env'[b.v])
        <5> SUFFICES ASSUME env'[b.v].k = "ref"
                     PROVE  env[b.v].k = "ref" /\ <<env[b.v].o, env'[b.v].o>> \in M
          BY DEF Starts
        <5>1. env'[b.v].o \in Obj /\ heap'[env'[b.v].o].live
          <6>1. PICK q : q = env'[b.v].o
            OBVIOUS
          <6>2. InEnv(q)'
            BY <3>1, <6>1 DEF InEnv, RefersTo, Counts
          <6> QED
            BY <2>5, <6>1, <6>2 DEF ReferredAlive
        <5>2. env[b.v].k = "ref" => env[b.v].o \in Obj /\ heap[env[b.v].o].live
          <6>1. env[b.v].k = "ref" => InEnv(env[b.v].o)
            BY <3>1 DEF InEnv, RefersTo, Counts
          <6> QED
            BY <2>5, <6>1 DEF ReferredAlive
        <5>3. CASE env'[b.v] = env[b.v] /\ \A o \in Q : ~RefersTo(env[b.v], o)
          BY <5>1, <5>2, <5>3 DEF Moved, RefersTo, Counts
        <5>4. CASE env[b.v] = c /\ env'[b.v] = d
          BY <5>1, <5>2, <5>4 DEF Moved
        <5> QED
          BY <3>3, <5>3, <5>4 DEF VarKept
      <4> HIDE DEF M
      <4>2. Carries(M, heap, heap')
        BY DEF M
      <4> QED
        BY <1>1, <3>1, <4>1, <4>2, BorrowKept
    <3> QED
      BY <2>3, <2>7, <3>2, <3>3
  <2> QED
    BY <2>1, <2>6, <2>7, <2>8 DEF CellFits
<1> QED
  BY <1>2, <1>3

-----------------------------------------------------------------------------
(* Steps that change no object that stays.                                 *)

Same(x, y) == y.tab = x.tab /\ y.keys = x.keys /\ y.e = x.e

LEMMA QuietStep ==
  ASSUME CInv, IInv', UNCHANGED status,
         \A o \in Obj : heap[o].live /\ heap'[o].live => Same(heap[o], heap'[o]),
         \A p, o \in Obj : ~heap[p].live /\ Refers(heap', p, o) => heap[o].live,
         NEW n \in 0..Len(stack), NEW x \in OperandCell, Leaves(n, x),
         x.k \in {"num", "null", "ref"} \/ CellFits(env', heap', x),
         \A j \in 1..(Len(stack) - n) :
           stack[j].k = "borrow" => stack[j].o = NoObj \/ env'[stack[j].v] = env[stack[j].v]
  PROVE  CInv'
<1>1. IInv /\ Ordered(heap) /\ HeapOK(heap) /\ HeapOK(heap') /\ status' # "dangling"
  BY DEF CInv, IInv
<1>2. ReferredAlive /\ ReferredAlive'
  BY <1>1, AliveReferred, AliveReferredNext
<1>3. Ordered(heap')
  <2>1. PICK K \in Nat : \E r : Ranked(heap, r, K)
    BY <1>1 DEF Ordered
  <2>2. PICK r : Ranked(heap, r, K)
    BY <2>1
  <2> DEFINE N == {p \in Obj : ~heap[p].live}
  <2>3. \A p, o \in Obj : Refers(heap, p, o) => o \notin N
    BY <1>2 DEF ReferredAlive, InHeap
  <2>4. ASSUME NEW p \in Obj, NEW o \in Obj, Refers(heap', p, o)
        PROVE  Refers(heap, p, o) \/ (p \in N /\ o \notin N)
    <3>1. heap'[p].live
      BY <1>1, <2>4 DEF HeapOK, Refers
    <3>2. heap[p].live => Refers(heap, p, o)
      BY <2>4, <3>1 DEF Same, Refers
    <3> QED
      BY <2>4, <3>2
  <2> DEFINE P == {}
  <2>5. Above(heap, heap', P, N)
    BY <2>3, <2>4 DEF Above
  <2> HIDE DEF N, P
  <2> QED
    BY <2>2, <2>5, OrderedStep
<1>4. ASSUME NEW o \in Obj, heap[o].live, heap'[o].live PROVE Onto(heap[o], heap'[o], Null, Null)
  <2>1. Len(heap[o].e) \in Nat
    BY <1>1, LenProperties DEF HeapOK, Shaped
  <2> QED
    BY <1>4, <2>1 DEF Onto, Extends, Same
<1>5. Carries(Moved({}, Null, Null), heap, heap')
  <2>1. Closed({}) /\ {} \in SUBSET Obj
    BY DEF Closed
  <2>2. Null \in ValueCell /\ ~(Null.k = "ref")
    BY ValueCells DEF Null
  <2> QED
    BY <1>1, <1>4, <2>1, <2>2, MovedCarries
<1>6. LengthsKept
  BY DEF LengthsKept, Same
<1>7. \A v : env'[v] = env[v] => VarKept({}, Null, Null, v)
  BY DEF VarKept
<1>8. StackFits'
  <2>1. ~(Null.k = "ref")
    BY DEF Null
  <2>2. \A j \in 1..(Len(stack) - n) :
          stack[j].k = "borrow" => stack[j].o = NoObj \/ VarKept({}, Null, Null, stack[j].v)
    BY <1>7
  <2> QED
    BY <1>5, <1>6, <2>1, <2>2, StackKept
<1> QED
  BY <1>1, <1>3, <1>8 DEF CInv

(* Nothing in the heap changes but counts.                                 *)
LEMMA CountsStep ==
  ASSUME CInv, IInv', UNCHANGED status,
         \A o \in Obj : Same(heap[o], heap'[o]),
         NEW n \in 0..Len(stack), NEW x \in OperandCell, Leaves(n, x),
         x.k \in {"num", "null", "ref"} \/ CellFits(env', heap', x),
         \A j \in 1..(Len(stack) - n) :
           stack[j].k = "borrow" => stack[j].o = NoObj \/ env'[stack[j].v] = env[stack[j].v]
  PROVE  CInv'
<1>1. \A p, o \in Obj : ~heap[p].live /\ Refers(heap', p, o) => heap[o].live
  BY DEF CInv, IInv, HeapOK, Refers, Same
<1> QED
  BY <1>1, QuietStep

LEMMA CopyingSame ==
  ASSUME IInv, NEW e
  PROVE  \A o \in Obj : Same(heap[o], Copying(e, heap)[o])
<1> TAKE o \in Obj
<1> DEFINE x == heap[o]
           m == (x.rc + References(e, o)) % RcMod
<1>1. x \in [live : BOOLEAN, rc : 0..(RcMod - 1), tab : BOOLEAN, keys : Seq(Int), e : Seq(ValueCell)]
  BY DEF IInv, HeapOK
<1>2. Copying(e, heap)[o] = [x EXCEPT !.rc = m]
  BY DEF Copying
<1> HIDE DEF x, m
<1>3. Same(x, [x EXCEPT !.rc = m])
  BY <1>1 DEF Same
<1> QED
  BY <1>2, <1>3 DEF x

(* The operands below none are all of them.                                *)
LEMMA BelowNone == IInv => Below(0) = stack
<1> SUFFICES ASSUME IInv PROVE Below(0) = stack
  OBVIOUS
<1>1. stack \in Seq(OperandCell) /\ Len(stack) \in Nat
  BY LenProperties DEF IInv
<1>2. Len(stack) - 0 = Len(stack) /\ SubSeq(stack, 1, Len(stack)) = stack
  BY <1>1, SubSeqFull
<1> QED
  BY <1>2 DEF Below

LEMMA CellKinds ==
  /\ Null \in OperandCell /\ Null.k \in {"num", "null", "ref"}
  /\ \A c \in ValueCell : c \in OperandCell /\ c.k \in {"num", "null", "ref"}
  /\ \A o : Ref(o).k = "ref" /\ Ref(o).o = o /\ (o \in Obj => Ref(o) \in ValueCell)
BY ValueCells DEF Ref

(* Where the instruction leaves the stack.                                 *)
LEMMA Leaving ==
  ASSUME IInv
  PROVE  /\ \A x : stack' = Append(stack, x) => Leaves(0, x)
         /\ \A x : stack' = stack => Leaves(0, x)
         /\ \A n, x : stack' = Below(n) \/ stack' = Append(Below(n), x) => Leaves(n, x)
         /\ \A n \in Nat : Has(n) => n \in 0..Len(stack)
         /\ 0 \in 0..Len(stack) /\ Len(stack) \in Nat
<1>1. stack \in Seq(OperandCell) /\ Len(stack) \in Nat
  BY LenProperties DEF IInv
<1> QED
  BY <1>1, BelowNone DEF Leaves, Has

Apart == \A o \in Obj : heap[o].rc = 1 => ~(OnStack(o) /\ InHeap(o))

LEMMA ApartNext == IInv' => Apart'
<1>1. IInv => Apart
  BY OneReference DEF Apart
<1> QED
  BY <1>1, PTL

(* A new object is pushed.                                                 *)
LEMMA NewStep ==
  ASSUME CInv, IInv', UNCHANGED <<env, status>>, NEW p \in Free, NEW n \in 0..Len(stack),
         stack' = Append(Below(n), Ref(p)), heap'[p].rc = 1,
         \A o \in Obj \ {p} : Same(heap[o], heap'[o]) /\ heap'[o].live = heap[o].live
  PROVE  CInv'
<1>1. IInv /\ p \in Obj /\ ~heap[p].live
  BY DEF CInv, Free
<1>2. Ref(p) \in OperandCell /\ Ref(p).k \in {"num", "null", "ref"} /\ Leaves(n, Ref(p))
  BY <1>1, CellKinds DEF Leaves
<1>3. OnStack(p)'
  <2>1. Below(n) \in Seq(OperandCell)
    BY <1>1, Operands
  <2>2. stack'[Len(Below(n)) + 1] = Ref(p) /\ Len(Below(n)) + 1 \in DOMAIN stack'
    BY <1>2, <2>1, AppendProperties, SeqFinite
  <2> QED
    BY <2>2, CellKinds DEF OnStack, RefersTo, Counts
<1>4. ~InHeap(p)'
  BY <1>1, <1>3, ApartNext DEF Apart
<1>5. ASSUME NEW q \in Obj, NEW o \in Obj, ~heap[q].live, Refers(heap', q, o) PROVE heap[o].live
  <2>1. heap[q].e = <<>> /\ DOMAIN <<>> = {}
    BY <1>1, <1>5 DEF IInv, HeapOK
  <2>2. heap'[q].e # heap[q].e
    BY <1>5, <2>1 DEF Refers
  <2>3. q = p
    BY <2>2 DEF Same
  <2>4. InHeap(o)'
    BY <1>5 DEF InHeap
  <2>5. heap'[o].live /\ o # p
    BY <1>4, <2>4, AliveReferredNext DEF ReferredAlive
  <2> QED
    BY <2>3, <2>5
<1>6. \A o \in Obj : heap[o].live /\ heap'[o].live => Same(heap[o], heap'[o])
  BY <1>1
<1> QED
  BY <1>2, <1>5, <1>6, QuietStep

-----------------------------------------------------------------------------
(* Every action of a careful script keeps the invariant.                   *)

LEMMA StopCareful ==
  ASSUME CInv, IInv', UNCHANGED <<env, stack, heap>>, status' # "dangling"
  PROVE  CInv'
BY DEF CInv, StackFits

LEMMA ReleaseCareful ==
  ASSUME CInv, IInv', Release
  PROVE  CInv'
<1> DEFINE c == Head(drop)
<1>1. IInv /\ UNCHANGED <<env, status>> /\ stack' = stack /\ drop # <<>> /\ HeapOK(heap)
  BY DEF CInv, IInv, Release
<1>2. c \in OperandCell
  BY <1>1, HeadTailProperties DEF IInv
<1>3. heap \in [Obj -> [live : BOOLEAN, rc : 0..(RcMod - 1), tab : BOOLEAN, keys : Seq(Int), e : Seq(ValueCell)]]
  BY <1>1 DEF HeapOK
<1>4. \A o \in Obj : \/ Same(heap[o], heap'[o])
                     \/ ~heap'[o].live /\ heap'[o].e = <<>>
  <2>1. Dead.live = FALSE /\ Dead.e = <<>>
    BY DEF Dead, Object
  <2>2. CASE ~Counts(c)
    BY <2>2 DEF Release, Same
  <2>3. CASE Counts(c) /\ Less(c.o) = 0
    <3>1. heap' = [heap EXCEPT ![c.o] = Dead]
      BY <2>3 DEF Release
    <3> HIDE DEF c
    <3> QED
      BY <1>3, <2>1, <3>1 DEF Same
  <2>4. CASE Counts(c) /\ Less(c.o) # 0
    <3>1. heap' = [heap EXCEPT ![c.o].rc = Less(c.o)]
      BY <2>4 DEF Release
    <3> HIDE DEF c
    <3> DEFINE m == Less(c.o)
    <3> HIDE DEF m
    <3>2. heap' = [heap EXCEPT ![c.o].rc = m]
      BY <3>1 DEF m
    <3> QED
      BY <1>3, <3>2 DEF Same
  <2> QED
    BY <2>2, <2>3, <2>4
<1>5. \A p, o \in Obj : ~heap[p].live /\ Refers(heap', p, o) => heap[o].live
  BY <1>1, <1>4 DEF HeapOK, Refers, Same
<1>6. 0 \in 0..Len(stack) /\ Leaves(0, Null)
  BY <1>1, Leaving
<1>7. \A o \in Obj : heap[o].live /\ heap'[o].live => Same(heap[o], heap'[o])
  BY <1>4
<1> QED
  BY <1>1, <1>5, <1>6, <1>7, CellKinds, QuietStep

LEMMA PushCareful ==
  ASSUME CInv, IInv', NEW c \in Literal, Push(c)
  PROVE  CInv'
<1>1. IInv /\ UNCHANGED <<env, heap, status>> /\ stack' = Append(stack, c)
  BY DEF CInv, Push, Do
<1>2. c \in OperandCell /\ c.k \in {"num", "null", "ref"} /\ 0 \in 0..Len(stack) /\ Leaves(0, c)
  BY <1>1, ValueCells, Leaving
<1>3. \A o \in Obj : Same(heap[o], heap'[o])
  BY <1>1 DEF Same
<1> QED
  BY <1>1, <1>2, <1>3, CountsStep

LEMMA PushVarCareful ==
  ASSUME CInv, IInv', NEW v \in Var, PushVar(v)
  PROVE  CInv'
<1>1. PICK c : c = env[v]
  OBVIOUS
<1>2. IInv /\ UNCHANGED <<env, status>> /\ stack' = Append(stack, c) /\ heap' = Copying(<<c>>, heap)
  BY <1>1 DEF CInv, PushVar, Do
<1>3. c \in OperandCell /\ c.k \in {"num", "null", "ref"} /\ 0 \in 0..Len(stack) /\ Leaves(0, c)
  BY <1>1, <1>2, AllAlive, CellKinds, Leaving
<1>4. \A o \in Obj : Same(heap[o], heap'[o])
  BY <1>2, CopyingSame
<1> QED
  BY <1>2, <1>3, <1>4, CountsStep

LEMMA PopCareful ==
  ASSUME CInv, IInv', Pop
  PROVE  CInv'
<1>1. IInv /\ Has(1) /\ UNCHANGED <<env, heap, status>> /\ stack' = Below(1)
  BY DEF CInv, Pop, Do
<1>2. 1 \in 0..Len(stack) /\ Leaves(1, Null)
  BY <1>1, Leaving
<1>3. \A o \in Obj : Same(heap[o], heap'[o])
  BY <1>1 DEF Same
<1> QED
  BY <1>1, <1>2, <1>3, CellKinds, CountsStep

(* No borrow of an element of v is below the operands of its writing.      *)
LEMMA NoneBorrowed ==
  ASSUME IInv, Careful, NEW v, NEW n \in 0..Len(stack), MayWrite(v, Below(n))
  PROVE  \A j \in 1..(Len(stack) - n) : stack[j].k = "borrow" => stack[j].o = NoObj \/ stack[j].v # v
<1>1. \A j \in DOMAIN Below(n) : Below(n)[j].k = "borrow" => Below(n)[j].o = NoObj \/ Below(n)[j].v # v
  BY DEF Careful, MayWrite
<1>2. stack \in Seq(OperandCell) /\ Len(stack) \in Nat /\ Len(stack) - n \in 0..Len(stack)
  BY LenProperties DEF IInv
<1>3. \A j \in 1..(Len(stack) - n) : j \in DOMAIN Below(n) /\ Below(n)[j] = stack[j]
  BY <1>2 DEF Below
<1> QED
  BY <1>1, <1>3

LEMMA WriteVarCareful ==
  ASSUME CInv, IInv', Careful, NEW v \in Var, WriteVar(v)
  PROVE  CInv'
<1>1. /\ IInv /\ Has(1) /\ UNCHANGED <<heap, status>> /\ stack' = Below(1)
      /\ env' = [env EXCEPT ![v] = Operand(0)] /\ MayWrite(v, Below(1))
  BY DEF CInv, WriteVar, Do
<1>2. 1 \in 0..Len(stack) /\ Leaves(1, Null)
  BY <1>1, Leaving
<1>3. \A o \in Obj : Same(heap[o], heap'[o])
  BY <1>1 DEF Same
<1>4. \A w : w # v => env'[w] = env[w]
  BY <1>1
<1>5. \A j \in 1..(Len(stack) - 1) :
        stack[j].k = "borrow" => stack[j].o = NoObj \/ env'[stack[j].v] = env[stack[j].v]
  BY <1>1, <1>2, <1>4, NoneBorrowed
<1> QED
  BY <1>1, <1>2, <1>3, <1>5, CellKinds, CountsStep

LEMMA CreateArrayCareful ==
  ASSUME CInv, IInv', NEW n \in 0..MaxLen, CreateArray(n)
  PROVE  CInv'
<1> DEFINE e == SubSeq(stack, Len(stack) - n + 1, Len(stack))
<1>1. IInv /\ Has(n) /\ n \in Nat
  BY HeapAssumption DEF CInv, CreateArray
<1>2. PICK p \in Free :
        /\ UNCHANGED <<env, status>> /\ stack' = Append(Below(n), Ref(p))
        /\ heap' = [heap EXCEPT ![p] = Array(e)]
  BY DEF CreateArray, Do
<1> DEFINE x == Array(e)
<1>3. x.rc = 1
  BY DEF Array, Object
<1> HIDE DEF x
<1>4. p \in Obj /\ DOMAIN heap = Obj
  BY <1>1 DEF Free, IInv, HeapOK
<1>5. heap'[p].rc = 1 /\ \A o \in Obj \ {p} : Same(heap[o], heap'[o]) /\ heap'[o].live = heap[o].live
  BY <1>2, <1>3, <1>4 DEF x, Same
<1>6. n \in 0..Len(stack)
  BY <1>1, Leaving
<1> QED
  BY <1>2, <1>5, <1>6, NewStep

LEMMA CreateTableCareful ==
  ASSUME CInv, IInv', NEW n \in Tables, CreateTable(n)
  PROVE  CInv'
<1> DEFINE k == 2 * n
           cells == SubSeq(stack, Len(stack) - 2 * n + 1, Len(stack))
           first == FirstPairs(cells)
           D == 1..Cardinality(first)
<1>1. IInv /\ Has(k) /\ k \in Nat
  BY HeapAssumption DEF CInv, CreateTable
<1>2. CASE Stop("raised")
  BY <1>2, StopCareful DEF Stop
<1>3. CASE ~Stop("raised")
  <2>1. \E p \in Free, s \in {s \in [D -> first] : \A i, j \in D : i < j => s[i] < s[j]} :
           Do(env, Append(Below(k), Ref(p)),
              [heap EXCEPT ![p] = Table([j \in D |-> cells[2 * s[j] - 1].n], [j \in D |-> cells[2 * s[j]]])],
              [j \in 1..(2 * n) |-> IF j % 2 = 0 /\ j \div 2 \in first THEN Null ELSE cells[j]])
    BY <1>3 DEF CreateTable
  <2> HIDE DEF first, D, cells
  <2>2. \E p \in Free : \E keys, e :
           /\ UNCHANGED <<env, status>> /\ stack' = Append(Below(k), Ref(p))
           /\ heap' = [heap EXCEPT ![p] = Table(keys, e)]
    BY <2>1 DEF Do
  <2>3. PICK p \in Free : \E keys, e :
           /\ UNCHANGED <<env, status>> /\ stack' = Append(Below(k), Ref(p))
           /\ heap' = [heap EXCEPT ![p] = Table(keys, e)]
    BY <2>2
  <2>4. PICK keys, e :
           /\ UNCHANGED <<env, status>> /\ stack' = Append(Below(k), Ref(p))
           /\ heap' = [heap EXCEPT ![p] = Table(keys, e)]
    BY <2>3
  <2> DEFINE x == Table(keys, e)
  <2>5. x.rc = 1
    BY DEF Table, Object
  <2> HIDE DEF x
  <2>6. p \in Obj /\ DOMAIN heap = Obj
    BY <1>1 DEF Free, IInv, HeapOK
  <2>7. heap'[p].rc = 1 /\ \A o \in Obj \ {p} : Same(heap[o], heap'[o]) /\ heap'[o].live = heap[o].live
    BY <2>4, <2>5, <2>6 DEF x, Same
  <2>8. k \in 0..Len(stack)
    BY <1>1, Leaving
  <2> HIDE DEF k
  <2> QED
    BY <2>4, <2>7, <2>8, NewStep
<1> QED
  BY <1>2, <1>3

LEMMA GetCareful ==
  ASSUME CInv, IInv', Careful, Get
  PROVE  CInv'
<1> DEFINE c == Operand(1)
           i == Operand(0)
           at == Index(c, i)
<1>1. IInv /\ Has(2) /\ IsCell(c) /\ IsCell(i)
  BY DEF CInv, Get
<1>2. CASE at = 0
  <2>1. Stop("raised")
    BY <1>2 DEF Get
  <2> QED
    BY <2>1, StopCareful DEF Stop
<1>3. CASE at # 0
  <2>1. PICK x : x = Elems(c)[at]
    OBVIOUS
  <2>2. RcOf(c) # 1
    BY <1>3 DEF Get, Careful
  <2>3. UNCHANGED <<env, status>> /\ stack' = Append(Below(2), x) /\ heap' = Copying(<<x>>, heap)
    BY <1>3, <2>1, <2>2 DEF Get, Do
  <2>4. x \in ValueCell
    <3>1. c.k = "ref" /\ at \in DOMAIN Elems(c) /\ Elems(c) = heap[c.o].e
      BY <1>3, IndexIs
    <3>2. c \in OperandCell
      BY <1>1, Operands2 DEF Has
    <3>3. c.o \in Obj
      BY <3>1, <3>2, OperandCells, ValueCells
    <3>4. Elems(c) \in Seq(ValueCell)
      BY <1>1, <3>1, <3>3, AllAlive DEF Existing
    <3> QED
      BY <2>1, <3>1, <3>4, ElementOfSeq, SeqFinite
  <2>5. x \in OperandCell /\ x.k \in {"num", "null", "ref"} /\ 2 \in 0..Len(stack) /\ Leaves(2, x)
    BY <1>1, <2>3, <2>4, CellKinds, Leaving
  <2>6. \A o \in Obj : Same(heap[o], heap'[o])
    BY <1>1, <2>3, CopyingSame
  <2> QED
    BY <2>3, <2>5, <2>6, CountsStep
<1> QED
  BY <1>2, <1>3

(* A new object at n beside what there is.                                 *)
LEMMA NewCopyIs ==
  ASSUME IInv, NEW n \in Free, NEW x
  PROVE  /\ NewCopy(n, x)[n] = x
         /\ \A o \in Obj \ {n} : Same(heap[o], NewCopy(n, x)[o]) /\ NewCopy(n, x)[o].live = heap[o].live
         /\ \A o \in Obj : heap[o].live => Same(heap[o], NewCopy(n, x)[o]) /\ NewCopy(n, x)[o].live
<1> DEFINE g == Copying(x.e, heap)
           h == NewCopy(n, x)
<1>1. n \in Obj /\ ~heap[n].live
  BY DEF Free
<1>2. \A o \in Obj : Same(heap[o], g[o]) /\ g[o].live = heap[o].live
  <2> TAKE o \in Obj
  <2>1. Same(heap[o], g[o])
    BY CopyingSame
  <2>2. g[o].live = heap[o].live
    <3> DEFINE y == heap[o]
               m == (y.rc + References(x.e, o)) % RcMod
    <3>1. y \in [live : BOOLEAN, rc : 0..(RcMod - 1), tab : BOOLEAN, keys : Seq(Int), e : Seq(ValueCell)]
      BY DEF IInv, HeapOK
    <3>2. g[o] = [y EXCEPT !.rc = m]
      BY DEF Copying
    <3> HIDE DEF y, m, g
    <3>3. g[o].live = y.live
      BY <3>1, <3>2
    <3> QED
      BY <3>3 DEF y
  <2> QED
    BY <2>1, <2>2
<1>3. h = [g EXCEPT ![n] = x] /\ DOMAIN g = Obj
  BY DEF NewCopy, Copying
<1> HIDE DEF g, h
<1>4. h[n] = x /\ \A o \in Obj \ {n} : h[o] = g[o]
  BY <1>1, <1>3
<1>5. \A o \in Obj \ {n} : Same(heap[o], h[o]) /\ h[o].live = heap[o].live
  BY <1>2, <1>4
<1>6. \A o \in Obj : heap[o].live => Same(heap[o], h[o]) /\ h[o].live
  BY <1>1, <1>5
<1> QED
  BY <1>4, <1>5, <1>6 DEF h

(* A new array is pushed.                                                  *)
LEMMA NewArrayStep ==
  ASSUME CInv, IInv', UNCHANGED <<env, status>>, NEW p \in Free, NEW n \in 0..Len(stack), NEW e,
         stack' = Append(Below(n), Ref(p)), heap' = NewCopy(p, Array(e))
  PROVE  CInv'
<1> DEFINE x == Array(e)
<1>1. IInv /\ x.rc = 1 /\ heap' = NewCopy(p, x)
  BY DEF CInv, Array, Object
<1> HIDE DEF x
<1>2. heap'[p] = x /\ \A o \in Obj \ {p} : Same(heap[o], heap'[o]) /\ heap'[o].live = heap[o].live
  BY <1>1, NewCopyIs
<1> QED
  BY <1>1, <1>2, NewStep

LEMMA SliceCareful ==
  ASSUME CInv, IInv', Slice
  PROVE  CInv'
<1>1. IInv /\ Has(3)
  BY DEF CInv, Slice
<1>2. CASE Stop("raised")
  BY <1>2, StopCareful DEF Stop
<1>3. CASE ~Stop("raised")
  <2>1. PICK e : e = Sliced(Elems(Operand(2)), Operand(1), Operand(0))
    OBVIOUS
  <2>2. PICK p \in Free : Do(env, Append(Below(3), Ref(p)), NewCopy(p, Array(e)), <<Operand(2)>>)
    BY <1>3, <2>1 DEF Slice
  <2>3. UNCHANGED <<env, status>> /\ stack' = Append(Below(3), Ref(p)) /\ heap' = NewCopy(p, Array(e))
    BY <2>2 DEF Do
  <2>4. 3 \in 0..Len(stack)
    BY <1>1, Leaving
  <2> QED
    BY <2>3, <2>4, NewArrayStep
<1> QED
  BY <1>2, <1>3

LEMMA BeginIterCareful ==
  ASSUME CInv, IInv', BeginIter
  PROVE  CInv'
<1>1. PICK c : c = Operand(0)
  OBVIOUS
<1>2. IInv /\ Has(1) /\ c.k = "ref"
  BY <1>1 DEF CInv, BeginIter
<1>3. PICK order \in Orders(c) : Do(env, Append(Below(1), IterOf(c.o, order, 1)), heap, <<>>)
  BY <1>1 DEF BeginIter
<1>4. PICK it : it = IterOf(c.o, order, 1)
  OBVIOUS
<1>5. UNCHANGED <<env, heap, status>> /\ stack' = Append(Below(1), it)
  BY <1>3, <1>4 DEF Do
<1>6. c \in ValueCell /\ c.o \in Obj /\ Below(1) \in Seq(OperandCell)
  <2>1. c \in OperandCell /\ Below(1) \in Seq(OperandCell)
    BY <1>1, <1>2, Operands1 DEF Has
  <2> QED
    BY <1>2, <2>1, OperandCells, ValueCells
<1>7. Len(heap[c.o].e) = Len(order)
  <2>1. Elems(c) \in Seq(ValueCell) /\ Elems(c) = heap[c.o].e
    BY <1>2, <1>6, AllAlive DEF Elems, Existing
  <2>2. DOMAIN Elems(c) = 1..Len(Elems(c)) /\ Len(Elems(c)) \in Nat
    BY <2>1, SeqFinite
  <2>3. order \in [1..Len(Elems(c)) -> 1..Len(Elems(c))]
    BY <2>2 DEF Orders
  <2>4. Len(order) = Len(Elems(c))
    BY <2>2, <2>3
  <2> QED
    BY <2>1, <2>4
<1>8. CellFits(env', heap', it)
  BY <1>4, <1>5, <1>7 DEF CellFits, IterOf
<1>9. it \in OperandCell
  <2>1. Len(Below(1)) + 1 \in DOMAIN stack' /\ stack'[Len(Below(1)) + 1] = it
    BY <1>5, <1>6, AppendProperties
  <2>2. stack' \in Seq(OperandCell)
    BY DEF IInv
  <2> QED
    BY <2>1, <2>2, SeqFinite, ElementOfSeq
<1>10. 1 \in 0..Len(stack) /\ Leaves(1, it) /\ \A o \in Obj : Same(heap[o], heap'[o])
  BY <1>2, <1>5, Leaving DEF Same
<1> QED
  BY <1>5, <1>8, <1>9, <1>10, CountsStep

LEMMA NextOrJmpCareful ==
  ASSUME CInv, IInv', Careful, NEW key \in Var \union {Unnamed}, NEW v \in Var, NextOrJmp(key, v)
  PROVE  CInv'
<1>1. PICK it : it = Operand(0)
  OBVIOUS
<1>2. /\ IInv /\ Has(1) /\ it.k = "iter" /\ MayWrite(v, Below(1)) /\ MayWrite(key, Below(1))
      /\ 1 \in 0..Len(stack) /\ Len(stack) \in Nat
  BY <1>1, Leaving DEF CInv, NextOrJmp
<1>3. it \in IterCell /\ it.o \in Obj /\ Below(1) \in Seq(OperandCell)
  <2>1. it \in OperandCell /\ Below(1) \in Seq(OperandCell)
    BY <1>1, <1>2, Operands1 DEF Has
  <2> QED
    BY <1>2, <2>1, OperandCells DEF Counts
<1>4. Len(heap[it.o].e) = Len(it.order)
  <2>1. Len(stack) \in DOMAIN stack /\ stack[Len(stack)] = it
    <3>1. DOMAIN stack = 1..Len(stack) /\ Len(stack) >= 1 /\ Len(stack) - 0 = Len(stack)
      BY <1>2, SeqFinite DEF IInv, Has
    <3> QED
      BY <1>1, <1>2, <3>1 DEF Operand
  <2> QED
    BY <1>2, <2>1 DEF CInv, StackFits, CellFits
<1>5. CASE it.at > Len(it.order)
  <2>1. UNCHANGED <<env, heap, status>> /\ stack' = Below(1)
    BY <1>1, <1>4, <1>5 DEF NextOrJmp, Do
  <2>2. Leaves(1, Null) /\ \A o \in Obj : Same(heap[o], heap'[o])
    BY <1>2, <2>1, Leaving DEF Same
  <2> QED
    BY <1>2, <2>1, <2>2, CellKinds, CountsStep
<1>6. CASE ~(it.at > Len(it.order))
  <2>1. PICK x : x = heap[it.o].e[it.order[it.at]]
    OBVIOUS
  <2>2. PICK num : num = Number(KeyAt(it.o, it.order[it.at]))
    OBVIOUS
  <2>3. PICK next : next = IterOf(it.o, it.order, it.at + 1)
    OBVIOUS
  <2>4. /\ env' = [w \in Var |-> IF w = v THEN x ELSE IF w = key THEN num ELSE env[w]]
        /\ stack' = Append(Below(1), next) /\ heap' = Copying(<<x>>, heap) /\ UNCHANGED status
    BY <1>1, <1>4, <1>6, <2>1, <2>2, <2>3 DEF NextOrJmp, Do
  <2>5. \A o \in Obj : Same(heap[o], heap'[o])
    BY <1>2, <2>4, CopyingSame
  <2>6. CellFits(env', heap', next)
    BY <1>3, <1>4, <2>3, <2>5 DEF CellFits, IterOf, Same
  <2>7. next \in OperandCell
    <3>1. Len(Below(1)) + 1 \in DOMAIN stack' /\ stack'[Len(Below(1)) + 1] = next
      BY <1>3, <2>4, AppendProperties
    <3>2. stack' \in Seq(OperandCell)
      BY DEF IInv
    <3> QED
      BY <3>1, <3>2, SeqFinite, ElementOfSeq
  <2>8. ASSUME NEW j \in 1..(Len(stack) - 1), stack[j].k = "borrow", stack[j].o # NoObj
        PROVE  env'[stack[j].v] = env[stack[j].v]
    <3>1. stack[j].v # v /\ stack[j].v # key
      BY <1>2, <2>8, NoneBorrowed
    <3>2. stack[j].v \in Var
      <4>1. j \in DOMAIN stack
        BY <1>2, SeqFinite DEF IInv
      <4>2. stack[j] \in BorrowCell
        BY <1>2, <2>8, <4>1, AllAlive, OperandCells
      <4> QED
        BY <4>2 DEF BorrowCell
    <3> QED
      BY <2>4, <3>1, <3>2
  <2>9. Leaves(1, next)
    BY <1>2, <2>4, Leaving
  <2> QED
    BY <1>2, <2>4, <2>5, <2>6, <2>7, <2>8, <2>9, CountsStep
<1> QED
  BY <1>5, <1>6

(* What append makes.                                                      *)
JoinedCells(c, r) == (IF IsArray(c) THEN Elems(c) ELSE <<c>>) \o Elems(r)

(* Array p with one element more.                                          *)
Grown(h, p, r) == [h EXCEPT ![p].e = Append(@, r)]

LEMMA GrownIs ==
  ASSUME IInv, NEW p \in Obj, NEW r
  PROVE  LET h == Grown(heap, p, r) IN
         /\ h[p].e = Append(heap[p].e, r) /\ h[p].tab = heap[p].tab
         /\ h[p].keys = heap[p].keys /\ h[p].live = heap[p].live
         /\ \A o \in Obj \ {p} : h[o] = heap[o]
<1> DEFINE x == heap[p]
           e == Append(x.e, r)
           h == Grown(heap, p, r)
<1>1. x \in [live : BOOLEAN, rc : 0..(RcMod - 1), tab : BOOLEAN, keys : Seq(Int), e : Seq(ValueCell)]
      /\ DOMAIN heap = Obj
  BY DEF IInv, HeapOK
<1>2. h = [heap EXCEPT ![p] = [x EXCEPT !.e = e]]
  BY DEF Grown
<1> DEFINE y == [x EXCEPT !.e = e]
<1> HIDE DEF x, e, h
<1>3. y.e = e /\ y.tab = x.tab /\ y.keys = x.keys /\ y.live = x.live
  BY <1>1
<1> HIDE DEF y
<1>4. h[p] = y /\ \A o \in Obj \ {p} : h[o] = heap[o]
  BY <1>1, <1>2 DEF y
<1> QED
  BY <1>3, <1>4 DEF x, e, h

LEMMA AppendedIs ==
  ASSUME NEW c, NEW r, NEW a \in Appended(c, r)
  PROVE  /\ IsArray(r) => \E p \in Free : /\ a.c = Ref(p) /\ a.d = <<c, r>>
                                          /\ a.h = NewCopy(p, Array(JoinedCells(c, r)))
         /\ ~IsArray(r) => a.c = c /\ a.d = <<>> /\ a.h = Grown(heap, c.o, r)
<1>1. CASE IsArray(r)
  <2>1. PICK e : e = JoinedCells(c, r)
    OBVIOUS
  <2>2. PICK p \in Free : a = [c |-> Ref(p), h |-> NewCopy(p, Array(e)), d |-> <<c, r>>]
    BY <1>1, <2>1 DEF Appended, JoinedCells
  <2> QED
    BY <1>1, <2>1, <2>2
<1>2. CASE ~IsArray(r)
  <2>1. a = [c |-> c, h |-> Grown(heap, c.o, r), d |-> <<>>]
    BY <1>2 DEF Appended, Grown
  <2> QED
    BY <1>2, <2>1
<1> QED
  BY <1>1, <1>2

(* Operands on top of the stack.                                           *)
LEMMA Tops ==
  ASSUME IInv, Has(2)
  PROVE  /\ Len(stack) \in Nat /\ Len(stack) - 1 \in DOMAIN stack /\ Len(stack) \in DOMAIN stack
         /\ stack[Len(stack) - 1] = Operand(1) /\ stack[Len(stack)] = Operand(0)
         /\ Len(stack) - 1 # Len(stack) /\ DOMAIN stack = 1..Len(stack)
<1>1. DOMAIN stack = 1..Len(stack) /\ Len(stack) \in Nat /\ Len(stack) >= 2
  BY SeqFinite DEF IInv, Has
<1>2. PICK n : n = Len(stack)
  OBVIOUS
<1>3. n \in Nat /\ n - 0 = n /\ n - 1 \in 1..n /\ n \in 1..n /\ n - 1 # n
  <2>1. n \in Nat /\ n >= 2
    BY <1>1, <1>2
  <2> QED
    BY <2>1
<1>4. Operand(1) = stack[n - 1] /\ Operand(0) = stack[n - 0]
  BY <1>2 DEF Operand
<1> QED
  BY <1>1, <1>2, <1>3, <1>4

LEMMA AppendOpCareful ==
  ASSUME CInv, IInv', Careful, AppendOp
  PROVE  CInv'
<1>1. PICK c, r : c = Operand(1) /\ r = Operand(0)
  OBVIOUS
<1>2. IInv /\ Has(2) /\ IsCell(c) /\ IsCell(r)
  BY <1>1 DEF CInv, AppendOp
<1>3. c \in ValueCell /\ r \in ValueCell /\ 2 \in 0..Len(stack)
  BY <1>1, <1>2, Operands2, OperandCells, Leaving DEF Has
<1>4. CASE Stop("raised")
  BY <1>4, StopCareful DEF Stop
<1>5. CASE ~Stop("raised") /\ IsArray(r)
  <2>1. PICK e : e = JoinedCells(c, r)
    OBVIOUS
  <2>2. PICK a \in Appended(c, r) : Do(env, Append(Below(2), a.c), a.h, a.d)
    BY <1>1, <1>5 DEF AppendOp
  <2>3. PICK p \in Free : a.c = Ref(p) /\ a.h = NewCopy(p, Array(e))
    BY <1>5, <2>1, AppendedIs
  <2>4. UNCHANGED <<env, status>> /\ stack' = Append(Below(2), Ref(p)) /\ heap' = NewCopy(p, Array(e))
    BY <2>2, <2>3 DEF Do
  <2> QED
    BY <1>3, <2>4, NewArrayStep
<1>6. CASE ~Stop("raised") /\ ~IsArray(r)
  <2>1. IsArray(c) /\ RcOf(c) = 1
    BY <1>1, <1>6 DEF AppendOp, Careful
  <2>2. PICK o : o = c.o
    OBVIOUS
  <2>3. c.k = "ref" /\ o \in Obj /\ heap[o].rc = 1 /\ ~heap[o].tab
    BY <1>3, <2>1, <2>2, ValueCells DEF IsArray, RcOf
  <2>4. UNCHANGED <<env, status>> /\ stack' = Append(Below(2), c) /\ heap' = Grown(heap, o, r)
    <3>1. PICK a \in Appended(c, r) : Do(env, Append(Below(2), a.c), a.h, a.d)
      BY <1>1, <1>6 DEF AppendOp
    <3>2. a.c = c /\ a.h = Grown(heap, o, r)
      BY <1>6, <2>2, AppendedIs
    <3> QED
      BY <3>1, <3>2 DEF Do
  <2>5. /\ heap'[o].e = Append(heap[o].e, r) /\ heap'[o].tab = heap[o].tab
        /\ heap'[o].keys = heap[o].keys
        /\ \A p \in Obj \ {o} : heap'[p] = heap[p]
    BY <1>2, <2>3, <2>4, GrownIs
  <2>6. /\ Len(stack) \in Nat /\ Len(stack) - 1 \in DOMAIN stack /\ Len(stack) \in DOMAIN stack
        /\ stack[Len(stack) - 1] = c /\ stack[Len(stack)] = r /\ Len(stack) - 1 # Len(stack)
    BY <1>1, <1>2, Tops
  <2>7. RefersTo(c, o) /\ OnStack(o)
    BY <2>2, <2>3, <2>6 DEF OnStack, RefersTo, Counts
  <2>8. /\ ~InEnv(o) /\ ~InHeap(o) /\ ~RefersTo(r, o)
        /\ \A j \in DOMAIN stack : RefersTo(stack[j], o) => stack[j] = c
    BY <1>2, <2>3, <2>6, <2>7, OneReference
  <2>9. ~IterOn(o)
    BY <2>3, <2>8 DEF IterOn, RefersTo, Counts
  <2>10. Ordered(heap')
    <3>1. PICK K \in Nat : \E rk : Ranked(heap, rk, K)
      BY DEF CInv, Ordered
    <3>2. PICK rk : Ranked(heap, rk, K)
      BY <3>1
    <3> DEFINE P == {o}
               N == {}
    <3>3. ASSUME NEW p \in Obj, NEW q \in Obj, Refers(heap', p, q)
          PROVE  Refers(heap, p, q) \/ (p = o /\ q # o)
      <4>1. CASE p # o
        BY <2>5, <3>3, <4>1 DEF Refers
      <4>2. CASE p = o
        <5>1. PICK j \in DOMAIN heap'[o].e : RefersTo(heap'[o].e[j], q)
          BY <3>3, <4>2 DEF Refers
        <5>2. heap[o].e \in Seq(ValueCell)
          BY <1>2, <2>3 DEF IInv, HeapOK, Shaped
        <5>3. heap'[o].e[j] = r \/ (j \in DOMAIN heap[o].e /\ heap'[o].e[j] = heap[o].e[j])
          BY <1>3, <2>5, <5>2, AppendProperties
        <5> QED
          BY <2>8, <4>2, <5>1, <5>3 DEF Refers
      <4> QED
        BY <4>1, <4>2
    <3>4. Above(heap, heap', P, N)
      BY <2>3, <2>8, <3>3 DEF Above, InHeap
    <3> HIDE DEF P, N
    <3> QED
      BY <3>2, <3>4, OrderedStep
  <2>11. StackFits'
    <3> DEFINE Q == {o}
    <3>1. Q \in SUBSET Obj /\ Closed(Q)
      BY <2>3, <2>8 DEF Closed, InHeap
    <3>2. ASSUME NEW p \in Obj \ Q PROVE Onto(heap[p], heap'[p], Null, Null)
      <4>1. heap'[p] = heap[p] /\ Len(heap[p].e) \in Nat
        BY <1>2, <2>5, LenProperties DEF IInv, HeapOK, Shaped
      <4> QED
        BY <4>1 DEF Onto, Extends
    <3>3. LengthsKept
      BY <2>5, <2>9 DEF LengthsKept
    <3>4. \A w \in Var : VarKept(Q, Null, Null, w)
      BY <2>4, <2>8 DEF VarKept, InEnv
    <3> HIDE DEF Q
    <3>5. Null \in ValueCell /\ ~(Null.k = "ref")
      BY ValueCells DEF Null
    <3>6. Carries(Moved(Q, Null, Null), heap, heap')
      BY <1>2, <3>1, <3>2, <3>5, MovedCarries
    <3>7. ASSUME NEW j \in 1..(Len(stack) - 2), stack[j].k = "borrow" PROVE VarKept(Q, Null, Null, stack[j].v)
      <4>1. j \in DOMAIN stack
        <5>1. DOMAIN stack = 1..Len(stack)
          BY <1>2, Tops
        <5>2. \A m \in Nat : 1..(m - 2) \subseteq 1..m
          OBVIOUS
        <5> QED
          BY <2>6, <3>7, <5>1, <5>2
      <4>2. stack[j] \in BorrowCell
        BY <1>2, <3>7, <4>1, AllAlive, OperandCells
      <4>3. stack[j].v \in Var
        BY <4>2 DEF BorrowCell
      <4> QED
        BY <3>4, <4>3
    <3>8. c \in OperandCell /\ c.k \in {"num", "null", "ref"} /\ Leaves(2, c)
      BY <1>2, <1>3, <2>4, CellKinds, Leaving
    <3> QED
      BY <1>3, <3>3, <3>5, <3>6, <3>7, <3>8, StackKept
  <2> QED
    BY <2>4, <2>10, <2>11 DEF CInv
<1> QED
  BY <1>4, <1>5, <1>6

-----------------------------------------------------------------------------
(* Steps that put d in the place of cell c: what a borrow moves on into,   *)
(* and what a move leaves.                                                 *)

(* Heap g is heap with d where c was, and perhaps d's object new.          *)
Put(g, c, d) ==
  /\ \A o \in Obj : heap[o].live /\ g[o].live => Onto(heap[o], g[o], c, d)
  /\ \A o \in Obj : ~heap[o].live /\ g[o].live => d.k = "ref" /\ o = d.o
  /\ d.k = "ref" => /\ c.k = "ref" /\ Onto(heap[c.o], g[d.o], c, d)
                    /\ d = c \/ ~heap[d.o].live

LEMMA PutCarries ==
  ASSUME IInv, IInv', NEW c \in ValueCell, NEW d \in ValueCell, Put(heap', c, d)
  PROVE  Carries(Moved({}, c, d), heap, heap')
<1> DEFINE Q == {}
<1>1. Q \in SUBSET Obj /\ Closed(Q)
  BY DEF Closed
<1>2. \A o \in Obj \ Q : heap[o].live /\ heap'[o].live => Onto(heap[o], heap'[o], c, d)
  BY DEF Put
<1>3. d.k = "ref" => c.k = "ref" /\ c.o \notin Q /\ Onto(heap[c.o], heap'[d.o], c, d)
  BY DEF Put
<1> HIDE DEF Q
<1>4. Carries(Moved(Q, c, d), heap, heap')
  BY <1>1, <1>2, <1>3, MovedCarries
<1> QED
  BY <1>4 DEF Q

LEMMA PutOrdered ==
  ASSUME IInv, IInv', Ordered(heap), NEW c \in ValueCell, NEW d \in ValueCell, Put(heap', c, d)
  PROVE  Ordered(heap')
<1>1. PICK K \in Nat : \E r : Ranked(heap, r, K)
  BY DEF Ordered
<1>2. PICK r : Ranked(heap, r, K)
  BY <1>1
<1>3. r \in [Obj -> 0..K] /\ \A p, o \in Obj : Refers(heap, p, o) => r[o] < r[p]
  BY <1>2 DEF Ranked
<1>4. ReferredAlive /\ ReferredAlive'
  BY AliveReferred, AliveReferredNext
<1>5. d.k = "ref" => c.o \in Obj /\ d.o \in Obj /\ c.k = "ref"
  BY ValueCells DEF Put
<1> DEFINE s == [x \in Obj |-> IF d.k = "ref" /\ x = d.o THEN r[c.o] ELSE r[x]]
<1>6. s \in [Obj -> 0..K]
  BY <1>3, <1>5
<1>7. \A o \in Obj : heap[o].live => s[o] = r[o]
  BY <1>5 DEF Put
<1>8. d.k = "ref" => s[d.o] = r[c.o]
  BY <1>5
<1> HIDE DEF s
<1>9. ASSUME NEW p \in Obj, NEW o \in Obj, Refers(heap', p, o) PROVE s[o] < s[p]
  <2>1. heap'[p].live /\ heap'[o].live
    BY <1>4, <1>9 DEF ReferredAlive, InHeap, IInv, HeapOK, Refers
  <2>2. PICK j \in DOMAIN heap'[p].e : RefersTo(heap'[p].e[j], o)
    BY <1>9 DEF Refers
  <2>3. heap'[p].e[j].k = "ref" /\ heap'[p].e[j].o = o
    <3>1. heap'[p].e \in Seq(ValueCell)
      BY DEF IInv, HeapOK, Shaped
    <3>2. heap'[p].e[j] \in ValueCell
      BY <2>2, <3>1, SeqFinite, ElementOfSeq
    <3> QED
      BY <2>2, <3>2, ValueCells DEF RefersTo
  (* q is where the element was *)
  <2>4. ASSUME NEW q \in Obj, Onto(heap[q], heap'[p], c, d), s[p] = r[q] PROVE s[o] < s[p]
    <3>1. j \in DOMAIN heap[q].e /\ (heap'[p].e[j] = heap[q].e[j] \/ (heap[q].e[j] = c /\ heap'[p].e[j] = d))
      BY <2>3, <2>4 DEF Onto
    <3>2. CASE heap'[p].e[j] = heap[q].e[j]
      <4>1. Refers(heap, q, o)
        BY <2>2, <3>1, <3>2 DEF Refers
      <4>2. heap[o].live
        BY <1>4, <4>1 DEF ReferredAlive, InHeap
      <4> QED
        BY <1>3, <1>7, <2>4, <4>1, <4>2
    <3>3. CASE heap[q].e[j] = c /\ heap'[p].e[j] = d
      <4>1. d.k = "ref" /\ d.o = o /\ c.k = "ref" /\ c.o \in Obj
        BY <1>5, <2>3, <3>3
      <4>2. Refers(heap, q, c.o)
        BY <3>1, <3>3, <4>1 DEF Refers, RefersTo, Counts
      <4>3. r[c.o] < r[q]
        BY <1>3, <4>1, <4>2
      <4> QED
        BY <1>8, <2>4, <4>1, <4>3
    <3> QED
      BY <3>1, <3>2, <3>3
  <2>5. CASE heap[p].live
    <3>1. Onto(heap[p], heap'[p], c, d) /\ s[p] = r[p]
      BY <1>7, <2>1, <2>5 DEF Put
    <3> QED
      BY <2>4, <3>1
  <2>6. CASE ~heap[p].live
    <3>1. d.k = "ref" /\ p = d.o
      BY <2>1, <2>6 DEF Put
    <3>2. Onto(heap[c.o], heap'[p], c, d) /\ s[p] = r[c.o] /\ c.o \in Obj
      BY <1>5, <1>8, <3>1 DEF Put
    <3> QED
      BY <2>4, <3>2
  <2> QED
    BY <2>5, <2>6
<1>10. Ranked(heap', s, K)
  BY <1>6, <1>9 DEF Ranked
<1> QED
  BY <1>6, <1>10 DEF Ordered

LEMMA PutStep ==
  ASSUME CInv, IInv', UNCHANGED status, NEW c \in ValueCell, NEW d \in ValueCell, Put(heap', c, d),
         \A v \in Var : env'[v] = env[v] \/ (env[v] = c /\ env'[v] = d),
         LengthsKept,
         NEW n \in 0..Len(stack), NEW x \in OperandCell, Leaves(n, x),
         x.k \in {"num", "null", "ref"} \/ CellFits(env', heap', x)
  PROVE  CInv'
<1>1. IInv /\ Ordered(heap) /\ status' # "dangling"
  BY DEF CInv
<1>2. Ordered(heap')
  BY <1>1, PutOrdered
<1>3. Carries(Moved({}, c, d), heap, heap')
  BY <1>1, PutCarries
<1>4. d.k = "ref" => c.k = "ref"
  BY DEF Put
<1>5. ASSUME NEW j \in 1..(Len(stack) - n), stack[j].k = "borrow" PROVE VarKept({}, c, d, stack[j].v)
  <2>1. j \in DOMAIN stack
    <3>1. Len(stack) \in Nat /\ DOMAIN stack = 1..Len(stack)
      BY <1>1, SeqFinite DEF IInv
    <3> QED
      BY <1>5, <3>1
  <2>2. stack[j] \in BorrowCell
    BY <1>1, <1>5, <2>1, AllAlive, OperandCells
  <2>3. PICK v : v = stack[j].v
    OBVIOUS
  <2>4. v \in Var
    BY <2>2, <2>3 DEF BorrowCell
  <2> QED
    BY <2>3, <2>4 DEF VarKept
<1>6. StackFits'
  BY <1>3, <1>4, <1>5, StackKept
<1> QED
  BY <1>1, <1>2, <1>6 DEF CInv

(* d is written to place b of heap h.                                      *)
LEMMA WrittenIs ==
  ASSUME NEW h, WellFormed(h), NEW b \in BorrowCell, NEW d \in ValueCell,
         b.o # NoObj => b.i \in DOMAIN h[b.o].e
  PROVE  \A o \in Obj :
           LET y == HeapWith(h, b, d)[o] IN
           /\ y.live = h[o].live /\ y.tab = h[o].tab /\ y.keys = h[o].keys /\ Len(y.e) = Len(h[o].e)
           /\ DOMAIN y.e = DOMAIN h[o].e
           /\ \A j \in DOMAIN h[o].e : y.e[j] = IF o = b.o /\ j = b.i THEN d ELSE h[o].e[j]
<1>1. CASE b.o = NoObj
  BY <1>1, HeapAssumption DEF HeapWith
<1>2. CASE b.o # NoObj
  <2>1. b.o \in Obj /\ HeapWith(h, b, d) = [h EXCEPT ![b.o].e[b.i] = d]
    BY <1>2 DEF HeapWith, BorrowCell
  <2>2. PICK p, i : p = b.o /\ i = b.i
    OBVIOUS
  <2> DEFINE x == h[p]
             e == [x.e EXCEPT ![i] = d]
             g == HeapWith(h, b, d)
  <2>3. /\ x \in [live : BOOLEAN, rc : Int, tab : BOOLEAN, keys : Seq(Int), e : Seq(ValueCell)]
        /\ DOMAIN h = Obj /\ p \in Obj /\ i \in DOMAIN x.e
    BY <1>2, <2>1, <2>2 DEF WellFormed
  <2>4. g = [h EXCEPT ![p] = [x EXCEPT !.e = e]]
    BY <2>1, <2>2
  <2>5. x.e \in Seq(ValueCell)
    BY <2>3
  <2>6. i \in 1..Len(x.e)
    BY <2>3, <2>5, SeqFinite
  <2>7. e \in Seq(ValueCell) /\ Len(e) = Len(x.e) /\ \A j \in 1..Len(x.e) : e[j] = IF j = i THEN d ELSE x.e[j]
    BY <2>5, <2>6, ExceptSeq
  <2>8. DOMAIN e = DOMAIN x.e /\ \A j \in DOMAIN x.e : e[j] = IF j = i THEN d ELSE x.e[j]
    BY <2>5, <2>7, SeqFinite
  <2> DEFINE y == [x EXCEPT !.e = e]
  <2> HIDE DEF x, e, g
  <2>9. y.live = x.live /\ y.tab = x.tab /\ y.keys = x.keys /\ y.e = e
    BY <2>3
  <2> HIDE DEF y
  <2>10. g[p] = y /\ \A o \in Obj \ {p} : g[o] = h[o]
    BY <2>3, <2>4 DEF y
  <2>11. ASSUME NEW o \in Obj
         PROVE  /\ g[o].live = h[o].live /\ g[o].tab = h[o].tab /\ g[o].keys = h[o].keys
                /\ Len(g[o].e) = Len(h[o].e) /\ DOMAIN g[o].e = DOMAIN h[o].e
                /\ \A j \in DOMAIN h[o].e : g[o].e[j] = IF o = b.o /\ j = b.i THEN d ELSE h[o].e[j]
    <3>1. CASE o = p
      BY <2>2, <2>7, <2>8, <2>9, <2>10, <3>1 DEF x
    <3>2. CASE o # p
      BY <2>2, <2>10, <2>11, <3>2
    <3> QED
      BY <3>1, <3>2
  <2> QED
    BY <2>11 DEF g
<1> QED
  BY <1>1, <1>2

(* A heap made ready by putting d's object in it, and then the place too.  *)
LEMMA PutWritten ==
  ASSUME IInv, NEW b \in BorrowCell, ~Dangling(b), NEW c, c = Pointed(b), NEW d \in ValueCell,
         NEW h, WellFormed(h), Put(h, c, d), \A o \in Obj : heap[o].live => h[o].live,
         b.o # NoObj => b.i \in DOMAIN h[b.o].e
  PROVE  Put(HeapWith(h, b, d), c, d)
<1> DEFINE g == HeapWith(h, b, d)
<1>1. \A o \in Obj :
        /\ g[o].live = h[o].live /\ g[o].tab = h[o].tab /\ g[o].keys = h[o].keys
        /\ Len(g[o].e) = Len(h[o].e) /\ DOMAIN g[o].e = DOMAIN h[o].e
        /\ \A j \in DOMAIN h[o].e : g[o].e[j] = IF o = b.o /\ j = b.i THEN d ELSE h[o].e[j]
  BY WrittenIs
<1>2. b.o # NoObj => b.o \in Obj /\ heap[b.o].live /\ b.i \in DOMAIN heap[b.o].e /\ c = heap[b.o].e[b.i]
  BY PlaceFacts
<1>3. b.o \in Obj => b.o # NoObj
  BY HeapAssumption
<1> HIDE DEF g
<1>4. ASSUME NEW q \in Obj, NEW o \in Obj, Onto(heap[q], h[o], c, d), o = b.o => q = o
      PROVE  Onto(heap[q], g[o], c, d)
  <2>1. Extends(heap[q], g[o])
    BY <1>1, <1>4 DEF Onto, Extends
  <2>2. ASSUME NEW j \in DOMAIN g[o].e, g[o].e[j].k = "ref"
        PROVE  j \in DOMAIN heap[q].e /\ (g[o].e[j] = heap[q].e[j] \/ (heap[q].e[j] = c /\ g[o].e[j] = d))
    <3>1. CASE o = b.o /\ j = b.i
      BY <1>1, <1>2, <1>3, <1>4, <2>2, <3>1
    <3>2. CASE ~(o = b.o /\ j = b.i)
      <4>1. j \in DOMAIN h[o].e /\ g[o].e[j] = h[o].e[j]
        BY <1>1, <1>4, <2>2, <3>2
      <4> QED
        BY <1>4, <2>2, <4>1 DEF Onto
    <3> QED
      BY <3>1, <3>2
  <2> QED
    BY <2>1, <2>2 DEF Onto
<1>5. \A o \in Obj : heap[o].live /\ g[o].live => Onto(heap[o], g[o], c, d)
  BY <1>1, <1>4 DEF Put
<1>6. \A o \in Obj : ~heap[o].live /\ g[o].live => d.k = "ref" /\ o = d.o
  BY <1>1 DEF Put
<1>7. ASSUME d.k = "ref"
      PROVE  c.k = "ref" /\ Onto(heap[c.o], g[d.o], c, d) /\ (d = c \/ ~heap[d.o].live)
  <2>1. c.k = "ref" /\ Onto(heap[c.o], h[d.o], c, d) /\ (d = c \/ ~heap[d.o].live) /\ d.o \in Obj
    BY <1>7, ValueCells DEF Put
  <2>2. c.o \in Obj
    BY <2>1, PlaceFacts, ValueCells
  <2>3. d.o = b.o => c.o = d.o
    BY <1>2, <1>3, <2>1
  <2> QED
    BY <1>4, <2>1, <2>2, <2>3
<1> QED
  BY <1>5, <1>6, <1>7 DEF Put, g

(* A copy of the object c refers to is as good as it.                      *)
LEMMA OntoSame ==
  ASSUME NEW x, Len(x.e) \in Nat, NEW y, Same(x, y)
  PROVE  \A c, d : Onto(x, y, c, d)
BY DEF Same, Onto, Extends

LEMMA ClonedIs ==
  ASSUME IInv, NEW c \in ValueCell, Alive(c), NEW r \in Cloned(c)
  PROVE  /\ r.c \in ValueCell /\ WellFormed(r.h) /\ Put(r.h, c, r.c)
         /\ \A o \in Obj : heap[o].live => Same(heap[o], r.h[o]) /\ r.h[o].live
         /\ c.k = "ref" <=> r.c.k = "ref"
         /\ c.k = "ref" => /\ c.o \in Obj /\ r.c.o \in Obj
                           /\ Same(heap[c.o], r.h[r.c.o]) /\ r.h[r.c.o].rc = 1 /\ r.h[r.c.o].live
                           /\ r.c = c => heap[c.o].rc = 1
<1>0. \A o \in Obj : Len(heap[o].e) \in Nat
  BY LenProperties DEF IInv, HeapOK, Shaped
<1>1. CASE RcOf(c) > 1
  <2>1. PICK n \in Free : r = [c |-> Ref(n), h |-> NewCopy(n, Twin(c.o)), d |-> <<c>>]
    BY <1>1 DEF Cloned
  <2>2. c.k = "ref" /\ c.o \in Obj /\ heap[c.o].live
    BY <1>1, ValueCells DEF RcOf, Alive, RefersTo, Counts
  <2>3. PICK x : x = Twin(c.o)
    OBVIOUS
  <2>4. /\ r.c = Ref(n) /\ r.h = NewCopy(n, x) /\ Ref(n).k = "ref" /\ Ref(n).o = n /\ Ref(n) \in ValueCell
        /\ n \in Obj /\ ~heap[n].live
    BY <2>1, <2>3, CellKinds DEF Free
  <2>5. NewObject(x) /\ x.e = heap[c.o].e /\ x.tab = heap[c.o].tab /\ x.keys = heap[c.o].keys
    <3>1. NewObject(x) /\ x.e = heap[c.o].e /\ x.tab = heap[c.o].tab
      BY <2>2, <2>3, NewTwin
    <3>2. x.keys = heap[c.o].keys
      <4> DEFINE y == heap[c.o]
      <4>1. y \in [live : BOOLEAN, rc : 0..(RcMod - 1), tab : BOOLEAN, keys : Seq(Int), e : Seq(ValueCell)]
        BY <2>2 DEF IInv, HeapOK
      <4>2. x = [y EXCEPT !.rc = 1]
        BY <2>3 DEF Twin
      <4> HIDE DEF y
      <4>3. x.keys = y.keys
        BY <4>1, <4>2
      <4> QED
        BY <4>3 DEF y
    <3> QED
      BY <3>1, <3>2
  <2>6. /\ r.h[n] = x
        /\ \A o \in Obj \ {n} : Same(heap[o], r.h[o]) /\ r.h[o].live = heap[o].live
        /\ \A o \in Obj : heap[o].live => Same(heap[o], r.h[o]) /\ r.h[o].live
    BY <2>4, NewCopyIs
  <2>7. WellFormed(r.h)
    <3>1. Existing(x.e)
      BY <2>2, <2>5, AllAlive
    <3>2. Grows(NewCopy(n, x), x.e, {n})
      BY <2>5, <3>1, NewCopyGrows
    <3> QED
      BY <2>4, <3>2 DEF Grows
  <2>8. x.rc = 1 /\ x.live
    BY <2>5 DEF NewObject
  <2>9. Same(heap[c.o], r.h[n])
    BY <2>5, <2>6 DEF Same
  <2>10. Put(r.h, c, r.c)
    <3>1. \A o \in Obj : heap[o].live /\ r.h[o].live => Onto(heap[o], r.h[o], c, r.c)
      BY <1>0, <2>6, OntoSame
    <3>2. \A o \in Obj : ~heap[o].live /\ r.h[o].live => o = n
      BY <2>6
    <3>3. Onto(heap[c.o], r.h[n], c, r.c)
      BY <1>0, <2>2, <2>9, OntoSame
    <3> QED
      BY <2>2, <2>4, <3>1, <3>2, <3>3 DEF Put
  <2>11. r.c # c
    BY <2>2, <2>4
  <2> QED
    BY <2>2, <2>4, <2>6, <2>7, <2>8, <2>9, <2>10, <2>11
<1>2. CASE ~(RcOf(c) > 1)
  <2>1. r.c = c /\ r.h = heap
    BY <1>2 DEF Cloned
  <2>2. c.k = "ref" => c.o \in Obj /\ heap[c.o].live /\ heap[c.o].rc = 1
    <3> SUFFICES ASSUME c.k = "ref" PROVE c.o \in Obj /\ heap[c.o].live /\ heap[c.o].rc = 1
      OBVIOUS
    <3>1. c.o \in Obj /\ heap[c.o].live
      BY ValueCells DEF Alive, RefersTo, Counts
    <3>2. heap[c.o].rc > 0 /\ heap[c.o].rc \in Int /\ ~(heap[c.o].rc > 1)
      BY <1>2, <3>1, HeapAssumption DEF IInv, HeapOK, RcOf
    <3> QED
      BY <3>1, <3>2
  <2>3. \A o \in Obj : Onto(heap[o], heap[o], c, c) /\ Same(heap[o], heap[o])
    BY <1>0, OntoSame DEF Same
  <2>4. Put(heap, c, c)
    BY <2>2, <2>3 DEF Put
  <2> QED
    BY <2>1, <2>2, <2>3, <2>4, HeapWellFormed
<1> QED
  BY <1>1, <1>2

LEMMA VarStarts ==
  ASSUME IInv, IInv', NEW v \in Var, env'[v] = env[v], NEW c, NEW d
  PROVE  Starts(Moved({}, c, d), env[v], env'[v])
<1> SUFFICES ASSUME env'[v].k = "ref"
             PROVE  env[v].k = "ref" /\ <<env[v].o, env'[v].o>> \in Moved({}, c, d)
  BY DEF Starts
<1>1. PICK q : q = env'[v].o
  OBVIOUS
<1>2. InEnv(q) /\ InEnv(q)'
  BY <1>1 DEF InEnv, RefersTo, Counts
<1>3. q \in Obj /\ heap[q].live /\ heap'[q].live
  BY <1>2, AliveReferred, AliveReferredNext DEF ReferredAlive
<1> QED
  BY <1>1, <1>3 DEF Moved

LEMMA Pushed ==
  ASSUME IInv, IInv', NEW n \in 0..Len(stack), NEW x, stack' = Append(Below(n), x)
  PROVE  x \in OperandCell
<1>1. Below(n) \in Seq(OperandCell)
  BY Operands
<1>2. Len(Below(n)) + 1 \in DOMAIN stack' /\ stack'[Len(Below(n)) + 1] = x
  BY <1>1, AppendProperties
<1>3. stack' \in Seq(OperandCell)
  BY DEF IInv
<1> QED
  BY <1>2, <1>3, SeqFinite, ElementOfSeq

(* What a borrow moves on to: element x.i of what is now in its place.     *)
LEMMA MovedOn ==
  ASSUME CInv, IInv', NEW b \in BorrowCell, BorrowFits(env, heap, b), Leads(b), ~Dangling(b),
         NEW c \in ValueCell, c = Pointed(b), NEW d \in ValueCell, d.k = "ref", Put(heap', c, d),
         b.o = NoObj => env'[b.v] = d,
         b.o # NoObj => env'[b.v] = env[b.v] /\ b.i \in DOMAIN heap'[b.o].e /\ heap'[b.o].e[b.i] = d,
         NEW s \in Int, NEW x \in BorrowCell, x.v = b.v, x.p = Append(b.p, s), x.o = d.o,
         \A j \in DOMAIN x.rcs : x.rcs[j] = 1,
         AtStep(heap', d, s) = x.i,
         IF heap'[d.o].tab THEN Len(heap'[d.o].e) >= x.len ELSE Len(heap'[d.o].e) = x.len
  PROVE  BorrowFits(env', heap', x)
<1> DEFINE L == Len(b.p)
           M == Moved({}, c, d)
<1>1. IInv /\ b.p \in Seq(Int) /\ b.v \in Var /\ L \in Nat /\ HeapOK(heap) /\ HeapOK(heap')
  BY LenProperties DEF CInv, IInv, BorrowCell
<1>2. /\ Len(x.p) = L + 1 /\ x.p[L + 1] = s /\ x.p # <<>>
      /\ \A j \in 1..L : x.p[j] = b.p[j]
  <2>1. /\ Append(b.p, s) \in Seq(Int) /\ Len(Append(b.p, s)) = L + 1 /\ Append(b.p, s)[L + 1] = s
        /\ \A j \in 1..L : Append(b.p, s)[j] = b.p[j]
    BY <1>1, AppendProperties
  <2>2. Append(b.p, s) # <<>>
    <3>1. L + 1 # 0 /\ Len(<<>>) = 0
      BY <1>1
    <3> QED
      BY <2>1, <3>1
  <2> QED
    BY <2>1, <2>2
<1>3. x.o # NoObj
  BY ValueCells, HeapAssumption
<1> SUFFICES ASSUME NEW g, Path(g, heap', env'[b.v], x.p)
             PROVE  Fits(heap', x, g[L])
  <2>1. Len(x.p) - 1 = L
    BY <1>1, <1>2
  <2> QED
    BY <1>2, <1>3, <2>1 DEF BorrowFits
<1>4. /\ g[0] = env'[b.v]
      /\ \A j \in 1..(L + 1) : g[j] = Onward(heap', g[j - 1], x.p[j])
  BY <1>2 DEF Path
<1> DEFINE w == [j \in 0..L |-> g[j]]
<1>5. Path(w, heap', env'[b.v], b.p)
  <2>1. w = [j \in 0..L |-> w[j]] /\ w[0] = env'[b.v]
    BY <1>1, <1>4
  <2>2. \A j \in 1..L : w[j] = Onward(heap', w[j - 1], b.p[j])
    <3> TAKE j \in 1..L
    <3>1. j \in 0..L /\ j - 1 \in 0..L /\ j \in 1..(L + 1)
      BY <1>1
    <3> QED
      BY <1>2, <1>4, <3>1
  <2> HIDE DEF w
  <2> QED
    BY <2>1, <2>2 DEF Path
<1>6. w[L] = g[L]
  BY <1>1
<1> HIDE DEF w
<1>7. ASSUME g[L].k = "ref" PROVE g[L] = d
  <2>1. CASE b.o = NoObj
    <3>1. L = 0
      BY <2>1 DEF BorrowFits
    <3> QED
      BY <1>4, <2>1, <3>1
  <2>2. CASE b.o # NoObj
    <3>1. b.p # <<>> /\ L >= 1 /\ L - 1 \in 0..L /\ L \in 1..L
      <4>1. b.p # <<>>
        BY <2>2 DEF BorrowFits
      <4>2. L # 0
        BY <1>1, <4>1, EmptySeq
      <4> QED
        BY <1>1, <4>1, <4>2
    <3>2. PICK v : LeadsBy(v, b)
      BY <1>1, LeadsPath
    <3>3. Path(v, heap, env[b.v], b.p) /\ v[L - 1].o = b.o
      BY <3>1, <3>2 DEF LeadsBy
    <3>4. Carries(M, heap, heap') /\ Starts(M, env[b.v], env'[b.v])
      BY <1>1, <2>2, PutCarries, VarStarts
    <3>5. Fits(heap', b, w[L - 1])
      <4> HIDE DEF M
      <4>1. BorrowFits(env', heap', b)
        BY <1>1, <3>4, BorrowKept
      <4> QED
        BY <1>5, <3>1, <4>1 DEF BorrowFits
    <3>6. Starts(M, v[L - 1], w[L - 1])
      <4> HIDE DEF M
      <4>1. PICK C, D, p : C = env[b.v] /\ D = env'[b.v] /\ p = b.p
        OBVIOUS
      <4>2. p \in Seq(Int) /\ Path(v, heap, C, p) /\ Path(w, heap', D, p) /\ Starts(M, C, D) /\ L = Len(p)
        BY <1>1, <1>5, <3>3, <3>4, <4>1
      <4>3. \A j \in 0..Len(p) : Starts(M, v[j], w[j])
        BY <1>1, <3>4, <4>2, PathKept
      <4> QED
        BY <3>1, <4>2, <4>3
    <3>7. w[L] = Onward(heap', w[L - 1], b.p[L])
      BY <1>5, <3>1 DEF Path
    <3>8. /\ w[L - 1].k = "ref"
          /\ w[L] = heap'[w[L - 1].o].e[AtStep(heap', w[L - 1], b.p[L])]
      BY <1>6, <1>7, <3>7 DEF Onward, Null
    <3>9. AtStep(heap', w[L - 1], b.p[L]) = b.i
      BY <3>5, <3>8 DEF Fits
    <3>10. <<b.o, w[L - 1].o>> \in M
      BY <3>3, <3>6, <3>8 DEF Starts
    <3>11. c.k = "ref" => b.o # c.o
      <4> SUFFICES ASSUME c.k = "ref", b.o = c.o PROVE FALSE
        OBVIOUS
      <4>1. b.o \in Obj /\ b.i \in DOMAIN heap[b.o].e /\ c = heap[b.o].e[b.i]
        BY <1>1, <2>2, PlaceFacts
      <4>2. Refers(heap, b.o, b.o)
        BY <4>1 DEF Refers, RefersTo, Counts
      <4>3. PICK K \in Nat : \E r : Ranked(heap, r, K)
        BY DEF CInv, Ordered
      <4>4. PICK r : Ranked(heap, r, K)
        BY <4>3
      <4>5. r[b.o] < r[b.o] /\ r[b.o] \in 0..K
        BY <4>1, <4>2, <4>4 DEF Ranked
      <4> QED
        BY <4>5
    <3>12. w[L - 1].o = b.o
      BY <3>10, <3>11 DEF Moved
    <3> QED
      BY <1>6, <2>2, <3>8, <3>9, <3>12
  <2> QED
    BY <2>1, <2>2
<1>8. x.p[Len(x.p)] = s
  BY <1>2
<1> QED
  BY <1>7, <1>8 DEF Fits

LEMMA BorrowCareful ==
  ASSUME CInv, IInv', NEW v \in Var, Borrow(v)
  PROVE  CInv'
<1>1. PICK c : c = env[v]
  OBVIOUS
<1>2. IInv /\ c \in ValueCell /\ Alive(c) /\ 0 \in 0..Len(stack)
  BY <1>1, AllAlive, Leaving DEF CInv
<1>3. PICK r \in Cloned(c) :
        Do([env EXCEPT ![v] = r.c],
           Append(stack, BorrowOf(v, <<>>, NoObj, 0, 0, <<IF r.c.k = "ref" THEN r.h[r.c.o].rc ELSE 1>>)),
           r.h, r.d)
  BY <1>1 DEF Borrow
<1>4. PICK m : m = IF r.c.k = "ref" THEN r.h[r.c.o].rc ELSE 1
  OBVIOUS
<1>5. PICK x : x = BorrowOf(v, <<>>, NoObj, 0, 0, <<m>>)
  OBVIOUS
<1>6. env' = [env EXCEPT ![v] = r.c] /\ stack' = Append(stack, x) /\ heap' = r.h /\ UNCHANGED status
  BY <1>3, <1>4, <1>5 DEF Do
<1>7. /\ r.c \in ValueCell /\ Put(heap', c, r.c)
      /\ \A o \in Obj : heap[o].live => Same(heap[o], heap'[o]) /\ heap'[o].live
      /\ c.k = "ref" <=> r.c.k = "ref"
      /\ c.k = "ref" => r.h[r.c.o].rc = 1
  BY <1>2, <1>6, ClonedIs
<1>8. m = 1
  BY <1>4, <1>7
<1>9. CellFits(env', heap', x) /\ x.k = "borrow"
  BY <1>5, <1>8 DEF CellFits, BorrowFits, BorrowOf
<1>10. x \in OperandCell /\ Leaves(0, x)
  <2>1. stack' = Append(Below(0), x)
    BY <1>2, <1>6, BelowNone
  <2> QED
    BY <1>2, <2>1, Pushed, Leaving
<1>11. LengthsKept
  BY <1>7 DEF LengthsKept, Same
<1>12. \A w \in Var : env'[w] = env[w] \/ (env[w] = c /\ env'[w] = r.c)
  <2>1. env \in [Var -> ValueCell]
    BY <1>2 DEF IInv
  <2> QED
    BY <1>1, <1>6, <2>1
<1> QED
  BY <1>2, <1>6, <1>7, <1>9, <1>10, <1>11, <1>12, PutStep

(* What a borrow on the stack is of, for an instruction that uses it.      *)
LEMMA Borrowed ==
  ASSUME CInv, NEW b, b.k = "borrow", Leads(b), NEW j \in DOMAIN stack, stack[j] = b
  PROVE  /\ b \in BorrowCell /\ BorrowFits(env, heap, b) /\ ~Dangling(b)
         /\ Pointed(b) \in ValueCell /\ Alive(Pointed(b)) /\ b.v \in Var
<1>1. IInv /\ b \in BorrowCell /\ BorrowFits(env, heap, b)
  BY AllAlive, OperandCells DEF CInv, StackFits, CellFits
<1>2. PICK K \in Nat : \E r : Ranked(heap, r, K)
  BY DEF CInv, Ordered
<1>3. PICK r : Ranked(heap, r, K)
  BY <1>2
<1>4. ~Dangling(b)
  BY <1>1, <1>3, WayOwned
<1> QED
  BY <1>1, <1>4, PlaceFacts

LEMMA MoveCareful ==
  ASSUME CInv, IInv', Move
  PROVE  CInv'
<1>1. PICK b : b = Operand(0)
  OBVIOUS
<1>2. PICK c : c = Pointed(b)
  OBVIOUS
<1>3. /\ IInv /\ Has(1) /\ b.k = "borrow" /\ Leads(b) /\ ~Dangling(b) /\ 1 \in 0..Len(stack)
      /\ env' = EnvWith(b, Null) /\ stack' = Append(Below(1), c) /\ heap' = HeapWith(heap, b, Null)
      /\ UNCHANGED status
  BY <1>1, <1>2, Leaving DEF CInv, Move, Do
<1>4. b \in BorrowCell /\ c \in ValueCell
  <2>1. b \in OperandCell
    BY <1>1, <1>3, Operands1 DEF Has
  <2>2. b \in BorrowCell
    BY <1>3, <2>1, OperandCells
  <2> QED
    BY <1>2, <1>3, <2>2, PlaceFacts
<1>5. Null \in ValueCell /\ ~(Null.k = "ref") /\ WellFormed(heap)
  BY <1>3, ValueCells, HeapWellFormed DEF Null
<1>6. b.o # NoObj => b.i \in DOMAIN heap[b.o].e
  BY <1>3, <1>4, PlaceFacts
<1>7. Put(heap', c, Null)
  <2>1. \A o \in Obj : Onto(heap[o], heap[o], c, Null)
    <3>1. \A o \in Obj : Len(heap[o].e) \in Nat /\ Same(heap[o], heap[o])
      BY <1>3, LenProperties DEF IInv, HeapOK, Shaped, Same
    <3> QED
      BY <3>1, OntoSame
  <2>2. Put(heap, c, Null)
    BY <1>5, <2>1 DEF Put
  <2>3. PICK d : d = Null
    OBVIOUS
  <2>4. Put(HeapWith(heap, b, d), c, d)
    BY <1>2, <1>3, <1>4, <1>5, <1>6, <2>2, <2>3, PutWritten
  <2> QED
    BY <1>3, <2>3, <2>4
<1>8. LengthsKept
  <2>1. PICK d : d = Null
    OBVIOUS
  <2>2. \A o \in Obj : Len(HeapWith(heap, b, d)[o].e) = Len(heap[o].e)
    BY <1>4, <1>5, <1>6, <2>1, WrittenIs
  <2> QED
    BY <1>3, <2>1, <2>2 DEF LengthsKept
<1>9. \A w \in Var : env'[w] = env[w] \/ (env[w] = c /\ env'[w] = Null)
  <2>1. env \in [Var -> ValueCell]
    BY <1>3 DEF IInv
  <2> QED
    BY <1>2, <1>3, <2>1 DEF EnvWith, Pointed
<1>10. c \in OperandCell /\ c.k \in {"num", "null", "ref"} /\ Leaves(1, c)
  BY <1>3, <1>4, CellKinds, Leaving
<1> QED
  BY <1>3, <1>4, <1>5, <1>7, <1>8, <1>9, <1>10, PutStep

LEMMA Ones ==
  ASSUME NEW s \in Seq(Nat), Len(s) >= 1, \A j \in DOMAIN s : s[j] = 1,
         NEW t, t = [s EXCEPT ![Len(s)] = 1] \o << 1 >>
  PROVE  \A j \in DOMAIN t : t[j] = 1
<1>1. PICK n : n = Len(s)
  OBVIOUS
<1>2. n \in Nat /\ n >= 1 /\ DOMAIN s = 1..n
  BY <1>1, SeqFinite
<1>3. n \in 1..n /\ 1 \in Nat
  BY <1>2
<1> DEFINE u == [s EXCEPT ![n] = 1]
           w == <<1>>
<1>4. u \in Seq(Nat) /\ Len(u) = n /\ \A j \in 1..n : u[j] = IF j = n THEN 1 ELSE s[j]
  BY <1>1, <1>3, ExceptSeq
<1>5. \A j \in 1..n : u[j] = 1
  BY <1>2, <1>4
<1>6. w \in Seq(Nat) /\ Len(w) = 1 /\ w[1] = 1
  OBVIOUS
<1>7. t = u \o w
  BY <1>1
<1> HIDE DEF u, w
<1>8. u \in Seq(Nat) /\ w \in Seq(Nat)
  BY <1>4, <1>6
<1>9. /\ u \o w \in Seq(Nat) /\ Len(u \o w) = Len(u) + Len(w)
      /\ \A j \in 1..(Len(u) + Len(w)) : (u \o w)[j] = IF j <= Len(u) THEN u[j] ELSE w[j - Len(u)]
  BY <1>8, ConcatProperties
<1>10. /\ t \in Seq(Nat) /\ Len(t) = n + 1
       /\ \A j \in 1..(n + 1) : t[j] = IF j <= n THEN u[j] ELSE w[j - n]
  BY <1>4, <1>6, <1>7, <1>9
<1>11. DOMAIN t = 1..(n + 1)
  BY <1>10, SeqFinite
<1>12. ASSUME NEW j \in 1..(n + 1) PROVE t[j] = 1
  <2>1. CASE j <= n
    <3>1. j \in 1..n
      BY <1>2, <1>12, <2>1
    <3> QED
      BY <1>5, <1>10, <1>12, <2>1, <3>1
  <2>2. CASE ~(j <= n)
    <3>1. j - n = 1
      BY <1>2, <1>12, <2>2
    <3> QED
      BY <1>6, <1>10, <1>12, <2>2, <3>1
  <2> QED
    BY <2>1, <2>2
<1> QED
  BY <1>11, <1>12

LEMMA BorrowElementCareful ==
  ASSUME CInv, IInv', Careful, BorrowElement
  PROVE  CInv'
<1>1. PICK b, i : b = Operand(1) /\ i = Operand(0)
  OBVIOUS
<1>2. PICK c : c = Pointed(b)
  OBVIOUS
<1>3. PICK at : at = Index(c, i)
  OBVIOUS
<1>4. /\ IInv /\ Has(2) /\ b.k = "borrow" /\ IsCell(i) /\ Leads(b) /\ 2 \in 0..Len(stack)
  BY <1>1, Leaving DEF CInv, BorrowElement, MayUse, Careful
<1>5. /\ b \in BorrowCell /\ BorrowFits(env, heap, b) /\ ~Dangling(b)
      /\ c \in ValueCell /\ Alive(c) /\ b.v \in Var
  <2>1. Len(stack) - 1 \in DOMAIN stack /\ stack[Len(stack) - 1] = b
    BY <1>1, <1>4, Tops
  <2> QED
    BY <1>2, <1>4, <2>1, Borrowed
<1>6. CASE at = 0
  <2>1. Stop("raised")
    BY <1>1, <1>2, <1>3, <1>5, <1>6 DEF BorrowElement
  <2> QED
    BY <2>1, StopCareful DEF Stop
<1>7. CASE at # 0
  <2>1. PICK s : s = StepOf(c, i.n)
    OBVIOUS
  <2>2. PICK r \in Cloned(c) :
          Do(EnvWith(b, r.c),
             Append(Below(2),
               BorrowOf(b.v, Append(b.p, s), r.c.o, at, Len(r.h[r.c.o].e),
                        [b.rcs EXCEPT ![Len(b.rcs)] = r.h[r.c.o].rc] \o <<1>>)),
             HeapWith(r.h, b, r.c), r.d)
    BY <1>1, <1>2, <1>3, <1>5, <1>7, <2>1 DEF BorrowElement
  <2>3. PICK rcs, len : /\ rcs = [b.rcs EXCEPT ![Len(b.rcs)] = r.h[r.c.o].rc] \o <<1>>
                        /\ len = Len(r.h[r.c.o].e)
    OBVIOUS
  <2>4. PICK x : x = BorrowOf(b.v, Append(b.p, s), r.c.o, at, len, rcs)
    OBVIOUS
  <2>5. /\ env' = EnvWith(b, r.c) /\ stack' = Append(Below(2), x) /\ heap' = HeapWith(r.h, b, r.c)
        /\ UNCHANGED status
    BY <2>2, <2>3, <2>4 DEF Do
  <2>6. /\ x.k = "borrow" /\ x.v = b.v /\ x.p = Append(b.p, s) /\ x.o = r.c.o /\ x.i = at /\ x.len = len
        /\ x.rcs = rcs
    BY <2>4 DEF BorrowOf
  <2>7. c.k = "ref" /\ c.o \in Obj /\ i.k = "num" /\ at \in DOMAIN Elems(c) /\ Elems(c) = heap[c.o].e
        /\ heap[c.o].live
    BY <1>3, <1>5, <1>7, IndexIs, ValueCells DEF Alive, RefersTo, Counts
  <2>8. /\ r.c \in ValueCell /\ WellFormed(r.h) /\ Put(r.h, c, r.c) /\ r.c.k = "ref" /\ r.c.o \in Obj
        /\ \A o \in Obj : heap[o].live => Same(heap[o], r.h[o]) /\ r.h[o].live
        /\ Same(heap[c.o], r.h[r.c.o]) /\ r.h[r.c.o].rc = 1
    BY <1>4, <1>5, <2>7, ClonedIs
  <2>9. b.o # NoObj => b.o \in Obj /\ b.i \in DOMAIN r.h[b.o].e /\ c = heap[b.o].e[b.i]
    BY <1>2, <1>4, <1>5, <2>8, PlaceFacts DEF Same
  <2>10. \A o \in Obj :
           /\ heap'[o].live = r.h[o].live /\ heap'[o].tab = r.h[o].tab /\ heap'[o].keys = r.h[o].keys
           /\ Len(heap'[o].e) = Len(r.h[o].e) /\ DOMAIN heap'[o].e = DOMAIN r.h[o].e
           /\ \A j \in DOMAIN r.h[o].e : heap'[o].e[j] = IF o = b.o /\ j = b.i THEN r.c ELSE r.h[o].e[j]
    BY <1>5, <2>5, <2>8, <2>9, WrittenIs
  <2>11. Put(heap', c, r.c)
    BY <1>2, <1>4, <1>5, <2>5, <2>8, <2>9, PutWritten
  <2>12. LengthsKept
    BY <2>8, <2>10 DEF LengthsKept, Same
  <2>13. \A w \in Var : env'[w] = env[w] \/ (env[w] = c /\ env'[w] = r.c)
    <3>1. env \in [Var -> ValueCell]
      BY <1>4 DEF IInv
    <3> QED
      BY <1>2, <2>5, <3>1 DEF EnvWith, Pointed
  <2>14. x \in OperandCell /\ Leaves(2, x)
    BY <1>4, <2>5, Pushed, Leaving
  <2>15. x \in BorrowCell
    BY <2>6, <2>14, OperandCells
  <2>16. s \in Int
    <3>1. i \in OperandCell
      BY <1>1, <1>4, Operands2 DEF Has
    <3>2. i \in ValueCell
      BY <1>4, <3>1, OperandCells
    <3>3. i.n \in Int
      BY <2>7, <3>2, ValueCells
    <3> QED
      BY <1>4, <1>5, <2>1, <2>7, <3>3, StepIsInt
  <2>17. \A j \in DOMAIN x.rcs : x.rcs[j] = 1
    <3>1. b.rcs \in Seq(Nat) /\ Len(b.rcs) = Len(b.p) + 1 /\ Len(b.p) \in Nat
      BY <1>5, LenProperties DEF BorrowCell
    <3>2. PICK u : u = b.rcs
      OBVIOUS
    <3>3. u \in Seq(Nat) /\ Len(u) >= 1 /\ (\A j \in DOMAIN u : u[j] = 1)
          /\ rcs = [u EXCEPT ![Len(u)] = 1] \o <<1>>
      BY <1>5, <2>3, <2>8, <3>1, <3>2 DEF BorrowFits
    <3>4. \A j \in DOMAIN rcs : rcs[j] = 1
      BY <3>3, Ones
    <3> QED
      BY <2>6, <3>4
  <2>18. AtStep(heap', r.c, s) = x.i
    <3>1. AtStep(heap, c, s) = at
      BY <1>3, <1>7, <2>1, <2>7 DEF Index, StepIn, AtStep, IsTable
    <3>2. at \in 1..Len(heap[c.o].e)
      <4>1. heap[c.o].e \in Seq(ValueCell)
        BY <1>4, <2>7 DEF IInv, HeapOK, Shaped
      <4> QED
        BY <2>7, <4>1, SeqFinite
    <3>3. SameStep(heap, c, heap', r.c, s)
      <4>1. Extends(heap[c.o], heap'[r.c.o])
        BY <2>8, <2>11 DEF Put, Onto
      <4> QED
        BY <1>4, <2>7, <2>8, <2>16, <4>1, StepKept DEF IInv
    <3> QED
      BY <2>6, <3>1, <3>2, <3>3 DEF SameStep
  <2>19. Len(heap'[r.c.o].e) = x.len
    BY <2>3, <2>6, <2>8, <2>10
  <2>20. Len(heap'[r.c.o].e) \in Nat
    BY <2>8, LenProperties DEF IInv, HeapOK, Shaped
  <2>21. BorrowFits(env', heap', x)
    <3>1. b.o = NoObj => env'[b.v] = r.c
      BY <1>4, <1>5, <2>5 DEF EnvWith, IInv
    <3>2. b.o # NoObj => env'[b.v] = env[b.v] /\ b.i \in DOMAIN heap'[b.o].e /\ heap'[b.o].e[b.i] = r.c
      BY <2>5, <2>9, <2>10 DEF EnvWith
    <3>3. IF heap'[r.c.o].tab THEN Len(heap'[r.c.o].e) >= x.len ELSE Len(heap'[r.c.o].e) = x.len
      BY <2>19, <2>20
    <3>4. PICK d : d = r.c
      OBVIOUS
    <3> QED
      BY <1>2, <1>4, <1>5, <2>6, <2>8, <2>11, <2>15, <2>16, <2>17, <2>18, <3>1, <3>2, <3>3, <3>4, MovedOn
  <2>22. CellFits(env', heap', x)
    BY <2>6, <2>21 DEF CellFits
  <2> QED
    BY <1>4, <1>5, <2>5, <2>8, <2>11, <2>12, <2>13, <2>14, <2>22, PutStep
<1> QED
  BY <1>6, <1>7

(* A key entered leaves a table's pairs where they are.                    *)
More(x, y) ==
  /\ Extends(x, y)
  /\ \A j \in DOMAIN y.e : y.e[j].k = "ref" => j \in DOMAIN x.e /\ y.e[j] = x.e[j]

LEMMA OntoMore ==
  ASSUME NEW x, NEW y, NEW z, NEW c, NEW d, Onto(x, y, c, d), More(y, z),
         Len(x.e) \in Nat, Len(y.e) \in Nat, Len(z.e) \in Nat
  PROVE  Onto(x, z, c, d)
<1>1. Extends(x, z)
  BY DEF Onto, More, Extends
<1>2. ASSUME NEW j \in DOMAIN z.e, z.e[j].k = "ref"
      PROVE  j \in DOMAIN x.e /\ (z.e[j] = x.e[j] \/ (x.e[j] = c /\ z.e[j] = d))
  BY <1>2 DEF Onto, More
<1> QED
  BY <1>1, <1>2 DEF Onto

LEMMA EnteredMore ==
  ASSUME NEW x \in [live : BOOLEAN, rc : Int, tab : BOOLEAN, keys : Seq(Int), e : Seq(ValueCell)],
         x.tab, Keyed(x), NEW n \in Int
  PROVE  LET t == Entered(x, n) IN
         /\ More(x, t) /\ t.tab /\ t.live = x.live /\ Keyed(t)
         /\ DOMAIN x.e \subseteq DOMAIN t.e /\ \A j \in DOMAIN x.e : t.e[j] = x.e[j]
<1> DEFINE t == Entered(x, n)
<1>1. /\ x.keys \in Seq(Int) /\ x.e \in Seq(ValueCell) /\ Len(x.e) \in Nat /\ Len(x.keys) = Len(x.e)
      /\ DOMAIN x.keys = 1..Len(x.e) /\ DOMAIN x.e = 1..Len(x.e)
  BY SeqFinite DEF Keyed
<1>2. Keyed(t) /\ t.live = x.live
  BY EnteredIs
<1>3. CASE Entry(x.keys, n) # 0
  <2>1. t = x
    BY <1>3 DEF Entered
  <2>2. Extends(x, x)
    BY <1>1 DEF Extends
  <2> QED
    BY <1>2, <2>1, <2>2 DEF More
<1>4. CASE Entry(x.keys, n) = 0
  <2> DEFINE ks == Append(x.keys, n)
             vs == Append(x.e, Null)
  <2>1. /\ ks \in Seq(Int) /\ Len(ks) = Len(x.e) + 1 /\ \A i \in 1..Len(x.e) : ks[i] = x.keys[i]
    BY <1>1, AppendProperties
  <2>2. Null \in ValueCell
    BY ValueCells
  <2>3. /\ vs \in Seq(ValueCell) /\ Len(vs) = Len(x.e) + 1 /\ vs[Len(x.e) + 1] = Null
        /\ \A i \in 1..Len(x.e) : vs[i] = x.e[i]
    BY <1>1, <2>2, AppendProperties
  <2>4. t = [x EXCEPT !.keys = ks, !.e = vs]
    BY <1>4 DEF Entered
  <2> HIDE DEF ks, vs
  <2>5. DOMAIN ks = 1..(Len(x.e) + 1) /\ DOMAIN vs = 1..(Len(x.e) + 1)
    BY <2>1, <2>3, SeqFinite
  <2>6. t.tab = x.tab /\ t.keys = ks /\ t.e = vs
    BY <2>4
  <2> HIDE DEF t
  <2>7. 1..Len(x.e) \subseteq 1..(Len(x.e) + 1) /\ Len(x.e) + 1 >= Len(x.e)
    BY <1>1
  <2>8. Extends(x, t)
    BY <1>1, <2>1, <2>3, <2>5, <2>6, <2>7 DEF Extends
  <2>9. ASSUME NEW j \in DOMAIN t.e, t.e[j].k = "ref" PROVE j \in DOMAIN x.e /\ t.e[j] = x.e[j]
    <3>1. j \in 1..(Len(x.e) + 1)
      BY <2>5, <2>6, <2>9
    <3>2. j # Len(x.e) + 1
      BY <2>3, <2>6, <2>9 DEF Null
    <3>3. j \in 1..Len(x.e)
      <4>1. PICK m : m = Len(x.e)
        OBVIOUS
      <4>2. m \in Nat /\ j \in 1..(m + 1) /\ j # m + 1
        BY <1>1, <3>1, <3>2, <4>1
      <4> QED
        BY <4>1, <4>2
    <3> QED
      BY <1>1, <2>3, <2>6, <3>3
  <2>10. More(x, t)
    BY <2>8, <2>9 DEF More
  <2>11. DOMAIN x.e \subseteq DOMAIN t.e /\ \A j \in DOMAIN x.e : t.e[j] = x.e[j]
    BY <1>1, <2>3, <2>5, <2>6, <2>7
  <2> QED
    BY <1>2, <2>6, <2>10, <2>11 DEF t
<1> QED
  BY <1>3, <1>4

Replaced(h, p, t) == [h EXCEPT ![p] = t]

LEMMA EnteredPut ==
  ASSUME IInv, NEW c \in ValueCell, NEW d \in ValueCell, NEW h, WellFormed(h), Put(h, c, d),
         d.k = "ref", h[d.o].tab, h[d.o].live, NEW n \in Int, NEW t, t = Entered(h[d.o], n),
         Len(t.e) <= MaxLen, NEW g, g = Replaced(h, d.o, t)
  PROVE  /\ WellFormed(g) /\ Put(g, c, d) /\ g[d.o] = t /\ t.live /\ t.tab /\ t.rc = h[d.o].rc
         /\ \A o \in Obj \ {d.o} : g[o] = h[o]
         /\ Entry(t.keys, n) \in 1..Len(t.e) /\ Len(t.e) \in Nat
         /\ \A o \in Obj : /\ g[o].live = h[o].live /\ DOMAIN h[o].e \subseteq DOMAIN g[o].e
                           /\ \A j \in DOMAIN h[o].e : g[o].e[j] = h[o].e[j]
<1>1. PICK p : p = d.o
  OBVIOUS
<1>2. p \in Obj /\ c.k = "ref" /\ c.o \in Obj
  BY <1>1, ValueCells DEF Put
<1>3. /\ h \in [Obj -> [live : BOOLEAN, rc : Int, tab : BOOLEAN, keys : Seq(Int), e : Seq(ValueCell)]]
      /\ Keyed(h[p]) /\ Shaped(h)
  BY <1>2 DEF WellFormed
<1> DEFINE x == h[p]
<1>4. x \in [live : BOOLEAN, rc : Int, tab : BOOLEAN, keys : Seq(Int), e : Seq(ValueCell)]
      /\ x.tab /\ Keyed(x) /\ t = Entered(x, n)
  BY <1>1, <1>2, <1>3
<1> HIDE DEF x
<1>5. /\ More(x, t) /\ t.tab /\ t.live = x.live /\ Keyed(t) /\ t.rc = x.rc
      /\ DOMAIN x.e \subseteq DOMAIN t.e /\ \A j \in DOMAIN x.e : t.e[j] = x.e[j]
      /\ t \in [live : BOOLEAN, rc : Int, tab : BOOLEAN, keys : Seq(Int), e : Seq(ValueCell)]
      /\ Entry(t.keys, n) \in 1..Len(t.e)
  <2>1. PICK y : y = Entered(x, n)
    OBVIOUS
  <2>2. /\ More(x, y) /\ y.tab /\ y.live = x.live /\ Keyed(y)
        /\ DOMAIN x.e \subseteq DOMAIN y.e /\ \A j \in DOMAIN x.e : y.e[j] = x.e[j]
    <3>1. LET u == Entered(x, n) IN
          /\ More(x, u) /\ u.tab /\ u.live = x.live /\ Keyed(u)
          /\ DOMAIN x.e \subseteq DOMAIN u.e /\ \A j \in DOMAIN x.e : u.e[j] = x.e[j]
      BY <1>4, EnteredMore
    <3> QED
      BY <2>1, <3>1
  <2>3. /\ y \in [live : BOOLEAN, rc : Int, tab : BOOLEAN, keys : Seq(Int), e : Seq(ValueCell)]
        /\ y.rc = x.rc /\ Entry(y.keys, n) \in 1..Len(y.e)
    <3>1. LET u == Entered(x, n) IN
          /\ u \in [live : BOOLEAN, rc : Int, tab : BOOLEAN, keys : Seq(Int), e : Seq(ValueCell)]
          /\ u.rc = x.rc /\ Entry(u.keys, n) \in 1..Len(u.e)
      BY <1>4, EnteredIs
    <3> QED
      BY <2>1, <3>1
  <2>4. t = y
    BY <1>4, <2>1
  <2> QED
    BY <2>2, <2>3, <2>4
<1>6. g = [h EXCEPT ![p] = t] /\ g[p] = t /\ \A o \in Obj \ {p} : g[o] = h[o]
  BY <1>1, <1>2, <1>3 DEF Replaced
<1>7. t.e \in Seq(ValueCell) /\ Len(t.e) \in Nat /\ Len(x.e) \in Nat
  BY <1>4, <1>5, LenProperties
<1>8. WellFormed(g)
  <2>1. g \in [Obj -> [live : BOOLEAN, rc : Int, tab : BOOLEAN, keys : Seq(Int), e : Seq(ValueCell)]]
    BY <1>3, <1>5, <1>6
  <2>2. Shaped(g)
    BY <1>3, <1>6, <1>7 DEF Shaped
  <2>3. \A o \in Obj : Keyed(g[o]) /\ (~g[o].live => g[o].e = <<>>)
    BY <1>1, <1>5, <1>6 DEF WellFormed, x
  <2> QED
    BY <2>1, <2>2, <2>3 DEF WellFormed
<1>9. \A o \in Obj : /\ g[o].live = h[o].live /\ DOMAIN h[o].e \subseteq DOMAIN g[o].e
                     /\ \A j \in DOMAIN h[o].e : g[o].e[j] = h[o].e[j]
  BY <1>5, <1>6 DEF x
<1>10. ASSUME NEW q \in Obj, NEW o \in Obj, Onto(heap[q], h[o], c, d) PROVE Onto(heap[q], g[o], c, d)
  <2>1. Len(heap[q].e) \in Nat
    BY LenProperties DEF IInv, HeapOK, Shaped
  <2>2. CASE o = p
    <3>1. PICK y : y = heap[q]
      OBVIOUS
    <3>2. Onto(y, x, c, d) /\ Len(y.e) \in Nat
      BY <1>10, <2>1, <2>2, <3>1 DEF x
    <3>3. Onto(y, t, c, d)
      BY <1>5, <1>7, <3>2, OntoMore
    <3> QED
      BY <1>6, <2>2, <3>1, <3>3
  <2>3. CASE o # p
    BY <1>6, <1>10, <2>3
  <2> QED
    BY <2>2, <2>3
<1>11. Put(g, c, d)
  <2>1. /\ \A o \in Obj : heap[o].live /\ h[o].live => Onto(heap[o], h[o], c, d)
        /\ \A o \in Obj : ~heap[o].live /\ h[o].live => o = d.o
        /\ Onto(heap[c.o], h[d.o], c, d) /\ (d = c \/ ~heap[d.o].live)
    BY DEF Put
  <2>2. Onto(heap[c.o], g[d.o], c, d)
    BY <1>1, <1>2, <1>10, <2>1
  <2>3. \A o \in Obj : heap[o].live /\ g[o].live => Onto(heap[o], g[o], c, d)
    BY <1>9, <1>10, <2>1
  <2> QED
    BY <1>2, <1>9, <2>1, <2>2, <2>3 DEF Put
<1> QED
  BY <1>1, <1>5, <1>6, <1>7, <1>8, <1>9, <1>11 DEF x

(* A place refers to its object: no operand refers to it alone.            *)
LEMMA PlaceApart ==
  ASSUME IInv, NEW b \in BorrowCell, ~Dangling(b), NEW c, c = Pointed(b), c.k = "ref",
         c.o \in Obj, heap[c.o].rc = 1
  PROVE  ~OnStack(c.o) /\ ~IterOn(c.o)
<1>1. InEnv(c.o) \/ InHeap(c.o)
  <2>1. /\ b.v \in Var
        /\ b.o = NoObj => c = env[b.v]
        /\ b.o # NoObj => b.o \in Obj /\ b.i \in DOMAIN heap[b.o].e /\ c = heap[b.o].e[b.i]
    BY PlaceFacts
  <2> QED
    BY <2>1 DEF InEnv, InHeap, Refers, RefersTo, Counts
<1>2. ~OnStack(c.o)
  BY <1>1, OneReference
<1> QED
  BY <1>2 DEF OnStack, IterOn, RefersTo, Counts

LEMMA BorrowInsertedCareful ==
  ASSUME CInv, IInv', Careful, BorrowInserted
  PROVE  CInv'
<1>1. PICK b, i : b = Operand(1) /\ i = Operand(0)
  OBVIOUS
<1>2. PICK c : c = Pointed(b)
  OBVIOUS
<1>3. PICK n : n = i.n
  OBVIOUS
<1>4. IInv /\ Has(2) /\ b.k = "borrow" /\ IsCell(i) /\ Leads(b) /\ 2 \in 0..Len(stack)
  BY <1>1, Leaving DEF CInv, BorrowInserted, MayUse, Careful
<1>5. /\ b \in BorrowCell /\ BorrowFits(env, heap, b) /\ ~Dangling(b)
      /\ c \in ValueCell /\ Alive(c) /\ b.v \in Var
  <2>1. Len(stack) - 1 \in DOMAIN stack /\ stack[Len(stack) - 1] = b
    BY <1>1, <1>4, Tops
  <2> QED
    BY <1>2, <1>4, <2>1, Borrowed
<1>6. CASE ~IsTable(c) \/ i.k # "num"
  <2>1. Stop("raised")
    BY <1>1, <1>2, <1>5, <1>6 DEF BorrowInserted
  <2> QED
    BY <2>1, StopCareful DEF Stop
<1>7. CASE IsTable(c) /\ i.k = "num"
  <2>1. PICK r \in Cloned(c) :
          LET t == Entered(r.h[r.c.o], n) IN
          /\ Len(t.e) <= MaxLen
          /\ Do(EnvWith(b, r.c),
                Append(Below(2),
                  BorrowOf(b.v, Append(b.p, n), r.c.o, Entry(t.keys, n), Len(t.e),
                           [b.rcs EXCEPT ![Len(b.rcs)] = t.rc] \o <<1>>)),
                HeapWith([r.h EXCEPT ![r.c.o] = t], b, r.c), r.d)
    BY <1>1, <1>2, <1>3, <1>5, <1>7 DEF BorrowInserted
  <2>2. PICK d, q : d = r.c /\ q = r.c.o
    OBVIOUS
  <2>3. PICK t : t = Entered(r.h[q], n)
    OBVIOUS
  <2>4. PICK g : g = [r.h EXCEPT ![q] = t]
    OBVIOUS
  <2>5. PICK rcs, len, at : /\ rcs = [b.rcs EXCEPT ![Len(b.rcs)] = t.rc] \o <<1>>
                            /\ len = Len(t.e) /\ at = Entry(t.keys, n)
    OBVIOUS
  <2>6. PICK x : x = BorrowOf(b.v, Append(b.p, n), q, at, len, rcs)
    OBVIOUS
  <2>7. /\ Len(t.e) <= MaxLen
        /\ env' = EnvWith(b, d) /\ stack' = Append(Below(2), x) /\ heap' = HeapWith(g, b, d)
        /\ UNCHANGED status
    BY <2>1, <2>2, <2>3, <2>4, <2>5, <2>6 DEF Do
  <2>8. /\ x.k = "borrow" /\ x.v = b.v /\ x.p = Append(b.p, n) /\ x.o = q /\ x.i = at /\ x.len = len
        /\ x.rcs = rcs
    BY <2>6 DEF BorrowOf
  <2>9. c.k = "ref" /\ c.o \in Obj /\ heap[c.o].tab /\ i.k = "num" /\ n \in Int /\ heap[c.o].live
    <3>1. i \in OperandCell
      BY <1>1, <1>4, Operands2 DEF Has
    <3>2. i \in ValueCell
      BY <1>4, <3>1, OperandCells
    <3> QED
      BY <1>3, <1>5, <1>7, <3>2, ValueCells DEF IsTable, Alive, RefersTo, Counts
  <2>10. /\ d \in ValueCell /\ WellFormed(r.h) /\ Put(r.h, c, d) /\ d.k = "ref" /\ q \in Obj /\ q = d.o
         /\ \A o \in Obj : heap[o].live => Same(heap[o], r.h[o]) /\ r.h[o].live
         /\ r.h[q].rc = 1 /\ r.h[q].live /\ r.h[q].tab
         /\ d = c => heap[c.o].rc = 1
    BY <1>4, <1>5, <2>2, <2>9, ClonedIs DEF Same
  <2>11. /\ WellFormed(g) /\ Put(g, c, d) /\ g[q] = t /\ t.live /\ t.tab /\ t.rc = 1
         /\ \A o \in Obj \ {q} : g[o] = r.h[o]
         /\ at \in 1..len /\ len \in Nat
         /\ \A o \in Obj : /\ g[o].live = r.h[o].live /\ DOMAIN r.h[o].e \subseteq DOMAIN g[o].e
                           /\ \A j \in DOMAIN r.h[o].e : g[o].e[j] = r.h[o].e[j]
    <3>1. PICK h : h = r.h
      OBVIOUS
    <3>2. WellFormed(h) /\ Put(h, c, d) /\ h[d.o].tab /\ h[d.o].live /\ t = Entered(h[d.o], n)
          /\ g = Replaced(h, d.o, t)
      BY <2>3, <2>4, <2>10, <3>1 DEF Replaced
    <3>3. c \in ValueCell /\ d \in ValueCell /\ d.k = "ref" /\ n \in Int /\ Len(t.e) <= MaxLen
      BY <1>5, <2>7, <2>9, <2>10
    <3>4. /\ WellFormed(g) /\ Put(g, c, d) /\ g[d.o] = t /\ t.live /\ t.tab /\ t.rc = h[d.o].rc
          /\ \A o \in Obj \ {d.o} : g[o] = h[o]
          /\ Entry(t.keys, n) \in 1..Len(t.e) /\ Len(t.e) \in Nat
          /\ \A o \in Obj : /\ g[o].live = h[o].live /\ DOMAIN h[o].e \subseteq DOMAIN g[o].e
                            /\ \A j \in DOMAIN h[o].e : g[o].e[j] = h[o].e[j]
      BY <1>4, <3>2, <3>3, EnteredPut
    <3> QED
      BY <2>5, <2>10, <3>1, <3>4
  <2>12. b.o # NoObj => b.o \in Obj /\ b.i \in DOMAIN g[b.o].e /\ c = heap[b.o].e[b.i]
    <3>1. b.o # NoObj => b.o \in Obj /\ heap[b.o].live /\ b.i \in DOMAIN heap[b.o].e /\ c = heap[b.o].e[b.i]
      BY <1>2, <1>4, <1>5, PlaceFacts
    <3>2. b.o # NoObj => b.i \in DOMAIN r.h[b.o].e
      BY <2>10, <3>1 DEF Same
    <3> QED
      BY <2>11, <3>1, <3>2
  <2>13. \A o \in Obj :
           /\ heap'[o].live = g[o].live /\ heap'[o].tab = g[o].tab /\ heap'[o].keys = g[o].keys
           /\ Len(heap'[o].e) = Len(g[o].e) /\ DOMAIN heap'[o].e = DOMAIN g[o].e
           /\ \A j \in DOMAIN g[o].e : heap'[o].e[j] = IF o = b.o /\ j = b.i THEN d ELSE g[o].e[j]
    BY <1>5, <2>7, <2>10, <2>11, <2>12, WrittenIs
  <2>14. Put(heap', c, d)
    <3>1. \A o \in Obj : heap[o].live => g[o].live
      BY <2>10, <2>11
    <3> QED
      BY <1>2, <1>4, <1>5, <2>7, <2>10, <2>11, <2>12, <3>1, PutWritten
  <2>15. LengthsKept
    <3> SUFFICES ASSUME NEW o \in Obj, heap[o].live, heap'[o].live, IterOn(o)
                 PROVE  Len(heap'[o].e) = Len(heap[o].e)
      BY DEF LengthsKept
    <3>1. o # q
      <4> SUFFICES ASSUME o = q PROVE FALSE
        OBVIOUS
      <4>1. d = c
        BY <2>10 DEF Put
      <4>2. ~IterOn(c.o)
        BY <1>2, <1>4, <1>5, <2>9, <2>10, <4>1, PlaceApart
      <4> QED
        BY <2>10, <4>1, <4>2
    <3> QED
      BY <2>10, <2>11, <2>13, <3>1 DEF Same
  <2>16. \A w \in Var : env'[w] = env[w] \/ (env[w] = c /\ env'[w] = d)
    <3>1. env \in [Var -> ValueCell]
      BY <1>4 DEF IInv
    <3> QED
      BY <1>2, <2>7, <3>1 DEF EnvWith, Pointed
  <2>17. x \in OperandCell /\ Leaves(2, x)
    BY <1>4, <2>7, Pushed, Leaving
  <2>18. x \in BorrowCell
    BY <2>8, <2>17, OperandCells
  <2>19. \A j \in DOMAIN x.rcs : x.rcs[j] = 1
    <3>1. b.rcs \in Seq(Nat) /\ Len(b.rcs) = Len(b.p) + 1 /\ Len(b.p) \in Nat
      BY <1>5, LenProperties DEF BorrowCell
    <3>2. PICK u : u = b.rcs
      OBVIOUS
    <3>3. u \in Seq(Nat) /\ Len(u) >= 1 /\ (\A j \in DOMAIN u : u[j] = 1)
          /\ rcs = [u EXCEPT ![Len(u)] = 1] \o <<1>>
      BY <1>5, <2>5, <2>11, <3>1, <3>2 DEF BorrowFits
    <3>4. \A j \in DOMAIN rcs : rcs[j] = 1
      BY <3>3, Ones
    <3> QED
      BY <2>8, <3>4
  <2>20. AtStep(heap', d, n) = x.i /\ heap'[d.o].tab /\ Len(heap'[d.o].e) = x.len
    BY <2>5, <2>8, <2>10, <2>11, <2>13 DEF AtStep
  <2>21. BorrowFits(env', heap', x)
    <3>1. b.o = NoObj => env'[b.v] = d
      BY <1>4, <1>5, <2>7 DEF EnvWith, IInv
    <3>2. b.o # NoObj => env'[b.v] = env[b.v] /\ b.i \in DOMAIN heap'[b.o].e /\ heap'[b.o].e[b.i] = d
      BY <2>7, <2>12, <2>13 DEF EnvWith
    <3>3. IF heap'[d.o].tab THEN Len(heap'[d.o].e) >= x.len ELSE Len(heap'[d.o].e) = x.len
      BY <2>8, <2>11, <2>20
    <3> QED
      BY <1>2, <1>4, <1>5, <2>8, <2>9, <2>10, <2>14, <2>18, <2>19, <2>20, <3>1, <3>2, <3>3, MovedOn
  <2>22. CellFits(env', heap', x)
    BY <2>8, <2>21 DEF CellFits
  <2> QED
    BY <1>4, <1>5, <2>7, <2>10, <2>14, <2>15, <2>16, <2>17, <2>22, PutStep
<1> QED
  BY <1>6, <1>7

-----------------------------------------------------------------------------
(* Steps that write a place that its variable alone leads to.              *)

LEMMA WrittenRefers ==
  ASSUME NEW h, WellFormed(h), NEW b \in BorrowCell, NEW d \in ValueCell,
         b.o # NoObj => b.i \in DOMAIN h[b.o].e,
         NEW g, g = HeapWith(h, b, d)
  PROVE  /\ \A p, o \in Obj : Refers(g, p, o) =>
              Refers(h, p, o) \/ (b.o # NoObj /\ p = b.o /\ RefersTo(d, o))
         /\ \A o \in Obj : o # b.o => g[o] = h[o]
         /\ \A o \in Obj : g[o].live = h[o].live /\ Len(g[o].e) = Len(h[o].e)
<1>1. \A o \in Obj :
        /\ g[o].live = h[o].live /\ Len(g[o].e) = Len(h[o].e) /\ DOMAIN g[o].e = DOMAIN h[o].e
        /\ \A j \in DOMAIN h[o].e : g[o].e[j] = IF o = b.o /\ j = b.i THEN d ELSE h[o].e[j]
  BY WrittenIs
<1>2. \A p, o \in Obj : Refers(g, p, o) =>
        Refers(h, p, o) \/ (b.o # NoObj /\ p = b.o /\ RefersTo(d, o))
  <2> SUFFICES ASSUME NEW p \in Obj, NEW o \in Obj, Refers(g, p, o), ~Refers(h, p, o)
               PROVE  b.o # NoObj /\ p = b.o /\ RefersTo(d, o)
    OBVIOUS
  <2>1. PICK j \in DOMAIN h[p].e : RefersTo(g[p].e[j], o)
    BY <1>1 DEF Refers
  <2>2. g[p].e[j] # h[p].e[j]
    BY <2>1 DEF Refers
  <2>3. p = b.o /\ g[p].e[j] = d
    BY <1>1, <2>2
  <2> QED
    BY <2>1, <2>3, HeapAssumption
<1>3. \A o \in Obj : o # b.o => g[o] = h[o]
  BY DEF HeapWith, WellFormed
<1> QED
  BY <1>1, <1>2, <1>3

LEMMA OwnedStep ==
  ASSUME CInv, IInv', Careful, UNCHANGED status, stack' = Below(2), 2 \in 0..Len(stack),
         NEW v \in Var, MayWrite(v, Below(2)), \A w \in Var \ {v} : env'[w] = env[w],
         NEW Q \in SUBSET Obj, Closed(Q), \A o \in Q, w \in Var : RefersTo(env[w], o) => w = v,
         \A o \in Obj \ Q : heap[o].live /\ heap'[o].live => Same(heap[o], heap'[o]),
         LengthsKept, Ordered(heap')
  PROVE  CInv'
<1>1. IInv /\ status' # "dangling"
  BY DEF CInv
<1>2. Null \in ValueCell /\ ~(Null.k = "ref") /\ Null \in OperandCell /\ Null.k \in {"num", "null", "ref"}
  BY CellKinds, ValueCells DEF Null
<1>3. \A o \in Obj \ Q : heap[o].live /\ heap'[o].live => Onto(heap[o], heap'[o], Null, Null)
  <2>1. \A o \in Obj : Len(heap[o].e) \in Nat
    BY <1>1, LenProperties DEF IInv, HeapOK, Shaped
  <2> QED
    BY <2>1, OntoSame
<1>4. Carries(Moved(Q, Null, Null), heap, heap')
  BY <1>1, <1>2, <1>3, MovedCarries
<1>5. ASSUME NEW j \in 1..(Len(stack) - 2), stack[j].k = "borrow", stack[j].o # NoObj
      PROVE  VarKept(Q, Null, Null, stack[j].v)
  <2>1. PICK w : w = stack[j].v
    OBVIOUS
  <2>2. w # v
    BY <1>1, <1>5, <2>1, NoneBorrowed
  <2>3. w \in Var
    <3>1. j \in DOMAIN stack
      <4>1. DOMAIN stack = 1..Len(stack) /\ Len(stack) \in Nat
        BY <1>1, SeqFinite DEF IInv
      <4> QED
        BY <1>5, <4>1
    <3>2. stack[j] \in BorrowCell
      BY <1>1, <1>5, <3>1, AllAlive, OperandCells
    <3> QED
      BY <2>1, <3>2 DEF BorrowCell
  <2> QED
    BY <2>1, <2>2, <2>3 DEF VarKept
<1>6. Leaves(2, Null)
  BY DEF Leaves
<1>7. StackFits'
  BY <1>2, <1>4, <1>5, <1>6, StackKept
<1> QED
  BY <1>1, <1>7 DEF CInv

(* What an instruction that writes through a borrow starts from.           *)
LEMMA Writing ==
  ASSUME CInv, Careful, Has(2), NEW b, b = Operand(1), b.k = "borrow", MayUse(b)
  PROVE  /\ b \in BorrowCell /\ ~Dangling(b) /\ b.v \in Var /\ 2 \in 0..Len(stack)
         /\ \A j \in DOMAIN b.rcs : b.rcs[j] = 1
         /\ Len(b.rcs) \in DOMAIN b.rcs
         /\ \E K \in Nat : \E r : \E P \in SUBSET Live :
              /\ Ranked(heap, r, K) /\ OwnedBy(P, b.v)
              /\ b.o = NoObj => P = {}
              /\ b.o # NoObj => b.o \in P /\ \A x \in P : r[b.o] <= r[x]
<1>1. IInv /\ Leads(b) /\ 2 \in 0..Len(stack)
  BY Leaving DEF CInv, MayUse, Careful
<1>2. b \in BorrowCell /\ BorrowFits(env, heap, b) /\ ~Dangling(b) /\ b.v \in Var
  <2>1. Len(stack) - 1 \in DOMAIN stack /\ stack[Len(stack) - 1] = b
    BY <1>1, Tops
  <2> QED
    BY <1>1, <2>1, Borrowed
<1>3. PICK K \in Nat : \E r : Ranked(heap, r, K)
  BY DEF CInv, Ordered
<1>4. PICK r : Ranked(heap, r, K)
  BY <1>3
<1>5. PICK P \in SUBSET Live :
        /\ OwnedBy(P, b.v)
        /\ b.o = NoObj => P = {}
        /\ b.o # NoObj => b.o \in P /\ \A x \in P : r[b.o] <= r[x]
  BY <1>1, <1>2, <1>4, WayOwned
<1>6. Len(b.rcs) \in DOMAIN b.rcs
  <2>1. PICK s : s = b.rcs
    OBVIOUS
  <2>2. s \in Seq(Nat) /\ Len(s) = Len(b.p) + 1 /\ Len(b.p) \in Nat
    BY <1>2, <2>1, LenProperties DEF BorrowCell
  <2>3. DOMAIN s = 1..Len(s) /\ Len(s) \in 1..Len(s)
    BY <2>2, SeqFinite
  <2> QED
    BY <2>1, <2>3
<1> QED
  BY <1>1, <1>2, <1>4, <1>5, <1>6 DEF BorrowFits

LEMMA WriteBorrowedCareful ==
  ASSUME CInv, IInv', Careful, WriteBorrowed
  PROVE  CInv'
<1>1. PICK b, d : b = Operand(1) /\ d = Operand(0)
  OBVIOUS
<1>2. /\ IInv /\ Has(2) /\ b.k = "borrow" /\ IsCell(d) /\ MayUse(b) /\ MayWrite(b.v, Below(2))
  BY <1>1 DEF CInv, WriteBorrowed
<1>3. b \in BorrowCell /\ ~Dangling(b) /\ b.v \in Var /\ 2 \in 0..Len(stack)
  BY <1>1, <1>2, Writing
<1>4. PICK K \in Nat : \E r : \E P \in SUBSET Live :
        /\ Ranked(heap, r, K) /\ OwnedBy(P, b.v)
        /\ b.o = NoObj => P = {}
        /\ b.o # NoObj => b.o \in P /\ \A x \in P : r[b.o] <= r[x]
  BY <1>1, <1>2, Writing
<1>5. PICK r : \E P \in SUBSET Live :
        /\ Ranked(heap, r, K) /\ OwnedBy(P, b.v)
        /\ b.o = NoObj => P = {}
        /\ b.o # NoObj => b.o \in P /\ \A x \in P : r[b.o] <= r[x]
  BY <1>4
<1>6. PICK P \in SUBSET Live :
        /\ Ranked(heap, r, K) /\ OwnedBy(P, b.v)
        /\ b.o = NoObj => P = {}
        /\ b.o # NoObj => b.o \in P /\ \A x \in P : r[b.o] <= r[x]
  BY <1>5
<1>7. /\ env' = EnvWith(b, d) /\ stack' = Below(2) /\ heap' = HeapWith(heap, b, d) /\ UNCHANGED status
  BY <1>1, <1>3 DEF WriteBorrowed, Do
<1>8. d \in ValueCell
  BY <1>1, <1>2, Operands2, OperandCells DEF Has
<1>9. b.o # NoObj => b.o \in Obj /\ b.i \in DOMAIN heap[b.o].e
  BY <1>2, <1>3, PlaceFacts
<1>10. /\ \A p, o \in Obj : Refers(heap', p, o) =>
            Refers(heap, p, o) \/ (b.o # NoObj /\ p = b.o /\ RefersTo(d, o))
       /\ \A o \in Obj : o # b.o => heap'[o] = heap[o]
       /\ \A o \in Obj : heap'[o].live = heap[o].live /\ Len(heap'[o].e) = Len(heap[o].e)
  <2>1. PICK g : g = HeapWith(heap, b, d)
    OBVIOUS
  <2>2. WellFormed(heap)
    BY <1>2, HeapWellFormed
  <2>3. /\ \A p, o \in Obj : Refers(g, p, o) =>
             Refers(heap, p, o) \/ (b.o # NoObj /\ p = b.o /\ RefersTo(d, o))
        /\ \A o \in Obj : o # b.o => g[o] = heap[o]
        /\ \A o \in Obj : g[o].live = heap[o].live /\ Len(g[o].e) = Len(heap[o].e)
    BY <1>3, <1>8, <1>9, <2>1, <2>2, WrittenRefers
  <2> QED
    BY <1>7, <2>1, <2>3
<1>11. P \in SUBSET Obj
  BY DEF Live
<1>12. \A o : RefersTo(d, o) => o \notin P
  <2>1. \A o : RefersTo(d, o) => OnStack(o)
    <3>1. Len(stack) \in DOMAIN stack /\ stack[Len(stack)] = d
      BY <1>1, <1>2, Tops
    <3> QED
      BY <3>1 DEF OnStack
  <2> QED
    BY <1>6, <2>1 DEF OwnedBy
<1>13. Ordered(heap')
  <2> DEFINE N == {}
  <2>1. Above(heap, heap', P, N)
    BY <1>6, <1>10, <1>11, <1>12 DEF Above, OwnedBy
  <2> HIDE DEF N
  <2> QED
    BY <1>6, <2>1, OrderedStep
<1>14. Closed(P) /\ \A o \in P, w \in Var : RefersTo(env[w], o) => w = b.v
  BY <1>6 DEF Closed, OwnedBy
<1>15. \A o \in Obj \ P : Same(heap[o], heap'[o])
  <2>1. \A o \in Obj \ P : o # b.o
    BY <1>6, HeapAssumption
  <2> QED
    BY <1>10, <2>1 DEF Same
<1>16. LengthsKept
  BY <1>10 DEF LengthsKept
<1>17. \A w \in Var \ {b.v} : env'[w] = env[w]
  BY <1>2, <1>7 DEF EnvWith, IInv
<1> QED
  BY <1>2, <1>3, <1>7, <1>11, <1>13, <1>14, <1>15, <1>16, <1>17, OwnedStep

(* What the elements of two values joined refer to.                        *)
LEMMA JoinedRefers ==
  ASSUME IInv, NEW c \in ValueCell, NEW r \in ValueCell, IsArray(r),
         NEW j \in DOMAIN JoinedCells(c, r), NEW o, RefersTo(JoinedCells(c, r)[j], o)
  PROVE  \/ ~IsArray(c) /\ RefersTo(c, o)
         \/ IsArray(c) /\ c.o \in Obj /\ Refers(heap, c.o, o)
         \/ r.o \in Obj /\ Refers(heap, r.o, o)
<1> DEFINE left == IF IsArray(c) THEN Elems(c) ELSE <<c>>
           right == Elems(r)
<1>1. r.k = "ref" /\ r.o \in Obj /\ right = heap[r.o].e /\ (IsArray(c) => c.o \in Obj /\ left = heap[c.o].e)
  BY ValueCells DEF IsArray, Elems
<1>2. right \in Seq(ValueCell) /\ left \in Seq(ValueCell)
  BY <1>1, AllAlive DEF Existing
<1>3. ~IsArray(c) => left = <<c>>
  OBVIOUS
<1>4. JoinedCells(c, r) = left \o right
  BY DEF JoinedCells
<1> HIDE DEF left, right
<1>5. PICK m, n : m = Len(left) /\ n = Len(right)
  OBVIOUS
<1>6. m \in Nat /\ n \in Nat /\ DOMAIN left = 1..m /\ DOMAIN right = 1..n
  BY <1>2, <1>5, SeqFinite
<1>7. /\ left \o right \in Seq(ValueCell) /\ Len(left \o right) = m + n
      /\ \A i \in 1..(m + n) : (left \o right)[i] = IF i <= m THEN left[i] ELSE right[i - m]
  BY <1>2, <1>5, ConcatProperties
<1>8. j \in 1..(m + n) /\ RefersTo((left \o right)[j], o)
  BY <1>4, <1>7, SeqFinite
<1>9. CASE j <= m
  <2>1. j \in DOMAIN left /\ RefersTo(left[j], o)
    BY <1>6, <1>7, <1>8, <1>9
  <2>2. CASE IsArray(c)
    BY <1>1, <2>1, <2>2 DEF Refers
  <2>3. CASE ~IsArray(c)
    <3>1. left[j] = c
      <4>1. left = <<c>> /\ Len(<<c>>) = 1 /\ <<c>>[1] = c
        BY <1>3, <2>3
      <4>2. m = 1
        BY <1>5, <4>1
      <4>3. j = 1
        BY <1>6, <2>1, <4>2
      <4> QED
        BY <4>1, <4>3
    <3> QED
      BY <2>1, <2>3, <3>1
  <2> QED
    BY <2>2, <2>3
<1>10. CASE ~(j <= m)
  <2>1. j - m \in DOMAIN right /\ RefersTo(right[j - m], o)
    BY <1>6, <1>7, <1>8, <1>10
  <2> QED
    BY <1>1, <2>1 DEF Refers
<1> QED
  BY <1>9, <1>10

LEMMA AppendJoined ==
  ASSUME CInv, IInv', Careful, Has(2), NEW b, b = Operand(1), b.k = "borrow",
         MayUse(b), MayWrite(b.v, Below(2)), NEW c, c = Pointed(b), NEW d, d = Operand(0), IsCell(d), IsArray(d),
         NEW n \in Free, NEW h, WellFormed(h), h = NewCopy(n, Array(JoinedCells(c, d))),
         env' = EnvWith(b, Ref(n)), stack' = Below(2), heap' = HeapWith(h, b, Ref(n)), UNCHANGED status
  PROVE  CInv'
<1>1. IInv /\ b \in BorrowCell /\ ~Dangling(b) /\ b.v \in Var /\ 2 \in 0..Len(stack)
  BY Writing DEF CInv
<1>2. PICK K \in Nat : \E r : \E P \in SUBSET Live :
        /\ Ranked(heap, r, K) /\ OwnedBy(P, b.v)
        /\ b.o = NoObj => P = {}
        /\ b.o # NoObj => b.o \in P /\ \A x \in P : r[b.o] <= r[x]
  BY Writing
<1>3. PICK r : \E P \in SUBSET Live :
        /\ Ranked(heap, r, K) /\ OwnedBy(P, b.v)
        /\ b.o = NoObj => P = {}
        /\ b.o # NoObj => b.o \in P /\ \A x \in P : r[b.o] <= r[x]
  BY <1>2
<1>4. PICK P \in SUBSET Live :
        /\ Ranked(heap, r, K) /\ OwnedBy(P, b.v)
        /\ b.o = NoObj => P = {}
        /\ b.o # NoObj => b.o \in P /\ \A x \in P : r[b.o] <= r[x]
  BY <1>3
<1>5. d \in ValueCell /\ d.k = "ref" /\ OnStack(d.o)
  <2>1. Len(stack) \in DOMAIN stack /\ stack[Len(stack)] = d
    BY <1>1, Tops
  <2>2. d \in OperandCell /\ d.k = "ref"
    BY <1>1, Operands2 DEF Has, IsArray
  <2> QED
    BY <2>1, <2>2, OperandCells DEF OnStack, RefersTo, Counts
<1>6. /\ c \in ValueCell
      /\ b.o # NoObj => b.o \in Obj /\ heap[b.o].live /\ b.i \in DOMAIN heap[b.o].e /\ c = heap[b.o].e[b.i]
  BY <1>1, PlaceFacts
<1> DEFINE x == Array(JoinedCells(c, d))
<1>7. /\ h[n] = x /\ x.e = JoinedCells(c, d)
      /\ \A o \in Obj \ {n} : Same(heap[o], h[o]) /\ h[o].live = heap[o].live
      /\ \A o \in Obj : heap[o].live => Same(heap[o], h[o]) /\ h[o].live
  <2>1. PICK y : y = x
    OBVIOUS
  <2>2. y.e = JoinedCells(c, d)
    BY <2>1 DEF Array, Object
  <2>3. h = NewCopy(n, y)
    BY <2>1
  <2> HIDE DEF x
  <2> QED
    BY <1>1, <2>1, <2>2, <2>3, NewCopyIs
<1> HIDE DEF x
<1>8. n \in Obj /\ ~heap[n].live /\ Ref(n) \in ValueCell /\ Ref(n).k = "ref" /\ Ref(n).o = n
  BY CellKinds DEF Free
<1>9. /\ \A p, o \in Obj : Refers(heap', p, o) =>
           Refers(h, p, o) \/ (b.o # NoObj /\ p = b.o /\ o = n)
      /\ \A o \in Obj : o # b.o => heap'[o] = h[o]
      /\ \A o \in Obj : heap'[o].live = h[o].live /\ Len(heap'[o].e) = Len(h[o].e)
  <2>1. PICK g, q : g = heap' /\ q = Ref(n)
    OBVIOUS
  <2>2. b.o # NoObj => b.i \in DOMAIN h[b.o].e
    BY <1>6, <1>7 DEF Same
  <2>3. g = HeapWith(h, b, q) /\ q \in ValueCell /\ \A o : RefersTo(q, o) => o = n
    BY <1>8, <2>1 DEF RefersTo
  <2>4. /\ \A p, o \in Obj : Refers(g, p, o) =>
             Refers(h, p, o) \/ (b.o # NoObj /\ p = b.o /\ RefersTo(q, o))
        /\ \A o \in Obj : o # b.o => g[o] = h[o]
        /\ \A o \in Obj : g[o].live = h[o].live /\ Len(g[o].e) = Len(h[o].e)
    BY <1>1, <2>2, <2>3, WrittenRefers
  <2> QED
    BY <2>1, <2>3, <2>4
<1>10. P \in SUBSET Obj /\ n \notin P
  BY <1>8 DEF Live
<1>11. \A p, o \in Obj : Refers(heap, p, o) => o # n /\ (o \in P => p \in P)
  <2>1. \A p, o \in Obj : Refers(heap, p, o) => o # n
    BY <1>1, <1>8, AliveReferred DEF ReferredAlive, InHeap
  <2> QED
    BY <1>4, <2>1 DEF OwnedBy
<1>12. ASSUME NEW o \in Obj, Refers(h, n, o) PROVE o \notin P /\ o # n
  <2>1. PICK j \in DOMAIN JoinedCells(c, d) : RefersTo(JoinedCells(c, d)[j], o)
    BY <1>7, <1>12 DEF Refers
  <2>2. \/ ~IsArray(c) /\ RefersTo(c, o)
        \/ IsArray(c) /\ c.o \in Obj /\ Refers(heap, c.o, o)
        \/ d.o \in Obj /\ Refers(heap, d.o, o)
    BY <1>1, <1>5, <1>6, <2>1, JoinedRefers
  <2>3. \A y, z \in Obj : Refers(heap, y, z) => r[z] < r[y] /\ r[z] \in Int /\ r[y] \in Int
    BY <1>4 DEF Ranked
  <2>4. \A q \in Obj : RefersTo(c, q) => q \notin P /\ q # n
    <3>1. CASE b.o = NoObj
      <4>1. c = env[b.v]
        BY <1>1, <3>1, PlaceFacts
      <4>2. \A q : RefersTo(c, q) => InEnv(q)
        BY <1>1, <4>1 DEF InEnv
      <4> QED
        BY <1>1, <1>4, <1>8, <3>1, <4>2, AliveReferred DEF ReferredAlive
    <3>2. CASE b.o # NoObj
      <4>1. \A q : RefersTo(c, q) => Refers(heap, b.o, q)
        BY <1>6, <3>2 DEF Refers
      <4>2. \A q \in Obj : RefersTo(c, q) => r[q] < r[b.o] /\ r[q] \in Int /\ r[b.o] \in Int
        BY <1>6, <2>3, <3>2, <4>1
      <4>3. \A q \in P : r[b.o] <= r[q]
        BY <1>4, <3>2
      <4>4. \A q \in Obj : RefersTo(c, q) => q \notin P
        BY <4>2, <4>3
      <4> QED
        BY <1>6, <1>11, <3>2, <4>1, <4>4
    <3> QED
      BY <3>1, <3>2
  <2>5. CASE ~IsArray(c) /\ RefersTo(c, o)
    BY <2>4, <2>5
  <2>6. CASE IsArray(c) /\ c.o \in Obj /\ Refers(heap, c.o, o)
    <3>1. c.o \notin P
      BY <2>4, <2>6 DEF RefersTo, Counts, IsArray
    <3> QED
      BY <1>11, <2>6, <3>1
  <2>7. CASE d.o \in Obj /\ Refers(heap, d.o, o)
    <3>1. d.o \notin P
      BY <1>4, <1>5 DEF OwnedBy
    <3> QED
      BY <1>11, <2>7, <3>1
  <2> QED
    BY <2>2, <2>5, <2>6, <2>7
<1>13. ASSUME NEW p \in Obj, NEW o \in Obj, Refers(h, p, o), p # n PROVE Refers(heap, p, o)
  BY <1>7, <1>13 DEF Same, Refers
<1>14. Ordered(heap')
  <2> DEFINE N == {n}
  <2>1. N \subseteq Obj /\ P \cap N = {} /\ \A o : o \in N <=> o = n
    BY <1>8, <1>10
  <2> HIDE DEF N
  <2>2. ASSUME NEW p \in Obj, NEW o \in Obj, Refers(heap', p, o)
        PROVE  \/ Refers(heap, p, o)
               \/ p \in N /\ o \notin P \union N
               \/ p \in P /\ o \notin P
    <3>1. CASE Refers(h, p, o)
      BY <1>12, <1>13, <2>1, <3>1
    <3>2. CASE b.o # NoObj /\ p = b.o /\ o = n
      BY <1>4, <1>10, <3>2
    <3> QED
      BY <1>9, <2>2, <3>1, <3>2
  <2>3. Above(heap, heap', P, N)
    BY <1>10, <1>11, <2>1, <2>2 DEF Above
  <2> QED
    BY <1>4, <2>3, OrderedStep
<1>15. Closed(P) /\ \A o \in P, w \in Var : RefersTo(env[w], o) => w = b.v
  BY <1>4 DEF Closed, OwnedBy
<1>16. \A o \in Obj \ P : heap[o].live /\ heap'[o].live => Same(heap[o], heap'[o])
  <2>1. \A o \in Obj \ P : o # b.o
    BY <1>4, HeapAssumption
  <2> QED
    BY <1>7, <1>9, <2>1 DEF Same
<1>17. LengthsKept
  BY <1>7, <1>9 DEF LengthsKept, Same
<1>18. \A w \in Var \ {b.v} : env'[w] = env[w]
  BY <1>1 DEF EnvWith, IInv
<1> QED
  BY <1>1, <1>10, <1>14, <1>15, <1>16, <1>17, <1>18, OwnedStep

LEMMA AppendGrown ==
  ASSUME CInv, IInv', Careful, Has(2), NEW b, b = Operand(1), b.k = "borrow",
         MayUse(b), MayWrite(b.v, Below(2)), NEW c, c = Pointed(b), NEW d, d = Operand(0), IsCell(d),
         IsArray(c), RcOf(c) <= b.rcs[Len(b.rcs)],
         NEW h, WellFormed(h), h = Grown(heap, c.o, d),
         env' = EnvWith(b, c), stack' = Below(2), heap' = HeapWith(h, b, c), UNCHANGED status
  PROVE  CInv'
<1>1. IInv /\ b \in BorrowCell /\ ~Dangling(b) /\ b.v \in Var /\ 2 \in 0..Len(stack)
      /\ b.rcs[Len(b.rcs)] = 1
  BY Writing DEF CInv
<1>2. PICK K \in Nat : \E r : \E P \in SUBSET Live :
        /\ Ranked(heap, r, K) /\ OwnedBy(P, b.v)
        /\ b.o = NoObj => P = {}
        /\ b.o # NoObj => b.o \in P /\ \A x \in P : r[b.o] <= r[x]
  BY Writing
<1>3. PICK r : \E P \in SUBSET Live :
        /\ Ranked(heap, r, K) /\ OwnedBy(P, b.v)
        /\ b.o = NoObj => P = {}
        /\ b.o # NoObj => b.o \in P /\ \A x \in P : r[b.o] <= r[x]
  BY <1>2
<1>4. PICK P \in SUBSET Live :
        /\ Ranked(heap, r, K) /\ OwnedBy(P, b.v)
        /\ b.o = NoObj => P = {}
        /\ b.o # NoObj => b.o \in P /\ \A x \in P : r[b.o] <= r[x]
  BY <1>3
<1>5. d \in ValueCell /\ \A o : RefersTo(d, o) => OnStack(o)
  <2>1. Len(stack) \in DOMAIN stack /\ stack[Len(stack)] = d
    BY <1>1, Tops
  <2>2. d \in OperandCell
    BY <1>1, Operands2 DEF Has
  <2> QED
    BY <2>1, <2>2, OperandCells DEF OnStack
<1>6. /\ c \in ValueCell /\ Alive(c)
      /\ b.o = NoObj => c = env[b.v]
      /\ b.o # NoObj => b.o \in Obj /\ heap[b.o].live /\ b.i \in DOMAIN heap[b.o].e /\ c = heap[b.o].e[b.i]
  BY <1>1, PlaceFacts
<1>7. PICK n : n = c.o
  OBVIOUS
<1>8. c.k = "ref" /\ n \in Obj /\ heap[n].rc = 1
  <2>1. c.k = "ref" /\ n \in Obj /\ RcOf(c) = heap[n].rc
    BY <1>6, <1>7, ValueCells DEF IsArray, RcOf
  <2>2. heap[n].live
    BY <1>6, <1>7, <2>1 DEF Alive, RefersTo, Counts
  <2>3. heap[n].rc > 0 /\ heap[n].rc \in Int
    BY <1>1, <2>1, <2>2, HeapAssumption DEF IInv, HeapOK
  <2> QED
    BY <1>1, <2>1, <2>3
<1>9. ~OnStack(n) /\ ~IterOn(n)
  BY <1>1, <1>7, <1>8, PlaceApart
<1>10. /\ h[n].e = Append(heap[n].e, d) /\ h[n].live = heap[n].live
       /\ \A o \in Obj \ {n} : h[o] = heap[o]
  BY <1>1, <1>7, <1>8, GrownIs
<1>11. \A p, o \in Obj : Refers(h, p, o) => Refers(heap, p, o) \/ (p = n /\ RefersTo(d, o))
  <2> SUFFICES ASSUME NEW p \in Obj, NEW o \in Obj, Refers(h, p, o), ~Refers(heap, p, o)
               PROVE  p = n /\ RefersTo(d, o)
    OBVIOUS
  <2>1. p = n
    BY <1>10 DEF Refers
  <2>2. PICK j \in DOMAIN h[n].e : RefersTo(h[n].e[j], o)
    BY <2>1 DEF Refers
  <2>3. heap[n].e \in Seq(ValueCell)
    BY <1>1, <1>8 DEF IInv, HeapOK, Shaped
  <2>4. h[n].e[j] = d \/ (j \in DOMAIN heap[n].e /\ h[n].e[j] = heap[n].e[j])
    <3>1. PICK s, t : s = heap[n].e /\ t = h[n].e
      OBVIOUS
    <3>2. s \in Seq(ValueCell) /\ t = Append(s, d) /\ d \in ValueCell
      BY <1>5, <1>10, <2>3, <3>1
    <3>3. DOMAIN s = 1..Len(s) /\ Len(s) \in Nat /\ DOMAIN t = 1..(Len(s) + 1)
      BY <3>2, AppendProperties, SeqFinite
    <3>4. j = Len(s) + 1 \/ j \in 1..Len(s)
      BY <2>2, <3>1, <3>3
    <3> QED
      BY <3>1, <3>2, <3>3, <3>4, AppendProperties
  <2> QED
    BY <2>1, <2>2, <2>4 DEF Refers
<1>12. /\ \A p, o \in Obj : Refers(heap', p, o) =>
            Refers(heap, p, o) \/ (p = n /\ RefersTo(d, o))
       /\ \A o \in Obj : o # b.o /\ o # n => heap'[o] = heap[o]
       /\ \A o \in Obj : heap'[o].live = heap[o].live /\ (o # n => Len(heap'[o].e) = Len(heap[o].e))
  <2>1. PICK g : g = heap'
    OBVIOUS
  <2>2. b.o # NoObj => b.i \in DOMAIN h[b.o].e
    <3>1. heap[n].e \in Seq(ValueCell)
      BY <1>1, <1>8 DEF IInv, HeapOK, Shaped
    <3>2. DOMAIN heap[n].e \subseteq DOMAIN h[n].e
      BY <1>5, <1>10, <3>1, AppendProperties
    <3> QED
      BY <1>6, <1>10, <3>2
  <2>3. /\ \A p, o \in Obj : Refers(g, p, o) =>
             Refers(h, p, o) \/ (b.o # NoObj /\ p = b.o /\ RefersTo(c, o))
        /\ \A o \in Obj : o # b.o => g[o] = h[o]
        /\ \A o \in Obj : g[o].live = h[o].live /\ Len(g[o].e) = Len(h[o].e)
    BY <1>1, <1>6, <2>1, <2>2, WrittenRefers
  <2>4. \A o : b.o # NoObj /\ RefersTo(c, o) => Refers(heap, b.o, o)
    BY <1>6 DEF Refers
  <2> QED
    BY <1>10, <1>11, <2>1, <2>3, <2>4
<1> DEFINE Q == P \union {n}
<1>13. Q \in SUBSET Obj
  BY <1>8 DEF Live
<1>14. Closed(Q)
  <2>1. ASSUME NEW p \in Obj, Refers(heap, p, n) PROVE p \in P
    <3>1. InHeap(n)
      BY <2>1 DEF InHeap
    <3>2. b.o # NoObj
      BY <1>1, <1>6, <1>7, <1>8, <3>1, OneReference DEF InEnv, RefersTo, Counts
    <3>3. RefersTo(heap[b.o].e[b.i], n)
      BY <1>6, <1>7, <1>8, <3>2 DEF RefersTo, Counts
    <3>4. PICK j \in DOMAIN heap[p].e : RefersTo(heap[p].e[j], n)
      BY <2>1 DEF Refers
    <3>5. p = b.o
      BY <1>1, <1>6, <1>8, <3>2, <3>3, <3>4, OneReference
    <3> QED
      BY <1>4, <3>2, <3>5
  <2> QED
    BY <1>4, <2>1 DEF Closed, OwnedBy
<1>15. ASSUME NEW o \in Q, NEW w \in Var, RefersTo(env[w], o) PROVE w = b.v
  <2>1. CASE o \in P
    BY <1>4, <1>15, <2>1 DEF OwnedBy
  <2>2. CASE o = n
    <3>1. InEnv(n)
      BY <1>15, <2>2 DEF InEnv
    <3>2. b.o = NoObj
      <4>1. ~InHeap(n)
        BY <1>1, <1>8, <3>1, OneReference
      <4>2. b.o # NoObj => InHeap(n)
        BY <1>6, <1>7, <1>8 DEF InHeap, Refers, RefersTo, Counts
      <4> QED
        BY <4>1, <4>2
    <3>3. RefersTo(env[b.v], n)
      BY <1>6, <1>7, <1>8, <3>2 DEF RefersTo, Counts
    <3> QED
      BY <1>1, <1>8, <1>15, <2>2, <3>3, OneReference
  <2> QED
    BY <1>15, <2>1, <2>2
<1>16. Ordered(heap')
  <2> DEFINE N == {}
  <2>1. ASSUME NEW o, RefersTo(d, o) PROVE o \notin Q
    BY <1>4, <1>5, <1>9, <2>1 DEF OwnedBy
  <2>2. N \subseteq Obj /\ Q \cap N = {} /\ \A o : o \notin N
    OBVIOUS
  <2>3. \A p, o \in Obj : Refers(heap, p, o) => (o \in Q => p \in Q) /\ o \notin N
    BY <1>14 DEF Closed
  <2>4. \A p, o \in Obj : Refers(heap', p, o) => Refers(heap, p, o) \/ (p \in Q /\ o \notin Q)
    BY <1>12, <2>1
  <2> HIDE DEF N, Q
  <2>5. Above(heap, heap', Q, N)
    BY <1>13, <2>2, <2>3, <2>4 DEF Above
  <2> QED
    BY <1>4, <2>5, OrderedStep
<1>17. \A o \in Obj \ Q : heap[o].live /\ heap'[o].live => Same(heap[o], heap'[o])
  <2>1. \A o \in Obj \ Q : o # b.o /\ o # n
    BY <1>4, HeapAssumption
  <2> QED
    BY <1>12, <2>1 DEF Same
<1>18. LengthsKept
  BY <1>9, <1>12 DEF LengthsKept
<1>19. \A w \in Var \ {b.v} : env'[w] = env[w]
  BY <1>1 DEF EnvWith, IInv
<1> HIDE DEF Q
<1> QED
  BY <1>1, <1>13, <1>14, <1>15, <1>16, <1>17, <1>18, <1>19, OwnedStep

LEMMA AppendBorrowedCareful ==
  ASSUME CInv, IInv', Careful, AppendBorrowed
  PROVE  CInv'
<1>1. PICK b, r : b = Operand(1) /\ r = Operand(0)
  OBVIOUS
<1>2. PICK c : c = Pointed(b)
  OBVIOUS
<1>3. /\ IInv /\ Has(2) /\ b.k = "borrow" /\ IsCell(r) /\ MayUse(b) /\ MayWrite(b.v, Below(2))
  BY <1>1 DEF CInv, AppendBorrowed
<1>4. b \in BorrowCell /\ ~Dangling(b)
  BY <1>1, <1>3, Writing
<1>5. CASE ~IsArray(c) /\ ~IsArray(r)
  <2>1. Stop("raised")
    BY <1>1, <1>2, <1>4, <1>5 DEF AppendBorrowed
  <2> QED
    BY <2>1, StopCareful DEF Stop
<1>6. CASE IsArray(c) \/ IsArray(r)
  <2>1. /\ IsArray(r) \/ RcOf(c) <= b.rcs[Len(b.rcs)]
        /\ AppendedLen(c, r) <= MaxLen
        /\ \E a \in Appended(c, r) : Do(EnvWith(b, a.c), Below(2), HeapWith(a.h, b, a.c), a.d)
    BY <1>1, <1>2, <1>4, <1>6 DEF AppendBorrowed, Careful
  <2>2. PICK a \in Appended(c, r) :
          /\ env' = EnvWith(b, a.c) /\ stack' = Below(2) /\ heap' = HeapWith(a.h, b, a.c)
          /\ UNCHANGED status
    BY <2>1 DEF Do
  <2>3. PICK h : h = a.h
    OBVIOUS
  <2>4. WellFormed(h)
    <3>1. c \in ValueCell /\ Alive(c)
      BY <1>2, <1>3, <1>4, PlaceFacts
    <3>2. r \in ValueCell /\ Alive(r)
      BY <1>1, <1>3, Operands2, OperandCells DEF Has
    <3>3. Exchanges(a.h, <<c, r>>, <<a.c>> \o a.d)
      BY <1>3, <1>6, <2>1, <3>1, <3>2, AppendedExchange
    <3> QED
      BY <2>3, <3>3 DEF Exchanges, Grows
  <2>5. CASE IsArray(r)
    <3>1. PICK n \in Free : a.c = Ref(n) /\ a.h = NewCopy(n, Array(JoinedCells(c, r)))
      BY <2>5, AppendedIs
    <3> QED
      BY <1>1, <1>2, <1>3, <2>2, <2>3, <2>4, <2>5, <3>1, AppendJoined
  <2>6. CASE ~IsArray(r)
    <3>1. a.c = c /\ a.h = Grown(heap, c.o, r)
      BY <2>6, AppendedIs
    <3>2. IsArray(c) /\ RcOf(c) <= b.rcs[Len(b.rcs)]
      BY <1>6, <2>1, <2>6
    <3> QED
      BY <1>1, <1>2, <1>3, <2>2, <2>3, <2>4, <3>1, <3>2, AppendGrown
  <2> QED
    BY <2>5, <2>6
<1> QED
  BY <1>5, <1>6

-----------------------------------------------------------------------------
(* The theorems.                                                           *)

LEMMA NextCareful == Careful /\ CInv /\ IInv' /\ [Next]_vars => CInv'
<1> SUFFICES ASSUME Careful, CInv, IInv', [Next]_vars PROVE CInv'
  OBVIOUS
<1>1. CASE Release
  BY <1>1, ReleaseCareful
<1>2. ASSUME NEW c \in Literal, Push(c) PROVE CInv'
  BY <1>2, PushCareful
<1>3. ASSUME NEW v \in Var, PushVar(v) PROVE CInv'
  BY <1>3, PushVarCareful
<1>4. ASSUME NEW v \in Var, WriteVar(v) PROVE CInv'
  BY <1>4, WriteVarCareful
<1>5. ASSUME NEW v \in Var, Borrow(v) PROVE CInv'
  BY <1>5, BorrowCareful
<1>6. ASSUME NEW key \in Var \union {Unnamed}, NEW v \in Var, key # v, NextOrJmp(key, v) PROVE CInv'
  BY <1>6, NextOrJmpCareful
<1>7. CASE Pop
  BY <1>7, PopCareful
<1>8. CASE BorrowElement
  BY <1>8, BorrowElementCareful
<1>9. CASE BorrowInserted
  BY <1>9, BorrowInsertedCareful
<1>10. CASE WriteBorrowed
  BY <1>10, WriteBorrowedCareful
<1>11. CASE AppendBorrowed
  BY <1>11, AppendBorrowedCareful
<1>12. CASE Move
  BY <1>12, MoveCareful
<1>13. ASSUME NEW n \in 0..MaxLen, CreateArray(n) PROVE CInv'
  BY <1>13, CreateArrayCareful
<1>14. ASSUME NEW n \in Tables, CreateTable(n) PROVE CInv'
  BY <1>14, CreateTableCareful
<1>15. CASE Get
  BY <1>15, GetCareful
<1>16. CASE Slice
  BY <1>16, SliceCareful
<1>17. CASE AppendOp
  BY <1>17, AppendOpCareful
<1>18. CASE BeginIter
  BY <1>18, BeginIterCareful
<1>19. CASE UNCHANGED vars
  <2>1. UNCHANGED <<env, stack, heap, status>>
    BY <1>19 DEF vars
  <2> QED
    BY <2>1, StopCareful DEF CInv
<1> QED
  BY <1>1, <1>2, <1>3, <1>4, <1>5, <1>6, <1>7, <1>8, <1>9, <1>10, <1>11, <1>12, <1>13, <1>14,
     <1>15, <1>16, <1>17, <1>18, <1>19 DEF Next

LEMMA InitCInv == Init => CInv
<1> SUFFICES ASSUME Init PROVE CInv
  OBVIOUS
<1>1. stack = <<>> /\ heap = [o \in Obj |-> Dead] /\ status = "ok"
  BY DEF Init
<1>2. IInv
  BY InitIInv
<1>3. \A p, o \in Obj : ~Refers(heap, p, o)
  BY <1>1 DEF Refers, Dead, Object
<1>4. Ordered(heap)
  <2> DEFINE r == [o \in Obj |-> 0]
  <2>1. r \in [Obj -> 0..0] /\ 0 \in Nat
    OBVIOUS
  <2> HIDE DEF r
  <2>2. Ranked(heap, r, 0)
    BY <1>3, <2>1 DEF Ranked
  <2> QED
    BY <2>1, <2>2 DEF Ordered
<1>5. StackFits
  BY <1>1 DEF StackFits
<1> QED
  BY <1>1, <1>2, <1>4, <1>5 DEF CInv

(* Of any arrays alive, one of highest rank is referred to from outside.   *)
LEMMA CInvNoLeak == CInv => NoLeak
<1> SUFFICES ASSUME CInv, drop = <<>>, NEW S \in (SUBSET Live) \ {{}}
             PROVE  \E o \in S : \/ \E v \in Var : env[v] = Ref(o)
                                 \/ References(stack, o) > 0
                                 \/ \E p \in Live \ S : References(heap[p].e, o) > 0
  BY DEF NoLeak
<1>1. IInv /\ S \subseteq Obj /\ S # {} /\ \A o \in S : heap[o].live
  BY DEF CInv, Live
<1>2. PICK K \in Nat : \E r : Ranked(heap, r, K)
  BY DEF CInv, Ordered
<1>3. PICK r : Ranked(heap, r, K)
  BY <1>2
<1>4. \A o \in Obj : r[o] \in 0..K
  BY <1>3 DEF Ranked
<1>5. PICK o \in S : \A p \in S : r[p] <= r[o]
  <2> DEFINE T == {K - r[o] : o \in S}
  <2>1. T \in SUBSET Nat /\ T # {}
    BY <1>1, <1>4
  <2> HIDE DEF T
  <2>2. PICK x \in T : \A y \in T : x <= y
    BY <2>1, Least
  <2>3. PICK o \in S : x = K - r[o]
    BY DEF T
  <2>4. ASSUME NEW p \in S PROVE r[p] <= r[o]
    <3>1. K - r[o] <= K - r[p]
      BY <2>2, <2>3 DEF T
    <3>2. r[o] \in 0..K /\ r[p] \in 0..K
      BY <1>1, <1>4
    <3> QED
      BY <3>1, <3>2
  <2> QED
    BY <2>4
<1>6. o \in Obj /\ heap[o].rc > 0 /\ AllReferences(o) > 0 /\ References(drop, o) = 0
  BY <1>1, NothingDropped DEF IInv
<1>7. References(env, o) + References(stack, o) + ElementReferences(heap, o) > 0
      /\ References(env, o) \in Nat /\ References(stack, o) \in Nat /\ ElementReferences(heap, o) \in Nat
  BY <1>1, <1>6, Finite DEF AllReferences
<1>8. CASE References(env, o) > 0
  <2>1. PICK v \in DOMAIN env : RefersTo(env[v], o)
    BY <1>8, ReferencesNone
  <2>2. v \in Var /\ env[v] \in ValueCell
    BY <1>1, <2>1 DEF IInv
  <2>3. env[v] = Ref(o)
    BY <2>1, <2>2, ValueCells DEF RefersTo, Counts, ValueCell, Ref, Null
  <2> QED
    BY <2>2, <2>3
<1>9. CASE References(stack, o) > 0
  BY <1>9
<1>10. CASE ElementReferences(heap, o) > 0
  <2>1. ElementPlaces(heap, o) # {}
    <3>1. ElementReferences(heap, o) = Cardinality(ElementPlaces(heap, o))
      BY DEF ElementReferences, ElementPlaces
    <3>2. Cardinality(ElementPlaces(heap, o)) # 0
      BY <1>7, <1>10, <3>1
    <3> QED
      BY <3>2, FS_EmptySet
  <2>2. PICK q \in ElementPlaces(heap, o) : TRUE
    BY <2>1
  <2>3. PICK p \in Obj : \E j \in DOMAIN heap[p].e : RefersTo(heap[p].e[j], o)
    BY <2>2 DEF ElementPlaces
  <2>4. r[o] < r[p]
    BY <1>3, <1>6, <2>3 DEF Ranked, Refers
  <2>5. p \notin S
    <3>1. r[o] \in Int /\ r[p] \in Int
      BY <1>4, <1>6, <2>3
    <3> QED
      BY <1>5, <2>4, <3>1
  <2>6. heap[p].live
    BY <1>1, <2>3 DEF IInv, HeapOK
  <2>7. References(heap[p].e, o) > 0
    <3>1. heap[p].e \in Seq(ValueCell)
      BY <1>1, <2>3 DEF IInv, HeapOK, Shaped
    <3>2. IsFiniteSet(DOMAIN heap[p].e)
      BY <3>1, SeqFinite
    <3>3. PICK e : e = heap[p].e
      OBVIOUS
    <3>4. References(e, o) >= 1 /\ References(e, o) \in Nat
      BY <2>3, <3>1, <3>2, <3>3, ReferencesPositive, SeqCounted
    <3> QED
      BY <3>3, <3>4
  <2> QED
    BY <2>3, <2>5, <2>6, <2>7 DEF Live
<1> QED
  BY <1>7, <1>8, <1>9, <1>10

LEMMA CarefulKeeps == Careful => (Spec /\ []Few => []CInv)
<1> SUFFICES ASSUME Careful PROVE Spec /\ []Few => []CInv
  OBVIOUS
<1>1. CInv /\ IInv' /\ [Next]_vars => CInv'
  BY NextCareful
<1> QED
  BY <1>1, Inductive, InitCInv, PTL DEF Spec

(* Nothing is used after it was freed or moved, in a script that appends,   *)
(* writes and gets with care: however places are borrowed one in another,   *)
(* and whatever is copied, cloned, moved or freed meanwhile, a pointer that *)
(* GetBorrowed or GetInserted left on the stack points at the element its   *)
(* place leads to, and an iterator at an array of the length it began with. *)
THEOREM CarefulNeverDangles == Careful => (Spec /\ []Few => []NeverDangling)
<1> SUFFICES ASSUME Careful PROVE Spec /\ []Few => []NeverDangling
  OBVIOUS
<1>1. CInv => NeverDangling
  BY DEF CInv, NeverDangling
<1>2. Spec /\ []Few => []CInv
  BY CarefulKeeps
<1> QED
  BY <1>1, <1>2, PTL

(* No arrays of such a script keep only each other alive: its references    *)
(* form no cycle, so that counting them frees everything, whatever is put   *)
(* into what through a borrowed place.                                      *)
THEOREM CarefulNeverLeaks == Careful => (Spec /\ []Few => []NoLeak)
<1> SUFFICES ASSUME Careful PROVE Spec /\ []Few => []NoLeak
  OBVIOUS
<1>1. Spec /\ []Few => []CInv
  BY CarefulKeeps
<1> QED
  BY <1>1, CInvNoLeak, PTL

=============================================================================
