----------------------------- MODULE ValueHeap -----------------------------
(***************************************************************************)
(* Arrays and tables as libjarl keeps them: an Array or a Table is an      *)
(* object on the heap with a 16-bit reference count (rc_mixin.h), a        *)
(* TypedValue of that type is a counted pointer to one (value.cpp),        *)
(* copying a value shares the object, and what is about to be written      *)
(* through a borrowed pointer is cloned first when it is shared.  An       *)
(* instruction of vm.cpp is one action; the destructors it sets off run    *)
(* before the next one (Release).                                          *)
(*                                                                         *)
(* Strings and functions are never written to and hold no arrays a script  *)
(* can reach.                                                              *)
(*                                                                         *)
(* A script is careful when it does four things the code does not enforce; *)
(* Careless names the ones it leaves out:                                  *)
(*   append  ++ of an array and a value goes to an array nothing else      *)
(*           refers to                                                     *)
(*   write   while a place in a variable is borrowed, the variable is not  *)
(*           written, and no copy of it made meanwhile is left at the end  *)
(*   get     an element is read from an array something else refers to     *)
(*   declare a variable is declared (WriteVar) by a statement, not inside  *)
(*           an expression                                                 *)
(***************************************************************************)
EXTENDS Values

CONSTANTS
  Var,       \* the variables of the running frame
  Unnamed,   \* the key of a loop that names none: no script reads it
  Literal,   \* the numbers, and null, a script writes
  Obj,       \* the memory: arrays and tables that can exist at once
  NoObj,
  RcMod,     \* reference counts are modulo this, 2^16 in the code
  MaxLen,    \* bound: elements of an array or a table
  Tables,    \* bound: pairs a table is written with
  MaxStack,  \* bound: operands on the stack
  Careless   \* the habits the script does not have

ASSUME HeapAssumption ==
  /\ NoObj \notin Obj /\ Unnamed \notin Var
  /\ Literal \subseteq [k : {"num"}, n : Int, e : {<<>>}] \union {Null}
  /\ IsFiniteSet(Obj) /\ IsFiniteSet(Var)
  /\ RcMod \in Nat \ {0}
  /\ MaxLen \in Nat /\ MaxStack \in Nat /\ Tables \subseteq Nat
  /\ Careless \subseteq {"append", "write", "get", "declare"}

VARIABLES
  env,       \* env[v]: the cell of variable v
  stack,     \* the cells of the operands
  heap,      \* heap[o]: the array or table o
  drop,      \* values whose destructors are still to run
  status     \* ok, raised, or dangling: freed memory was used

vars == <<env, stack, heap, drop, status>>

-----------------------------------------------------------------------------
(* Cells.  Numbers and null are what they are in Values; the rest are      *)
(* counted pointers, iterators and borrowed pointers.                      *)

Ref(o) == [k |-> "ref", o |-> o]

(* An iterator holds a reference, and meets the elements in some order: an *)
(* array's as they are, a table's as the buckets of its unordered_map have *)
(* them, which may be any.                                                 *)
IterOf(o, order, at) == [k |-> "iter", o |-> o, order |-> order, at |-> at]

IsCell(c) == c.k \in {"num", "null", "ref"}
Counts(c) == c.k \in {"ref", "iter"}        \* does c hold a reference?

(* A borrowed pointer points at variable v, when o is NoObj, or at element *)
(* i of object o.  The rest is history, not in the code: v and p are the   *)
(* place the script named, len is the length of o, since a vector that     *)
(* grows moves its elements, and rcs are the counts of the objects on the  *)
(* way when they were borrowed.                                            *)
BorrowOf(v, p, o, i, len, rcs) ==
  [k |-> "borrow", v |-> v, p |-> p, o |-> o, i |-> i, len |-> len, rcs |-> rcs]

RefersTo(c, o) == Counts(c) /\ c.o = o

(* The references to o among cells, a sequence or a function of them.      *)
References(cells, o) == Cardinality({j \in DOMAIN cells : RefersTo(cells[j], o)})

(* Mutant: a copy is not counted.                                          *)
CopyingUncounted(cells, h) == h

(* copy_ of every one of the cells: incRefCount.                           *)
Copying(cells, h) ==
  [o \in Obj |-> [h[o] EXCEPT !.rc = (@ + References(cells, o)) % RcMod]]

(* Objects.  A table has its keys beside its values.                       *)
Object(live, rc, tab, keys, e) ==
  [live |-> live, rc |-> rc, tab |-> tab, keys |-> keys, e |-> e]

Dead == Object(FALSE, 0, FALSE, <<>>, <<>>)

(* Mutant: the value a new array is assigned to does not count it.         *)
ArrayUncounted(e) == Object(TRUE, 0, FALSE, <<>>, e)

Array(e)       == Object(TRUE, 1, FALSE, <<>>, e)
Table(keys, e) == Object(TRUE, 1, TRUE, keys, e)

Free  == {o \in Obj : ~heap[o].live}
Elems(c) == IF c.k = "ref" THEN heap[c.o].e ELSE <<>>
RcOf(c)  == IF c.k = "ref" THEN heap[c.o].rc ELSE 1

IsArray(c) == c.k = "ref" /\ ~heap[c.o].tab
IsTable(c) == c.k = "ref" /\ heap[c.o].tab

(* A new object at n, whose elements are copies.                           *)
NewCopy(n, object) == [Copying(object.e, heap) EXCEPT ![n] = object]

Twin(o) == [heap[o] EXCEPT !.rc = 1]

(* Mutants: clone keeps the reference to the shared array; clone does      *)
(* nothing; clone takes two references for one.                            *)
ClonedKeeping(c) ==
  IF RcOf(c) > 1
  THEN {[c |-> Ref(n), h |-> NewCopy(n, Twin(c.o)), d |-> <<>>] : n \in Free}
  ELSE {[c |-> c, h |-> heap, d |-> <<>>]}

ClonedNever(c) == {[c |-> c, h |-> heap, d |-> <<>>]}

ClonedLate(c) ==
  IF RcOf(c) > 2
  THEN {[c |-> Ref(n), h |-> NewCopy(n, Twin(c.o)), d |-> <<c>>] : n \in Free}
  ELSE {[c |-> c, h |-> heap, d |-> <<>>]}

(* clone: what becomes of the cell, the heap and the references.           *)
Cloned(c) ==
  IF RcOf(c) > 1
  THEN {[c |-> Ref(n), h |-> NewCopy(n, Twin(c.o)), d |-> <<c>>] : n \in Free}
  ELSE {[c |-> c, h |-> heap, d |-> <<>>]}

(* Mutant: joining two arrays grows the first.                             *)
AppendedInPlace(c, r) ==
  IF IsArray(r) /\ IsArray(c)
  THEN {[c |-> c, h |-> [Copying(Elems(r), heap) EXCEPT ![c.o].e = @ \o Elems(r)],
         d |-> <<r>>]}
  ELSE IF IsArray(r)
  THEN {[c |-> Ref(n), h |-> NewCopy(n, Array(<<c>> \o Elems(r))), d |-> <<r>>] : n \in Free}
  ELSE {[c |-> c, h |-> [heap EXCEPT ![c.o].e = Append(@, r)], d |-> <<>>]}

(* append of r to the cell c.  With an array on the right it makes a new   *)
(* array, with one only on the left it grows that one.                     *)
Appended(c, r) ==
  IF IsArray(r)
  THEN LET e == (IF IsArray(c) THEN Elems(c) ELSE <<c>>) \o Elems(r)
       IN  {[c |-> Ref(n), h |-> NewCopy(n, Array(e)), d |-> <<c, r>>] : n \in Free}
  ELSE {[c |-> c, h |-> [heap EXCEPT ![c.o].e = Append(@, r)], d |-> <<>>]}

AppendedLen(c, r) ==
  (IF IsArray(c) THEN Len(Elems(c)) ELSE 1) + (IF IsArray(r) THEN Len(Elems(r)) ELSE 1)

(* The entry of a key; 0 for none.                                         *)
Entry(keys, n) ==
  IF \E j \in DOMAIN keys : keys[j] = n THEN CHOOSE j \in DOMAIN keys : keys[j] = n ELSE 0

(* Where a step of a path leads in the object c refers to.                 *)
StepIn(c, x) == IF IsTable(c) THEN Entry(heap[c.o].keys, x) ELSE x

(* The step that index or key n of it is.                                  *)
StepOf(c, n) == IF IsTable(c) THEN n ELSE Position(n, Len(Elems(c)))

(* The element of c that cell i names; 0 for none.                         *)
Index(c, i) ==
  LET at == StepIn(c, StepOf(c, i.n))
  IN  IF c.k = "ref" /\ i.k = "num" /\ at \in DOMAIN Elems(c) THEN at ELSE 0

(* Mutant: emplace does not look for the key.                              *)
EnteredAnew(t, n) == [t EXCEPT !.keys = Append(@, n), !.e = Append(@, Null)]

(* emplace of null under key n: nothing when the key is there.             *)
Entered(t, n) ==
  IF Entry(t.keys, n) # 0 THEN t
  ELSE [t EXCEPT !.keys = Append(@, n), !.e = Append(@, Null)]

-----------------------------------------------------------------------------
Operand(i) == stack[Len(stack) - i]     \* 0 is the top
Below(n)   == SubSeq(stack, 1, Len(stack) - n)

Has(n) == status = "ok" /\ drop = <<>> /\ Len(stack) >= n

Do(newEnv, newStack, newHeap, dropped) ==
  /\ Len(newStack) <= MaxStack
  /\ env' = newEnv
  /\ stack' = newStack
  /\ heap' = newHeap
  /\ drop' = dropped
  /\ UNCHANGED status

Stop(how) == status' = how /\ UNCHANGED <<env, stack, heap, drop>>

(* What a borrowed pointer points at, and what a write through it changes. *)
Pointed(b)      == IF b.o = NoObj THEN env[b.v] ELSE heap[b.o].e[b.i]
EnvWith(b, c)   == IF b.o = NoObj THEN [env EXCEPT ![b.v] = c] ELSE env
HeapWith(h, b, c) == IF b.o = NoObj THEN h ELSE [h EXCEPT ![b.o].e[b.i] = c]

(* A table that grows leaves its elements where they are.                  *)
Dangling(b) ==
  /\ b.o # NoObj
  /\ \/ ~heap[b.o].live \/ Len(heap[b.o].e) < b.len
     \/ ~heap[b.o].tab /\ Len(heap[b.o].e) # b.len

(* Does the place the script named still lead to what b points at, through *)
(* no more references than when it was borrowed?                           *)
Leads(b) ==
  LET along[j \in 0..Len(b.p)] ==
        IF j = 0 THEN env[b.v]
        ELSE LET e  == Elems(along[j - 1])
                 at == StepIn(along[j - 1], b.p[j])
             IN  IF at \in DOMAIN e THEN e[at] ELSE Null
  IN  /\ \A j \in 1..Len(b.p) :
           along[j - 1].k = "ref" /\ RcOf(along[j - 1]) <= b.rcs[j]
      /\ b.p # <<>> => along[Len(b.p) - 1].o = b.o

MayUse(b) == "write" \in Careless \/ Leads(b)

MayWrite(v, below) ==
  \/ "write" \in Careless
  \/ \A j \in DOMAIN below :
       below[j].k = "borrow" => below[j].o = NoObj \/ below[j].v # v

-----------------------------------------------------------------------------
Init ==
  /\ env = [v \in Var |-> Null]
  /\ stack = <<>>
  /\ heap = [o \in Obj |-> Dead]
  /\ drop = <<>>
  /\ status = "ok"

(* decRefCount of array o: its count, and whether that destroys it.        *)
Less(o) == (heap[o].rc - 1) % RcMod

(* Mutant: the elements of a destroyed array are not.                      *)
ReleaseShallow ==
  /\ status = "ok" /\ drop # <<>>
  /\ LET c == Head(drop) IN
     heap' = IF ~Counts(c) THEN heap
             ELSE [heap EXCEPT ![c.o] = IF Less(c.o) = 0 THEN Dead ELSE [@ EXCEPT !.rc = Less(c.o)]]
  /\ drop' = Tail(drop)
  /\ UNCHANGED <<env, stack, status>>

(* clear_: the last reference destroys the array, and with it its          *)
(* elements; what holds no reference needs nothing.                        *)
Release ==
  /\ status = "ok" /\ drop # <<>>
  /\ LET c == Head(drop) IN
     IF ~Counts(c) THEN heap' = heap /\ drop' = Tail(drop)
     ELSE IF Less(c.o) = 0
     THEN /\ heap' = [heap EXCEPT ![c.o] = Dead]
          /\ drop' = heap[c.o].e \o Tail(drop)
     ELSE /\ heap' = [heap EXCEPT ![c.o].rc = Less(c.o)]
          /\ drop' = Tail(drop)
  /\ UNCHANGED <<env, stack, status>>

Push(c) == Has(0) /\ Do(env, Append(stack, c), heap, <<>>)

PushVar(v) ==
  Has(0) /\ Do(env, Append(stack, env[v]), Copying(<<env[v]>>, heap), <<>>)

Pop ==
  /\ Has(1) /\ Operand(0).k # "iter"
  /\ Do(env, Below(1), heap, <<Operand(0)>>)

WriteVar(v) ==
  /\ Has(1) /\ IsCell(Operand(0)) /\ MayWrite(v, Below(1))
  /\ "declare" \in Careless \/ \A j \in 1..(Len(stack) - 1) : stack[j].k = "iter"
  /\ Do([env EXCEPT ![v] = Operand(0)], Below(1), heap, <<env[v]>>)

Borrow(v) ==
  /\ Has(0)
  /\ \E c \in Cloned(env[v]) :
       Do([env EXCEPT ![v] = c.c],
          Append(stack, BorrowOf(v, <<>>, NoObj, 0, 0,
                                 <<IF c.c.k = "ref" THEN c.h[c.c.o].rc ELSE 1>>)),
          c.h, c.d)

(* getBorrowed: the object pointed at is cloned when it is shared, then    *)
(* the pointer moves on into it.                                           *)
BorrowElement ==
  /\ Has(2) /\ Operand(1).k = "borrow" /\ IsCell(Operand(0)) /\ MayUse(Operand(1))
  /\ LET b == Operand(1)
         at == Index(Pointed(b), Operand(0))
     IN  IF Dangling(b) THEN Stop("dangling")
         ELSE IF at = 0 THEN Stop("raised")
         ELSE \E c \in Cloned(Pointed(b)) :
                Do(EnvWith(b, c.c),
                   Append(Below(2),
                     BorrowOf(b.v, Append(b.p, StepOf(Pointed(b), Operand(0).n)), c.c.o, at, Len(c.h[c.c.o].e),
                              [b.rcs EXCEPT ![Len(b.rcs)] = c.h[c.c.o].rc] \o <<1>>)),
                   HeapWith(c.h, b, c.c), c.d)

(* getInserted.                                                            *)
BorrowInserted ==
  /\ Has(2) /\ Operand(1).k = "borrow" /\ IsCell(Operand(0)) /\ MayUse(Operand(1))
  /\ LET b == Operand(1)
         i == Operand(0)
     IN  IF Dangling(b) THEN Stop("dangling")
         ELSE IF ~IsTable(Pointed(b)) \/ i.k # "num" THEN Stop("raised")
         ELSE \E c \in Cloned(Pointed(b)) :
                LET t == Entered(c.h[c.c.o], i.n) IN
                /\ Len(t.e) <= MaxLen
                /\ Do(EnvWith(b, c.c),
                      Append(Below(2),
                        BorrowOf(b.v, Append(b.p, i.n), c.c.o, Entry(t.keys, i.n), Len(t.e),
                                 [b.rcs EXCEPT ![Len(b.rcs)] = t.rc] \o <<1>>)),
                      HeapWith([c.h EXCEPT ![c.c.o] = t], b, c.c), c.d)

WriteBorrowed ==
  /\ Has(2) /\ Operand(1).k = "borrow" /\ IsCell(Operand(0))
  /\ MayUse(Operand(1)) /\ MayWrite(Operand(1).v, Below(2))
  /\ LET b == Operand(1) IN
     IF Dangling(b) THEN Stop("dangling")
     ELSE Do(EnvWith(b, Operand(0)), Below(2), HeapWith(heap, b, Operand(0)),
             <<Pointed(b)>>)

(* append in the place pointed at.                                         *)
AppendBorrowed ==
  /\ Has(2) /\ Operand(1).k = "borrow" /\ IsCell(Operand(0))
  /\ MayUse(Operand(1)) /\ MayWrite(Operand(1).v, Below(2))
  /\ LET b == Operand(1)
         c == Pointed(b)
         r == Operand(0)
     IN  IF Dangling(b) THEN Stop("dangling")
         ELSE IF ~IsArray(c) /\ ~IsArray(r) THEN Stop("raised")
         ELSE /\ IsArray(r) \/ RcOf(c) <= b.rcs[Len(b.rcs)] \/ "append" \in Careless
              /\ AppendedLen(c, r) <= MaxLen
              /\ \E a \in Appended(c, r) :
                   Do(EnvWith(b, a.c), Below(2), HeapWith(a.h, b, a.c), a.d)

(* steal: the value moves to the stack and leaves null.  Generated code    *)
(* runs nothing between the last borrow and Move, so the place is as it    *)
(* was borrowed.                                                           *)
Move ==
  /\ Has(1) /\ Operand(0).k = "borrow" /\ ~Dangling(Operand(0)) /\ Leads(Operand(0))
  /\ LET b == Operand(0) IN
     Do(EnvWith(b, Null), Append(Below(1), Pointed(b)), HeapWith(heap, b, Null), <<>>)

CreateArray(n) ==
  /\ Has(n) /\ \A i \in 0..(n - 1) : IsCell(Operand(i))
  /\ \E o \in Free :
       Do(env, Append(Below(n), Ref(o)),
          [heap EXCEPT ![o] = Array(SubSeq(stack, Len(stack) - n + 1, Len(stack)))],
          <<>>)

(* Of equal keys the first pair is kept; the cells the others came in are  *)
(* destroyed with the rest of the operands.                                *)
CreateTable(n) ==
  /\ Has(2 * n) /\ \A i \in 0..(2 * n - 1) : IsCell(Operand(i))
  /\ LET cells == SubSeq(stack, Len(stack) - 2 * n + 1, Len(stack))
         first == FirstPairs(cells)
         D     == 1..Cardinality(first)
     IN  IF ~AllKeys(cells) THEN Stop("raised")
         ELSE /\ Cardinality(first) <= MaxLen
              /\ \E o \in Free, s \in {s \in [D -> first] : \A i, j \in D : i < j => s[i] < s[j]} :
                   Do(env, Append(Below(2 * n), Ref(o)),
                      [heap EXCEPT ![o] = Table([j \in D |-> cells[2 * s[j] - 1].n],
                                                [j \in D |-> cells[2 * s[j]]])],
                      [p \in 1..(2 * n) |-> IF p % 2 = 0 /\ p \div 2 \in first THEN Null ELSE cells[p]])

(* The assignment in get gives the array back before it reads the element. *)
Get ==
  /\ Has(2) /\ IsCell(Operand(1)) /\ IsCell(Operand(0))
  /\ LET c == Operand(1)
         at == Index(c, Operand(0))
     IN  IF at = 0 THEN Stop("raised")
         ELSE IF RcOf(c) = 1 THEN "get" \in Careless /\ Stop("dangling")
         ELSE Do(env, Append(Below(2), Elems(c)[at]),
                 Copying(<<Elems(c)[at]>>, heap), <<c>>)

Slice ==
  /\ Has(3) /\ \A i \in 0..2 : IsCell(Operand(i))
  /\ IF ~IsArray(Operand(2)) \/ "ref" \in {Operand(1).k, Operand(0).k}
     THEN Stop("raised")
     ELSE LET e == Sliced(Elems(Operand(2)), Operand(1), Operand(0)) IN
          \E n \in Free :
            Do(env, Append(Below(3), Ref(n)), NewCopy(n, Array(e)), <<Operand(2)>>)

AppendOp ==
  /\ Has(2) /\ IsCell(Operand(1)) /\ IsCell(Operand(0))
  /\ LET c == Operand(1)
         r == Operand(0)
     IN  IF ~IsArray(c) /\ ~IsArray(r) THEN Stop("raised")
         ELSE /\ IsArray(r) \/ RcOf(c) = 1 \/ "append" \in Careless
              /\ AppendedLen(c, r) <= MaxLen
              /\ \E a \in Appended(c, r) :
                   Do(env, Append(Below(2), a.c), a.h, a.d)

(* The iterator takes over the reference of the value it replaces.  What   *)
(* cannot be iterated is left to module VM.                                *)
Orders(c) ==
  LET D == DOMAIN Elems(c) IN
  {s \in [D -> D] : /\ \A i, j \in D : s[i] = s[j] => i = j
                    /\ IsTable(c) \/ \A i \in D : s[i] = i}

BeginIter ==
  /\ Has(1) /\ Operand(0).k = "ref"
  /\ \E order \in Orders(Operand(0)) :
       Do(env, Append(Below(1), IterOf(Operand(0).o, order, 1)), heap, <<>>)

(* getKey.                                                                 *)
KeyAt(o, at) == IF heap[o].tab THEN heap[o].keys[at] ELSE at - 1

NextOrJmp(key, v) ==
  /\ Has(1) /\ Operand(0).k = "iter"
  /\ MayWrite(v, Below(1)) /\ MayWrite(key, Below(1))
  /\ LET it == Operand(0)
         e  == heap[it.o].e
     IN  IF Len(e) # Len(it.order) THEN Stop("dangling")
         ELSE IF it.at > Len(it.order) THEN Do(env, Below(1), heap, <<it>>)
         ELSE Do([w \in Var |-> IF w = v THEN e[it.order[it.at]]
                                ELSE IF w = key THEN Number(KeyAt(it.o, it.order[it.at]))
                                ELSE env[w]],
                 Append(Below(1), IterOf(it.o, it.order, it.at + 1)),
                 Copying(<<e[it.order[it.at]]>>, heap),
                 (IF key \in Var THEN <<env[key]>> ELSE <<>>) \o <<env[v]>>)

Next ==
  \/ Release
  \/ \E c \in Literal : Push(c)
  \/ \E v \in Var : PushVar(v) \/ WriteVar(v) \/ Borrow(v)
  \/ \E key \in Var \union {Unnamed}, v \in Var : key # v /\ NextOrJmp(key, v)
  \/ Pop \/ BorrowElement \/ BorrowInserted \/ WriteBorrowed \/ AppendBorrowed \/ Move
  \/ \E n \in 0..MaxLen : CreateArray(n)
  \/ \E n \in Tables : CreateTable(n)
  \/ Get \/ Slice \/ AppendOp \/ BeginIter

Spec == Init /\ [][Next]_vars

-----------------------------------------------------------------------------
(* What the cells stand for in ValueSem.                                   *)

Trees ==
  LET to[depth \in 0..Cardinality(Obj)] ==
        [o \in Obj |->
           LET Tree(c) == IF c.k # "ref" THEN c
                          ELSE IF depth = 0 THEN Missing
                          ELSE to[depth - 1][c.o]
               keys == heap[o].keys
           IN  IF heap[o].tab
               THEN Tab([n \in {keys[j] : j \in DOMAIN keys} |-> Tree(heap[o].e[Entry(keys, n)])])
               ELSE Arr([j \in 1..Len(heap[o].e) |-> Tree(heap[o].e[j])])]
  IN  to[Cardinality(Obj)]

TreeOf(c) == IF c.k = "ref" THEN Trees[c.o] ELSE c

SemOperand(c) ==
  CASE c.k = "borrow" -> [k |-> "place", v |-> c.v, p |-> c.p]
    [] c.k = "iter"   -> [k |-> "loop", at |-> c.at,
                          e |-> [j \in DOMAIN c.order |->
                                   <<KeyAt(c.o, c.order[j]), TreeOf(heap[c.o].e[c.order[j]])>>]]
    [] OTHER          -> TreeOf(c)

Sem == INSTANCE ValueSem WITH
         env   <- [v \in Var |-> TreeOf(env[v])],
         stack <- [j \in 1..Len(stack) |-> SemOperand(stack[j])]

-----------------------------------------------------------------------------
(* Properties.                                                             *)

Live == {o \in Obj : heap[o].live}

ValueCell == [k : {"num"}, n : Int, e : {<<>>}] \union {Null} \union {Ref(o) : o \in Obj}

IterCell ==
  {c \in [k : {"iter"}, o : Obj, order : Seq(Nat), at : Nat] :
     /\ c.at \in 1..(Len(c.order) + 1)
     /\ \A j \in DOMAIN c.order : c.order[j] \in 1..Len(c.order)}

BorrowCell ==
  {c \in [k : {"borrow"}, v : Var, p : Seq(Int), o : Obj \union {NoObj}, i : Nat, len : Nat,
          rcs : Seq(Nat)] :
     Len(c.rcs) = Len(c.p) + 1 /\ (c.o \in Obj => c.i \in 1..c.len)}

OperandCell == ValueCell \union IterCell \union BorrowCell

TypeOK ==
  /\ env \in [Var -> ValueCell]
  /\ stack \in Seq(OperandCell)
  /\ heap \in [Obj -> [live : BOOLEAN, rc : 0..(RcMod - 1), tab : BOOLEAN, keys : Seq(Int),
                       e : Seq(ValueCell)]]
  /\ \A o \in Obj : heap[o].live <=> heap[o].rc > 0
  /\ drop \in Seq(OperandCell)
  /\ status \in {"ok", "raised", "dangling"}

(* References to o from elements of arrays, and from everywhere.           *)
ElementReferences(h, o) ==
  Cardinality({q \in Obj \X (1..MaxLen) :
                 q[2] \in DOMAIN h[q[1]].e /\ RefersTo(h[q[1]].e[q[2]], o)})

AllReferences(o) ==
    References(env, o) + References(stack, o) + References(drop, o)
  + ElementReferences(heap, o)

(* The count of an array is the number of references to it: from           *)
(* variables, operands, elements of arrays, and from values whose          *)
(* destructors are still to run.                                           *)
CountsExact == \A o \in Obj : heap[o].rc = AllReferences(o) % RcMod

(* A table has one value for each of its keys, and no key twice.           *)
KeysUnique ==
  \A o \in Obj :
    heap[o].tab =>
      /\ Len(heap[o].keys) = Len(heap[o].e)
      /\ \A i, j \in DOMAIN heap[o].keys : heap[o].keys[i] = heap[o].keys[j] => i = j

(* No array is kept alive only by arrays nobody can reach: whatever set of *)
(* arrays is alive, something outside it refers to one of them.  (A cycle  *)
(* of counted references would never be freed.)                            *)
NoLeak ==
  drop = <<>> =>
    \A S \in (SUBSET Live) \ {{}} :
      \E o \in S :
        \/ \E v \in Var : env[v] = Ref(o)
        \/ References(stack, o) > 0
        \/ \E p \in Live \ S : References(heap[p].e, o) > 0

(* No pointer into an array, borrowed or iterating, is used after the      *)
(* array was freed or its elements moved.                                  *)
NeverDangling == status # "dangling"

(* Sharing never shows: every step is a step of ValueSem or, when it only  *)
(* gives references back, none.                                            *)
ImplementsValueSem == Sem!Spec

(* A variable changes only when it is written: by name, or through a       *)
(* borrow of a place in it that the instruction consumes.  This is what    *)
(* test/mutable_arrays.jarl says of arrays.                                *)
BorrowUsed(v) ==
  \E j \in DOMAIN stack :
    /\ stack[j].k = "borrow" /\ stack[j].v = v
    /\ j > Len(stack') \/ stack'[j] # stack[j]

CopySemantics ==
  [][\A v \in Var :
       TreeOf(env[v])' # TreeOf(env[v]) => env'[v] # env[v] \/ BorrowUsed(v)]_vars
=============================================================================
