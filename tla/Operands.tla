------------------------------ MODULE Operands -------------------------------
(***************************************************************************)
(* Numbers, strings and functions as libjarl keeps them: the operators of  *)
(* value.cpp, the table of strings of string.cpp, in which equal strings   *)
(* are one object with a count, and the partial applications of            *)
(* function.cpp, which are objects with a count and slots.                 *)
(*                                                                         *)
(* A function's body is not run (module VM does that): it returns null or  *)
(* one of its parameters or captures, so that what it was called with can  *)
(* be seen.  Functions themselves are constants of the script and never    *)
(* freed.  Floats are not written into strings.                            *)
(***************************************************************************)
EXTENDS Texts

CONSTANTS
  Scripts,   \* the scripts: constants, variables, operators, and how deep expressions are
  MaxText,   \* bound: bytes of a string
  MaxPartials, \* bound: partial applications that exist at once
  MaxArray   \* bound: elements of an array

ASSUME OperandAssumption ==
  /\ IntWidth \in Nat \ {0, 1} /\ CmpWidth \in 1..IntWidth
  /\ Half \in Nat \ {0, 1}    \* as a power of 2 is
  /\ Minus \in Bytes \ {0} /\ Zero \in Nat \ {0} /\ Zero + 9 \in Bytes
  /\ \A b \in BOOLEAN : Words[b] \in Seq(Bytes \ {0})
  /\ IndexMod \in Nat \ {0} /\ MaxText \in Nat /\ MaxText < IndexMod /\ MaxText < Half
  /\ MaxPartials \in Nat
  /\ \A f \in DOMAIN Functions :
       /\ Functions[f].arguments \in Nat /\ Functions[f].captures \in Nat
       /\ Functions[f].returns \in 0..(Functions[f].arguments + Functions[f].captures)

(* Powers, of which the provers know nothing.                              *)
ASSUME PowersAssumption ==
  /\ 10 ^ 0 = 1 /\ \A i \in 0..IntWidth : 10 ^ i \in Nat \ {0} /\ 10 ^ (i + 1) = 10 * 10 ^ i
  /\ Half < 10 ^ IntWidth
  /\ 2 ^ (CmpWidth - 1) \in 1..Half

VARIABLES
  script,    \* the script that runs: the constants of its function, its variables
  env,       \* env[v]: the cell of variable v
  stack,     \* the cells of the operands
  pool,      \* global_string_table_: the count of every string there is
  partials,  \* the partial applications
  drop,      \* cells whose references are still to be given back (decRefCount)
  status     \* ok, error, or where it went wrong: freed, trap, misbound

vars == <<script, env, stack, pool, partials, drop, status>>

-----------------------------------------------------------------------------
(* Partial applications.                                                   *)

PartialIds == 1..MaxPartials

Partial(p) == Cell("partial", <<p>>, <<>>)
None       == Cell("none", <<>>, <<>>)

(* What variables, constants and operands hold.                            *)
IsValueCell(c) ==
  CASE c.k = "int"     -> c = Int_(N(c)) /\ N(c) \in IntOf
    [] c.k = "float"   -> c = Float(N(c)) /\ N(c) \in Floats
    [] c.k = "bool"    -> c \in {Bool(TRUE), Bool(FALSE)}
    [] c.k = "null"    -> c = Null
    [] c.k = "text"    -> c = Text(c.v) /\ c.v \in Seq(Bytes) /\ Len(c.v) <= MaxText
    [] c.k = "func"    -> c = Func(N(c)) /\ N(c) \in DOMAIN Functions
    [] c.k = "partial" -> c = Partial(N(c)) /\ N(c) \in PartialIds
    [] OTHER           -> FALSE

IsCell(c) ==
  \/ IsValueCell(c)
  \/ c.k = "arr" /\ c = Arr(c.e) /\ \A i \in DOMAIN c.e : IsValueCell(c.e[i])

ASSUME ScriptsAssumption ==
  \A s \in Scripts :
    /\ s = [values |-> s.values, vars |-> s.vars, ops |-> s.ops, depth |-> s.depth]
    /\ IsFiniteSet(s.vars)
    /\ \A c \in s.values : IsValueCell(c) /\ c.k # "partial"

(* PartiallyApplied: a slot for every parameter, and then every capture.   *)
Unapplied(f) ==
  [rc |-> 1, f |-> f, nargs |-> Functions[f].arguments,
   slots |-> [i \in 1..(Functions[f].arguments + Functions[f].captures) |-> None]]

Dead == [rc |-> 0, f |-> 0, nargs |-> 0, slots |-> <<>>]

OneLess(p) == IF p.rc = 1 THEN Dead ELSE [p EXCEPT !.rc = @ - 1]

Empty(p) == {i \in DOMAIN p.slots : p.slots[i] = None}

(* apply, which always has bind_pos 0: x goes to the first empty slot.     *)
Bind(p, x) == [p EXCEPT !.slots[First(Empty(p))] = x, !.nargs = @ - 1]

(* Mutant: the captures go to the first slots.                             *)
CapturedFirst(f, cells) ==
  [Unapplied(f) EXCEPT !.slots = cells \o SubSeq(@, 1, Functions[f].arguments)]

Captured(f, cells) ==
  [Unapplied(f) EXCEPT !.slots = SubSeq(@, 1, Functions[f].arguments) \o cells]

Free    == {p \in PartialIds : partials[p].rc = 0}
NewPartial == First(Free)

-----------------------------------------------------------------------------
(* Cells and counts.                                                       *)

Counted(c) == c.k \in {"text", "partial"}

(* Where c is in x, which is c itself or an array.                         *)
At(c, x) == {j \in 0..Len(x.e) : IF j = 0 THEN x = c ELSE x.e[j] = c}

(* How often cells and the arrays among them refer to c.                   *)
Places(c, cells)     == UNION {{i} \X At(c, cells[i]) : i \in DOMAIN cells}
References(c, cells) == Cardinality(Places(c, cells))

(* clear_ of cells: what refers to nothing is gone at once.                *)
Cleared(cells) ==
  IF \A i \in DOMAIN cells :
       ~Counted(cells[i]) /\ \A j \in DOMAIN cells[i].e : ~Counted(cells[i].e[j])
  THEN <<>> ELSE cells

(* copy_ of every one of the cells: incRefCount.                           *)
PoolCopying(cells) ==
  [s \in DOMAIN pool |-> pool[s] + References(Text(s), cells)]

PartialsCopying(ps, cells) ==
  [p \in PartialIds |-> [ps[p] EXCEPT !.rc = @ + References(Partial(p), cells)]]

(* make_new: pushGlobalString_ finds the equal string or enters a new one. *)
Interned(s) ==
  IF s \in DOMAIN pool THEN [pool EXCEPT ![s] = @ + 1]
  ELSE [t \in DOMAIN pool \union {s} |-> IF t = s THEN 1 ELSE pool[t]]

-----------------------------------------------------------------------------
Operand(i) == stack[Len(stack) - i]     \* 0 is the top
Below(n)   == SubSeq(stack, 1, Len(stack) - n)
Top(n)     == SubSeq(stack, Len(stack) - n + 1, Len(stack))

(* A function with captures is only pushed to have them bound.             *)
IsRaw(c)   == c.k = "func" /\ Functions[N(c)].captures > 0
IsValue(c) == c.k # "arr" /\ ~IsRaw(c)

Has(n)    == status = "ok" /\ drop = <<>> /\ Len(stack) >= n
Values(n) == Has(n) /\ \A i \in 0..(n - 1) : IsValue(Operand(i))
Uses(op, n) == op \in script.ops /\ Values(n)

Do(newStack, newPool, newPartials, dropped) ==
  /\ Len(newStack) <= script.depth
  /\ stack' = newStack
  /\ pool' = newPool
  /\ partials' = newPartials
  /\ drop' = Cleared(dropped)
  /\ UNCHANGED <<script, env, status>>

Stop(how) == status' = how /\ UNCHANGED <<script, env, stack, pool, partials, drop>>

(* The n operands at the top become a number, a boolean or the like.       *)
Answer(n, r) == Do(Append(Below(n), r), pool, partials, Top(n))

(* The mutant has make_new give every string it makes its own object,      *)
(* which takes the place of the one before.                                *)
AnswerTextAnew(n, s) ==
  IF Operand(n - 1) = Text(s) /\ pool[s] = 1 THEN Stop("freed")
  ELSE /\ Len(s) <= MaxText
       /\ Do(Append(Below(n), Text(s)),
             [t \in DOMAIN pool \union {s} |-> IF t = s THEN 1 ELSE pool[t]], partials, Top(n))

(* The lowest of them becomes string s.  It is cleared before the count of *)
(* s goes up, which frees s if nothing else has it.                        *)
AnswerText(n, s) ==
  IF Operand(n - 1) = Text(s) /\ pool[s] = 1 THEN Stop("freed")
  ELSE /\ Len(s) <= MaxText
       /\ Do(Append(Below(n), Text(s)), Interned(s), partials, Top(n))

-----------------------------------------------------------------------------
Init ==
  /\ script \in Scripts
  /\ env = [v \in script.vars |-> Null]
  /\ stack = <<>>
  /\ pool = [s \in {c.v : c \in {c \in script.values : c.k = "text"}} |-> 1]
  /\ partials = [p \in PartialIds |-> Dead]
  /\ drop = <<>>
  /\ status = "ok"

(* decRefCount: the last reference takes a string out of the table, and    *)
(* with a partial application its slots go, as with an array its elements. *)
Release ==
  /\ status = "ok" /\ drop # <<>>
  /\ LET c == Head(drop) IN
     CASE c.k = "text" ->
            /\ pool' = IF pool[c.v] = 1
                       THEN [s \in DOMAIN pool \ {c.v} |-> pool[s]]
                       ELSE [pool EXCEPT ![c.v] = @ - 1]
            /\ UNCHANGED partials
            /\ drop' = Tail(drop)
       [] c.k = "partial" ->
            LET p == partials[N(c)] IN
            /\ partials' = [partials EXCEPT ![N(c)] = OneLess(p)]
            /\ UNCHANGED pool
            /\ drop' = (IF p.rc = 1 THEN p.slots ELSE <<>>) \o Tail(drop)
       [] OTHER ->
            /\ drop' = c.e \o Tail(drop)
            /\ UNCHANGED <<pool, partials>>
  /\ UNCHANGED <<script, env, stack, status>>

Copy(c) == Do(Append(stack, c), PoolCopying(<<c>>), PartialsCopying(partials, <<c>>), <<>>)

Push == Has(0) /\ \E c \in script.values : Copy(c)

PushVar == Has(0) /\ \E v \in script.vars : Copy(env[v])

WriteVar ==
  /\ Values(1)
  /\ \E v \in script.vars :
       /\ env' = [env EXCEPT ![v] = Operand(0)]
       /\ drop' = Cleared(<<env[v]>>)
  /\ stack' = Below(1)
  /\ UNCHANGED <<script, pool, partials, status>>

Pop == Has(1) /\ ~IsRaw(Operand(0)) /\ Do(Below(1), pool, partials, Top(1))

-----------------------------------------------------------------------------
(* Numbers.                                                                *)

IsNumber(c) == c.k \in {"int", "float"}

(* Mutant: sums are not cut to the width of an Int.                        *)
WrappedNever(n) == n

Wrapped(n) == ((n + Half) % (2 * Half)) - Half

(* The division of C rounds towards 0.                                     *)
Quotient(a, b) ==
  LET q == (Sign(a) * a) \div (Sign(b) * b) IN Sign(a) * Sign(b) * q

Remainder(a, b) == a - b * Quotient(a, b)

IntOp(op, a, b) ==
  CASE op = "Add" -> Wrapped(a + b)
    [] op = "Sub" -> Wrapped(a - b)
    [] op = "Mul" -> Wrapped(a * b)
    [] op = "Div" -> Quotient(a, b)
    [] op = "Mod" -> Remainder(a, b)

(* add, sub, mul, div and mod.                                             *)
Arith ==
  /\ Uses("Arith", 2)
  /\ LET a == Operand(1)
         b == Operand(0)
     IN  \E op \in {"Add", "Sub", "Mul", "Div", "Mod"} :
           IF ~IsNumber(a) \/ ~IsNumber(b) THEN Stop("error")
           ELSE IF "float" \in {a.k, b.k} THEN \E x \in Floats : Answer(2, Float(x))
           ELSE IF op \in {"Div", "Mod"} /\ N(b) = 0 THEN Stop("error")
           ELSE IF op \in {"Div", "Mod"} /\ N(a) = -Half /\ N(b) = -1 THEN Stop("trap")
           ELSE Answer(2, Int_(IntOp(op, N(a), N(b))))

Neg ==
  /\ Uses("Neg", 1)
  /\ CASE Operand(0).k = "int"   -> Answer(1, Int_(Wrapped(-N(Operand(0)))))
       [] Operand(0).k = "float" ->
            Answer(1, Float(IF IsNaN(Operand(0)) THEN NaN ELSE -N(Operand(0))))
       [] OTHER                  -> Stop("error")

-----------------------------------------------------------------------------
(* Comparisons.                                                            *)

FloatDifference(a, b) ==
  IF IsNaN(a) \/ IsNaN(b) THEN 0 ELSE AsFloat(a) - AsFloat(b)

(* <=>.                                                                    *)
Cmp ==
  /\ Uses("Cmp", 2)
  /\ LET a == Operand(1)
         b == Operand(0)
     IN  IF IsNumber(a) /\ IsNumber(b)
         THEN Answer(2, Int_(Sign(IF a.k = "int" /\ b.k = "int" THEN Wrapped(N(a) - N(b))
                                  ELSE FloatDifference(a, b))))
         ELSE IF a.k # b.k \/ a.k \notin {"null", "bool", "text"} THEN Stop("error")
         ELSE Answer(2, Int_(CASE a.k = "null" -> 0
                               [] a.k = "bool" -> N(a) - N(b)
                               [] a.k = "text" -> CmpBytes(a.v, b.v)))

(* The int cmp is narrowed to, and the float fcmp is.                      *)
Narrowed(n) ==
  LET half == 2 ^ (CmpWidth - 1) IN ((n + half) % (2 * half)) - half

SingleSign(d) == IF d \in -1..1 THEN 0 ELSE Sign(d)

(* ==, !=, >, <, >= and <=.                                                *)
CmpOp ==
  /\ Uses("CmpOp", 2)
  /\ LET a == Operand(1)
         b == Operand(0)
     IN  IF a.k # b.k \/ a.k \notin {"null", "bool", "int", "float", "text"} THEN Stop("error")
         ELSE LET cmp == CASE a.k = "null"  -> 0
                           [] a.k = "bool"  -> N(a) - N(b)
                           [] a.k = "int"   -> Narrowed(Wrapped(N(a) - N(b)))
                           [] a.k = "float" -> SingleSign(FloatDifference(a, b))
                           [] a.k = "text"  -> CmpBytes(a.v, b.v)
              IN  \E mode \in Modes : Answer(2, Bool(Holds(mode, cmp)))

(* toBool and the negation.                                                *)
Not ==
  /\ Uses("Not", 1)
  /\ CASE Operand(0).k = "null"                      -> Answer(1, Bool(TRUE))
       [] Operand(0).k \in {"bool", "int", "float"}  -> Answer(1, Bool(N(Operand(0)) = 0))
       [] OTHER                                      -> Stop("error")

-----------------------------------------------------------------------------
(* Strings.                                                                *)

BytesOf(c) ==
  CASE c.k = "int"  -> Decimal(N(c))
    [] c.k = "bool" -> Words[c = Bool(TRUE)]
    [] c.k = "text" -> c.v

(* ++ of strings and numbers; ValueHeap has that of arrays.                *)
AppendOp ==
  /\ Uses("AppendOp", 2) /\ "float" \notin {Operand(1).k, Operand(0).k}
  /\ LET a == Operand(1)
         b == Operand(0)
     IN  IF "text" \in {a.k, b.k} /\ {a.k, b.k} \subseteq {"text", "int", "bool"}
         THEN AnswerText(2, BytesOf(a) \o BytesOf(b))
         ELSE Stop("error")

(* get of a string: the index is counted from the end if negative, and     *)
(* then becomes an unsigned.                                               *)
Get ==
  /\ Uses("Get", 2)
  /\ LET s == Operand(1).v
         index == IF N(Operand(0)) < 0 THEN Utf8Len(s) + N(Operand(0)) ELSE N(Operand(0))
     IN  IF Operand(1).k # "text" \/ Operand(0).k # "int" THEN Stop("error")
         ELSE IF Glyph(s, index % IndexMod) = NoGlyph THEN Stop("error")
         ELSE AnswerText(2, Glyph(s, index % IndexMod))

Slice ==
  /\ Uses("Slice", 3)
  /\ IF Operand(2).k = "text" /\ {Operand(1).k, Operand(0).k} \subseteq {"int", "null"}
     THEN AnswerText(3, SliceBytes(Operand(2).v, Operand(1), Operand(0)))
     ELSE Stop("error")

-----------------------------------------------------------------------------
(* in, which compares types and the eight bytes of the values.  Of a null  *)
(* and a boolean not all of these are ever written.                        *)

Uncertain(c) == c.k \in {"null", "bool", "float"}

CreateArray ==
  \E n \in 1..MaxArray :
    Uses("In", n) /\ Do(Append(Below(n), Arr(Top(n))), pool, partials, <<>>)

In ==
  /\ Has(2) /\ IsValue(Operand(1)) /\ Operand(0).k = "arr"
  /\ LET a == Operand(1)
         equal == {i \in DOMAIN Operand(0).e : Operand(0).e[i] = a}
     IN  \E found \in BOOLEAN :
           /\ equal = {} => ~found
           /\ equal # {} /\ ~Uncertain(a) => found
           /\ Answer(2, Bool(found))

-----------------------------------------------------------------------------
(* Functions.                                                              *)

(* The operands at the top, n of them, are a call that runs to its end:    *)
(* the frame has args and captures, and returns one of them.               *)
Returns(n, f, frame, newPartials, copied, dropped) ==
  LET r == IF Functions[f].returns = 0 THEN Null ELSE frame[Functions[f].returns]
      copies == Append(copied, r)
  IN  Do(Append(Below(n), r), PoolCopying(copies), PartialsCopying(newPartials, copies), dropped)

CreateClosure ==
  \E n \in 1..(Len(stack) - 1) :
    /\ Has(n + 1) /\ IsRaw(Operand(n)) /\ Functions[N(Operand(n))].captures = n
    /\ \A i \in 0..(n - 1) : IsValue(Operand(i))
    /\ Free # {}
    /\ Do(Append(Below(n + 1), Partial(NewPartial)), pool,
          [partials EXCEPT ![NewPartial] = Captured(N(Operand(n)), Top(n))], <<>>)

ApplyFunc(f, x) ==
  IF Functions[f].arguments = 0 THEN Stop("error")
  ELSE IF Functions[f].arguments = 1 THEN Returns(2, f, <<x>>, partials, <<>>, <<x>>)
  ELSE /\ Free # {}
       /\ Do(Append(Below(2), Partial(NewPartial)), pool,
             [partials EXCEPT ![NewPartial] = Bind(Unapplied(f), x)], <<>>)

(* Mutant: a partial application nobody else has is not copied first, nor  *)
(* is any other.                                                           *)
ApplyPartialInPlace(c, x) ==
  LET p == partials[N(c)]
      new == Bind(p, x)
  IN  IF p.nargs = 0 THEN Stop("error")
      ELSE IF new.nargs > 0
      THEN Do(Append(Below(2), c), pool, [partials EXCEPT ![N(c)] = new], <<>>)
      ELSE Returns(2, p.f, new.slots, partials, <<>>, <<c, x>>)

(* A partial application is copied before it gets another argument.        *)
ApplyPartial(c, x) ==
  LET p == partials[N(c)]
      new == [Bind(p, x) EXCEPT !.rc = 1]
  IN  IF p.nargs = 0 THEN Stop("error")
      ELSE /\ Free # {}
           /\ IF new.nargs > 0
              THEN Do(Append(Below(2), Partial(NewPartial)), PoolCopying(p.slots),
                      PartialsCopying([partials EXCEPT ![NewPartial] = new], p.slots), <<c>>)
              ELSE Returns(2, p.f, new.slots, [partials EXCEPT ![NewPartial] = new],
                           p.slots, <<c, Partial(NewPartial)>>)

Apply ==
  /\ Uses("Apply", 2)
  /\ LET callee == Operand(1)
         x == Operand(0)
     IN  CASE callee.k = "func"    -> ApplyFunc(N(callee), x)
           [] callee.k = "partial" -> ApplyPartial(callee, x)
           [] OTHER                -> Stop("error")

(* What a partial application has bound is looked for one slot too high    *)
(* (vm.cpp:161-171), so that parameters get each other's arguments or none. *)
Call ==
  \E n \in 0..(Len(stack) - 1) :
    /\ Uses("Call", n + 1)
    /\ LET c == Operand(n) IN
       CASE c.k = "func" /\ Functions[N(c)].arguments = n ->
              Returns(n + 1, N(c), Top(n), partials, <<>>, Top(n))
         [] c.k = "partial" /\ partials[N(c)].nargs = n ->
              LET p == partials[N(c)] IN
              IF Functions[p.f].arguments # n THEN Stop("misbound")
              ELSE Returns(n + 1, p.f, Top(n) \o SubSeq(p.slots, n + 1, Len(p.slots)),
                           partials, <<>>, Top(n + 1))
         [] OTHER -> Stop("error")

Next ==
  \/ Release \/ Push \/ PushVar \/ WriteVar \/ Pop
  \/ Arith \/ Neg \/ Cmp \/ CmpOp \/ Not
  \/ AppendOp \/ Get \/ Slice \/ CreateArray \/ In
  \/ CreateClosure \/ Apply \/ Call

Spec == Init /\ [][Next]_vars

-----------------------------------------------------------------------------
(* What the cells stand for in OperandSem.                                 *)

SemText(s) == Cell(IF Visible(s) = s THEN "text" ELSE "cut", Visible(s), <<>>)

(* What a partial application holds: its captures, then its arguments.     *)
HeldIn(p) ==
  LET n == IF p.rc = 0 THEN 0 ELSE Functions[p.f].arguments
  IN  SubSeq(p.slots, n + 1, Len(p.slots)) \o SubSeq(p.slots, 1, n - p.nargs)

(* A partial application stands for its function with what it holds, given *)
(* what those it holds stand for, unless this is the lowest of the layers. *)
InnerIn(layer, below, c) ==
  CASE c.k = "text"    -> SemText(c.v)
    [] c.k = "func"    -> Cell("fun", c.v, <<>>)
    [] c.k = "partial" -> IF layer = 0 THEN None ELSE below[N(c)]
    [] OTHER           -> c

FunOver(p, layer, below) ==
  Cell("fun", <<p.f>>, [i \in DOMAIN HeldIn(p) |-> InnerIn(layer, below, HeldIn(p)[i])])

Funs ==
  LET to[layer \in 0..MaxPartials] ==
        [p \in PartialIds |-> FunOver(partials[p], layer, to[layer - 1])]
  IN  to[MaxPartials]

SemCell(c) ==
  CASE c.k = "text"    -> SemText(c.v)
    [] c.k = "func"    -> Cell("fun", c.v, <<>>)
    [] c.k = "partial" -> Funs[N(c)]
    [] OTHER           -> c

SemOperand(c) ==
  IF c.k = "arr" THEN Arr([i \in DOMAIN c.e |-> SemCell(c.e[i])]) ELSE SemCell(c)

Sem == INSTANCE OperandSem WITH
         script <- [script EXCEPT !.values = {SemCell(c) : c \in @}],
         env    <- [v \in script.vars |-> SemCell(env[v])],
         stack  <- [j \in 1..Len(stack) |-> SemOperand(stack[j])],
         status <- IF status \in {"ok", "error"} THEN status ELSE "stopped"

-----------------------------------------------------------------------------
(* Properties.                                                             *)

TypeOK ==
  /\ script \in Scripts
  /\ \A v \in script.vars : IsValueCell(env[v])
  /\ \A i \in DOMAIN stack : IsCell(stack[i])
  /\ \A s \in DOMAIN pool : pool[s] \in Nat \ {0}
  /\ DOMAIN partials = PartialIds
  /\ \A p \in PartialIds : partials[p].rc > 0 <=> partials[p] # Dead
  /\ \A i \in DOMAIN drop : drop[i] = None \/ IsCell(drop[i])
  /\ status \in {"ok", "error", "freed", "trap", "misbound"}

(* The slots of partial applications are references like others.           *)
Slots == [p \in PartialIds |-> Arr(partials[p].slots)]

AllReferences(c) ==
  References(c, env) + References(c, stack) + References(c, drop) + References(c, Slots)

TextsIn(cells) ==
  UNION {{c.v : c \in {c \in {cells[i]} \union {cells[i].e[j] : j \in DOMAIN cells[i].e} :
                        c.k = "text"}} : i \in DOMAIN cells}

(* The count of a string or a partial application is the number of its     *)
(* references, and what is referred to exists: equal strings share one     *)
(* entry of the table, partial applications hold what they are given, and  *)
(* every operator takes over, copies or gives back its operands.           *)
CountsExact ==
  /\ \A s \in DOMAIN pool :
       pool[s] = AllReferences(Text(s)) + (IF Text(s) \in script.values THEN 1 ELSE 0)
  /\ \A p \in PartialIds : partials[p].rc = AllReferences(Partial(p))
  /\ TextsIn(env) \union TextsIn(stack) \union TextsIn(drop) \union TextsIn(Slots) \subseteq DOMAIN pool

(* A partial application has all captures and lacks as many arguments as   *)
(* it says, the last ones: apply never finds a capture's slot empty, nor   *)
(* none.                                                                   *)
SlotsInOrder ==
  \A p \in PartialIds :
    partials[p].rc > 0 =>
      Empty(partials[p]) =
        (Functions[partials[p].f].arguments - partials[p].nargs + 1)..Functions[partials[p].f].arguments

(* Every step gives an outcome OperandSem allows: neither the sharing of   *)
(* strings, nor the bytes behind their ends, nor the order in which a      *)
(* partial application fills its slots shows.                              *)
ImplementsOperandSem == Sem!Spec
=============================================================================
