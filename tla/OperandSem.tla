----------------------------- MODULE OperandSem -----------------------------
(***************************************************************************)
(* What scripts may rely on of the operators on numbers, strings and       *)
(* functions, as values: nothing here is shared, counted or compared by    *)
(* address.  An operation has a set of outcomes: where the code promises   *)
(* one result there is one, where it promises less there are several.      *)
(*                                                                         *)
(* A string is its characters.  A cut one, which indexing gives, has       *)
(* characters nobody sees behind its end: what is appended to it is lost,  *)
(* and in does not always find it.  A function is itself and the values it *)
(* has been given: captures first, then arguments in the order given.      *)
(*                                                                         *)
(* Operands, which models the code, implements this module.                *)
(***************************************************************************)
EXTENDS Scalars

VARIABLES
  script,   \* the constants and the variables of the script
  env,      \* env[v]: the value of variable v
  stack,    \* the operands
  status    \* ok, error (reported), or stopped where the code has no defined result

vars == <<script, env, stack, status>>

Cut(s)       == Cell("cut", s, <<>>)
Fun(f, e)    == Cell("fun", <<f>>, e)
Raise        == Cell("raise", <<>>, <<>>)
Stopped      == Cell("stopped", <<>>, <<>>)

IsNumber(c)  == c.k \in {"int", "float"}
IsText(c)    == c.k \in {"text", "cut"}

-----------------------------------------------------------------------------
(* Numbers.                                                                *)

(* The Int that n is, modulo the number of Ints.                           *)
Wraps(n) == {Int_(i) : i \in {i \in IntOf : (i - n) % (2 * Half) = 0}}

Abs(n) == IF n < 0 THEN -n ELSE n

(* Division: q and r with a = q * b + r, r smaller than b and signed as a. *)
Divides(a, b, q, r) ==
  a = q * b + r /\ Abs(r) < Abs(b) /\ Sign(r) \in {0, Sign(a)}

(* The quotient is no Int when the least Int is divided by -1.             *)
Quotients(op, a, b) ==
  IF b = 0 THEN {Raise}
  ELSE IF a = -Half /\ b = -1 THEN {Stopped}
  ELSE {Int_(IF op = "Div" THEN d[1] ELSE d[2]) :
           d \in {d \in IntOf \X IntOf : Divides(a, b, d[1], d[2])}}

Calculated(op, a, b) ==
  IF ~IsNumber(a) \/ ~IsNumber(b) THEN {Raise}
  ELSE IF a.k = "float" \/ b.k = "float" THEN {Float(x) : x \in Floats}
  ELSE CASE op = "Add" -> Wraps(N(a) + N(b))
         [] op = "Sub" -> Wraps(N(a) - N(b))
         [] op = "Mul" -> Wraps(N(a) * N(b))
         [] OTHER      -> Quotients(op, N(a), N(b))

Negated(a) ==
  CASE a.k = "int"   -> Wraps(-N(a))
    [] a.k = "float" -> {Float(IF IsNaN(a) THEN NaN ELSE -N(a))}
    [] OTHER         -> {Raise}

-----------------------------------------------------------------------------
(* Order.                                                                  *)

(* s comes before t in the order of dictionaries.                          *)
Before(s, t) ==
  \E i \in 1..Len(t) :
    /\ i <= Len(s) + 1 /\ SubSeq(s, 1, i - 1) = SubSeq(t, 1, i - 1)
    /\ i <= Len(s) => s[i] < t[i]

(* The order of a and b, when they have one.                               *)
Orders(a, b) ==
  IF IsText(a) /\ IsText(b)
  THEN {IF Before(a.v, b.v) THEN -1 ELSE IF Before(b.v, a.v) THEN 1 ELSE 0}
  ELSE IF IsNumber(a) /\ IsNumber(b)
  THEN IF IsNaN(a) \/ IsNaN(b) THEN {0} ELSE {Sign(AsFloat(a) - AsFloat(b))}
  ELSE IF a.k = b.k /\ a.k \in {"null", "bool"}
  THEN {IF a = b THEN 0 ELSE Sign(N(a) - N(b))}
  ELSE {}

(* Differences that are no Int lose the order.                             *)
Compared(a, b) ==
  IF Orders(a, b) = {} THEN {Raise}
  ELSE IF a.k = "int" /\ b.k = "int" /\ N(a) - N(b) \notin IntOf
  THEN {Int_(n) : n \in -1..1}
  ELSE {Int_(n) : n \in {n \in IntOf : Sign(n) \in Orders(a, b)}}

(* So do, for the six comparisons, differences too large for an int, and   *)
(* those too small for single precision.                                   *)
Blurred(a, b) ==
  CASE a.k = "int"   -> N(a) - N(b) \notin -(2 ^ (CmpWidth - 1))..(2 ^ (CmpWidth - 1) - 1)
    [] a.k = "float" -> ~IsNaN(a) /\ ~IsNaN(b) /\ Abs(N(a) - N(b)) = 1
    [] OTHER         -> FALSE

SameKind(a, b) == a.k = b.k \/ (IsText(a) /\ IsText(b))

Decided(mode, a, b) ==
  IF ~SameKind(a, b) \/ Orders(a, b) = {} THEN {Raise}
  ELSE IF Blurred(a, b) THEN {Bool(TRUE), Bool(FALSE)}
  ELSE {Bool(Holds(mode, o)) : o \in Orders(a, b)}

Denied(a) ==
  CASE a.k = "null"            -> {Bool(TRUE)}
    [] a.k \in {"bool", "int"} -> {Bool(N(a) = 0)}
    [] a.k = "float"           -> {Bool(N(a) = 0)}
    [] OTHER                   -> {Raise}

(* in: values that are equal for certain, and values that may be.  Equal   *)
(* booleans, nulls, floats, cut strings and functions with values given to *)
(* them may be told apart.                                                 *)
SurelyEqual(a, b) ==
  a = b /\ (a.k \in {"int", "text"} \/ (a.k = "fun" /\ a.e = <<>>))

MayEqual(a, b) ==
  a = b \/ (IsText(a) /\ IsText(b) /\ a.v = b.v /\ "cut" \in {a.k, b.k})

Found(a, e) ==
  {Bool(b) : b \in {b \in BOOLEAN : IF b THEN \E j \in DOMAIN e : MayEqual(a, e[j])
                                        ELSE \A j \in DOMAIN e : ~SurelyEqual(a, e[j])}}

-----------------------------------------------------------------------------
(* Strings.                                                                *)

Digit(n) == <<Zero + n>>

(* The characters of a number.                                             *)
Written(n) ==
  LET digits[i \in 0..Half] == IF i < 10 THEN Digit(i) ELSE digits[i \div 10] \o Digit(i % 10)
  IN  (IF n < 0 THEN <<Minus>> ELSE <<>>) \o digits[Abs(n)]

AsText(c) ==
  CASE c.k = "int"  -> Text(Written(N(c)))
    [] c.k = "bool" -> Text(Words[c = Bool(TRUE)])
    [] OTHER        -> c

(* A result that is the left operand again may be destroyed with it.       *)
OrStopped(a, r) == IF r = a THEN {r, Stopped} ELSE {r}

Appended(a, b) ==
  LET l == AsText(a)
      r == AsText(b) IN
  IF ~IsText(l) \/ ~IsText(r) \/ ~(IsText(a) \/ IsText(b)) THEN {Raise}
  ELSE OrStopped(a, IF l.k = "cut" THEN l ELSE Cell(r.k, l.v \o r.v, <<>>))

(* The one character at index i; nothing, where the string ends.  Negative *)
(* indexes count from the end.  Indexes beyond IndexMod lead anywhere.     *)
Glyphs(a, i) ==
  LET n == Len(a.v)
      j == IF i < 0 THEN n + i ELSE i
      One(k) == Cut(IF k = n THEN <<>> ELSE <<a.v[k + 1]>>)
  IN  IF j \in 0..n THEN OrStopped(a, One(j))
      ELSE IF j \in (n - IndexMod + 1)..(IndexMod - 1) THEN {Raise}
      ELSE {Raise} \union UNION {OrStopped(a, One(k)) : k \in 0..n}

Got(a, i) == IF IsText(a) /\ i.k = "int" THEN Glyphs(a, N(i)) ELSE {Raise}

(* How many characters of s are before the one at index c.                 *)
BeforeIndex(s, c) ==
  CHOOSE n \in 0..Len(s) :
    \A i \in 0..(Len(s) - 1) : i < n <=> (IF N(c) < 0 THEN i - Len(s) < N(c) ELSE i < N(c))

(* The characters from one index up to another, null being an end.         *)
SliceOf(s, from, to) ==
  SubSeq(s, IF from.k = "null" THEN 1 ELSE BeforeIndex(s, from) + 1,
            IF to.k = "null" THEN Len(s) ELSE BeforeIndex(s, to))

Sliced(a, from, to) ==
  IF IsText(a) /\ {from.k, to.k} \subseteq {"int", "null"}
  THEN OrStopped(a, Text(SliceOf(a.v, from, to)))
  ELSE {Raise}

-----------------------------------------------------------------------------
(* Functions.                                                              *)

Given(c)    == Len(c.e) - Functions[N(c)].captures
MissingOf(c) == Functions[N(c)].arguments - Given(c)

(* The call of a function that has all it needs returns one of those, or   *)
(* null if returns is 0.                                                   *)
Returned(f, e) ==
  LET n == Functions[f].captures
      i == Functions[f].returns
  IN  IF i = 0 THEN Null ELSE IF i > Functions[f].arguments THEN e[i - Functions[f].arguments] ELSE e[n + i]

Applied(c, x) ==
  IF c.k # "fun" \/ (c.k = "fun" /\ MissingOf(c) = 0) THEN {Raise}
  ELSE IF MissingOf(c) = 1 THEN {Returned(N(c), Append(c.e, x))}
  ELSE {Fun(N(c), Append(c.e, x))}

(* A call of a function some arguments have been given to has no defined   *)
(* result.                                                                 *)
Called(c, args) ==
  IF c.k # "fun" \/ (c.k = "fun" /\ MissingOf(c) # Len(args)) THEN {Raise}
  ELSE IF Given(c) > 0 THEN {Stopped}
  ELSE {Returned(N(c), c.e \o args)}

-----------------------------------------------------------------------------
Operand(i) == stack[Len(stack) - i]     \* 0 is the top
Below(n)   == SubSeq(stack, 1, Len(stack) - n)
Top(n)     == SubSeq(stack, Len(stack) - n + 1, Len(stack))

Has(n) == status = "ok" /\ Len(stack) >= n

(* The n operands at the top become one of the outcomes.                   *)
Result(n, outcomes) ==
  /\ Has(n)
  /\ \/ Raise \in outcomes /\ status' = "error" /\ UNCHANGED stack
     \/ Stopped \in outcomes /\ status' = "stopped" /\ UNCHANGED stack
     \/ \E r \in outcomes \ {Raise, Stopped} :
          stack' = Append(Below(n), r) /\ UNCHANGED status
  /\ UNCHANGED <<script, env>>

Init ==
  /\ env = [v \in script.vars |-> Null]
  /\ stack = <<>>
  /\ status = "ok"

Push == Has(0) /\ \E c \in script.values : Result(0, {c})

PushVar == Has(0) /\ \E v \in script.vars : Result(0, {env[v]})

WriteVar ==
  /\ Has(1)
  /\ \E v \in script.vars : env' = [env EXCEPT ![v] = Operand(0)]
  /\ stack' = Below(1)
  /\ UNCHANGED <<script, status>>

Pop == Has(1) /\ stack' = Below(1) /\ UNCHANGED <<script, env, status>>

Binary ==
  /\ Has(2)
  /\ LET a == Operand(1)
         b == Operand(0)
     IN  \/ \E op \in {"Add", "Sub", "Mul", "Div", "Mod"} : Result(2, Calculated(op, a, b))
         \/ \E mode \in Modes : Result(2, Decided(mode, a, b))
         \/ Result(2, Compared(a, b))
         \/ Result(2, Appended(a, b))
         \/ Result(2, Got(a, b))
         \/ Result(2, Applied(a, b))
         \/ b.k = "arr" /\ Result(2, Found(a, b.e))

Unary ==
  Has(1) /\ (Result(1, Negated(Operand(0))) \/ Result(1, Denied(Operand(0))))

Slice == Has(3) /\ Result(3, Sliced(Operand(2), Operand(1), Operand(0)))

CreateArray == \E n \in DOMAIN stack : Has(n) /\ Result(n, {Arr(Top(n))})

CreateClosure ==
  \E n \in 1..(Len(stack) - 1) :
    /\ Has(n + 1) /\ Operand(n).k = "fun" /\ Operand(n).e = <<>>
    /\ Functions[N(Operand(n))].captures = n
    /\ Result(n + 1, {Fun(N(Operand(n)), Top(n))})

Call == \E n \in 0..(Len(stack) - 1) : Has(n + 1) /\ Result(n + 1, Called(Operand(n), Top(n)))

Next == Push \/ PushVar \/ WriteVar \/ Pop \/ Binary \/ Unary \/ Slice
        \/ CreateArray \/ CreateClosure \/ Call

Spec == Init /\ [][Next]_vars
=============================================================================
