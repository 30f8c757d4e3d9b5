------------------------------- MODULE Scalars -------------------------------
(***************************************************************************)
(* What OperandSem and Operands have in common: how their operands are     *)
(* written down, the functions of the script and the widths of integers.   *)
(* Arrays in variables, tables and borrows are left to ValueHeap.          *)
(***************************************************************************)
EXTENDS Integers, Sequences

CONSTANTS
  IntWidth,   \* bits of an Int, 64 in the code
  CmpWidth,   \* bits of the int a difference of Ints is narrowed to, 32
  IndexMod,   \* indexes into strings are modulo this, 2^32
  Functions,  \* the functions: parameters, captures, and which of these is returned, if any
  Minus,      \* the character of a minus sign
  Zero,       \* the character of the digit 0, followed by the other digits
  Words       \* Words[b]: the characters of true and of false

(* A value: its kind, its number or characters, and the values inside it.  *)
Cell(k, v, e) == [k |-> k, v |-> v, e |-> e]

Null      == Cell("null", <<>>, <<>>)
Bool(b)   == Cell("bool", <<IF b THEN 1 ELSE 0>>, <<>>)
Int_(n)   == Cell("int", <<n>>, <<>>)
Float(x)  == Cell("float", <<x>>, <<>>)
Text(s)   == Cell("text", s, <<>>)
Func(f)   == Cell("func", <<f>>, <<>>)
Arr(e)    == Cell("arr", <<>>, e)

N(c) == c.v[1]     \* the number of a value that is one

Half  == 2 ^ (IntWidth - 1)
IntOf == -Half..(Half - 1)

(* Floats are known by where they lie: points of an ordered scale on which *)
(* 2n is the float of the integer n, 1 is above 0 by less than single      *)
(* precision can tell, and NaN is none of them.                            *)
NaN     == 1000
Floats  == (-2)..2 \union {NaN}
IsNaN(c) == c.k = "float" /\ N(c) = NaN
AsFloat(c) == IF c.k = "int" THEN 2 * N(c) ELSE N(c)

Modes == {"Equal", "NotEqual", "Greater", "Less", "GreaterEqual", "LessEqual"}

Holds(mode, cmp) ==
  CASE mode = "Equal"        -> cmp = 0
    [] mode = "NotEqual"     -> cmp # 0
    [] mode = "Greater"      -> cmp > 0
    [] mode = "Less"         -> cmp < 0
    [] mode = "GreaterEqual" -> cmp >= 0
    [] mode = "LessEqual"    -> cmp <= 0

Sign(n) == IF n > 0 THEN 1 ELSE IF n < 0 THEN -1 ELSE 0
=============================================================================
