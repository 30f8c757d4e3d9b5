------------------------------ MODULE MCOperands ------------------------------
(***************************************************************************)
(* Small scripts for Operands.                                             *)
(***************************************************************************)
EXTENDS Operands

(* Characters in their order: minus, digits, letters.                      *)
MCMinus == 1
MCZero  == 2
a == 12
MCWords == [b \in BOOLEAN |-> IF b THEN <<19, 17, 20, 14>> ELSE <<15, 12, 16, 18, 14>>]

(* func(x, y) x, func(x) x, func(x, y) and func() with a capture that      *)
(* they return, and func() without one.                                    *)
Fn(arguments, captures, returns) ==
  [arguments |-> arguments, captures |-> captures, returns |-> returns]

MCFunctions ==
  <<Fn(2, 0, 1), Fn(1, 0, 1), Fn(2, 1, 3), Fn(0, 1, 1), Fn(0, 0, 0)>>

Script(values, names, ops, depth) ==
  [values |-> values, vars |-> names, ops |-> ops, depth |-> depth]

(* Arithmetic goes through all Ints; strings are indexed and cut, appended *)
(* to one another, and compared; functions get arguments one by one and    *)
(* several at once.                                                        *)
MCScripts ==
  {Script({Int_(i) : i \in {-Half, -1, 0, 2, Half - 1}}
            \union {Float(0), Float(1), Bool(TRUE), Null},
          {}, {"Arith", "Neg", "Cmp", "CmpOp", "Not"}, 2),
   Script({Text(<<a, a + 1>>), Int_(-1), Int_(0), Int_(1), Int_(IndexMod), Null},
          {"x"}, {"Get", "Slice"}, 3),
   Script({Text(<<a>>), Text(<<a, a + 1>>), Int_(-1), Bool(TRUE)},
          {"x"}, {"AppendOp"}, 2),
   Script({Text(<<a>>), Text(<<a, a + 1>>), Int_(0), Float(0)},
          {}, {"Get", "Cmp", "CmpOp", "In"}, 3),
   Script({Text(<<>>), Text(<<a>>), Int_(0)},
          {}, {"AppendOp", "Get", "CmpOp", "Not"}, 2),
   Script({Text(<<a>>), Func(1), Func(3)}, {"x"}, {"Apply"}, 2),
   Script({Text(<<a>>), Func(1), Func(3)}, {}, {"Apply", "Call"}, 3),
   Script({Func(2), Func(4), Func(5)}, {}, {"Apply", "Call", "In"}, 3)}
=============================================================================
