------------------------------ MODULE Programs ------------------------------
(***************************************************************************)
(* Small scripts: the code threadAST makes of them (code_generator.cpp),   *)
(* by instruction.                                                         *)
(***************************************************************************)
EXTENDS Sequences

LOCAL I(op, a, b) == [op |-> op, a |-> a, b |-> b]
LOCAL O(op)       == I(op, 0, 0)
LOCAL A(op, a)    == I(op, a, 0)

(* func(a, b) a * b                                                        *)
MulCode  == <<A("PushVar", 0), A("PushVar", 1), O("Arith"), O("Return")>>

(* func(i) if i > 0 do x * i + recurse(i - 1) else 0, which captures x.    *)
(* Positions: i is 0, x is 1.                                              *)
SumCode ==
  <<A("PushVar", 0), O("Push"), O("Cmp"), A("Jf", 15),
    A("PushVar", 1), A("PushVar", 0), O("Arith"),
    O("Push"), A("PushVar", 0), O("Push"), O("Arith"), A("Recurse", 1),
    O("Arith"), A("Jmp", 16), O("Push"), O("Return")>>

(* var x = 3                                                               *)
(* var f = func(a, b) a * b                                                *)
(* var g = func(i) ... x ...                                               *)
(* (f 2) 3 / g(5) / f(1, g)                                                *)
(* Positions: constants mul, sum are 0, 1; locals x, f, g are 2, 3, 4.     *)
CallsCode ==
  <<O("Push"), A("WriteVar", 2),
    A("PushVar", 0), A("WriteVar", 3),
    A("PushVar", 1), A("PushVar", 2), A("CreateClosure", 1), A("WriteVar", 4),
    A("PushVar", 3), O("Push"), O("Apply"), O("Push"), O("Apply"), A("Pop", 1),
    A("PushVar", 4), O("Push"), A("Call", 1), A("Pop", 1),
    A("PushVar", 3), O("Push"), A("PushVar", 4), A("Call", 2), O("Return")>>

(* func(x) -x                                                              *)
NegCode  == <<A("PushVar", 0), O("Neg"), O("Return")>>

(* var arr = [1, 2]                                                        *)
(* for idx, val in arr do { arr[idx] += (func(x) -x) val }                 *)
(* while arr do arr = (func(x) -x)(move arr)                               *)
(* assert arr or 1, arr[0..1] / print 1                                    *)
(* Positions: constants 0, 1 are one function each; locals arr, idx, val   *)
(* are 2, 3, 4.  The bool of the assertion stays on the stack.             *)
LoopCode ==
  <<O("Push"), O("Push"), A("CreateArray", 2), A("WriteVar", 2),
    A("PushVar", 2), I("BeginIter", 3, 4), A("NextOrJmp", 16),
    A("BorrowVar", 2), A("PushVar", 3), O("BorrowIndex"),
    A("PushVar", 0), A("PushVar", 4), O("Apply"), O("ArithBorrowed"), A("Jmp", 7),
    A("PushVar", 2), A("Jf", 25),
    A("BorrowVar", 2), A("PushVar", 1), A("BorrowVar", 2), O("Move"), A("Call", 1),
    O("WriteBorrowed"), A("Jmp", 16),
    A("PushVar", 2), O("Push"), O("Push"), O("Slice"),
    A("PushVar", 2), A("Jtsc", 32), O("Push"), O("AssertMsg"),
    O("Push"), A("Print", 1), O("Push"), O("Return")>>

(* var x = 1                                                               *)
(* for v in [1] do if v == 2 do x += 1                                     *)
(* The branch not taken pushes a null that nothing pops.                   *)
(* Locals x, (unused), v are 0, 1, 2.                                      *)
BranchCode ==
  <<O("Push"), A("WriteVar", 0),
    O("Push"), A("CreateArray", 1), I("BeginIter", 1, 2), A("NextOrJmp", 17),
    A("PushVar", 2), O("Push"), O("Cmp"), A("Jf", 15),
    A("BorrowVar", 0), O("Push"), O("ArithBorrowed"), A("Jmp", 16),
    O("Push"), A("Jmp", 6), O("Push"), O("Return")>>

-----------------------------------------------------------------------------
(* How many arguments, captures, constants and locals each has.            *)
Cells ==
  [mul   |-> <<2, 0, 0, 0>>, sum  |-> <<1, 1, 0, 0>>, calls  |-> <<0, 0, 2, 3>>,
   neg   |-> <<1, 0, 0, 0>>, loop |-> <<0, 0, 2, 3>>, branch |-> <<0, 0, 0, 3>>]

(* All of it is what the code generator's model makes of the scripts.      *)
Compiler == INSTANCE VMScripts WITH PosBit <- 8192

LOCAL Made(code, cells) == [code |-> code, cells |-> cells]

ASSUME ProgramsGenerated ==
  /\ Compiler!ForMachine(Compiler!CallsTree) =
       <<Made(MulCode, Cells.mul), Made(SumCode, Cells.sum), Made(CallsCode, Cells.calls)>>
  /\ Compiler!ForMachine(Compiler!LoopTree) =
       <<Made(NegCode, Cells.neg), Made(NegCode, Cells.neg), Made(LoopCode, Cells.loop)>>
  /\ Compiler!ForMachine(Compiler!BranchTree) = <<Made(BranchCode, Cells.branch)>>
=============================================================================
