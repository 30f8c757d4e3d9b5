----------------------------- MODULE MCVMBranch -----------------------------
(***************************************************************************)
(* A script whose generated code has no operand shape: a branch without    *)
(* else, in a loop (threadAST, code_generator.cpp).                        *)
(***************************************************************************)
EXTENDS VMShape, Programs

(* The program of the branch in a loop, which has no shapes to give.       *)
BranchFunctions == {"branch"}
BranchCodeOf    == [branch |-> BranchCode]
BranchNone      == [branch |-> 0]
BranchLocals    == [branch |-> Cells.branch[4]]
BranchConsts    == [branch |-> <<>>]
BranchShape     == [branch |-> <<>>]
=============================================================================
