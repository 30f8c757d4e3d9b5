------------------------------- MODULE Decode -------------------------------
(***************************************************************************)
(* The instructions VM::execute (vm.cpp) sees in the words of a function:  *)
(* the correspondence between the code of CodeGen and that of VM, which    *)
(* numbers instructions, has one name for operators the stack cannot tell  *)
(* apart, and no jump back but to a number.                                *)
(***************************************************************************)
EXTENDS CodeGen

LOCAL INSTANCE SequencesExt

ArithOps == {"Add", "Sub", "Mul", "Div", "Mod", "Append"}
CmpOps   == {"Cmp", "Eq", "Neq", "Gt", "Lt", "Geq", "Leq", "In"}
JumpOps  == {"Jmp", "Jf", "Jfsc", "Jtsc", "NextOrJmp"}

OnPosition == [Push |-> "PushVar", Write |-> "WriteVar", Borrow |-> "BorrowVar"]

Name(w) ==
  CASE w.op \in DOMAIN OnPosition /\ w.form = "pos" -> OnPosition[w.op]
    [] w.op = "PushBool"                            -> "Push"
    [] w.op \in ArithOps                            -> "Arith"
    [] w.op \in CmpOps                              -> "Cmp"
    [] OTHER                                        -> w.op

Decoded(code) ==
  LET heads       == SelectSeq([i \in DOMAIN code |-> i], LAMBDA i : code[i].op # "operand")
      Number(n)   == SelectInSeq(heads, LAMBDA h : h = n + 1)
      First(w, h) ==
        CASE w.op \in JumpOps                          -> Number(code[h + 1].n)
          [] w.op \in {"Pop", "Print"} /\ w.form = "none" -> 1
          [] w.op \in {"Push", "PushBool"} /\ w.form # "pos" -> 0
          [] w.form = "none"                           -> 0
          [] OTHER                                     -> code[h + 1].n
  IN  [j \in DOMAIN heads |->
         LET w == code[heads[j]] IN
         [op |-> Name(w), a |-> First(w, heads[j]),
          b  |-> IF w.form = "pos2" THEN code[heads[j] + 2].n ELSE 0]]
=============================================================================
