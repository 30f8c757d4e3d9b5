------------------------------ MODULE VMScripts ------------------------------
(***************************************************************************)
(* The scripts of MCVM and MCVMBranch as syntax trees, and what the code   *)
(* generator makes of them for the stack machine.                          *)
(***************************************************************************)
EXTENDS Decode, Trees

LOCAL Times(a, b) == Tree("Mul", <<a, b>>)
LOCAL Apply(a, b) == Tree("Apply", <<a, b>>)
LOCAL Call(a, b)  == Tree("Call", <<a, b>>)

MulTree == Fun(Pair(Id("a"), Id("b")), Times(Id("a"), Id("b")))

SumTree ==
  Fun(Id("i"),
       Else(Tree("Gt", <<Id("i"), Num(0)>>),
            Tree("Add", <<Times(Id("x"), Id("i")),
                          Tree("Recurse", <<Tree("Sub", <<Id("i"), Num(1)>>)>>)>>),
            Num(0)))

NegTree == Fun(Id("x"), Tree("Neg", <<Id("x")>>))

(* Statements in a row, nested to the left.                                *)
LOCAL InRow(nodes) == Sweep(Seq2, Head(nodes), Tail(nodes))

CallsTree ==
  InRow(<<Var("x", Num(3)), Var("f", MulTree), Var("g", SumTree),
          Apply(Apply(Id("f"), Num(2)), Num(3)),
          Call(Id("g"), Num(5)),
          Call(Id("f"), Pair(Num(1), Id("g")))>>)

LoopTree ==
  InRow(<<Var("arr", Tree("Array", <<Pair(Num(1), Num(2))>>)),
          For2("idx", "val", Id("arr"),
               Block(Tree("AddAssign", <<Tree("Index", <<Id("arr"), Id("idx")>>),
                                         Apply(NegTree, Id("val"))>>))),
          While(Id("arr"), Tree("Assign", <<Id("arr"), Call(NegTree, Tree("Move", <<Id("arr")>>))>>)),
          Assert(Tree("Or", <<Id("arr"), Num(1)>>), Tree("Index", <<Id("arr"), Pair(Num(0), Num(1))>>)),
          Show(Num(1)),
          Nop>>)

BranchTree ==
  InRow(<<Var("x", Num(1)),
          For("v", Tree("Array", <<Num(1)>>),
              Tree("If", <<Tree("Eq", <<Id("v"), Num(2)>>),
                           Tree("AddAssign", <<Id("x"), Num(1)>>)>>)),
          Nop>>)

(* The code of every function of a script, the script last, with how many  *)
(* arguments, captures, constants and locals each has.                     *)
Made4(f) == <<f.args, f.caps, Len(f.consts), f.locals>>

ForMachine(tree) ==
  LET funcs == Generated(tree).funcs IN
  [i \in DOMAIN funcs |-> [code |-> Decoded(funcs[i].code), cells |-> Made4(funcs[i])]]
=============================================================================
