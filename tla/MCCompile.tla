------------------------------ MODULE MCCompile ------------------------------
(***************************************************************************)
(* Syntax trees for Compile: what the parser makes of small scripts.       *)
(***************************************************************************)
EXTENDS Compile, Trees

(* Every node type over the expressions d and e and the statement s.       *)

Expressions(d, e, s) ==
  {Tree("Neg", <<e>>), Tree("Add", <<d, e>>), Tree("Apply", <<d, e>>),
   Tree("And", <<d, e>>), Tree("Or", <<d, e>>), Else(d, e, d),
   Tree("Array", <<Nop>>), Tree("Array", <<Pair(d, Pair(e, Nop))>>),
   Tree("Table", <<Nop>>), Tree("Table", <<Tree("KeyValuePair", <<d, e>>)>>),
   Tree("Index", <<d, e>>), Tree("Index", <<d, Pair(e, Nop)>>),
   Tree("Move", <<Tree("Index", <<Id("a"), e>>)>>), Tree("Move", <<Id("a")>>),
   Tree("Call", <<d, Nop>>), Tree("Call", <<d, e>>), Tree("Recurse", <<Nop>>),
   Tree("Recurse", <<Pair(d, e)>>),
   Fun(Nop, e), Fun(Pair(Id("x"), Id("y")), Block(Seq2(s, Tree("Return", <<e>>)))),
   Block(Seq2(s, e))}

(* Statements that leave the stack as it was.                              *)
Statements(d, e, s) ==
  {Var("b", e), Tree("Assign", <<Id("a"), e>>), Show(e), Show(Nop), Show(Pair(d, e)),
   Tree("AddAssign", <<Tree("Index", <<Id("a"), d>>), e>>),
   Tree("Insert", <<Tree("Index", <<Id("a"), d>>), e>>),
   Tree("Return", <<e>>), Tree("Return", <<Nop>>), While(e, s), For("v", e, s),
   For2("i", "v", e, Block(s)), Else(d, s, e), Else(d, e, s), Else(d, s, s), Seq2(e, s), Block(s)}

(* Statements that leave a value: harmless where they run once.            *)
Leftovers(e, s) == {Assert(e, Str("m")), Seq2(Nop, s), Seq2(s, Nop)}

Basic == {Id("a"), Num(1)}

E1 == UNION {Expressions(d, e, Show(Id("a"))) : d, e \in Basic}
S1 == UNION {Statements(d, e, Show(Id("a"))) : d, e \in Basic}

(* Trees with errors: refused by the checker, or with undeclared names.    *)
Wrong ==
  {Tree("Var", <<Id("b")>>), Show(Show(Id("a"))), Tree("Neg", <<Var("b", Num(1))>>),
   Tree("Move", <<Num(1)>>), Tree("Table", <<Pair(Num(1), Num(2))>>),
   Tree("Assign", <<Id("c"), Num(1)>>), Show(Id("c")), Tree("Insert", <<Id("a"), Num(1)>>)}

Script(s) == Seq2(Var("a", Num(1)), s)

ShapeScripts ==
  {Script(s) : s \in UNION {Statements(d, e, s1) : d \in Basic, e \in E1, s1 \in {Show(Id("a"))}}
                     \union UNION {Statements(Id("a"), Num(300), s1) : s1 \in S1}
                     \union UNION {Expressions(d, e, s1) : d \in E1, e \in Basic, s1 \in {Show(Num(1))}}
                     \union UNION {Expressions(Id("a"), Num(1), s1) : s1 \in S1}
                     \union UNION {Leftovers(e, s1) : e \in E1, s1 \in S1}
                     \union Wrong}

-----------------------------------------------------------------------------
(* Declarations and uses of two names in each other's way.  Functions are  *)
(* written at most one block deep.                                         *)

Names == {"a", "b"}

Plus(x, y) == Tree("Add", <<Id(x), Id(y)>>)

Simple ==
  UNION {{Var(x, Id(y)), Var(x, Str("s")), Show(Plus(x, y)), Tree("Assign", <<Id(x), Id(y)>>),
          For(x, Id(y), Show(Plus(x, y)))} : x, y \in Names}
  \union {For2("a", "b", Id("a"), Show(Plus("b", "a"))),
          For2("a", "a", Id("a"), Var("a", Id("a")))}

Functions1 ==
  UNION {{Fun(Nop, Plus(x, y)), Fun(Id(x), Plus(x, y)),
          Fun(Pair(Id(x), Id("c")), Fun(Id(y), Plus(x, y))),
          Fun(Id("c"), Fun(Nop, Plus("c", x)))} : x, y \in Names}
  \union {Fun(ps, Block(Seq2(s, Tree("Add", <<Str("s"), Id("a")>>)))) :
             ps \in {Nop, Id("a")}, s \in Simple}

Scoped ==
  Simple \union {Var("b", f) : f \in Functions1}
  \union {Block(Seq2(s, Show(f))) : s \in {Var("a", Num(1)), Var("b", Str("t"))}, f \in Functions1}
  \union {For("b", Id("a"), Show(f)) : f \in Functions1}

ScopeScripts ==
  {Script(Seq2(s1, s2)) : s1 \in Simple, s2 \in Scoped}
  \union {Script(Seq2(s2, s1)) : s1 \in {Show(Plus("a", "b"))}, s2 \in Scoped}

CompileScripts == ShapeScripts \union ScopeScripts

-----------------------------------------------------------------------------
(* Scripts the code goes wrong on.                                         *)

(* { { var f = func() a } }: a function two blocks deep.                   *)
NestedScripts ==
  {Script(Block(Var("f", Fun(Nop, Id("a"))))), Script(Block(Block(Var("f", Fun(Nop, Id("a"))))))}

(* func() u: an error in a function's body.                                *)
UndeclaredScripts == {Script(Show(Id("u"))), Script(Var("f", Fun(Nop, Id("u"))))}

(* func(p) if p do var x = 1 else print a: a variable of the function's    *)
(* outermost scope comes before the capture, and is bound in its place.    *)
Hidden == Script(Var("h", Fun(Id("p"), Else(Id("p"), Var("x", Num(1)), Show(Id("a"))))))

ASSUME HiddenMisbound == ~Resolved(Hidden, Generated(Hidden))

(* A branch without else, an assertion, a semicolon before a brace: what   *)
(* they leave is harmless where it is left once, and not in a for loop.    *)
Leaving ==
  {Tree("If", <<Id("a"), Tree("AddAssign", <<Id("a"), Num(1)>>)>>),
   Assert(Id("a"), Str("m")), Block(Seq2(Show(Id("a")), Nop))}

ASSUME LeftOnIterator ==
  \A s \in Leaving : LET loop == Script(For("v", Id("a"), s)) IN
    /\ Accepted(loop) /\ ~Steady(Generated(loop))
    /\ s.t # "If" => Steady(Generated(Script(s)))

(* 1, 2 as a statement, and -(1, 2) when the list's flag says value: no    *)
(* error, and no case of threadAST.                                        *)
ASSUME ListsUnknown ==
  \A s \in {Pair(Num(1), Num(2)), Tree("Neg", <<Node("ExprList", "", 1, <<Num(1), Num(2)>>)>>)} :
    Accepted(Script(s)) /\ Generated(Script(s)).bad = "assert"

(* With positions of 8 words a loop behind print 1, 2 is too far: the      *)
(* address it leaves to is corrected as if it were a capture.              *)
Narrow == INSTANCE CodeGen WITH PosBit <- 8

ASSUME LongJumpMoved ==
  LET loop == Script(Seq2(Show(Pair(Num(1), Num(2))), While(Id("a"), Show(Id("a")))))
      EndOf(code) == {code[i + 1].n : i \in {j \in DOMAIN code : code[j].op = "Jf"}}
      right == Generated(loop).funcs[1].code
      moved == Narrow!Generated(loop).funcs[1].code
  IN  EndOf(right) = {Len(right) - 1} /\ EndOf(moved) # EndOf(right)
=============================================================================
