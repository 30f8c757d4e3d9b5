-------------------------------- MODULE Trees --------------------------------
(***************************************************************************)
(* Short names for the syntax trees of small scripts, as the parser makes  *)
(* them.                                                                   *)
(***************************************************************************)
EXTENDS Syntax

Tree(t, kids) == Node(t, "", 0, kids)
Leaf(t)       == Tree(t, <<>>)
Id(x)         == Node("Identifier", x, 0, <<>>)
Num(v)        == Node("Int", "", v, <<>>)
Str(x)        == Node("String", x, 0, <<>>)
Nop           == Leaf("Nop")
Pair(a, b)    == Tree("ExprList", <<a, b>>)
Seq2(a, b)    == Tree("Seq", <<a, b>>)
Block(a)      == Tree("CodeBlock", <<a>>)
Var(x, e)     == Tree("Var", <<Tree("Assign", <<Id(x), e>>)>>)
Show(e)      == Tree("Print", <<e>>)
Fun(ps, e)   == Tree("Function", <<ps, e>>)
Else(c, a, b) == Tree("If", <<c, Tree("Else", <<a, b>>)>>)
For(x, e, s)  == Tree("For", <<Tree("In", <<Id(x), e>>), s>>)
For2(x, y, e, s) == Tree("For", <<Pair(Id(x), Tree("In", <<Id(y), e>>)), s>>)
While(e, s)   == Tree("While", <<e, s>>)
Assert(e, m)  == Tree("Assert", <<Pair(e, m)>>)
=============================================================================
