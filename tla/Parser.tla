------------------------------- MODULE Parser --------------------------------
(***************************************************************************)
(* Parser::parse (parser.cpp).  The recursion of expression_, nud_ and     *)
(* led_ is a stack of frames: at its top the call that runs, below it the  *)
(* calls that wait for its result.  Positions of nodes are left out.       *)
(***************************************************************************)
EXTENDS Lexemes, Ast

VARIABLES
  lcurrent,  \* lcurrent_
  frames,    \* the calls under way, the innermost first
  ret        \* what the call that just returned returned, or NoTree

parserVars == <<lcurrent, frames, ret>>

NoTree     == Node("NoTree", "", 0, <<>>)
Nop        == Node("Nop", "", 0, <<>>)
ParseError == Node("ParseError", "", 0, <<>>)

(* A frame of kind k: expr and loop are expression_(b) before and in its   *)
(* loop, nud and led are those calls for lexeme x; node, close and body    *)
(* make a t of kids and the result they wait for, the latter two after     *)
(* the bracket or the do that must follow.                                 *)
Frame(k, b, t, x, kids) == [k |-> k, b |-> b, t |-> t, x |-> x, kids |-> kids]

Expr(b)       == Frame("expr", b, "", "", <<>>)
Loop(b)       == Frame("loop", b, "", "", <<>>)
Nud(t, x)     == Frame("nud", 0, t, x, <<>>)
Led(t, x, l)  == Frame("led", 0, t, x, <<l>>)
Wait(k, t, s) == Frame(k, 0, t, "", s)

(* Binding powers: classes, and one more or less.                          *)
Bindp(t) == 16 * Level(t)

DefExprBindp      == 16 * 3 + 1
DefStatementBindp == 16 * 2 + 1
(* Mutants: a block as a statement, and as anything.                       *)
BlockAsStatement == DefStatementBindp
BlockAsAnything  == 0

DefBlockBindp     == 16 * 1 + 1
PrefixBindp(t)    == IF t \in {"Plus", "Minus"} THEN 16 * 13 + 1
                     ELSE IF t \in {"Not", "Move"} THEN 16 * 7 + 1
                     ELSE IF t \in {"Semicolon", "Newline", "Comma", "Colon"} THEN Bindp(t) + 1
                     ELSE DefExprBindp

Literals   == {"Int", "Float", "Bool", "Null", "String", "Identifier"}
PrefixLexemes == {"Plus", "Minus", "Not", "Move", "Semicolon", "Newline", "Comma", "Colon",
               "Var", "Return", "Print", "Assert"}
Conditions == {"If", "While", "For"}
Openings   == {"LParen", "LBrace", "LBracket"}
CallLike   == {"Func", "Recurse"}

(* The node an operator makes.                                             *)
Infix ==
  [Plus |-> "Add", Minus |-> "Sub", Mul |-> "Mul", Div |-> "Div", Mod |-> "Mod",
   Append |-> "Append", Cmp |-> "Cmp", Eq |-> "Eq", Neq |-> "Neq", Gt |-> "Gt", Lt |-> "Lt",
   Geq |-> "Geq", Leq |-> "Leq", And |-> "And", Or |-> "Or", In |-> "In",
   Assign |-> "Assign", AddAssign |-> "AddAssign", SubAssign |-> "SubAssign",
   MulAssign |-> "MulAssign", DivAssign |-> "DivAssign", ModAssign |-> "ModAssign",
   AppendAssign |-> "AppendAssign", Insert |-> "Insert", Comma |-> "ExprList",
   Colon |-> "KeyValuePair", Semicolon |-> "Seq", Newline |-> "Seq", Else |-> "Else"]

(* Mutant: every operator groups to the left.                              *)
InfixBindpLeft(t) == Bindp(t)

(* Left-associative operators and stop symbols bind what is tighter, the   *)
(* right-associative ones also what is as tight.                           *)
InfixBindp(t) == IF Level(t) \in {5, 6} THEN Bindp(t) - 1 ELSE Bindp(t)

(* The bracket each node ends with.                                        *)
Closer == [Paren |-> "RParen", CodeBlock |-> "RBrace", Array |-> "RBracket", Index |-> "RBracket",
           Call |-> "RParen", Function |-> "RParen", Recurse |-> "RParen"]

InitParser ==
  /\ lcurrent = 2
  /\ frames = <<Expr(DefBlockBindp)>>
  /\ ret = NoTree

-----------------------------------------------------------------------------
(* What the actions share.                                                 *)

Current == lexemes[lcurrent]
Top     == frames[1]
Callers == Tail(frames)

Running(k)  == frames # <<>> /\ ret = NoTree /\ Top.k = k
Returned(k) == frames # <<>> /\ ret # NoTree /\ Top.k = k

(* The call at the top goes on as these calls, first one first.            *)
Calls(new) == frames' = new \o Callers /\ ret' = NoTree

(* The call at the top returns n.                                          *)
Return(n) == frames' = Callers /\ ret' = n

Fail == /\ errors' = Append(errors, lexemes[lcurrent' - 1].line)
        /\ Return(ParseError)

Next_   == lcurrent' = lcurrent + 1
Stay    == UNCHANGED lcurrent
NoError == UNCHANGED errors

-----------------------------------------------------------------------------
(* expression_.                                                            *)

EmptyExpression ==
  /\ Running("expr") /\ Top.b > Bindp(Current.t)
  /\ Return(Nop)
  /\ Stay /\ NoError

BeginExpression ==
  /\ Running("expr") /\ Top.b <= Bindp(Current.t)
  /\ Calls(<<Nud(Current.t, Current.x), Loop(Top.b)>>)
  /\ Next_ /\ NoError

ExtendExpression ==
  /\ Returned("loop") /\ Top.b < Bindp(Current.t)
  /\ Calls(<<Led(Current.t, Current.x, ret), Top>>)
  /\ Next_ /\ NoError

EndExpression ==
  /\ Returned("loop") /\ Top.b >= Bindp(Current.t)
  /\ Return(ret)
  /\ Stay /\ NoError

-----------------------------------------------------------------------------
(* nud_.                                                                   *)

Literal ==
  /\ Running("nud") /\ Top.t \in Literals
  /\ Return(Node(Top.t, Top.x, 0, <<>>))
  /\ Stay /\ NoError

(* A prefixed stop symbol or comma has a Nop before it; plus makes no node.*)
Prefix ==
  /\ Running("nud") /\ Top.t \in PrefixLexemes
  /\ LET t == Top.t
         made == IF t = "Plus" THEN <<>>
                 ELSE IF t = "Minus" THEN <<Wait("node", "Neg", <<>>)>>
                 ELSE IF t \in DOMAIN Infix THEN <<Wait("node", Infix[t], <<Nop>>)>>
                 ELSE <<Wait("node", t, <<>>)>>
     IN  Calls(<<Expr(PrefixBindp(t))>> \o made)
  /\ Stay /\ NoError

Condition ==
  /\ Running("nud") /\ Top.t \in Conditions
  /\ Calls(<<Expr(DefBlockBindp), Wait("body", Top.t, <<>>)>>)
  /\ Stay /\ NoError

Opening ==
  /\ Running("nud") /\ Top.t \in Openings
  /\ CASE Top.t = "LParen"   -> Calls(<<Expr(DefExprBindp), Wait("close", "Paren", <<>>)>>)
       [] Top.t = "LBrace"   -> Calls(<<Expr(DefBlockBindp), Wait("close", "CodeBlock", <<>>)>>)
       [] Top.t = "LBracket" -> Calls(<<Expr(DefExprBindp), Wait("close", "Array", <<>>)>>)
  /\ Stay /\ NoError

Parameters ==
  /\ Running("nud") /\ Top.t \in CallLike /\ Current.t = "LParen"
  /\ Calls(<<Expr(DefExprBindp),
             Wait("close", IF Top.t = "Func" THEN "Function" ELSE "Recurse", <<>>)>>)
  /\ Next_ /\ NoError

NoParameters ==
  /\ Running("nud") /\ Top.t \in CallLike /\ Current.t # "LParen"
  /\ Stay /\ Fail

NoExpression ==
  /\ Running("nud")
  /\ Top.t \notin Literals \union PrefixLexemes \union Conditions \union Openings \union CallLike
  /\ Stay /\ Fail

-----------------------------------------------------------------------------
(* led_.                                                                   *)

IndexOrCall ==
  /\ Running("led") /\ Top.t \in {"LBracket", "LParen"}
  /\ Calls(<<Expr(DefExprBindp),
             Wait("close", IF Top.t = "LBracket" THEN "Index" ELSE "Call", Top.kids)>>)
  /\ Stay /\ NoError

Apply ==
  /\ Running("led") /\ Level(Top.t) >= 13 /\ Top.t \notin {"LBracket", "LParen"}
  /\ Calls(<<Nud(Top.t, Top.x), Wait("node", "Apply", Top.kids)>>)
  /\ Stay /\ NoError

InfixOperator ==
  /\ Running("led") /\ Level(Top.t) < 13
  /\ Calls(<<Expr(InfixBindp(Top.t)),
             Wait("node", IF Top.t \in DOMAIN Infix THEN Infix[Top.t] ELSE "Unexpected", Top.kids)>>)
  /\ Stay /\ NoError

-----------------------------------------------------------------------------
(* The rest of nud_ and led_ after the calls they make.                    *)

BuildNode ==
  /\ Returned("node") /\ Top.t # "Unexpected"
  /\ Return(Node(Top.t, "", 0, Append(Top.kids, ret)))
  /\ Stay /\ NoError

UnexpectedLexeme ==
  /\ Returned("node") /\ Top.t = "Unexpected"
  /\ Stay /\ Fail

(* Mutant: index and call with their operands the wrong way round.         *)
CloseBracketSwapped ==
  /\ Returned("close") /\ Current.t = Closer[Top.t]
  /\ CASE Top.t = "Paren"    -> Return(ret)
       [] Top.t = "Function" -> Calls(<<Expr(DefStatementBindp), Wait("node", Top.t, <<ret>>)>>)
       [] Top.t = "CodeBlock" /\ ret.t \in {"ExprList", "KeyValuePair", "Nop"} ->
            Return(Node("Table", "", 0, <<ret>>))
       [] OTHER              -> Return(Node(Top.t, "", 0, <<ret>> \o Top.kids))
  /\ Next_ /\ NoError

(* Braces around nothing, a list or a pair are a table.                    *)
CloseBracket ==
  /\ Returned("close") /\ Current.t = Closer[Top.t]
  /\ CASE Top.t = "Paren"    -> Return(ret)
       [] Top.t = "Function" -> Calls(<<Expr(DefStatementBindp), Wait("node", Top.t, <<ret>>)>>)
       [] Top.t = "CodeBlock" /\ ret.t \in {"ExprList", "KeyValuePair", "Nop"} ->
            Return(Node("Table", "", 0, <<ret>>))
       [] OTHER              -> Return(Node(Top.t, "", 0, Append(Top.kids, ret)))
  /\ Next_ /\ NoError

(* Mutant: the error is not reported.                                      *)
NotClosedSilent ==
  /\ Returned("close") /\ Current.t # Closer[Top.t]
  /\ Stay /\ Return(ParseError) /\ NoError

NotClosed ==
  /\ Returned("close") /\ Current.t # Closer[Top.t]
  /\ Stay /\ Fail

BeginBody ==
  /\ Returned("body") /\ Current.t = "Do"
  /\ Calls(<<Expr(DefStatementBindp), Wait("node", Top.t, <<ret>>)>>)
  /\ Next_ /\ NoError

NoBody ==
  /\ Returned("body") /\ Current.t # "Do"
  /\ Stay /\ Fail

-----------------------------------------------------------------------------
ParseStep ==
  \/ EmptyExpression \/ BeginExpression \/ ExtendExpression \/ EndExpression
  \/ Literal \/ Prefix \/ Condition \/ Opening \/ Parameters \/ NoParameters \/ NoExpression
  \/ IndexOrCall \/ Apply \/ InfixOperator
  \/ BuildNode \/ UnexpectedLexeme \/ CloseBracket \/ NotClosed \/ BeginBody \/ NoBody

Parse == ParseStep /\ UNCHANGED lexemes
=============================================================================
