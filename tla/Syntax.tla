------------------------------- MODULE Syntax -------------------------------
(***************************************************************************)
(* Syntax trees as the parser hands them on (ast.h), and the syntax        *)
(* checker (syntax_checker.cpp): which nodes are values, which are         *)
(* l-values, and which trees are accepted.                                 *)
(*                                                                         *)
(* The checker writes its verdict about a node into node->flags, a field   *)
(* no constructor of ASTNode initialises. ExprList, KeyValuePair and Else  *)
(* nodes never get one: what they are taken for is what the memory held, a *)
(* part of the tree here (v, which these nodes do not use otherwise).      *)
(***************************************************************************)
EXTENDS Ast

LOCAL INSTANCE SequencesExt

(* op over a sequence from the left.  (FoldLeft of the community modules   *)
(* enumerates the subsets of the domain, which long code cannot afford.)   *)
Sweep(op(_, _), base, seq) ==
  LET acc[i \in 0..Len(seq)] == IF i = 0 THEN base ELSE op(acc[i - 1], seq[i])
  IN  acc[Len(seq)]

Unflagged == {"ExprList", "KeyValuePair", "Else"}

(* The elements of a comma list, nested to the right.  Only a list that is *)
(* nothing but a Nop is empty: a trailing comma is followed by a Nop.      *)
RECURSIVE Elements(_)
Elements(n) == IF n.t = "ExprList" THEN <<n.kids[1]>> \o Elements(n.kids[2]) ELSE <<n>>

Items(n) == IF n.t = "Nop" THEN <<>> ELSE Elements(n)

(* Lists where the code generator leaves out empty elements.               *)
Given(n) == SelectSeq(Items(n), LAMBDA e : e.t # "Nop")

HasElse(n) == n.t = "If" /\ n.kids[2].t = "Else"

(* ASTNode::isValue after the checker has been there.                      *)
RECURSIVE IsValue(_)
IsValue(n) ==
  \/ n.t \in ValueNodes \union UnaryNodes \union BinaryNodes
  \/ n.t \in {"Move", "And", "Or", "Array", "Table", "Function", "Recurse", "Call", "Index"}
  \/ n.t \in Unflagged /\ n.v # 0
  \/ HasElse(n) /\ IsValue(n.kids[2].kids[1]) /\ IsValue(n.kids[2].kids[2])
  \/ n.t = "CodeBlock" /\ IsValue(n.kids[1])
  \/ n.t = "Seq" /\ IsValue(n.kids[2])

IsLValue(n) == n.t \in {"Identifier", "Index"}

IsValueOrNop(n) == n.t = "Nop" \/ IsValue(n)

AllValues(n) == \A e \in Range(Items(n)) : IsValue(e)

(* Mutant: var without an assignment.                                      *)
VarAcceptedUnassigned(a) == a.t = "Assign" => IsLValue(a.kids[1]) /\ IsValue(a.kids[2])

VarAccepted(a) == a.t = "Assign" /\ IsLValue(a.kids[1]) /\ IsValue(a.kids[2])

(* What the checker asks of one node, given the flags of its children.     *)
NodeAccepted(n) ==
  LET a == n.kids[1]
      b == n.kids[2]
  IN
  CASE n.t = "Move"                         -> IsLValue(a)
    [] n.t \in UnaryNodes                   -> IsValue(a)
    [] n.t \in BinaryNodes \union {"And", "Or"} -> IsValue(a) /\ IsValue(b)
    [] n.t \in {"If", "While"}              -> IsValue(a)
    [] n.t \in AssignNodes                  -> IsLValue(a) /\ IsValue(b)
    [] n.t = "Array"    -> \A e \in Range(Items(a)) : IsValueOrNop(e)
    [] n.t = "Table"    -> \A e \in Range(Items(a)) :
                             \/ e.t = "Nop"
                             \/ e.t = "KeyValuePair" /\ IsValue(e.kids[1]) /\ IsValue(e.kids[2])
    [] n.t = "Function" -> \A e \in Range(Items(a)) : e.t = "Identifier"
    [] n.t \in {"Recurse", "Print"}         -> AllValues(a)
    [] n.t = "Call"                         -> IsValue(a) /\ AllValues(b)
    [] n.t = "Index"    -> /\ IsValue(a)
                           /\ IF b.t # "ExprList" THEN IsValue(b)
                              ELSE \A e \in Range(b.kids) : e.t # "ExprList" /\ IsValueOrNop(e)
    [] n.t = "For"      -> LET step == IF a.t = "ExprList" THEN a.kids[2] ELSE a IN
                           /\ a.t = "ExprList" => a.kids[1].t = "Identifier"
                           /\ step.t = "In"
                           /\ step.kids[1].t = "Identifier" /\ IsValue(step.kids[2])
    [] n.t = "Var"      -> VarAccepted(a)
    [] n.t = "Return"                       -> IsValueOrNop(a)
    [] n.t = "Assert"   -> /\ a.t = "ExprList"
                           /\ \A e \in Range(a.kids) : e.t # "ExprList" /\ IsValue(e)
    [] OTHER                                -> TRUE

(* SyntaxChecker::validateSyntax adds no error.                            *)
RECURSIVE Accepted(_)
Accepted(n) == NodeAccepted(n) /\ \A k \in Range(n.kids) : Accepted(k)
=============================================================================
