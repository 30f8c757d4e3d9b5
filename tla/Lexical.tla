------------------------------- MODULE Lexical -------------------------------
(***************************************************************************)
(* Lexical scoping, as a reference for the code generator: which           *)
(* declaration each name of a syntax tree means.  Nothing here is          *)
(* translated from the code but the order in which it visits a tree.       *)
(*                                                                         *)
(* A variable is declared by a parameter, by var or by a loop, and visible *)
(* to the end of its block. Parameters and loop variables are always new;  *)
(* a second var of one name in one block is an assignment. A function sees *)
(* what is visible where it is written and captures what it uses of it, in *)
(* order of first use.                                                     *)
(***************************************************************************)
EXTENDS Syntax

LOCAL INSTANCE SequencesExt
LOCAL INSTANCE TLC

CONSTANT Inline   \* the integers that are operands themselves

(* What an operand of the code should stand for: a declaration, numbered   *)
(* in the order met, or a constant.                                        *)
Declared(d)  == [k |-> "var", x |-> "", v |-> d]
Constant(n)  == [k |-> n.t, x |-> n.x, v |-> n.v]
Compiled(i)  == [k |-> "func", x |-> "", v |-> i]

(* env maps the visible names to declarations; here are the names declared *)
(* in the current block, next the next declaration's number, uses what the *)
(* current function's operands stand for, fns the functions finished.      *)
Start == [env |-> <<>>, here |-> {}, next |-> 1, uses |-> <<>>, fns |-> <<>>, declared |-> TRUE]

Use(s, e) == [s EXCEPT !.uses = Append(@, e)]

Fresh(s, x) == [s EXCEPT !.env = (x :> s.next) @@ @, !.here = @ \union {x}, !.next = @ + 1]

Declare(s, x) == IF x \in s.here THEN s ELSE Fresh(s, x)

(* A declaration nobody can name.                                          *)
Anonymous(s) == [s EXCEPT !.next = @ + 1]

UseName(s, x) ==
  IF x \in DOMAIN s.env THEN Use(s, Declared(s.env[x])) ELSE [s EXCEPT !.declared = FALSE]

Opened(s)      == [s EXCEPT !.here = {}]
Closed(s, old) == [s EXCEPT !.env = old.env, !.here = old.here]

Distinct(seq) ==
  Sweep(LAMBDA acc, e : IF Contains(acc, e) THEN acc ELSE Append(acc, e), <<>>, seq)

RECURSIVE Visit(_, _)

VisitAll(nodes, s) == Sweep(LAMBDA acc, e : Visit(e, acc), s, nodes)

VisitFor(n, s) ==
  LET two    == n.kids[1].t = "ExprList"
      step   == IF two THEN n.kids[1].kids[2] ELSE n.kids[1]
      s1     == IF two THEN Fresh(Opened(s), n.kids[1].kids[1].x) ELSE Anonymous(Opened(s))
      s2     == Fresh(s1, step.kids[1].x)
      s3     == Visit(step.kids[2], s2)
      s4     == Use(Use(s3, Declared(s.next)), Declared(s.next + 1))
  IN  Closed(Visit(n.kids[2], s4), s)

VisitFunction(n, s) ==
  LET params == Items(n.kids[1])
      s1     == Sweep(LAMBDA acc, e : Fresh(acc, e.x), [Opened(s) EXCEPT !.uses = <<>>], params)
      s2     == Visit(n.kids[2], s1)
      taken  == Distinct(SelectSeq(s2.uses, LAMBDA e : e.k = "var" /\ e.v < s.next))
      fn     == [params |-> [i \in DOMAIN params |-> Declared(s.next + i - 1)],
                 taken |-> taken, uses |-> s2.uses]
  IN  [Closed(s2, s) EXCEPT !.fns  = Append(@, fn),
                            !.uses = Append(s.uses, Compiled(Len(s2.fns) + 1)) \o taken]

Visit(n, s) ==
  CASE n.t = "Identifier"           -> UseName(s, n.x)
    [] n.t = "Int" /\ n.v \in Inline -> s
    [] n.t \in {"Int", "Float", "String"} -> Use(s, Constant(n))
    [] n.t = "Var"                  ->
         LET x == n.kids[1].kids[1].x IN UseName(Declare(Visit(n.kids[1].kids[2], s), x), x)
    [] n.t = "For"                  -> VisitFor(n, s)
    [] n.t = "Function"             -> VisitFunction(n, s)
    [] n.t = "CodeBlock"            -> Closed(Visit(n.kids[1], Opened(s)), s)
    [] n.t = "Assert" /\ n.kids[1].t = "ExprList" ->
         VisitAll(<<n.kids[1].kids[2], n.kids[1].kids[1]>>, s)
    [] OTHER                        -> VisitAll(n.kids, s)

(* Every function of a script, in the order they are finished, the script  *)
(* last; and whether every name is declared.                               *)
Meaning(tree) ==
  LET s == Visit(tree, Start) IN
  [fns |-> Append(s.fns, [params |-> <<>>, taken |-> <<>>, uses |-> s.uses]),
   declared |-> s.declared]
=============================================================================
