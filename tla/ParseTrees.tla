----------------------------- MODULE ParseTrees ------------------------------
(***************************************************************************)
(* What the trees of the parser should be: for the checker, the code       *)
(* generator and the reader of the script.                                 *)
(***************************************************************************)
EXTENDS FrontEnd

-----------------------------------------------------------------------------
(* Trees are walked as those who read them do: a node, then its children   *)
(* from left to right.                                                     *)

(* Where a walk is: the trees to visit, the names and literals it has come *)
(* by, and the nodes.                                                      *)
Visit(todo, words, nodes) == [todo |-> todo, words |-> words, nodes |-> nodes]

Word(n) == IF n.t \in Literals THEN <<<<n.t, n.x>>>> ELSE <<>>

Step(s) ==
  IF s.todo = <<>> THEN s
  ELSE Visit(s.todo[1].kids \o Tail(s.todo), s.words \o Word(s.todo[1]),
          s.nodes \union {s.todo[1]})

(* No lexeme makes more than three nodes.                                  *)
MaxNodes == 3 * Len(lexemes)

Walk(n) ==
  LET w[k \in 0..MaxNodes] == IF k = 0 THEN Visit(<<n>>, <<>>, {}) ELSE Step(w[k - 1])
  IN  w[MaxNodes]

(* The names and literals among the first i lexemes.                       *)
WordsRead ==
  LET r[i \in 0..Len(lexemes)] == IF i = 0 THEN <<>> ELSE r[i - 1] \o Word(lexemes[i])
  IN  r

Children(t) == CASE t \in {"Nop", "ParseError"} \union ValueNodes -> 0
                 [] t \in UnaryNodes \union {"Move", "Var", "Return", "Print", "Assert", "CodeBlock",
                                             "Array", "Table", "Recurse"} -> 1
                 [] OTHER -> 2

(* The names and literals of a tree are those of the text, in its order.   *)
LeavesInOrder == stage = "parsed" => Walk(ret).words = WordsRead[lcurrent - 1]

(* A tree ends.  Nodes have the children their types have, which those who *)
(* read the tree do not check; and a tree with a hole in it is one whose   *)
(* error was reported.                                                     *)
TreeWellMade ==
  frames = <<>> /\ ret # NoTree =>
    LET w == Walk(ret) IN
    /\ w.todo = <<>>
    /\ \A n \in w.nodes : Len(n.kids) = Children(n.t)
    /\ (\E n \in w.nodes : n.t = "ParseError") <=> errors # <<>>

-----------------------------------------------------------------------------
(* The trees of chains of binary operators: a chain is divided at its      *)
(* loosest operator, among equally loose ones at the first if they group   *)
(* to the right and at the last otherwise.                                 *)
IsChain ==
  /\ Len(lexemes) > 2 /\ Len(lexemes) % 2 = 1
  /\ \A i \in 2..(Len(lexemes) - 1) :
       IF i % 2 = 0 THEN lexemes[i].t = "Identifier" ELSE lexemes[i].t \in DOMAIN Infix

GroupsRight(t) == Level(t) \in {5, 6}

Operators(first, last) == {i \in first..last : i % 2 = 1}

Divides(first, last, i) ==
  /\ i \in Operators(first, last)
  /\ \A j \in Operators(first, last) :
       /\ Level(lexemes[i].t) <= Level(lexemes[j].t)
       /\ Level(lexemes[i].t) = Level(lexemes[j].t) =>
            IF GroupsRight(lexemes[i].t) THEN i <= j ELSE i >= j

Divided ==
  LET Inner == 2..(Len(lexemes) - 1)
      tree[s \in Inner \X Inner] ==
        IF s[1] >= s[2] THEN Node("Identifier", lexemes[s[1]].x, 0, <<>>)
        ELSE LET i == CHOOSE i \in Inner : Divides(s[1], s[2], i)
             IN  Node(Infix[lexemes[i].t], "", 0, <<tree[<<s[1], i - 1>>], tree[<<i + 1, s[2]>>]>>)
  IN  tree

(* nud_ and led_ group the operators of a chain by their classes.          *)
ParsesByPrecedence ==
  stage = "parsed" /\ IsChain => ret = Divided[<<2, Len(lexemes) - 1>>]
=============================================================================
