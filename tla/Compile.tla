------------------------------- MODULE Compile -------------------------------
(***************************************************************************)
(* jarl::execute (api.cpp) from the syntax tree on: the syntax checker,    *)
(* the code generator, the report of their errors or the execution of the  *)
(* script, and the end of the tree.                                        *)
(***************************************************************************)
EXTENDS CodeGen

LOCAL INSTANCE SequencesExt
Lex == INSTANCE Lexical WITH Inline <- -(Width \div 2)..(Width \div 2 - 1)

CONSTANT Scripts   \* the syntax trees the parser may hand on

VARIABLES
  tree,      \* parse_tree
  stage,     \* how far the script is; undefined, freedtwice: beyond behaviour
  errors,    \* errors.size() > 0
  program    \* what the code generator made of the tree

vars == <<tree, stage, errors, program>>

Stages == {"parsed", "checked", "generated", "reported", "executed", "done",
           "undefined", "freedtwice"}

NoProgram == [funcs |-> <<>>, errors |-> FALSE, lost |-> 0, bad |-> "no"]

Init ==
  /\ tree \in Scripts
  /\ stage = "parsed"
  /\ errors = FALSE
  /\ program = NoProgram

ValidateSyntax ==
  /\ stage = "parsed"
  /\ stage' = "checked"
  /\ errors' = ~Accepted(tree)
  /\ UNCHANGED <<tree, program>>

(* The code generator runs on trees the checker has refused, too.          *)
GenerateCode ==
  /\ stage = "checked"
  /\ program' = Generated(tree)
  /\ errors' = (errors \/ program'.errors)
  /\ stage' = IF program'.bad = "no" THEN "generated" ELSE "undefined"
  /\ UNCHANGED tree

Report ==
  /\ stage = "generated" /\ errors
  /\ stage' = "reported"
  /\ UNCHANGED <<tree, errors, program>>

Execute ==
  /\ stage = "generated" /\ ~errors
  /\ stage' = "executed"
  /\ UNCHANGED <<tree, errors, program>>

(* ~ASTNode for every node still linked.                                   *)
DestroyTree ==
  /\ stage \in {"reported", "executed"}
  /\ stage' = IF program.lost = 0 THEN "done" ELSE "freedtwice"
  /\ UNCHANGED <<tree, errors, program>>

Next == ValidateSyntax \/ GenerateCode \/ Report \/ Execute \/ DestroyTree

Spec == Init /\ [][Next]_vars

-----------------------------------------------------------------------------
(* What each instruction does to the operands on the stack: the condition  *)
(* VMShape!WellShaped, for words.  A kind is val, iter or borrow.          *)

Fixed(f) == f.args + f.caps + Len(f.consts) + f.locals

Vals(n) == [i \in 1..n |-> "val"]

Count(w, n, default) == IF w.form = "none" THEN default ELSE n

Needs(w, n) ==
  CASE w.op \in {"Push", "PushBool", "Borrow", "Jmp", "Return"}       -> <<>>
    [] w.op \in {"BorrowIndex", "WriteBorrowed", "ArithBorrowed"}     -> <<"borrow", "val">>
    [] w.op = "Move"                                                  -> <<"borrow">>
    [] w.op = "NextOrJmp"                                             -> <<"iter">>
    [] w.op \in BinaryNodes \union {"Get", "AssertMsg"}               -> Vals(2)
    [] w.op = "Slice"                                                 -> Vals(3)
    [] w.op = "Print"                                                 -> Vals(Count(w, n, 1))
    [] w.op = "CreateArray"                                           -> Vals(Count(w, n, 0))
    [] w.op = "CreateTable"                                           -> Vals(2 * Count(w, n, 0))
    [] w.op \in {"Call", "Recurse"}                                   -> Vals(Count(w, n, 0) + 1)
    [] w.op = "CreateClosure"                                         -> Vals(n + 1)
    [] OTHER                                                          -> Vals(1)

Gives(w) ==
  CASE w.op \in {"Pop", "Print", "Write", "WriteBorrowed", "ArithBorrowed", "Jf", "Jfsc", "Jtsc",
                 "Jmp", "Return"} -> <<>>
    [] w.op \in {"Borrow", "BorrowIndex"}  -> <<"borrow">>
    [] w.op \in {"BeginIter", "NextOrJmp"} -> <<"iter">>
    [] OTHER                               -> <<"val">>

(* The addresses control may reach from here, with the operands then.      *)
Successors(w, n, rest, p) ==
  LET next == <<p + 1 + OperandCount(w.form), rest \o Gives(w)>> IN
  CASE w.op = "Return"            -> <<>>
    [] w.op = "Jmp"               -> <<<<n, rest>>>>
    [] w.op \in {"Jf", "NextOrJmp"} -> <<next, <<n, rest>>>>
    [] w.op \in {"Jfsc", "Jtsc"}  -> <<next, <<n, rest \o <<"val">>>>>>
    [] OTHER                      -> <<next>>

(* A function that has nothing on the stack returns its last fixed cell,   *)
(* which must not be a function that waits for its captures.               *)
Returns(funcs, f, S) ==
  \/ S # <<>> /\ Last(S) = "val"
  \/ /\ S = <<>>
     /\ f = Last(funcs) => Fixed(f) > 0
     /\ f.locals = 0 /\ f.consts # <<>> /\ Last(f.consts).k = "func"
          => funcs[Last(f.consts).v].caps = 0

(* Every address reached is the start of an instruction, is reached with   *)
(* the same operands on every path, and finds there what it needs.         *)
RECURSIVE Flows(_, _, _, _)
Flows(funcs, f, todo, seen) ==
  IF todo = <<>> THEN TRUE
  ELSE
    LET p == Head(todo)[1]
        S == Head(todo)[2]
        w == f.code[p + 1]
        n == IF w.form = "none" THEN 0 ELSE f.code[p + 2].n
        keep == Len(S) - Len(Needs(w, n))
    IN
    IF \E e \in seen : e[1] = p
    THEN <<p, S>> \in seen /\ Flows(funcs, f, Tail(todo), seen)
    ELSE
      /\ p < Len(f.code) /\ w.op # "operand"
      /\ keep >= 0 /\ SubSeq(S, keep + 1, Len(S)) = Needs(w, n)
      /\ w.op = "Return" => Returns(funcs, f, S)
      /\ Flows(funcs, f, Successors(w, n, SubSeq(S, 1, keep), p) \o Tail(todo),
               seen \union {<<p, S>>})

-----------------------------------------------------------------------------
(* What the operands of a function's code stand for.                       *)

Owner(code, i) == IF code[i - 1].op = "operand" THEN code[i - 2] ELSE code[i - 1]

Addressing(code) ==
  LET places == SelectSeq([i \in DOMAIN code |-> i],
                  LAMBDA i : /\ code[i].op = "operand" /\ Owner(code, i).form # "int"
                             /\ Owner(code, i).op \in {"Push", "Borrow", "Write", "BeginIter"})
  IN  [j \in DOMAIN places |-> code[places[j]].n]

OneToOne(pairs) == \A p, q \in pairs : p[1] = q[1] <=> p[2] = q[2]

(* f's positions stand for the declarations and constants of fn, each for  *)
(* one, and constants are where the constants are.                         *)
StandsFor(f, fn) ==
  LET at    == Addressing(f.code)
      first == f.args + f.caps
      pairs == {<<fn.uses[i], at[i]>> : i \in DOMAIN at}
               \union {<<fn.params[i], i - 1>> : i \in 1..f.args}
               \union {<<fn.taken[i], f.args + i - 1>> : i \in 1..f.caps}
  IN
  /\ Len(at) = Len(fn.uses) /\ f.args = Len(fn.params) /\ f.caps = Len(fn.taken)
  /\ OneToOne(pairs)
  /\ \A p \in pairs :
       IF p[1].k = "var" THEN p[2] \in 0..(Fixed(f) - 1) \ first..(first + Len(f.consts) - 1)
       ELSE p[2] - first + 1 \in DOMAIN f.consts /\ f.consts[p[2] - first + 1] = p[1]

-----------------------------------------------------------------------------
(* Properties.                                                             *)

TypeOK ==
  /\ stage \in Stages
  /\ errors \in BOOLEAN
  /\ program.lost \in Nat /\ program.bad \in {"no", "assert", "wildread", "outofrange"}
  /\ program.errors \/ stage = "undefined" => program.funcs = <<>>

(* Every function of a program keeps to one operand shape per address.     *)
Steady(prog) == \A f \in Range(prog.funcs) : Flows(prog.funcs, f, <<<<0, <<>>>>>>, {})

(* A program's operands stand for what the tree means by them.             *)
Resolved(root, prog) ==
  LET meaning == Lex!Meaning(root) IN
  /\ meaning.declared
  /\ Len(meaning.fns) = Len(prog.funcs)
  /\ \A i \in DOMAIN prog.funcs : StandsFor(prog.funcs[i], meaning.fns[i])

(* Code is short enough for its addresses not to be taken for positions.   *)
ShortCode == \A i \in DOMAIN program.funcs : Len(program.funcs[i].code) <= PosBit

Compiled == stage = "generated" /\ ~errors /\ ShortCode

(* On every path through the code threadAST makes, an address is reached   *)
(* with the same operands, which are those its instruction needs; jumps    *)
(* land on instructions.  vm.cpp relies on it without checking.            *)
StackDiscipline == Compiled => Steady(program)

(* Every operand stands for what lexical scoping says: parameters,         *)
(* captures, constants and locals do not get in each other's place, and    *)
(* what CreateClosure binds is what the function's captures are.           *)
NamesResolve == Compiled => Resolved(tree, program)

(* A tree the checker accepts is one threadAST knows all nodes of.         *)
AcceptedIsDefined == stage = "undefined" => errors

(* No node of the tree is deleted twice.                                   *)
FreedOnce == stage # "freedtwice"
=============================================================================
