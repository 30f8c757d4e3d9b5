------------------------------- MODULE CodeGen -------------------------------
(***************************************************************************)
(* The code generator (code_generator.cpp) with the scopes it resolves     *)
(* names in (delegate_map.h, vector_map.h): from a syntax tree to the      *)
(* words of each function's code.                                          *)
(*                                                                         *)
(* Code is kept word for word: an instruction word is followed by as many  *)
(* operand words as its form says, jumps are word addresses, variables are *)
(* positions marked with their class until generate_ corrects them.  Not   *)
(* kept: source lines (code_positions) and the texts of errors.            *)
(***************************************************************************)
EXTENDS Syntax

LOCAL INSTANCE SequencesExt
LOCAL INSTANCE Bitwise

(* The lowest of the three bits that mark a position's class, 2^13 in the  *)
(* code.  Words have two bits more.                                        *)
CONSTANT PosBit

ASSUME PosBitAssumption == PosBit \in {2^i : i \in 0..13}

Width == 8 * PosBit

CaptureBit == PosBit
ConstBit   == 2 * PosBit
LocalBit   == 4 * PosBit

(* Instruction words have a form: none, int (one operand, taken as it is), *)
(* pos and pos2 (one and two operands, corrected as positions).            *)
Ins(op, form) == [op |-> op, form |-> form, n |-> 0]
Operand(n)    == [op |-> "operand", form |-> "none", n |-> n % Width]

OperandCount(form) == CASE form = "none" -> 0 [] form = "pos2" -> 2 [] OTHER -> 1

-----------------------------------------------------------------------------
(* Scopes: a stack of maps, innermost first; a map lists its names in the  *)
(* order they came.                                                        *)

NoPos == -1

IndexIn(map, x) == SelectInSeq(map, LAMBDA slot : slot.name = x)

(* VectorMap::operator[] and the assignment to what it returns.            *)
Bind(map, x, pos) ==
  IF IndexIn(map, x) = 0 THEN Append(map, [name |-> x, pos |-> pos])
  ELSE [map EXCEPT ![IndexIn(map, x)].pos = pos]

(* DelegateMap::find.                                                      *)
Find(scopes, x) ==
  LET k == SelectInSeq(scopes, LAMBDA map : IndexIn(map, x) # 0)
  IN  IF k = 0 THEN NoPos ELSE scopes[k][IndexIn(scopes[k], x)].pos

(* DelegateMap::operator[]: this map and its delegate are searched, not    *)
(* the delegate's delegate; a name not found is entered here, at 0.        *)
Near(scopes) == SubSeq(scopes, 1, IF Len(scopes) < 2 THEN Len(scopes) ELSE 2)

At(scopes, x) == IF Find(Near(scopes), x) = NoPos THEN 0 ELSE Find(Near(scopes), x)

Entered(scopes, x) ==
  IF Find(Near(scopes), x) = NoPos THEN [scopes EXCEPT ![1] = Bind(@, x, 0)] ELSE scopes

-----------------------------------------------------------------------------
(* The ThreadingContext of a function, and what all contexts share: funcs, *)
(* the functions finished so far; errors, whether there were any; lost,    *)
(* how many function bodies were deleted while the tree still points to    *)
(* them; bad, how defined behaviour was left.                              *)

Context(outer, map) ==
  [code |-> <<>>, consts |-> <<>>, scopes |-> <<map>>, outer |-> outer,
   args |-> Len(map), caps |-> 0, locals |-> 0,
   funcs |-> <<>>, errors |-> FALSE, lost |-> 0, bad |-> "no"]

Put(c, op) == [c EXCEPT !.code = Append(@, Ins(op, "none"))]

PutArg(c, op, form, n) == [c EXCEPT !.code = @ \o <<Ins(op, form), Operand(n)>>]

PutOperand(c, n) == [c EXCEPT !.code = Append(@, Operand(n))]

Error(c) == [Put(c, "Nop") EXCEPT !.errors = TRUE]

(* code[at - 1] = code.size().                                             *)
Land(c, at) == [c EXCEPT !.code[at].n = Len(c.code) % Width]

(* A jump whose address Land fills in; its operand is the last word.       *)
PutJump(c, op) == PutArg(c, op, "pos", 0)

(* VectorSet::emplace: functions are new, values are looked for.           *)
PushConst(c, key) ==
  LET at  == SelectInSeq(c.consts, LAMBDA k : k = key)
      idx == IF at = 0 THEN Len(c.consts) ELSE at - 1
  IN  PutArg([c EXCEPT !.consts = IF at = 0 THEN Append(@, key) ELSE @],
             "Push", "pos", idx | ConstBit)

NewLocal(c, x) ==
  [c EXCEPT !.locals = @ + 1, !.scopes[1] = Bind(@, x, c.locals | LocalBit)]

OpenScope(c)  == [c EXCEPT !.scopes = <<(<<>>)>> \o @]
CloseScope(c) == [c EXCEPT !.scopes = Tail(@)]

(* Threading: Identifier.  A name of the enclosing function is captured:   *)
(* it gets a position in the outermost map of this one.                    *)
PushName(c, x) ==
  LET c1    == [c EXCEPT !.code = Append(@, Ins("Push", "pos"))]
      base  == Len(c.scopes)
      pos   == c.caps | CaptureBit
  IN
  IF Find(c.scopes, x) # NoPos THEN PutOperand(c1, Find(c.scopes, x))
  ELSE IF Find(c.outer, x) = NoPos THEN Error(c1)
  ELSE PutOperand([c1 EXCEPT !.caps = @ + 1, !.scopes[base] = Bind(@, x, pos)], pos)

(* Mutant: a variable of an enclosing block is taken for this block's.     *)
WriteVarAnywhere(c, x) ==
  LET c1 == IF Find(c.scopes, x) = NoPos THEN NewLocal(c, x) ELSE c
  IN  PutArg(c1, "Write", "pos", Find(c1.scopes, x))

(* Threading: Var, after the value; only this block's variables are looked *)
(* for.                                                                    *)
WriteVar(c, x) ==
  LET c1 == IF IndexIn(c.scopes[1], x) = 0 THEN NewLocal(c, x) ELSE c
  IN  PutArg(c1, "Write", "pos", Find(c1.scopes, x))

(* Position correction.  extended counts what is left of the operands of   *)
(* the last instruction word, by twos when they are positions.             *)
Place(n, capturePos, constPos, localPos) ==
  LET class == (n \div PosBit) % 8 IN
  CASE class = 1 -> (n - CaptureBit + capturePos) % Width
    [] class = 2 -> (n - ConstBit + constPos) % Width
    [] class = 4 -> (n - LocalBit + localPos) % Width
    [] OTHER     -> n

(* What an instruction word sets extended to.                              *)
Extent(form) == CASE form = "none" -> 0 [] form = "int" -> 1 [] form = "pos" -> 2 [] form = "pos2" -> 4

CorrectWord(acc, w, capturePos, constPos, localPos) ==
  LET ext == acc.extended IN
  IF ext = 0 THEN
    [extended |-> Extent(w.form), code |-> Append(acc.code, w)]
  ELSE IF ext = 1 THEN [extended |-> 0, code |-> Append(acc.code, w)]
  ELSE [extended |-> ext - 2,
        code |-> Append(acc.code, [w EXCEPT !.n = Place(@, capturePos, constPos, localPos)])]

Corrected(c) ==
  LET capturePos == c.args
      constPos   == capturePos + c.caps
      localPos   == constPos + Len(c.consts)
  IN  Sweep(LAMBDA acc, w : CorrectWord(acc, w, capturePos, constPos, localPos),
               [extended |-> 0, code |-> <<>>], c.code).code

(* The Function made of a finished context.                                *)
Made(c) == [code |-> Corrected(Put(c, "Return")), consts |-> c.consts,
            args |-> c.args, caps |-> c.caps, locals |-> c.locals]

Params(list) ==
  Sweep(LAMBDA acc, e : [map |-> Bind(acc.map, e.x, acc.args), args |-> acc.args + 1],
           [map |-> <<>>, args |-> 0], Items(list))

(* Threading: Function, after its body (generate_).  names are the entries *)
(* of the body's outermost map after the parameters.                       *)
PushCaptured(c, x) == PutArg([c EXCEPT !.scopes = Entered(@, x)], "Push", "pos", At(c.scopes, x))

Closure(c, inner, args) ==
  LET map == inner.scopes[Len(inner.scopes)]
      c1  == [c EXCEPT !.funcs = inner.funcs, !.lost = inner.lost, !.bad = inner.bad]
      c2  == PushConst([c1 EXCEPT !.funcs = Append(@, Made(inner))],
                       [k |-> "func", x |-> "", v |-> Len(inner.funcs) + 1])
  IN
  IF inner.errors THEN [Error(c1) EXCEPT !.lost = @ + 1]
  ELSE IF inner.caps = 0 THEN c2
  ELSE IF args + inner.caps > Len(map) THEN [c2 EXCEPT !.bad = "outofrange"]
  ELSE PutArg(Sweep(LAMBDA acc, i : PushCaptured(acc, map[i].name), c2,
                       [i \in 1..inner.caps |-> args + i]),
              "CreateClosure", "int", inner.caps)

-----------------------------------------------------------------------------
(* threadAST, threadRexpr, threadInsRexpr.                                 *)

RECURSIVE Thread(_, _), Rexpr(_, _)

ThreadAll(nodes, c) == Sweep(LAMBDA acc, e : Thread(e, acc), c, nodes)

Broken(c, how) == [c EXCEPT !.bad = IF @ = "no" THEN how ELSE @]

(* A node whose value, if it has one, nobody uses.                         *)
Statement(n, c) == IF IsValue(n) THEN Put(Thread(n, c), "Pop") ELSE Thread(n, c)

ThreadLiteral(n, c) ==
  CASE n.t = "Null" -> Put(c, "Push")
    [] n.t = "Bool" -> Put(c, "PushBool")
    [] n.t = "Int" /\ n.v < Width \div 2 /\ n.v >= -(Width \div 2) ->
         PutArg(c, "Push", "int", n.v)
    [] OTHER -> PushConst(c, [k |-> n.t, x |-> n.x, v |-> n.v])

(* BranchExpr: And, Or.  The second operand stays when the first decides.  *)
ThreadLogic(n, c) ==
  LET c1 == PutJump(Thread(n.kids[1], c), IF n.t = "And" THEN "Jfsc" ELSE "Jtsc")
  IN  Land(Thread(n.kids[2], c1), Len(c1.code))

(* Mutant: a side's value stays though the branch is none.                 *)
BranchKept(n, side, c) == Thread(side, c)

(* BranchExpr: If, with and without else.                                  *)
Branch(n, side, c) ==
  IF ~IsValue(n) /\ IsValue(side) THEN Put(Thread(side, c), "Pop") ELSE Thread(side, c)

ThreadIf(n, c) ==
  LET c1 == PutJump(Thread(n.kids[1], c), "Jf")
      c2 == PutJump(Branch(n, IF HasElse(n) THEN n.kids[2].kids[1] ELSE n.kids[2], c1), "Jmp")
      c3 == Land(c2, Len(c1.code))
      c4 == IF HasElse(n) THEN Branch(n, n.kids[2].kids[2], c3) ELSE Put(c3, "Push")
  IN  Land(c4, Len(c2.code))

(* AssignExpr.  The place is borrowed before the value is computed.        *)
InsRexpr(n, c) ==
  CASE n.t = "Index"      -> Rexpr(n, c)
    [] n.t = "Identifier" -> Error(c)
    [] OTHER              -> Put(c, "Nop")

ThreadAssign(n, c) ==
  LET c1 == IF n.t = "Insert" THEN InsRexpr(n.kids[1], c) ELSE Rexpr(n.kids[1], c)
  IN  Put(Thread(n.kids[2], c1),
          IF n.t \in {"Assign", "Insert"} THEN "WriteBorrowed" ELSE "ArithBorrowed")

(* Array, Table: empty elements are left out.                              *)
ThreadArray(n, c) ==
  IF n.kids[1].t = "Nop" THEN Put(c, "CreateArray")
  ELSE PutArg(ThreadAll(Given(n.kids[1]), c), "CreateArray", "int", Len(Given(n.kids[1])))

ThreadTable(n, c) ==
  LET pairs == Given(n.kids[1]) IN
  IF n.kids[1].t = "Nop" THEN Put(c, "CreateTable")
  ELSE IF \E p \in Range(pairs) : p.t # "KeyValuePair" THEN Broken(c, "assert")
  ELSE PutArg(ThreadAll(FlattenSeq([i \in DOMAIN pairs |-> pairs[i].kids]), c),
              "CreateTable", "int", Len(pairs))

ThreadWhile(n, c) ==
  LET c1 == PutJump(Thread(n.kids[1], c), "Jf")
      c2 == PutArg(Statement(n.kids[2], c1), "Jmp", "pos", Len(c.code))
  IN  Land(c2, Len(c1.code))

(* For.  Both variables exist even when one is named; they are in scope    *)
(* where the iterated value is computed.                                   *)
ForScope(names, first, second) ==
  IF Len(names) = 2 THEN Bind(Bind(<<>>, names[1].x, first), names[2].x, second)
  ELSE Bind(<<>>, names[1].x, second)

ThreadFor(n, c) ==
  LET step   == IF n.kids[1].t = "ExprList" THEN n.kids[1].kids[2] ELSE n.kids[1]
      names  == (IF n.kids[1].t = "ExprList" THEN <<n.kids[1].kids[1]>> ELSE <<>>)
                \o <<step.kids[1]>>
      first  == c.locals | LocalBit
      second == (c.locals + 1) | LocalBit
      c1 == [OpenScope(c) EXCEPT !.locals = @ + 2, !.scopes[1] = ForScope(names, first, second)]
      c2 == Thread(step.kids[2], c1)
      c3 == [c2 EXCEPT !.code = @ \o <<Ins("BeginIter", "pos2"), Operand(first), Operand(second)>>]
      c4 == PutJump(c3, "NextOrJmp")
      c5 == PutArg(Statement(n.kids[2], c4), "Jmp", "pos", Len(c3.code))
  IN
  IF Len(step.kids) < 2 THEN Broken(c, "wildread") ELSE CloseScope(Land(c5, Len(c4.code)))

ThreadFunction(n, c) ==
  LET params == Params(n.kids[1])
      inner  == Thread(n.kids[2], [Context(c.scopes, params.map) EXCEPT
                                     !.funcs = c.funcs, !.lost = c.lost, !.bad = c.bad])
  IN  Closure(c, inner, params.args)

(* Var.  The child has to be an assignment; its type is not looked at.     *)
ThreadVar(n, c) ==
  IF Len(n.kids[1].kids) < 2 THEN Broken(c, "wildread")
  ELSE WriteVar(Thread(n.kids[1].kids[2], c), n.kids[1].kids[1].x)

(* Call, Recurse: the callee is on the stack, then the arguments given.    *)
ThreadCall(op, list, c) ==
  IF list.t = "Nop" THEN Put(c, op)
  ELSE PutArg(ThreadAll(Given(list), c), op, "pos", Len(Given(list)))

ThreadPrint(n, c) ==
  LET num == Len(Items(n.kids[1]))
      c1  == ThreadAll(Items(n.kids[1]), c)
  IN  CASE num = 0 -> c1 [] num = 1 -> Put(c1, "Print")
        [] OTHER -> PutArg(c1, "Print", "int", num)

ThreadAssert(n, c) ==
  IF n.kids[1].t = "ExprList"
  THEN Put(ThreadAll(<<n.kids[1].kids[2], n.kids[1].kids[1]>>, c), "AssertMsg")
  ELSE Put(Thread(n.kids[1], c), "Assert")

ThreadIndex(n, c) ==
  IF n.kids[2].t = "ExprList" THEN Put(ThreadAll(<<n.kids[1]>> \o n.kids[2].kids, c), "Slice")
  ELSE Put(ThreadAll(n.kids, c), "Get")

Thread(n, c) ==
  CASE n.t = "Identifier"             -> PushName(c, n.x)
    [] n.t \in ValueNodes \ {"Identifier"} -> ThreadLiteral(n, c)
    [] n.t = "Move"                   -> Put(Rexpr(n.kids[1], c), "Move")
    [] n.t \in UnaryNodes             -> Put(Thread(n.kids[1], c), n.t)
    [] n.t \in BinaryNodes            -> Put(ThreadAll(n.kids, c), n.t)
    [] n.t \in {"And", "Or"}          -> ThreadLogic(n, c)
    [] n.t = "If"                     -> ThreadIf(n, c)
    [] n.t \in AssignNodes            -> ThreadAssign(n, c)
    [] n.t = "CodeBlock"              -> CloseScope(Thread(n.kids[1], OpenScope(c)))
    [] n.t = "Array"                  -> ThreadArray(n, c)
    [] n.t = "Table"                  -> ThreadTable(n, c)
    [] n.t = "While"                  -> ThreadWhile(n, c)
    [] n.t = "For"                    -> ThreadFor(n, c)
    [] n.t = "Function"               -> ThreadFunction(n, c)
    [] n.t = "Seq"                    -> Thread(n.kids[2], Statement(n.kids[1], c))
    [] n.t = "Var"                    -> ThreadVar(n, c)
    [] n.t = "Return"                 -> Put(Thread(n.kids[1], c), "Return")
    [] n.t = "Recurse"                -> ThreadCall("Recurse", n.kids[1], Put(c, "Push"))
    [] n.t = "Print"                  -> ThreadPrint(n, c)
    [] n.t = "Assert"                 -> ThreadAssert(n, c)
    [] n.t = "Index"                  -> ThreadIndex(n, c)
    [] n.t = "Call"                   -> ThreadCall("Call", n.kids[2], Thread(n.kids[1], c))
    [] n.t = "Nop"                    -> Put(c, "Push")
    [] OTHER                          -> Broken(c, "assert")

(* Where a value is kept.  Names of the enclosing function are not looked  *)
(* for here, and what is no l-value threads to nothing.                    *)
Rexpr(n, c) ==
  CASE n.t = "Identifier" -> IF Find(c.scopes, n.x) = NoPos THEN Error(c)
                             ELSE PutArg(c, "Borrow", "pos", Find(c.scopes, n.x))
    [] n.t = "Index"      -> Put(Thread(n.kids[2], Rexpr(n.kids[1], c)), "BorrowIndex")
    [] OTHER              -> c

(* Mutant: errors do not keep a script from being made.                    *)
GeneratedRegardless(tree) ==
  LET c == Thread(tree, Context(<<>>, <<>>)) IN
  [funcs  |-> IF c.bad # "no" THEN <<>> ELSE Append(c.funcs, Made(c)),
   errors |-> c.errors, lost |-> c.lost, bad |-> c.bad]

(* CodeGenerator::generate: the functions of a script, the script last.    *)
Generated(tree) ==
  LET c == Thread(tree, Context(<<>>, <<>>)) IN
  [funcs  |-> IF c.errors \/ c.bad # "no" THEN <<>> ELSE Append(c.funcs, Made(c)),
   errors |-> c.errors, lost |-> c.lost, bad |-> c.bad]
=============================================================================
