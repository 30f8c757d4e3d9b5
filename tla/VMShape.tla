------------------------------- MODULE VMShape -------------------------------
(***************************************************************************)
(* What the code generator owes the stack machine, and what the machine    *)
(* gives back.  A program is well shaped when every code position of every *)
(* function has one operand shape: the kinds of the cells the frame has    *)
(* above its variables whenever it is there.  This is the stack discipline *)
(* threadAST (code_generator.cpp) has to keep; vm.cpp relies on it without *)
(* checking it, in its asserts and in every read of borrowed_v, iterator_v *)
(* and func_v.                                                             *)
(***************************************************************************)
EXTENDS VM

CONSTANT Shape   \* Shape[f][pc]: a sequence of kinds, bottom of stack first

(* A kind is val (any value of the language), iter, borrow, or a function: *)
(* the cell holds exactly that function, not yet made a closure.           *)
Kind == {"val", "iter", "borrow"} \union Func

ASSUME KindAssumption == Func \intersect {"val", "iter", "borrow"} = {}

(* A cell of kind k will do where a cell of kind l is wanted.              *)
Sub(k, l) == k = l \/ (l = "val" /\ k \in Func /\ FuncCell(k) \in FuncValues)

(* From shape S, an instruction that takes "need" and leaves "give" may be *)
(* followed by shape T.                                                    *)
Edge(S, need, give, T) ==
  LET keep == Len(S) - Len(need) IN
  /\ keep >= 0
  /\ Len(T) = keep + Len(give)
  /\ \A i \in 1..Len(need) : Sub(S[keep + i], need[i])
  /\ \A i \in 1..keep      : Sub(S[i], T[i])
  /\ \A i \in 1..Len(give) : Sub(give[i], T[keep + i])

Vals(n) == Repeat("val", n)

(* The variables of a frame: every fixed cell that is not a constant.      *)
VarPos(f) == {i \in 0..(Fixed(f) - 1) : i < ConstPos(f) \/ i >= LocalPos(f)}

VarKind(f, i) ==
  IF i \notin VarPos(f) /\ Consts[f][i - ConstPos(f) + 1].k = "func"
  THEN Consts[f][i - ConstPos(f) + 1].f
  ELSE "val"

(* The instruction at pc leads from its shape to the shapes of every       *)
(* position it may be followed by.                                         *)
WellShapedAt(f, pc) ==
  LET ins    == Code[f][pc]
      S      == Shape[f][pc]
      To(need, give, target) ==
        target \in DOMAIN Code[f] /\ Edge(S, need, give, Shape[f][target])
      On(need, give) == To(need, give, pc + 1)
  IN
  CASE ins.op = "Push"          -> On(<<>>, <<"val">>)
    [] ins.op = "PushVar"       -> /\ ins.a \in 0..(Fixed(f) - 1)
                                   /\ On(<<>>, <<VarKind(f, ins.a)>>)
    [] ins.op \in {"Pop", "Print"} -> On(Vals(Operands(ins)), <<>>)
    [] ins.op \in Operators \ {"Pop", "Print"} ->
                                   On(Vals(Operands(ins)), <<"val">>)
    [] ins.op = "WriteVar"      -> ins.a \in VarPos(f) /\ On(<<"val">>, <<>>)
    [] ins.op = "BorrowVar"     -> ins.a \in VarPos(f) /\ On(<<>>, <<"borrow">>)
    [] ins.op = "BorrowIndex"   -> On(<<"borrow", "val">>, <<"borrow">>)
    [] ins.op \in {"WriteBorrowed", "ArithBorrowed"} ->
                                   On(<<"borrow", "val">>, <<>>)
    [] ins.op = "Move"          -> On(<<"borrow">>, <<"val">>)
    [] ins.op = "Jmp"           -> To(<<>>, <<>>, ins.a)
    [] ins.op \in {"Jt", "Jf"}  -> On(<<"val">>, <<>>) /\ To(<<"val">>, <<>>, ins.a)
    [] ins.op \in {"Jtsc", "Jfsc"} ->
                                   On(<<"val">>, <<>>) /\ To(<<"val">>, <<"val">>, ins.a)
    [] ins.op = "BeginIter"     -> On(<<"val">>, <<"iter">>)
    [] ins.op = "NextOrJmp"     -> /\ pc > 1
                                   /\ Code[f][pc - 1].a \in VarPos(f)
                                   /\ Code[f][pc - 1].b \in VarPos(f)
                                   /\ On(<<"iter">>, <<"iter">>)
                                   /\ To(<<"iter">>, <<>>, ins.a)
    [] ins.op = "Apply"         -> On(Vals(2), <<"val">>)
    [] ins.op = "Call"          -> On(Vals(ins.a + 1), <<"val">>)
    [] ins.op = "Recurse"       -> On(Vals(ins.a + 1), <<"val">>)
    [] ins.op = "CreateClosure" ->
         \E g \in Func \ Main : /\ Caps[g] = ins.a
                                /\ On(<<g>> \o Vals(ins.a), <<"val">>)
    [] ins.op = "Return"        ->
         IF S # <<>> THEN Sub(S[Len(S)], "val")
         ELSE Fixed(f) > 0 => Sub(VarKind(f, Fixed(f) - 1), "val")
    [] OTHER                    -> FALSE

WellShaped ==
  \A f \in Func :
    /\ Code[f] # <<>>
    /\ Shape[f] \in [DOMAIN Code[f] -> Seq(Kind)]
    /\ Shape[f][1] = <<>>
    /\ \A pc \in DOMAIN Code[f] : WellShapedAt(f, pc)
    /\ \A i \in DOMAIN Consts[f] :
         Consts[f][i] \in {Plain} \union {FuncCell(g) : g \in Func \ Main}
    /\ f \in Main => /\ Args[f] = 0 /\ Caps[f] = 0
                     /\ \A pc \in DOMAIN Code[f] :
                          Code[f][pc].op = "Return"
                            => Fixed(f) + Len(Shape[f][pc]) > 0

-----------------------------------------------------------------------------
(* Properties.                                                             *)

TypeOK ==
  /\ stack \in [Addr -> Cell]
  /\ sp \in 0..StackSize
  /\ frames \in Seq(Frame)
  /\ status \in {"idle", "running"} \union Undefined
  /\ history \in {"clean", "failed", "stale"}
  /\ executes \in 0..MaxExecutes

(* The frames belong to the script being run, not to one that failed.      *)
Running == status = "running" /\ history # "stale"

(* What the running frame has above its variables, and what a suspended    *)
(* one will have when its callee has returned, the result on top.          *)
Expects(fr) == Shape[fr.f][fr.pc]
Awaits(fr)  == Shape[fr.f][fr.pc + 1]

Base(fr) == fr.bp + Fixed(fr.f)

Conforms(c, kind, fr) ==
  CASE kind = "val"    -> c \in Values
    [] kind = "iter"   -> c = Iter
    [] kind = "borrow" ->
         \E t \in {InHeap} \union {fr.bp + i : i \in VarPos(fr.f)} :
           c = BorrowCell(t)
    [] OTHER           -> c = FuncCell(kind)

(* A running frame fits when its operands end where the stack ends; a      *)
(* suspended one when they end where the next frame starts.                *)
FitsRunning(fr, end) ==
  /\ fr.pc \in DOMAIN Code[fr.f]
  /\ Base(fr) + Len(Expects(fr)) = end

FitsWaiting(fr, end) ==
  /\ fr.pc \in DOMAIN Code[fr.f]
  /\ Code[fr.f][fr.pc].op \in {"Apply", "Call", "Recurse"}
  /\ fr.pc + 1 \in DOMAIN Code[fr.f]
  /\ Awaits(fr) # <<>>
  /\ Awaits(fr)[Len(Awaits(fr))] = "val"
  /\ Base(fr) + Len(Awaits(fr)) = end

HasOperands(m, fr, S, n) ==
  \A i \in 1..n : Conforms(m[Base(fr) + i - 1], S[i], fr)

HasVariables(m, fr) ==
  \A i \in 0..(Fixed(fr.f) - 1) :
    IF i \in VarPos(fr.f) THEN m[fr.bp + i] \in Values
    ELSE m[fr.bp + i] = Consts[fr.f][i - ConstPos(fr.f) + 1]

(* Every frame, running or suspended, has exactly the operands its code    *)
(* position expects, a caller's last one being the slot of the result.     *)
(* vm.cpp finds that slot as bp - 1 and never compares sizes               *)
(* (popFunction_), so one cell too many anywhere shifts every later frame. *)
FramesFit ==
  Running =>
    /\ frames # <<>>
    /\ frames[1].bp = 0
    /\ frames[1].f \in Main
    /\ FitsRunning(Top, sp)
    /\ \A k \in 1..(Len(frames) - 1) : FitsWaiting(frames[k], frames[k + 1].bp)
    /\ \A j, k \in DOMAIN frames : j <= k => frames[j].bp <= frames[k].bp

(* Operands have the kinds the code expects: an iterator is where          *)
(* NextOrJmp looks for it, a borrow where a write goes through it, and a   *)
(* borrow points at a variable of its own frame, which is still there.     *)
OperandsFit ==
  Running =>
    /\ HasOperands(stack, Top, Expects(Top), Len(Expects(Top)))
    /\ \A k \in 1..(Len(frames) - 1) :
         HasOperands(stack, frames[k], Awaits(frames[k]), Len(Awaits(frames[k])))

(* Whatever runs above a frame, its constants stay what they were and its  *)
(* variables stay values of the language.                                  *)
VariablesFit == Running => \A k \in DOMAIN frames : HasVariables(stack, frames[k])

(* A machine no script has failed on is left as it was found.              *)
CleanWhenIdle ==
  status = "idle" /\ history = "clean" => sp = 0 /\ frames = <<>>

(* Well-shaped code never reads a cell as the wrong type or pops what is   *)
(* not there: the only ways out of defined behaviour are the stack's       *)
(* capacity and the call of a partially applied function.                  *)
NoMisuse == history # "stale" => status \notin {"underflow", "badcell"}

(* A suspended frame's cells below the slot of its callee are not touched  *)
(* by anything that runs above them.                                       *)
CallersUntouched ==
  [][history # "stale" =>
       \A i \in Addr :
         (frames # <<>> /\ i < Top.bp - 1 /\ frames' # <<>>) => stack'[i] = stack[i]]_vars
=============================================================================
