--------------------------------- MODULE VM ---------------------------------
(***************************************************************************)
(* The stack machine of libjarl/vm.cpp: one value stack of fixed capacity  *)
(* (fixed_vector.h), the frame being run (frame_), the suspended frames    *)
(* (call_stack_), and VM::execute, which a host calls once per script.     *)
(*                                                                         *)
(* What is kept: every stack move, every frame push and pop, every type    *)
(* test that decides control flow, every runtime error and what it leaves  *)
(* behind.  What is abstracted: plain values are one cell Plain (a branch  *)
(* on one goes both ways, an operation on one may succeed or raise), the   *)
(* bound arguments of a partial application are any values, and a code     *)
(* position counts instructions, not 16-bit words.                         *)
(*                                                                         *)
(* The program is a parameter, so what is proved about the machine holds   *)
(* for every program with a consistent operand shape (WellShaped, in       *)
(* module VMShape).                                                        *)
(***************************************************************************)
EXTENDS Integers, Sequences

CONSTANTS
  Func,            \* the compiled functions, scripts included
  Main,            \* the functions that are whole scripts
  Code,            \* Code[f]: the instructions of f
  Args,            \* Args[f]: number of parameters
  Caps,            \* Caps[f]: number of captured variables
  Locals,          \* Locals[f]: number of local variables
  Consts,          \* Consts[f]: the constants, a sequence of cells
  StackSize,       \* capacity of the value stack
  MaxExecutes,     \* bound: calls of VM::execute the host makes
  ReuseAfterError, \* does the host run another script after a failed one?
  NoFunc           \* the function of a cell that holds none

Instruction == [op: STRING, a: Nat, b: Nat]

ASSUME ProgramAssumption ==
  /\ Main \subseteq Func
  /\ NoFunc \notin Func
  /\ Code \in [Func -> Seq(Instruction)]
  /\ Args \in [Func -> Nat] /\ Caps \in [Func -> Nat] /\ Locals \in [Func -> Nat]

ASSUME MachineAssumption ==
  StackSize \in Nat /\ MaxExecutes \in Nat /\ ReuseAfterError \in BOOLEAN

VARIABLES
  stack,     \* the memory of the FixedVector
  sp,        \* its size: the first free cell
  frames,    \* call_stack_ followed by frame_; empty when frame_.func is null
  status,    \* idle, running, or how the machine left defined behaviour
  history,   \* clean; failed: an execute raised; stale: another came after it
  executes   \* calls of VM::execute so far

vars == <<stack, sp, frames, status, history, executes>>

Undefined == {"overflow", "underflow", "badcell", "misbound"}

-----------------------------------------------------------------------------
(* Cells of the value stack.                                               *)

Cell == [k: {"plain", "none", "func", "partial", "iter", "borrow", "dead"},
         f: Func \union {NoFunc}, n: Int]

Plain          == [k |-> "plain",   f |-> NoFunc, n |-> 0]
None           == [k |-> "none",    f |-> NoFunc, n |-> 0]
Dead           == [k |-> "dead",    f |-> NoFunc, n |-> 0]
Iter           == [k |-> "iter",    f |-> NoFunc, n |-> 0]
FuncCell(g)    == [k |-> "func",    f |-> g,      n |-> 0]
PartialCell(g, left) == [k |-> "partial", f |-> g, n |-> left]
BorrowCell(target)   == [k |-> "borrow", f |-> NoFunc, n |-> target]

ASSUME ConstsAssumption == Consts \in [Func -> Seq(Cell)]

InHeap == -1   \* the target of a borrow that points into an array or a table

(* A function without captures is itself a value; one with captures is     *)
(* only ever seen by scripts inside the partial application CreateClosure  *)
(* makes of it.                                                            *)
FuncValues == {FuncCell(g) : g \in {h \in Func \ Main : Caps[h] = 0}}
Partials   == UNION {{PartialCell(g, n) : n \in 0..Args[g]} : g \in Func \ Main}
Values     == {Plain, None} \union FuncValues \union Partials

Addr == 0..(StackSize - 1)

-----------------------------------------------------------------------------
(* Frames and instructions.                                                *)

Frame == [f: Func, pc: Nat, bp: Nat]

(* Cells a frame has below its operands: parameters, captures, constants,  *)
(* locals, in that order.                                                  *)
ConstPos(f) == Args[f] + Caps[f]
LocalPos(f) == ConstPos(f) + Len(Consts[f])
Fixed(f)    == LocalPos(f) + Locals[f]

Top == frames[Len(frames)]
Ins == Code[Top.f][Top.pc]

Jump(pc) == [frames EXCEPT ![Len(frames)] = [Top EXCEPT !.pc = pc]]
Advance  == Jump(Top.pc + 1)

Repeat(x, n) == [i \in 1..n |-> x]

(* Operands an operator takes from the stack, and the values it leaves.    *)
Operands(ins) ==
  CASE ins.op \in {"Neg", "Not", "Pop", "Assert"}                      -> 1
    [] ins.op \in {"Arith", "Cmp", "Get", "CreateRange", "AssertMsg"}  -> 2
    [] ins.op = "Slice"                                                -> 3
    [] ins.op \in {"CreateArray", "Print"}                             -> ins.a
    [] ins.op = "CreateTable"                                          -> 2 * ins.a

Operators == {"Neg", "Not", "Pop", "Assert", "Arith", "Cmp", "Get",
              "CreateRange", "AssertMsg", "Slice", "CreateArray", "Print",
              "CreateTable"}

Results(ins) == IF ins.op \in {"Pop", "Print"} THEN {<<>>}
                ELSE IF ins.op = "Get" THEN {<<v>> : v \in Values}
                ELSE {<<Plain>>}

(* Instructions whose operands can have the wrong type or value.           *)
MayRaise == {"Neg", "Not", "Arith", "Cmp", "Get", "CreateRange", "AssertMsg",
             "Assert", "Slice", "CreateTable", "ArithBorrowed", "BorrowIndex",
             "Jt", "Jf", "Jtsc", "Jfsc"}

-----------------------------------------------------------------------------
(* Stack moves.  Nothing in FixedVector checks a bound: growing past the   *)
(* capacity or shrinking below the start is undefined behaviour.           *)

Splice(m, at, new) ==
  [i \in Addr |-> IF i < at THEN m[i]
                  ELSE IF i < at + Len(new) THEN new[i - at + 1]
                  ELSE Dead]

Stop(how) ==
  /\ status' = how
  /\ UNCHANGED <<stack, sp, frames, history, executes>>

(* Mutant: the capacity is off by one.                                     *)
PutPastEnd(m, at, new, fs) ==
  IF at < 0 THEN Stop("underflow")
  ELSE IF at + Len(new) > StackSize + 1 THEN Stop("overflow")
  ELSE /\ stack' = Splice(m, at, new)
       /\ sp' = at + Len(new)
       /\ frames' = fs
       /\ UNCHANGED <<status, history, executes>>

(* Write new at cell "at" of m, end the stack after it, go on with fs.     *)
Put(m, at, new, fs) ==
  IF at < 0 THEN Stop("underflow")
  ELSE IF at + Len(new) > StackSize THEN Stop("overflow")
  ELSE /\ stack' = Splice(m, at, new)
       /\ sp' = at + Len(new)
       /\ frames' = fs
       /\ UNCHANGED <<status, history, executes>>

Replace(n, new, fs) == Put(stack, sp - n, new, fs)

(* errorJmp unwinds to execute, which pops one cell and returns: frame_,   *)
(* call_stack_ and the rest of the stack stay.                             *)
Raise ==
  IF sp = 0 THEN Stop("underflow")
  ELSE /\ stack' = Splice(stack, sp - 1, <<>>)
       /\ sp' = sp - 1
       /\ status' = "idle"
       /\ history' = IF history = "stale" THEN "stale" ELSE "failed"
       /\ UNCHANGED <<frames, executes>>

(* Mutant: the locals are not made room for.                               *)
EnteredWithoutLocals(f, before) == before \o Consts[f]

(* pushFunction_: "before" are the cells it copies in front of constants   *)
(* and locals, "at" the cell they start at.                                *)
Entered(f, before) == before \o Consts[f] \o Repeat(None, Locals[f])

(* Mutant: the frame starts at its captures, not at its parameters.        *)
PushFunctionAtCaptures(f, before, at) ==
  LET bp == at + Len(before) - Caps[f] IN
  IF bp < 0 THEN Stop("underflow")
  ELSE Put(stack, at, Entered(f, before),
           Append(frames, [f |-> f, pc |-> 1, bp |-> bp]))

PushFunction(f, before, at) ==
  LET bp == at + Len(before) - Args[f] - Caps[f] IN
  IF bp < 0 THEN Stop("underflow")
  ELSE Put(stack, at, Entered(f, before),
           Append(frames, [f |-> f, pc |-> 1, bp |-> bp]))

-----------------------------------------------------------------------------
Init ==
  /\ stack = [i \in Addr |-> Dead]
  /\ sp = 0
  /\ frames = <<>>
  /\ status = "idle"
  /\ history = "clean"
  /\ executes = 0

(* The host runs a script.  A frame a failed script left in frame_ is      *)
(* suspended below the new one like any caller.                            *)
Execute(f) ==
  /\ status = "idle"
  /\ executes < MaxExecutes
  /\ history = "clean" \/ ReuseAfterError
  /\ executes' = executes + 1
  /\ history' = IF frames = <<>> THEN history ELSE "stale"
  /\ IF sp + Len(Entered(f, <<>>)) > StackSize
     THEN status' = "overflow" /\ UNCHANGED <<stack, sp, frames>>
     ELSE /\ status' = "running"
          /\ stack' = Splice(stack, sp, Entered(f, <<>>))
          /\ sp' = sp + Len(Entered(f, <<>>))
          /\ frames' = Append(frames, [f |-> f, pc |-> 1, bp |-> sp])

At(op) == status = "running" /\ Ins.op = op

Push == At("Push") /\ Replace(0, <<Plain>>, Advance)

PushVar ==
  /\ At("PushVar")
  /\ IF Top.bp + Ins.a >= sp THEN Stop("badcell")
     ELSE Replace(0, <<stack[Top.bp + Ins.a]>>, Advance)

(* Every operator that replaces its operands by at most one value.         *)
Operate ==
  /\ status = "running"
  /\ Ins.op \in Operators
  /\ \E new \in Results(Ins) : Replace(Operands(Ins), new, Advance)

Fail ==
  /\ status = "running"
  /\ Ins.op \in MayRaise
  /\ Ins.op = "CreateTable" => Ins.a > 0
  /\ Raise

(* Write to a variable of the frame.                                       *)
WriteVar ==
  /\ At("WriteVar")
  /\ IF sp = 0 THEN Stop("underflow")
     ELSE Put([stack EXCEPT ![Top.bp + Ins.a] = stack[sp - 1]],
              sp - 1, <<>>, Advance)

-----------------------------------------------------------------------------
(* Borrowed pointers: to a variable of the frame, or into a container.     *)

BorrowVar ==
  At("BorrowVar") /\ Replace(0, <<BorrowCell(Top.bp + Ins.a)>>, Advance)

Through(target, v) ==
  IF target = InHeap THEN stack ELSE [stack EXCEPT ![target] = v]

BorrowIndex ==
  /\ At("BorrowIndex")
  /\ IF sp < 2 THEN Stop("underflow")
     ELSE IF stack[sp - 2].k # "borrow" THEN Stop("badcell")
     ELSE Replace(2, <<BorrowCell(InHeap)>>, Advance)

WriteBorrowed ==
  /\ status = "running"
  /\ Ins.op \in {"WriteBorrowed", "ArithBorrowed"}
  /\ IF sp < 2 THEN Stop("underflow")
     ELSE IF stack[sp - 2].k # "borrow" THEN Stop("badcell")
     ELSE LET v == IF Ins.op = "WriteBorrowed" THEN stack[sp - 1] ELSE Plain
          IN  Put(Through(stack[sp - 2].n, v), sp - 2, <<>>, Advance)

Move ==
  /\ At("Move")
  /\ IF sp < 1 THEN Stop("underflow")
     ELSE IF stack[sp - 1].k # "borrow" THEN Stop("badcell")
     ELSE LET target == stack[sp - 1].n IN
          \E v \in (IF target = InHeap THEN Values ELSE {stack[target]}) :
             Put(Through(target, Plain), sp - 1, <<v>>, Advance)

-----------------------------------------------------------------------------
(* Jumps.  Operand a is the target.  Jtsc and Jfsc keep the tested value,  *)
(* as a bool, when they jump.                                              *)

Jmp == At("Jmp") /\ Replace(0, <<>>, Jump(Ins.a))

JumpIf ==
  /\ status = "running"
  /\ Ins.op \in {"Jt", "Jf", "Jtsc", "Jfsc"}
  /\ \/ Replace(1, <<>>, Advance)
     \/ Replace(1, IF Ins.op \in {"Jtsc", "Jfsc"} THEN <<Plain>> ELSE <<>>,
                Jump(Ins.a))

(* Operands a and b are the variables of the loop; NextOrJmp reads them    *)
(* back from the instruction in front of it.  What cannot be iterated      *)
(* fails an assert of Iterator or, without asserts, has ended at once.     *)
BeginIter == At("BeginIter") /\ Replace(1, <<Iter>>, Advance)

(* Mutant: the iterator is popped while it goes on.                        *)
NextOrJmpPopping ==
  /\ At("NextOrJmp")
  /\ IF sp < 1 THEN Stop("underflow")
     ELSE IF stack[sp - 1].k # "iter" THEN Stop("badcell")
     ELSE Replace(1, <<>>, Jump(Ins.a)) \/ Replace(1, <<>>, Advance)

NextOrJmp ==
  /\ At("NextOrJmp")
  /\ IF sp < 1 THEN Stop("underflow")
     ELSE IF stack[sp - 1].k # "iter" THEN Stop("badcell")
     ELSE \/ Replace(1, <<>>, Jump(Ins.a))
          \/ LET loop == Code[Top.f][Top.pc - 1] IN
             \E v \in Values :
               Put([stack EXCEPT ![Top.bp + loop.a] = Plain,
                                 ![Top.bp + loop.b] = v],
                   sp, <<>>, Advance)

-----------------------------------------------------------------------------
(* Calls.                                                                  *)

(* Apply binds one argument; the call happens when none is missing.        *)
Apply ==
  /\ At("Apply")
  /\ IF sp < 2 THEN Stop("underflow")
     ELSE LET c == stack[sp - 2] IN
       CASE c.k = "func" /\ Args[c.f] = 0 -> Raise
         [] c.k = "func" /\ Args[c.f] = 1 -> PushFunction(c.f, <<>>, sp)
         [] c.k = "func" /\ Args[c.f] > 1 ->
              Replace(2, <<PartialCell(c.f, Args[c.f] - 1)>>, Advance)
         [] c.k = "partial" /\ c.n = 0 -> Raise
         [] c.k = "partial" /\ c.n = 1 ->
              \E bound \in [1..ConstPos(c.f) -> Values] :
                PushFunction(c.f, bound, sp - 1)
         [] c.k = "partial" /\ c.n > 1 ->
              Replace(2, <<PartialCell(c.f, c.n - 1)>>, Advance)
         [] OTHER -> Raise

(* Mutant: the function stays below the closure made of it.                *)
CreateClosureAbove ==
  /\ At("CreateClosure")
  /\ IF sp < Ins.a + 1 THEN Stop("underflow")
     ELSE LET c == stack[sp - Ins.a - 1] IN
       IF c.k # "func" THEN Stop("badcell")
       ELSE Replace(Ins.a, <<PartialCell(c.f, Args[c.f])>>, Advance)

(* Operand a is the number of captured values above the function.          *)
CreateClosure ==
  /\ At("CreateClosure")
  /\ IF sp < Ins.a + 1 THEN Stop("underflow")
     ELSE LET c == stack[sp - Ins.a - 1] IN
       IF c.k # "func" THEN Stop("badcell")
       ELSE IF Caps[c.f] # Ins.a THEN Stop("badcell")
       ELSE Replace(Ins.a + 1, <<PartialCell(c.f, Args[c.f])>>, Advance)

(* A call of a partial application that has bound arguments permutes them  *)
(* with wrong positions; the model stops there.                            *)
Call ==
  /\ At("Call")
  /\ IF sp < Ins.a + 1 THEN Stop("underflow")
     ELSE LET c == stack[sp - Ins.a - 1] IN
       CASE c.k = "func" /\ Args[c.f] = Ins.a -> PushFunction(c.f, <<>>, sp)
         [] c.k = "partial" /\ c.n = Ins.a ->
              IF Args[c.f] # Ins.a THEN Stop("misbound")
              ELSE \E captured \in [1..Caps[c.f] -> Values] :
                     PushFunction(c.f, captured, sp)
         [] OTHER -> Raise

(* The running function calls itself with its own captures.                *)
Recurse ==
  /\ At("Recurse")
  /\ LET f == Top.f IN
     IF Args[f] # Ins.a THEN Raise
     ELSE PushFunction(f,
            [i \in 1..Caps[f] |-> stack[Top.bp + Ins.a + i - 1]], sp)

(* Mutants: the result goes one cell too low; the last frame leaves its    *)
(* cells behind.                                                           *)
ReturnTooLow ==
  /\ At("Return")
  /\ IF Len(frames) > 1
     THEN LET rest == SubSeq(frames, 1, Len(frames) - 1)
          IN  Put(stack, Top.bp - 2, <<stack[sp - 1]>>,
                  [rest EXCEPT ![Len(rest)].pc = @ + 1])
     ELSE /\ stack' = Splice(stack, 0, <<>>)
          /\ sp' = 0
          /\ frames' = <<>>
          /\ status' = "idle"
          /\ UNCHANGED <<history, executes>>

ReturnLeavingCells ==
  /\ At("Return")
  /\ IF Len(frames) > 1
     THEN LET rest == SubSeq(frames, 1, Len(frames) - 1)
          IN  Put(stack, Top.bp - 1, <<stack[sp - 1]>>,
                  [rest EXCEPT ![Len(rest)].pc = @ + 1])
     ELSE IF sp = 0 THEN Stop("underflow")
     ELSE /\ stack' = Splice(stack, sp - 1, <<>>)
          /\ sp' = sp - 1
          /\ frames' = <<>>
          /\ status' = "idle"
          /\ UNCHANGED <<history, executes>>

(* popFunction_.  The result replaces the callee below the frame, and the  *)
(* frame that is resumed goes on after its instruction.  When the last     *)
(* frame ends, so does execute, and its pop_back removes the result.       *)
Return ==
  /\ At("Return")
  /\ IF Len(frames) > 1
     THEN LET rest   == SubSeq(frames, 1, Len(frames) - 1)
              caller == rest[Len(rest)]
              resumed == [rest EXCEPT ![Len(rest)] =
                            [caller EXCEPT !.pc = caller.pc + 1]]
          IN  IF sp > Top.bp
              THEN Put(stack, Top.bp - 1, <<stack[sp - 1]>>, resumed)
              ELSE Replace(0, <<>>, resumed)
     ELSE IF sp = 0 THEN Stop("underflow")
     ELSE /\ stack' = Splice(stack, 0, <<>>)
          /\ sp' = 0
          /\ frames' = <<>>
          /\ status' = "idle"
          /\ UNCHANGED <<history, executes>>

Next ==
  \/ \E f \in Main : Execute(f)
  \/ Push \/ PushVar \/ Operate \/ Fail \/ WriteVar
  \/ BorrowVar \/ BorrowIndex \/ WriteBorrowed \/ Move
  \/ Jmp \/ JumpIf \/ BeginIter \/ NextOrJmp
  \/ Apply \/ CreateClosure \/ Call \/ Recurse \/ Return

Spec == Init /\ [][Next]_vars
=============================================================================
