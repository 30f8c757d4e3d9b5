------------------------------ MODULE ValueSem ------------------------------
(***************************************************************************)
(* What scripts rely on: an array or a table is a value.  A variable holds *)
(* one, a copy of it is another, and a change of one never shows in the    *)
(* other, however deep ("copy semantics should be deep",                   *)
(* test/mutable_arrays).  There is no heap here, no sharing and no         *)
(* counting: a value is a tree, and a place to write to is a variable and  *)
(* a path into its tree.                                                   *)
(*                                                                         *)
(* ValueHeap, which models what TypedValue does, implements this module.   *)
(***************************************************************************)
EXTENDS Values

CONSTANTS
  Var,      \* the variables of the running frame
  Unnamed,  \* the key of a loop that names none: no script reads it
  Literal,  \* the numbers, and null, a script writes
  MaxLen,   \* bound: elements of an array or a table
  Tables,   \* bound: pairs a table is written with
  MaxStack  \* bound: operands on the stack

VARIABLES
  env,      \* env[v]: the value of variable v
  stack,    \* the operands of the expressions being evaluated
  status    \* ok, or raised when a runtime error ended the script

vars == <<env, stack, status>>

-----------------------------------------------------------------------------
(* Operands: values, places and iterations in progress.                    *)

Place(v, p) == [k |-> "place", v |-> v, p |-> p]
Loop(e, at) == [k |-> "loop", e |-> e, at |-> at]

Operand(i) == stack[Len(stack) - i]     \* 0 is the top
Below(n)   == SubSeq(stack, 1, Len(stack) - n)

Has(n)  == Len(stack) >= n /\ status = "ok"
Value(i) == IsValue(Operand(i))

AtPlace(pl)         == At(env[pl.v], pl.p)
SetPlace(pl, new)   == [env EXCEPT ![pl.v] = With(@, pl.p, new)]
IsPlace(i)          == Operand(i).k = "place" /\ AtPlace(Operand(i)) # Missing

Step(newEnv, newStack) ==
  /\ Len(newStack) <= MaxStack
  /\ env' = newEnv
  /\ stack' = newStack
  /\ UNCHANGED status

Raise == status' = "raised" /\ UNCHANGED <<env, stack>>

-----------------------------------------------------------------------------
Init ==
  /\ env = [v \in Var |-> Null]
  /\ stack = <<>>
  /\ status = "ok"

Push(t) == Has(0) /\ Step(env, Append(stack, t))

PushVar(v) == Has(0) /\ Step(env, Append(stack, env[v]))

Pop == Has(1) /\ Operand(0).k # "loop" /\ Step(env, Below(1))

WriteVar(v) ==
  Has(1) /\ Value(0) /\ Step([env EXCEPT ![v] = Operand(0)], Below(1))

Borrow(v) == Has(0) /\ Step(env, Append(stack, Place(v, <<>>)))

BorrowElement ==
  /\ Has(2) /\ IsPlace(1) /\ Value(0)
  /\ LET pl == Operand(1)
         t  == AtPlace(pl)
     IN  IF Indexed(t, Operand(0)) = Missing THEN Raise
         ELSE Step(env, Append(Below(2),
                Place(pl.v, Append(pl.p, Toward(t, Operand(0).n)))))

(* The key is there from now on, whatever becomes of the assignment.       *)
BorrowInserted ==
  /\ Has(2) /\ IsPlace(1) /\ Value(0)
  /\ LET pl == Operand(1)
         t  == AtPlace(pl)
         i  == Operand(0)
     IN  IF t.k # "tab" \/ i.k # "num" THEN Raise
         ELSE /\ Cardinality(DOMAIN t.e \union {i.n}) <= MaxLen
              /\ Step(SetPlace(pl, Inserted(t, i.n)),
                      Append(Below(2), Place(pl.v, Append(pl.p, i.n))))

WriteBorrowed ==
  /\ Has(2) /\ IsPlace(1) /\ Value(0)
  /\ Step(SetPlace(Operand(1), Operand(0)), Below(2))

AppendBorrowed ==
  /\ Has(2) /\ IsPlace(1) /\ Value(0)
  /\ LET old == AtPlace(Operand(1)) IN
     IF CanJoin(old, Operand(0))
     THEN /\ Len(Joined(old, Operand(0))) <= MaxLen
          /\ Step(SetPlace(Operand(1), Arr(Joined(old, Operand(0)))), Below(2))
     ELSE Raise

Move ==
  /\ Has(1) /\ IsPlace(0)
  /\ Step(SetPlace(Operand(0), Null), Append(Below(1), AtPlace(Operand(0))))

CreateArray(n) ==
  /\ Has(n) /\ \A i \in 0..(n - 1) : Value(i)
  /\ Step(env, Append(Below(n), Arr(SubSeq(stack, Len(stack) - n + 1, Len(stack)))))

CreateTable(n) ==
  /\ Has(2 * n) /\ \A i \in 0..(2 * n - 1) : Value(i)
  /\ LET cells == SubSeq(stack, Len(stack) - 2 * n + 1, Len(stack)) IN
     IF AllKeys(cells) THEN /\ Cardinality(FirstPairs(cells)) <= MaxLen
                            /\ Step(env, Append(Below(2 * n), TableOf(cells)))
     ELSE Raise

Get ==
  /\ Has(2) /\ Value(1) /\ Value(0)
  /\ IF Indexed(Operand(1), Operand(0)) = Missing THEN Raise
     ELSE Step(env, Append(Below(2), Indexed(Operand(1), Operand(0))))

Slice ==
  /\ Has(3) /\ Value(2) /\ Value(1) /\ Value(0)
  /\ IF Operand(2).k = "arr" /\ {Operand(1).k, Operand(0).k} \subseteq {"num", "null"}
     THEN Step(env, Append(Below(3),
            Arr(Sliced(Operand(2).e, Operand(1), Operand(0)))))
     ELSE Raise

AppendOp ==
  /\ Has(2) /\ Value(1) /\ Value(0)
  /\ IF CanJoin(Operand(1), Operand(0))
     THEN /\ Len(Joined(Operand(1), Operand(0))) <= MaxLen
          /\ Step(env, Append(Below(2), Arr(Joined(Operand(1), Operand(0)))))
     ELSE Raise

BeginIter ==
  /\ Has(1) /\ Operand(0).k \in {"arr", "tab"}
  /\ \E e \in Entries(Operand(0)) : Step(env, Append(Below(1), Loop(e, 1)))

(* The loop goes over the array or table it began with, whatever happens   *)
(* to the variable it came from.                                           *)
NextOrJmp(key, v) ==
  /\ Has(1) /\ Operand(0).k = "loop"
  /\ LET l == Operand(0) IN
     IF l.at > Len(l.e) THEN Step(env, Below(1))
     ELSE Step([w \in Var |-> IF w = v THEN l.e[l.at][2]
                              ELSE IF w = key THEN Number(l.e[l.at][1])
                              ELSE env[w]],
               Append(Below(1), Loop(l.e, l.at + 1)))

Next ==
  \/ \E t \in Literal : Push(t)
  \/ \E v \in Var : PushVar(v) \/ WriteVar(v) \/ Borrow(v)
  \/ \E key \in Var \union {Unnamed}, v \in Var : key # v /\ NextOrJmp(key, v)
  \/ Pop \/ BorrowElement \/ BorrowInserted \/ WriteBorrowed \/ AppendBorrowed \/ Move
  \/ \E n \in 0..MaxLen : CreateArray(n)
  \/ \E n \in Tables : CreateTable(n)
  \/ Get \/ Slice \/ AppendOp \/ BeginIter

Spec == Init /\ [][Next]_vars
=============================================================================
