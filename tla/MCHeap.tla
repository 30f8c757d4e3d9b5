------------------------------- MODULE MCHeap -------------------------------
(***************************************************************************)
(* Small heaps for ValueHeap.  Nothing orders or names the arrays and      *)
(* tables, nor the variables.                                              *)
(***************************************************************************)
EXTENDS ValueHeap, TLC

First == {Number(0)}
Keys  == {Number(-1), Number(0)}

(* Bound: how deep the stack may be.  Two operands, or three when no table *)
(* is alive or they are those of a write in a loop; all four, for the keys *)
(* and values of two pairs, only while nothing is alive.                   *)
Shallow ==
  \/ Len(stack) <= 2
  \/ Len(stack) = 3 /\ stack[1].k = "iter" /\ stack[2].k = "borrow"
  \/ Len(stack) = 3 /\ \A o \in Obj : ~heap[o].tab
  \/ \A o \in Obj : ~heap[o].live

Interchangeable == Permutations(Obj) \union Permutations(Var)
=============================================================================
