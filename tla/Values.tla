------------------------------- MODULE Values -------------------------------
(***************************************************************************)
(* The values of the language that ValueSem and ValueHeap are about, and   *)
(* what value.cpp computes from them: numbers (Int), null, and arrays and  *)
(* tables as trees.  The keys of tables are numbers: a string is a key by  *)
(* its address, which is as good as a number since equal strings are one   *)
(* object (module Operands).  Where an operator needs no more of a value than the field k and *)
(* a number's n, it serves the cells of ValueHeap as well.                 *)
(***************************************************************************)
EXTENDS Integers, Sequences, FiniteSets

Number(n) == [k |-> "num",  n |-> n, e |-> <<>>]
Null      == [k |-> "null", n |-> 0, e |-> <<>>]
Arr(e)    == [k |-> "arr",  n |-> 0, e |-> e]
Tab(f)    == [k |-> "tab",  n |-> 0, e |-> f]      \* a function of the keys
Missing   == [k |-> "missing", n |-> 0, e |-> <<>>]

IsValue(t) == t.k \in {"num", "null", "arr", "tab"}

(* Index i of an array, counted from 1; negative ones count from the end.  *)
Position(i, length) == IF i < 0 THEN length + i + 1 ELSE i + 1

(* One end of a slice: in 0..length whatever is asked for, null meaning    *)
(* the default.                                                            *)
SliceEnd(t, length, default) ==
  LET i == IF t.k = "null" THEN default
           ELSE IF t.n < 0 THEN length + t.n ELSE t.n
  IN  IF i < 0 THEN 0 ELSE IF i > length THEN length ELSE i

Sliced(e, from, to) ==
  SubSeq(e, SliceEnd(from, Len(e), 0) + 1, SliceEnd(to, Len(e), Len(e)))

Child(t, i) ==
  IF t.k \in {"arr", "tab"} /\ i \in DOMAIN t.e THEN t.e[i] ELSE Missing

(* Where the number n leads in t.                                          *)
Toward(t, n) == IF t.k = "tab" THEN n ELSE Position(n, Len(t.e))

(* The element of t an index or a key names.                               *)
Indexed(t, i) ==
  IF i.k = "num" THEN Child(t, Toward(t, i.n)) ELSE Missing

(* The subtree of t at path p, and t with that subtree replaced.           *)
At(t, p) ==
  LET at[i \in 0..Len(p)] == IF i = 0 THEN t ELSE Child(at[i - 1], p[i])
  IN  at[Len(p)]

With(t, p, new) ==
  LET with[i \in 0..Len(p)] ==
        IF i = Len(p) THEN new
        ELSE [At(t, SubSeq(p, 1, i)) EXCEPT !.e[p[i + 1]] = with[i + 1]]
  IN  with[0]

(* A table of the pairs of the cells at 2i - 1 and 2i: of equal keys the   *)
(* first counts.                                                           *)
Pairs(cells) == 1..(Len(cells) \div 2)
AllKeys(cells) == \A i \in Pairs(cells) : cells[2 * i - 1].k = "num"
FirstPairs(cells) ==
  {i \in Pairs(cells) : \A j \in 1..(i - 1) : cells[2 * j - 1].n # cells[2 * i - 1].n}

TableOf(cells) ==
  Tab([n \in {cells[2 * i - 1].n : i \in Pairs(cells)} |->
         cells[2 * CHOOSE i \in FirstPairs(cells) : cells[2 * i - 1].n = n]])

(* t with key n, which gets null when it is new.                           *)
Inserted(t, n) ==
  Tab([x \in DOMAIN t.e \union {n} |-> IF x \in DOMAIN t.e THEN t.e[x] ELSE Null])

(* The keys and values a loop over t meets: those of an array in order,    *)
(* those of a table in any.                                                *)
Entries(t) ==
  IF t.k = "arr" THEN {[j \in 1..Len(t.e) |-> <<j - 1, t.e[j]>>]}
  ELSE LET D == 1..Cardinality(DOMAIN t.e) IN
       {[j \in D |-> <<s[j], t.e[s[j]]>>] :
          s \in {s \in [D -> DOMAIN t.e] : \A i, j \in D : s[i] = s[j] => i = j}}

(* a ++ b: arrays are joined, a value next to an array is one element.     *)
CanJoin(a, b) == a.k = "arr" \/ b.k = "arr"
Joined(a, b) ==
  LET left == IF a.k = "arr" THEN a.e ELSE <<a>>
      right == IF b.k = "arr" THEN b.e ELSE <<b>>
  IN  left \o right
=============================================================================
