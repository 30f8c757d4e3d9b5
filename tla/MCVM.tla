-------------------------------- MODULE MCVM --------------------------------
(***************************************************************************)
(* Scripts of Programs for VMShape, with the operand shape of every        *)
(* position of their code.                                                 *)
(***************************************************************************)
EXTENDS VMShape, Programs, TLC

V0 == <<>>      V1 == Vals(1)   V2 == Vals(2)   V3 == Vals(3)   V4 == Vals(4)

-----------------------------------------------------------------------------
MulShape == <<V0, V1, V2, V1>>

SumShape ==
  <<V0, V1, V2, V1,
    V0, V1, V2, V1, V2, V3, V4, V3, V2, V1,
    V0, V1>>

CallsShape ==
  <<V0, V1,
    V0, <<"mul">>,
    V0, <<"sum">>, <<"sum", "val">>, V1,
    V0, V1, V2, V1, V2, V1,
    V0, V1, V2, V1,
    V0, V1, V2, V3, V1>>

NegShape == <<V0, V1, V1>>

LoopShape ==
  LET it == <<"iter">>
      b  == <<"borrow">>
  IN
  <<V0, V1, V2, V1,
    V0, V1, it,
    it, it \o b, it \o b \o V1,
    it \o b, it \o b \o V1, it \o b \o V2, it \o b \o V1, it,
    V0, V1,
    V0, b, b \o V1, b \o V1 \o b, b \o V2,
    b \o V1, V0,
    V0, V1, V2, V3,
    V1, V2, V1, V2,
    V1, V2, V1, V2>>

-----------------------------------------------------------------------------
(* The program of the passing runs.                                        *)
Functions == {"mul", "sum", "neg", "neg2", "calls", "loop"}
Scripts   == {"calls", "loop"}
CodeOf    == [mul |-> MulCode, sum |-> SumCode, neg |-> NegCode, neg2 |-> NegCode,
              calls |-> CallsCode, loop |-> LoopCode]
ShapeIn   == [mul |-> MulShape, sum |-> SumShape, neg |-> NegShape, neg2 |-> NegShape,
              calls |-> CallsShape, loop |-> LoopShape]
CellsOf   == Cells @@ [neg2 |-> Cells.neg]
ArgsOf    == [f \in Functions |-> CellsOf[f][1]]
CapsOf    == [f \in Functions |-> CellsOf[f][2]]
LocalsOf  == [f \in Functions |-> CellsOf[f][4]]
ConstsOf  == [mul |-> <<>>, sum |-> <<>>, neg |-> <<>>, neg2 |-> <<>>,
              calls |-> <<FuncCell("mul"), FuncCell("sum")>>,
              loop |-> <<FuncCell("neg"), FuncCell("neg2")>>]

ASSUME ProgramWellShaped == WellShaped
=============================================================================
