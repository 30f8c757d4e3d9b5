--------------------------------- MODULE Ast ---------------------------------
(***************************************************************************)
(* The nodes of syntax trees (ast.h), which the parser makes and the       *)
(* checker and the code generator read.                                    *)
(***************************************************************************)
EXTENDS Integers, Sequences

(* A node: its type, its name (identifiers, strings and floats), its       *)
(* number (integers) and its children.                                     *)
Node(t, x, v, kids) == [t |-> t, x |-> x, v |-> v, kids |-> kids]

ValueNodes  == {"Null", "Int", "Float", "Bool", "String", "Identifier"}
UnaryNodes  == {"Neg", "Not"}
BinaryNodes == {"Add", "Sub", "Mul", "Div", "Mod", "Append", "Cmp", "Eq", "Neq",
                "Gt", "Lt", "Geq", "Leq", "In", "Apply"}
AssignNodes == {"Assign", "AddAssign", "SubAssign", "MulAssign", "DivAssign",
                "ModAssign", "AppendAssign", "Insert"}
=============================================================================
