------------------------------- MODULE Lexemes -------------------------------
(***************************************************************************)
(* Lexemes (lexeme.h): what the lexer leaves and the parser reads, and the *)
(* list of them and of the errors that jarl::execute passes along.         *)
(***************************************************************************)
EXTENDS Integers, Sequences

VARIABLES
  lexemes,   \* std::vector<Lexeme>; the first one, a Semicolon, is never parsed
  errors     \* the line each error names

(* LexemeType: the classes are what the parser compares.                   *)
Level(t) ==
  CASE t = "End"                                                    -> 0
    [] t \in {"RParen", "RBrace", "RBracket", "Do"}                 -> 1
    [] t \in {"Semicolon", "Newline"}                               -> 2
    [] t \in {"Else", "Var", "Return", "Print", "Assert"}           -> 3
    [] t = "Comma"                                                  -> 5
    [] t \in {"Assign", "AddAssign", "SubAssign", "MulAssign", "DivAssign", "ModAssign",
              "AppendAssign", "Insert", "Colon"}                    -> 6
    [] t \in {"And", "Or"}                                          -> 7
    [] t \in {"Eq", "Neq", "Gt", "Lt", "Geq", "Leq", "In"}          -> 8
    [] t = "Append"                                                 -> 9
    [] t = "Cmp"                                                    -> 10
    [] t \in {"Plus", "Minus"}                                      -> 11
    [] t \in {"Mul", "Div", "Mod"}                                  -> 12
    [] t \in {"LParen", "LBrace", "LBracket"}                       -> 13
    [] t = "Error"                                                  -> 15
    [] OTHER                                                        -> 14

(* Lexemes a statement may end with.                                       *)
StopLexemes == {"RParen", "RBrace", "RBracket", "Int", "Float", "Bool", "Identifier",
                "String", "Null", "Print", "Assert", "Return"}

(* A lexeme: its type, its name or number, and its line and column.        *)
NoName == ""

Lexeme(t, x, line, col) == [t |-> t, x |-> x, line |-> line, col |-> col]
=============================================================================
