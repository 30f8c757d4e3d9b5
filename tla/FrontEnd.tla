------------------------------ MODULE FrontEnd -------------------------------
(***************************************************************************)
(* jarl::execute (api.cpp) up to the syntax tree: the lexer, the report of *)
(* its errors or the parser, and the report of the parser's errors or the  *)
(* handing on of the tree, which Compile takes up.                         *)
(***************************************************************************)
EXTENDS Lexer, Parser, FiniteSets

VARIABLE stage

vars == <<lexemes, errors, lexerVars, parserVars, stage>>

InitFrontEnd == Init /\ InitParser /\ stage = "lexing"

LexStep == stage = "lexing" /\ Lex /\ UNCHANGED <<parserVars, stage>>

ReportLexer ==
  /\ stage = "lexing" /\ mode = "done" /\ errors # <<>>
  /\ stage' = "reported"
  /\ UNCHANGED <<lexemes, errors, lexerVars, parserVars>>

BeginParse ==
  /\ stage = "lexing" /\ mode = "done" /\ errors = <<>>
  /\ stage' = "parsing"
  /\ UNCHANGED <<lexemes, errors, lexerVars, parserVars>>

ParserStep == stage = "parsing" /\ Parse /\ UNCHANGED <<lexerVars, stage>>

EndParse ==
  /\ stage = "parsing" /\ frames = <<>>
  /\ stage' = IF errors = <<>> THEN "parsed" ELSE "reported"
  /\ UNCHANGED <<lexemes, errors, lexerVars, parserVars>>

Next == LexStep \/ ReportLexer \/ BeginParse \/ ParserStep \/ EndParse

Spec == InitFrontEnd /\ [][Next]_vars

(* One thread runs to the end.                                             *)
FairSpec == Spec /\ WF_vars(Next)

-----------------------------------------------------------------------------
(* Properties.                                                             *)

FrameKinds == {"expr", "loop", "nud", "led", "node", "close", "body"}

TypeOK ==
  /\ reader \in 1..(Len(source) + 2) /\ token \in 1..(Len(source) + 1)
  /\ mode \in {"code", "string", "comment", "done"}
  /\ counter \in Nat
  /\ mode = "comment" <=> (counter # 0 /\ mode # "done")
  /\ \A i \in DOMAIN brackets : brackets[i] \in {"(", "{", "["}
  /\ line \in 0..(LineMod - 1) /\ lineStart \in 1..(Len(source) + 1)
  /\ lcurrent \in Nat /\ \A i \in DOMAIN frames : frames[i].k \in FrameKinds
  /\ stage \in {"lexing", "parsing", "reported", "parsed"}

(* The parser reads no lexeme beyond End: lcurrent_ is a plain iterator.   *)
NeverPastEnd == stage = "parsing" => lcurrent \in 2..Len(lexemes)

(* The brackets open before each lexeme, by the lexemes placed.            *)
NestWith(n, t) ==
  CASE t \in DOMAIN Opened -> Append(n, t)
    [] t \in DOMAIN Closed /\ n # <<>> -> SubSeq(n, 1, Len(n) - 1)
    [] OTHER -> n

Nesting ==
  LET nest[i \in 0..Len(lexemes)] ==
        IF i = 0 THEN <<>> ELSE NestWith(nest[i - 1], lexemes[i].t)
  IN  nest

ClosedBy == [RParen |-> "LParen", RBrace |-> "LBrace", RBracket |-> "LBracket"]

(* A closing bracket closes the bracket opened last among the lexemes the  *)
(* parser gets, and br_stack holds the ones still open.                    *)
BracketsNest ==
  LET nest == Nesting IN
  /\ \A i \in DOMAIN lexemes : lexemes[i].t \in DOMAIN Closed =>
       nest[i - 1] # <<>> /\ nest[i - 1][Len(nest[i - 1])] = ClosedBy[lexemes[i].t]
  /\ brackets = [i \in DOMAIN nest[Len(lexemes)] |-> Opened[nest[Len(lexemes)][i]]]

(* Two lexemes of a block on different lines have a Newline between them   *)
(* just when the first may end a statement and the second does not go on   *)
(* with it; there is no other Newline.                                     *)
NewlinesSeparate ==
  LET nest     == Nesting
      Ends(i)  == lexemes[i].t \in StopLexemes /\ (nest[i] = <<>> \/ nest[i][Len(nest[i])] = "LBrace")
      Joins(i) == lexemes[i].t \in {"And", "Or", "Else", "RBrace"}
  IN
  /\ \A i \in DOMAIN lexemes : lexemes[i].t = "Newline" =>
       Ends(i - 1) /\ (i < Len(lexemes) => ~Joins(i + 1))
  /\ \A i \in 1..(Len(lexemes) - 1) :
       Ends(i) /\ lexemes[i].line # lexemes[i + 1].line =>
         Joins(i + 1) \/ lexemes[i + 1].t = "Newline"

(* Position p of the text is in line l, col symbols after its beginning.   *)
Place(p, l, col) ==
  /\ l = (1 + Cardinality({i \in 1..(p - 1) : source[i] = "newline"})) % LineMod
  /\ p - col \in 1..p
  /\ p - col > 1 => source[p - col - 1] = "newline"
  /\ \A i \in (p - col)..(p - 1) : source[i] # "newline"

ContinuedLine == \E i \in 1..(Len(source) - 1) : source[i] = "backslash" /\ source[i + 1] = "newline"

(* What a lexeme of type t may begin with.                                 *)
Begins(t) ==
  IF t \in DOMAIN Spelling THEN {Spelling[t][1]}
  ELSE IF t \in DOMAIN Opened THEN {Opened[t]}
  ELSE IF t \in DOMAIN Closed THEN {ClosingSymbol[t]}
  ELSE CASE t = "String"     -> {"quote"}
         [] t = "Identifier" -> Names
         [] t = "Error"      -> {"invalid", "backslash", "!", ")", "}", "]"}
         [] OTHER -> {w \in DOMAIN Keywords : Keywords[w] = t}
                     \union {w \in DOMAIN JoiningWords : JoiningWords[w] = t}
                     \union {w \in DOMAIN Numbers : Numbers[w] = t}

(* A lexeme's line and column lead to its first symbol in the text (if no  *)
(* string goes on over a line end, which is not counted), and what is      *)
(* reported are the lines of the Error lexemes.                            *)
PlacesRight ==
  stage = "lexing" /\ ~ContinuedLine =>
    LET Marks(n) == {i \in 1..n : lexemes[i].t = "Error"} IN
    /\ \A i \in 2..Len(lexemes) : lexemes[i].t \notin {"Newline", "End"} =>
         \E p \in DOMAIN source :
           source[p] \in Begins(lexemes[i].t) /\ Place(p, lexemes[i].line, lexemes[i].col)
    /\ Len(errors) = Cardinality(Marks(Len(lexemes)))
    /\ \A i \in Marks(Len(lexemes)) : errors[Cardinality(Marks(i))] = lexemes[i].line

(* A script without errors was read to its end, except that a string that  *)
(* is not closed on its line ends the text, and a stray do the parse.      *)
WholeScript ==
  stage = "parsed" =>
    /\ reader > Len(source) + 1 \/ source[token] = "quote"
    /\ Current.t \in {"End", "Do"}

(* Lexing and parsing come to an end.                                      *)
Terminates == <>(stage \in {"reported", "parsed"})
=============================================================================
