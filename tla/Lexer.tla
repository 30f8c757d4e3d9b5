-------------------------------- MODULE Lexer --------------------------------
(***************************************************************************)
(* Lexer::lex (re2c/lexer.re, which re2c turns into lexer.cpp).            *)
(*                                                                         *)
(* The text is a sequence of symbols: characters, and words (identifiers,  *)
(* keywords and numbers) as a whole, never two of them side by side.  In a *)
(* string a word stands for a one-character word.  Of a string the lexer   *)
(* keeps that it is one; the numeric escapes \x, \u, \U are left out.      *)
(***************************************************************************)
EXTENDS Lexemes

CONSTANT Families   \* a sequence of sets of texts

VARIABLES
  source,     \* the text, mem_
  reader,     \* the next symbol
  token,      \* where the lexeme, string or comment being read began
  mode,       \* which of the three scanners is running, or done
  counter,    \* open block comments
  brackets,   \* br_stack without the '#' at its bottom
  line,
  lineStart

lexerVars == <<source, reader, token, mode, counter, brackets, line, lineStart>>

LineMod == 65536   \* line is a uint16_t

(* What the operators are written as.                                      *)
SignSpelling ==
  [Plus |-> <<"+">>, Minus |-> <<"-">>, Mul |-> <<"*">>, Div |-> <<"/">>, Mod |-> <<"%">>,
   Colon |-> <<":">>, Semicolon |-> <<";">>, Lt |-> <<"<">>, Assign |-> <<"=">>, Gt |-> <<">">>,
   Comma |-> <<",">>]

PairSpelling ==
  [Neq |-> <<"!", "=">>, ModAssign |-> <<"%", "=">>, MulAssign |-> <<"*", "=">>,
   Append |-> <<"+", "+">>, AddAssign |-> <<"+", "=">>, SubAssign |-> <<"-", "=">>,
   DivAssign |-> <<"/", "=">>, BlockComment |-> <<"/", "*">>, LineComment |-> <<"/", "/">>]

LongSpelling ==
  [Insert |-> <<"<", "-">>, Leq |-> <<"<", "=">>, Eq |-> <<"=", "=">>, Geq |-> <<">", "=">>,
   AppendAssign |-> <<"+", "+", "=">>, Cmp |-> <<"<", "=", ">">>]

Spelling ==
  [t \in DOMAIN SignSpelling \union DOMAIN PairSpelling \union DOMAIN LongSpelling |->
     IF t \in DOMAIN SignSpelling THEN SignSpelling[t]
     ELSE IF t \in DOMAIN PairSpelling THEN PairSpelling[t] ELSE LongSpelling[t]]

(* What words are.                                                         *)
Keywords ==
  [null |-> "Null", true |-> "Bool", false |-> "Bool", not |-> "Not", if |-> "If",
   while |-> "While", for |-> "For", do |-> "Do", func |-> "Func", var |-> "Var",
   return |-> "Return", recurse |-> "Recurse", print |-> "Print", assert |-> "Assert",
   in |-> "In", move |-> "Move"]

JoiningWords == [and |-> "And", or |-> "Or", else |-> "Else"]

Numbers == [n1 |-> "Int", n2 |-> "Int", f1 |-> "Float"]

Names == {"a", "b"}

Words == DOMAIN Keywords \union DOMAIN JoiningWords \union DOMAIN Numbers \union Names

Opened == [LParen |-> "(", LBrace |-> "{", LBracket |-> "["]
Closed == [RParen |-> "(", RBrace |-> "{", RBracket |-> "["]
ClosingSymbol == [RParen |-> ")", RBrace |-> "}", RBracket |-> "]"]

Symbols == UNION {{s[i] : i \in DOMAIN s} : s \in {Spelling[t] : t \in DOMAIN Spelling}}
           \union Words \union {"(", ")", "{", "}", "[", "]"}
           \union {"blank", "newline", "quote", "backslash", "invalid"}

ASSUME FamiliesAssumption == \A f \in DOMAIN Families : Families[f] \subseteq Seq(Symbols)

Separated(text) == \A i \in 1..(Len(text) - 1) : text[i] \in Words => text[i + 1] \notin Words

Init ==
  /\ \E f \in DOMAIN Families : source \in Families[f]
  /\ Separated(source)
  /\ reader = 1 /\ token = 1 /\ mode = "code" /\ counter = 0 /\ brackets = <<>>
  /\ line = 1 /\ lineStart = 1
  /\ lexemes = <<Lexeme("Semicolon", NoName, 0, 0)>>
  /\ errors = <<>>

-----------------------------------------------------------------------------
(* What the actions share.                                                 *)

Ended == reader > Len(source)

At(s) == ~Ended /\ source[reader] = s

(* The operator at reader: the longest spelling that fits.                 *)
Fits(t) == LET s == Spelling[t] IN
  reader + Len(s) - 1 <= Len(source) /\ SubSeq(source, reader, reader + Len(s) - 1) = s

Operator == LET fits == {t \in DOMAIN Spelling : Fits(t)} IN
  IF fits = {} THEN "none"
  ELSE CHOOSE t \in fits : \A u \in fits : Len(Spelling[u]) <= Len(Spelling[t])

InCode == mode = "code"

Last1 == lexemes[Len(lexemes)].t

Placed(list, t, x) == Append(list, Lexeme(t, x, line, reader - lineStart))

(* PLACE_LEXEME while another scanner runs: token is where it began.       *)
PlacedAtToken(list, t, l, start) == Append(list, Lexeme(t, NoName, l, token - start))

WithoutNewline == IF Last1 = "Newline" THEN SubSeq(lexemes, 1, Len(lexemes) - 1) ELSE lexemes

(* br_stack.top().                                                         *)
Innermost == IF brackets = <<>> THEN "#" ELSE brackets[Len(brackets)]

InBlock == Innermost \in {"#", "{"}

(* A lexeme of n symbols is placed at the end of list.                     *)
Put(list, t, x, n) ==
  /\ lexemes' = Placed(list, t, x)
  /\ reader' = reader + n /\ token' = reader
  /\ UNCHANGED <<source, mode, counter, line, lineStart>>

Skip(n) ==
  /\ reader' = reader + n /\ token' = reader
  /\ UNCHANGED <<source, mode, counter, brackets, line, lineStart, lexemes, errors>>

-----------------------------------------------------------------------------
(* Outside strings and comments.                                           *)

Blank == InCode /\ At("blank") /\ Skip(1)

NewLine ==
  /\ InCode /\ At("newline")
  /\ lexemes' = IF InBlock /\ Last1 \in StopLexemes THEN Placed(lexemes, "Newline", NoName) ELSE lexemes
  /\ line' = (line + 1) % LineMod
  /\ lineStart' = reader + 1
  /\ reader' = reader + 1 /\ token' = reader
  /\ UNCHANGED <<source, mode, counter, brackets, errors>>

LineComment ==
  /\ InCode /\ Operator = "LineComment"
  /\ \E end \in {end \in reader..(Len(source) + 1) : end <= Len(source) => source[end] = "newline"} :
       /\ \A i \in reader..(end - 1) : source[i] # "newline"
       /\ Skip(end - reader)

BeginComment ==
  /\ InCode /\ Operator = "BlockComment"
  /\ mode' = "comment"
  /\ counter' = 1
  /\ reader' = reader + 2 /\ token' = reader
  /\ UNCHANGED <<source, brackets, line, lineStart, lexemes, errors>>

BeginString ==
  /\ InCode /\ At("quote")
  /\ mode' = "string"
  /\ reader' = reader + 1 /\ token' = reader
  /\ UNCHANGED <<source, counter, brackets, line, lineStart, lexemes, errors>>

PlaceOperator ==
  /\ InCode /\ Operator \notin {"none", "LineComment", "BlockComment"}
  /\ Put(lexemes, Operator, NoName, Len(Spelling[Operator]))
  /\ UNCHANGED <<brackets, errors>>

PlaceNumber ==
  /\ InCode /\ ~Ended /\ source[reader] \in DOMAIN Numbers
  /\ Put(lexemes, Numbers[source[reader]], source[reader], 1)
  /\ UNCHANGED <<brackets, errors>>

PlaceKeyword ==
  /\ InCode /\ ~Ended /\ source[reader] \in DOMAIN Keywords
  /\ Put(lexemes, Keywords[source[reader]], NoName, 1)
  /\ UNCHANGED <<brackets, errors>>

(* Mutant: the Newline before and, or, else stays.                         *)
PlaceJoiningApart ==
  /\ InCode /\ ~Ended /\ source[reader] \in DOMAIN JoiningWords
  /\ Put(lexemes, JoiningWords[source[reader]], NoName, 1)
  /\ UNCHANGED <<brackets, errors>>

(* and, or, else go on with the statement of the line before.              *)
PlaceJoining ==
  /\ InCode /\ ~Ended /\ source[reader] \in DOMAIN JoiningWords
  /\ Put(WithoutNewline, JoiningWords[source[reader]], NoName, 1)
  /\ UNCHANGED <<brackets, errors>>

(* string_table: one String for all occurrences of a name.                 *)
PlaceIdentifier ==
  /\ InCode /\ ~Ended /\ source[reader] \in Names
  /\ Put(lexemes, "Identifier", source[reader], 1)
  /\ UNCHANGED <<brackets, errors>>

Open(t) ==
  /\ InCode /\ At(Opened[t])
  /\ brackets' = Append(brackets, Opened[t])
  /\ Put(lexemes, t, NoName, 1)
  /\ UNCHANGED errors

(* Mutant: br_stack is popped whatever is on it.                           *)
CloseAny(t) ==
  /\ InCode /\ At(ClosingSymbol[t])
  /\ brackets # <<>>
  /\ brackets' = SubSeq(brackets, 1, Len(brackets) - 1)
  /\ Put(IF t = "RBrace" THEN WithoutNewline ELSE lexemes, t, NoName, 1)
  /\ UNCHANGED errors

Close(t) ==
  /\ InCode /\ At(ClosingSymbol[t])
  /\ Innermost = Closed[t]
  /\ brackets' = SubSeq(brackets, 1, Len(brackets) - 1)
  /\ Put(IF t = "RBrace" THEN WithoutNewline ELSE lexemes, t, NoName, 1)
  /\ UNCHANGED errors

Misclose(t) ==
  /\ InCode /\ At(ClosingSymbol[t])
  /\ Innermost # Closed[t]
  /\ errors' = Append(errors, line)
  /\ Put(lexemes, "Error", NoName, 1)
  /\ UNCHANGED brackets

(* A symbol no rule fits, or ! alone; only the first of a run is reported. *)
Invalid ==
  /\ InCode /\ (At("invalid") \/ At("backslash") \/ (At("!") /\ Operator = "none"))
  /\ IF Last1 = "Error" THEN Skip(1)
     ELSE /\ errors' = Append(errors, line)
          /\ Put(lexemes, "Error", NoName, 1)
          /\ UNCHANGED brackets

(* break: whatever is left of the text, this is the end of the lexemes.    *)
Finish(next) ==
  /\ mode' = "done"
  /\ reader' = next
  /\ lexemes' = Append(lexemes, Lexeme("End", NoName, line, next - lineStart))
  /\ UNCHANGED <<source, token, counter, brackets, line, lineStart, errors>>

EndOfText == InCode /\ Ended /\ Finish(reader + 1)

-----------------------------------------------------------------------------
(* In a string.                                                            *)

Escapable == {"newline", "quote", "backslash", "a", "b", "n1", "n2"}

Escaping == reader < Len(source) /\ source[reader + 1] \in Escapable

Read(n) ==
  /\ reader' = reader + n
  /\ UNCHANGED <<source, token, mode, counter, brackets, line, lineStart, lexemes, errors>>

StringChar ==
  /\ mode = "string" /\ ~Ended
  /\ source[reader] \notin {"newline", "quote", "backslash"}
  /\ Read(1)

(* An escaped newline is left out of the string and not counted.           *)
Escape ==
  /\ mode = "string" /\ At("backslash")
  /\ Escaping
  /\ Read(2)

CloseString ==
  /\ mode = "string" /\ At("quote")
  /\ mode' = "code"
  /\ lexemes' = PlacedAtToken(lexemes, "String", line, lineStart)
  /\ reader' = reader + 1
  /\ UNCHANGED <<source, token, counter, brackets, line, lineStart, errors>>

CutString ==
  /\ mode = "string"
  /\ \/ Ended \/ At("newline")
     \/ At("backslash") /\ ~Escaping
  /\ Finish(reader + 1)

-----------------------------------------------------------------------------
(* In block comments, which nest.                                          *)

InComment(t) == mode = "comment" /\ ~Ended /\ t

CommentOpens ==
  /\ InComment(Operator = "BlockComment")
  /\ counter' = counter + 1
  /\ reader' = reader + 2
  /\ UNCHANGED <<source, token, mode, brackets, line, lineStart, lexemes, errors>>

Closing == At("*") /\ reader < Len(source) /\ source[reader + 1] = "/"

(* Mutant: comments do not nest.                                           *)
CommentClosesAll ==
  /\ InComment(Closing)
  /\ counter' = counter - 1
  /\ mode' = "code"
  /\ reader' = reader + 2
  /\ UNCHANGED <<source, token, brackets, line, lineStart, lexemes, errors>>

CommentCloses ==
  /\ InComment(Closing)
  /\ counter' = counter - 1
  /\ mode' = IF counter = 1 THEN "code" ELSE "comment"
  /\ reader' = reader + 2
  /\ UNCHANGED <<source, token, brackets, line, lineStart, lexemes, errors>>

(* Mutant: lines in comments are not counted.                              *)
CommentNewLineUncounted ==
  /\ InComment(At("newline"))
  /\ lineStart' = reader + 1
  /\ lexemes' = IF InBlock /\ Last1 \in StopLexemes
                THEN PlacedAtToken(lexemes, "Newline", line, lineStart') ELSE lexemes
  /\ reader' = reader + 1
  /\ UNCHANGED <<source, token, mode, counter, brackets, line, errors>>

CommentNewLine ==
  /\ InComment(At("newline"))
  /\ line' = (line + 1) % LineMod
  /\ lineStart' = reader + 1
  /\ lexemes' = IF InBlock /\ Last1 \in StopLexemes
                THEN PlacedAtToken(lexemes, "Newline", line', lineStart') ELSE lexemes
  /\ reader' = reader + 1
  /\ UNCHANGED <<source, token, mode, counter, brackets, errors>>

CommentChar ==
  /\ InComment(~At("newline") /\ ~Closing /\ Operator # "BlockComment")
  /\ Read(1)

(* Mutant: the end of the text is a character of the comment.              *)
CutCommentNever == FALSE

CutComment == mode = "comment" /\ Ended /\ Finish(reader + 1)

-----------------------------------------------------------------------------
Lex ==
  \/ Blank \/ NewLine \/ LineComment \/ BeginComment \/ BeginString
  \/ PlaceOperator \/ PlaceNumber \/ PlaceKeyword \/ PlaceJoining \/ PlaceIdentifier
  \/ \E t \in DOMAIN Opened : Open(t)
  \/ \E t \in DOMAIN Closed : Close(t) \/ Misclose(t)
  \/ Invalid \/ EndOfText
  \/ StringChar \/ Escape \/ CloseString \/ CutString
  \/ CommentOpens \/ CommentCloses \/ CommentNewLine \/ CommentChar \/ CutComment
=============================================================================
