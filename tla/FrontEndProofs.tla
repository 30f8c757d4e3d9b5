--------------------------- MODULE FrontEndProofs ---------------------------
(***************************************************************************)
(* Proofs about FrontEnd, for every text: the parser's iterator never      *)
(* leaves the lexemes; what the lexer leaves (brackets that nest, Newlines *)
(* that separate statements, lines and columns that lead to the text,      *)
(* errors that name the lines of the Error lexemes); that a script         *)
(* without errors was parsed to its end; and that the tree has the names   *)
(* and literals of the text in its order, the children its nodes are to    *)
(* have, and a hole only where an error was reported, and groups chains    *)
(* of binary operators by their classes.                                   *)
(***************************************************************************)
EXTENDS ParseTrees, SequenceTheorems, FiniteSetTheorems, NaturalsInduction,
        WellFoundedInduction, TLAPS

-----------------------------------------------------------------------------
(* The parser stays within the lexemes.                                    *)

IsList(s) == \E S : s \in Seq(S)

(* What the parser relies on: that the last lexeme is an End.  That the    *)
(* first is a Semicolon, no Newline, keeps it from being taken back.       *)
EndLast ==
  /\ IsList(lexemes) /\ Len(lexemes) \in Nat \ {0}
  /\ lexemes[1].t = "Semicolon"
  /\ mode = "done" => Len(lexemes) >= 2 /\ lexemes[Len(lexemes)].t = "End"

(* expression_ is never called with a binding power as low as that of End, *)
(* do and the closing brackets, led_ never for one of these lexemes, and   *)
(* no bracket closes with an End.                                          *)
FrameOK(f) ==
  /\ f.k \in FrameKinds
  /\ f.k \in {"expr", "loop"} => f.b \in Nat /\ f.b > 16
  /\ f.k \in {"nud", "led"} => Level(f.t) > 1
  /\ f.k = "close" => f.t \in DOMAIN Closer

FramesIn(S, s) == s \in Seq(S) /\ \A f \in S : FrameOK(f)
FramesOK(s)    == \E S : FramesIn(S, s)

IInv ==
  /\ EndLast
  /\ lcurrent \in Nat /\ FramesOK(frames)
  /\ stage = "lexing" => lcurrent = 2
  /\ stage = "parsing" => mode = "done" /\ lcurrent \in 2..Len(lexemes)

-----------------------------------------------------------------------------
(* Lists.                                                                  *)

(* push_back of a lexeme.                                                  *)
LEMMA AppendList ==
  ASSUME NEW s, IsList(s), NEW e
  PROVE  /\ IsList(Append(s, e))
         /\ Len(s) \in Nat
         /\ Len(Append(s, e)) = Len(s) + 1
         /\ Append(s, e)[Len(s) + 1] = e
         /\ \A i \in 1..Len(s) : Append(s, e)[i] = s[i]
<1>1. PICK S : s \in Seq(S)
  BY DEF IsList
<1>2. s \in Seq(S \union {e})
  BY <1>1, SeqMonotonic
<1>3. Append(s, e) \in Seq(S \union {e})
  BY <1>2
<1> QED
  BY <1>2, <1>3 DEF IsList

(* pop_back of a lexeme.                                                   *)
LEMMA ShortenList ==
  ASSUME NEW s, IsList(s), Len(s) >= 2
  PROVE  /\ IsList(SubSeq(s, 1, Len(s) - 1))
         /\ Len(SubSeq(s, 1, Len(s) - 1)) = Len(s) - 1
         /\ SubSeq(s, 1, Len(s) - 1)[1] = s[1]
<1>1. PICK S : s \in Seq(S)
  BY DEF IsList
<1>2. Len(s) \in Nat /\ \A i \in 1..(Len(s) - 1) : s[i] \in S
  BY <1>1, ElementOfSeq, LenProperties
<1>3. /\ SubSeq(s, 1, Len(s) - 1) \in Seq(S)
      /\ Len(SubSeq(s, 1, Len(s) - 1)) = Len(s) - 1
      /\ \A i \in 1..(Len(s) - 1) : SubSeq(s, 1, Len(s) - 1)[i] = s[i]
  BY <1>2, SubSeqProperties
<1> QED
  BY <1>2, <1>3 DEF IsList

(* A list of frames that are as they should be.                            *)
LEMMA FrameLists ==
  /\ FramesOK(<<>>)
  /\ \A f : FrameOK(f) => FramesOK(<<f>>)
  /\ \A f, g : FrameOK(f) /\ FrameOK(g) => FramesOK(<<f, g>>)
<1>1. FramesOK(<<>>)
  <2>1. FramesIn({}, <<>>)
    BY EmptySeq DEF FramesIn
  <2> QED
    BY <2>1 DEF FramesOK
<1>2. ASSUME NEW f, FrameOK(f) PROVE FramesOK(<<f>>)
  <2>1. FramesIn({f}, <<f>>)
    BY <1>2 DEF FramesIn
  <2> QED
    BY <2>1 DEF FramesOK
<1>3. ASSUME NEW f, NEW g, FrameOK(f), FrameOK(g) PROVE FramesOK(<<f, g>>)
  <2>1. FramesIn({f, g}, <<f, g>>)
    BY <1>3 DEF FramesIn
  <2> QED
    BY <2>1 DEF FramesOK
<1> QED
  BY <1>1, <1>2, <1>3

LEMMA FramesConcat ==
  ASSUME NEW s, NEW t, FramesOK(s), FramesOK(t)
  PROVE  FramesOK(s \o t)
<1>1. PICK S : FramesIn(S, s)
  BY DEF FramesOK
<1>2. PICK T : FramesIn(T, t)
  BY DEF FramesOK
<1>3. s \in Seq(S \union T) /\ t \in Seq(S \union T)
  BY <1>1, <1>2, SeqMonotonic DEF FramesIn
<1>4. s \o t \in Seq(S \union T)
  BY <1>3, ConcatProperties
<1>5. FramesIn(S \union T, s \o t)
  BY <1>1, <1>2, <1>4 DEF FramesIn
<1> QED
  BY <1>5 DEF FramesOK

LEMMA FramesTail ==
  ASSUME NEW s, FramesOK(s), s # <<>>
  PROVE  FramesOK(Tail(s)) /\ FrameOK(s[1])
<1>1. PICK S : FramesIn(S, s)
  BY DEF FramesOK
<1>2. Tail(s) \in Seq(S) /\ Len(s) \in Nat \ {0}
  BY <1>1, HeadTailProperties, EmptySeq DEF FramesIn
<1>3. s[1] \in S
  BY <1>1, <1>2, ElementOfSeq DEF FramesIn
<1>4. FramesIn(S, Tail(s))
  BY <1>1, <1>2 DEF FramesIn
<1> QED
  BY <1>1, <1>3, <1>4 DEF FramesOK, FramesIn

(* Binding powers.                                                         *)
LEMMA LevelNat == \A t : Level(t) \in Nat /\ (Level(t) = 0 <=> t = "End")
BY DEF Level

LEMMA BindpNat == \A t : Bindp(t) \in Nat /\ (Bindp(t) <= 16 <=> Level(t) <= 1)
<1> SUFFICES ASSUME NEW t PROVE Bindp(t) \in Nat /\ (Bindp(t) <= 16 <=> Level(t) <= 1)
  OBVIOUS
<1> Level(t) \in Nat
  BY LevelNat
<1> QED
  BY DEF Bindp

LEMMA PrefixBindpAbove == \A t : PrefixBindp(t) \in Nat /\ PrefixBindp(t) > 16
<1> SUFFICES ASSUME NEW t PROVE PrefixBindp(t) \in Nat /\ PrefixBindp(t) > 16
  OBVIOUS
<1>1. t \in {"Semicolon", "Newline", "Comma", "Colon"} => Level(t) >= 2 /\ Level(t) \in Nat
  BY DEF Level
<1>2. t \in {"Semicolon", "Newline", "Comma", "Colon"} => Bindp(t) + 1 \in Nat /\ Bindp(t) + 1 > 16
  BY <1>1 DEF Bindp
<1> QED
  BY <1>2 DEF PrefixBindp, DefExprBindp

LEMMA InfixBindpAbove == \A t : Level(t) > 1 => InfixBindp(t) \in Nat /\ InfixBindp(t) > 16
<1> SUFFICES ASSUME NEW t, Level(t) > 1 PROVE InfixBindp(t) \in Nat /\ InfixBindp(t) > 16
  OBVIOUS
<1> Level(t) \in Nat
  BY LevelNat
<1> QED
  BY DEF InfixBindp, Bindp

-----------------------------------------------------------------------------
(* The lexer.                                                              *)

(* A lexeme is placed at the end of the list, or of the list without the   *)
(* Newline at its end.                                                     *)
Places(e) == lexemes' = Append(lexemes, e) \/ lexemes' = Append(WithoutNewline, e)

LEMMA PlacedKeeps ==
  ASSUME EndLast, lexemes' = lexemes \/ (\E e : Places(e)), mode' # "done"
  PROVE  EndLast'
<1>1. CASE lexemes' = lexemes
  BY <1>1 DEF EndLast
<1>2. ASSUME NEW s, IsList(s), Len(s) \in Nat \ {0}, s[1].t = "Semicolon",
             NEW e, lexemes' = Append(s, e)
      PROVE  EndLast'
  <2>1. /\ IsList(lexemes') /\ Len(lexemes') = Len(s) + 1
        /\ \A i \in 1..Len(s) : lexemes'[i] = s[i]
    BY <1>2, AppendList
  <2>2. lexemes'[1].t = "Semicolon"
    BY <1>2, <2>1
  <2> QED
    BY <1>2, <2>1, <2>2 DEF EndLast
<1>3. /\ IsList(WithoutNewline) /\ Len(WithoutNewline) \in Nat \ {0}
      /\ WithoutNewline[1].t = "Semicolon"
  <2>1. CASE Last1 = "Newline"
    <3>1. Len(lexemes) >= 2
      BY <2>1 DEF EndLast, Last1
    <3>2. WithoutNewline = SubSeq(lexemes, 1, Len(lexemes) - 1)
      BY <2>1 DEF WithoutNewline
    <3>3. /\ IsList(WithoutNewline) /\ Len(WithoutNewline) = Len(lexemes) - 1
          /\ WithoutNewline[1] = lexemes[1]
      BY <3>1, <3>2, ShortenList DEF EndLast
    <3> QED
      BY <3>1, <3>3 DEF EndLast
  <2>2. CASE Last1 # "Newline"
    BY <2>2 DEF EndLast, WithoutNewline
  <2> QED
    BY <2>1, <2>2
<1>4. ASSUME NEW e, Places(e) PROVE EndLast'
  BY <1>2, <1>3, <1>4 DEF Places, EndLast
<1> QED
  BY <1>1, <1>4

LEMMA FinishKeeps ==
  ASSUME EndLast, NEW next, Finish(next)
  PROVE  EndLast'
<1> DEFINE e == Lexeme("End", NoName, line, next - lineStart)
<1>1. lexemes' = Append(lexemes, e) /\ e.t = "End"
  BY DEF Finish, Lexeme
<1> HIDE DEF e
<1>2. /\ IsList(lexemes') /\ Len(lexemes') = Len(lexemes) + 1
      /\ lexemes'[Len(lexemes) + 1] = e
      /\ \A i \in 1..Len(lexemes) : lexemes'[i] = lexemes[i]
  BY <1>1, AppendList DEF EndLast
<1>3. lexemes'[1].t = "Semicolon"
  BY <1>2 DEF EndLast
<1>4. Len(lexemes') >= 2 /\ lexemes'[Len(lexemes')].t = "End"
  BY <1>1, <1>2 DEF EndLast
<1> QED
  BY <1>2, <1>3, <1>4 DEF EndLast

(* The lexer only ever adds, and adds an End when it is done.              *)
LEMMA LexKeeps ==
  ASSUME EndLast, Lex
  PROVE  EndLast'
<1> USE DEF InCode
<1> DEFINE New(t, x) == Lexeme(t, x, line, reader - lineStart)
<1>1. CASE Blank \/ LineComment
  BY <1>1, PlacedKeeps DEF Blank, LineComment, Skip
<1>2. CASE NewLine
  <2>1. lexemes' \in {lexemes, Append(lexemes, New("Newline", NoName))} /\ mode' = "code"
    BY <1>2 DEF NewLine, Placed
  <2> QED
    BY <2>1, PlacedKeeps DEF Places
<1>3. CASE BeginComment \/ BeginString
  BY <1>3, PlacedKeeps DEF BeginComment, BeginString
<1>4. ASSUME NEW list \in {lexemes, WithoutNewline}, NEW t, NEW x, NEW n, InCode, Put(list, t, x, n)
      PROVE  EndLast'
  <2>1. lexemes' = Append(list, New(t, x)) /\ mode' = "code"
    BY <1>4 DEF Put, Placed
  <2>2. Places(New(t, x))
    BY <2>1 DEF Places
  <2> QED
    BY <2>1, <2>2, PlacedKeeps
<1>5. CASE PlaceOperator \/ PlaceNumber \/ PlaceKeyword \/ PlaceIdentifier
  BY <1>5, <1>4 DEF PlaceOperator, PlaceNumber, PlaceKeyword, PlaceIdentifier
<1>6. CASE PlaceJoining
  BY <1>6, <1>4 DEF PlaceJoining
<1>7. CASE \E t \in DOMAIN Opened : Open(t)
  BY <1>7, <1>4 DEF Open
<1>8. CASE \E t \in DOMAIN Closed : Close(t) \/ Misclose(t)
  BY <1>8, <1>4 DEF Close, Misclose
<1>9. CASE Invalid
  <2>1. CASE Last1 = "Error"
    BY <1>9, <2>1, PlacedKeeps DEF Invalid, Skip
  <2>2. CASE Last1 # "Error"
    BY <1>9, <2>2, <1>4 DEF Invalid
  <2> QED
    BY <2>1, <2>2
<1>10. CASE EndOfText \/ CutString \/ CutComment
  BY <1>10, FinishKeeps DEF EndOfText, CutString, CutComment
<1>11. CASE StringChar \/ Escape \/ CommentChar
  BY <1>11, PlacedKeeps DEF StringChar, Escape, CommentChar, InComment, Read
<1>12. ASSUME NEW t, NEW l, NEW start, mode' # "done",
              lexemes' \in {lexemes, PlacedAtToken(lexemes, t, l, start)}
       PROVE  EndLast'
  <2>1. lexemes' \in {lexemes, Append(lexemes, Lexeme(t, NoName, l, token - start))}
    BY <1>12 DEF PlacedAtToken
  <2> QED
    BY <1>12, <2>1, PlacedKeeps DEF Places
<1>13. CASE CloseString
  BY <1>13, <1>12 DEF CloseString
<1>14. CASE CommentOpens \/ CommentCloses
  BY <1>14, PlacedKeeps DEF CommentOpens, CommentCloses, InComment
<1>15. CASE CommentNewLine
  BY <1>15, <1>12 DEF CommentNewLine, InComment
<1> QED
  BY <1>1, <1>2, <1>3, <1>5, <1>6, <1>7, <1>8, <1>9, <1>10, <1>11, <1>13, <1>14, <1>15 DEF Lex

-----------------------------------------------------------------------------
(* The parser.                                                             *)

(* next_ of a lexeme that is no End.                                       *)
LEMMA NextStays ==
  ASSUME EndLast, mode = "done", lcurrent \in 2..Len(lexemes), Current.t # "End", Next_
  PROVE  lcurrent' \in 2..Len(lexemes)
BY DEF EndLast, Current, Next_

LEMMA CallsKeep ==
  ASSUME FramesOK(frames), frames # <<>>, NEW new, FramesOK(new), Calls(new)
  PROVE  FramesOK(frames')
BY FramesTail, FramesConcat DEF Calls, Callers

LEMMA ReturnKeeps ==
  ASSUME FramesOK(frames), frames # <<>>, NEW n, Return(n)
  PROVE  FramesOK(frames')
BY FramesTail DEF Return, Callers

(* Each call of the parser moves on only from a lexeme that is no End, and *)
(* the calls it makes will do so too.                                      *)
LEMMA ParseKeeps ==
  ASSUME EndLast, mode = "done", lcurrent \in 2..Len(lexemes), FramesOK(frames), ParseStep
  PROVE  lcurrent' \in 2..Len(lexemes) /\ FramesOK(frames')
<1>0. frames # <<>> => FrameOK(Top)
  BY FramesTail DEF Top
<1> USE FrameLists
<1>1. CASE EmptyExpression \/ EndExpression \/ Literal
  BY <1>1, ReturnKeeps DEF EmptyExpression, EndExpression, Literal, Running, Returned, Stay
<1>2. CASE BeginExpression
  <2>0. Top.b \in Nat /\ Top.b > 16 /\ Top.b <= Bindp(Current.t)
    BY <1>0, <1>2 DEF BeginExpression, Running, FrameOK
  <2>1. Level(Current.t) > 1 /\ Current.t # "End"
    BY <2>0, BindpNat, LevelNat
  <2>2. FrameOK(Nud(Current.t, Current.x)) /\ FrameOK(Loop(Top.b))
    BY <2>0, <2>1 DEF FrameOK, Nud, Loop, Frame, FrameKinds
  <2> QED
    BY <1>2, <2>1, <2>2, NextStays, CallsKeep DEF BeginExpression, Running
<1>3. CASE ExtendExpression
  <2>0. Top.b \in Nat /\ Top.b > 16 /\ Top.b < Bindp(Current.t)
    BY <1>0, <1>3 DEF ExtendExpression, Returned, FrameOK
  <2>1. Level(Current.t) > 1 /\ Current.t # "End"
    BY <2>0, BindpNat, LevelNat
  <2>2. FrameOK(Led(Current.t, Current.x, ret))
    BY <2>1, LevelNat DEF FrameOK, Led, Frame, FrameKinds
  <2>3. FrameOK(Top)
    BY <1>0, <1>3 DEF ExtendExpression, Returned
  <2> QED
    BY <1>3, <2>1, <2>2, <2>3, NextStays, CallsKeep DEF ExtendExpression, Returned
<1>4. CASE Prefix
  <2> DEFINE t    == Top.t
             made == IF t = "Plus" THEN <<>>
                     ELSE IF t = "Minus" THEN <<Wait("node", "Neg", <<>>)>>
                     ELSE IF t \in DOMAIN Infix THEN <<Wait("node", Infix[t], <<Nop>>)>>
                     ELSE <<Wait("node", t, <<>>)>>
  <2>1. Calls(<<Expr(PrefixBindp(t))>> \o made) /\ Stay /\ frames # <<>>
    BY <1>4 DEF Prefix, Running
  <2>2. \A x, s : FrameOK(Wait("node", x, s))
    BY DEF FrameOK, Wait, Frame, FrameKinds
  <2>3. FramesOK(made)
    BY <2>2
  <2>4. FrameOK(Expr(PrefixBindp(t)))
    BY PrefixBindpAbove DEF FrameOK, Expr, Frame, FrameKinds
  <2>5. FramesOK(<<Expr(PrefixBindp(t))>> \o made)
    BY <2>3, <2>4, FramesConcat
  <2> HIDE DEF made
  <2> QED
    BY <2>1, <2>5, CallsKeep DEF Stay
<1>5. CASE Condition
  <2>1. FrameOK(Expr(DefBlockBindp)) /\ FrameOK(Wait("body", Top.t, <<>>))
    BY DEF FrameOK, Expr, Wait, Frame, DefBlockBindp, FrameKinds
  <2> QED
    BY <1>5, <2>1, CallsKeep DEF Condition, Running, Stay
<1>6. \A s : \A x \in DOMAIN Closer : FrameOK(Wait("close", x, s))
  BY DEF FrameOK, Wait, Frame, FrameKinds
<1>7. FrameOK(Expr(DefExprBindp)) /\ FrameOK(Expr(DefBlockBindp)) /\ FrameOK(Expr(DefStatementBindp))
  BY DEF FrameOK, Expr, Frame, FrameKinds, DefExprBindp, DefBlockBindp, DefStatementBindp
<1>8. DOMAIN Closer = {"Paren", "CodeBlock", "Array", "Index", "Call", "Function", "Recurse"}
  BY DEF Closer
<1>9. CASE Opening
  BY <1>9, <1>6, <1>7, <1>8, CallsKeep DEF Opening, Running, Stay, Openings
<1>10. CASE Parameters
  BY <1>10, <1>6, <1>7, <1>8, CallsKeep, NextStays DEF Parameters, Running
<1>11. CASE NoParameters \/ NoExpression
  BY <1>11, ReturnKeeps DEF NoParameters, NoExpression, Running, Fail, Stay
<1>12. CASE IndexOrCall
  BY <1>12, <1>6, <1>7, <1>8, CallsKeep DEF IndexOrCall, Running, Stay
<1>13. \A x, s : FrameOK(Wait("node", x, s))
  BY DEF FrameOK, Wait, Frame, FrameKinds
<1>14. CASE Apply
  <2>1. FrameOK(Nud(Top.t, Top.x))
    BY <1>0, <1>14 DEF Apply, Running, FrameOK, Nud, Frame, FrameKinds
  <2> QED
    BY <1>14, <1>13, <2>1, CallsKeep DEF Apply, Running, Stay
<1>15. CASE InfixOperator
  <2>1. Level(Top.t) > 1
    BY <1>0, <1>15 DEF InfixOperator, Running, FrameOK
  <2>2. FrameOK(Expr(InfixBindp(Top.t)))
    BY <2>1, InfixBindpAbove DEF FrameOK, Expr, Frame, FrameKinds
  <2> QED
    BY <1>15, <1>13, <2>2, CallsKeep DEF InfixOperator, Running, Stay
<1>16. CASE BuildNode \/ UnexpectedLexeme
  BY <1>16, ReturnKeeps DEF BuildNode, UnexpectedLexeme, Returned, Stay, Fail
<1>17. CASE CloseBracket
  <2>1. Top.t \in DOMAIN Closer /\ frames # <<>>
    BY <1>0, <1>17 DEF CloseBracket, Returned, FrameOK
  <2>2. Current.t # "End"
    <3>1. Closer[Top.t] \in {"RParen", "RBrace", "RBracket"}
      BY <2>1 DEF Closer
    <3> QED
      BY <1>17, <3>1 DEF CloseBracket
  <2>3. lcurrent' \in 2..Len(lexemes)
    BY <1>17, <2>2, NextStays DEF CloseBracket
  <2>4. FramesOK(frames')
    BY <1>17, <2>1, <1>7, <1>13, CallsKeep, ReturnKeeps DEF CloseBracket
  <2> QED
    BY <2>3, <2>4
<1>18. CASE NotClosed
  BY <1>18, ReturnKeeps DEF NotClosed, Returned, Stay, Fail
<1>19. CASE BeginBody
  BY <1>19, <1>7, <1>13, CallsKeep, NextStays DEF BeginBody, Returned
<1>20. CASE NoBody
  BY <1>20, ReturnKeeps DEF NoBody, Returned, Stay, Fail
<1> QED
  BY <1>1, <1>2, <1>3, <1>4, <1>5, <1>9, <1>10, <1>11, <1>12, <1>14, <1>15, <1>16, <1>17,
     <1>18, <1>19, <1>20 DEF ParseStep

-----------------------------------------------------------------------------
(* The parser never reads past the End.                                    *)

LEMMA InitIInv == InitFrontEnd => IInv
<1> SUFFICES ASSUME InitFrontEnd PROVE IInv
  OBVIOUS
<1>1. lexemes = <<Lexeme("Semicolon", NoName, 0, 0)>> /\ mode = "code" /\ stage = "lexing"
  BY DEF InitFrontEnd, Init
<1>2. \A e : <<e>> \in Seq({e}) /\ Len(<<e>>) = 1 /\ <<e>>[1] = e
  OBVIOUS
<1>3. EndLast
  <2>1. IsList(lexemes) /\ Len(lexemes) = 1
    BY <1>1, <1>2 DEF IsList
  <2>2. lexemes[1].t = "Semicolon"
    BY <1>1, <1>2 DEF Lexeme
  <2> QED
    BY <1>1, <2>1, <2>2 DEF EndLast
<1>4. FrameOK(Expr(DefBlockBindp))
  BY DEF FrameOK, Expr, Frame, FrameKinds, DefBlockBindp
<1>5. lcurrent = 2 /\ FramesOK(frames)
  BY <1>4, FrameLists DEF InitFrontEnd, InitParser
<1> QED
  BY <1>1, <1>3, <1>5 DEF IInv

LEMMA NextIInv == IInv /\ [Next]_vars => IInv'
<1> SUFFICES ASSUME IInv, [Next]_vars PROVE IInv'
  OBVIOUS
<1>1. CASE LexStep
  BY <1>1, LexKeeps DEF LexStep, IInv, parserVars
<1>2. CASE ReportLexer
  BY <1>2 DEF ReportLexer, IInv, EndLast, lexerVars, parserVars
<1>3. CASE BeginParse
  BY <1>3 DEF BeginParse, IInv, EndLast, lexerVars, parserVars
<1>4. CASE ParserStep
  <2>1. lcurrent' \in 2..Len(lexemes) /\ FramesOK(frames')
    BY <1>4, ParseKeeps DEF ParserStep, Parse, IInv
  <2> QED
    BY <1>4, <2>1 DEF ParserStep, Parse, IInv, EndLast, lexerVars
<1>5. CASE EndParse
  BY <1>5 DEF EndParse, IInv, EndLast, lexerVars, parserVars
<1>6. CASE UNCHANGED vars
  BY <1>6 DEF vars, IInv, EndLast, lexerVars, parserVars
<1> QED
  BY <1>1, <1>2, <1>3, <1>4, <1>5, <1>6 DEF Next

(* For every text, the parser reads no lexeme beyond the End (parser.cpp's *)
(* lcurrent_ is never compared with the end of the vector).                *)
THEOREM NeverReadsPastEnd == Spec => []NeverPastEnd
<1>1. IInv => NeverPastEnd
  BY DEF IInv, NeverPastEnd
<1> QED
  BY <1>1, InitIInv, NextIInv, PTL DEF Spec

-----------------------------------------------------------------------------
(* What the lexer leaves.                                                  *)

(* What br_stack holds.                                                    *)
Brackets == {"(", "{", "["}

(* The scanners stay within the text, of L symbols, and know where they    *)
(* began.                                                                  *)
Within(L) ==
  /\ mode \in {"code", "string", "comment", "done"}
  /\ reader \in 1..(L + 2) /\ token \in 1..(L + 1)
  /\ mode # "done" => reader <= L + 1
  /\ counter \in Nat /\ (mode \in {"code", "string"} => counter = 0)
  /\ mode = "comment" => counter # 0
  /\ brackets \in Seq(Brackets)
  /\ line \in 0..(LineMod - 1) /\ lineStart \in 1..(L + 1)
  /\ mode = "string" => source[token] = "quote" /\ token < reader
  /\ mode = "done" => reader > L + 1 \/ source[token] = "quote"

Scanning == source \in Seq(Symbols) /\ Within(Len(source))

LEMMA Sized == Scanning => \E L \in Nat : L = Len(source) /\ Within(L)
<1> SUFFICES ASSUME Scanning PROVE \E L \in Nat : L = Len(source) /\ Within(L)
  OBVIOUS
<1>1. Len(source) \in Nat
  BY DEF Scanning
<1> QED
  BY <1>1 DEF Scanning

-----------------------------------------------------------------------------
(* Operators.                                                              *)

Signs == {"+", "-", "*", "/", "%", ":", ";", "<", "=", ">", ",", "!"}

LEMMA Spellings ==
  \A t \in DOMAIN Spelling :
    Len(Spelling[t]) \in 1..3 /\ \A i \in 1..Len(Spelling[t]) : Spelling[t][i] \in Signs
<1> DEFINE Good(s) == Len(s) \in 1..3 /\ \A i \in 1..Len(s) : s[i] \in Signs
<1>1. \A a \in Signs : Good(<<a>>)
  <2>1. \A a : Len(<<a>>) = 1 /\ <<a>>[1] = a
    OBVIOUS
  <2> QED
    BY <2>1
<1>2. \A a, b \in Signs : Good(<<a, b>>)
  OBVIOUS
<1>3. \A a, b, c \in Signs : Good(<<a, b, c>>)
  OBVIOUS
<1> HIDE DEF Good
<1>4. \A t \in DOMAIN SignSpelling : Good(SignSpelling[t])
  <2> DEFINE S == {<<"+">>, <<"-">>, <<"*">>, <<"/">>, <<"%">>, <<":">>, <<";">>, <<"<">>, <<"=">>,
                   <<">">>, <<",">>}
  <2>1. \A t \in DOMAIN SignSpelling : SignSpelling[t] \in S
    <3>1. DOMAIN SignSpelling = {"Plus", "Minus", "Mul", "Div", "Mod", "Colon", "Semicolon", "Lt",
                                 "Assign", "Gt", "Comma"}
      BY DEF SignSpelling
    <3>2. SignSpelling.Plus \in S /\ SignSpelling.Minus \in S /\ SignSpelling.Mul \in S
      BY DEF SignSpelling
    <3>3. SignSpelling.Div \in S /\ SignSpelling.Mod \in S /\ SignSpelling.Colon \in S
      BY DEF SignSpelling
    <3>4. SignSpelling.Semicolon \in S /\ SignSpelling.Lt \in S /\ SignSpelling.Assign \in S
      BY DEF SignSpelling
    <3>5. SignSpelling.Gt \in S /\ SignSpelling.Comma \in S
      BY DEF SignSpelling
    <3> HIDE DEF S
    <3> QED
      BY <3>1, <3>2, <3>3, <3>4, <3>5
  <2>2. \A s \in S : Good(s)
    BY <1>1 DEF Signs
  <2> HIDE DEF S
  <2> QED
    BY <2>1, <2>2
<1>5. \A t \in DOMAIN PairSpelling : Good(PairSpelling[t])
  <2> DEFINE S == {<<"!", "=">>, <<"%", "=">>, <<"*", "=">>, <<"+", "+">>, <<"+", "=">>, <<"-", "=">>,
                   <<"/", "=">>, <<"/", "*">>, <<"/", "/">>}
  <2>1. \A t \in DOMAIN PairSpelling : PairSpelling[t] \in S
    BY DEF PairSpelling
  <2>2. \A s \in S : Good(s)
    BY <1>2 DEF Signs
  <2> HIDE DEF S
  <2> QED
    BY <2>1, <2>2
<1>6. \A t \in DOMAIN LongSpelling : Good(LongSpelling[t])
  <2> DEFINE S == {<<"<", "-">>, <<"<", "=">>, <<"=", "=">>, <<">", "=">>, <<"+", "+", "=">>, <<"<", "=", ">">>}
  <2>1. \A t \in DOMAIN LongSpelling : LongSpelling[t] \in S
    BY DEF LongSpelling
  <2>2. \A s \in S : Good(s)
    BY <1>2, <1>3 DEF Signs
  <2> HIDE DEF S
  <2> QED
    BY <2>1, <2>2
<1>7. \A t \in DOMAIN Spelling : Good(Spelling[t])
  <2> SUFFICES ASSUME NEW t \in DOMAIN Spelling PROVE Good(Spelling[t])
    OBVIOUS
  <2>1. /\ DOMAIN Spelling = DOMAIN SignSpelling \union DOMAIN PairSpelling \union DOMAIN LongSpelling
        /\ Spelling[t] = IF t \in DOMAIN SignSpelling THEN SignSpelling[t]
                         ELSE IF t \in DOMAIN PairSpelling THEN PairSpelling[t] ELSE LongSpelling[t]
    BY DEF Spelling
  <2> QED
    BY <1>4, <1>5, <1>6, <2>1
<1> QED
  BY <1>7 DEF Good

(* There is a longest operator among those that fit.                       *)
LEMMA OperatorFits ==
  ASSUME Operator # "none"
  PROVE  Operator \in DOMAIN Spelling /\ Fits(Operator)
<1> DEFINE fits == {t \in DOMAIN Spelling : Fits(t)}
           Longest(t) == \A u \in fits : Len(Spelling[u]) <= Len(Spelling[t])
<1>1. fits # {} /\ Operator = CHOOSE t \in fits : Longest(t)
  BY DEF Operator
<1>2. \A t \in fits : Len(Spelling[t]) \in 1..3
  BY Spellings
<1> HIDE DEF fits
<1>3. \E t \in fits : Longest(t)
  <2>1. CASE \E t \in fits : Len(Spelling[t]) = 3
    <3>1. PICK t \in fits : Len(Spelling[t]) = 3
      BY <2>1
    <3>2. ASSUME NEW u \in fits PROVE Len(Spelling[u]) <= Len(Spelling[t])
      <4>1. PICK n \in 1..3 : Len(Spelling[u]) = n
        BY <1>2
      <4> QED
        BY <3>1, <4>1
    <3> QED
      BY <3>2
  <2>2. CASE (\E t \in fits : Len(Spelling[t]) = 2) /\ ~(\E t \in fits : Len(Spelling[t]) = 3)
    BY <2>2, <1>2
  <2>3. CASE \A t \in fits : Len(Spelling[t]) = 1
    BY <2>3, <1>1
  <2> QED
    BY <2>1, <2>2, <2>3, <1>2
<1> HIDE DEF Longest
<1>4. Operator \in fits
  BY <1>1, <1>3
<1> QED
  BY <1>4 DEF fits

(* An operator that fits is in the text.                                   *)
LEMMA OperatorRead ==
  ASSUME source \in Seq(Symbols), NEW L \in Nat, L = Len(source), reader \in 1..(L + 1),
         Operator # "none"
  PROVE  \E n \in 1..3 :
           /\ n = Len(Spelling[Operator]) /\ reader + n <= L + 1
           /\ \A i \in 1..n : source[reader + i - 1] = Spelling[Operator][i]
<1>1. Operator \in DOMAIN Spelling /\ Fits(Operator)
  BY OperatorFits
<1> DEFINE s == Spelling[Operator]
<1>2. PICK n \in 1..3 : n = Len(s)
  BY <1>1, Spellings
<1>3. reader + n - 1 <= L /\ SubSeq(source, reader, reader + n - 1) = s
  BY <1>1, <1>2 DEF Fits
<1> HIDE DEF s
<1>4. PICK m : m = reader + n - 1
  OBVIOUS
<1>5. m \in Nat /\ m \in (reader - 1)..L /\ reader \in 1..(L + 1) /\ m - reader + 1 = n
  BY <1>3, <1>4
<1>6. \A i \in 1..n : SubSeq(source, reader, m)[i] = source[reader + i - 1]
  BY <1>5, SubSeqProperties
<1>7. reader + n <= L + 1
  BY <1>5
<1>8. \A i \in 1..n : source[reader + i - 1] = s[i]
  BY <1>3, <1>4, <1>6
<1> QED
  BY <1>2, <1>7, <1>8 DEF s

LEMMA PairsRead ==
  ASSUME source \in Seq(Symbols), NEW L \in Nat, L = Len(source), reader \in 1..(L + 1),
         Operator \in {"BlockComment", "LineComment"}
  PROVE  reader + 2 <= L + 1
<1>1. PICK n \in 1..3 : n = Len(Spelling[Operator]) /\ reader + n <= L + 1
  BY OperatorRead
<1>2. Spelling["BlockComment"] = <<"/", "*">> /\ Spelling["LineComment"] = <<"/", "/">>
  BY DEF Spelling, PairSpelling, SignSpelling
<1>3. n = 2
  <2>1. \A a, b : Len(<<a, b>>) = 2
    OBVIOUS
  <2>2. Len(Spelling[Operator]) = 2
    BY <1>2, <2>1
  <2> QED
    BY <1>1, <2>2
<1> QED
  BY <1>1, <1>3

-----------------------------------------------------------------------------
(* Every step of the scanners keeps Within.                                *)

(* The scanner goes on by n symbols; what it does to brackets is known.    *)
LEMMA ReadKeeps ==
  ASSUME NEW L \in Nat, Within(L), mode # "done", mode' = mode,
         NEW n \in Nat, reader + n <= L + 1, reader' = reader + n,
         token' \in {token, reader}, mode = "string" => token' = token,
         brackets' \in Seq(Brackets),
         UNCHANGED <<source, counter, line, lineStart>>
  PROVE  Within(L)'
BY DEF Within

LEMMA LineKeeps ==
  ASSUME NEW L \in Nat, Within(L), reader <= L, reader' = reader + 1, token' \in {token, reader},
         line' = (line + 1) % LineMod, lineStart' = reader + 1,
         mode \in {"code", "comment"},
         UNCHANGED <<source, mode, counter, brackets>>
  PROVE  Within(L)'
<1>1. line' \in 0..(LineMod - 1)
  <2>1. line \in Nat
    BY DEF Within, LineMod
  <2>2. \A k \in Int : \A m \in Nat \ {0} : k % m \in 0..(m - 1)
    OBVIOUS
  <2>3. LineMod \in Nat \ {0} /\ line + 1 \in Int
    BY <2>1 DEF LineMod
  <2> QED
    BY <2>2, <2>3
<1> QED
  BY <1>1 DEF Within

(* One scanner gives way to another.                                       *)
LEMMA ScannerKeeps ==
  ASSUME NEW L \in Nat, Within(L), mode # "done",
         NEW n \in {1, 2}, reader + n <= L + 1, reader' = reader + n,
         token' \in {token, reader}, 
         mode' \in {"code", "string", "comment"}, counter' \in Nat,
         mode' = "comment" <=> counter' # 0,
         mode' = "string" => token' = reader /\ source[reader] = "quote",
         UNCHANGED <<source, brackets, line, lineStart>>
  PROVE  Within(L)'
BY DEF Within

LEMMA FinishKeepsWithin ==
  ASSUME NEW L \in Nat, L = Len(source), Within(L), mode # "done", Finish(reader + 1),
         mode # "string" => reader > L
  PROVE  Within(L)'
BY DEF Within, Finish

(* Some bracket symbols are beyond the SMT backend, and named here.        *)
LEMMA OpenedIs ==
  /\ DOMAIN Opened = {"LParen", "LBrace", "LBracket"}
  /\ Opened["LParen"] = "(" /\ Opened["LBrace"] = "{" /\ Opened["LBracket"] = "["
BY Zenon DEF Opened

LEMMA ClosedIs ==
  /\ DOMAIN Closed = {"RParen", "RBrace", "RBracket"}
  /\ Closed["RParen"] = "(" /\ Closed["RBrace"] = "{" /\ Closed["RBracket"] = "["
BY Zenon DEF Closed

LEMMA BracketTypes ==
  ASSUME NEW b, b \in Seq(Brackets)
  PROVE  /\ \A t \in DOMAIN Opened : Append(b, Opened[t]) \in Seq(Brackets)
         /\ b # <<>> => SubSeq(b, 1, Len(b) - 1) \in Seq(Brackets)
<1>1. \A t \in DOMAIN Opened : Opened[t] \in Brackets
  BY OpenedIs, Zenon DEF Brackets
<1>2. \A t \in DOMAIN Opened : Append(b, Opened[t]) \in Seq(Brackets)
  BY <1>1, AppendProperties
<1>3. ASSUME b # <<>>
      PROVE  SubSeq(b, 1, Len(b) - 1) \in Seq(Brackets)
  <2>1. PICK n \in Nat : n = Len(b)
    OBVIOUS
  <2>2. n # 0
    BY <1>3, <2>1, EmptySeq
  <2>3. n - 1 \in (1 - 1)..n /\ 1 \in 1..(n + 1)
    BY <2>2
  <2> QED
    BY <2>1, <2>3, SubSeqProperties
<1> QED
  BY <1>2, <1>3

(* A step of the lexer leaves the text alone, and stays within it.         *)
LEMMA LexWithin ==
  ASSUME source \in Seq(Symbols), NEW L \in Nat, L = Len(source), Within(L), Lex
  PROVE  source' = source /\ Within(L)'
<1>0. mode # "done" => reader \in 1..(L + 1)
  BY DEF Within
<1>1. ~Ended /\ mode # "done" => reader + 1 <= L + 1
  BY <1>0 DEF Ended
<1>2. brackets \in Seq(Brackets)
  BY DEF Within
<1> USE DEF InCode, At
<1>3. CASE Blank
  <2>1. mode # "done" /\ reader' = reader + 1 /\ token' = reader /\ mode = "code" /\ ~Ended
        /\ UNCHANGED <<source, mode, counter, brackets, line, lineStart>>
    BY <1>3 DEF Blank, Skip
  <2> QED
    BY <1>1, <1>2, <2>1, ReadKeeps
<1>4. CASE NewLine
  <2>1. mode = "code" /\ ~Ended /\ reader' = reader + 1 /\ token' = reader
        /\ line' = (line + 1) % LineMod /\ lineStart' = reader + 1
        /\ UNCHANGED <<source, mode, counter, brackets>>
    BY <1>4 DEF NewLine
  <2> QED
    BY <1>0, <1>1, <2>1, LineKeeps
<1>5. CASE LineComment
  <2>1. PICK end \in reader..(L + 1) : mode = "code" /\ Skip(end - reader)
    BY <1>5 DEF LineComment
  <2>2. /\ reader' = reader + (end - reader) /\ token' = reader
        /\ UNCHANGED <<source, mode, counter, brackets, line, lineStart>>
    BY <2>1 DEF Skip
  <2>3. end - reader \in Nat /\ reader + (end - reader) <= L + 1
    BY <1>0, <2>1
  <2> QED
    BY <1>2, <2>1, <2>2, <2>3, ReadKeeps
<1>6. CASE BeginComment
  <2>1. mode = "code" /\ Operator = "BlockComment" /\ mode' = "comment" /\ counter' = 1
        /\ reader' = reader + 2 /\ token' = reader
        /\ UNCHANGED <<source, brackets, line, lineStart>>
    BY <1>6 DEF BeginComment
  <2>2. reader + 2 <= L + 1
    BY <1>0, <2>1, PairsRead
  <2> QED
    BY <2>1, <2>2, ScannerKeeps
<1>7. CASE BeginString
  <2>1. mode = "code" /\ ~Ended /\ source[reader] = "quote" /\ mode' = "string"
        /\ reader' = reader + 1 /\ token' = reader
        /\ UNCHANGED <<source, counter, brackets, line, lineStart>>
    BY <1>7 DEF BeginString
  <2>2. counter = 0
    BY <2>1 DEF Within
  <2> QED
    BY <1>1, <2>1, <2>2, ScannerKeeps
<1>8. ASSUME NEW list, NEW t, NEW x, NEW n \in 1..3, mode = "code", Put(list, t, x, n),
             reader + n <= L + 1, brackets' \in Seq(Brackets)
      PROVE  source' = source /\ Within(L)'
  <2>1. reader' = reader + n /\ token' = reader /\ UNCHANGED <<source, mode, counter, line, lineStart>>
    BY <1>8 DEF Put
  <2> QED
    BY <1>8, <2>1, ReadKeeps
<1>9. CASE PlaceOperator
  <2>1. mode = "code" /\ Operator # "none" /\ Put(lexemes, Operator, NoName, Len(Spelling[Operator]))
        /\ UNCHANGED brackets
    BY <1>9 DEF PlaceOperator
  <2>2. PICK n \in 1..3 : n = Len(Spelling[Operator]) /\ reader + n <= L + 1
    BY <1>0, <2>1, OperatorRead
  <2> QED
    BY <1>2, <1>8, <2>1, <2>2
<1>10. CASE PlaceNumber \/ PlaceKeyword \/ PlaceJoining \/ PlaceIdentifier
  <2>1. mode = "code" /\ ~Ended /\ (\E list, t, x : Put(list, t, x, 1)) /\ UNCHANGED brackets
    BY <1>10 DEF PlaceNumber, PlaceKeyword, PlaceJoining, PlaceIdentifier
  <2> QED
    BY <1>1, <1>2, <1>8, <2>1
<1>11. CASE \E t \in DOMAIN Opened : Open(t)
  <2>1. PICK t \in DOMAIN Opened : Open(t)
    BY <1>11
  <2>2. mode = "code" /\ ~Ended /\ Put(lexemes, t, NoName, 1) /\ brackets' = Append(brackets, Opened[t])
    BY <2>1 DEF Open
  <2> QED
    BY <1>1, <1>2, <1>8, <2>2, BracketTypes
<1>12. CASE \E t \in DOMAIN Closed : Close(t) \/ Misclose(t)
  <2>1. PICK t \in DOMAIN Closed : Close(t) \/ Misclose(t)
    BY <1>12
  <2>2. mode = "code" /\ ~Ended /\ (\E list, u, x : Put(list, u, x, 1))
    BY <2>1 DEF Close, Misclose
  <2>3. brackets' = brackets \/ (brackets' = SubSeq(brackets, 1, Len(brackets) - 1) /\ brackets # <<>>)
    <3>1. CASE Close(t)
      <4>1. Closed[t] # "#"
        BY ClosedIs, Zenon
      <4>2. Innermost = Closed[t] /\ brackets' = SubSeq(brackets, 1, Len(brackets) - 1)
        BY <3>1 DEF Close
      <4> QED
        BY <4>1, <4>2 DEF Innermost
    <3>2. CASE Misclose(t)
      BY <3>2 DEF Misclose
    <3> QED
      BY <2>1, <3>1, <3>2
  <2>4. brackets' \in Seq(Brackets)
    BY <1>2, <2>3, BracketTypes
  <2> QED
    BY <1>1, <1>8, <2>2, <2>4
<1>13. CASE Invalid
  <2>1. mode = "code" /\ ~Ended /\ (Skip(1) \/ (Put(lexemes, "Error", NoName, 1) /\ UNCHANGED brackets))
    BY <1>13 DEF Invalid
  <2>2. CASE Skip(1)
    <3>1. reader' = reader + 1 /\ token' = reader
          /\ UNCHANGED <<source, mode, counter, brackets, line, lineStart>>
      BY <2>2 DEF Skip
    <3> QED
      BY <1>1, <1>2, <2>1, <3>1, ReadKeeps
  <2>3. CASE Put(lexemes, "Error", NoName, 1) /\ UNCHANGED brackets
    BY <1>1, <1>2, <1>8, <2>1, <2>3
  <2> QED
    BY <2>1, <2>2, <2>3
<1>14. CASE EndOfText \/ CutString \/ CutComment
  <2>1. mode # "done" /\ Finish(reader + 1) /\ (mode # "string" => Ended)
    BY <1>14 DEF EndOfText, CutString, CutComment
  <2>2. mode # "string" => reader > L
    BY <2>1 DEF Ended
  <2> QED
    BY <2>1, <2>2, FinishKeepsWithin DEF Finish
<1>15. CASE StringChar \/ CommentChar
  <2>1. mode # "done" /\ ~Ended /\ Read(1)
    BY <1>15 DEF StringChar, CommentChar, InComment
  <2>2. reader' = reader + 1 /\ UNCHANGED <<source, token, mode, counter, brackets, line, lineStart>>
    BY <2>1 DEF Read
  <2> QED
    BY <1>1, <1>2, <2>1, <2>2, ReadKeeps
<1>16. CASE Escape
  <2>1. mode = "string" /\ Read(2) /\ reader < L
    BY <1>16 DEF Escape, Escaping
  <2>2. reader' = reader + 2 /\ UNCHANGED <<source, token, mode, counter, brackets, line, lineStart>>
    BY <2>1 DEF Read
  <2>3. reader + 2 <= L + 1
    BY <1>0, <2>1
  <2> QED
    BY <1>2, <2>1, <2>2, <2>3, ReadKeeps
<1>17. CASE CloseString
  <2>1. mode = "string" /\ ~Ended /\ mode' = "code" /\ reader' = reader + 1
        /\ UNCHANGED <<source, token, counter, brackets, line, lineStart>>
    BY <1>17 DEF CloseString
  <2>2. counter = 0
    BY <2>1 DEF Within
  <2> QED
    BY <1>1, <2>1, <2>2, ScannerKeeps
<1>18. CASE CommentOpens
  <2>1. mode = "comment" /\ ~Ended /\ Operator = "BlockComment" /\ counter' = counter + 1
        /\ reader' = reader + 2 /\ UNCHANGED <<source, token, mode, brackets, line, lineStart>>
    BY <1>18 DEF CommentOpens, InComment
  <2>2. reader + 2 <= L + 1
    BY <1>0, <2>1, PairsRead
  <2>3. counter' \in Nat /\ counter' # 0
    BY <2>1 DEF Within
  <2> QED
    BY <2>1, <2>2, <2>3, ScannerKeeps
<1>19. CASE CommentCloses
  <2>1. mode = "comment" /\ reader < L /\ counter' = counter - 1
        /\ mode' = (IF counter = 1 THEN "code" ELSE "comment")
        /\ reader' = reader + 2 /\ UNCHANGED <<source, token, brackets, line, lineStart>>
    BY <1>19 DEF CommentCloses, InComment, Closing
  <2>2. reader + 2 <= L + 1
    BY <1>0, <2>1
  <2>3. counter' \in Nat /\ (mode' = "comment" <=> counter' # 0)
    BY <2>1 DEF Within
  <2> QED
    BY <2>1, <2>2, <2>3, ScannerKeeps
<1>20. CASE CommentNewLine
  <2>1. mode = "comment" /\ ~Ended /\ reader' = reader + 1
        /\ line' = (line + 1) % LineMod /\ lineStart' = reader + 1
        /\ UNCHANGED <<source, token, mode, counter, brackets>>
    BY <1>20 DEF CommentNewLine, InComment
  <2> QED
    BY <1>0, <1>1, <2>1, LineKeeps
<1> QED
  BY <1>3, <1>4, <1>5, <1>6, <1>7, <1>9, <1>10, <1>11, <1>12, <1>13, <1>14, <1>15, <1>16, <1>17,
     <1>18, <1>19, <1>20 DEF Lex

-----------------------------------------------------------------------------
(* Brackets and Newlines.                                                  *)

Joining == {"And", "Or", "Else", "RBrace"}

(* g[i] are the brackets open after the first i lexemes of s.              *)
Nests(g, s) ==
  /\ g = [i \in 0..Len(s) |-> g[i]]
  /\ g[0] = <<>>
  /\ \A i \in 1..Len(s) : g[i] = NestWith(g[i - 1], s[i].t)

(* br_stack b holds the open brackets x.                                   *)
Holds(b, x) == x \in Seq(DOMAIN Opened) /\ b = [i \in DOMAIN x |-> Opened[x[i]]]

BlockOpen(x) == x = <<>> \/ x[Len(x)] = "LBrace"

Matched(s, g) ==
  \A i \in 1..Len(s) : s[i].t \in DOMAIN Closed =>
    g[i - 1] # <<>> /\ g[i - 1][Len(g[i - 1])] = ClosedBy[s[i].t]

EndsAt(s, g, i) == s[i].t \in StopLexemes /\ BlockOpen(g[i])

Separate(s, g) ==
  /\ \A i \in 1..Len(s) : s[i].t = "Newline" =>
       /\ i - 1 \in 1..Len(s) /\ EndsAt(s, g, i - 1)
       /\ i < Len(s) => s[i + 1].t \notin Joining
  /\ \A i \in 1..Len(s) : i < Len(s) /\ EndsAt(s, g, i) /\ s[i].line # s[i + 1].line =>
       s[i + 1].t \in Joining \union {"Newline"}

(* What holds of the lexemes s when br_stack is b.                         *)
Kept(s, b) ==
  /\ IsList(s)
  /\ \E g : Nests(g, s)
  /\ \A g : Nests(g, s) => Matched(s, g) /\ Holds(b, g[Len(s)]) /\ Separate(s, g)

(* If a statement may end with the last lexeme, it is on line l.           *)
LastOn(s, l) ==
  \A g : Nests(g, s) => (EndsAt(s, g, Len(s)) => s[Len(s)].line = l)

(* The brackets after each of n lexemes s and after each with e are the    *)
(* same but for the last.                                                  *)
Grown(s, e, n) ==
  /\ \A g : Nests(g, s) => \E h : Nests(h, Append(s, e)) /\ \A i \in 0..n : h[i] = g[i]
  /\ \A h : Nests(h, Append(s, e)) =>
       /\ h[n + 1] = NestWith(h[n], e.t)
       /\ \E g : Nests(g, s) /\ \A i \in 0..n : g[i] = h[i]

LEMMA NestsGrown ==
  ASSUME NEW s, IsList(s), NEW e, NEW n \in Nat, n = Len(s)
  PROVE  Grown(s, e, n)
<1> DEFINE a == Append(s, e)
<1>1. IsList(a) /\ Len(a) = n + 1 /\ a[n + 1] = e /\ \A i \in 1..n : a[i] = s[i]
  BY AppendList
<1> HIDE DEF a
<1>2. ASSUME NEW g, Nests(g, s)
      PROVE  \E h : Nests(h, a) /\ \A i \in 0..n : h[i] = g[i]
  <2>1. PICK h : h = [i \in 0..(n + 1) |-> IF i = n + 1 THEN NestWith(g[n], e.t) ELSE g[i]]
    OBVIOUS
  <2>2. h[n + 1] = NestWith(g[n], e.t) /\ \A i \in 0..n : h[i] = g[i]
    BY <2>1
  <2>3. h = [i \in 0..(n + 1) |-> h[i]]
    BY <2>1
  <2>4. h[0] = <<>>
    BY <1>2, <2>2 DEF Nests
  <2>5. ASSUME NEW i \in 1..(n + 1) PROVE h[i] = NestWith(h[i - 1], a[i].t)
    <3>1. CASE i = n + 1
      <4>1. i - 1 = n /\ n \in 0..n
        BY <3>1
      <4> QED
        BY <1>1, <2>2, <3>1, <4>1
    <3>2. CASE i # n + 1
      <4>1. i \in 1..n /\ i \in 0..n /\ i - 1 \in 0..n
        BY <2>5, <3>2
      <4>2. g[i] = NestWith(g[i - 1], s[i].t)
        BY <1>2, <4>1 DEF Nests
      <4> QED
        BY <1>1, <2>2, <4>1, <4>2
    <3> QED
      BY <3>1, <3>2
  <2>6. Nests(h, a)
    BY <1>1, <2>3, <2>4, <2>5 DEF Nests
  <2> QED
    BY <2>2, <2>6
<1>3. ASSUME NEW h, Nests(h, a)
      PROVE  /\ h[n + 1] = NestWith(h[n], e.t)
             /\ \E g : Nests(g, s) /\ \A i \in 0..n : g[i] = h[i]
  <2>1. \A i \in 1..(n + 1) : h[i] = NestWith(h[i - 1], a[i].t)
    BY <1>1, <1>3 DEF Nests
  <2>2. h[n + 1] = NestWith(h[n], e.t)
    <3>1. n + 1 \in 1..(n + 1) /\ (n + 1) - 1 = n
      OBVIOUS
    <3> QED
      BY <1>1, <2>1, <3>1
  <2>3. PICK g : g = [i \in 0..n |-> h[i]]
    OBVIOUS
  <2>4. g = [i \in 0..n |-> g[i]] /\ \A i \in 0..n : g[i] = h[i]
    BY <2>3
  <2>5. g[0] = <<>>
    BY <1>3, <2>4 DEF Nests
  <2>6. ASSUME NEW i \in 1..n PROVE g[i] = NestWith(g[i - 1], s[i].t)
    <3>1. i \in 0..n /\ i - 1 \in 0..n /\ i \in 1..(n + 1)
      BY <2>6
    <3> QED
      BY <1>1, <2>1, <2>4, <3>1
  <2>7. Nests(g, s)
    BY <2>4, <2>5, <2>6 DEF Nests
  <2> QED
    BY <2>2, <2>4, <2>7
<1> QED
  BY <1>2, <1>3 DEF a, Grown

(* A lexeme is placed: what keeps brackets matched and lines apart.        *)
LEMMA PlacedKept ==
  ASSUME NEW s, NEW b, Kept(s, b), NEW n \in Nat \ {0}, n = Len(s),
         NEW e, NEW b2, 
         \A x : Holds(b, x) => Holds(b2, NestWith(x, e.t)),
         e.t \in DOMAIN Closed => \A x : Holds(b, x) => x # <<>> /\ x[Len(x)] = ClosedBy[e.t],
         e.t = "Newline" => s[n].t \in StopLexemes /\ \A x : Holds(b, x) => BlockOpen(x),
         e.t \in Joining => s[n].t # "Newline",
         e.t \notin Joining \union {"Newline"} => LastOn(s, e.line)
  PROVE  Kept(Append(s, e), b2)
<1>0. IsList(s)
  BY DEF Kept
<1> DEFINE a == Append(s, e)
<1>1. IsList(a) /\ Len(a) = n + 1 /\ a[n + 1] = e /\ \A i \in 1..n : a[i] = s[i]
  BY <1>0, AppendList
<1>2. /\ \A g : Nests(g, s) => \E h : Nests(h, a) /\ \A i \in 0..n : h[i] = g[i]
      /\ \A h : Nests(h, a) =>
           /\ h[n + 1] = NestWith(h[n], e.t)
           /\ \E g : Nests(g, s) /\ \A i \in 0..n : g[i] = h[i]
  <2>1. Grown(s, e, n)
    BY <1>0, NestsGrown
  <2> QED
    BY <2>1 DEF Grown
<1> HIDE DEF a
<1>3. \E h : Nests(h, a)
  BY <1>2 DEF Kept
<1>4. ASSUME NEW h, Nests(h, a)
      PROVE  Matched(a, h) /\ Holds(b2, h[Len(a)]) /\ Separate(a, h)
  <2>1. PICK g : Nests(g, s) /\ \A i \in 0..n : g[i] = h[i]
    BY <1>2, <1>4
  <2>2. Matched(s, g) /\ Holds(b, g[n]) /\ Separate(s, g)
    BY <2>1 DEF Kept
  <2>3. n \in 0..n /\ g[n] = h[n]
    BY <2>1
  <2>4. Holds(b2, h[n + 1])
    BY <1>2, <1>4, <2>2, <2>3
  <2>5. ASSUME NEW i \in 1..(n + 1), i # n + 1
        PROVE  i \in 1..n /\ i \in 0..n /\ i - 1 \in 0..n
    BY <2>5
  <2>6. Matched(a, h)
    <3>1. ASSUME NEW i \in 1..(n + 1), a[i].t \in DOMAIN Closed
          PROVE  h[i - 1] # <<>> /\ h[i - 1][Len(h[i - 1])] = ClosedBy[a[i].t]
      <4>1. CASE i = n + 1
        <5>1. i - 1 = n
          BY <4>1
        <5>2. g[n] # <<>> /\ g[n][Len(g[n])] = ClosedBy[e.t]
          BY <1>1, <2>2, <3>1, <4>1
        <5> QED
          BY <1>1, <2>3, <4>1, <5>1, <5>2
      <4>2. CASE i # n + 1
        <5>1. i \in 1..n /\ i - 1 \in 0..n
          BY <2>5, <4>2
        <5>2. a[i] = s[i] /\ h[i - 1] = g[i - 1]
          BY <1>1, <2>1, <5>1
        <5> QED
          BY <2>2, <3>1, <5>1, <5>2 DEF Matched
      <4> QED
        BY <4>1, <4>2
    <3> QED
      BY <1>1, <3>1 DEF Matched
  <2>7. \A i \in 1..n : EndsAt(a, h, i) <=> EndsAt(s, g, i)
    <3> TAKE i \in 1..n
    <3>1. i \in 0..n
      OBVIOUS
    <3> QED
      BY <1>1, <2>1, <3>1 DEF EndsAt
  <2>8. ASSUME NEW i \in 1..(n + 1), a[i].t = "Newline"
        PROVE  /\ i - 1 \in 1..(n + 1) /\ EndsAt(a, h, i - 1)
               /\ i < n + 1 => a[i + 1].t \notin Joining
    <3>1. CASE i = n + 1
      <4>1. i - 1 = n /\ n \in 1..n /\ n \in 1..(n + 1)
        BY <3>1
      <4>2. EndsAt(s, g, n)
        BY <1>1, <2>2, <2>8, <3>1 DEF EndsAt
      <4> QED
        BY <2>7, <3>1, <4>1, <4>2
    <3>2. CASE i # n + 1
      <4>1. i \in 1..n
        BY <2>5, <3>2
      <4>2. s[i].t = "Newline"
        BY <1>1, <2>8, <4>1
      <4>3. i - 1 \in 1..n /\ EndsAt(s, g, i - 1) /\ (i < n => s[i + 1].t \notin Joining)
        BY <2>2, <4>1, <4>2 DEF Separate
      <4>4. EndsAt(a, h, i - 1) /\ i - 1 \in 1..(n + 1)
        BY <2>7, <4>3
      <4>5. a[i + 1].t \notin Joining
        <5>1. CASE i = n
          <6>1. e.t \notin Joining
            BY <4>2, <5>1
          <6> QED
            BY <1>1, <5>1, <6>1
        <5>2. CASE i # n
          <6>1. i < n /\ i + 1 \in 1..n
            BY <4>1, <5>2
          <6> QED
            BY <1>1, <4>3, <6>1
        <5> QED
          BY <5>1, <5>2
      <4> QED
        BY <4>4, <4>5
    <3> QED
      BY <3>1, <3>2
  <2>9. ASSUME NEW i \in 1..(n + 1), i < n + 1, EndsAt(a, h, i), a[i].line # a[i + 1].line
        PROVE  a[i + 1].t \in Joining \union {"Newline"}
    <3>1. i \in 1..n /\ EndsAt(s, g, i) /\ a[i] = s[i]
      BY <1>1, <2>7, <2>9
    <3>2. CASE i = n
      <4>1. a[i + 1] = e /\ s[n].line # e.line
        BY <1>1, <2>9, <3>1, <3>2
      <4>2. ~LastOn(s, e.line)
        BY <2>1, <3>1, <3>2, <4>1 DEF LastOn
      <4> QED
        BY <4>1, <4>2
    <3>3. CASE i # n
      <4>1. i < n /\ i + 1 \in 1..n
        BY <3>1, <3>3
      <4>2. a[i + 1] = s[i + 1]
        BY <1>1, <4>1
      <4> QED
        BY <2>2, <2>9, <3>1, <4>1, <4>2 DEF Separate
    <3> QED
      BY <3>2, <3>3
  <2>10. Separate(a, h)
    BY <1>1, <2>8, <2>9 DEF Separate
  <2> QED
    BY <1>1, <2>4, <2>6, <2>10
<1> QED
  BY <1>1, <1>3, <1>4 DEF Kept, a

(* A Newline is taken back.                                                *)
LEMMA TakenBackKept ==
  ASSUME NEW s, IsList(s), NEW n \in Nat \ {0}, n = Len(s), NEW e, NEW b, e.t = "Newline",
         Kept(Append(s, e), b)
  PROVE  Kept(s, b) /\ s[n].t # "Newline"
<1> DEFINE a == Append(s, e)
<1>1. IsList(a) /\ Len(a) = n + 1 /\ a[n + 1] = e /\ \A i \in 1..n : a[i] = s[i]
  BY AppendList
<1>2. /\ \A g : Nests(g, s) => \E h : Nests(h, a) /\ \A i \in 0..n : h[i] = g[i]
      /\ \A h : Nests(h, a) =>
           /\ h[n + 1] = NestWith(h[n], e.t)
           /\ \E g : Nests(g, s) /\ \A i \in 0..n : g[i] = h[i]
  <2>1. IsList(s) /\ n \in Nat /\ n = Len(s)
    OBVIOUS
  <2>2. Grown(s, e, n)
    BY <2>1, NestsGrown
  <2> QED
    BY <2>2 DEF Grown
<1>3. Kept(a, b)
  OBVIOUS
<1> HIDE DEF a
<1>4. \E g : Nests(g, s)
  BY <1>2, <1>3 DEF Kept
<1>5. \A x : NestWith(x, e.t) = x
  <2>1. e.t \notin DOMAIN Opened /\ e.t \notin DOMAIN Closed
    BY OpenedIs, ClosedIs, Zenon
  <2> QED
    BY <2>1 DEF NestWith
<1>6. ASSUME NEW g, Nests(g, s)
      PROVE  Matched(s, g) /\ Holds(b, g[n]) /\ Separate(s, g) /\ s[n].t # "Newline"
  <2>1. PICK h : Nests(h, a) /\ \A i \in 0..n : h[i] = g[i]
    BY <1>2, <1>6
  <2>2. Matched(a, h) /\ Holds(b, h[n + 1]) /\ Separate(a, h)
    BY <1>1, <1>3, <2>1 DEF Kept
  <2>3. n \in 0..n /\ h[n + 1] = g[n]
    BY <1>2, <1>5, <2>1
  <2>4. \A i \in 1..n : i \in 0..n /\ i - 1 \in 0..n /\ i \in 1..(n + 1)
    OBVIOUS
  <2>5. Matched(s, g)
    BY <1>1, <2>1, <2>2, <2>4 DEF Matched
  <2>6. \A i \in 1..n : EndsAt(s, g, i) <=> EndsAt(a, h, i)
    BY <1>1, <2>1, <2>4 DEF EndsAt
  <2>7. EndsAt(s, g, n)
    <3>1. n + 1 \in 1..(n + 1) /\ (n + 1) - 1 = n /\ n \in 1..n
      OBVIOUS
    <3>2. EndsAt(a, h, n)
      BY <1>1, <2>2, <3>1 DEF Separate
    <3> QED
      BY <2>6, <3>1, <3>2
  <2>8. s[n].t # "Newline"
    BY <2>7 DEF EndsAt, StopLexemes
  <2>9. Separate(s, g)
    <3>1. ASSUME NEW i \in 1..n, s[i].t = "Newline"
          PROVE  i - 1 \in 1..n /\ EndsAt(s, g, i - 1) /\ (i < n => s[i + 1].t \notin Joining)
      <4>1. i \in 1..(n + 1) /\ a[i].t = "Newline" /\ i < n + 1
        BY <1>1, <2>4, <3>1
      <4>2. i - 1 \in 1..(n + 1) /\ EndsAt(a, h, i - 1) /\ a[i + 1].t \notin Joining
        BY <1>1, <2>2, <4>1 DEF Separate
      <4>3. i - 1 \in 1..n
        BY <3>1, <4>2
      <4>4. i < n => a[i + 1] = s[i + 1]
        BY <1>1, <3>1
      <4> QED
        BY <2>6, <4>2, <4>3, <4>4
    <3>2. ASSUME NEW i \in 1..n, i < n, EndsAt(s, g, i), s[i].line # s[i + 1].line
          PROVE  s[i + 1].t \in Joining \union {"Newline"}
      <4>1. i \in 1..(n + 1) /\ i < n + 1 /\ i + 1 \in 1..n
        BY <3>2
      <4>2. EndsAt(a, h, i) /\ a[i].line # a[i + 1].line /\ a[i + 1] = s[i + 1]
        BY <1>1, <2>6, <3>2, <4>1
      <4> QED
        BY <1>1, <2>2, <4>1, <4>2 DEF Separate
    <3> QED
      BY <3>1, <3>2 DEF Separate
  <2> QED
    BY <2>2, <2>3, <2>5, <2>8, <2>9
<1> QED
  BY <1>4, <1>6 DEF Kept

(* What is placed.                                                         *)
Plain(t) == t \notin {"LParen", "LBrace", "LBracket", "RParen", "RBrace", "RBracket",
                      "And", "Or", "Else", "Newline", "End"}

LEMMA PlainWords ==
  /\ \A w \in DOMAIN Keywords : Plain(Keywords[w])
  /\ \A w \in DOMAIN Numbers : Plain(Numbers[w])
  /\ \A t \in DOMAIN Spelling : Plain(t)
  /\ Plain("Identifier") /\ Plain("String") /\ Plain("Error")
<1>1. \A w \in DOMAIN Keywords : Plain(Keywords[w])
  BY DEF Keywords, Plain
<1>2. \A w \in DOMAIN Numbers : Plain(Numbers[w])
  BY DEF Numbers, Plain
<1>3. DOMAIN SignSpelling = {"Plus", "Minus", "Mul", "Div", "Mod", "Colon", "Semicolon", "Lt",
                             "Assign", "Gt", "Comma"}
  BY Zenon DEF SignSpelling
<1>4. DOMAIN Spelling = DOMAIN SignSpelling \union DOMAIN PairSpelling \union DOMAIN LongSpelling
  BY Zenon DEF Spelling
<1>5. \A t \in DOMAIN PairSpelling : Plain(t)
  BY DEF PairSpelling, Plain
<1>6. \A t \in DOMAIN LongSpelling : Plain(t)
  BY DEF LongSpelling, Plain
<1>7. \A t \in DOMAIN SignSpelling : Plain(t)
  BY <1>3 DEF Plain
<1> QED
  BY <1>1, <1>2, <1>4, <1>5, <1>6, <1>7 DEF Plain

LEMMA PlainNests ==
  /\ \A t, x : Plain(t) \/ t \in {"Newline", "And", "Or", "Else", "End"} => NestWith(x, t) = x
  /\ \A t : Plain(t) \/ t \in {"Newline", "And", "Or", "Else", "End"} => t \notin DOMAIN Closed
  /\ \A t : Plain(t) => t \notin Joining \union {"Newline"}
<1>1. \A t : Plain(t) \/ t \in {"Newline", "And", "Or", "Else", "End"} =>
        t \notin {"LParen", "LBrace", "LBracket"} /\ t \notin {"RParen", "RBrace", "RBracket"}
  BY DEF Plain
<1>2. \A t : Plain(t) \/ t \in {"Newline", "And", "Or", "Else", "End"} =>
        t \notin DOMAIN Opened /\ t \notin DOMAIN Closed
  BY <1>1, OpenedIs, ClosedIs, Zenon
<1>3. \A t : Plain(t) => t \notin Joining \union {"Newline"}
  BY DEF Plain, Joining
<1> QED
  BY <1>2, <1>3 DEF NestWith

(* br_stack holds the brackets x: what is pushed and popped.               *)
LEMMA HoldsPushed ==
  ASSUME NEW b, NEW x, Holds(b, x), NEW t \in DOMAIN Opened
  PROVE  Holds(Append(b, Opened[t]), NestWith(x, t))
<1>1. NestWith(x, t) = Append(x, t)
  <2>1. t \notin DOMAIN Closed
    BY OpenedIs, ClosedIs, Zenon
  <2> QED
    BY <2>1 DEF NestWith
<1>2. PICK n \in Nat : n = Len(x)
  BY DEF Holds
<1>3. DOMAIN x = 1..n /\ x \in Seq(DOMAIN Opened) /\ b = [i \in 1..n |-> Opened[x[i]]]
  BY <1>2 DEF Holds
<1>4. \A s, e : IsList(s) /\ Len(s) = n =>
        Append(s, e) = [i \in 1..(n + 1) |-> IF i = n + 1 THEN e ELSE s[i]]
  <2> TAKE s, e
  <2> HAVE IsList(s) /\ Len(s) = n
  <2>1. IsList(Append(s, e)) /\ Len(Append(s, e)) = n + 1 /\ Append(s, e)[n + 1] = e
        /\ \A i \in 1..n : Append(s, e)[i] = s[i]
    BY AppendList
  <2>2. Append(s, e) = [i \in 1..(n + 1) |-> Append(s, e)[i]]
    <3>1. PICK S : Append(s, e) \in Seq(S)
      BY <2>1 DEF IsList
    <3>2. \A q \in Seq(S) : q = [i \in 1..Len(q) |-> q[i]]
      OBVIOUS
    <3> QED
      BY <2>1, <3>1, <3>2
  <2>3. \A i \in 1..(n + 1) : i # n + 1 => i \in 1..n
    OBVIOUS
  <2> QED
    BY <2>1, <2>2, <2>3
<1>5. IsList(x) /\ IsList(b) /\ Len(b) = n
  <2>1. b \in Seq({Opened[u] : u \in DOMAIN Opened})
    BY <1>3
  <2> QED
    BY <1>3, <2>1 DEF IsList
<1>6. Append(x, t) \in Seq(DOMAIN Opened)
  BY <1>3
<1>7. Append(x, t) = [i \in 1..(n + 1) |-> IF i = n + 1 THEN t ELSE x[i]]
  BY <1>2, <1>4, <1>5
<1>8. Append(b, Opened[t]) = [i \in 1..(n + 1) |-> IF i = n + 1 THEN Opened[t] ELSE b[i]]
  BY <1>4, <1>5
<1>9. DOMAIN Append(x, t) = 1..(n + 1)
  BY <1>7
<1>10. \A i \in 1..(n + 1) : Append(b, Opened[t])[i] = Opened[Append(x, t)[i]]
  <2>1. \A i \in 1..(n + 1) : i # n + 1 => i \in 1..n
    OBVIOUS
  <2> QED
    BY <1>3, <1>7, <1>8, <2>1
<1>11. Append(b, Opened[t]) = [i \in 1..(n + 1) |-> Opened[Append(x, t)[i]]]
  BY <1>8, <1>10
<1> QED
  BY <1>1, <1>6, <1>9, <1>11 DEF Holds

LEMMA OpenedOnce == \A t, u \in DOMAIN Opened : Opened[t] = Opened[u] => t = u
BY OpenedIs, Zenon

LEMMA ClosedByIs == \A t \in DOMAIN Closed : ClosedBy[t] \in DOMAIN Opened /\ Opened[ClosedBy[t]] = Closed[t]
<1>1. ClosedBy["RParen"] = "LParen" /\ ClosedBy["RBrace"] = "LBrace" /\ ClosedBy["RBracket"] = "LBracket"
  BY DEF ClosedBy
<1> QED
  BY <1>1, OpenedIs, ClosedIs, Zenon

LEMMA HoldsTop ==
  ASSUME NEW b, NEW x, Holds(b, x)
  PROVE  /\ b = <<>> <=> x = <<>>
         /\ x # <<>> => x[Len(x)] \in DOMAIN Opened /\ b[Len(b)] = Opened[x[Len(x)]]
<1>2. PICK n \in Nat : n = Len(x)
  BY DEF Holds
<1>3. DOMAIN x = 1..n /\ x \in Seq(DOMAIN Opened) /\ b = [i \in 1..n |-> Opened[x[i]]]
  BY <1>2 DEF Holds
<1>4. Len(b) = n /\ (n = 0 <=> b = <<>>) /\ (n = 0 <=> x = <<>>)
  BY <1>2, <1>3
<1>5. n # 0 => n \in 1..n
  OBVIOUS
<1> QED
  BY <1>2, <1>3, <1>4, <1>5

LEMMA HoldsPopped ==
  ASSUME NEW b, NEW x, Holds(b, x), NEW t \in DOMAIN Closed, b # <<>>, b[Len(b)] = Closed[t]
  PROVE  /\ Holds(SubSeq(b, 1, Len(b) - 1), NestWith(x, t))
         /\ x # <<>> /\ x[Len(x)] = ClosedBy[t]
<1>1. x # <<>> /\ x[Len(x)] = ClosedBy[t]
  BY HoldsTop, OpenedOnce, ClosedByIs
<1>2. t \notin DOMAIN Opened
  BY OpenedIs, ClosedIs, Zenon
<1>3. NestWith(x, t) = SubSeq(x, 1, Len(x) - 1)
  BY <1>1, <1>2 DEF NestWith
<1>4. PICK n \in Nat : n = Len(x)
  BY DEF Holds
<1>5. DOMAIN x = 1..n /\ x \in Seq(DOMAIN Opened) /\ b = [i \in 1..n |-> Opened[x[i]]] /\ n # 0
  BY <1>1, <1>4 DEF Holds
<1>6. Len(b) = n
  BY <1>5
<1>7. PICK m \in Nat : m = n - 1
  BY <1>5
<1>8. SubSeq(x, 1, m) \in Seq(DOMAIN Opened) /\ SubSeq(x, 1, m) = [i \in 1..m |-> x[i]]
  BY <1>4, <1>5, <1>7
<1>9. SubSeq(b, 1, m) = [i \in 1..m |-> b[i]]
  BY <1>5, <1>6, <1>7
<1>10. DOMAIN SubSeq(x, 1, m) = 1..m /\ SubSeq(b, 1, m) = [i \in 1..m |-> Opened[SubSeq(x, 1, m)[i]]]
  BY <1>5, <1>7, <1>8, <1>9
<1>11. Holds(SubSeq(b, 1, m), SubSeq(x, 1, m))
  BY <1>8, <1>10 DEF Holds
<1> QED
  BY <1>1, <1>3, <1>4, <1>6, <1>7, <1>11

LEMMA InBlockIs ==
  ASSUME NEW x, Holds(brackets, x)
  PROVE  InBlock <=> BlockOpen(x)
<1>1. CASE x = <<>>
  <2>1. Innermost = "#"
    BY <1>1, HoldsTop DEF Innermost
  <2>2. InBlock
    BY <2>1, Zenon DEF InBlock
  <2> QED
    BY <1>1, <2>2 DEF BlockOpen
<1>2. CASE x # <<>>
  <2>1. Innermost = Opened[x[Len(x)]] /\ x[Len(x)] \in DOMAIN Opened
    BY <1>2, HoldsTop DEF Innermost
  <2>2. InBlock <=> x[Len(x)] = "LBrace"
    BY <2>1, OpenedIs, Zenon DEF InBlock
  <2> QED
    BY <1>2, <2>2 DEF BlockOpen
<1> QED
  BY <1>1, <1>2

LexInv ==
  /\ Kept(lexemes, brackets)
  /\ mode # "done" => LastOn(lexemes, line)

LEMMA LastPlaced ==
  ASSUME NEW s, IsList(s), NEW e, NEW l, e.t \in StopLexemes => e.line = l
  PROVE  LastOn(Append(s, e), l)
<1>1. /\ Len(s) \in Nat
      /\ Len(Append(s, e)) = Len(s) + 1
      /\ Append(s, e)[Len(s) + 1] = e
  BY AppendList
<1> QED
  BY <1>1 DEF LastOn, EndsAt

(* The list without the Newline at its end.                                *)
LEMMA NewlineTaken ==
  ASSUME EndLast, Last1 = "Newline"
  PROVE  /\ IsList(WithoutNewline) /\ Len(WithoutNewline) \in Nat \ {0}
         /\ \E e : e.t = "Newline" /\ Append(WithoutNewline, e) = lexemes
<1>1. PICK n \in Nat \ {0} : n = Len(lexemes)
  BY DEF EndLast
<1>2. n # 1 /\ lexemes[n].t = "Newline"
  BY <1>1 DEF EndLast, Last1
<1>3. PICK m \in Nat \ {0} : m = n - 1
  BY <1>2
<1>4. PICK S : lexemes \in Seq(S)
  BY DEF EndLast, IsList
<1>5. PICK f : f = SubSeq(lexemes, 1, m)
  OBVIOUS
<1>6. f \in Seq(S) /\ Len(f) = m /\ \A i \in 1..m : f[i] = lexemes[i]
  <2>1. m \in (1 - 1)..n /\ 1 \in 1..(n + 1)
    BY <1>1, <1>3
  <2>2. /\ SubSeq(lexemes, 1, m) \in Seq(S) /\ Len(SubSeq(lexemes, 1, m)) = m - 1 + 1
        /\ \A i \in 1..(m - 1 + 1) : SubSeq(lexemes, 1, m)[i] = lexemes[1 + i - 1]
    BY <1>1, <1>4, <2>1, SubSeqProperties
  <2> QED
    BY <1>3, <1>5, <2>2
<1>7. WithoutNewline = f
  BY <1>1, <1>3, <1>5 DEF WithoutNewline
<1>8. IsList(f)
  BY <1>6 DEF IsList
<1>9. Append(f, lexemes[n]) = lexemes
  <2>1. lexemes[n] \in S
    BY <1>1, <1>4
  <2>2. Append(f, lexemes[n]) \in Seq(S) /\ Len(Append(f, lexemes[n])) = m + 1
        /\ \A i \in 1..m : Append(f, lexemes[n])[i] = f[i]
        /\ Append(f, lexemes[n])[m + 1] = lexemes[n]
    BY <1>6, <2>1, AppendProperties
  <2>3. m + 1 = n
    BY <1>3
  <2>4. \A i \in 1..n : Append(f, lexemes[n])[i] = lexemes[i]
    <3> TAKE i \in 1..n
    <3>1. i = n \/ i \in 1..m
      BY <2>3
    <3> QED
      BY <1>6, <2>2, <2>3, <3>1
  <2> QED
    BY <1>1, <1>4, <2>2, <2>3, <2>4, SeqEqual
<1> QED
  BY <1>2, <1>6, <1>7, <1>8, <1>9

LEMMA WithoutNewlineKept ==
  ASSUME EndLast, Kept(lexemes, brackets)
  PROVE  /\ Kept(WithoutNewline, brackets) /\ Len(WithoutNewline) \in Nat \ {0}
         /\ WithoutNewline[Len(WithoutNewline)].t # "Newline"
<1>1. CASE Last1 # "Newline"
  <2>1. WithoutNewline = lexemes
    BY <1>1 DEF WithoutNewline
  <2> QED
    BY <1>1, <2>1 DEF Last1, EndLast
<1>2. CASE Last1 = "Newline"
  <2>1. PICK f : f = WithoutNewline
    OBVIOUS
  <2>2. /\ IsList(f) /\ Len(f) \in Nat \ {0}
        /\ \E e : e.t = "Newline" /\ Append(f, e) = lexemes
    BY <1>2, <2>1, NewlineTaken
  <2>3. PICK m \in Nat \ {0} : m = Len(f)
    BY <2>2
  <2>4. PICK e : e.t = "Newline" /\ Kept(Append(f, e), brackets)
    BY <2>2
  <2>5. Kept(f, brackets) /\ f[m].t # "Newline"
    BY <2>2, <2>3, <2>4, TakenBackKept
  <2> QED
    BY <2>1, <2>2, <2>3, <2>5
<1> QED
  BY <1>1, <1>2

(* Most lexemes do not open, close or separate anything.                   *)
LEMMA PlainPlaced ==
  ASSUME EndLast, LexInv, mode # "done", NEW e, Plain(e.t), e.line = line,
         lexemes' = Append(lexemes, e), UNCHANGED <<brackets, line>>
  PROVE  LexInv'
<1>1. PICK n \in Nat \ {0} : n = Len(lexemes)
  BY DEF EndLast
<1>2. Kept(lexemes, brackets) /\ LastOn(lexemes, e.line) /\ IsList(lexemes)
  BY DEF LexInv, Kept
<1>3. /\ \A x : NestWith(x, e.t) = x
      /\ e.t \notin DOMAIN Closed /\ e.t \notin Joining \union {"Newline"}
  BY PlainNests
<1>4. Kept(lexemes', brackets)
  BY <1>1, <1>2, <1>3, PlacedKept
<1>5. LastOn(lexemes', line)
  BY <1>2, LastPlaced
<1> QED
  BY <1>4, <1>5 DEF LexInv

(* and, or, else.                                                          *)
LEMMA JoiningPlaced ==
  ASSUME EndLast, LexInv, NEW e, e.t \in {"And", "Or", "Else"}, e.line = line,
         lexemes' = Append(WithoutNewline, e), UNCHANGED <<brackets, line>>
  PROVE  LexInv'
<1>1. Kept(WithoutNewline, brackets) /\ Len(WithoutNewline) \in Nat \ {0}
      /\ WithoutNewline[Len(WithoutNewline)].t # "Newline" /\ IsList(WithoutNewline)
  BY WithoutNewlineKept DEF LexInv, Kept
<1>2. PICK f : f = WithoutNewline
  OBVIOUS
<1>3. PICK n \in Nat \ {0} : n = Len(f)
  BY <1>1, <1>2
<1>4. /\ \A x : NestWith(x, e.t) = x
      /\ e.t \notin DOMAIN Closed /\ e.t # "Newline" /\ e.t \in Joining
  BY PlainNests DEF Joining
<1>5. Kept(f, brackets) /\ f[n].t # "Newline"
  BY <1>1, <1>2, <1>3
<1>6. Kept(Append(f, e), brackets)
  BY <1>3, <1>4, <1>5, PlacedKept
<1>7. LastOn(Append(f, e), line)
  BY <1>1, <1>2, LastPlaced
<1> QED
  BY <1>2, <1>6, <1>7 DEF LexInv

LEMMA OpenPlaced ==
  ASSUME EndLast, LexInv, mode # "done", NEW t \in DOMAIN Opened, NEW e, e.t = t, e.line = line,
         lexemes' = Append(lexemes, e), brackets' = Append(brackets, Opened[t]), UNCHANGED line
  PROVE  LexInv'
<1>1. PICK n \in Nat \ {0} : n = Len(lexemes)
  BY DEF EndLast
<1>2. Kept(lexemes, brackets) /\ LastOn(lexemes, e.line) /\ IsList(lexemes)
  BY DEF LexInv, Kept
<1>3. /\ t \in {"LParen", "LBrace", "LBracket"}
      /\ t \notin DOMAIN Closed
  BY OpenedIs, ClosedIs, Zenon
<1>4. t # "Newline" /\ t \notin Joining
  BY <1>3 DEF Joining
<1>5. \A x : Holds(brackets, x) => Holds(brackets', NestWith(x, t))
  BY HoldsPushed
<1>6. Kept(lexemes', brackets')
  BY <1>1, <1>2, <1>3, <1>4, <1>5, PlacedKept
<1>7. LastOn(lexemes', line)
  BY <1>2, LastPlaced
<1> QED
  BY <1>6, <1>7 DEF LexInv

LEMMA ClosePlaced ==
  ASSUME EndLast, LexInv, mode # "done", NEW t \in DOMAIN Closed, NEW e, e.t = t, e.line = line,
         Innermost = Closed[t],
         lexemes' = Append(IF t = "RBrace" THEN WithoutNewline ELSE lexemes, e),
         brackets' = SubSeq(brackets, 1, Len(brackets) - 1), UNCHANGED line
  PROVE  LexInv'
<1>1. PICK f : f = IF t = "RBrace" THEN WithoutNewline ELSE lexemes
  OBVIOUS
<1>2. Kept(f, brackets) /\ Len(f) \in Nat \ {0} /\ IsList(f)
      /\ (t = "RBrace" => f[Len(f)].t # "Newline")
      /\ (t # "RBrace" => LastOn(f, line))
  BY <1>1, WithoutNewlineKept DEF LexInv, EndLast, Kept
<1>3. PICK n \in Nat \ {0} : n = Len(f)
  BY <1>2
<1>4. t \in {"RParen", "RBrace", "RBracket"} /\ Closed[t] # "#"
  BY ClosedIs, Zenon
<1>5. t # "Newline" /\ (t \in Joining <=> t = "RBrace")
  BY <1>4 DEF Joining
<1>6. brackets # <<>> /\ brackets[Len(brackets)] = Closed[t]
  BY <1>4 DEF Innermost
<1>7. \A x : Holds(brackets, x) => Holds(brackets', NestWith(x, t)) /\ x # <<>> /\ x[Len(x)] = ClosedBy[t]
  BY <1>6, HoldsPopped
<1>8. f[n].t # "Newline" \/ t \notin Joining
  BY <1>2, <1>3, <1>5
<1>9. t \in Joining \/ LastOn(f, e.line)
  BY <1>2, <1>5
<1>10. Kept(Append(f, e), brackets')
  BY <1>2, <1>3, <1>5, <1>7, <1>8, <1>9, PlacedKept
<1>11. LastOn(Append(f, e), line)
  BY <1>2, LastPlaced
<1> QED
  BY <1>1, <1>10, <1>11 DEF LexInv

(* At the end of a line, in code or in a comment.                          *)
LEMMA NewlinePlaced ==
  ASSUME EndLast, LexInv, NEW e, e.t = "Newline",
         lexemes' = IF InBlock /\ Last1 \in StopLexemes THEN Append(lexemes, e) ELSE lexemes,
         UNCHANGED brackets
  PROVE  LexInv'
<1>1. PICK n \in Nat \ {0} : n = Len(lexemes)
  BY DEF EndLast
<1>2. Kept(lexemes, brackets) /\ IsList(lexemes)
  BY DEF LexInv, Kept
<1>3. CASE InBlock /\ Last1 \in StopLexemes
  <2>1. lexemes' = Append(lexemes, e) /\ lexemes[n].t \in StopLexemes
    BY <1>1, <1>3 DEF Last1
  <2>2. \A x : Holds(brackets, x) => BlockOpen(x)
    BY <1>3, InBlockIs
  <2>3. /\ \A x : NestWith(x, e.t) = x
        /\ e.t \notin DOMAIN Closed /\ e.t \notin Joining
    BY PlainNests DEF Joining
  <2>4. Kept(lexemes', brackets)
    BY <1>1, <1>2, <2>1, <2>2, <2>3, PlacedKept
  <2>5. e.t \notin StopLexemes
    BY DEF StopLexemes
  <2>6. LastOn(lexemes', line')
    BY <1>2, <2>1, <2>5, LastPlaced
  <2> QED
    BY <2>4, <2>6 DEF LexInv
<1>4. CASE ~(InBlock /\ Last1 \in StopLexemes)
  <2>1. lexemes' = lexemes
    BY <1>4
  <2>2. LastOn(lexemes, line')
    <3>1. ASSUME NEW g, Nests(g, lexemes), EndsAt(lexemes, g, n) PROVE FALSE
      <4>1. Holds(brackets, g[n])
        BY <1>1, <1>2, <3>1 DEF Kept
      <4>2. InBlock /\ Last1 \in StopLexemes
        BY <1>1, <3>1, <4>1, InBlockIs DEF EndsAt, Last1
      <4> QED
        BY <1>4, <4>2
    <3> QED
      BY <1>1, <3>1 DEF LastOn
  <2> QED
    BY <1>2, <2>1, <2>2 DEF LexInv
<1> QED
  BY <1>3, <1>4

LEMMA EndPlaced ==
  ASSUME EndLast, LexInv, mode # "done", NEW next, Finish(next)
  PROVE  LexInv'
<1>1. PICK n \in Nat \ {0} : n = Len(lexemes)
  BY DEF EndLast
<1>2. Kept(lexemes, brackets) /\ LastOn(lexemes, line)
  BY DEF LexInv
<1>3. PICK e : e = Lexeme("End", NoName, line, next - lineStart)
  OBVIOUS
<1>4. e.t = "End" /\ e.line = line /\ lexemes' = Append(lexemes, e) /\ mode' = "done" /\ brackets' = brackets
  BY <1>3 DEF Lexeme, Finish
<1>5. /\ \A x : NestWith(x, e.t) = x
      /\ e.t \notin DOMAIN Closed /\ e.t # "Newline" /\ e.t \notin Joining
  BY <1>4, PlainNests DEF Joining
<1>6. LastOn(lexemes, e.line)
  BY <1>2, <1>4
<1>7. Kept(Append(lexemes, e), brackets)
  BY <1>1, <1>2, <1>5, <1>6, PlacedKept
<1> QED
  BY <1>4, <1>7 DEF LexInv

LEMMA LexKept ==
  ASSUME EndLast, source \in Seq(Symbols), NEW L \in Nat, L = Len(source), Within(L), LexInv, Lex
  PROVE  LexInv'
<1> USE DEF InCode
<1>1. ASSUME mode # "done", UNCHANGED <<lexemes, brackets, line>> PROVE LexInv'
  BY <1>1 DEF LexInv
<1>2. CASE Blank \/ LineComment \/ BeginComment \/ BeginString
  BY <1>2, <1>1 DEF Blank, LineComment, BeginComment, BeginString, Skip
<1>3. CASE StringChar \/ Escape \/ CommentChar \/ CommentOpens \/ CommentCloses
  BY <1>3, <1>1 DEF StringChar, Escape, CommentChar, CommentOpens, CommentCloses, InComment, Read
<1>4. CASE EndOfText \/ CutString \/ CutComment
  <2>1. mode # "done" /\ Finish(reader + 1)
    BY <1>4 DEF EndOfText, CutString, CutComment
  <2> QED
    BY <2>1, EndPlaced
<1>5. ASSUME NEW t, NEW x, NEW n, mode = "code", Plain(t), Put(lexemes, t, x, n), UNCHANGED brackets
      PROVE  LexInv'
  <2>1. PICK e : e = Lexeme(t, x, line, reader - lineStart)
    OBVIOUS
  <2>2. e.t = t /\ e.line = line /\ lexemes' = Append(lexemes, e) /\ line' = line
    BY <1>5, <2>1 DEF Put, Placed, Lexeme
  <2> QED
    BY <1>5, <2>2, PlainPlaced
<1>6. CASE PlaceOperator
  <2>1. mode = "code" /\ Operator # "none" /\ Put(lexemes, Operator, NoName, Len(Spelling[Operator]))
        /\ UNCHANGED brackets
    BY <1>6 DEF PlaceOperator
  <2>2. Plain(Operator)
    BY <2>1, OperatorFits, PlainWords
  <2> QED
    BY <1>5, <2>1, <2>2
<1>7. CASE PlaceNumber
  BY <1>5, <1>7, PlainWords DEF PlaceNumber
<1>8. CASE PlaceKeyword
  BY <1>5, <1>8, PlainWords DEF PlaceKeyword
<1>9. CASE PlaceIdentifier
  BY <1>5, <1>9, PlainWords DEF PlaceIdentifier
<1>10. CASE PlaceJoining
  <2>1. /\ source[reader] \in DOMAIN JoiningWords
        /\ Put(WithoutNewline, JoiningWords[source[reader]], NoName, 1) /\ UNCHANGED brackets
    BY <1>10 DEF PlaceJoining
  <2>2. PICK t : t = JoiningWords[source[reader]]
    OBVIOUS
  <2>3. t \in {"And", "Or", "Else"}
    BY <2>1, <2>2 DEF JoiningWords
  <2>4. PICK e : e = Lexeme(t, NoName, line, reader - lineStart)
    OBVIOUS
  <2>5. e.t = t /\ e.line = line /\ lexemes' = Append(WithoutNewline, e) /\ line' = line
    BY <2>1, <2>2, <2>4 DEF Put, Placed, Lexeme
  <2> QED
    BY <2>1, <2>3, <2>5, JoiningPlaced
<1>11. CASE \E t \in DOMAIN Opened : Open(t)
  <2>1. PICK t \in DOMAIN Opened : Open(t)
    BY <1>11
  <2>2. mode = "code" /\ brackets' = Append(brackets, Opened[t]) /\ Put(lexemes, t, NoName, 1)
    BY <2>1 DEF Open
  <2>3. PICK e : e = Lexeme(t, NoName, line, reader - lineStart)
    OBVIOUS
  <2>4. e.t = t /\ e.line = line /\ lexemes' = Append(lexemes, e) /\ line' = line
    BY <2>2, <2>3 DEF Put, Placed, Lexeme
  <2> QED
    BY <2>1, <2>2, <2>4, OpenPlaced
<1>12. CASE \E t \in DOMAIN Closed : Close(t)
  <2>1. PICK t \in DOMAIN Closed : Close(t)
    BY <1>12
  <2>2. /\ mode = "code" /\ Innermost = Closed[t] /\ brackets' = SubSeq(brackets, 1, Len(brackets) - 1)
        /\ Put(IF t = "RBrace" THEN WithoutNewline ELSE lexemes, t, NoName, 1)
    BY <2>1 DEF Close
  <2>3. PICK e : e = Lexeme(t, NoName, line, reader - lineStart)
    OBVIOUS
  <2>4. e.t = t /\ e.line = line /\ line' = line
        /\ lexemes' = Append(IF t = "RBrace" THEN WithoutNewline ELSE lexemes, e)
    BY <2>2, <2>3 DEF Put, Placed, Lexeme
  <2> QED
    BY <2>1, <2>2, <2>4, ClosePlaced
<1>13. CASE Invalid \/ \E t \in DOMAIN Closed : Misclose(t)
  <2>1. mode = "code" /\ (Skip(1) \/ (Put(lexemes, "Error", NoName, 1) /\ UNCHANGED brackets))
    BY <1>13 DEF Invalid, Misclose
  <2>2. CASE Skip(1)
    BY <1>1, <2>1, <2>2 DEF Skip
  <2>3. CASE Put(lexemes, "Error", NoName, 1) /\ UNCHANGED brackets
    BY <1>5, <2>1, <2>3, PlainWords
  <2> QED
    BY <2>1, <2>2, <2>3
<1>14. CASE NewLine
  <2>1. PICK e : e = Lexeme("Newline", NoName, line, reader - lineStart)
    OBVIOUS
  <2>2. /\ e.t = "Newline" /\ brackets' = brackets
        /\ lexemes' = IF InBlock /\ Last1 \in StopLexemes THEN Append(lexemes, e) ELSE lexemes
    BY <1>14, <2>1 DEF NewLine, Placed, Lexeme
  <2> QED
    BY <2>2, NewlinePlaced
<1>15. CASE CommentNewLine
  <2>1. PICK e : e = Lexeme("Newline", NoName, line', token - lineStart')
    OBVIOUS
  <2>2. /\ e.t = "Newline" /\ brackets' = brackets
        /\ lexemes' = IF InBlock /\ Last1 \in StopLexemes THEN Append(lexemes, e) ELSE lexemes
    BY <1>15, <2>1 DEF CommentNewLine, PlacedAtToken, Lexeme
  <2> QED
    BY <2>2, NewlinePlaced
<1>16. CASE CloseString
  <2>1. PICK e : e = Lexeme("String", NoName, line, token - lineStart)
    OBVIOUS
  <2>2. e.t = "String" /\ e.line = line /\ lexemes' = Append(lexemes, e) /\ UNCHANGED <<brackets, line>>
        /\ mode # "done"
    BY <1>16, <2>1 DEF CloseString, PlacedAtToken, Lexeme
  <2> QED
    BY <2>2, PlainPlaced, PlainWords
<1> QED
  BY <1>2, <1>3, <1>4, <1>6, <1>7, <1>8, <1>9, <1>10, <1>11, <1>12, <1>13, <1>14, <1>15, <1>16 DEF Lex

-----------------------------------------------------------------------------
(* The specification's steps.                                              *)

TInv ==
  /\ IInv /\ Scanning /\ LexInv
  /\ stage \in {"lexing", "parsing", "reported", "parsed"}

LEMMA InitTInv == InitFrontEnd => TInv
<1> SUFFICES ASSUME InitFrontEnd PROVE TInv
  OBVIOUS
<1>1. IInv
  BY InitIInv
<1>2. PICK f \in DOMAIN Families : source \in Families[f]
  BY DEF InitFrontEnd, Init
<1>3. source \in Seq(Symbols)
  BY <1>2, FamiliesAssumption
<1>4. PICK L \in Nat : L = Len(source)
  BY <1>3, LenProperties
<1>5. /\ reader = 1 /\ token = 1 /\ mode = "code" /\ counter = 0 /\ brackets = <<>>
      /\ line = 1 /\ lineStart = 1 /\ stage = "lexing"
  BY DEF InitFrontEnd, Init
<1>6. Scanning
  <2>1. brackets \in Seq(Brackets)
    BY <1>5, EmptySeq
  <2>2. Within(L)
    BY <1>5, <2>1 DEF Within, LineMod
  <2> QED
    BY <1>3, <1>4, <2>2 DEF Scanning
<1>7. PICK e : e = Lexeme("Semicolon", NoName, 0, 0)
  OBVIOUS
<1>8. e.t = "Semicolon" /\ lexemes = <<e>>
  BY <1>7 DEF InitFrontEnd, Init, Lexeme
<1>9. IsList(lexemes) /\ Len(lexemes) = 1 /\ lexemes[1] = e
  <2>1. <<e>> \in Seq({e}) /\ Len(<<e>>) = 1 /\ <<e>>[1] = e
    OBVIOUS
  <2> QED
    BY <1>8, <2>1 DEF IsList
<1>10. /\ \A x : NestWith(x, e.t) = x
       /\ e.t \notin DOMAIN Closed /\ e.t # "Newline" /\ e.t \notin StopLexemes
  <2>1. Plain(e.t)
    BY <1>8 DEF Plain
  <2>2. e.t # "Newline" /\ e.t \notin StopLexemes
    BY <1>8 DEF StopLexemes
  <2> QED
    BY <2>1, <2>2, PlainNests
<1>11. \E g : Nests(g, lexemes)
  <2>1. PICK g : g = [i \in 0..1 |-> <<>>]
    OBVIOUS
  <2>2. g = [i \in 0..1 |-> g[i]] /\ \A i \in 0..1 : g[i] = <<>>
    BY <2>1
  <2>3. Nests(g, lexemes)
    BY <1>9, <1>10, <2>2 DEF Nests
  <2> QED
    BY <2>3
<1>12. ASSUME NEW g, Nests(g, lexemes)
       PROVE  /\ Matched(lexemes, g) /\ Holds(brackets, g[Len(lexemes)]) /\ Separate(lexemes, g)
              /\ ~EndsAt(lexemes, g, Len(lexemes))
  <2>1. g[1] = <<>>
    BY <1>9, <1>10, <1>12 DEF Nests
  <2>2. Matched(lexemes, g)
    BY <1>9, <1>10 DEF Matched
  <2>3. Holds(brackets, g[1])
    BY <1>5, <2>1, EmptySeq DEF Holds
  <2>4. Separate(lexemes, g) /\ ~EndsAt(lexemes, g, 1)
    BY <1>9, <1>10 DEF Separate, EndsAt
  <2> QED
    BY <1>9, <2>2, <2>3, <2>4
<1>13. LexInv
  BY <1>9, <1>11, <1>12 DEF LexInv, Kept, LastOn
<1> QED
  BY <1>1, <1>5, <1>6, <1>13 DEF TInv

LEMMA NextTInv == TInv /\ [Next]_vars => TInv'
<1> SUFFICES ASSUME TInv, [Next]_vars PROVE TInv'
  OBVIOUS
<1>1. IInv'
  BY NextIInv DEF TInv
<1>2. PICK L \in Nat : L = Len(source) /\ Within(L)
  BY Sized DEF TInv
<1>3. ASSUME UNCHANGED <<lexemes, lexerVars>> PROVE (Scanning /\ LexInv)'
  BY <1>3 DEF TInv, Scanning, Within, LexInv, lexerVars
<1>4. CASE LexStep
  <2>1. Lex /\ stage' = stage
    BY <1>4 DEF LexStep
  <2>2. source' = source /\ Within(L)'
    BY <1>2, <2>1, LexWithin DEF TInv, Scanning
  <2>3. Scanning'
    BY <1>2, <2>2 DEF TInv, Scanning
  <2>4. LexInv'
    BY <1>2, <2>1, LexKept DEF TInv, IInv, Scanning
  <2> QED
    BY <1>1, <2>1, <2>3, <2>4 DEF TInv
<1>5. CASE ReportLexer \/ BeginParse \/ EndParse
  <2>1. UNCHANGED <<lexemes, lexerVars>> /\ stage' \in {"parsing", "reported", "parsed"}
    BY <1>5 DEF ReportLexer, BeginParse, EndParse
  <2> QED
    BY <1>1, <1>3, <2>1 DEF TInv
<1>6. CASE ParserStep \/ UNCHANGED vars
  <2>1. UNCHANGED <<lexemes, lexerVars, stage>>
    BY <1>6 DEF ParserStep, Parse, vars
  <2> QED
    BY <1>1, <1>3, <2>1 DEF TInv
<1> QED
  BY <1>4, <1>5, <1>6 DEF Next

LEMMA Inductive == Spec => []TInv
BY InitTInv, NextTInv, PTL DEF Spec

(* For every text, the scanners stay within it, the comments open are      *)
(* counted just while a comment is read, and the stacks hold what the      *)
(* lexer and the parser push.                                              *)
THEOREM FrontEndTyped == Spec => []TypeOK
<1>1. TInv => TypeOK
  <2> SUFFICES ASSUME TInv PROVE TypeOK
    OBVIOUS
  <2>1. PICK L \in Nat : L = Len(source) /\ Within(L)
    BY Sized DEF TInv
  <2>2. \A i \in DOMAIN brackets : brackets[i] \in {"(", "{", "["}
    <3>1. brackets \in Seq(Brackets)
      BY <2>1 DEF Within
    <3>2. \A i \in DOMAIN brackets : brackets[i] \in Brackets
      BY <3>1
    <3> QED
      BY <3>2, Zenon DEF Brackets
  <2>3. \A i \in DOMAIN frames : frames[i].k \in FrameKinds
    <3>1. PICK S : FramesIn(S, frames)
      BY DEF TInv, IInv, FramesOK
    <3> QED
      BY <3>1 DEF FramesIn, FrameOK
  <2>4. /\ reader \in 1..(Len(source) + 2) /\ token \in 1..(Len(source) + 1)
        /\ mode \in {"code", "string", "comment", "done"}
        /\ counter \in Nat
        /\ mode = "comment" <=> (counter # 0 /\ mode # "done")
        /\ line \in 0..(LineMod - 1) /\ lineStart \in 1..(Len(source) + 1)
    BY <2>1 DEF Within
  <2>5. lcurrent \in Nat /\ stage \in {"lexing", "parsing", "reported", "parsed"}
    BY DEF TInv, IInv
  <2> QED
    BY <2>2, <2>3, <2>4, <2>5, Zenon DEF TypeOK
<1> QED
  BY <1>1, Inductive, PTL

(* Nesting is the nesting of the lexemes.                                  *)
LEMMA NestingNests ==
  ASSUME \E g : Nests(g, lexemes), IsList(lexemes)
  PROVE  Nests(Nesting, lexemes)
<1> DEFINE A(g) == g = [i \in 0..Len(lexemes) |->
                          IF i = 0 THEN <<>> ELSE NestWith(g[i - 1], lexemes[i].t)]
<1>1. PICK n \in Nat : n = Len(lexemes)
  BY DEF IsList
<1>2. \A i \in 0..n : i = 0 \/ i \in 1..n
  OBVIOUS
<1>3. 0 \in 0..n /\ \A i \in 1..n : i \in 0..n /\ i # 0
  OBVIOUS
<1>4. ASSUME NEW g, Nests(g, lexemes) PROVE A(g)
  BY <1>1, <1>2, <1>4 DEF Nests
<1>5. ASSUME NEW g, A(g) PROVE Nests(g, lexemes)
  <2>1. g = [i \in 0..n |-> IF i = 0 THEN <<>> ELSE NestWith(g[i - 1], lexemes[i].t)]
    BY <1>1, <1>5
  <2> HIDE DEF A
  <2>2. g = [i \in 0..n |-> g[i]] /\ g[0] = <<>>
    BY <1>3, <2>1
  <2>3. \A i \in 1..n : g[i] = NestWith(g[i - 1], lexemes[i].t)
    BY <1>3, <2>1
  <2> QED
    BY <1>1, <2>2, <2>3 DEF Nests
<1>6. Nesting = CHOOSE g : A(g)
  BY DEF Nesting
<1> HIDE DEF A
<1>7. A(Nesting)
  BY <1>4, <1>6
<1> QED
  BY <1>5, <1>7

(* What holds of every nesting of the lexemes holds of Nesting.            *)
LEMMA NestingKept ==
  ASSUME TInv
  PROVE  /\ Nests(Nesting, lexemes) /\ Matched(lexemes, Nesting)
         /\ Holds(brackets, Nesting[Len(lexemes)]) /\ Separate(lexemes, Nesting)
         /\ \E n \in Nat : n = Len(lexemes) /\ DOMAIN lexemes = 1..n
<1>1. Kept(lexemes, brackets) /\ IsList(lexemes)
  BY DEF TInv, LexInv, Kept
<1>2. \E g : Nests(g, lexemes)
  BY <1>1 DEF Kept
<1>3. Nests(Nesting, lexemes)
  BY <1>1, <1>2, NestingNests
<1>4. \E n \in Nat : n = Len(lexemes) /\ DOMAIN lexemes = 1..n
  BY <1>1 DEF IsList
<1> QED
  BY <1>1, <1>3, <1>4 DEF Kept

(* For every text, each closing bracket the parser gets closes the bracket *)
(* opened last, and br_stack is the brackets still open among the lexemes. *)
THEOREM BracketsAlwaysNest == Spec => []BracketsNest
<1>1. TInv => BracketsNest
  <2> SUFFICES ASSUME TInv PROVE BracketsNest
    OBVIOUS
  <2>1. PICK g : g = Nesting
    OBVIOUS
  <2>2. Matched(lexemes, g) /\ Holds(brackets, g[Len(lexemes)])
    BY <2>1, NestingKept
  <2>3. PICK n \in Nat : n = Len(lexemes) /\ DOMAIN lexemes = 1..n
    BY NestingKept
  <2>4. \A i \in DOMAIN lexemes : lexemes[i].t \in DOMAIN Closed =>
          g[i - 1] # <<>> /\ g[i - 1][Len(g[i - 1])] = ClosedBy[lexemes[i].t]
    BY <2>2, <2>3 DEF Matched
  <2>5. brackets = [i \in DOMAIN g[Len(lexemes)] |-> Opened[g[Len(lexemes)][i]]]
    BY <2>2 DEF Holds
  <2> QED
    BY <2>1, <2>4, <2>5, Zenon DEF BracketsNest
<1> QED
  BY <1>1, Inductive, PTL

(* For every text, the lexemes of a block that are on different lines have *)
(* a Newline between them just when the first may end a statement and the  *)
(* second does not go on with it.                                          *)
THEOREM NewlinesAlwaysSeparate == Spec => []NewlinesSeparate
<1>1. TInv => NewlinesSeparate
  <2> SUFFICES ASSUME TInv PROVE NewlinesSeparate
    OBVIOUS
  <2>1. PICK g : g = Nesting
    OBVIOUS
  <2>2. Separate(lexemes, g)
    BY <2>1, NestingKept
  <2>3. PICK n \in Nat : n = Len(lexemes) /\ DOMAIN lexemes = 1..n
    BY NestingKept
  <2> DEFINE Ends(i)  == lexemes[i].t \in StopLexemes /\ (g[i] = <<>> \/ g[i][Len(g[i])] = "LBrace")
             Joins(i) == lexemes[i].t \in {"And", "Or", "Else", "RBrace"}
  <2>4. \A i : Ends(i) <=> EndsAt(lexemes, g, i)
    BY DEF EndsAt, BlockOpen
  <2>5. \A i : Joins(i) <=> lexemes[i].t \in Joining
    BY DEF Joining
  <2> HIDE DEF Ends, Joins
  <2>6. \A i \in DOMAIN lexemes : lexemes[i].t = "Newline" =>
          Ends(i - 1) /\ (i < Len(lexemes) => ~Joins(i + 1))
    BY <2>2, <2>3, <2>4, <2>5 DEF Separate
  <2>7. \A i \in 1..(Len(lexemes) - 1) :
          Ends(i) /\ lexemes[i].line # lexemes[i + 1].line =>
            Joins(i + 1) \/ lexemes[i + 1].t = "Newline"
    <3>1. \A i \in 1..(n - 1) : i \in 1..n /\ i < n
      OBVIOUS
    <3> QED
      BY <2>2, <2>3, <2>4, <2>5, <3>1 DEF Separate
  <2> QED
    BY <2>1, <2>6, <2>7, Zenon DEF NewlinesSeparate, Ends, Joins
<1> QED
  BY <1>1, Inductive, PTL

-----------------------------------------------------------------------------
(* Lines and columns.                                                      *)

(* Line l, which position p of the text is in, starts at s.                *)
NewlinesBefore(src, p) == {i \in 1..(p - 1) : src[i] = "newline"}

OnLine(src, p, l, s) ==
  /\ l = (1 + Cardinality(NewlinesBefore(src, p))) % LineMod
  /\ s \in 1..p
  /\ s > 1 => src[s - 1] = "newline"
  /\ \A i \in s..(p - 1) : src[i] # "newline"

LEMMA OnLinePlace == \A p, s \in Int : \A l : OnLine(source, p, l, s) => Place(p, l, p - s)
<1> SUFFICES ASSUME NEW p \in Int, NEW s \in Int, NEW l, OnLine(source, p, l, s)
             PROVE  Place(p, l, p - s)
  OBVIOUS
<1>1. PICK c : c = p - s
  OBVIOUS
<1>2. p - c = s
  BY <1>1
<1>3. Place(p, l, c)
  BY <1>2 DEF OnLine, Place, NewlinesBefore
<1> QED
  BY <1>1, <1>3

LEMMA NewlinesFinite ==
  \A src : \A p \in Int : IsFiniteSet(NewlinesBefore(src, p)) /\ Cardinality(NewlinesBefore(src, p)) \in Nat
<1> TAKE src
<1> TAKE p \in Int
<1>1. IsFiniteSet(1..(p - 1))
  BY FS_Interval
<1>2. NewlinesBefore(src, p) \in SUBSET (1..(p - 1))
  BY DEF NewlinesBefore
<1> QED
  BY <1>1, <1>2, FS_Subset, FS_CardinalityType

(* The scanner goes on in its line.                                        *)
LEMMA SameLine ==
  ASSUME NEW src, NEW p \in Nat \ {0}, NEW q \in Nat \ {0}, p <= q, NEW l, NEW s, OnLine(src, p, l, s),
         \A i \in p..(q - 1) : src[i] # "newline"
  PROVE  OnLine(src, q, l, s)
<1>1. s \in 1..q
  BY DEF OnLine
<1>2. NewlinesBefore(src, q) = NewlinesBefore(src, p)
  <2>1. \A i \in 1..(q - 1) : i \in 1..(p - 1) \/ i \in p..(q - 1)
    OBVIOUS
  <2>2. \A i \in 1..(p - 1) : i \in 1..(q - 1)
    OBVIOUS
  <2> QED
    BY <2>1, <2>2 DEF NewlinesBefore
<1>3. \A i \in s..(q - 1) : src[i] # "newline"
  <2>1. \A i \in s..(q - 1) : i \in s..(p - 1) \/ i \in p..(q - 1)
    BY <1>1
  <2> QED
    BY <2>1 DEF OnLine
<1> QED
  BY <1>1, <1>2, <1>3 DEF OnLine

(* The scanner goes on to the next line.                                   *)
LEMMA NextLine ==
  ASSUME NEW src, NEW p \in Nat \ {0}, NEW l, NEW s, OnLine(src, p, l, s), src[p] = "newline"
  PROVE  OnLine(src, p + 1, (l + 1) % LineMod, p + 1)
<1>1. PICK n \in Nat : n = Cardinality(NewlinesBefore(src, p))
  BY NewlinesFinite
<1>2. NewlinesBefore(src, p + 1) = NewlinesBefore(src, p) \union {p}
  <2>1. \A i : i \in 1..(p + 1 - 1) <=> i \in 1..(p - 1) \/ i = p
    OBVIOUS
  <2> QED
    BY <2>1 DEF NewlinesBefore
<1>3. p \notin NewlinesBefore(src, p)
  BY DEF NewlinesBefore
<1>4. Cardinality(NewlinesBefore(src, p + 1)) = n + 1
  BY <1>1, <1>2, <1>3, NewlinesFinite, FS_AddElement
<1>5. (l + 1) % LineMod = (1 + (n + 1)) % LineMod
  <2>1. l = (1 + n) % LineMod
    BY <1>1 DEF OnLine
  <2>2. \A a \in Nat : (((1 + a) % 65536) + 1) % 65536 = (1 + (a + 1)) % 65536
    OBVIOUS
  <2> QED
    BY <2>1, <2>2 DEF LineMod
<1>6. p + 1 \in 1..(p + 1) /\ p + 1 - 1 = p /\ (p + 1)..p = {}
  OBVIOUS
<1> QED
  BY <1>4, <1>5, <1>6 DEF OnLine

-----------------------------------------------------------------------------
(* Which lexemes are errors, and which errors name them.                   *)

MarksIn(s, n) == {i \in 1..n : s[i].t = "Error"}

Reported(s, r) ==
  /\ IsList(r)
  /\ Len(r) = Cardinality(MarksIn(s, Len(s)))
  /\ \A i \in MarksIn(s, Len(s)) : r[Cardinality(MarksIn(s, i))] = s[i].line

LEMMA MarksFinite ==
  \A s : \A n \in Int : IsFiniteSet(MarksIn(s, n)) /\ Cardinality(MarksIn(s, n)) \in Nat
<1> TAKE s
<1> TAKE n \in Int
<1>1. IsFiniteSet(1..n)
  BY FS_Interval
<1>2. MarksIn(s, n) \in SUBSET (1..n)
  BY DEF MarksIn
<1> QED
  BY <1>1, <1>2, FS_Subset, FS_CardinalityType

LEMMA MarksAppend ==
  ASSUME NEW s, IsList(s), NEW n \in Nat, n = Len(s), NEW e
  PROVE  /\ \A i \in 0..n : MarksIn(Append(s, e), i) = MarksIn(s, i)
         /\ e.t = "Error" => MarksIn(Append(s, e), n + 1) = MarksIn(s, n) \union {n + 1}
         /\ e.t # "Error" => MarksIn(Append(s, e), n + 1) = MarksIn(s, n)
<1> DEFINE a == Append(s, e)
<1>1. Len(a) = n + 1 /\ a[n + 1] = e /\ \A i \in 1..n : a[i] = s[i]
  BY AppendList
<1> HIDE DEF a
<1>2. \A i \in 0..n : MarksIn(a, i) = MarksIn(s, i)
  <2>1. \A i \in 0..n : \A j \in 1..i : a[j] = s[j]
    BY <1>1
  <2> QED
    BY <2>1 DEF MarksIn
<1>3. \A i : i \in 1..(n + 1) <=> i \in 1..n \/ i = n + 1
  OBVIOUS
<1>4. \A i : i \in MarksIn(a, n + 1) <=> i \in MarksIn(s, n) \/ (i = n + 1 /\ e.t = "Error")
  BY <1>1, <1>3 DEF MarksIn
<1> QED
  BY <1>2, <1>4 DEF a

(* No lexeme but an Error is reported, and an Error is, on its line.       *)
LEMMA QuietPlaced ==
  ASSUME NEW s, IsList(s), NEW n \in Nat, n = Len(s), NEW r, NEW e, e.t # "Error"
  PROVE  Reported(s, r) <=> Reported(Append(s, e), r)
<1> DEFINE a == Append(s, e)
<1>1. Len(a) = n + 1 /\ a[n + 1] = e /\ \A i \in 1..n : a[i] = s[i]
  BY AppendList
<1>2. \A i \in 0..n : MarksIn(a, i) = MarksIn(s, i)
  BY MarksAppend
<1>3. MarksIn(a, n + 1) = MarksIn(s, n)
  BY MarksAppend
<1> HIDE DEF a
<1>4. \A i \in MarksIn(s, n) : i \in 1..n /\ i \in 0..n
  BY DEF MarksIn
<1>5. \A i \in MarksIn(s, n) : MarksIn(a, i) = MarksIn(s, i) /\ a[i] = s[i]
  BY <1>1, <1>2, <1>4
<1> QED
  BY <1>1, <1>3, <1>5 DEF Reported, a

LEMMA ErrorPlaced ==
  ASSUME NEW s, IsList(s), NEW n \in Nat, n = Len(s), NEW r, NEW e, e.t = "Error", Reported(s, r)
  PROVE  Reported(Append(s, e), Append(r, e.line))
<1> DEFINE a == Append(s, e)
           q == Append(r, e.line)
<1>1. Len(a) = n + 1 /\ a[n + 1] = e /\ \A i \in 1..n : a[i] = s[i]
  BY AppendList
<1>2. \A i \in 0..n : MarksIn(a, i) = MarksIn(s, i)
  BY MarksAppend
<1>3. MarksIn(a, n + 1) = MarksIn(s, n) \union {n + 1}
  <2>1. MarksIn(Append(s, e), n + 1) = MarksIn(s, n) \union {n + 1}
    BY MarksAppend
  <2> QED
    BY <2>1
<1>4. PICK k \in Nat : k = Len(r)
  BY DEF Reported, IsList
<1>5. IsList(q) /\ Len(q) = k + 1 /\ q[k + 1] = e.line /\ \A i \in 1..k : q[i] = r[i]
  BY <1>4, AppendList DEF Reported
<1> HIDE DEF a, q
<1>6. k = Cardinality(MarksIn(s, n))
  BY <1>4 DEF Reported
<1>7. n + 1 \notin MarksIn(s, n)
  BY DEF MarksIn
<1>8. Cardinality(MarksIn(a, n + 1)) = k + 1
  BY <1>3, <1>6, <1>7, MarksFinite, FS_AddElement
<1>9. ASSUME NEW i \in MarksIn(a, n + 1)
      PROVE  q[Cardinality(MarksIn(a, i))] = a[i].line
  <2>1. CASE i = n + 1
    BY <1>1, <1>5, <1>8, <2>1
  <2>2. CASE i # n + 1
    <3>1. i \in MarksIn(s, n) /\ i \in 1..n /\ i \in 0..n
      BY <1>3, <1>9, <2>2 DEF MarksIn
    <3>2. i \in MarksIn(s, i) /\ MarksIn(s, i) \in SUBSET MarksIn(s, n)
      BY <3>1 DEF MarksIn
    <3>3. PICK c \in Nat : c = Cardinality(MarksIn(s, i))
      BY <3>1, MarksFinite
    <3>4. IsFiniteSet(MarksIn(s, n)) /\ IsFiniteSet(MarksIn(s, i))
      BY <3>1, MarksFinite
    <3>5. c <= k
      BY <1>6, <3>2, <3>3, <3>4, FS_Subset
    <3>6. c # 0
      BY <3>2, <3>3, <3>4, FS_EmptySet
    <3>7. c \in 1..k
      BY <3>5, <3>6
    <3>8. r[c] = s[i].line
      BY <3>1, <3>3 DEF Reported
    <3>9. MarksIn(a, i) = MarksIn(s, i) /\ a[i] = s[i]
      BY <1>1, <1>2, <3>1
    <3> QED
      BY <1>5, <3>3, <3>7, <3>8, <3>9
  <2> QED
    BY <2>1, <2>2
<1> QED
  BY <1>1, <1>5, <1>8, <1>9 DEF Reported, a, q

-----------------------------------------------------------------------------
(* What lexemes begin with.                                                *)

(* None of the types that are no operators is the type of an operator.     *)
LEMMA OperatorTypes ==
  /\ \A w \in DOMAIN Keywords : Keywords[w] \notin DOMAIN Spelling
  /\ \A w \in DOMAIN Numbers : Numbers[w] \notin DOMAIN Spelling
  /\ \A w \in DOMAIN JoiningWords : JoiningWords[w] \notin DOMAIN Spelling
  /\ \A t \in DOMAIN Opened \union DOMAIN Closed \union {"Identifier", "String", "Error"} :
       t \notin DOMAIN Spelling
<1>1. DOMAIN SignSpelling = {"Plus", "Minus", "Mul", "Div", "Mod", "Colon", "Semicolon", "Lt",
                             "Assign", "Gt", "Comma"}
  BY Zenon DEF SignSpelling
<1>2. DOMAIN PairSpelling = {"Neq", "ModAssign", "MulAssign", "Append", "AddAssign", "SubAssign",
                             "DivAssign", "BlockComment", "LineComment"}
  BY Zenon DEF PairSpelling
<1>3. DOMAIN LongSpelling = {"Insert", "Leq", "Eq", "Geq", "AppendAssign", "Cmp"}
  BY Zenon DEF LongSpelling
<1>4. DOMAIN Spelling = DOMAIN SignSpelling \union DOMAIN PairSpelling \union DOMAIN LongSpelling
  BY Zenon DEF Spelling
<1>5. \A w \in DOMAIN Keywords : Keywords[w] \notin DOMAIN Spelling
  BY <1>1, <1>2, <1>3, <1>4 DEF Keywords
<1>6. \A w \in DOMAIN Numbers : Numbers[w] \notin DOMAIN Spelling
  BY <1>1, <1>2, <1>3, <1>4 DEF Numbers
<1>7. \A w \in DOMAIN JoiningWords : JoiningWords[w] \notin DOMAIN Spelling
  BY <1>1, <1>2, <1>3, <1>4 DEF JoiningWords
<1>8. \A t \in {"LParen", "LBrace", "LBracket", "RParen", "RBrace", "RBracket",
                "Identifier", "String", "Error"} : t \notin DOMAIN Spelling
  BY <1>1, <1>2, <1>3, <1>4
<1>9. DOMAIN Opened = {"LParen", "LBrace", "LBracket"} /\ DOMAIN Closed = {"RParen", "RBrace", "RBracket"}
  BY OpenedIs, ClosedIs
<1> QED
  BY <1>5, <1>6, <1>7, <1>8, <1>9

(* The words are no brackets, names or strings.                            *)
LEMMA WordTypes ==
  \A t \in {Keywords[w] : w \in DOMAIN Keywords} \union {Numbers[w] : w \in DOMAIN Numbers}
           \union {JoiningWords[w] : w \in DOMAIN JoiningWords} :
    /\ t \notin DOMAIN Opened /\ t \notin DOMAIN Closed
    /\ t \notin {"String", "Identifier", "Error", "Newline", "End"}
<1>1. DOMAIN Opened = {"LParen", "LBrace", "LBracket"} /\ DOMAIN Closed = {"RParen", "RBrace", "RBracket"}
  BY OpenedIs, ClosedIs
<1> DEFINE Bad == {"LParen", "LBrace", "LBracket", "RParen", "RBrace", "RBracket",
                   "String", "Identifier", "Error", "Newline", "End"}
<1>2. \A w \in DOMAIN Keywords : Keywords[w] \notin Bad
  BY DEF Keywords
<1>3. \A w \in DOMAIN Numbers : Numbers[w] \notin Bad
  BY DEF Numbers
<1>4. \A w \in DOMAIN JoiningWords : JoiningWords[w] \notin Bad
  BY DEF JoiningWords
<1> QED
  BY <1>1, <1>2, <1>3, <1>4

LEMMA WordBegins ==
  /\ \A w \in DOMAIN Keywords : w \in Begins(Keywords[w]) /\ w # "newline"
  /\ \A w \in DOMAIN Numbers : w \in Begins(Numbers[w]) /\ w # "newline"
  /\ \A w \in DOMAIN JoiningWords : w \in Begins(JoiningWords[w]) /\ w # "newline"
  /\ \A w \in Names : w \in Begins("Identifier") /\ w # "newline"
<1>1. \A t : t \notin DOMAIN Spelling /\ t \notin DOMAIN Opened /\ t \notin DOMAIN Closed
             /\ t \notin {"String", "Identifier", "Error"} =>
        Begins(t) = {w \in DOMAIN Keywords : Keywords[w] = t}
                    \union {w \in DOMAIN JoiningWords : JoiningWords[w] = t}
                    \union {w \in DOMAIN Numbers : Numbers[w] = t}
  BY DEF Begins
<1>2. \A w \in DOMAIN Keywords : w \in Begins(Keywords[w])
  BY <1>1, OperatorTypes, WordTypes
<1>3. \A w \in DOMAIN Numbers : w \in Begins(Numbers[w])
  BY <1>1, OperatorTypes, WordTypes
<1>4. \A w \in DOMAIN JoiningWords : w \in Begins(JoiningWords[w])
  BY <1>1, OperatorTypes, WordTypes
<1>5. Begins("Identifier") = Names
  <2>1. "Identifier" \notin DOMAIN Spelling
    BY OperatorTypes
  <2>2. "Identifier" \notin DOMAIN Opened /\ "Identifier" \notin DOMAIN Closed
    BY OpenedIs, ClosedIs, Zenon
  <2> QED
    BY <2>1, <2>2 DEF Begins
<1>6. \A w \in DOMAIN Keywords : w # "newline"
  BY DEF Keywords
<1>7. \A w \in DOMAIN Numbers : w # "newline"
  BY DEF Numbers
<1>8. \A w \in DOMAIN JoiningWords : w # "newline"
  BY DEF JoiningWords
<1>9. \A w \in Names : w # "newline"
  BY DEF Names
<1> QED
  BY <1>2, <1>3, <1>4, <1>5, <1>6, <1>7, <1>8, <1>9

LEMMA ClosingIs ==
  /\ ClosingSymbol["RParen"] = ")" /\ ClosingSymbol["RBrace"] = "}" /\ ClosingSymbol["RBracket"] = "]"
BY Zenon DEF ClosingSymbol

LEMMA SymbolBegins ==
  /\ \A t \in DOMAIN Opened : Opened[t] \in Begins(t) /\ Opened[t] # "newline"
  /\ \A t \in DOMAIN Closed : /\ ClosingSymbol[t] \in Begins(t) /\ ClosingSymbol[t] \in Begins("Error")
                              /\ ClosingSymbol[t] # "newline"
  /\ "invalid" \in Begins("Error") /\ "backslash" \in Begins("Error") /\ "!" \in Begins("Error")
  /\ "quote" \in Begins("String")
<1>1. \A t \in DOMAIN Opened : Opened[t] \in Begins(t)
  BY OperatorTypes, Zenon DEF Begins
<1>2. \A t \in DOMAIN Closed : ClosingSymbol[t] \in Begins(t)
  <2>1. \A t \in DOMAIN Closed : t \notin DOMAIN Opened
    BY OpenedIs, ClosedIs, Zenon
  <2> QED
    BY <2>1, OperatorTypes, Zenon DEF Begins
<1>3. Begins("Error") = {"invalid", "backslash", "!", ")", "}", "]"}
  <2>1. "Error" \notin DOMAIN Spelling
    BY OperatorTypes
  <2>2. "Error" \notin DOMAIN Opened /\ "Error" \notin DOMAIN Closed
    BY OpenedIs, ClosedIs, Zenon
  <2>3. "Error" # "String" /\ "Error" # "Identifier"
    OBVIOUS
  <2> QED
    BY <2>1, <2>2, <2>3, Zenon DEF Begins
<1>4. Begins("String") = {"quote"}
  <2>1. "String" \notin DOMAIN Spelling
    BY OperatorTypes
  <2>2. "String" \notin DOMAIN Opened /\ "String" \notin DOMAIN Closed
    BY OpenedIs, ClosedIs, Zenon
  <2>3. "String" # "Error" /\ "String" # "Identifier"
    OBVIOUS
  <2> QED
    BY <2>1, <2>2, <2>3, Zenon DEF Begins
<1>5. \A t \in DOMAIN Opened : Opened[t] # "newline"
  BY OpenedIs, Zenon
<1>6. \A t \in DOMAIN Closed : ClosingSymbol[t] \in Begins("Error") /\ ClosingSymbol[t] # "newline"
  BY <1>3, ClosedIs, ClosingIs, Zenon
<1>7. "invalid" \in Begins("Error") /\ "backslash" \in Begins("Error") /\ "!" \in Begins("Error")
      /\ "quote" \in Begins("String")
  BY <1>3, <1>4, Zenon
<1> QED
  BY <1>1, <1>2, <1>5, <1>6, <1>7

LEMMA OperatorBegins ==
  \A t \in DOMAIN Spelling : Begins(t) = {Spelling[t][1]}
BY DEF Begins

-----------------------------------------------------------------------------
(* The invariant: the scanner, and the string it is in, are in the line    *)
(* that is counted, and what was placed can be found.                      *)

Found(src, e) ==
  \E p \in DOMAIN src : \E s \in Int :
    src[p] \in Begins(e.t) /\ OnLine(src, p, e.line, s) /\ e.col = p - s

Unplaced == {"Newline", "End"}

AllFound(src, s) == \A i \in 2..Len(s) : s[i].t \notin Unplaced => Found(src, s[i])

PlaceInv ==
  /\ mode # "done" => OnLine(source, reader, line, lineStart)
  /\ mode = "string" => OnLine(source, token, line, lineStart)
  /\ AllFound(source, lexemes)
  /\ Reported(lexemes, errors)

LEMMA FoundAppended ==
  ASSUME NEW src, NEW s, IsList(s), Len(s) \in Nat \ {0}, NEW e,
         AllFound(src, s), e.t \in Unplaced \/ Found(src, e)
  PROVE  AllFound(src, Append(s, e))
<1>1. PICK n \in Nat \ {0} : n = Len(s)
  OBVIOUS
<1>2. Len(Append(s, e)) = n + 1 /\ Append(s, e)[n + 1] = e /\ \A i \in 1..n : Append(s, e)[i] = s[i]
  BY <1>1, AppendList
<1>3. \A i \in 2..(n + 1) : i = n + 1 \/ (i \in 2..n /\ i \in 1..n)
  OBVIOUS
<1> QED
  BY <1>1, <1>2, <1>3 DEF AllFound

(* The list without the Newline at its end.                                *)
LEMMA NewlineTakenFound ==
  ASSUME EndLast, AllFound(source, lexemes), Reported(lexemes, errors)
  PROVE  /\ IsList(WithoutNewline) /\ Len(WithoutNewline) \in Nat \ {0}
         /\ AllFound(source, WithoutNewline) /\ Reported(WithoutNewline, errors)
<1>1. CASE Last1 # "Newline"
  BY <1>1 DEF WithoutNewline, EndLast
<1>2. CASE Last1 = "Newline"
  <2>1. PICK f : f = WithoutNewline
    OBVIOUS
  <2>2. IsList(f) /\ Len(f) \in Nat \ {0}
    BY <1>2, <2>1, NewlineTaken
  <2>3. PICK e : e.t = "Newline" /\ Append(f, e) = lexemes
    BY <1>2, <2>1, NewlineTaken
  <2>4. PICK n \in Nat \ {0} : n = Len(f)
    BY <2>2
  <2>5. Len(lexemes) = n + 1 /\ \A i \in 1..n : lexemes[i] = f[i]
    BY <2>2, <2>3, <2>4, AppendList
  <2>6. AllFound(source, f)
    <3>1. \A i \in 2..n : i \in 1..n /\ i \in 2..(n + 1)
      OBVIOUS
    <3> QED
      BY <2>4, <2>5, <3>1 DEF AllFound
  <2>7. Reported(f, errors)
    <3>1. e.t # "Error"
      BY <2>3
    <3>2. Reported(f, errors) <=> Reported(Append(f, e), errors)
      BY <2>2, <2>4, <3>1, QuietPlaced
    <3> QED
      BY <2>3, <3>2
  <2> QED
    BY <2>1, <2>2, <2>6, <2>7
<1> QED
  BY <1>1, <1>2

(* Nothing is placed, and the scanner goes on in its line.                 *)
LEMMA ReadPlaced ==
  ASSUME PlaceInv, Scanning, mode # "done", mode' # "done", NEW n \in Nat, reader' = reader + n,
         \A i \in reader..(reader + n - 1) : source[i] # "newline",
         \/ mode' # "string"
         \/ mode = "string" /\ token' = token
         \/ token' = reader,
         UNCHANGED <<source, line, lineStart, lexemes, errors>>
  PROVE  PlaceInv'
<1>1. reader \in Nat \ {0}
  BY DEF Scanning, Within
<1>2. PICK q \in Nat \ {0} : q = reader + n
  BY <1>1
<1>3. OnLine(source, reader, line, lineStart)
  BY DEF PlaceInv
<1>4. reader <= q /\ \A i \in reader..(q - 1) : source[i] # "newline"
  BY <1>1, <1>2
<1>5. OnLine(source, q, line, lineStart)
  BY <1>1, <1>3, <1>4, SameLine
<1> QED
  BY <1>2, <1>3, <1>5 DEF PlaceInv

(* The scanner goes on to the next line; a Newline may be placed.          *)
LEMMA LinePlaced ==
  ASSUME PlaceInv, Scanning, EndLast, mode \in {"code", "comment"}, mode' = mode, reader' = reader + 1,
         source[reader] = "newline", line' = (line + 1) % LineMod, lineStart' = reader + 1,
         NEW e, e.t = "Newline", lexemes' \in {lexemes, Append(lexemes, e)},
         UNCHANGED <<source, errors>>
  PROVE  PlaceInv'
<1>1. reader \in Nat \ {0}
  BY DEF Scanning, Within
<1>2. OnLine(source, reader, line, lineStart)
  BY DEF PlaceInv
<1>3. OnLine(source, reader + 1, (line + 1) % LineMod, reader + 1)
  BY <1>1, <1>2, NextLine
<1>4. OnLine(source', reader', line', lineStart')
  BY <1>3
<1>5. IsList(lexemes) /\ Len(lexemes) \in Nat \ {0}
  BY DEF EndLast
<1>6. AllFound(source, lexemes')
  <2>1. e.t \in Unplaced
    BY DEF Unplaced
  <2>2. AllFound(source, Append(lexemes, e))
    BY <1>5, <2>1, FoundAppended DEF PlaceInv
  <2> QED
    BY <2>2 DEF PlaceInv
<1>7. Reported(lexemes', errors)
  <2>1. PICK n \in Nat : n = Len(lexemes)
    BY <1>5
  <2>2. e.t # "Error"
    OBVIOUS
  <2>3. Reported(lexemes, errors) <=> Reported(Append(lexemes, e), errors)
    BY <1>5, <2>1, <2>2, QuietPlaced
  <2> QED
    BY <2>3 DEF PlaceInv
<1>8. mode' # "string"
  OBVIOUS
<1> QED
  BY <1>4, <1>6, <1>7, <1>8 DEF PlaceInv

(* A lexeme is placed that begins at p, in the scanner's line.             *)
LEMMA LexemeFound ==
  ASSUME PlaceInv, Scanning, mode \in {"code", "string"}, mode' = "code",
         NEW list, IsList(list), Len(list) \in Nat \ {0}, AllFound(source, list),
         NEW p, p \in DOMAIN source, OnLine(source, p, line, lineStart),
         NEW e, e.line = line, e.col = p - lineStart, source[p] \in Begins(e.t),
         lexemes' = Append(list, e),
         NEW n \in Nat, reader' = reader + n,
         \A i \in reader..(reader + n - 1) : source[i] # "newline",
         \/ e.t # "Error" /\ errors' = errors /\ Reported(list, errors)
         \/ e.t = "Error" /\ errors' = Append(errors, line) /\ Reported(list, errors),
         UNCHANGED <<source, line, lineStart>>
  PROVE  PlaceInv'
<1>1. reader \in Nat \ {0} /\ lineStart \in Int
  BY DEF Scanning, Within
<1>2. PICK q \in Nat \ {0} : q = reader + n
  BY <1>1
<1>3. OnLine(source, reader, line, lineStart)
  BY DEF PlaceInv
<1>4. reader <= q /\ \A i \in reader..(q - 1) : source[i] # "newline"
  BY <1>1, <1>2
<1>5. OnLine(source, q, line, lineStart)
  BY <1>1, <1>3, <1>4, SameLine
<1>6. Found(source, e)
  BY <1>1 DEF Found
<1>7. AllFound(source, lexemes')
  BY <1>6, FoundAppended
<1>8. PICK m \in Nat : m = Len(list)
  OBVIOUS
<1>9. Reported(lexemes', errors')
  <2>1. CASE e.t # "Error"
    <3>1. Reported(list, errors) <=> Reported(Append(list, e), errors)
      BY <1>8, <2>1, QuietPlaced
    <3> QED
      BY <2>1, <3>1
  <2>2. CASE e.t = "Error"
    <3>1. Reported(list, errors) /\ errors' = Append(errors, e.line)
      BY <2>2
    <3>2. Reported(Append(list, e), Append(errors, e.line))
      BY <1>8, <2>2, <3>1, ErrorPlaced
    <3> QED
      BY <3>1, <3>2
  <2> QED
    BY <2>1, <2>2
<1> QED
  BY <1>2, <1>5, <1>7, <1>9 DEF PlaceInv

LEMMA FinishPlaced ==
  ASSUME PlaceInv, EndLast, NEW next, Finish(next)
  PROVE  PlaceInv'
<1>1. PICK e : e = Lexeme("End", NoName, line, next - lineStart)
  OBVIOUS
<1>2. e.t = "End" /\ lexemes' = Append(lexemes, e) /\ mode' = "done" /\ UNCHANGED <<source, errors>>
  BY <1>1 DEF Finish, Lexeme
<1>3. IsList(lexemes) /\ Len(lexemes) \in Nat \ {0}
  BY DEF EndLast
<1>4. AllFound(source, lexemes')
  <2>1. e.t \in Unplaced
    BY <1>2 DEF Unplaced
  <2> QED
    BY <1>2, <1>3, <2>1, FoundAppended DEF PlaceInv
<1>5. Reported(lexemes', errors)
  <2>1. PICK n \in Nat : n = Len(lexemes)
    BY <1>3
  <2>2. e.t # "Error"
    BY <1>2
  <2>3. Reported(lexemes, errors) <=> Reported(Append(lexemes, e), errors)
    BY <1>3, <2>1, <2>2, QuietPlaced
  <2> QED
    BY <1>2, <2>3 DEF PlaceInv
<1> QED
  BY <1>2, <1>4, <1>5 DEF PlaceInv

LEMMA LexPlaced ==
  ASSUME EndLast, Scanning, NEW L \in Nat, L = Len(source), Within(L), ~ContinuedLine, PlaceInv, Lex
  PROVE  PlaceInv'
<1>1. /\ mode # "done" => reader \in 1..(L + 1)
      /\ ~Ended /\ mode # "done" => reader \in 1..L
      /\ DOMAIN source = 1..L
  BY DEF Within, Ended, Scanning
<1>2. reader \in Int /\ token \in Int /\ lineStart \in Int
  BY DEF Within
<1>3. IsList(lexemes) /\ Len(lexemes) \in Nat \ {0} /\ AllFound(source, lexemes)
      /\ Reported(lexemes, errors)
  BY DEF EndLast, PlaceInv
<1>4. source \in Seq(Symbols)
  BY DEF Scanning
<1> USE DEF InCode, At
<1>5. ASSUME NEW n \in {1, 2}, mode # "done", mode' # "done", reader' = reader + n,
             source[reader] # "newline", n = 2 => source[reader + 1] # "newline",
             mode' # "string" \/ (mode = "string" /\ token' = token) \/ token' = reader,
             UNCHANGED <<source, line, lineStart, lexemes, errors>>
      PROVE  PlaceInv'
  <2>1. \A i \in reader..(reader + n - 1) : i = reader \/ (n = 2 /\ i = reader + 1)
    BY <1>2, <1>5
  <2>2. \A i \in reader..(reader + n - 1) : source[i] # "newline"
    BY <1>5, <2>1
  <2> QED
    BY <1>5, <2>2, ReadPlaced
<1>6. CASE Blank
  BY <1>5, <1>6 DEF Blank, Skip
<1>7. CASE NewLine
  <2>1. PICK e : e = Lexeme("Newline", NoName, line, reader - lineStart)
    OBVIOUS
  <2>2. e.t = "Newline" /\ lexemes' \in {lexemes, Append(lexemes, e)}
    BY <1>7, <2>1 DEF NewLine, Placed, Lexeme
  <2>3. /\ mode \in {"code", "comment"} /\ mode' = mode /\ reader' = reader + 1
        /\ source[reader] = "newline" /\ line' = (line + 1) % LineMod /\ lineStart' = reader + 1
        /\ UNCHANGED <<source, errors>>
    BY <1>7 DEF NewLine
  <2> QED
    BY <2>2, <2>3, LinePlaced
<1>8. CASE LineComment
  <2>1. PICK end \in reader..(L + 1) :
          (\A i \in reader..(end - 1) : source[i] # "newline") /\ Skip(end - reader)
    BY <1>8 DEF LineComment
  <2>2. PICK n \in Nat : n = end - reader
    BY <1>2, <2>1
  <2>3. end = reader + n
    BY <1>2, <2>1, <2>2
  <2>4. \A i \in reader..(reader + n - 1) : source[i] # "newline"
    <3>1. end - 1 = reader + n - 1
      BY <1>2, <2>1, <2>2
    <3> QED
      BY <2>1, <3>1
  <2>5. reader' = reader + n /\ token' = reader /\ mode = "code" /\ mode' = "code"
        /\ UNCHANGED <<source, line, lineStart, lexemes, errors>>
    BY <1>8, <2>1, <2>2 DEF Skip, LineComment
  <2> QED
    BY <2>4, <2>5, ReadPlaced
<1>9. \A s \in Signs : s # "newline"
  BY DEF Signs
<1>10. Spelling["BlockComment"] = <<"/", "*">>
  BY DEF Spelling, PairSpelling, SignSpelling
<1>11. ASSUME Operator = "BlockComment", reader \in 1..(L + 1)
       PROVE  source[reader] # "newline" /\ source[reader + 1] # "newline"
  <2>1. PICK n \in 1..3 :
          /\ n = Len(Spelling[Operator]) /\ reader + n <= L + 1
          /\ \A i \in 1..n : source[reader + i - 1] = Spelling[Operator][i]
    BY <1>4, <1>11, OperatorRead
  <2>2. n = 2
    <3>1. \A a, b : Len(<<a, b>>) = 2
      OBVIOUS
    <3>2. Len(Spelling[Operator]) = 2
      BY <1>10, <1>11, <3>1
    <3> QED
      BY <2>1, <3>2
  <2>3. Spelling[Operator][1] = "/" /\ Spelling[Operator][2] = "*"
    BY <1>10, <1>11
  <2>4. 1 \in 1..n /\ 2 \in 1..n /\ reader + 1 - 1 = reader /\ reader + 2 - 1 = reader + 1
    BY <1>2, <2>2
  <2> QED
    BY <2>1, <2>3, <2>4
<1>12. CASE BeginComment
  BY <1>1, <1>5, <1>11, <1>12 DEF BeginComment
<1>13. CASE BeginString
  BY <1>1, <1>5, <1>13 DEF BeginString
<1>14. ASSUME NEW list, NEW t, NEW x, NEW n \in 1..3, mode = "code", ~Ended, Put(list, t, x, n),
              IsList(list), Len(list) \in Nat \ {0}, AllFound(source, list), Reported(list, errors),
              source[reader] \in Begins(t),
              \A i \in reader..(reader + n - 1) : source[i] # "newline",
              \/ t # "Error" /\ errors' = errors
              \/ t = "Error" /\ errors' = Append(errors, line)
       PROVE  PlaceInv'
  <2>1. PICK e : e = Lexeme(t, x, line, reader - lineStart)
    OBVIOUS
  <2>2. e.t = t /\ e.line = line /\ e.col = reader - lineStart
    BY <2>1 DEF Lexeme
  <2>3. lexemes' = Append(list, e) /\ reader' = reader + n /\ mode' = "code"
        /\ UNCHANGED <<source, line, lineStart>>
    BY <1>14, <2>1 DEF Put, Placed
  <2>4. reader \in DOMAIN source
    BY <1>1, <1>14
  <2>5. OnLine(source, reader, line, lineStart)
    BY <1>14 DEF PlaceInv
  <2>6. \/ e.t # "Error" /\ errors' = errors /\ Reported(list, errors)
        \/ e.t = "Error" /\ errors' = Append(errors, line) /\ Reported(list, errors)
    BY <1>14, <2>2
  <2>7. source[reader] \in Begins(e.t) /\ mode \in {"code", "string"}
    BY <1>14, <2>2
  <2> QED
    BY <1>14, <2>2, <2>3, <2>4, <2>5, <2>6, <2>7, LexemeFound
<1>15. ASSUME NEW list, NEW t, NEW x, mode = "code", ~Ended, Put(list, t, x, 1),
              IsList(list), Len(list) \in Nat \ {0}, AllFound(source, list), Reported(list, errors),
              source[reader] \in Begins(t), source[reader] # "newline",
              \/ t # "Error" /\ errors' = errors
              \/ t = "Error" /\ errors' = Append(errors, line)
       PROVE  PlaceInv'
  <2>1. \A i \in reader..(reader + 1 - 1) : i = reader
    BY <1>2
  <2>2. \A i \in reader..(reader + 1 - 1) : source[i] # "newline"
    BY <1>15, <2>1
  <2> QED
    BY <1>14, <1>15, <2>2
<1>16. CASE PlaceOperator
  <2>1. PICK t : t = Operator
    OBVIOUS
  <2>2. mode = "code" /\ t # "none" /\ errors' = errors /\ Put(lexemes, t, NoName, Len(Spelling[t]))
    BY <1>16, <2>1 DEF PlaceOperator
  <2>3. PICK n \in 1..3 :
          /\ n = Len(Spelling[t]) /\ reader + n <= L + 1
          /\ \A i \in 1..n : source[reader + i - 1] = Spelling[t][i]
    BY <1>1, <1>4, <2>1, <2>2, OperatorRead
  <2>4. t \in DOMAIN Spelling
    BY <2>1, <2>2, OperatorFits
  <2>5. \A i \in 1..n : Spelling[t][i] \in Signs
    BY <2>3, <2>4, Spellings
  <2>6. \A i \in reader..(reader + n - 1) : source[i] # "newline"
    <3> TAKE i \in reader..(reader + n - 1)
    <3>1. PICK j \in 1..n : j = i - reader + 1
      BY <1>2
    <3>2. reader + j - 1 = i
      BY <1>2, <3>1
    <3> QED
      BY <1>9, <2>3, <2>5, <3>2
  <2>7. ~Ended
    <3>1. reader \in 1..(L + 1) /\ reader <= L
      BY <1>1, <2>2, <2>3
    <3> QED
      BY <3>1 DEF Ended
  <2>8. source[reader] \in Begins(t)
    <3>1. 1 \in 1..n /\ reader + 1 - 1 = reader
      BY <1>2
    <3>2. source[reader] = Spelling[t][1]
      BY <2>3, <3>1
    <3> QED
      BY <2>4, <3>2, OperatorBegins
  <2>9. t # "Error"
    BY <2>4, OperatorTypes
  <2>10. Put(lexemes, t, NoName, n)
    BY <2>2, <2>3
  <2> QED
    BY <1>3, <1>14, <2>2, <2>6, <2>7, <2>8, <2>9, <2>10
<1>17. CASE PlaceNumber \/ PlaceKeyword
  <2>1. PICK t : mode = "code" /\ ~Ended /\ Put(lexemes, t, (IF PlaceNumber THEN source[reader] ELSE NoName), 1)
                 /\ errors' = errors
                 /\ \/ source[reader] \in DOMAIN Numbers /\ t = Numbers[source[reader]]
                    \/ source[reader] \in DOMAIN Keywords /\ t = Keywords[source[reader]]
    BY <1>17 DEF PlaceNumber, PlaceKeyword
  <2>2. source[reader] \in Begins(t) /\ source[reader] # "newline" /\ t # "Error"
    BY <2>1, WordBegins, WordTypes
  <2> QED
    BY <1>3, <1>15, <2>1, <2>2
<1>18. CASE PlaceJoining
  <2>1. PICK t : mode = "code" /\ ~Ended /\ Put(WithoutNewline, t, NoName, 1) /\ errors' = errors
                 /\ source[reader] \in DOMAIN JoiningWords /\ t = JoiningWords[source[reader]]
    BY <1>18 DEF PlaceJoining
  <2>2. source[reader] \in Begins(t) /\ source[reader] # "newline" /\ t # "Error"
    BY <2>1, WordBegins, WordTypes
  <2>3. IsList(WithoutNewline) /\ Len(WithoutNewline) \in Nat \ {0}
        /\ AllFound(source, WithoutNewline) /\ Reported(WithoutNewline, errors)
    BY <1>3, NewlineTakenFound
  <2> QED
    BY <1>15, <2>1, <2>2, <2>3
<1>19. CASE PlaceIdentifier
  <2>1. mode = "code" /\ ~Ended /\ Put(lexemes, "Identifier", source[reader], 1) /\ errors' = errors
        /\ source[reader] \in Names
    BY <1>19 DEF PlaceIdentifier
  <2>2. source[reader] \in Begins("Identifier") /\ source[reader] # "newline" /\ "Identifier" # "Error"
    BY <2>1, WordBegins
  <2> QED
    BY <1>3, <1>15, <2>1, <2>2
<1>20. CASE \E t \in DOMAIN Opened : Open(t)
  <2>1. PICK t \in DOMAIN Opened : Open(t)
    BY <1>20
  <2>2. mode = "code" /\ ~Ended /\ source[reader] = Opened[t] /\ Put(lexemes, t, NoName, 1)
        /\ errors' = errors
    BY <2>1 DEF Open
  <2>3. t # "Error"
    BY <2>1, OpenedIs, Zenon
  <2>4. source[reader] \in Begins(t) /\ source[reader] # "newline"
    BY <2>2, SymbolBegins
  <2> QED
    BY <1>3, <1>15, <2>2, <2>3, <2>4
<1>21. CASE \E t \in DOMAIN Closed : Close(t)
  <2>1. PICK t \in DOMAIN Closed : Close(t)
    BY <1>21
  <2>2. PICK list : list = IF t = "RBrace" THEN WithoutNewline ELSE lexemes
    OBVIOUS
  <2>3. mode = "code" /\ ~Ended /\ source[reader] = ClosingSymbol[t] /\ Put(list, t, NoName, 1)
        /\ errors' = errors
    BY <2>1, <2>2 DEF Close
  <2>4. t # "Error"
    BY <2>1, ClosedIs, Zenon
  <2>5. source[reader] \in Begins(t) /\ source[reader] # "newline"
    BY <2>3, SymbolBegins
  <2>6. IsList(list) /\ Len(list) \in Nat \ {0} /\ AllFound(source, list) /\ Reported(list, errors)
    BY <1>3, <2>2, NewlineTakenFound
  <2> QED
    BY <1>15, <2>3, <2>4, <2>5, <2>6
<1>22. CASE \E t \in DOMAIN Closed : Misclose(t)
  <2>1. PICK t \in DOMAIN Closed : Misclose(t)
    BY <1>22
  <2>2. mode = "code" /\ ~Ended /\ source[reader] = ClosingSymbol[t] /\ Put(lexemes, "Error", NoName, 1)
        /\ errors' = Append(errors, line)
    BY <2>1 DEF Misclose
  <2>3. source[reader] \in Begins("Error") /\ source[reader] # "newline"
    BY <2>2, SymbolBegins
  <2> QED
    BY <1>3, <1>15, <2>2, <2>3
<1>23. CASE Invalid
  <2>1. mode = "code" /\ ~Ended /\ source[reader] \in {"invalid", "backslash", "!"}
    BY <1>23 DEF Invalid
  <2>2. source[reader] \in Begins("Error") /\ source[reader] # "newline"
    BY <2>1, SymbolBegins
  <2>3. CASE Last1 = "Error"
    BY <1>5, <1>23, <2>1, <2>2, <2>3 DEF Invalid, Skip
  <2>4. CASE Last1 # "Error"
    <3>1. Put(lexemes, "Error", NoName, 1) /\ errors' = Append(errors, line)
      BY <1>23, <2>4 DEF Invalid
    <3> QED
      BY <1>3, <1>15, <2>1, <2>2, <3>1
  <2> QED
    BY <2>3, <2>4
<1>24. CASE EndOfText \/ CutString \/ CutComment
  <2>1. Finish(reader + 1)
    BY <1>24 DEF EndOfText, CutString, CutComment
  <2> QED
    BY <2>1, FinishPlaced
<1>25. CASE StringChar
  BY <1>5, <1>25 DEF StringChar, Read
<1>26. CASE CommentChar
  <2>1. mode = "comment" /\ source[reader] # "newline" /\ Read(1)
    BY <1>26 DEF CommentChar, InComment
  <2> QED
    BY <1>5, <2>1 DEF Read
<1>27. CASE Escape
  <2>1. mode = "string" /\ source[reader] = "backslash" /\ reader < L /\ Read(2)
    BY <1>27 DEF Escape, Escaping
  <2>2. source[reader + 1] # "newline"
    <3>1. reader \in 1..(L - 1)
      BY <1>1, <2>1
    <3> QED
      BY <2>1, <3>1 DEF ContinuedLine
  <2> QED
    BY <1>5, <2>1, <2>2 DEF Read
<1>28. CASE CommentOpens
  <2>1. mode = "comment" /\ Operator = "BlockComment"
    BY <1>28 DEF CommentOpens, InComment
  <2> QED
    BY <1>1, <1>5, <1>11, <1>28, <2>1 DEF CommentOpens
<1>29. CASE CommentCloses
  <2>1. mode = "comment" /\ mode' \in {"code", "comment"}
        /\ source[reader] = "*" /\ source[reader + 1] = "/" /\ reader' = reader + 2
        /\ UNCHANGED <<source, line, lineStart, lexemes, errors>>
    BY <1>29 DEF CommentCloses, InComment, Closing
  <2> QED
    BY <1>5, <2>1
<1>30. CASE CommentNewLine
  <2>1. PICK e : e = Lexeme("Newline", NoName, line', token - lineStart')
    OBVIOUS
  <2>2. e.t = "Newline" /\ lexemes' \in {lexemes, Append(lexemes, e)}
    BY <1>30, <2>1 DEF CommentNewLine, PlacedAtToken, Lexeme
  <2>3. /\ mode \in {"code", "comment"} /\ mode' = mode /\ reader' = reader + 1
        /\ source[reader] = "newline" /\ line' = (line + 1) % LineMod /\ lineStart' = reader + 1
        /\ UNCHANGED <<source, errors>>
    BY <1>30 DEF CommentNewLine, InComment
  <2> QED
    BY <2>2, <2>3, LinePlaced
<1>31. CASE CloseString
  <2>1. PICK e : e = Lexeme("String", NoName, line, token - lineStart)
    OBVIOUS
  <2>2. e.t = "String" /\ e.line = line /\ e.col = token - lineStart
    BY <2>1 DEF Lexeme
  <2>3. /\ mode = "string" /\ mode' = "code" /\ lexemes' = Append(lexemes, e)
        /\ reader' = reader + 1 /\ ~Ended /\ source[reader] = "quote"
        /\ UNCHANGED <<source, line, lineStart, errors>>
    BY <1>31, <2>1 DEF CloseString, PlacedAtToken
  <2>4. source[token] = "quote" /\ token \in DOMAIN source
    BY <1>1, <2>3 DEF Within
  <2>5. OnLine(source, token, line, lineStart)
    BY <2>3 DEF PlaceInv
  <2>6. \A i \in reader..(reader + 1 - 1) : source[i] # "newline"
    <3>1. \A i \in reader..(reader + 1 - 1) : i = reader
      BY <1>2
    <3> QED
      BY <2>3, <3>1
  <2>7. source[token] \in Begins(e.t) /\ e.t # "Error" /\ mode \in {"code", "string"}
    BY <2>2, <2>3, <2>4, SymbolBegins
  <2> QED
    BY <1>3, <2>2, <2>3, <2>4, <2>5, <2>6, <2>7, LexemeFound
<1> QED
  BY <1>6, <1>7, <1>8, <1>12, <1>13, <1>16, <1>17, <1>18, <1>19, <1>20, <1>21, <1>22, <1>23, <1>24,
     <1>25, <1>26, <1>27, <1>28, <1>29, <1>30, <1>31 DEF Lex

-----------------------------------------------------------------------------
(* Places are right.                                                       *)

PInv == TInv /\ (stage = "lexing" /\ ~ContinuedLine => PlaceInv)

LEMMA InitPInv == InitFrontEnd => PInv
<1> SUFFICES ASSUME InitFrontEnd PROVE PInv
  OBVIOUS
<1>1. TInv
  BY InitTInv
<1>2. /\ reader = 1 /\ mode = "code" /\ line = 1 /\ lineStart = 1 /\ errors = <<>>
      /\ lexemes = <<Lexeme("Semicolon", NoName, 0, 0)>>
  BY DEF InitFrontEnd, Init
<1>3. OnLine(source, 1, 1, 1)
  <2>1. NewlinesBefore(source, 1) = {}
    BY DEF NewlinesBefore
  <2>2. Cardinality(NewlinesBefore(source, 1)) = 0
    BY <2>1, FS_EmptySet
  <2> QED
    BY <2>2 DEF OnLine, LineMod
<1>4. PICK e : e = Lexeme("Semicolon", NoName, 0, 0)
  OBVIOUS
<1>5. e.t = "Semicolon" /\ lexemes = <<e>>
  BY <1>2, <1>4 DEF Lexeme
<1>6. Len(lexemes) = 1 /\ lexemes[1] = e
  BY <1>5
<1>7. AllFound(source, lexemes)
  BY <1>6 DEF AllFound
<1>8. Reported(lexemes, errors)
  <2>1. MarksIn(lexemes, 1) = {}
    BY <1>5, <1>6 DEF MarksIn
  <2>2. Cardinality(MarksIn(lexemes, 1)) = 0
    BY <2>1, FS_EmptySet
  <2>3. IsList(errors) /\ Len(errors) = 0
    BY <1>2, EmptySeq DEF IsList
  <2> QED
    BY <1>6, <2>1, <2>2, <2>3 DEF Reported
<1> QED
  BY <1>1, <1>2, <1>3, <1>7, <1>8 DEF PInv, PlaceInv

LEMMA NextPInv == PInv /\ [Next]_vars => PInv'
<1> SUFFICES ASSUME PInv, [Next]_vars, stage' = "lexing", ~ContinuedLine' PROVE PlaceInv'
  BY NextTInv DEF PInv
<1>1. CASE LexStep
  <2>1. Lex /\ stage = "lexing"
    BY <1>1 DEF LexStep
  <2>2. PICK L \in Nat : L = Len(source) /\ Within(L)
    BY Sized DEF PInv, TInv
  <2>3. source' = source
    BY <2>1, <2>2, LexWithin DEF PInv, TInv, Scanning
  <2>4. ~ContinuedLine
    BY <2>3 DEF ContinuedLine
  <2> QED
    BY <2>1, <2>2, <2>4, LexPlaced DEF PInv, TInv, IInv
<1>2. CASE ~LexStep
  <2>1. UNCHANGED vars
    BY <1>2 DEF Next, ReportLexer, BeginParse, ParserStep, EndParse
  <2>2. UNCHANGED <<source, reader, token, mode, line, lineStart, lexemes, errors, stage>>
    BY <2>1 DEF vars, lexerVars
  <2>3. ~ContinuedLine
    BY <2>2 DEF ContinuedLine
  <2> QED
    BY <2>2, <2>3 DEF PInv, PlaceInv
<1> QED
  BY <1>1, <1>2

(* For every text in which no string goes on over a line end, the line and *)
(* column of each lexeme placed lead to the symbol it begins with, and the *)
(* errors reported name the lines of the Error lexemes, in their order.    *)
THEOREM PlacesAlwaysRight == Spec => []PlacesRight
<1>1. PInv => PlacesRight
  <2> SUFFICES ASSUME PInv, stage = "lexing", ~ContinuedLine
               PROVE  LET Marks(n) == {i \in 1..n : lexemes[i].t = "Error"} IN
                      /\ \A i \in 2..Len(lexemes) : lexemes[i].t \notin {"Newline", "End"} =>
                           \E p \in DOMAIN source :
                             /\ source[p] \in Begins(lexemes[i].t)
                             /\ Place(p, lexemes[i].line, lexemes[i].col)
                      /\ Len(errors) = Cardinality(Marks(Len(lexemes)))
                      /\ \A i \in Marks(Len(lexemes)) : errors[Cardinality(Marks(i))] = lexemes[i].line
    BY DEF PlacesRight
  <2> DEFINE Marks(n) == {i \in 1..n : lexemes[i].t = "Error"}
  <2>1. AllFound(source, lexemes) /\ Reported(lexemes, errors)
    BY DEF PInv, PlaceInv
  <2>2. \A n : Marks(n) = MarksIn(lexemes, n)
    BY DEF MarksIn
  <2>3. ASSUME NEW i \in 2..Len(lexemes), lexemes[i].t \notin {"Newline", "End"}
        PROVE  \E p \in DOMAIN source :
                 source[p] \in Begins(lexemes[i].t) /\ Place(p, lexemes[i].line, lexemes[i].col)
    <3>1. PICK e : e = lexemes[i]
      OBVIOUS
    <3>2. Found(source, e)
      BY <2>1, <2>3, <3>1 DEF AllFound, Unplaced
    <3>3. PICK p \in DOMAIN source : \E s \in Int :
            source[p] \in Begins(e.t) /\ OnLine(source, p, e.line, s) /\ e.col = p - s
      BY <3>2 DEF Found
    <3>4. PICK s \in Int : source[p] \in Begins(e.t) /\ OnLine(source, p, e.line, s) /\ e.col = p - s
      BY <3>3
    <3>5. p \in Int
      BY DEF PInv, TInv, Scanning
    <3>6. Place(p, e.line, e.col)
      BY <3>4, <3>5, OnLinePlace
    <3> QED
      BY <3>1, <3>4, <3>6
  <2> HIDE DEF Marks
  <2>4. /\ Len(errors) = Cardinality(Marks(Len(lexemes)))
        /\ \A i \in Marks(Len(lexemes)) : errors[Cardinality(Marks(i))] = lexemes[i].line
    BY <2>1, <2>2 DEF Reported
  <2> QED
    BY <2>3, <2>4 DEF Marks
<1>2. Spec => []PInv
  BY InitPInv, NextPInv, PTL DEF Spec
<1> QED
  BY <1>1, <1>2, PTL

-----------------------------------------------------------------------------
(* A script without errors was parsed to its end.  The calls under way are *)
(* inside the brackets that are open, each in its own, so the outermost    *)
(* call cannot return at a closing bracket.                                *)

(* The bracket that call f has read and waits to see closed.               *)
BracketOf == [Paren |-> "LParen", CodeBlock |-> "LBrace", Array |-> "LBracket", Index |-> "LBracket",
              Call |-> "LParen", Function |-> "LParen", Recurse |-> "LParen"]

Inside(x, f) ==
  IF f.k = "close" THEN Append(x, BracketOf[f.t])
  ELSE IF f.k \in {"nud", "led"} /\ f.t \in Openings THEN Append(x, f.t)
  ELSE x

(* x are the brackets of the calls fs, the outermost first: d[i] are those *)
(* of the i calls at the bottom.                                           *)
InsideBy(d, fs, x) ==
  /\ d[0] = <<>> /\ d[Len(fs)] = x
  /\ \A i \in 0..Len(fs) : d[i] \in Seq(Openings)
  /\ \A i \in 1..Len(fs) : d[i] = Inside(d[i - 1], fs[Len(fs) + 1 - i])

AreInside(fs, x) == \E d : InsideBy(d, fs, x)

(* The outermost call is expression_(def_block_bindp).                     *)
Outermost(fs) ==
  fs # <<>> => fs[Len(fs)].k \in {"expr", "loop"} /\ fs[Len(fs)].b = DefBlockBindp

-----------------------------------------------------------------------------
(* Calls and returns.                                                      *)

LEMMA ListParts ==
  ASSUME NEW s, IsList(s), NEW f
  PROVE  /\ IsList(<<f>> \o s) /\ Len(<<f>> \o s) = Len(s) + 1
         /\ (<<f>> \o s)[1] = f /\ \A i \in 1..Len(s) : (<<f>> \o s)[i + 1] = s[i]
<1>1. PICK S : s \in Seq(S)
  BY DEF IsList
<1>2. <<f>> \in Seq(S \union {f}) /\ s \in Seq(S \union {f})
  BY <1>1, SeqMonotonic
<1>3. Len(<<f>>) = 1 /\ <<f>>[1] = f
  OBVIOUS
<1>4. PICK n \in Nat : n = Len(s)
  BY <1>1
<1>5. /\ <<f>> \o s \in Seq(S \union {f}) /\ Len(<<f>> \o s) = 1 + n
      /\ \A i \in 1..(1 + n) : (<<f>> \o s)[i] = IF i <= 1 THEN <<f>>[i] ELSE s[i - 1]
  BY <1>2, <1>3, <1>4, ConcatProperties
<1>6. 1 \in 1..(1 + n) /\ \A i \in 1..n : i + 1 \in 1..(1 + n) /\ ~(i + 1 <= 1) /\ i + 1 - 1 = i
  BY <1>4
<1> QED
  BY <1>3, <1>4, <1>5, <1>6 DEF IsList

LEMMA CallInside ==
  ASSUME NEW s, IsList(s), NEW f, NEW x, AreInside(s, x), Inside(x, f) \in Seq(Openings)
  PROVE  AreInside(<<f>> \o s, Inside(x, f))
<1>1. PICK n \in Nat : n = Len(s)
  BY DEF IsList
<1>2. PICK d : InsideBy(d, s, x)
  BY DEF AreInside
<1>3. PICK r : r = <<f>> \o s
  OBVIOUS
<1>4. Len(r) = n + 1 /\ r[1] = f /\ \A i \in 1..n : r[i + 1] = s[i]
  BY <1>1, <1>3, ListParts
<1>5. PICK e : e = [i \in 0..(n + 1) |-> IF i = n + 1 THEN Inside(x, f) ELSE d[i]]
  OBVIOUS
<1>6. e[n + 1] = Inside(x, f) /\ \A i \in 0..n : e[i] = d[i]
  BY <1>5
<1>7. e[0] = <<>>
  BY <1>2, <1>6 DEF InsideBy
<1>8. ASSUME NEW i \in 1..(n + 1)
      PROVE  e[i] = Inside(e[i - 1], r[n + 2 - i])
  <2>1. CASE i = n + 1
    <3>1. i - 1 = n /\ n + 2 - i = 1 /\ n \in 0..n
      BY <2>1
    <3>2. d[n] = x
      BY <1>1, <1>2 DEF InsideBy
    <3> QED
      BY <1>4, <1>6, <2>1, <3>1, <3>2
  <2>2. CASE i # n + 1
    <3>1. i \in 1..n /\ i \in 0..n /\ i - 1 \in 0..n /\ n + 1 - i \in 1..n /\ n + 2 - i = (n + 1 - i) + 1
      BY <1>8, <2>2
    <3>2. d[i] = Inside(d[i - 1], s[n + 1 - i])
      BY <1>1, <1>2, <3>1 DEF InsideBy
    <3>3. r[n + 2 - i] = s[n + 1 - i]
      BY <1>4, <3>1
    <3> QED
      BY <1>6, <3>1, <3>2, <3>3
  <2> QED
    BY <2>1, <2>2
<1>9. InsideBy(e, r, Inside(x, f))
  <2>1. n + 1 + 1 = n + 2 /\ \A i \in 0..(n + 1) : i = n + 1 \/ i \in 0..n
    OBVIOUS
  <2>2. \A i \in 0..(n + 1) : e[i] \in Seq(Openings)
    BY <1>1, <1>2, <1>6, <2>1 DEF InsideBy
  <2> QED
    BY <1>4, <1>6, <1>7, <1>8, <2>1, <2>2 DEF InsideBy
<1> QED
  BY <1>3, <1>9 DEF AreInside

LEMMA TailParts ==
  ASSUME NEW s, IsList(s), s # <<>>
  PROVE  /\ IsList(Tail(s)) /\ Len(s) \in Nat \ {0} /\ Len(Tail(s)) = Len(s) - 1
         /\ \A i \in 1..(Len(s) - 1) : Tail(s)[i] = s[i + 1]
<1>1. PICK S : s \in Seq(S)
  BY DEF IsList
<1>2. Len(s) \in Nat \ {0}
  BY <1>1, EmptySeq
<1>3. /\ Tail(s) \in Seq(S) /\ Len(Tail(s)) = Len(s) - 1
      /\ \A i \in 1..Len(Tail(s)) : Tail(s)[i] = s[i + 1]
  BY <1>1, HeadTailProperties
<1> QED
  BY <1>2, <1>3 DEF IsList

LEMMA ReturnInside ==
  ASSUME NEW s, IsList(s), s # <<>>, NEW x, AreInside(s, x)
  PROVE  \E y : AreInside(Tail(s), y) /\ x = Inside(y, s[1])
<1>1. PICK n \in Nat \ {0} : n = Len(s)
  BY TailParts
<1>2. PICK d : InsideBy(d, s, x)
  BY DEF AreInside
<1>3. PICK r : r = Tail(s)
  OBVIOUS
<1>4. Len(r) = n - 1 /\ \A i \in 1..(n - 1) : r[i] = s[i + 1]
  BY <1>1, <1>3, TailParts
<1>5. PICK m \in Nat : m = n - 1
  BY <1>1
<1>6. \A i \in 1..m : d[i] = Inside(d[i - 1], r[m + 1 - i])
  <2> TAKE i \in 1..m
  <2>1. i \in 1..n /\ m + 1 - i \in 1..(n - 1) /\ (m + 1 - i) + 1 = n + 1 - i
    BY <1>5
  <2>2. d[i] = Inside(d[i - 1], s[n + 1 - i])
    BY <1>1, <1>2, <2>1 DEF InsideBy
  <2>3. r[m + 1 - i] = s[n + 1 - i]
    BY <1>4, <2>1
  <2> QED
    BY <2>2, <2>3
<1>7. InsideBy(d, r, d[m])
  <2>1. \A i \in 0..m : i \in 0..n
    BY <1>5
  <2> QED
    BY <1>1, <1>2, <1>4, <1>5, <1>6, <2>1 DEF InsideBy
<1>8. x = Inside(d[m], s[1])
  <2>1. n \in 1..n /\ n + 1 - n = 1 /\ n - 1 = m
    BY <1>5
  <2>2. d[n] = Inside(d[n - 1], s[n + 1 - n])
    BY <1>1, <1>2, <2>1 DEF InsideBy
  <2> QED
    BY <1>1, <1>2, <2>1, <2>2 DEF InsideBy
<1> QED
  BY <1>3, <1>7, <1>8 DEF AreInside

LEMMA InsideList == \A s, x : IsList(s) /\ AreInside(s, x) => x \in Seq(Openings)
<1> SUFFICES ASSUME NEW s, NEW x, IsList(s), AreInside(s, x) PROVE x \in Seq(Openings)
  OBVIOUS
<1>1. PICK n \in Nat : n = Len(s)
  BY DEF IsList
<1>2. PICK d : InsideBy(d, s, x)
  BY DEF AreInside
<1>3. n \in 0..n
  OBVIOUS
<1> QED
  BY <1>1, <1>2, <1>3 DEF InsideBy

LEMMA NoneInside == \A x : AreInside(<<>>, x) => x = <<>>
BY DEF AreInside, InsideBy

LEMMA OneInside == \A f : Inside(<<>>, f) = <<>> => AreInside(<<f>>, <<>>)
<1> TAKE f
<1> HAVE Inside(<<>>, f) = <<>>
<1>1. Len(<<f>>) = 1 /\ <<f>>[1] = f
  OBVIOUS
<1>2. PICK d : d = [i \in 0..1 |-> <<>>]
  OBVIOUS
<1>3. d[0] = <<>> /\ d[1] = <<>>
  BY <1>2
<1>4. InsideBy(d, <<f>>, <<>>)
  <2>1. \A i \in 1..1 : i = 1 /\ i - 1 = 0 /\ 1 + 1 - i = 1
    OBVIOUS
  <2>2. \A i \in 0..1 : d[i] = <<>>
    BY <1>2
  <2>3. \A i \in 0..1 : d[i] \in Seq(Openings)
    BY <2>2, EmptySeq
  <2> QED
    BY <1>1, <1>3, <2>1, <2>3 DEF InsideBy
<1> QED
  BY <1>4 DEF AreInside

(* The outermost call stays what it is under the calls it makes.           *)
LEMMA CallOutermost ==
  ASSUME NEW s, IsList(s), NEW f, Outermost(s), s # <<>> \/ (f.k \in {"expr", "loop"} /\ f.b = DefBlockBindp)
  PROVE  Outermost(<<f>> \o s)
<1>1. PICK n \in Nat : n = Len(s)
  BY DEF IsList
<1>2. PICK r : r = <<f>> \o s
  OBVIOUS
<1>3. Len(r) = n + 1 /\ r[1] = f /\ \A i \in 1..n : r[i + 1] = s[i]
  BY <1>1, <1>2, ListParts
<1>4. CASE s = <<>>
  <2>1. n = 0
    BY <1>1, <1>4
  <2> QED
    BY <1>2, <1>3, <1>4, <2>1 DEF Outermost
<1>5. CASE s # <<>>
  <2>1. n \in 1..n
    BY <1>1, <1>5, TailParts
  <2>2. r[n + 1] = s[n]
    BY <1>3, <2>1
  <2> QED
    BY <1>1, <1>2, <1>3, <1>5, <2>2 DEF Outermost
<1> QED
  BY <1>4, <1>5

LEMMA ReturnOutermost ==
  ASSUME NEW s, IsList(s), s # <<>>, Outermost(s)
  PROVE  /\ Outermost(Tail(s))
         /\ Tail(s) = <<>> => s[1].k \in {"expr", "loop"} /\ s[1].b = DefBlockBindp
<1>1. PICK n \in Nat \ {0} : n = Len(s)
  BY TailParts
<1>2. PICK r : r = Tail(s)
  OBVIOUS
<1>3. IsList(r) /\ Len(r) = n - 1 /\ \A i \in 1..(n - 1) : r[i] = s[i + 1]
  BY <1>1, <1>2, TailParts
<1>4. CASE r = <<>>
  <2>1. n = 1
    <3>1. PICK k : k = Len(r)
      OBVIOUS
    <3>2. k = 0 /\ k = n - 1
      BY <1>3, <1>4, <3>1
    <3> QED
      BY <3>2
  <2> QED
    BY <1>1, <1>2, <1>4, <2>1 DEF Outermost
<1>5. CASE r # <<>>
  <2>1. PICK m \in Nat \ {0} : m = Len(r)
    BY <1>3, <1>5, TailParts
  <2>2. m \in 1..(n - 1) /\ m + 1 = n
    BY <1>1, <1>3, <2>1
  <2>3. r[m] = s[n]
    BY <1>3, <2>2
  <2> QED
    BY <1>1, <1>2, <1>5, <2>1, <2>3 DEF Outermost
<1> QED
  BY <1>4, <1>5

LEMMA TwoCalls == \A f, h, s : IsList(s) => <<f, h>> \o s = <<f>> \o (<<h>> \o s)
<1> SUFFICES ASSUME NEW f, NEW h, NEW s, IsList(s) PROVE <<f, h>> \o s = <<f>> \o (<<h>> \o s)
  OBVIOUS
<1>1. PICK S : s \in Seq(S)
  BY DEF IsList
<1>2. s \in Seq(S \union {f, h}) /\ <<f>> \in Seq(S \union {f, h}) /\ <<h>> \in Seq(S \union {f, h})
  BY <1>1, SeqMonotonic
<1>3. <<f, h>> = <<f>> \o <<h>>
  <2>1. <<h>> \in Seq({f, h}) /\ <<f>> \in Seq({f, h}) /\ <<f, h>> \in Seq({f, h})
    OBVIOUS
  <2>2. Len(<<h>>) = 1 /\ <<h>>[1] = h /\ IsList(<<h>>)
    BY <2>1 DEF IsList
  <2>3. PICK r : r = <<f>> \o <<h>>
    OBVIOUS
  <2>4. r \in Seq({f, h})
    BY <2>1, <2>3, ConcatProperties
  <2>5. Len(r) = 1 + 1 /\ r[1] = f /\ r[1 + 1] = h
    BY <2>2, <2>3, ListParts
  <2>6. Len(<<f, h>>) = 2 /\ <<f, h>>[1] = f /\ <<f, h>>[2] = h
    OBVIOUS
  <2>7. Len(r) = 2 /\ \A i \in 1..2 : r[i] = <<f, h>>[i]
    <3>1. 1 + 1 = 2 /\ \A i \in 1..2 : i = 1 \/ i = 2
      OBVIOUS
    <3> QED
      BY <2>5, <2>6, <3>1
  <2> QED
    BY <2>1, <2>3, <2>4, <2>6, <2>7, SeqEqual
<1> QED
  BY <1>2, <1>3, ConcatAssociative

-----------------------------------------------------------------------------
(* Steps of the parser that report no error.                               *)

Mirrored(g) ==
  /\ AreInside(frames, g[lcurrent - 1])
  /\ Outermost(frames)
  /\ frames = <<>> => Current.t \in {"End", "Do"}

(* Which brackets frames are inside of.                                    *)
LEMMA FrameInside ==
  /\ \A y, f : f.k \in {"expr", "loop", "node", "body"} => Inside(y, f) = y
  /\ \A y, f : f.k \in {"nud", "led"} /\ f.t \notin Openings => Inside(y, f) = y
  /\ \A y, f : f.k \in {"nud", "led"} /\ f.t \in Openings => Inside(y, f) = Append(y, f.t)
  /\ \A y, f : f.k = "close" => Inside(y, f) = Append(y, BracketOf[f.t])
BY DEF Inside

LEMMA OpeningsOpened == DOMAIN Opened = Openings
BY OpenedIs, Zenon DEF Openings

(* What the lexeme the parser goes on from does to the brackets.           *)
LEMMA NestRead ==
  ASSUME NEW y, NEW t
  PROVE  /\ t \in Openings => NestWith(y, t) = Append(y, t)
         /\ t \notin Openings /\ t \notin DOMAIN Closed => NestWith(y, t) = y
         /\ t \in DOMAIN Closed /\ y # <<>> => NestWith(y, t) = SubSeq(y, 1, Len(y) - 1)
<1>1. \A u \in Openings : u \notin DOMAIN Closed
  BY OpenedIs, ClosedIs, OpeningsOpened, Zenon
<1> QED
  BY <1>1, OpeningsOpened DEF NestWith

LEMMA AppendTaken ==
  ASSUME NEW y \in Seq(Openings), NEW b \in Openings
  PROVE  /\ Append(y, b) # <<>> /\ Append(y, b) \in Seq(Openings)
         /\ SubSeq(Append(y, b), 1, Len(Append(y, b)) - 1) = y
<1>1. PICK n \in Nat : n = Len(y)
  OBVIOUS
<1>2. PICK a : a = Append(y, b)
  OBVIOUS
<1>3. a \in Seq(Openings) /\ Len(a) = n + 1 /\ \A i \in 1..n : a[i] = y[i]
  BY <1>1, <1>2, AppendProperties
<1>4. n \in (1 - 1)..(n + 1) /\ 1 \in 1..(n + 1 + 1) /\ n + 1 - 1 = n
  OBVIOUS
<1>5. /\ SubSeq(a, 1, n) \in Seq(Openings) /\ Len(SubSeq(a, 1, n)) = n - 1 + 1
      /\ \A i \in 1..(n - 1 + 1) : SubSeq(a, 1, n)[i] = a[1 + i - 1]
  BY <1>3, <1>4, SubSeqProperties
<1>6. n - 1 + 1 = n /\ \A i \in 1..n : 1 + i - 1 = i
  OBVIOUS
<1>7. SubSeq(a, 1, n) = y
  BY <1>1, <1>3, <1>5, <1>6, SeqEqual
<1>8. a # <<>>
  <2>1. n + 1 # 0 /\ Len(<<>>) = 0
    OBVIOUS
  <2> QED
    BY <1>3, <2>1
<1> QED
  BY <1>2, <1>3, <1>4, <1>7, <1>8

(* Where an expression that binds as little as the outermost one may stop. *)
LEMMA LowLexemes ==
  \A t : Level(t) <= 1 => t \in {"End", "Do"} \union DOMAIN Closed
<1>1. \A t : Level(t) <= 1 => t \in {"End", "Do", "RParen", "RBrace", "RBracket"}
  BY DEF Level
<1> QED
  BY <1>1, ClosedIs

LEMMA ClosingLow == \A t \in DOMAIN Closed : Level(t) = 1
<1>1. DOMAIN Closed = {"RParen", "RBrace", "RBracket"}
  BY ClosedIs
<1> QED
  BY <1>1 DEF Level

LEMMA OpeningHigh == \A t \in Openings : Level(t) = 13
BY DEF Openings, Level

LEMMA CloserIs ==
  \A t \in DOMAIN Closer : Closer[t] \in DOMAIN Closed /\ BracketOf[t] \in Openings
<1>1. \A t \in DOMAIN Closer : Closer[t] \in {"RParen", "RBrace", "RBracket"}
  BY DEF Closer
<1>2. \A t \in DOMAIN Closer : BracketOf[t] \in Openings
  BY DEF Closer, BracketOf, Openings
<1> QED
  BY <1>1, <1>2, ClosedIs

(* The call at the top goes on as one or two calls, or returns.            *)
LEMMA CallMirrored ==
  ASSUME IsList(frames), frames # <<>>, Outermost(frames), NEW y, AreInside(Callers, y), NEW g,
         NEW f, Calls(<<f>>), Callers # <<>>,
         Inside(y, f) = g[lcurrent' - 1], g[lcurrent' - 1] \in Seq(Openings)
  PROVE  Mirrored(g)'
<1>1. IsList(Callers) /\ Outermost(Callers)
  BY TailParts, ReturnOutermost DEF Callers
<1>2. frames' = <<f>> \o Callers
  BY DEF Calls
<1>3. AreInside(frames', g[lcurrent' - 1]) /\ Outermost(frames')
  BY <1>1, <1>2, CallInside, CallOutermost
<1>4. frames' # <<>>
  <2>1. PICK n \in Nat : n = Len(Callers)
    BY <1>1 DEF IsList
  <2>2. Len(frames') = n + 1 /\ n + 1 # 0
    BY <1>1, <1>2, <2>1, ListParts
  <2>3. Len(<<>>) = 0
    OBVIOUS
  <2> QED
    BY <2>2, <2>3
<1> QED
  BY <1>3, <1>4 DEF Mirrored

LEMMA CallsMirrored ==
  ASSUME IsList(frames), frames # <<>>, Outermost(frames), NEW y, AreInside(Callers, y), NEW g,
         NEW f, NEW h, Calls(<<f, h>>),
         Callers # <<>> \/ (h.k \in {"expr", "loop"} /\ h.b = DefBlockBindp),
         Inside(y, h) \in Seq(Openings),
         Inside(Inside(y, h), f) = g[lcurrent' - 1], g[lcurrent' - 1] \in Seq(Openings)
  PROVE  Mirrored(g)'
<1>1. IsList(Callers) /\ Outermost(Callers)
  BY TailParts, ReturnOutermost DEF Callers
<1>2. frames' = <<f>> \o (<<h>> \o Callers)
  BY <1>1, TwoCalls DEF Calls
<1>3. PICK s : s = <<h>> \o Callers
  OBVIOUS
<1>4. AreInside(s, Inside(y, h)) /\ Outermost(s) /\ IsList(s)
  BY <1>1, <1>3, CallInside, CallOutermost, ListParts
<1>5. s # <<>> /\ <<f>> \o s # <<>>
  <2>1. PICK n \in Nat : n = Len(Callers)
    BY <1>1 DEF IsList
  <2>2. Len(s) = n + 1 /\ Len(<<f>> \o s) = n + 1 + 1 /\ n + 1 # 0 /\ n + 1 + 1 # 0
    BY <1>1, <1>3, <1>4, <2>1, ListParts
  <2>3. Len(<<>>) = 0
    OBVIOUS
  <2> QED
    BY <2>2, <2>3
<1>6. AreInside(frames', g[lcurrent' - 1]) /\ Outermost(frames')
  <2>1. frames' = <<f>> \o s
    BY <1>2, <1>3
  <2>2. Inside(Inside(y, h), f) \in Seq(Openings)
    OBVIOUS
  <2>3. AreInside(<<f>> \o s, Inside(Inside(y, h), f))
    BY <1>4, <2>2, CallInside
  <2>4. Outermost(<<f>> \o s)
    BY <1>4, <1>5, CallOutermost
  <2> QED
    BY <2>1, <2>3, <2>4
<1> QED
  BY <1>2, <1>3, <1>5, <1>6 DEF Mirrored

LEMMA ReturnMirrored ==
  ASSUME IsList(frames), frames # <<>>, Outermost(frames), NEW y, AreInside(Callers, y), NEW g,
         NEW n, Return(n), y = g[lcurrent' - 1],
         Callers = <<>> => Current.t \in {"End", "Do"} /\ UNCHANGED <<lcurrent, lexemes>>
  PROVE  Mirrored(g)'
<1>1. Outermost(Callers)
  BY ReturnOutermost DEF Callers
<1>2. frames' = Callers
  BY DEF Return
<1>3. Callers = <<>> => Current'.t \in {"End", "Do"}
  BY DEF Current
<1> QED
  BY <1>1, <1>2, <1>3 DEF Mirrored

LEMMA ParseMirrored ==
  ASSUME EndLast, lcurrent \in 2..Len(lexemes), FramesOK(frames), Parse, errors' = errors,
         IsList(errors),
         NEW g, Nests(g, lexemes), Matched(lexemes, g), Mirrored(g)
  PROVE  Mirrored(g)'
<1>1. frames # <<>>
  BY DEF Parse, ParseStep, EmptyExpression, BeginExpression, ExtendExpression, EndExpression,
         Literal, Prefix, Condition, Opening, Parameters, NoParameters, NoExpression, IndexOrCall,
         Apply, InfixOperator, BuildNode, UnexpectedLexeme, CloseBracket, NotClosed, BeginBody, NoBody,
         Running, Returned
<1>2. ~Fail
  <2>1. SUFFICES ASSUME NEW x, errors' = Append(errors, x) PROVE FALSE
    BY DEF Fail
  <2>2. PICK n \in Nat : n = Len(errors)
    BY DEF IsList
  <2>3. Len(errors') = n + 1
    BY <2>1, <2>2, AppendList
  <2>4. Len(errors') = n
    BY <2>2
  <2> QED
    BY <2>3, <2>4
<1>3. IsList(frames)
  <2>1. PICK S : FramesIn(S, frames)
    BY DEF FramesOK
  <2> QED
    BY <2>1 DEF FramesIn, IsList
<1>4. FrameOK(Top) /\ Outermost(frames)
  BY <1>1, FramesTail DEF Top, Mirrored
<1>5. PICK y : AreInside(Callers, y) /\ g[lcurrent - 1] = Inside(y, Top)
  BY <1>1, <1>3, ReturnInside DEF Mirrored, Callers, Top
<1>6. y \in Seq(Openings) /\ g[lcurrent - 1] \in Seq(Openings)
  <2>1. IsList(Callers)
    BY <1>1, <1>3, TailParts DEF Callers
  <2> QED
    BY <1>3, <1>5, <2>1, InsideList DEF Mirrored
<1>7. lcurrent \in Nat /\ lcurrent \in 1..Len(lexemes) /\ lcurrent + 1 - 1 = lcurrent
  BY DEF EndLast
<1>8. g[lcurrent] = NestWith(g[lcurrent - 1], Current.t)
  BY <1>7 DEF Nests, Current
<1>9. Current.t \in DOMAIN Closed => g[lcurrent - 1] # <<>>
  BY <1>7 DEF Matched, Current
<1>10. Callers = <<>> => Top.k \in {"expr", "loop"} /\ Top.b = DefBlockBindp /\ y = <<>>
  BY <1>1, <1>3, <1>4, <1>5, ReturnOutermost, NoneInside DEF Callers, Top
<1>11. lexemes' = lexemes
  BY DEF Parse
<1>12. ASSUME NEW f, NEW h, Calls(<<f, h>>), Callers # <<>>, Inside(y, h) \in Seq(Openings),
              Inside(Inside(y, h), f) = g[lcurrent' - 1], g[lcurrent' - 1] \in Seq(Openings)
       PROVE  Mirrored(g)'
  BY <1>1, <1>3, <1>4, <1>5, <1>12, CallsMirrored
<1>13. ASSUME NEW f, NEW h, Calls(<<f, h>>), Callers # <<>>, f.k = "expr", h.k \in {"node", "body"},
              y = g[lcurrent' - 1]
       PROVE  Mirrored(g)'
  BY <1>6, <1>12, <1>13, FrameInside
<1>14. ASSUME NEW n, Return(n), y = g[lcurrent' - 1], Callers # <<>>
       PROVE  Mirrored(g)'
  BY <1>1, <1>3, <1>4, <1>5, <1>14, ReturnMirrored
<1>15. \A y2 : \A b \in Openings : y2 \in Seq(Openings) => Append(y2, b) \in Seq(Openings)
  BY AppendTaken
<1>16. CASE EmptyExpression \/ EndExpression
  <2>1. /\ Top.k \in {"expr", "loop"} /\ Top.b >= Bindp(Current.t)
        /\ lcurrent' = lcurrent /\ \E n : Return(n)
    <3>1. CASE EmptyExpression
      <4>1. Top.k = "expr" /\ Top.b > Bindp(Current.t)
        BY <3>1 DEF EmptyExpression, Running
      <4>2. Top.b \in Nat /\ Bindp(Current.t) \in Nat
        BY <1>4, <4>1, BindpNat DEF FrameOK
      <4> QED
        BY <3>1, <4>1, <4>2 DEF EmptyExpression, Stay
    <3>2. CASE EndExpression
      BY <3>2 DEF EndExpression, Returned, Stay
    <3> QED
      BY <1>16, <3>1, <3>2
  <2>2. y = g[lcurrent' - 1]
    BY <1>5, <2>1, FrameInside
  <2>3. ASSUME Callers = <<>> PROVE Current.t \in {"End", "Do"}
    <3>1. Bindp(Current.t) <= 17 /\ Level(Current.t) \in Nat
      BY <1>10, <2>1, <2>3, LevelNat DEF DefBlockBindp
    <3>2. Level(Current.t) <= 1
      BY <3>1 DEF Bindp
    <3>3. Current.t \notin DOMAIN Closed
      BY <1>9, <1>10, <2>1, <2>2, <2>3
    <3> QED
      BY <3>2, <3>3, LowLexemes
  <2> QED
    BY <1>1, <1>3, <1>4, <1>5, <1>11, <2>1, <2>2, <2>3, ReturnMirrored
<1>17. CASE BeginExpression \/ ExtendExpression
  <2>1. PICK f, h : /\ Calls(<<f, h>>) /\ lcurrent' = lcurrent + 1
                    /\ Top.k \in {"expr", "loop"} /\ Top.b <= Bindp(Current.t)
                    /\ f.k \in {"nud", "led"} /\ f.t = Current.t
                    /\ h.k \in {"expr", "loop"} /\ h.b = Top.b
    <3>1. CASE BeginExpression
      <4>1. PICK f, h : f = Nud(Current.t, Current.x) /\ h = Loop(Top.b)
        OBVIOUS
      <4>2. f.k = "nud" /\ f.t = Current.t /\ h.k = "loop" /\ h.b = Top.b
        BY <4>1 DEF Nud, Loop, Frame
      <4>3. /\ Calls(<<f, h>>) /\ lcurrent' = lcurrent + 1
            /\ Top.k = "expr" /\ Top.b <= Bindp(Current.t)
        BY <3>1, <4>1 DEF BeginExpression, Running, Next_
      <4> QED
        BY <4>2, <4>3
    <3>2. CASE ExtendExpression
      <4>1. Top.k = "loop" /\ Top.b < Bindp(Current.t)
        BY <3>2 DEF ExtendExpression, Returned
      <4>2. Top.b \in Nat /\ Bindp(Current.t) \in Nat
        BY <1>4, <4>1, BindpNat DEF FrameOK
      <4>3. Top.b <= Bindp(Current.t)
        BY <4>1, <4>2
      <4>4. PICK f : f = Led(Current.t, Current.x, ret)
        OBVIOUS
      <4>5. f.k = "led" /\ f.t = Current.t
        BY <4>4 DEF Led, Frame
      <4>6. Calls(<<f, Top>>) /\ lcurrent' = lcurrent + 1
        BY <3>2, <4>4 DEF ExtendExpression, Next_
      <4> QED
        BY <4>1, <4>3, <4>5, <4>6
    <3> QED
      BY <1>17, <3>1, <3>2
  <2>2. Level(Current.t) > 1
    <3>1. Top.b \in Nat /\ Top.b > 16 /\ Bindp(Current.t) \in Nat
      BY <1>4, <2>1, BindpNat DEF FrameOK
    <3>2. ~(Bindp(Current.t) <= 16)
      BY <2>1, <3>1
    <3> QED
      BY <3>2, BindpNat, LevelNat
  <2>3. Current.t \notin DOMAIN Closed
    BY <2>2, ClosingLow
  <2>4. g[lcurrent - 1] = y
    BY <1>5, <2>1, FrameInside
  <2>5. Inside(y, h) = y /\ Inside(y, f) = g[lcurrent] /\ g[lcurrent] \in Seq(Openings)
    <3>1. CASE Current.t \in Openings
      <4>1. Inside(y, h) = y
        BY <2>1, FrameInside
      <4>2. Inside(y, f) = Append(y, Current.t)
        BY <2>1, <3>1, FrameInside
      <4>3. g[lcurrent] = Append(y, Current.t)
        BY <1>8, <2>4, <3>1, NestRead
      <4> QED
        BY <1>6, <1>15, <3>1, <4>1, <4>2, <4>3
    <3>2. CASE Current.t \notin Openings
      BY <1>6, <1>8, <2>1, <2>3, <2>4, <3>2, FrameInside, NestRead
    <3> QED
      BY <3>1, <3>2
  <2>6. g[lcurrent' - 1] = g[lcurrent]
    BY <1>7, <2>1
  <2>7. Callers # <<>> \/ (h.k \in {"expr", "loop"} /\ h.b = DefBlockBindp)
    BY <1>10, <2>1
  <2>8. /\ Inside(y, h) \in Seq(Openings) /\ Inside(Inside(y, h), f) = g[lcurrent' - 1]
        /\ g[lcurrent' - 1] \in Seq(Openings)
    BY <1>6, <2>5, <2>6
  <2> QED
    BY <1>1, <1>3, <1>4, <1>5, <2>1, <2>7, <2>8, CallsMirrored
<1>18. CASE Literal \/ BuildNode
  <2>1. lcurrent' = lcurrent /\ (\E n : Return(n))
        /\ (Top.k = "node" \/ (Top.k = "nud" /\ Top.t \in Literals))
    BY <1>18 DEF Literal, BuildNode, Running, Returned, Stay
  <2>2. y = g[lcurrent' - 1] /\ Callers # <<>>
    <3>1. Top.k = "node" \/ (Top.k = "nud" /\ Top.t \notin Openings)
      BY <2>1 DEF Literals, Openings
    <3> QED
      BY <1>5, <1>10, <2>1, <3>1, FrameInside
  <2> QED
    BY <1>14, <2>1, <2>2
<1>19. CASE Prefix
  <2> DEFINE t    == Top.t
             made == IF t = "Plus" THEN <<>>
                     ELSE IF t = "Minus" THEN <<Wait("node", "Neg", <<>>)>>
                     ELSE IF t \in DOMAIN Infix THEN <<Wait("node", Infix[t], <<Nop>>)>>
                     ELSE <<Wait("node", t, <<>>)>>
  <2>1. Calls(<<Expr(PrefixBindp(t))>> \o made) /\ lcurrent' = lcurrent /\ Top.k = "nud"
        /\ Top.t \in PrefixLexemes
    BY <1>19 DEF Prefix, Running, Stay
  <2>2. made = <<>> \/ \E h : made = <<h>> /\ h.k = "node"
    <3>1. \A x, s : Wait("node", x, s).k = "node"
      BY DEF Wait, Frame
    <3>2. made = <<>> \/ \E x, s : made = <<Wait("node", x, s)>>
      OBVIOUS
    <3> QED
      BY <3>1, <3>2
  <2> HIDE DEF made
  <2>3. PICK f : f = Expr(PrefixBindp(t))
    OBVIOUS
  <2>4. f.k = "expr"
    BY <2>3 DEF Expr, Frame
  <2>5. y = g[lcurrent' - 1] /\ Callers # <<>>
    <3>1. Top.t \notin Openings
      BY <2>1 DEF PrefixLexemes, Openings
    <3> QED
      BY <1>5, <1>10, <2>1, <3>1, FrameInside
  <2>6. CASE made = <<>>
    <3>1. <<f>> \o made = <<f>>
      BY <2>6
    <3>2. Inside(y, f) = y
      BY <2>4, FrameInside
    <3> QED
      BY <1>1, <1>3, <1>4, <1>5, <1>6, <2>1, <2>3, <2>5, <3>1, <3>2, CallMirrored
  <2>7. ASSUME NEW h, made = <<h>>, h.k = "node" PROVE Mirrored(g)'
    <3>1. <<f>> \o made = <<f, h>>
      <4>1. <<f, h>> \o <<>> = <<f>> \o (<<h>> \o <<>>)
        <5>1. IsList(<<>>)
          BY EmptySeq DEF IsList
        <5> QED
          BY <5>1, TwoCalls
      <4>2. <<f, h>> \o <<>> = <<f, h>> /\ <<h>> \o <<>> = <<h>>
        <5>1. <<f, h>> \in Seq({f, h}) /\ <<h>> \in Seq({f, h})
          OBVIOUS
        <5> QED
          BY <5>1, ConcatEmptySeq
      <4> QED
        BY <2>7, <4>1, <4>2
    <3>2. Calls(<<f, h>>)
      BY <2>1, <2>3, <3>1
    <3> QED
      BY <1>13, <2>4, <2>5, <2>7, <3>2
  <2> QED
    BY <2>2, <2>6, <2>7
<1>20. CASE Condition
  <2>1. Calls(<<Expr(DefBlockBindp), Wait("body", Top.t, <<>>)>>) /\ lcurrent' = lcurrent
        /\ Top.k = "nud" /\ Top.t \in Conditions
    BY <1>20 DEF Condition, Running, Stay
  <2>2. y = g[lcurrent' - 1] /\ Callers # <<>>
    <3>1. Top.t \notin Openings
      BY <2>1 DEF Conditions, Openings
    <3> QED
      BY <1>5, <1>10, <2>1, <3>1, FrameInside
  <2>3. Expr(DefBlockBindp).k = "expr" /\ Wait("body", Top.t, <<>>).k = "body"
    BY DEF Expr, Wait, Frame
  <2> QED
    BY <1>13, <2>1, <2>2, <2>3
<1>21. ASSUME NEW b, NEW u \in DOMAIN Closer, NEW s, Calls(<<Expr(b), Wait("close", u, s)>>),
              Callers # <<>>, g[lcurrent' - 1] = Append(y, BracketOf[u])
       PROVE  Mirrored(g)'
  <2>1. PICK f, h : f = Expr(b) /\ h = Wait("close", u, s)
    OBVIOUS
  <2>2. f.k = "expr" /\ h.k = "close" /\ h.t = u
    BY <2>1 DEF Expr, Wait, Frame
  <2>3. Inside(y, h) = Append(y, BracketOf[u]) /\ Append(y, BracketOf[u]) \in Seq(Openings)
    BY <1>6, <1>15, <2>2, CloserIs, FrameInside
  <2>4. Inside(Inside(y, h), f) = Inside(y, h)
    BY <2>2, FrameInside
  <2> QED
    BY <1>12, <1>21, <2>1, <2>3, <2>4
<1>22. DOMAIN Closer = {"Paren", "CodeBlock", "Array", "Index", "Call", "Function", "Recurse"}
       /\ BracketOf["Paren"] = "LParen" /\ BracketOf["CodeBlock"] = "LBrace"
       /\ BracketOf["Array"] = "LBracket" /\ BracketOf["Index"] = "LBracket"
       /\ BracketOf["Call"] = "LParen" /\ BracketOf["Function"] = "LParen"
       /\ BracketOf["Recurse"] = "LParen"
  BY DEF Closer, BracketOf
<1>23. Top.k \in {"nud", "led"} => Callers # <<>>
  BY <1>10
<1>24. CASE Opening
  <2>1. Top.k = "nud" /\ Top.t \in Openings /\ lcurrent' = lcurrent
    BY <1>24 DEF Opening, Running, Stay
  <2>2. g[lcurrent' - 1] = Append(y, Top.t)
    BY <1>5, <2>1, FrameInside
  <2>3. \E u \in DOMAIN Closer : \E b : BracketOf[u] = Top.t /\ Calls(<<Expr(b), Wait("close", u, <<>>)>>)
    BY <1>22, <1>24 DEF Opening, Openings
  <2> QED
    BY <1>21, <1>23, <2>1, <2>2, <2>3
<1>25. CASE IndexOrCall
  <2>1. Top.k = "led" /\ Top.t \in {"LBracket", "LParen"} /\ lcurrent' = lcurrent
    BY <1>25 DEF IndexOrCall, Running, Stay
  <2>2. g[lcurrent' - 1] = Append(y, Top.t)
    BY <1>5, <2>1, FrameInside DEF Openings
  <2>3. \E u \in DOMAIN Closer : BracketOf[u] = Top.t
          /\ Calls(<<Expr(DefExprBindp), Wait("close", u, Top.kids)>>)
    BY <1>22, <1>25 DEF IndexOrCall
  <2> QED
    BY <1>21, <1>23, <2>1, <2>2, <2>3
<1>26. CASE Parameters
  <2>1. Top.k = "nud" /\ Top.t \in CallLike /\ Current.t = "LParen" /\ lcurrent' = lcurrent + 1
    BY <1>26 DEF Parameters, Running, Next_
  <2>2. g[lcurrent - 1] = y
    <3>1. Top.t \notin Openings
      BY <2>1 DEF CallLike, Openings
    <3> QED
      BY <1>5, <2>1, <3>1, FrameInside
  <2>3. g[lcurrent' - 1] = Append(y, "LParen")
    <3>1. "LParen" \in Openings
      BY DEF Openings
    <3> QED
      BY <1>7, <1>8, <2>1, <2>2, <3>1, NestRead
  <2>4. \E u \in DOMAIN Closer : BracketOf[u] = "LParen"
          /\ Calls(<<Expr(DefExprBindp), Wait("close", u, <<>>)>>)
    BY <1>22, <1>26 DEF Parameters
  <2> QED
    BY <1>21, <1>23, <2>1, <2>3, <2>4
<1>27. CASE Apply
  <2>1. /\ Top.k = "led" /\ lcurrent' = lcurrent
        /\ Calls(<<Nud(Top.t, Top.x), Wait("node", "Apply", Top.kids)>>)
    BY <1>27 DEF Apply, Running, Stay
  <2>2. PICK f, h : f = Nud(Top.t, Top.x) /\ h = Wait("node", "Apply", Top.kids)
    OBVIOUS
  <2>3. f.k = "nud" /\ f.t = Top.t /\ h.k = "node"
    BY <2>2 DEF Nud, Wait, Frame
  <2>4. Inside(y, h) = y /\ Inside(y, f) = Inside(y, Top)
    <3>1. CASE Top.t \in Openings
      BY <2>1, <2>3, <3>1, FrameInside
    <3>2. CASE Top.t \notin Openings
      BY <2>1, <2>3, <3>2, FrameInside
    <3> QED
      BY <2>3, <3>1, <3>2, FrameInside
  <2>5. Inside(Inside(y, h), f) = g[lcurrent' - 1] /\ g[lcurrent' - 1] \in Seq(Openings)
    BY <1>5, <1>6, <2>1, <2>4
  <2> QED
    BY <1>6, <1>12, <1>23, <2>1, <2>2, <2>4, <2>5
<1>28. CASE InfixOperator
  <2>1. PICK u : Top.k = "led" /\ Level(Top.t) < 13 /\ lcurrent' = lcurrent
          /\ Calls(<<Expr(InfixBindp(Top.t)), Wait("node", u, Top.kids)>>)
    BY <1>28 DEF InfixOperator, Running, Stay
  <2>2. y = g[lcurrent' - 1]
    <3>1. Top.t \notin Openings
      BY <2>1, OpeningHigh
    <3> QED
      BY <1>5, <2>1, <3>1, FrameInside
  <2>3. Expr(InfixBindp(Top.t)).k = "expr" /\ Wait("node", u, Top.kids).k = "node"
    BY DEF Expr, Wait, Frame
  <2> QED
    BY <1>13, <1>23, <2>1, <2>2, <2>3
<1>29. CASE CloseBracket
  <2>1. Top.k = "close" /\ Current.t = Closer[Top.t] /\ lcurrent' = lcurrent + 1 /\ Top.t \in DOMAIN Closer
    BY <1>4, <1>29 DEF CloseBracket, Returned, Next_, FrameOK
  <2>2. g[lcurrent - 1] = Append(y, BracketOf[Top.t]) /\ BracketOf[Top.t] \in Openings
        /\ Current.t \in DOMAIN Closed
    BY <1>5, <2>1, FrameInside, CloserIs
  <2>3. g[lcurrent' - 1] = y
    <3>1. PICK a : a = g[lcurrent - 1]
      OBVIOUS
    <3>2. a # <<>> /\ SubSeq(a, 1, Len(a) - 1) = y
      BY <1>6, <2>2, <3>1, AppendTaken
    <3>3. NestWith(a, Current.t) = SubSeq(a, 1, Len(a) - 1)
      BY <2>2, <3>2, NestRead
    <3>4. lcurrent' - 1 = lcurrent
      BY <1>7, <2>1
    <3> QED
      BY <1>8, <3>1, <3>2, <3>3, <3>4
  <2>4. Callers # <<>>
    BY <1>10, <2>1
  <2>5. \/ \E n : Return(n)
        \/ Calls(<<Expr(DefStatementBindp), Wait("node", Top.t, <<ret>>)>>)
    BY <1>29 DEF CloseBracket
  <2>6. Expr(DefStatementBindp).k = "expr" /\ Wait("node", Top.t, <<ret>>).k = "node"
    BY DEF Expr, Wait, Frame
  <2> QED
    BY <1>13, <1>14, <2>3, <2>4, <2>5, <2>6
<1>30. CASE BeginBody
  <2>1. Top.k = "body" /\ Current.t = "Do" /\ lcurrent' = lcurrent + 1
        /\ Calls(<<Expr(DefStatementBindp), Wait("node", Top.t, <<ret>>)>>)
    BY <1>30 DEF BeginBody, Returned, Next_
  <2>2. g[lcurrent' - 1] = y
    <3>1. "Do" \notin Openings /\ "Do" \notin DOMAIN Closed
      BY ClosedIs DEF Openings
    <3> QED
      BY <1>5, <1>7, <1>8, <2>1, <3>1, FrameInside, NestRead
  <2>3. Callers # <<>>
    BY <1>10, <2>1
  <2>4. Expr(DefStatementBindp).k = "expr" /\ Wait("node", Top.t, <<ret>>).k = "node"
    BY DEF Expr, Wait, Frame
  <2> QED
    BY <1>13, <2>1, <2>2, <2>3, <2>4
<1>31. CASE NoParameters \/ NoExpression \/ UnexpectedLexeme \/ NotClosed \/ NoBody
  BY <1>2, <1>31 DEF NoParameters, NoExpression, UnexpectedLexeme, NotClosed, NoBody
<1> QED
  BY <1>16, <1>17, <1>18, <1>19, <1>20, <1>24, <1>25, <1>26, <1>27, <1>28, <1>29, <1>30, <1>31
     DEF Parse, ParseStep

-----------------------------------------------------------------------------
(* Scripts are parsed to their end.                                        *)

(* Errors are only ever added.                                             *)
LEMMA LexErrors == Lex => errors' = errors \/ \E x : errors' = Append(errors, x)
BY DEF Lex, Blank, NewLine, LineComment, BeginComment, BeginString, PlaceOperator, PlaceNumber,
       PlaceKeyword, PlaceJoining, PlaceIdentifier, Open, Close, Misclose, Invalid, EndOfText,
       StringChar, Escape, CloseString, CutString, CommentOpens, CommentCloses, CommentNewLine,
       CommentChar, CutComment, Skip, Finish, Read

LEMMA ParseErrors == Parse => errors' = errors \/ \E x : errors' = Append(errors, x)
BY DEF Parse, ParseStep, EmptyExpression, BeginExpression, ExtendExpression, EndExpression,
       Literal, Prefix, Condition, Opening, Parameters, NoParameters, NoExpression, IndexOrCall,
       Apply, InfixOperator, BuildNode, UnexpectedLexeme, CloseBracket, NotClosed, BeginBody, NoBody,
       NoError, Fail

LEMMA ErrorsKept ==
  ASSUME IsList(errors), errors' = errors \/ \E x : errors' = Append(errors, x)
  PROVE  IsList(errors') /\ (errors' = <<>> => errors' = errors)
<1>1. CASE errors' = errors
  BY <1>1
<1>2. ASSUME NEW x, errors' = Append(errors, x)
      PROVE  IsList(errors') /\ errors' # <<>>
  <2>1. PICK n \in Nat : n = Len(errors)
    BY DEF IsList
  <2>2. IsList(errors') /\ Len(errors') = n + 1
    BY <1>2, <2>1, AppendList
  <2>3. n + 1 # 0 /\ Len(<<>>) = 0
    OBVIOUS
  <2> QED
    BY <2>2, <2>3
<1> QED
  BY <1>1, <1>2

WInv ==
  /\ TInv /\ IsList(errors)
  /\ stage = "lexing" => frames = <<Expr(DefBlockBindp)>>
  /\ stage \in {"parsing", "parsed"} => mode = "done"
  /\ stage = "parsing" /\ errors = <<>> =>
       \E g : Nests(g, lexemes) /\ Matched(lexemes, g) /\ Mirrored(g)
  /\ stage = "parsed" => Current.t \in {"End", "Do"}

LEMMA InitWInv == InitFrontEnd => WInv
<1> SUFFICES ASSUME InitFrontEnd PROVE WInv
  OBVIOUS
<1>1. TInv
  BY InitTInv
<1>2. stage = "lexing" /\ frames = <<Expr(DefBlockBindp)>> /\ errors = <<>>
  BY DEF InitFrontEnd, Init, InitParser
<1>3. IsList(errors)
  BY <1>2, EmptySeq DEF IsList
<1> QED
  BY <1>1, <1>2, <1>3 DEF WInv

(* The parser begins outside of all brackets.                              *)
LEMMA BeginMirrored ==
  ASSUME TInv, stage = "lexing", frames = <<Expr(DefBlockBindp)>>
  PROVE  \E g : Nests(g, lexemes) /\ Matched(lexemes, g) /\ Mirrored(g)
<1>1. PICK g : g = Nesting
  OBVIOUS
<1>2. Nests(g, lexemes) /\ Matched(lexemes, g)
  BY <1>1, NestingKept
<1>3. lexemes[1].t = "Semicolon" /\ Len(lexemes) \in Nat \ {0} /\ lcurrent = 2
  BY DEF TInv, IInv, EndLast
<1>4. g[lcurrent - 1] = <<>>
  <2>1. g[0] = <<>> /\ g[1] = NestWith(g[0], lexemes[1].t)
    <3>1. 1 \in 1..Len(lexemes) /\ 1 - 1 = 0
      BY <1>3
    <3> QED
      BY <1>2, <3>1 DEF Nests
  <2>2. "Semicolon" \notin Openings /\ "Semicolon" \notin DOMAIN Closed
    BY ClosedIs DEF Openings
  <2>3. g[1] = <<>>
    BY <1>3, <2>1, <2>2, NestRead
  <2>4. lcurrent - 1 = 1
    BY <1>3
  <2> QED
    BY <2>3, <2>4
<1>5. PICK f : f = Expr(DefBlockBindp)
  OBVIOUS
<1>6. f.k = "expr" /\ f.b = DefBlockBindp /\ frames = <<f>>
  BY <1>5 DEF Expr, Frame
<1>7. AreInside(frames, g[lcurrent - 1])
  BY <1>4, <1>6, FrameInside, OneInside
<1>8. Len(frames) = 1 /\ frames[1] = f /\ frames # <<>>
  BY <1>6
<1>9. Outermost(frames)
  BY <1>6, <1>8 DEF Outermost
<1> QED
  BY <1>2, <1>7, <1>8, <1>9 DEF Mirrored

LEMMA NextWInv == WInv /\ [Next]_vars => WInv'
<1> SUFFICES ASSUME WInv, [Next]_vars PROVE WInv'
  OBVIOUS
<1>1. TInv'
  BY NextTInv DEF WInv
<1>2. CASE LexStep
  <2>1. stage = "lexing" /\ stage' = "lexing" /\ Lex /\ frames' = frames
    BY <1>2 DEF LexStep, parserVars
  <2>2. IsList(errors')
    BY <2>1, LexErrors, ErrorsKept DEF WInv
  <2> QED
    BY <1>1, <2>1, <2>2 DEF WInv
<1>3. CASE ReportLexer
  BY <1>1, <1>3 DEF ReportLexer, WInv
<1>4. CASE BeginParse
  <2>1. /\ stage = "lexing" /\ mode = "done" /\ stage' = "parsing" /\ mode' = mode
        /\ UNCHANGED <<lexemes, errors, lcurrent, frames>>
    BY <1>4 DEF BeginParse, lexerVars, parserVars
  <2>2. PICK g : Nests(g, lexemes) /\ Matched(lexemes, g) /\ Mirrored(g)
    BY <2>1, BeginMirrored DEF WInv
  <2>3. Nests(g, lexemes') /\ Matched(lexemes', g) /\ Mirrored(g)'
    BY <2>1, <2>2 DEF Mirrored, Current
  <2> QED
    BY <1>1, <2>1, <2>3 DEF WInv
<1>5. CASE ParserStep
  <2>1. stage = "parsing" /\ stage' = "parsing" /\ Parse /\ mode' = mode /\ lexemes' = lexemes
    BY <1>5 DEF ParserStep, Parse, lexerVars
  <2>2. IsList(errors') /\ (errors' = <<>> => errors' = errors)
    BY <2>1, ParseErrors, ErrorsKept DEF WInv
  <2>3. ASSUME errors' = <<>>
        PROVE  \E g : Nests(g, lexemes') /\ Matched(lexemes', g) /\ Mirrored(g)'
    <3>1. errors' = errors /\ errors = <<>> /\ IsList(errors)
      BY <2>2, <2>3 DEF WInv
    <3>2. PICK g : Nests(g, lexemes) /\ Matched(lexemes, g) /\ Mirrored(g)
      BY <2>1, <3>1 DEF WInv
    <3>3. EndLast /\ lcurrent \in 2..Len(lexemes) /\ FramesOK(frames)
      BY <2>1 DEF WInv, TInv, IInv
    <3>4. Mirrored(g)'
      BY <2>1, <3>1, <3>2, <3>3, ParseMirrored
    <3> QED
      BY <2>1, <3>2, <3>4
  <2>4. mode' = "done"
    BY <2>1 DEF WInv
  <2> QED
    BY <1>1, <2>1, <2>2, <2>3, <2>4 DEF WInv
<1>6. CASE EndParse
  <2>1. /\ stage = "parsing" /\ frames = <<>> /\ mode' = mode
        /\ stage' = (IF errors = <<>> THEN "parsed" ELSE "reported")
        /\ UNCHANGED <<lexemes, errors, lcurrent, frames>>
    BY <1>6 DEF EndParse, lexerVars, parserVars
  <2>2. errors = <<>> => Current.t \in {"End", "Do"}
    BY <2>1 DEF WInv, Mirrored
  <2>3. Current' = Current
    BY <2>1 DEF Current
  <2> QED
    BY <1>1, <2>1, <2>2, <2>3 DEF WInv
<1>7. CASE UNCHANGED vars
  <2>1. UNCHANGED <<lexemes, errors, mode, lcurrent, frames, stage>>
    BY <1>7 DEF vars, lexerVars, parserVars
  <2>2. \A g : Mirrored(g) => Mirrored(g)'
    BY <2>1 DEF Mirrored, Current
  <2>3. Current' = Current
    BY <2>1 DEF Current
  <2> QED
    BY <1>1, <2>1, <2>2, <2>3 DEF WInv
<1> QED
  BY <1>2, <1>3, <1>4, <1>5, <1>6, <1>7 DEF Next

(* For every text: a script without errors was read to its end, unless a   *)
(* string that is not closed on its line ended it, and parsed to its end,  *)
(* unless a stray do ended it.                                             *)
THEOREM ReadsWholeScript == Spec => []WholeScript
<1>1. WInv => WholeScript
  <2> SUFFICES ASSUME WInv, stage = "parsed"
               PROVE  (reader > Len(source) + 1 \/ source[token] = "quote") /\ Current.t \in {"End", "Do"}
    BY DEF WholeScript
  <2>1. PICK L \in Nat : L = Len(source) /\ Within(L)
    BY Sized DEF WInv, TInv
  <2>2. mode = "done" /\ Current.t \in {"End", "Do"}
    BY DEF WInv
  <2> QED
    BY <2>1, <2>2 DEF Within
<1> QED
  BY <1>1, InitWInv, NextWInv, PTL DEF Spec

-----------------------------------------------------------------------------
(* Lists end to end.                                                       *)

LEMMA TwoLists ==
  ASSUME NEW s, NEW t, IsList(s), IsList(t)
  PROVE  \E S : s \in Seq(S) /\ t \in Seq(S)
<1>1. PICK S : s \in Seq(S)
  BY DEF IsList
<1>2. PICK T : t \in Seq(T)
  BY DEF IsList
<1>3. s \in Seq(S \union T) /\ t \in Seq(S \union T)
  BY <1>1, <1>2, SeqMonotonic
<1> QED
  BY <1>3

LEMMA JoinLists ==
  ASSUME NEW s, NEW t, IsList(s), IsList(t)
  PROVE  IsList(s \o t)
<1>1. PICK S : s \in Seq(S) /\ t \in Seq(S)
  BY TwoLists
<1>2. s \o t \in Seq(S)
  BY <1>1, ConcatProperties
<1> QED
  BY <1>2 DEF IsList

LEMMA JoinAgain ==
  ASSUME NEW r, NEW s, NEW t, IsList(r), IsList(s), IsList(t)
  PROVE  (r \o s) \o t = r \o (s \o t)
<1>1. PICK S : r \in Seq(S) /\ s \in Seq(S)
  BY TwoLists
<1>2. PICK T : t \in Seq(T)
  BY DEF IsList
<1>3. r \in Seq(S \union T) /\ s \in Seq(S \union T) /\ t \in Seq(S \union T)
  BY <1>1, <1>2, SeqMonotonic
<1> QED
  BY <1>3, ConcatAssociative

LEMMA JoinNone ==
  ASSUME NEW s, IsList(s)
  PROVE  <<>> \o s = s /\ s \o <<>> = s
<1>1. PICK S : s \in Seq(S)
  BY DEF IsList
<1> QED
  BY <1>1, ConcatEmptySeq

LEMMA ShortLists ==
  /\ IsList(<<>>) /\ (\A e : IsList(<<e>>)) /\ \A e, f : IsList(<<e, f>>)
<1>1. <<>> \in Seq({})
  BY EmptySeq
<1>2. \A e : <<e>> \in Seq({e})
  OBVIOUS
<1>3. \A e, f : <<e, f>> \in Seq({e, f})
  OBVIOUS
<1> QED
  BY <1>1, <1>2, <1>3 DEF IsList

LEMMA FirstOff ==
  ASSUME NEW f, NEW s, IsList(s)
  PROVE  <<f>> \o s # <<>> /\ (<<f>> \o s)[1] = f /\ Tail(<<f>> \o s) = s
<1>1. PICK r : r = <<f>> \o s
  OBVIOUS
<1>2. PICK n \in Nat : n = Len(s)
  BY DEF IsList
<1>3. IsList(r) /\ Len(r) = n + 1 /\ r[1] = f /\ \A i \in 1..n : r[i + 1] = s[i]
  BY <1>1, <1>2, ListParts
<1>4. r # <<>>
  <2>1. Len(<<>>) = 0 /\ n + 1 # 0
    OBVIOUS
  <2> QED
    BY <1>3, <2>1
<1>5. PICK t : t = Tail(r)
  OBVIOUS
<1>6. IsList(t) /\ Len(t) = n /\ \A i \in 1..n : t[i] = s[i]
  <2>1. (n + 1) - 1 = n
    OBVIOUS
  <2> QED
    BY <1>3, <1>4, <1>5, <2>1, TailParts
<1>7. PICK S : t \in Seq(S) /\ s \in Seq(S)
  BY <1>6, TwoLists
<1>8. t = s
  BY <1>2, <1>6, <1>7, SeqEqual
<1> QED
  BY <1>1, <1>3, <1>4, <1>5, <1>8

-----------------------------------------------------------------------------
(* Walks through trees.                                                    *)

(* k steps of a walk lead from s to t.                                     *)
GoesBy(w, s, k, t) == w[0] = s /\ w[k] = t /\ \A i \in 1..k : w[i] = Step(w[i - 1])
Goes(s, k, t)      == \E w : GoesBy(w, s, k, t)

LEMMA StepGoes == \A s : Goes(s, 1, Step(s))
<1> TAKE s
<1>1. PICK w : w = [i \in 0..1 |-> IF i = 0 THEN s ELSE Step(s)]
  OBVIOUS
<1>2. w[0] = s /\ w[1] = Step(s) /\ \A i \in 1..1 : i = 1 /\ i - 1 = 0
  BY <1>1
<1> QED
  BY <1>2 DEF Goes, GoesBy

LEMMA GoOn ==
  ASSUME NEW s, NEW j \in Nat, NEW t, NEW k \in Nat, NEW u, Goes(s, j, t), Goes(t, k, u)
  PROVE  Goes(s, j + k, u)
<1>1. PICK v : GoesBy(v, s, j, t)
  BY DEF Goes
<1>2. PICK w : GoesBy(w, t, k, u)
  BY DEF Goes
<1>3. PICK x : x = [i \in 0..(j + k) |-> IF i <= j THEN v[i] ELSE w[i - j]]
  OBVIOUS
<1>4. (\A i \in 0..j : x[i] = v[i]) /\ \A i \in 0..k : x[j + i] = w[i]
  <2>1. \A i \in 0..j : i \in 0..(j + k) /\ i <= j
    OBVIOUS
  <2>2. \A i \in 0..k : j + i \in 0..(j + k) /\ (j + i <= j <=> i = 0) /\ (j + i) - j = i /\ j + 0 = j
    OBVIOUS
  <2>3. v[j] = w[0]
    BY <1>1, <1>2 DEF GoesBy
  <2> QED
    BY <1>3, <2>1, <2>2, <2>3
<1>5. x[0] = s /\ x[j + k] = u
  BY <1>1, <1>2, <1>4 DEF GoesBy
<1>6. ASSUME NEW i \in 1..(j + k) PROVE x[i] = Step(x[i - 1])
  <2>1. CASE i <= j
    <3>1. i \in 1..j /\ i \in 0..j /\ i - 1 \in 0..j
      BY <2>1
    <3> QED
      BY <1>1, <1>4, <3>1 DEF GoesBy
  <2>2. CASE i > j
    <3>1. PICK h \in 1..k : h = i - j
      BY <2>2
    <3>2. h \in 0..k /\ h - 1 \in 0..k /\ j + h = i /\ j + (h - 1) = i - 1
      BY <3>1
    <3> QED
      BY <1>2, <1>4, <3>2 DEF GoesBy
  <2> QED
    BY <2>1, <2>2
<1> QED
  BY <1>5, <1>6 DEF Goes, GoesBy

(* The tree at n has the names and literals w, the nodes Q, and k nodes.   *)
Spells(n, w, Q, k) ==
  /\ IsList(w) /\ k \in Nat
  /\ \A T, R, P : IsList(T) /\ IsList(R) =>
       Goes(Visit(<<n>> \o T, R, P), k, Visit(T, R \o w, P \union Q))

LEMMA VisitNode ==
  ASSUME NEW n, NEW T, IsList(T), NEW R, NEW P
  PROVE  Goes(Visit(<<n>> \o T, R, P), 1, Visit(n.kids \o T, R \o Word(n), P \union {n}))
<1>1. PICK s : s = Visit(<<n>> \o T, R, P)
  OBVIOUS
<1>2. s.todo = <<n>> \o T /\ s.words = R /\ s.nodes = P
  BY <1>1 DEF Visit
<1>3. s.todo # <<>> /\ s.todo[1] = n /\ Tail(s.todo) = T
  BY <1>2, FirstOff
<1>4. Step(s) = Visit(n.kids \o T, R \o Word(n), P \union {n})
  BY <1>2, <1>3 DEF Step
<1> QED
  BY <1>1, <1>4, StepGoes

LEMMA WordList == \A n : IsList(Word(n))
BY ShortLists DEF Word

LEMMA SpellsLeaf ==
  ASSUME NEW n, n.kids = <<>>
  PROVE  Spells(n, Word(n), {n}, 1)
<1>1. ASSUME NEW T, NEW R, NEW P, IsList(T), IsList(R)
      PROVE  Goes(Visit(<<n>> \o T, R, P), 1, Visit(T, R \o Word(n), P \union {n}))
  <2>1. n.kids \o T = T
    BY <1>1, JoinNone
  <2> QED
    BY <1>1, <2>1, VisitNode
<1> QED
  BY <1>1, WordList DEF Spells

LEMMA SpellsOne ==
  ASSUME NEW n, NEW a, n.kids = <<a>>, Word(n) = <<>>,
         NEW w, NEW Q, NEW k \in Nat, Spells(a, w, Q, k)
  PROVE  Spells(n, w, {n} \union Q, 1 + k)
<1>1. ASSUME NEW T, NEW R, NEW P, IsList(T), IsList(R)
      PROVE  Goes(Visit(<<n>> \o T, R, P), 1 + k, Visit(T, R \o w, P \union ({n} \union Q)))
  <2>1. Goes(Visit(<<n>> \o T, R, P), 1, Visit(<<a>> \o T, R, P \union {n}))
    <3>1. R \o Word(n) = R
      BY <1>1, JoinNone
    <3> QED
      BY <1>1, <3>1, VisitNode
  <2>2. Goes(Visit(<<a>> \o T, R, P \union {n}), k, Visit(T, R \o w, (P \union {n}) \union Q))
    BY <1>1 DEF Spells
  <2>3. (P \union {n}) \union Q = P \union ({n} \union Q)
    OBVIOUS
  <2> QED
    BY <2>1, <2>2, <2>3, GoOn
<1> QED
  BY <1>1 DEF Spells

LEMMA SpellsTwo ==
  ASSUME NEW n, NEW a, NEW b, n.kids = <<a, b>>, Word(n) = <<>>,
         NEW w, NEW Q, NEW k \in Nat, Spells(a, w, Q, k),
         NEW z, NEW S, NEW m \in Nat, Spells(b, z, S, m)
  PROVE  Spells(n, w \o z, {n} \union (Q \union S), (1 + k) + m)
<1>1. ASSUME NEW T, NEW R, NEW P, IsList(T), IsList(R)
      PROVE  Goes(Visit(<<n>> \o T, R, P), (1 + k) + m,
                  Visit(T, R \o (w \o z), P \union ({n} \union (Q \union S))))
  <2>1. IsList(w) /\ IsList(z) /\ IsList(<<b>> \o T) /\ IsList(R \o w)
    BY <1>1, ListParts, JoinLists DEF Spells
  <2>2. Goes(Visit(<<n>> \o T, R, P), 1, Visit(<<a>> \o (<<b>> \o T), R, P \union {n}))
    <3>1. R \o Word(n) = R
      BY <1>1, JoinNone
    <3>2. n.kids \o T = <<a>> \o (<<b>> \o T)
      <4>1. <<a, b>> \o T = <<a>> \o (<<b>> \o T)
        BY <1>1, TwoCalls
      <4> QED
        BY <4>1
    <3> QED
      BY <1>1, <3>1, <3>2, VisitNode
  <2>3. Goes(Visit(<<a>> \o (<<b>> \o T), R, P \union {n}), k,
             Visit(<<b>> \o T, R \o w, (P \union {n}) \union Q))
    BY <1>1, <2>1 DEF Spells
  <2>4. Goes(Visit(<<b>> \o T, R \o w, (P \union {n}) \union Q), m,
             Visit(T, (R \o w) \o z, ((P \union {n}) \union Q) \union S))
    BY <1>1, <2>1 DEF Spells
  <2>5. Goes(Visit(<<n>> \o T, R, P), 1 + k, Visit(<<b>> \o T, R \o w, (P \union {n}) \union Q))
    BY <2>2, <2>3, GoOn
  <2>6. ((P \union {n}) \union Q) \union S = P \union ({n} \union (Q \union S))
    OBVIOUS
  <2>7. (R \o w) \o z = R \o (w \o z)
    BY <1>1, <2>1, JoinAgain
  <2>8. 1 + k \in Nat
    OBVIOUS
  <2>9. Goes(Visit(<<n>> \o T, R, P), (1 + k) + m,
             Visit(T, (R \o w) \o z, ((P \union {n}) \union Q) \union S))
    BY <2>4, <2>5, <2>8, GoOn
  <2> QED
    BY <2>6, <2>7, <2>9, Zenon
<1>2. IsList(w \o z) /\ (1 + k) + m \in Nat
  BY JoinLists DEF Spells
<1> QED
  BY <1>1, <1>2 DEF Spells

(* A tree with the names and literals w, made as its nodes should be, of k *)
(* nodes; e says whether there is a hole in it.                            *)
Made(n, w, e, k) ==
  \E Q : /\ Spells(n, w, Q, k)
         /\ \A x \in Q : Len(x.kids) = Children(x.t)
         /\ e <=> \E x \in Q : x.t = "ParseError"

LEMMA KidsLen == Len(<<>>) = 0 /\ (\A a : Len(<<a>>) = 1) /\ \A a, b : Len(<<a, b>>) = 2
OBVIOUS

LEMMA MadeLeaf ==
  ASSUME NEW n, n.kids = <<>>, Children(n.t) = 0
  PROVE  Made(n, Word(n), n.t = "ParseError", 1)
<1>1. Spells(n, Word(n), {n}, 1)
  BY SpellsLeaf
<1>2. \A x \in {n} : Len(x.kids) = Children(x.t)
  BY KidsLen
<1>3. (n.t = "ParseError") <=> \E x \in {n} : x.t = "ParseError"
  OBVIOUS
<1> QED
  BY <1>1, <1>2, <1>3 DEF Made

LEMMA InnerNodes == \A t, n : n.t = t /\ Children(t) # 0 => Word(n) = <<>> /\ t # "ParseError"
<1>1. \A t : t \in Literals \union {"ParseError"} => Children(t) = 0
  BY DEF Children, Literals, ValueNodes, UnaryNodes
<1>2. \A t : t \in Literals \/ t = "ParseError" => Children(t) = 0
  BY <1>1
<1>3. \A n : n.t \notin Literals => Word(n) = <<>>
  BY DEF Word
<1> QED
  BY <1>2, <1>3

LEMMA MadeOne ==
  ASSUME NEW t, Children(t) = 1, NEW a, NEW w, NEW e, NEW k \in Nat, Made(a, w, e, k)
  PROVE  Made(Node(t, "", 0, <<a>>), w, e, 1 + k)
<1>1. PICK n : n = Node(t, "", 0, <<a>>)
  OBVIOUS
<1>2. n.t = t /\ n.kids = <<a>>
  BY <1>1 DEF Node
<1>3. PICK Q : /\ Spells(a, w, Q, k)
               /\ \A x \in Q : Len(x.kids) = Children(x.t)
               /\ e <=> \E x \in Q : x.t = "ParseError"
  BY DEF Made
<1>4. Word(n) = <<>> /\ t # "ParseError"
  BY <1>2, InnerNodes
<1>5. Spells(n, w, {n} \union Q, 1 + k)
  BY <1>2, <1>3, <1>4, SpellsOne
<1>6. \A x \in {n} \union Q : Len(x.kids) = Children(x.t)
  <2>1. Len(n.kids) = Children(n.t)
    BY <1>2, KidsLen
  <2> QED
    BY <1>3, <2>1
<1>7. e <=> \E x \in {n} \union Q : x.t = "ParseError"
  BY <1>2, <1>3, <1>4
<1> QED
  BY <1>1, <1>5, <1>6, <1>7 DEF Made

LEMMA MadeTwo ==
  ASSUME NEW t, Children(t) = 2,
         NEW a, NEW w, NEW e, NEW k \in Nat, Made(a, w, e, k),
         NEW b, NEW z, NEW f, NEW m \in Nat, Made(b, z, f, m)
  PROVE  Made(Node(t, "", 0, <<a, b>>), w \o z, e \/ f, (1 + k) + m)
<1>1. PICK n : n = Node(t, "", 0, <<a, b>>)
  OBVIOUS
<1>2. n.t = t /\ n.kids = <<a, b>>
  BY <1>1 DEF Node
<1>3. PICK Q : /\ Spells(a, w, Q, k)
               /\ \A x \in Q : Len(x.kids) = Children(x.t)
               /\ e <=> \E x \in Q : x.t = "ParseError"
  BY DEF Made
<1>4. PICK S : /\ Spells(b, z, S, m)
               /\ \A x \in S : Len(x.kids) = Children(x.t)
               /\ f <=> \E x \in S : x.t = "ParseError"
  BY DEF Made
<1>5. Word(n) = <<>> /\ t # "ParseError"
  BY <1>2, InnerNodes
<1>6. Spells(n, w \o z, {n} \union (Q \union S), (1 + k) + m)
  BY <1>2, <1>3, <1>4, <1>5, SpellsTwo
<1>7. \A x \in {n} \union (Q \union S) : Len(x.kids) = Children(x.t)
  <2>1. Len(n.kids) = Children(n.t)
    BY <1>2, KidsLen
  <2> QED
    BY <1>3, <1>4, <2>1
<1>8. (e \/ f) <=> \E x \in {n} \union (Q \union S) : x.t = "ParseError"
  BY <1>2, <1>3, <1>4, <1>5
<1> QED
  BY <1>1, <1>6, <1>7, <1>8 DEF Made

(* What the walk of a tree comes to.                                       *)
LEMMA StopsThere ==
  ASSUME NEW n \in Nat, NEW s, NEW k \in 0..n, NEW t, Goes(s, k, t), Step(t) = t
  PROVE  \E w : GoesBy(w, s, n, t)
<1>1. PICK v : GoesBy(v, s, k, t)
  BY DEF Goes
<1>2. PICK w : w = [i \in 0..n |-> IF i <= k THEN v[i] ELSE t]
  OBVIOUS
<1>3. (\A i \in 0..k : w[i] = v[i]) /\ (\A i \in 0..n : i >= k => w[i] = t)
  BY <1>1, <1>2 DEF GoesBy
<1>4. ASSUME NEW i \in 1..n PROVE w[i] = Step(w[i - 1])
  <2>1. CASE i <= k
    <3>1. i \in 1..k /\ i \in 0..k /\ i - 1 \in 0..k
      BY <2>1
    <3> QED
      BY <1>1, <1>3, <3>1 DEF GoesBy
  <2>2. CASE i > k
    <3>1. i \in 0..n /\ i - 1 \in 0..n /\ i >= k /\ i - 1 >= k
      BY <2>2
    <3> QED
      BY <1>3, <3>1
  <2> QED
    BY <2>1, <2>2
<1>5. w[0] = s /\ w[n] = t
  BY <1>1, <1>3 DEF GoesBy
<1> QED
  BY <1>4, <1>5 DEF GoesBy

-----------------------------------------------------------------------------
(* What is defined step by step.                                           *)

(* Induction: the provers cannot instantiate a predicate, but a set.       *)
LEMMA EveryNatural ==
  ASSUME NEW T \in SUBSET Nat, 0 \in T, \A n \in T : n + 1 \in T
  PROVE  T = Nat
<1> SUFFICES ASSUME T # Nat PROVE FALSE
  OBVIOUS
<1> DEFINE U == Nat \ T
           R == OpToRel(<, Nat)
<1>1. IsWellFoundedOn(R, Nat)
  BY NatLessThanWellFounded
<1>2. \A x, y \in Nat : y < x => <<y, x>> \in R
  BY DEF OpToRel
<1>3. U \in SUBSET Nat /\ U # {}
  OBVIOUS
<1> HIDE DEF U, R
<1>4. PICK x \in U : \A y \in U : ~ (<<y, x>> \in R)
  BY <1>1, <1>3, WFMin
<1>5. x \in Nat /\ x \notin T /\ x # 0
  BY <1>4 DEF U
<1>6. x - 1 \in Nat /\ x - 1 < x /\ (x - 1) + 1 = x
  BY <1>5
<1>7. x - 1 \in T
  BY <1>2, <1>4, <1>5, <1>6 DEF U
<1> QED
  BY <1>5, <1>6, <1>7

LEMMA WalkIs ==
  ASSUME IsList(lexemes), NEW n, NEW w, NEW e, NEW k \in Nat, Made(n, w, e, k), k <= MaxNodes
  PROVE  \E Q : /\ Walk(n) = Visit(<<>>, w, Q)
                /\ \A x \in Q : Len(x.kids) = Children(x.t)
                /\ e <=> \E x \in Q : x.t = "ParseError"
<1>1. PICK N \in Nat : N = MaxNodes
  BY DEF IsList, MaxNodes
<1>2. PICK Q : /\ Spells(n, w, Q, k)
               /\ \A x \in Q : Len(x.kids) = Children(x.t)
               /\ e <=> \E x \in Q : x.t = "ParseError"
  BY DEF Made
<1>3. PICK s : s = Visit(<<n>>, <<>>, {})
  OBVIOUS
<1>4. PICK t : t = Visit(<<>>, w, Q)
  OBVIOUS
<1>5. Goes(s, k, t)
  <2>1. IsList(<<>>) /\ IsList(<<n>>) /\ IsList(w)
    BY <1>2, ShortLists DEF Spells
  <2>2. Goes(Visit(<<n>> \o <<>>, <<>>, {}), k, Visit(<<>>, <<>> \o w, {} \union Q))
    BY <1>2, <2>1 DEF Spells
  <2>3. <<n>> \o <<>> = <<n>> /\ <<>> \o w = w /\ {} \union Q = Q
    BY <2>1, JoinNone
  <2> QED
    BY <1>3, <1>4, <2>2, <2>3
<1>6. Step(t) = t
  BY <1>4 DEF Step, Visit
<1>7. PICK v : GoesBy(v, s, N, t)
  <2>1. k \in 0..N
    BY <1>1
  <2> QED
    BY <1>5, <1>6, <2>1, StopsThere
<1> DEFINE A(g) == g = [i \in 0..MaxNodes |-> IF i = 0 THEN Visit(<<n>>, <<>>, {}) ELSE Step(g[i - 1])]
           c == CHOOSE g : A(g)
<1>8. Walk(n) = c[N]
  BY <1>1 DEF Walk
<1>9. \E g : A(g)
  <2>1. PICK g : g = [i \in 0..N |-> v[i]]
    OBVIOUS
  <2>2. \A i \in 0..N : g[i] = IF i = 0 THEN s ELSE Step(g[i - 1])
    <3> TAKE i \in 0..N
    <3>1. i = 0 \/ (i \in 1..N /\ i - 1 \in 0..N)
      OBVIOUS
    <3> QED
      BY <1>7, <2>1, <3>1 DEF GoesBy
  <2>3. g = [i \in 0..N |-> IF i = 0 THEN s ELSE Step(g[i - 1])]
    BY <2>1, <2>2
  <2> QED
    BY <1>1, <1>3, <2>3
<1>10. A(c)
  BY <1>9
<1>11. c = [i \in 0..N |-> IF i = 0 THEN s ELSE Step(c[i - 1])]
  BY <1>1, <1>3, <1>10
<1> HIDE DEF c, A
<1> DEFINE T == {i \in Nat : i <= N => c[i] = v[i]}
<1>12. 0 \in T
  <2>1. c[0] = s
    BY <1>11
  <2> QED
    BY <1>7, <2>1 DEF GoesBy
<1>13. ASSUME NEW i \in T PROVE i + 1 \in T
  <2>1. i \in Nat
    OBVIOUS
  <2>2. ASSUME i + 1 <= N PROVE c[i + 1] = v[i + 1]
    <3>1. i + 1 \in 0..N /\ i + 1 \in 1..N /\ i + 1 # 0 /\ (i + 1) - 1 = i /\ i <= N
      BY <2>1, <2>2
    <3>2. c[i] = v[i]
      BY <3>1
    <3>3. c[i + 1] = Step(c[i])
      BY <1>11, <3>1
    <3>4. v[i + 1] = Step(v[i])
      BY <1>7, <3>1 DEF GoesBy
    <3> QED
      BY <3>2, <3>3, <3>4
  <2> QED
    BY <2>1, <2>2
<1>14. T = Nat
  <2>1. T \in SUBSET Nat
    OBVIOUS
  <2> HIDE DEF T
  <2> QED
    BY <1>12, <1>13, <2>1, EveryNatural
<1>15. c[N] = t
  <2>1. N \in T
    BY <1>14
  <2>2. c[N] = v[N]
    BY <2>1
  <2> QED
    BY <1>7, <2>2 DEF GoesBy
<1> QED
  BY <1>2, <1>4, <1>8, <1>15

(* The names and literals up to a lexeme.                                  *)
LEMMA WordsReadIs ==
  ASSUME IsList(lexemes)
  PROVE  /\ WordsRead[0] = <<>>
         /\ \A i \in 1..Len(lexemes) : WordsRead[i] = WordsRead[i - 1] \o Word(lexemes[i])
         /\ \A i \in 0..Len(lexemes) : IsList(WordsRead[i])
<1>1. PICK N \in Nat : N = Len(lexemes)
  BY DEF IsList
<1> DEFINE Good(g, m) == /\ g[0] = <<>>
                         /\ \A i \in 1..m : g[i] = g[i - 1] \o Word(lexemes[i])
           E == {m \in Nat : \E g : Good(g, m)}
<1>2. 0 \in E
  <2>1. PICK g : g = [i \in {0} |-> <<>>]
    OBVIOUS
  <2>2. g[0] = <<>> /\ \A i \in 1..0 : FALSE
    BY <2>1
  <2>3. Good(g, 0)
    BY <2>2
  <2> QED
    BY <2>3
<1>3. ASSUME NEW m \in E PROVE m + 1 \in E
  <2>1. PICK n \in Nat : n = m
    OBVIOUS
  <2>2. PICK g : Good(g, n)
    BY <2>1
  <2>3. PICK h : h = [i \in 0..(n + 1) |-> IF i = n + 1 THEN g[n] \o Word(lexemes[n + 1]) ELSE g[i]]
    OBVIOUS
  <2>4. (\A i \in 0..n : h[i] = g[i]) /\ h[n + 1] = g[n] \o Word(lexemes[n + 1])
    <3>1. n + 1 \in 0..(n + 1) /\ \A i \in 0..n : i \in 0..(n + 1) /\ i # n + 1
      OBVIOUS
    <3>2. PICK y : y = g[n] \o Word(lexemes[n + 1])
      OBVIOUS
    <3>3. h = [i \in 0..(n + 1) |-> IF i = n + 1 THEN y ELSE g[i]]
      BY <2>3, <3>2
    <3> QED
      BY ONLY <3>1, <3>2, <3>3
  <2>5. \A i \in 1..(n + 1) : i = n + 1 \/ (i \in 1..n /\ i \in 0..n /\ i - 1 \in 0..n)
    OBVIOUS
  <2>6. \A i \in 1..(n + 1) : h[i] = h[i - 1] \o Word(lexemes[i])
    <3> TAKE i \in 1..(n + 1)
    <3>1. CASE i = n + 1
      <4>1. i - 1 = n /\ n \in 0..n
        BY <3>1
      <4> QED
        BY <2>4, <3>1, <4>1
    <3>2. CASE i # n + 1
      BY <2>2, <2>4, <2>5, <3>2
    <3> QED
      BY <3>1, <3>2
  <2>7. h[0] = <<>>
    BY <2>2, <2>4
  <2>8. Good(h, n + 1)
    BY <2>6, <2>7
  <2> HIDE DEF Good
  <2> QED
    BY <2>1, <2>8
<1>4. E = Nat
  <2>1. E \in SUBSET Nat
    OBVIOUS
  <2> HIDE DEF E
  <2> QED
    BY <1>2, <1>3, <2>1, EveryNatural
<1>5. PICK v : Good(v, N)
  BY <1>4
<1> DEFINE A(g) == g = [i \in 0..Len(lexemes) |-> IF i = 0 THEN <<>> ELSE g[i - 1] \o Word(lexemes[i])]
           c == CHOOSE g : A(g)
<1>6. WordsRead = c
  BY DEF WordsRead
<1>7. \E g : A(g)
  <2>1. PICK g : g = [i \in 0..N |-> v[i]]
    OBVIOUS
  <2>2. \A i \in 0..N : g[i] = IF i = 0 THEN <<>> ELSE g[i - 1] \o Word(lexemes[i])
    <3> TAKE i \in 0..N
    <3>1. i = 0 \/ (i \in 1..N /\ i - 1 \in 0..N)
      OBVIOUS
    <3> QED
      BY <1>5, <2>1, <3>1
  <2>3. g = [i \in 0..N |-> IF i = 0 THEN <<>> ELSE g[i - 1] \o Word(lexemes[i])]
    BY <2>1, <2>2
  <2> QED
    BY <1>1, <2>3
<1>8. A(c)
  BY <1>7
<1>9. c = [i \in 0..N |-> IF i = 0 THEN <<>> ELSE c[i - 1] \o Word(lexemes[i])]
  BY <1>1, <1>8
<1> HIDE DEF c, A
<1>10. c[0] = <<>> /\ \A i \in 1..N : c[i] = c[i - 1] \o Word(lexemes[i])
  <2>1. 0 \in 0..N /\ \A i \in 1..N : i \in 0..N /\ i # 0
    OBVIOUS
  <2> QED
    BY <1>9, <2>1
<1> DEFINE T == {i \in Nat : i <= N => IsList(c[i])}
<1>11. 0 \in T
  BY <1>10, ShortLists
<1>12. ASSUME NEW i \in T PROVE i + 1 \in T
  <2>1. i \in Nat
    OBVIOUS
  <2>2. ASSUME i + 1 <= N PROVE IsList(c[i + 1])
    <3>1. i + 1 \in 1..N /\ (i + 1) - 1 = i /\ i <= N
      BY <2>1, <2>2
    <3>2. IsList(c[i])
      BY <3>1
    <3>3. c[i + 1] = c[i] \o Word(lexemes[i + 1])
      BY <1>10, <3>1
    <3> QED
      BY <3>2, <3>3, WordList, JoinLists
  <2> QED
    BY <2>1, <2>2
<1>13. T = Nat
  <2>1. T \in SUBSET Nat
    OBVIOUS
  <2> HIDE DEF T
  <2> QED
    BY <1>11, <1>12, <2>1, EveryNatural
<1>14. \A i \in 0..N : IsList(c[i])
  BY <1>13
<1> QED
  BY <1>1, <1>6, <1>10, <1>14

-----------------------------------------------------------------------------
(* What the calls under way have made.                                     *)

(* Words, whether there is a hole, and nodes made or still to be made.     *)
Sum(w, e, m) == [w |-> w, e |-> e, m |-> m]
IsSum(a)     == a = Sum(a.w, a.e, a.m) /\ IsList(a.w) /\ a.e \in BOOLEAN /\ a.m \in Nat

After(b, w, e, k) == Sum(b.w \o w, b.e \/ e, b.m + k)

(* The nodes a call may make before it reads a lexeme.                     *)
Separators == {"Semicolon", "Newline", "Comma", "Colon"}

Own(f) ==
  CASE f.k = "loop" -> 0
    [] f.k = "nud"  -> IF f.t \in Separators THEN 3 ELSE 2
    [] f.k = "led"  -> 3
    [] OTHER        -> 1

(* A lexeme that is read and not yet in a tree.                            *)
Pending(f) == IF f.k \in {"nud", "led"} THEN Word(f) ELSE <<>>

Shaped(f) ==
  \/ f.k \in {"expr", "loop", "nud"} /\ f.kids = <<>>
  \/ f.k = "led" /\ f.kids # <<>>
  \/ f.k = "node" /\ f.t = "Unexpected"
  \/ f.k = "node" /\ f.t \notin {"Unexpected", "NoTree"} /\ Children(f.t) = (IF f.kids = <<>> THEN 1 ELSE 2)
  \/ f.k = "close" /\ f.t \in {"Paren", "CodeBlock", "Array", "Recurse", "Function"} /\ f.kids = <<>>
  \/ f.k = "close" /\ f.t \in {"Index", "Call"} /\ f.kids # <<>>
  \/ f.k = "body" /\ f.t \in Conditions /\ f.kids = <<>>

(* The call f adds words, a hole or not, and nodes.                        *)
Given(f, w, e, k) ==
  \/ f.kids = <<>> /\ w = Pending(f) /\ e = FALSE /\ k = Own(f)
  \/ \E n, u, m : /\ f.kids = <<n>> /\ m \in Nat /\ e \in BOOLEAN /\ Made(n, u, e, m)
                  /\ IsList(u) /\ w = u \o Pending(f) /\ k = m + Own(f)

Adds(b, f, a) == Shaped(f) /\ \E w, e, k : Given(f, w, e, k) /\ a = After(b, w, e, k)

(* d[i] is what the i calls at the bottom of fs have.                      *)
HoldBy(d, fs, a) ==
  /\ d[0] = Sum(<<>>, FALSE, 0) /\ d[Len(fs)] = a
  /\ \A i \in 0..Len(fs) : IsSum(d[i])
  /\ \A i \in 1..Len(fs) : Adds(d[i - 1], fs[Len(fs) + 1 - i], d[i])

Hold(fs, a) == \E d : HoldBy(d, fs, a)

-----------------------------------------------------------------------------
(* Sums.                                                                   *)

LEMMA SumFields == \A w, e, m : Sum(w, e, m).w = w /\ Sum(w, e, m).e = e /\ Sum(w, e, m).m = m
BY DEF Sum

LEMMA AfterFields ==
  \A b, w, e, k : LET a == After(b, w, e, k) IN a.w = b.w \o w /\ a.e = (b.e \/ e) /\ a.m = b.m + k
BY DEF After, Sum

LEMMA AfterSum ==
  ASSUME NEW b, IsSum(b), NEW w, IsList(w), NEW e \in BOOLEAN, NEW k \in Nat
  PROVE  IsSum(After(b, w, e, k))
<1>1. PICK a : a = After(b, w, e, k)
  OBVIOUS
<1>2. a.w = b.w \o w /\ a.e = (b.e \/ e) /\ a.m = b.m + k
  BY <1>1, AfterFields
<1>3. IsList(a.w)
  BY <1>2, JoinLists DEF IsSum
<1>4. a.m \in Nat
  BY <1>2 DEF IsSum
<1>5. a.e \in BOOLEAN
  BY <1>2
<1>6. a = Sum(a.w, a.e, a.m)
  BY <1>1 DEF After, Sum
<1> QED
  BY <1>1, <1>3, <1>4, <1>5, <1>6 DEF IsSum

LEMMA AfterAgain ==
  ASSUME NEW b, IsSum(b), NEW w, IsList(w), NEW e \in BOOLEAN, NEW k \in Nat,
         NEW u, IsList(u), NEW f \in BOOLEAN, NEW m \in Nat
  PROVE  After(After(b, w, e, k), u, f, m) = After(b, w \o u, e \/ f, k + m)
<1>1. PICK a : a = After(b, w, e, k)
  OBVIOUS
<1>2. a.w = b.w \o w /\ a.e = (b.e \/ e) /\ a.m = b.m + k
  BY <1>1, AfterFields
<1>3. a.w \o u = b.w \o (w \o u)
  <2>1. PICK v : v = b.w
    OBVIOUS
  <2>2. IsList(v)
    BY <2>1 DEF IsSum
  <2>3. (v \o w) \o u = v \o (w \o u)
    BY <2>2, JoinAgain
  <2> QED
    BY <1>2, <2>1, <2>3
<1>4. (a.e \/ f) = (b.e \/ (e \/ f))
  BY <1>2
<1>5. a.m + m = b.m + (k + m)
  BY <1>2 DEF IsSum
<1> QED
  BY <1>1, <1>3, <1>4, <1>5, Zenon DEF After

(* What the tree that a call returns has.                                  *)
LEMMA MadeList == \A n, w, e, k : Made(n, w, e, k) => IsList(w)
BY DEF Made, Spells

LEMMA PendingList == \A f : IsList(Pending(f))
BY WordList, ShortLists DEF Pending

LEMMA OwnNat == \A f : Own(f) \in Nat
BY DEF Own

LEMMA GivenTypes ==
  ASSUME NEW f, NEW w, NEW e, NEW k, Given(f, w, e, k)
  PROVE  IsList(w) /\ e \in BOOLEAN /\ k \in Nat
<1>1. CASE f.kids = <<>> /\ w = Pending(f) /\ e = FALSE /\ k = Own(f)
  BY <1>1, PendingList, OwnNat
<1>2. ASSUME NEW n, NEW u, NEW m, /\ f.kids = <<n>> /\ m \in Nat /\ e \in BOOLEAN /\ Made(n, u, e, m)
                                  /\ IsList(u) /\ w = u \o Pending(f) /\ k = m + Own(f)
      PROVE  IsList(w) /\ e \in BOOLEAN /\ k \in Nat
  <2>1. Own(f) \in Nat
    BY OwnNat
  <2>2. IsList(u \o Pending(f))
    BY <1>2, PendingList, JoinLists
  <2> QED
    BY <1>2, <2>1, <2>2
<1> QED
  BY <1>1, <1>2 DEF Given

LEMMA AddsSum ==
  ASSUME NEW b, IsSum(b), NEW f, NEW a, Adds(b, f, a)
  PROVE  IsSum(a)
<1>1. PICK w, e, k : Given(f, w, e, k) /\ a = After(b, w, e, k)
  BY DEF Adds
<1> QED
  BY <1>1, GivenTypes, AfterSum

-----------------------------------------------------------------------------
(* Calls and returns.                                                      *)

(* e goes one further than d, which is about the list s, with f before it. *)
Longer(e, d, a, n, f, s) ==
  /\ e[0] = d[0] /\ e[n + 1] = a
  /\ \A i \in 0..n : e[i] = d[i]
  /\ \A i \in 1..(n + 1) :
       \/ i = n + 1 /\ e[i - 1] = d[n] /\ (<<f>> \o s)[n + 2 - i] = f
       \/ /\ i \in 1..n /\ e[i] = d[i] /\ e[i - 1] = d[i - 1]
          /\ (<<f>> \o s)[n + 2 - i] = s[n + 1 - i]

LEMMA OneMoreCall ==
  ASSUME NEW s, IsList(s), NEW f, NEW d, NEW a, NEW n \in Nat, n = Len(s)
  PROVE  Len(<<f>> \o s) = n + 1 /\ \E e : Longer(e, d, a, n, f, s)
<1>1. PICK r : r = <<f>> \o s
  OBVIOUS
<1>2. Len(r) = n + 1 /\ r[1] = f /\ \A i \in 1..n : r[i + 1] = s[i]
  BY <1>1, ListParts
<1>3. PICK e : e = [i \in 0..(n + 1) |-> IF i = n + 1 THEN a ELSE d[i]]
  OBVIOUS
<1>4. n + 1 \in 0..(n + 1) /\ \A i \in 0..n : i \in 0..(n + 1) /\ i # n + 1
  OBVIOUS
<1>5. e[n + 1] = a /\ \A i \in 0..n : e[i] = d[i]
  BY <1>3, <1>4
<1>6. ASSUME NEW i \in 1..(n + 1)
      PROVE  \/ i = n + 1 /\ e[i - 1] = d[n] /\ r[n + 2 - i] = f
             \/ /\ i \in 1..n /\ e[i] = d[i] /\ e[i - 1] = d[i - 1]
                /\ r[n + 2 - i] = s[n + 1 - i]
  <2>1. CASE i = n + 1
    <3>1. i - 1 = n /\ n + 2 - i = 1 /\ n \in 0..n
      BY <2>1
    <3> QED
      BY <1>2, <1>5, <2>1, <3>1
  <2>2. CASE i # n + 1
    <3>1. i \in 1..n /\ i \in 0..n /\ i - 1 \in 0..n /\ n + 1 - i \in 1..n /\ n + 2 - i = (n + 1 - i) + 1
      BY <1>6, <2>2
    <3>2. r[n + 2 - i] = s[n + 1 - i]
      BY <1>2, <3>1
    <3> QED
      BY <1>5, <3>1, <3>2
  <2> QED
    BY <2>1, <2>2
<1>7. 0 \in 0..n
  OBVIOUS
<1>8. Longer(e, d, a, n, f, s)
  BY <1>1, <1>5, <1>6, <1>7 DEF Longer
<1> QED
  BY <1>1, <1>2, <1>8

LEMMA CallHeld ==
  ASSUME NEW s, IsList(s), NEW b, Hold(s, b), NEW f, NEW a, Adds(b, f, a)
  PROVE  Hold(<<f>> \o s, a)
<1>1. PICK n \in Nat : n = Len(s)
  BY DEF IsList
<1>2. PICK d : HoldBy(d, s, b)
  BY DEF Hold
<1>3. PICK r : r = <<f>> \o s
  OBVIOUS
<1>4. PICK e : Longer(e, d, a, n, f, s)
  BY <1>1, OneMoreCall
<1>5. Len(r) = n + 1
  BY <1>1, <1>3, OneMoreCall
<1>6. d[n] = b /\ IsSum(b)
  <2>1. n \in 0..n
    OBVIOUS
  <2> QED
    BY <1>1, <1>2, <2>1 DEF HoldBy
<1>7. \A i \in 1..(n + 1) : Adds(e[i - 1], r[n + 2 - i], e[i])
  BY <1>1, <1>2, <1>3, <1>4, <1>6 DEF HoldBy, Longer
<1>8. \A i \in 0..(n + 1) : IsSum(e[i])
  <2>1. IsSum(a)
    BY <1>6, AddsSum
  <2>2. \A i \in 0..(n + 1) : i = n + 1 \/ i \in 0..n
    OBVIOUS
  <2> QED
    BY <1>1, <1>2, <1>4, <2>1, <2>2 DEF HoldBy, Longer
<1>9. HoldBy(e, r, a)
  <2>1. \A i \in 1..(n + 1) : (n + 1) + 1 - i = n + 2 - i
    OBVIOUS
  <2> QED
    BY <1>2, <1>4, <1>5, <1>7, <1>8, <2>1 DEF HoldBy, Longer
<1> QED
  BY <1>3, <1>9 DEF Hold

LEMMA OneCallLess ==
  ASSUME NEW s, IsList(s), s # <<>>
  PROVE  \E n \in Nat : /\ Len(s) = n + 1 /\ Len(Tail(s)) = n
                        /\ \A i \in 1..n : Tail(s)[n + 1 - i] = s[n + 2 - i]
                        /\ s[n + 2 - (n + 1)] = s[1]
<1>1. PICK m \in Nat \ {0} : m = Len(s)
  BY TailParts
<1>2. PICK r : r = Tail(s)
  OBVIOUS
<1>3. Len(r) = m - 1 /\ \A i \in 1..(m - 1) : r[i] = s[i + 1]
  BY <1>1, <1>2, TailParts
<1>4. PICK n \in Nat : n = m - 1
  BY <1>1
<1>5. m = n + 1 /\ n + 2 - (n + 1) = 1
  BY <1>4
<1>6. \A i \in 1..n : n + 1 - i \in 1..(m - 1) /\ (n + 1 - i) + 1 = n + 2 - i
  BY <1>4
<1> QED
  BY <1>1, <1>2, <1>3, <1>4, <1>5, <1>6

LEMMA ReturnHeld ==
  ASSUME NEW s, IsList(s), s # <<>>, NEW a, Hold(s, a)
  PROVE  \E b : Hold(Tail(s), b) /\ IsSum(b) /\ Adds(b, s[1], a)
<1>1. PICK n \in Nat : /\ Len(s) = n + 1 /\ Len(Tail(s)) = n
                       /\ \A i \in 1..n : Tail(s)[n + 1 - i] = s[n + 2 - i]
                       /\ s[n + 2 - (n + 1)] = s[1]
  BY OneCallLess
<1>2. PICK d : HoldBy(d, s, a)
  BY DEF Hold
<1>3. \A i \in 1..(n + 1) : (n + 1) + 1 - i = n + 2 - i
  OBVIOUS
<1>4. /\ d[0] = Sum(<<>>, FALSE, 0) /\ d[n + 1] = a
      /\ \A i \in 0..(n + 1) : IsSum(d[i])
      /\ \A i \in 1..(n + 1) : Adds(d[i - 1], s[n + 2 - i], d[i])
  BY <1>1, <1>2, <1>3 DEF HoldBy
<1>5. HoldBy(d, Tail(s), d[n])
  <2>1. (\A i \in 0..n : i \in 0..(n + 1)) /\ \A i \in 1..n : i \in 1..(n + 1)
    OBVIOUS
  <2> QED
    BY <1>1, <1>4, <2>1 DEF HoldBy
<1>6. Adds(d[n], s[1], a)
  <2>1. n + 1 \in 1..(n + 1) /\ (n + 1) - 1 = n
    OBVIOUS
  <2> QED
    BY <1>1, <1>4, <2>1
<1>7. IsSum(d[n])
  <2>1. n \in 0..(n + 1)
    OBVIOUS
  <2> QED
    BY <1>4, <2>1
<1> QED
  BY <1>5, <1>6, <1>7 DEF Hold

LEMMA NoneHeld == \A a : Hold(<<>>, a) => a = Sum(<<>>, FALSE, 0)
BY DEF Hold, HoldBy

LEMMA HeldNone == Hold(<<>>, Sum(<<>>, FALSE, 0))
<1>1. PICK a : a = Sum(<<>>, FALSE, 0)
  OBVIOUS
<1>2. IsSum(a)
  <2>1. a.w = <<>> /\ a.e = FALSE /\ a.m = 0
    BY <1>1 DEF Sum
  <2>2. IsList(<<>>)
    BY ShortLists
  <2>3. a = Sum(a.w, a.e, a.m)
    BY <1>1, <2>1, Zenon
  <2>4. 0 \in Nat /\ FALSE \in BOOLEAN
    OBVIOUS
  <2> QED
    BY <2>1, <2>2, <2>3, <2>4, Zenon DEF IsSum
<1>3. PICK d : d = [i \in {0} |-> a]
  OBVIOUS
<1>4. d[0] = a /\ Len(<<>>) = 0 /\ (\A i \in 0..0 : i = 0) /\ (\A i \in 1..0 : FALSE)
  BY <1>3
<1>5. HoldBy(d, <<>>, a)
  BY <1>1, <1>2, <1>4 DEF HoldBy
<1> QED
  BY <1>1, <1>5 DEF Hold

-----------------------------------------------------------------------------
(* What frames and trees give.                                             *)

(* A call returns the tree n.                                              *)
Gives(n, w, e, k) == Made(n, w, e, k) /\ IsList(w) /\ e \in BOOLEAN /\ k \in Nat

(* What is made so far is made of what is read, V[i] being the words of    *)
(* the first i lexemes and l the lexeme to be read; q: errors are reported.*)
FitsText(V, l, q, c) == c.m <= 3 * (l - 2) + 1 /\ (c.e <=> q) /\ (~c.e => c.w = V[l - 1])

Built(V, l, q, fs, r) ==
  \E a : /\ Hold(fs, a)
         /\ r = NoTree => fs # <<>>
         /\ IF r = NoTree THEN FitsText(V, l, q, a)
            ELSE \E w, e, k : Gives(r, w, e, k) /\ FitsText(V, l, q, After(a, w, e, k))

LEMMA GivesNop == Gives(Nop, <<>>, FALSE, 1) /\ Nop # NoTree
<1>1. Nop.kids = <<>> /\ Nop.t = "Nop" /\ NoTree.t = "NoTree"
  BY DEF Nop, NoTree, Node
<1>2. Children("Nop") = 0 /\ "Nop" \notin Literals
  BY DEF Children, Literals, ValueNodes, UnaryNodes
<1>3. Word(Nop) = <<>>
  BY <1>1, <1>2 DEF Word
<1>4. Made(Nop, <<>>, FALSE, 1)
  <2>1. Made(Nop, Word(Nop), Nop.t = "ParseError", 1)
    BY <1>1, <1>2, MadeLeaf
  <2>2. (Nop.t = "ParseError") = FALSE
    BY <1>1
  <2> QED
    BY <1>3, <2>1, <2>2
<1> QED
  BY <1>1, <1>4, ShortLists DEF Gives

LEMMA GivesError == Gives(ParseError, <<>>, TRUE, 1) /\ ParseError # NoTree
<1>1. ParseError.kids = <<>> /\ ParseError.t = "ParseError" /\ NoTree.t = "NoTree"
  BY DEF ParseError, NoTree, Node
<1>2. Children("ParseError") = 0 /\ "ParseError" \notin Literals
  BY DEF Children, Literals, ValueNodes, UnaryNodes
<1>3. Word(ParseError) = <<>>
  BY <1>1, <1>2 DEF Word
<1>4. Made(ParseError, <<>>, TRUE, 1)
  <2>1. Made(ParseError, Word(ParseError), ParseError.t = "ParseError", 1)
    BY <1>1, <1>2, MadeLeaf
  <2>2. (ParseError.t = "ParseError") = TRUE
    BY <1>1
  <2> QED
    BY <1>3, <2>1, <2>2
<1> QED
  BY <1>1, <1>4, ShortLists DEF Gives

LEMMA GivesLiteral ==
  ASSUME NEW f, f.t \in Literals
  PROVE  Gives(Node(f.t, f.x, 0, <<>>), Word(f), FALSE, 1) /\ Node(f.t, f.x, 0, <<>>) # NoTree
<1>1. PICK n : n = Node(f.t, f.x, 0, <<>>)
  OBVIOUS
<1>2. n.t = f.t /\ n.x = f.x /\ n.kids = <<>> /\ NoTree.t = "NoTree"
  BY <1>1 DEF Node, NoTree
<1>3. Children(f.t) = 0
  BY DEF Children, Literals, ValueNodes, UnaryNodes
<1>4. f.t # "ParseError" /\ f.t # "NoTree"
  BY DEF Literals
<1>5. Word(n) = Word(f)
  BY <1>2 DEF Word
<1>6. Made(n, Word(f), FALSE, 1)
  <2>1. Made(n, Word(n), n.t = "ParseError", 1)
    BY <1>2, <1>3, MadeLeaf
  <2>2. (n.t = "ParseError") = FALSE
    BY <1>2, <1>4
  <2> QED
    BY <1>5, <2>1, <2>2
<1> QED
  BY <1>1, <1>2, <1>4, <1>6, WordList DEF Gives

LEMMA GivesOne ==
  ASSUME NEW t, Children(t) = 1, t # "NoTree", NEW a, NEW w, NEW e, NEW k, Gives(a, w, e, k)
  PROVE  Gives(Node(t, "", 0, <<a>>), w, e, 1 + k) /\ Node(t, "", 0, <<a>>) # NoTree
<1>1. Made(Node(t, "", 0, <<a>>), w, e, 1 + k)
  BY MadeOne DEF Gives
<1>2. Node(t, "", 0, <<a>>) # NoTree
  <2>1. PICK n : n = Node(t, "", 0, <<a>>)
    OBVIOUS
  <2>2. n.t = t /\ NoTree.t = "NoTree"
    BY <2>1 DEF Node, NoTree
  <2> QED
    BY <2>1, <2>2
<1>3. IsList(w) /\ e \in BOOLEAN /\ k \in Nat
  BY DEF Gives
<1>4. 1 + k \in Nat
  BY <1>3
<1> QED
  BY <1>1, <1>2, <1>3, <1>4 DEF Gives

LEMMA GivesTwo ==
  ASSUME NEW t, Children(t) = 2, t # "NoTree", NEW a, NEW w, NEW e, NEW k, Gives(a, w, e, k),
         NEW b, NEW z, NEW f, NEW m, Gives(b, z, f, m)
  PROVE  Gives(Node(t, "", 0, <<a, b>>), w \o z, e \/ f, (1 + k) + m) /\ Node(t, "", 0, <<a, b>>) # NoTree
<1>1. Made(Node(t, "", 0, <<a, b>>), w \o z, e \/ f, (1 + k) + m)
  BY MadeTwo DEF Gives
<1>2. Node(t, "", 0, <<a, b>>).t = t /\ NoTree.t = "NoTree"
  BY DEF Node, NoTree
<1>3. IsList(w \o z) /\ (e \/ f) \in BOOLEAN /\ (1 + k) + m \in Nat
  BY JoinLists DEF Gives
<1> QED
  BY <1>1, <1>2, <1>3 DEF Gives

LEMMA EmptyKids ==
  ASSUME NEW f, NEW w, NEW e, NEW k, Given(f, w, e, k), f.kids = <<>>
  PROVE  w = Pending(f) /\ e = FALSE /\ k = Own(f)
<1>1. \A n : <<n>> # <<>>
  OBVIOUS
<1> QED
  BY <1>1 DEF Given

LEMMA KidThere ==
  ASSUME NEW f, NEW w, NEW e, NEW k, Given(f, w, e, k), f.kids # <<>>
  PROVE  \E n, u, m : f.kids = <<n>> /\ Gives(n, u, e, m) /\ w = u \o Pending(f) /\ k = m + Own(f)
<1>1. PICK n, u, m : /\ f.kids = <<n>> /\ m \in Nat /\ e \in BOOLEAN /\ Made(n, u, e, m)
                     /\ IsList(u) /\ w = u \o Pending(f) /\ k = m + Own(f)
  BY DEF Given
<1> QED
  BY <1>1 DEF Gives

LEMMA GivenKid ==
  ASSUME NEW f, NEW n, NEW u, NEW e, NEW m, Gives(n, u, e, m), f.kids = <<n>>
  PROVE  Given(f, u \o Pending(f), e, m + Own(f))
BY DEF Given, Gives

LEMMA GivenExpr == \A b : Shaped(Expr(b)) /\ Given(Expr(b), <<>>, FALSE, 1)
<1> TAKE b
<1>1. PICK f : f = Expr(b)
  OBVIOUS
<1>2. f.k = "expr" /\ f.kids = <<>>
  BY <1>1 DEF Expr, Frame
<1> QED
  BY <1>1, <1>2 DEF Shaped, Given, Own, Pending

LEMMA GivenLoop == \A b : Shaped(Loop(b)) /\ Given(Loop(b), <<>>, FALSE, 0)
<1> TAKE b
<1>1. PICK f : f = Loop(b)
  OBVIOUS
<1>2. f.k = "loop" /\ f.kids = <<>>
  BY <1>1 DEF Loop, Frame
<1> QED
  BY <1>1, <1>2 DEF Shaped, Given, Own, Pending

LEMMA GivenNud ==
  ASSUME NEW n
  PROVE  /\ Shaped(Nud(n.t, n.x))
         /\ Given(Nud(n.t, n.x), Word(n), FALSE, IF n.t \in Separators THEN 3 ELSE 2)
<1>1. PICK f : f = Nud(n.t, n.x)
  OBVIOUS
<1>2. f.k = "nud" /\ f.kids = <<>> /\ f.t = n.t /\ f.x = n.x
  BY <1>1 DEF Nud, Frame
<1>3. Pending(f) = Word(n)
  BY <1>2 DEF Pending, Word
<1>4. Own(f) = IF n.t \in Separators THEN 3 ELSE 2
  BY <1>2 DEF Own
<1> QED
  BY <1>1, <1>2, <1>3, <1>4 DEF Shaped, Given

LEMMA GivenLed ==
  ASSUME NEW n, NEW l, NEW u, NEW e, NEW m, Gives(l, u, e, m)
  PROVE  Shaped(Led(n.t, n.x, l)) /\ Given(Led(n.t, n.x, l), u \o Word(n), e, m + 3)
<1>1. PICK f : f = Led(n.t, n.x, l)
  OBVIOUS
<1>2. f.k = "led" /\ f.kids = <<l>> /\ f.t = n.t /\ f.x = n.x
  BY <1>1 DEF Led, Frame
<1>3. Pending(f) = Word(n)
  BY <1>2 DEF Pending, Word
<1>4. Own(f) = 3 /\ <<l>> # <<>>
  BY <1>2 DEF Own
<1>5. Given(f, u \o Pending(f), e, m + Own(f))
  BY <1>2, GivenKid
<1> QED
  BY <1>1, <1>2, <1>3, <1>4, <1>5 DEF Shaped

Waits == {"node", "close", "body"}

LEMMA GivenWait ==
  ASSUME NEW k \in Waits, NEW t
  PROVE  Given(Wait(k, t, <<>>), <<>>, FALSE, 1)
<1>1. PICK f : f = Wait(k, t, <<>>)
  OBVIOUS
<1>2. f.k = k /\ f.kids = <<>>
  BY <1>1 DEF Wait, Frame
<1>3. k \in {"node", "close", "body"}
  BY DEF Waits
<1>4. Pending(f) = <<>> /\ Own(f) = 1
  BY <1>2, <1>3 DEF Pending, Own
<1> QED
  BY <1>1, <1>2, <1>4 DEF Given

LEMMA GivenWaitKid ==
  ASSUME NEW k \in Waits, NEW t, NEW n, NEW u, NEW e, NEW m, Gives(n, u, e, m)
  PROVE  Given(Wait(k, t, <<n>>), u, e, m + 1)
<1>1. PICK f : f = Wait(k, t, <<n>>)
  OBVIOUS
<1>2. f.k = k /\ f.kids = <<n>>
  BY <1>1 DEF Wait, Frame
<1>3. k \in {"node", "close", "body"}
  BY DEF Waits
<1>4. Pending(f) = <<>> /\ Own(f) = 1
  BY <1>2, <1>3 DEF Pending, Own
<1>5. u \o Pending(f) = u
  BY <1>4, JoinNone DEF Gives
<1>6. Given(f, u \o Pending(f), e, m + Own(f))
  BY <1>2, GivenKid
<1> QED
  BY <1>1, <1>4, <1>5, <1>6

LEMMA ShapedWait ==
  ASSUME NEW t
  PROVE  /\ Children(t) = 1 => Shaped(Wait("node", t, <<>>))
         /\ (Children(t) = 2 /\ t # "NoTree") \/ t = "Unexpected" => \A n : Shaped(Wait("node", t, <<n>>))
         /\ t \in {"Paren", "CodeBlock", "Array", "Recurse", "Function"} => Shaped(Wait("close", t, <<>>))
         /\ t \in {"Index", "Call"} => \A n : Shaped(Wait("close", t, <<n>>))
         /\ t \in Conditions => Shaped(Wait("body", t, <<>>))
<1>1. \A k, kids : LET f == Wait(k, t, kids) IN f.k = k /\ f.t = t /\ f.kids = kids
  BY DEF Wait, Frame
<1>2. \A n : <<n>> # <<>>
  OBVIOUS
<1>3. Children("Unexpected") = 2 /\ Children("NoTree") = 2
  BY DEF Children, ValueNodes, UnaryNodes
<1>4. Children(t) = 1 => Shaped(Wait("node", t, <<>>))
  <2>1. PICK f : f = Wait("node", t, <<>>)
    OBVIOUS
  <2>2. f.k = "node" /\ f.t = t /\ f.kids = <<>>
    BY <1>1, <2>1
  <2> QED
    BY <1>3, <2>1, <2>2 DEF Shaped
<1>5. ASSUME NEW n, (Children(t) = 2 /\ t # "NoTree") \/ t = "Unexpected" PROVE Shaped(Wait("node", t, <<n>>))
  <2>1. PICK f : f = Wait("node", t, <<n>>)
    OBVIOUS
  <2>2. f.k = "node" /\ f.t = t /\ f.kids = <<n>>
    BY <1>1, <2>1
  <2> QED
    BY <1>2, <1>3, <1>5, <2>1, <2>2 DEF Shaped
<1>6. ASSUME t \in {"Paren", "CodeBlock", "Array", "Recurse", "Function"} PROVE Shaped(Wait("close", t, <<>>))
  <2>1. PICK f : f = Wait("close", t, <<>>)
    OBVIOUS
  <2>2. f.k = "close" /\ f.t = t /\ f.kids = <<>>
    BY <1>1, <2>1
  <2> QED
    BY <1>6, <2>1, <2>2 DEF Shaped
<1>7. ASSUME NEW n, t \in {"Index", "Call"} PROVE Shaped(Wait("close", t, <<n>>))
  <2>1. PICK f : f = Wait("close", t, <<n>>)
    OBVIOUS
  <2>2. f.k = "close" /\ f.t = t /\ f.kids = <<n>>
    BY <1>1, <2>1
  <2> QED
    BY <1>2, <1>7, <2>1, <2>2 DEF Shaped
<1>8. ASSUME t \in Conditions PROVE Shaped(Wait("body", t, <<>>))
  <2>1. PICK f : f = Wait("body", t, <<>>)
    OBVIOUS
  <2>2. f.k = "body" /\ f.t = t /\ f.kids = <<>>
    BY <1>1, <2>1
  <2> QED
    BY <1>8, <2>1, <2>2 DEF Shaped
<1> QED
  BY <1>4, <1>5, <1>6, <1>7, <1>8

-----------------------------------------------------------------------------
(* Calls and returns that fit.                                             *)

LEMMA ReturnBuilt ==
  ASSUME NEW V, NEW l, NEW q, NEW s, NEW y, Hold(s, y), NEW n, n # NoTree,
         NEW w, NEW e, NEW k, Gives(n, w, e, k), FitsText(V, l, q, After(y, w, e, k))
  PROVE  Built(V, l, q, s, n)
BY DEF Built

LEMMA CallBuilt ==
  ASSUME NEW V, NEW l, NEW q, NEW s, IsList(s), NEW y, Hold(s, y), NEW f, Shaped(f),
         NEW w, NEW e, NEW k, Given(f, w, e, k), FitsText(V, l, q, After(y, w, e, k))
  PROVE  Built(V, l, q, <<f>> \o s, NoTree)
<1>1. PICK a : a = After(y, w, e, k)
  OBVIOUS
<1>2. Adds(y, f, a)
  BY <1>1 DEF Adds
<1>3. Hold(<<f>> \o s, a)
  BY <1>2, CallHeld
<1>4. <<f>> \o s # <<>>
  BY FirstOff
<1> QED
  BY <1>1, <1>3, <1>4 DEF Built

LEMMA CallsBuilt ==
  ASSUME NEW V, NEW l, NEW q, NEW s, IsList(s), NEW y, Hold(s, y), IsSum(y),
         NEW h, Shaped(h), NEW w, NEW e, NEW k, Given(h, w, e, k),
         NEW f, Shaped(f), NEW u, NEW d, NEW m, Given(f, u, d, m),
         FitsText(V, l, q, After(y, w \o u, e \/ d, k + m))
  PROVE  Built(V, l, q, <<f, h>> \o s, NoTree)
<1>1. PICK a : a = After(y, w, e, k)
  OBVIOUS
<1>2. Adds(y, h, a)
  BY <1>1 DEF Adds
<1>3. PICK r : r = <<h>> \o s
  OBVIOUS
<1>4. Hold(r, a) /\ IsList(r)
  BY <1>2, <1>3, CallHeld, ListParts
<1>5. /\ IsList(w) /\ e \in BOOLEAN /\ k \in Nat
      /\ IsList(u) /\ d \in BOOLEAN /\ m \in Nat
  BY GivenTypes
<1>6. After(a, u, d, m) = After(y, w \o u, e \/ d, k + m)
  BY <1>1, <1>5, AfterAgain
<1>7. FitsText(V, l, q, After(a, u, d, m))
  BY <1>6
<1>8. Built(V, l, q, <<f>> \o r, NoTree)
  BY <1>4, <1>7, CallBuilt
<1>9. <<f, h>> \o s = <<f>> \o r
  BY <1>3, TwoCalls
<1> QED
  BY <1>8, <1>9

LEMMA FitsLess ==
  ASSUME NEW V, NEW l \in Nat, NEW q, NEW y, IsSum(y), NEW w, NEW e, NEW k \in Nat,
         FitsText(V, l, q, After(y, w, e, k)), NEW m \in Nat, m <= k
  PROVE  FitsText(V, l, q, After(y, w, e, m))
<1>1. PICK n \in Nat : n = y.m
  BY DEF IsSum
<1>2. PICK c : c = After(y, w, e, k)
  OBVIOUS
<1>3. PICK d : d = After(y, w, e, m)
  OBVIOUS
<1>4. c.w = y.w \o w /\ c.e = (y.e \/ e) /\ c.m = n + k
  BY <1>1, <1>2, AfterFields
<1>5. d.w = y.w \o w /\ d.e = (y.e \/ e) /\ d.m = n + m
  BY <1>1, <1>3, AfterFields
<1>6. n + k <= 3 * (l - 2) + 1 /\ (c.e <=> q) /\ (~c.e => c.w = V[l - 1])
  BY <1>2, <1>4 DEF FitsText
<1>7. d.w = c.w /\ d.e = c.e
  BY <1>4, <1>5, Zenon
<1>8. d.m <= 3 * (l - 2) + 1
  BY <1>5, <1>6
<1>9. (d.e <=> q) /\ (~d.e => d.w = V[l - 1])
  BY <1>6, <1>7, Zenon
<1> QED
  BY <1>3, <1>8, <1>9, Zenon DEF FitsText

LEMMA FitsRead ==
  ASSUME NEW V, NEW l \in Nat, NEW q, NEW y, IsSum(y), NEW w, IsList(w), NEW e, NEW k \in Nat,
         FitsText(V, l, q, After(y, w, e, k)), NEW x, IsList(x), V[l] = V[l - 1] \o x,
         NEW m \in Nat, m <= k + 3
  PROVE  FitsText(V, l + 1, q, After(y, w \o x, e, m))
<1>1. PICK n \in Nat : n = y.m
  BY DEF IsSum
<1>2. PICK c : c = After(y, w, e, k)
  OBVIOUS
<1>3. PICK z : z = w \o x
  OBVIOUS
<1>12. PICK d : d = After(y, z, e, m)
  OBVIOUS
<1>4. c.w = y.w \o w /\ c.e = (y.e \/ e) /\ c.m = n + k
  BY <1>1, <1>2, AfterFields
<1>13. LET a == After(y, z, e, m) IN a.w = y.w \o z /\ a.e = (y.e \/ e) /\ a.m = y.m + m
  BY AfterFields
<1>5. d.w = y.w \o z /\ d.e = (y.e \/ e) /\ d.m = n + m
  BY <1>1, <1>12, <1>13, Zenon
<1>6. n + k <= 3 * (l - 2) + 1 /\ (c.e <=> q) /\ (~c.e => c.w = V[l - 1])
  BY <1>2, <1>4 DEF FitsText
<1>7. d.m <= 3 * ((l + 1) - 2) + 1 /\ (l + 1) - 1 = l
  BY <1>5, <1>6
<1>8. d.w = c.w \o x
  <2>1. PICK v : v = y.w
    OBVIOUS
  <2>2. IsList(v)
    BY <2>1 DEF IsSum
  <2>3. (v \o w) \o x = v \o (w \o x)
    BY <2>2, JoinAgain
  <2> QED
    BY <1>3, <1>4, <1>5, <2>1, <2>3, Zenon
<1>9. d.e = c.e
  BY <1>4, <1>5, Zenon
<1>10. (d.e <=> q) /\ (~d.e => d.w = V[l])
  BY <1>6, <1>8, <1>9, Zenon
<1>11. (d.e <=> q) /\ (~d.e => d.w = V[(l + 1) - 1])
  BY <1>7, <1>10, Zenon
<1> QED
  BY <1>3, <1>12, <1>7, <1>11, Zenon DEF FitsText

LEMMA FitsFail ==
  ASSUME NEW V, NEW l \in Nat, NEW q, NEW y, IsSum(y), NEW w, NEW e, NEW k \in Nat \ {0},
         FitsText(V, l, q, After(y, w, e, k))
  PROVE  FitsText(V, l, TRUE, After(y, <<>>, TRUE, 1))
<1>1. PICK n \in Nat : n = y.m
  BY DEF IsSum
<1>2. PICK c : c = After(y, w, e, k)
  OBVIOUS
<1>9. PICK t : t = TRUE
  OBVIOUS
<1>3. PICK d : d = After(y, <<>>, t, 1)
  OBVIOUS
<1>4. c.m = n + k
  BY <1>1, <1>2, AfterFields
<1>5. d.e = (y.e \/ t) /\ d.m = n + 1
  BY <1>1, <1>3, AfterFields
<1>6. c.m <= 3 * (l - 2) + 1
  BY <1>2 DEF FitsText
<1>7. d.m <= 3 * (l - 2) + 1
  BY <1>4, <1>5, <1>6
<1>8. d.e
  BY <1>5, <1>9, Zenon
<1> QED
  BY <1>3, <1>9, <1>7, <1>8, Zenon DEF FitsText

-----------------------------------------------------------------------------
(* The steps of the parser.                                                *)

(* The call that runs, and the one that waits for what was returned.       *)
LEMMA RunningBuilt ==
  ASSUME NEW V, NEW l, NEW q, NEW s, IsList(s), s # <<>>, Built(V, l, q, s, NoTree)
  PROVE  \E y, w, e, k : /\ Hold(Tail(s), y) /\ IsSum(y) /\ Shaped(s[1]) /\ Given(s[1], w, e, k)
                         /\ FitsText(V, l, q, After(y, w, e, k))
<1>1. PICK a : Hold(s, a) /\ FitsText(V, l, q, a)
  BY DEF Built
<1>2. PICK y : Hold(Tail(s), y) /\ IsSum(y) /\ Adds(y, s[1], a)
  BY <1>1, ReturnHeld
<1> QED
  BY <1>1, <1>2 DEF Adds

LEMMA ReturnedBuilt ==
  ASSUME NEW V, NEW l, NEW q, NEW s, IsList(s), s # <<>>, NEW r, r # NoTree, Built(V, l, q, s, r)
  PROVE  \E y, u, f, m, w, e, k :
           /\ Hold(Tail(s), y) /\ IsSum(y) /\ Shaped(s[1]) /\ Given(s[1], u, f, m)
           /\ Gives(r, w, e, k) /\ FitsText(V, l, q, After(y, u \o w, f \/ e, m + k))
<1>1. PICK a, w, e, k : Hold(s, a) /\ Gives(r, w, e, k) /\ FitsText(V, l, q, After(a, w, e, k))
  BY DEF Built
<1>2. PICK y : Hold(Tail(s), y) /\ IsSum(y) /\ Adds(y, s[1], a)
  BY <1>1, ReturnHeld
<1>3. PICK u, f, m : Shaped(s[1]) /\ Given(s[1], u, f, m) /\ a = After(y, u, f, m)
  BY <1>2 DEF Adds
<1>4. IsList(u) /\ f \in BOOLEAN /\ m \in Nat
  BY <1>3, GivenTypes
<1>5. IsList(w) /\ e \in BOOLEAN /\ k \in Nat
  BY <1>1 DEF Gives
<1>6. After(a, w, e, k) = After(y, u \o w, f \/ e, m + k)
  BY <1>2, <1>3, <1>4, <1>5, AfterAgain
<1> QED
  BY <1>1, <1>2, <1>3, <1>6

(* Sums with nothing in them.                                              *)
LEMMA NothingMore ==
  /\ \A w : IsList(w) => <<>> \o w = w /\ w \o <<>> = w
  /\ \A e \in BOOLEAN : (FALSE \/ e) = e /\ (e \/ FALSE) = e
  /\ \A k \in Nat : 0 + k = k
  /\ IsList(<<>>) /\ <<>> \o <<>> = <<>> /\ (FALSE \/ FALSE) = FALSE
<1>1. \A w : IsList(w) => <<>> \o w = w /\ w \o <<>> = w
  BY JoinNone
<1>2. IsList(<<>>)
  BY ShortLists
<1>3. <<>> \o <<>> = <<>>
  BY <1>1, <1>2
<1>4. \A e \in BOOLEAN : (FALSE \/ e) = e /\ (e \/ FALSE) = e
  OBVIOUS
<1> QED
  BY <1>1, <1>2, <1>3, <1>4

(* A call goes on as a call of expression_, and as one and a call that     *)
(* waits for it.                                                           *)
LEMMA ExprBuilt ==
  ASSUME NEW V, NEW l \in Nat, NEW q, NEW s, IsList(s), NEW y, Hold(s, y), IsSum(y),
         NEW k \in Nat, k >= 1, FitsText(V, l, q, After(y, <<>>, FALSE, k)), NEW b
  PROVE  Built(V, l, q, <<Expr(b)>> \o s, NoTree)
<1>1. PICK f : f = Expr(b)
  OBVIOUS
<1>2. Shaped(f) /\ Given(f, <<>>, FALSE, 1)
  BY <1>1, GivenExpr
<1>3. FitsText(V, l, q, After(y, <<>>, FALSE, 1))
  BY FitsLess
<1>4. Built(V, l, q, <<f>> \o s, NoTree)
  BY <1>2, <1>3, CallBuilt
<1> QED
  BY <1>1, <1>4

LEMMA ExprWaitBuilt ==
  ASSUME NEW V, NEW l \in Nat, NEW q, NEW s, IsList(s), NEW y, Hold(s, y), IsSum(y),
         NEW h, Shaped(h), NEW w, NEW e, NEW m, Given(h, w, e, m),
         NEW k \in Nat, k >= m + 1, FitsText(V, l, q, After(y, w, e, k)), NEW b
  PROVE  Built(V, l, q, <<Expr(b), h>> \o s, NoTree)
<1>1. PICK f : f = Expr(b)
  OBVIOUS
<1>2. Shaped(f) /\ Given(f, <<>>, FALSE, 1)
  BY <1>1, GivenExpr
<1>3. IsList(w) /\ e \in BOOLEAN /\ m \in Nat
  BY GivenTypes
<1>4. m + 1 \in Nat /\ m + 1 <= k
  BY <1>3
<1>5. FitsText(V, l, q, After(y, w, e, m + 1))
  BY <1>4, FitsLess
<1>6. w \o <<>> = w /\ (e \/ FALSE) = e
  BY <1>3, NothingMore
<1>7. FitsText(V, l, q, After(y, w \o <<>>, e \/ FALSE, m + 1))
  BY <1>5, <1>6, Zenon
<1>8. Built(V, l, q, <<f, h>> \o s, NoTree)
  BY <1>2, <1>7, CallsBuilt
<1> QED
  BY <1>1, <1>8

(* A call fails.                                                           *)
LEMMA FailBuilt ==
  ASSUME NEW V, NEW l \in Nat, NEW q, NEW s, NEW y, Hold(s, y), IsSum(y), NEW w, NEW e,
         NEW k \in Nat \ {0}, FitsText(V, l, q, After(y, w, e, k))
  PROVE  Built(V, l, TRUE, s, ParseError)
<1>1. FitsText(V, l, TRUE, After(y, <<>>, TRUE, 1))
  BY FitsFail
<1> QED
  BY <1>1, GivesError, ReturnBuilt

(* What the frames of each kind have.                                      *)
LEMMA ExprHas ==
  ASSUME NEW f, Shaped(f), NEW w, NEW e, NEW k, Given(f, w, e, k), f.k = "expr"
  PROVE  w = <<>> /\ e = FALSE /\ k = 1
<1>1. f.kids = <<>>
  BY DEF Shaped
<1>2. Pending(f) = <<>> /\ Own(f) = 1
  BY DEF Pending, Own
<1>3. w = Pending(f) /\ e = FALSE /\ k = Own(f)
  BY <1>1, EmptyKids
<1> QED
  BY <1>2, <1>3, Zenon

LEMMA LoopHas ==
  ASSUME NEW f, Shaped(f), NEW w, NEW e, NEW k, Given(f, w, e, k), f.k = "loop"
  PROVE  w = <<>> /\ e = FALSE /\ k = 0
<1>1. f.kids = <<>>
  BY DEF Shaped
<1>2. Pending(f) = <<>> /\ Own(f) = 0
  BY DEF Pending, Own
<1>3. w = Pending(f) /\ e = FALSE /\ k = Own(f)
  BY <1>1, EmptyKids
<1> QED
  BY <1>2, <1>3, Zenon

LEMMA NudHas ==
  ASSUME NEW f, Shaped(f), NEW w, NEW e, NEW k, Given(f, w, e, k), f.k = "nud"
  PROVE  w = Word(f) /\ e = FALSE /\ k = IF f.t \in Separators THEN 3 ELSE 2
<1>1. f.kids = <<>>
  BY DEF Shaped
<1>2. Pending(f) = Word(f) /\ Own(f) = IF f.t \in Separators THEN 3 ELSE 2
  BY DEF Pending, Own
<1>3. w = Pending(f) /\ e = FALSE /\ k = Own(f)
  BY <1>1, EmptyKids
<1> QED
  BY <1>2, <1>3, Zenon

LEMMA LedHas ==
  ASSUME NEW f, Shaped(f), NEW w, NEW e, NEW k, Given(f, w, e, k), f.k = "led"
  PROVE  \E n, u, m : f.kids = <<n>> /\ Gives(n, u, e, m) /\ w = u \o Word(f) /\ k = m + 3
<1>1. f.kids # <<>>
  BY DEF Shaped
<1>2. Pending(f) = Word(f) /\ Own(f) = 3
  BY DEF Pending, Own
<1> QED
  BY <1>1, <1>2, KidThere

LEMMA WaitKid ==
  ASSUME NEW f, NEW w, NEW e, NEW k, Given(f, w, e, k), f.k \in Waits, f.kids # <<>>
  PROVE  (\E n, m : f.kids = <<n>> /\ Gives(n, w, e, m) /\ k = m + 1) /\ k \in Nat \ {0}
<1>1. Pending(f) = <<>> /\ Own(f) = 1
  BY DEF Pending, Own, Waits
<1>2. PICK n, u, m : f.kids = <<n>> /\ Gives(n, u, e, m) /\ w = u \o Pending(f) /\ k = m + Own(f)
  BY KidThere
<1>3. w = u \o <<>> /\ k = m + 1
  BY <1>1, <1>2, Zenon
<1>4. u \o <<>> = u /\ m \in Nat
  BY <1>2, NothingMore DEF Gives
<1>5. k \in Nat \ {0}
  BY <1>3, <1>4
<1> QED
  BY <1>2, <1>3, <1>4, <1>5

LEMMA WaitHas ==
  ASSUME NEW f, NEW w, NEW e, NEW k, Given(f, w, e, k), f.k \in Waits
  PROVE  (f.kids = <<>> => w = <<>> /\ e = FALSE /\ k = 1) /\ k \in Nat \ {0}
<1>1. Pending(f) = <<>> /\ Own(f) = 1
  BY DEF Pending, Own, Waits
<1>2. ASSUME f.kids = <<>>
      PROVE  w = <<>> /\ e = FALSE /\ k = 1
  <2>1. w = Pending(f) /\ e = FALSE /\ k = Own(f)
    BY <1>2, EmptyKids
  <2> QED
    BY <1>1, <2>1, Zenon
<1>3. k \in Nat \ {0}
  <2>1. f.kids = <<>> => k = 1
    BY <1>2
  <2>2. f.kids # <<>> => k \in Nat \ {0}
    BY WaitKid
  <2> QED
    BY <2>1, <2>2
<1> QED
  BY <1>2, <1>3, Zenon

(* Lexemes that have no name.                                              *)
LEMMA Wordless == \A n : n.t \notin Literals => Word(n) = <<>>
BY DEF Word

LEMMA LiteralsHigh == \A t \in Literals : Level(t) = 14
BY DEF Literals, Level

-----------------------------------------------------------------------------
(* The calls of expression_, nud_ and led_, each on a list s of callers    *)
(* that have y; x is the word of the lexeme at l, c that lexeme.           *)

Reads(V, l, c) == l \in Nat /\ V[l] = V[l - 1] \o Word(c)

LEMMA BeginBuilt ==
  ASSUME NEW V, NEW l, NEW c, Reads(V, l, c), NEW q, NEW s, IsList(s), NEW y, Hold(s, y), IsSum(y),
         FitsText(V, l, q, After(y, <<>>, FALSE, 1)), NEW b
  PROVE  Built(V, l + 1, q, <<Nud(c.t, c.x), Loop(b)>> \o s, NoTree)
<1>1. PICK f : f = Nud(c.t, c.x)
  OBVIOUS
<1>2. PICK h : h = Loop(b)
  OBVIOUS
<1>3. PICK m : m = IF c.t \in Separators THEN 3 ELSE 2
  OBVIOUS
<1>4. m \in Nat /\ m <= 1 + 3 /\ l \in Nat /\ 1 \in Nat
  BY <1>3 DEF Reads
<1>5. PICK x : x = Word(c)
  OBVIOUS
<1>6. Shaped(f) /\ Given(f, x, FALSE, m)
  BY <1>1, <1>3, <1>5, GivenNud
<1>7. Shaped(h) /\ Given(h, <<>>, FALSE, 0)
  BY <1>2, GivenLoop
<1>8. IsList(x) /\ IsList(<<>>) /\ V[l] = V[l - 1] \o x
  BY <1>5, WordList, ShortLists DEF Reads
<1>9. FitsText(V, l + 1, q, After(y, <<>> \o x, FALSE, m))
  BY <1>4, <1>8, FitsRead
<1>10. (FALSE \/ FALSE) = FALSE /\ 0 + m = m
  BY <1>4, NothingMore
<1>11. FitsText(V, l + 1, q, After(y, <<>> \o x, FALSE \/ FALSE, 0 + m))
  BY <1>9, <1>10, Zenon
<1>12. Built(V, l + 1, q, <<f, h>> \o s, NoTree)
  BY <1>6, <1>7, <1>11, CallsBuilt
<1> QED
  BY <1>1, <1>2, <1>12

LEMMA ExtendBuilt ==
  ASSUME NEW V, NEW l, NEW c, Reads(V, l, c), NEW q, NEW s, IsList(s), NEW y, Hold(s, y), IsSum(y),
         NEW r, NEW w, NEW e, NEW k, Gives(r, w, e, k), FitsText(V, l, q, After(y, w, e, k)),
         NEW h, Shaped(h), Given(h, <<>>, FALSE, 0)
  PROVE  Built(V, l + 1, q, <<Led(c.t, c.x, r), h>> \o s, NoTree)
<1>1. PICK f : f = Led(c.t, c.x, r)
  OBVIOUS
<1>2. PICK x : x = Word(c)
  OBVIOUS
<1>3. Shaped(f) /\ Given(f, w \o x, e, k + 3)
  BY <1>1, <1>2, GivenLed
<1>4. l \in Nat /\ IsList(w) /\ e \in BOOLEAN /\ k \in Nat
  BY DEF Gives, Reads
<1>5. IsList(x) /\ V[l] = V[l - 1] \o x
  BY <1>2, WordList DEF Reads
<1>6. PICK m \in Nat : m = k + 3
  BY <1>4
<1>7. m <= k + 3
  BY <1>6
<1>8. FitsText(V, l + 1, q, After(y, w \o x, e, m))
  BY <1>4, <1>5, <1>7, FitsRead
<1>9. <<>> \o (w \o x) = w \o x /\ (FALSE \/ e) = e /\ 0 + m = m
  <2>1. IsList(w \o x)
    BY <1>4, <1>5, JoinLists
  <2> QED
    BY <1>4, <2>1, NothingMore
<1>10. FitsText(V, l + 1, q, After(y, <<>> \o (w \o x), FALSE \/ e, 0 + m))
  BY <1>8, <1>9, Zenon
<1>11. Given(f, w \o x, e, m)
  BY <1>3, <1>6
<1>12. PICK z : z = w \o x
  OBVIOUS
<1>13. Given(f, z, e, m) /\ FitsText(V, l + 1, q, After(y, <<>> \o z, FALSE \/ e, 0 + m))
  BY <1>10, <1>11, <1>12
<1>14. Built(V, l + 1, q, <<f, h>> \o s, NoTree)
  BY <1>3, <1>13, CallsBuilt
<1> QED
  BY <1>1, <1>14

(* A lexeme that has no name is read.                                      *)
LEMMA FitsPassed ==
  ASSUME NEW V, NEW l, NEW c, Reads(V, l, c), c.t \notin Literals, NEW q, NEW y, IsSum(y),
         NEW w, IsList(w), NEW e, NEW k \in Nat, FitsText(V, l, q, After(y, w, e, k)),
         NEW m \in Nat, m <= k + 3
  PROVE  FitsText(V, l + 1, q, After(y, w, e, m))
<1>1. l \in Nat /\ V[l] = V[l - 1] \o <<>> /\ IsList(<<>>)
  BY Wordless, ShortLists DEF Reads
<1>2. FitsText(V, l + 1, q, After(y, w \o <<>>, e, m))
  BY <1>1, FitsRead
<1> QED
  BY <1>2, NothingMore

(* The nodes of prefixes.                                                  *)
LEMMA InfixTwo == \A t \in DOMAIN Infix : Children(Infix[t]) = 2 /\ Infix[t] # "NoTree"
<1>1. \A t \in DOMAIN Infix :
        Infix[t] \in {"Add", "Sub", "Mul", "Div", "Mod", "Append", "Cmp", "Eq", "Neq", "Gt", "Lt",
          "Geq", "Leq", "And", "Or", "In", "Assign", "AddAssign", "SubAssign", "MulAssign",
          "DivAssign", "ModAssign", "AppendAssign", "Insert", "ExprList", "KeyValuePair", "Seq", "Else"}
  BY DEF Infix
<1>2. \A u \in {"Add", "Sub", "Mul", "Div", "Mod", "Append", "Cmp", "Eq", "Neq", "Gt", "Lt",
          "Geq", "Leq", "And", "Or", "In", "Assign", "AddAssign", "SubAssign", "MulAssign",
          "DivAssign", "ModAssign", "AppendAssign", "Insert", "ExprList", "KeyValuePair", "Seq", "Else"} :
        Children(u) = 2 /\ u # "NoTree"
  BY DEF Children, ValueNodes, UnaryNodes
<1> QED
  BY <1>1, <1>2

Prefixes == {"Not", "Move", "Var", "Return", "Print", "Assert"}

LEMMA PrefixKinds ==
  /\ \A t \in PrefixLexemes : t \in {"Plus", "Minus"} \/ t \in Separators \/ t \in Prefixes
  /\ \A t \in Separators : t \in DOMAIN Infix
  /\ \A t \in Prefixes : t \notin DOMAIN Infix /\ Children(t) = 1
  /\ \A t \in PrefixLexemes : t \notin Literals
  /\ Children("Neg") = 1 /\ "Minus" # "Plus"
  /\ \A t \in Separators \union Prefixes : t \notin {"Plus", "Minus"}
<1>1. \A t \in Separators : t \in DOMAIN Infix
  BY DEF Separators, Infix
<1>2. \A t \in Prefixes : t \notin DOMAIN Infix
  BY DEF Prefixes, Infix
<1>3. \A t \in Prefixes \union {"Neg"} : Children(t) = 1
  BY DEF Children, ValueNodes, UnaryNodes, Prefixes
<1>4. \A t \in PrefixLexemes : t \in {"Plus", "Minus"} \/ t \in Separators \/ t \in Prefixes
  BY DEF PrefixLexemes, Separators, Prefixes
<1>5. \A t \in PrefixLexemes : t \notin Literals
  BY DEF PrefixLexemes, Literals
<1>6. \A t \in Separators \union Prefixes : t \notin {"Plus", "Minus"}
  BY DEF Separators, Prefixes
<1> QED
  BY <1>1, <1>2, <1>3, <1>4, <1>5, <1>6

LEMMA PrefixBuilt ==
  ASSUME NEW V, NEW l \in Nat, NEW q, NEW s, IsList(s), NEW y, Hold(s, y), IsSum(y),
         NEW t \in PrefixLexemes,
         FitsText(V, l, q, After(y, <<>>, FALSE, IF t \in Separators THEN 3 ELSE 2)), NEW b
  PROVE  LET made == IF t = "Plus" THEN <<>>
                     ELSE IF t = "Minus" THEN <<Wait("node", "Neg", <<>>)>>
                     ELSE IF t \in DOMAIN Infix THEN <<Wait("node", Infix[t], <<Nop>>)>>
                     ELSE <<Wait("node", t, <<>>)>>
         IN  Built(V, l, q, (<<Expr(b)>> \o made) \o s, NoTree)
<1> DEFINE made == IF t = "Plus" THEN <<>>
                   ELSE IF t = "Minus" THEN <<Wait("node", "Neg", <<>>)>>
                   ELSE IF t \in DOMAIN Infix THEN <<Wait("node", Infix[t], <<Nop>>)>>
                   ELSE <<Wait("node", t, <<>>)>>
<1> SUFFICES Built(V, l, q, (<<Expr(b)>> \o made) \o s, NoTree)
  OBVIOUS
<1>1. PICK k : k = (IF t \in Separators THEN 3 ELSE 2)
  OBVIOUS
<1>11. k \in Nat /\ k >= 2 /\ k >= 1 /\ (t \in Separators => k = 3)
  BY <1>1
<1>2. FitsText(V, l, q, After(y, <<>>, FALSE, k)) /\ k \in Nat /\ k >= 1
  BY <1>1, <1>11, Zenon
<1>3. PICK f : f = Expr(b)
  OBVIOUS
<1>4. \A h : <<f>> \o <<h>> = <<f, h>>
  <2> TAKE h
  <2>1. <<f, h>> \o <<>> = <<f>> \o (<<h>> \o <<>>)
    BY ShortLists, TwoCalls
  <2>2. <<f, h>> \o <<>> = <<f, h>>
    BY ShortLists, JoinNone
  <2>3. <<h>> \o <<>> = <<h>>
    BY ShortLists, JoinNone
  <2> QED
    BY <2>1, <2>2, <2>3, Zenon
<1>5. CASE t = "Plus"
  <2>3. made = <<>>
    BY <1>5
  <2> HIDE DEF made
  <2>4. <<f>> \o <<>> = <<f>>
    BY ShortLists, JoinNone
  <2>1. <<f>> \o made = <<f>>
    BY <2>3, <2>4, Zenon
  <2>2. Built(V, l, q, <<f>> \o s, NoTree)
    BY <1>2, <1>3, ExprBuilt
  <2> QED
    BY <1>3, <2>1, <2>2
<1>6. ASSUME NEW h, made = <<h>>, Shaped(h), NEW m \in Nat, Given(h, <<>>, FALSE, m), k >= m + 1
      PROVE  Built(V, l, q, (<<Expr(b)>> \o made) \o s, NoTree)
  <2>1. Built(V, l, q, <<f, h>> \o s, NoTree)
    BY <1>2, <1>3, <1>6, ExprWaitBuilt
  <2>2. <<f>> \o made = <<f, h>>
    BY <1>4, <1>6
  <2> QED
    BY <1>3, <2>1, <2>2
<1>7. k >= 1 + 1 /\ "node" \in Waits /\ 1 \in Nat /\ 2 \in Nat
  BY <1>11 DEF Waits
<1>8. CASE t = "Minus"
  <2>1. PICK h : h = Wait("node", "Neg", <<>>)
    OBVIOUS
  <2>2. made = <<h>>
    BY <1>8, <2>1, PrefixKinds
  <2>3. Shaped(h) /\ Given(h, <<>>, FALSE, 1)
    BY <1>7, <2>1, PrefixKinds, ShapedWait, GivenWait
  <2> HIDE DEF made
  <2> QED
    BY <1>6, <1>7, <2>2, <2>3
<1>9. CASE t \in Separators
  <2>1. PICK h : h = Wait("node", Infix[t], <<Nop>>)
    OBVIOUS
  <2>2. made = <<h>>
    BY <1>9, <2>1, PrefixKinds
  <2>3. PICK u : u = Infix[t]
    OBVIOUS
  <2>4. Children(u) = 2 /\ u # "NoTree"
    BY <1>9, <2>3, PrefixKinds, InfixTwo
  <2>5. Shaped(h)
    BY <2>1, <2>3, <2>4, ShapedWait
  <2>6. Given(h, <<>>, FALSE, 1 + 1)
    BY <1>7, <2>1, <2>3, GivesNop, GivenWaitKid
  <2>7. 1 + 1 = 2 /\ k >= 2 + 1
    BY <1>11, <1>9
  <2>8. Given(h, <<>>, FALSE, 2)
    BY <2>6, <2>7
  <2> HIDE DEF made
  <2> QED
    BY <1>6, <1>7, <2>2, <2>5, <2>7, <2>8
<1>10. CASE t \in Prefixes
  <2>1. PICK h : h = Wait("node", t, <<>>)
    OBVIOUS
  <2>2. made = <<h>>
    BY <1>10, <2>1, PrefixKinds
  <2>3. Shaped(h) /\ Given(h, <<>>, FALSE, 1)
    BY <1>7, <1>10, <2>1, PrefixKinds, ShapedWait, GivenWait
  <2> HIDE DEF made
  <2> QED
    BY <1>6, <1>7, <2>2, <2>3
<1> HIDE DEF made
<1> QED
  BY <1>5, <1>8, <1>9, <1>10, PrefixKinds DEF made

LEMMA AppendOne == \A a, r : Append(<<a>>, r) = <<a, r>>
<1> TAKE a, r
<1>1. PICK s : s = Append(<<a>>, r)
  OBVIOUS
<1>2. <<a>> \in Seq({a, r}) /\ Len(<<a>>) = 1 /\ <<a>>[1] = a
  OBVIOUS
<1>3. s \in Seq({a, r})
  BY <1>1, <1>2
<1>4. Len(s) = 2 /\ s[2] = r /\ s[1] = a
  <2>1. IsList(<<a>>)
    BY ShortLists
  <2>2. Len(s) = 1 + 1 /\ s[1 + 1] = r /\ \A i \in 1..1 : s[i] = <<a>>[i]
    BY <1>1, <1>2, <2>1, AppendList
  <2> QED
    BY <1>2, <2>2
<1>5. <<a, r>> \in Seq({a, r}) /\ Len(<<a, r>>) = 2 /\ <<a, r>>[1] = a /\ <<a, r>>[2] = r
  OBVIOUS
<1>6. \A i \in 1..2 : s[i] = <<a, r>>[i]
  <2>1. \A i \in 1..2 : i = 1 \/ i = 2
    OBVIOUS
  <2> QED
    BY <1>4, <1>5, <2>1
<1>7. s = <<a, r>>
  BY <1>3, <1>4, <1>5, <1>6, SeqEqual
<1> QED
  BY <1>1, <1>7

(* The node a call makes of what it waited for.                            *)
LEMMA NodeGiven ==
  ASSUME NEW f, Shaped(f), NEW u, NEW d, NEW m, Given(f, u, d, m), f.k \in Waits,
         NEW t, t # "NoTree", Children(t) = (IF f.kids = <<>> THEN 1 ELSE 2),
         NEW r, NEW w, NEW e, NEW k, Gives(r, w, e, k)
  PROVE  /\ Gives(Node(t, "", 0, Append(f.kids, r)), u \o w, d \/ e, m + k)
         /\ Node(t, "", 0, Append(f.kids, r)) # NoTree
<1>1. IsList(w) /\ e \in BOOLEAN /\ k \in Nat
  BY DEF Gives
<1>2. CASE f.kids = <<>>
  <2>1. u = <<>> /\ d = FALSE /\ m = 1
    BY <1>2, WaitHas
  <2>2. Append(f.kids, r) = <<r>>
    BY <1>2
  <2>3. PICK n : n = Node(t, "", 0, <<r>>)
    OBVIOUS
  <2>4. Gives(n, w, e, 1 + k) /\ n # NoTree
    BY <1>2, <2>3, GivesOne
  <2>5. u \o w = w /\ (d \/ e) = e
    BY <1>1, <2>1, NothingMore
  <2>6. Gives(n, u \o w, d \/ e, m + k)
    BY <2>1, <2>4, <2>5, Zenon
  <2>7. n = Node(t, "", 0, Append(f.kids, r))
    BY <2>2, <2>3, Zenon
  <2> QED
    BY <2>4, <2>6, <2>7, Zenon
<1>3. CASE f.kids # <<>>
  <2>1. PICK a, h : f.kids = <<a>> /\ Gives(a, u, d, h) /\ m = h + 1
    BY <1>3, WaitKid
  <2>2. Append(<<a>>, r) = <<a, r>>
    BY AppendOne
  <2>3. PICK n : n = Node(t, "", 0, <<a, r>>)
    OBVIOUS
  <2>8. Children(t) = 2
    BY <1>3
  <2>9. Gives(a, u, d, h)
    BY <2>1
  <2>10. /\ Gives(Node(t, "", 0, <<a, r>>), u \o w, d \/ e, (1 + h) + k)
         /\ Node(t, "", 0, <<a, r>>) # NoTree
    BY <2>8, <2>9, GivesTwo
  <2>4. Gives(n, u \o w, d \/ e, (1 + h) + k) /\ n # NoTree
    BY <2>3, <2>10, Zenon
  <2>5. (1 + h) + k = m + k
    <3>1. h \in Nat
      BY <2>1 DEF Gives
    <3> QED
      BY <1>1, <2>1, <3>1
  <2>6. n = Node(t, "", 0, Append(f.kids, r))
    BY <2>1, <2>2, <2>3, Zenon
  <2> QED
    BY <2>4, <2>5, <2>6, Zenon
<1> QED
  BY <1>2, <1>3

(* After the bracket or the do that must follow, for c.                    *)
LEMMA CloseBuilt ==
  ASSUME NEW V, NEW l, NEW c, Reads(V, l, c), c.t \notin Literals,
         NEW q, NEW s, IsList(s), NEW y, Hold(s, y), IsSum(y),
         NEW f, Shaped(f), NEW u, NEW d, NEW m, Given(f, u, d, m), f.k \in {"close", "body"},
         NEW r, r # NoTree, NEW w, NEW e, NEW k, Gives(r, w, e, k),
         FitsText(V, l, q, After(y, u \o w, d \/ e, m + k))
  PROVE  /\ f.k = "close" /\ f.t = "Paren" => Built(V, l + 1, q, s, r)
         /\ f.t \in {"Function"} \union Conditions =>
              \A b : Built(V, l + 1, q, <<Expr(b), Wait("node", f.t, <<r>>)>> \o s, NoTree)
         /\ f.k = "close" /\ f.t = "CodeBlock" => Built(V, l + 1, q, s, Node("Table", "", 0, <<r>>))
         /\ f.k = "close" /\ f.t \notin {"Paren", "Function"} =>
              Built(V, l + 1, q, s, Node(f.t, "", 0, Append(f.kids, r)))
<1>1. l \in Nat /\ IsList(w) /\ e \in BOOLEAN /\ k \in Nat
  BY DEF Gives, Reads
<1>2. IsList(u) /\ d \in BOOLEAN /\ m \in Nat
  BY GivenTypes
<1>3. f.k \in Waits
  BY DEF Waits
<1>4. PICK p \in Nat : p = m + k
  BY <1>1, <1>2
<1>5. PICK z : z = u \o w
  OBVIOUS
<1>6. IsList(z)
  BY <1>1, <1>2, <1>5, JoinLists
<1>7. PICK g \in BOOLEAN : g = (d \/ e)
  OBVIOUS
<1>8. FitsText(V, l, q, After(y, z, g, p))
  BY <1>4, <1>5, <1>7, Zenon
<1>9. ASSUME f.kids = <<>>
      PROVE  z = w /\ g = e /\ p = 1 + k
  <2>1. u = <<>> /\ d = FALSE /\ m = 1
    BY <1>3, <1>9, WaitHas
  <2>2. <<>> \o w = w /\ (FALSE \/ e) = e
    BY <1>1, NothingMore
  <2> QED
    BY <1>4, <1>5, <1>7, <2>1, <2>2, Zenon
<1>10. "node" \in Waits
  BY DEF Waits
<1>11. ASSUME f.k = "close", f.t = "Paren" PROVE Built(V, l + 1, q, s, r)
  <2>1. f.kids = <<>>
    BY <1>11 DEF Shaped
  <2>2. z = w /\ g = e /\ p = 1 + k
    BY <1>9, <2>1
  <2>3. FitsText(V, l, q, After(y, w, e, p))
    BY <1>8, <2>2, Zenon
  <2>4. k <= p + 3
    BY <1>1, <2>2
  <2>5. FitsText(V, l + 1, q, After(y, w, e, k))
    BY <1>1, <2>3, <2>4, FitsPassed
  <2> QED
    BY <2>5, ReturnBuilt
<1>12. ASSUME NEW b, f.t \in {"Function"} \union Conditions
       PROVE  Built(V, l + 1, q, <<Expr(b), Wait("node", f.t, <<r>>)>> \o s, NoTree)
  <2>1. f.kids = <<>>
    BY <1>12 DEF Shaped, Conditions
  <2>2. z = w /\ g = e /\ p = 1 + k
    BY <1>9, <2>1
  <2>3. FitsText(V, l, q, After(y, w, e, p))
    BY <1>8, <2>2, Zenon
  <2>4. PICK h : h = Wait("node", f.t, <<r>>)
    OBVIOUS
  <2>5. Given(h, w, e, k + 1)
    BY <1>10, <2>4, GivenWaitKid
  <2>6. Shaped(h)
    <3>1. \A t \in {"Function"} \union Conditions : Children(t) = 2 /\ t # "NoTree"
      BY DEF Children, Conditions, ValueNodes, UnaryNodes
    <3> QED
      BY <1>12, <2>4, <3>1, ShapedWait
  <2>7. PICK i \in Nat : i = k + 1 + 1
    BY <1>1
  <2>8. i <= p + 3 /\ i >= (k + 1) + 1 /\ l + 1 \in Nat
    BY <1>1, <2>2, <2>7
  <2>9. FitsText(V, l + 1, q, After(y, w, e, i))
    BY <1>1, <2>3, <2>8, FitsPassed
  <2> QED
    BY <2>4, <2>5, <2>6, <2>8, <2>9, ExprWaitBuilt
<1>13. FitsText(V, l + 1, q, After(y, z, g, p))
  <2>1. p <= p + 3
    OBVIOUS
  <2> QED
    BY <1>6, <1>8, <2>1, FitsPassed
<1>14. ASSUME f.k = "close", f.t = "CodeBlock"
       PROVE  Built(V, l + 1, q, s, Node("Table", "", 0, <<r>>))
  <2>1. f.kids = <<>>
    BY <1>14 DEF Shaped
  <2>2. z = w /\ g = e /\ p = 1 + k
    BY <1>9, <2>1
  <2>3. FitsText(V, l + 1, q, After(y, w, e, 1 + k))
    BY <1>13, <2>2, Zenon
  <2>4. Children("Table") = 1
    BY DEF Children, ValueNodes, UnaryNodes
  <2>5. PICK n : n = Node("Table", "", 0, <<r>>)
    OBVIOUS
  <2>6. Gives(n, w, e, 1 + k) /\ n # NoTree
    BY <2>4, <2>5, GivesOne
  <2>7. Built(V, l + 1, q, s, n)
    BY <2>3, <2>6, ReturnBuilt
  <2> QED
    BY <2>5, <2>7
<1>15. ASSUME f.k = "close", f.t \notin {"Paren", "Function"}
       PROVE  Built(V, l + 1, q, s, Node(f.t, "", 0, Append(f.kids, r)))
  <2>1. \/ f.kids = <<>> /\ f.t \in {"CodeBlock", "Array", "Recurse"}
        \/ f.kids # <<>> /\ f.t \in {"Index", "Call"}
    BY <1>15 DEF Shaped
  <2>2. /\ \A t \in {"CodeBlock", "Array", "Recurse"} : Children(t) = 1 /\ t # "NoTree"
        /\ \A t \in {"Index", "Call"} : Children(t) = 2 /\ t # "NoTree"
    BY DEF Children, ValueNodes, UnaryNodes
  <2>3. Children(f.t) = (IF f.kids = <<>> THEN 1 ELSE 2) /\ f.t # "NoTree"
    BY <2>1, <2>2
  <2>4. PICK n : n = Node(f.t, "", 0, Append(f.kids, r))
    OBVIOUS
  <2>5. PICK t : t = f.t
    OBVIOUS
  <2>6. Gives(n, u \o w, d \/ e, m + k) /\ n # NoTree
    BY <1>3, <2>3, <2>4, <2>5, NodeGiven
  <2>7. Gives(n, z, g, p)
    BY <1>4, <1>5, <1>7, <2>6, Zenon
  <2>8. Built(V, l + 1, q, s, n)
    BY <1>13, <2>6, <2>7, ReturnBuilt
  <2> QED
    BY <2>4, <2>8
<1> QED
  BY <1>11, <1>12, <1>14, <1>15

(* No step of the parser loses a word, a hole or a child.                  *)
LEMMA ParseBuilt ==
  ASSUME IsList(lexemes), lcurrent \in 2..Len(lexemes), FramesOK(frames), IsList(errors), Parse,
         NEW V, \A i \in 1..Len(lexemes) : V[i] = V[i - 1] \o Word(lexemes[i]),
         Built(V, lcurrent, errors # <<>>, frames, ret)
  PROVE  Built(V, lcurrent', errors' # <<>>, frames', ret')
<1>1. frames # <<>>
  BY DEF Parse, ParseStep, EmptyExpression, BeginExpression, ExtendExpression, EndExpression,
         Literal, Prefix, Condition, Opening, Parameters, NoParameters, NoExpression, IndexOrCall,
         Apply, InfixOperator, BuildNode, UnexpectedLexeme, CloseBracket, NotClosed, BeginBody, NoBody,
         Running, Returned
<1>2. PICK l \in Nat : l = lcurrent
  <2>1. Len(lexemes) \in Nat
    BY DEF IsList
  <2> QED
    BY <2>1
<1>3. PICK q \in BOOLEAN : q = (errors # <<>>)
  OBVIOUS
<1>4. Built(V, l, q, frames, ret)
  BY <1>2, <1>3, Zenon
<1>5. PICK s : s = Callers
  OBVIOUS
<1>6. IsList(frames) /\ IsList(s) /\ s = Tail(frames)
  <2>1. IsList(frames)
    BY DEF FramesOK, FramesIn, IsList
  <2> QED
    BY <1>1, <1>5, <2>1, TailParts DEF Callers
<1>7. PICK c : c = Current
  OBVIOUS
<1>8. Reads(V, l, c)
  <2>1. lcurrent \in 1..Len(lexemes)
    <3>1. Len(lexemes) \in Nat
      BY DEF IsList
    <3> QED
      BY <3>1
  <2>2. V[lcurrent] = V[lcurrent - 1] \o Word(lexemes[lcurrent])
    BY <2>1
  <2>3. lexemes[lcurrent] = c
    BY <1>7 DEF Current
  <2> QED
    BY <1>2, <2>2, <2>3, Zenon DEF Reads
<1>9. PICK f : f = Top
  OBVIOUS
<1>10. f = frames[1] /\ FrameOK(f)
  BY <1>1, <1>9, FramesTail DEF Top
<1>11. ASSUME Stay, NoError, Built(V, l, q, frames', ret')
       PROVE  Built(V, lcurrent', errors' # <<>>, frames', ret')
  <2>1. lcurrent' = l /\ errors' = errors
    BY <1>2, <1>11 DEF Stay, NoError
  <2>2. (errors' # <<>>) = q
    BY <1>3, <2>1, Zenon
  <2> QED
    BY <1>11, <2>1, <2>2, Zenon
<1>12. ASSUME Next_, NoError, Built(V, l + 1, q, frames', ret')
       PROVE  Built(V, lcurrent', errors' # <<>>, frames', ret')
  <2>1. lcurrent' = l + 1 /\ errors' = errors
    BY <1>2, <1>12 DEF Next_, NoError
  <2>2. (errors' # <<>>) = q
    BY <1>3, <2>1, Zenon
  <2> QED
    BY <1>12, <2>1, <2>2, Zenon
<1>13. ASSUME Stay, Fail, Built(V, l, TRUE, s, ParseError)
       PROVE  Built(V, lcurrent', errors' # <<>>, frames', ret')
  <2>1. lcurrent' = l
    BY <1>2, <1>13 DEF Stay
  <2>2. frames' = s /\ ret' = ParseError
    BY <1>5, <1>13 DEF Fail, Return
  <2>3. (errors' # <<>>) = TRUE
    <3>1. PICK x : errors' = Append(errors, x)
      BY <1>13 DEF Fail
    <3>2. PICK n \in Nat : n = Len(errors)
      BY DEF IsList
    <3>3. Len(errors') = n + 1 /\ n + 1 # 0 /\ Len(<<>>) = 0
      BY <3>1, <3>2, AppendList
    <3> QED
      BY <3>3
  <2> QED
    BY <1>13, <2>1, <2>2, <2>3, Zenon
<1>14. ASSUME ret = NoTree
       PROVE  \E y, w, e, k : /\ Hold(s, y) /\ IsSum(y) /\ Shaped(f) /\ Given(f, w, e, k)
                              /\ FitsText(V, l, q, After(y, w, e, k))
  <2>1. Built(V, l, q, frames, NoTree)
    BY <1>4, <1>14
  <2>2. \E y, w, e, k : /\ Hold(Tail(frames), y) /\ IsSum(y) /\ Shaped(frames[1]) /\ Given(frames[1], w, e, k)
                        /\ FitsText(V, l, q, After(y, w, e, k))
    BY <1>1, <1>6, <2>1, RunningBuilt
  <2> QED
    BY <1>6, <1>10, <2>2, Zenon
<1>15. ASSUME ret # NoTree
       PROVE  \E y, u, d, m, w, e, k :
                /\ Hold(s, y) /\ IsSum(y) /\ Shaped(f) /\ Given(f, u, d, m)
                /\ Gives(ret, w, e, k) /\ FitsText(V, l, q, After(y, u \o w, d \/ e, m + k))
  <2>1. \E y, u, d, m, w, e, k :
           /\ Hold(Tail(frames), y) /\ IsSum(y) /\ Shaped(frames[1]) /\ Given(frames[1], u, d, m)
           /\ Gives(ret, w, e, k) /\ FitsText(V, l, q, After(y, u \o w, d \/ e, m + k))
    BY <1>1, <1>4, <1>6, <1>15, ReturnedBuilt
  <2> QED
    BY <1>6, <1>10, <2>1, Zenon
<1>16. CASE EmptyExpression
  <2>1. ret = NoTree /\ f.k = "expr" /\ frames' = s /\ ret' = Nop /\ Stay /\ NoError
    BY <1>5, <1>9, <1>16 DEF EmptyExpression, Running, Return
  <2>2. PICK y, w, e, k : /\ Hold(s, y) /\ IsSum(y) /\ Shaped(f) /\ Given(f, w, e, k)
                          /\ FitsText(V, l, q, After(y, w, e, k))
    BY <1>14, <2>1
  <2>3. w = <<>> /\ e = FALSE /\ k = 1
    BY <2>1, <2>2, ExprHas
  <2>4. FitsText(V, l, q, After(y, <<>>, FALSE, 1))
    BY <2>2, <2>3, Zenon
  <2>5. Built(V, l, q, s, Nop)
    BY <2>2, <2>4, GivesNop, ReturnBuilt
  <2> QED
    BY <1>11, <2>1, <2>5
<1>17. CASE BeginExpression
  <2>1. /\ ret = NoTree /\ f.k = "expr" /\ frames' = <<Nud(c.t, c.x), Loop(f.b)>> \o s
        /\ ret' = NoTree /\ Next_ /\ NoError
    BY <1>5, <1>7, <1>9, <1>17 DEF BeginExpression, Running, Calls
  <2>2. PICK y, w, e, k : /\ Hold(s, y) /\ IsSum(y) /\ Shaped(f) /\ Given(f, w, e, k)
                          /\ FitsText(V, l, q, After(y, w, e, k))
    BY <1>14, <2>1
  <2>3. w = <<>> /\ e = FALSE /\ k = 1
    BY <2>1, <2>2, ExprHas
  <2>4. FitsText(V, l, q, After(y, <<>>, FALSE, 1))
    BY <2>2, <2>3, Zenon
  <2>5. Built(V, l + 1, q, <<Nud(c.t, c.x), Loop(f.b)>> \o s, NoTree)
    BY <1>6, <1>8, <2>2, <2>4, BeginBuilt
  <2> QED
    BY <1>12, <2>1, <2>5
<1>18. ASSUME f.k = "loop", ret # NoTree
       PROVE  \E y, w, e, k : /\ Hold(s, y) /\ IsSum(y) /\ Shaped(f) /\ Given(f, <<>>, FALSE, 0)
                              /\ Gives(ret, w, e, k) /\ FitsText(V, l, q, After(y, w, e, k))
  <2>1. PICK y, u, d, m, w, e, k :
               /\ Hold(s, y) /\ IsSum(y) /\ Shaped(f) /\ Given(f, u, d, m)
               /\ Gives(ret, w, e, k) /\ FitsText(V, l, q, After(y, u \o w, d \/ e, m + k))
    BY <1>15, <1>18
  <2>2. u = <<>> /\ d = FALSE /\ m = 0
    BY <1>18, <2>1, LoopHas
  <2>3. u \o w = w /\ (d \/ e) = e /\ m + k = k
    <3>1. <<>> \o w = w /\ (FALSE \/ e) = e /\ 0 + k = k
      BY <2>1, NothingMore DEF Gives
    <3> QED
      BY <2>2, <3>1, Zenon
  <2>4. Given(f, <<>>, FALSE, 0) /\ FitsText(V, l, q, After(y, w, e, k))
    BY <2>1, <2>2, <2>3, Zenon
  <2> QED
    BY <2>1, <2>4
<1>19. CASE ExtendExpression
  <2>1. /\ ret # NoTree /\ f.k = "loop" /\ frames' = <<Led(c.t, c.x, ret), f>> \o s
        /\ ret' = NoTree /\ Next_ /\ NoError
    BY <1>5, <1>7, <1>9, <1>19 DEF ExtendExpression, Returned, Calls
  <2>2. PICK y, w, e, k : /\ Hold(s, y) /\ IsSum(y) /\ Shaped(f) /\ Given(f, <<>>, FALSE, 0)
                          /\ Gives(ret, w, e, k) /\ FitsText(V, l, q, After(y, w, e, k))
    BY <1>18, <2>1
  <2>3. Built(V, l + 1, q, <<Led(c.t, c.x, ret), f>> \o s, NoTree)
    BY <1>6, <1>8, <2>2, ExtendBuilt
  <2> QED
    BY <1>12, <2>1, <2>3
<1>20. CASE EndExpression
  <2>1. ret # NoTree /\ f.k = "loop" /\ frames' = s /\ ret' = ret /\ Stay /\ NoError
    BY <1>5, <1>9, <1>20 DEF EndExpression, Returned, Return
  <2>2. PICK y, w, e, k : /\ Hold(s, y) /\ IsSum(y) /\ Shaped(f) /\ Given(f, <<>>, FALSE, 0)
                          /\ Gives(ret, w, e, k) /\ FitsText(V, l, q, After(y, w, e, k))
    BY <1>18, <2>1
  <2>3. Built(V, l, q, s, ret)
    BY <2>1, <2>2, ReturnBuilt
  <2> QED
    BY <1>11, <2>1, <2>3
<1>21. CASE Literal
  <2>1. /\ ret = NoTree /\ f.k = "nud" /\ f.t \in Literals /\ frames' = s
        /\ ret' = Node(f.t, f.x, 0, <<>>) /\ Stay /\ NoError
    BY <1>5, <1>9, <1>21 DEF Literal, Running, Return
  <2>2. PICK y, w, e, k : /\ Hold(s, y) /\ IsSum(y) /\ Shaped(f) /\ Given(f, w, e, k)
                          /\ FitsText(V, l, q, After(y, w, e, k))
    BY <1>14, <2>1
  <2>3. w = Word(f) /\ e = FALSE /\ k = IF f.t \in Separators THEN 3 ELSE 2
    BY <2>1, <2>2, NudHas
  <2>4. FitsText(V, l, q, After(y, Word(f), FALSE, k)) /\ k \in Nat /\ 1 <= k /\ 1 \in Nat
    <3>1. k \in Nat /\ 1 <= k
      BY <2>3
    <3>2. FitsText(V, l, q, After(y, Word(f), FALSE, k))
      BY <2>2, <2>3, Zenon
    <3> QED
      BY <3>1, <3>2
  <2>5. FitsText(V, l, q, After(y, Word(f), FALSE, 1))
    BY <2>2, <2>4, FitsLess
  <2>6. PICK n : n = Node(f.t, f.x, 0, <<>>)
    OBVIOUS
  <2>7. Gives(n, Word(f), FALSE, 1) /\ n # NoTree
    BY <2>1, <2>6, GivesLiteral
  <2>8. Built(V, l, q, s, n)
    BY <2>2, <2>5, <2>7, ReturnBuilt
  <2> QED
    BY <1>11, <2>1, <2>6, <2>8
<1>22. ASSUME f.k = "nud", f.t \notin Literals, ret = NoTree
       PROVE  \E y, k : /\ Hold(s, y) /\ IsSum(y) /\ k \in Nat /\ k >= 2
                        /\ k = (IF f.t \in Separators THEN 3 ELSE 2)
                        /\ FitsText(V, l, q, After(y, <<>>, FALSE, k))
  <2>1. PICK y, w, e, k : /\ Hold(s, y) /\ IsSum(y) /\ Shaped(f) /\ Given(f, w, e, k)
                          /\ FitsText(V, l, q, After(y, w, e, k))
    BY <1>14, <1>22
  <2>2. w = Word(f) /\ e = FALSE /\ k = IF f.t \in Separators THEN 3 ELSE 2
    BY <1>22, <2>1, NudHas
  <2>3. Word(f) = <<>>
    BY <1>22, Wordless
  <2>4. FitsText(V, l, q, After(y, <<>>, FALSE, k))
    BY <2>1, <2>2, <2>3, Zenon
  <2>5. k \in Nat /\ k >= 2 /\ k = (IF f.t \in Separators THEN 3 ELSE 2)
    BY <2>2
  <2> QED
    BY <2>1, <2>4, <2>5
<1>23. CASE Prefix
  <2> DEFINE t    == f.t
             made == IF t = "Plus" THEN <<>>
                     ELSE IF t = "Minus" THEN <<Wait("node", "Neg", <<>>)>>
                     ELSE IF t \in DOMAIN Infix THEN <<Wait("node", Infix[t], <<Nop>>)>>
                     ELSE <<Wait("node", t, <<>>)>>
  <2>1. /\ ret = NoTree /\ f.k = "nud" /\ f.t \in PrefixLexemes
        /\ frames' = (<<Expr(PrefixBindp(t))>> \o made) \o s /\ ret' = NoTree /\ Stay /\ NoError
    BY <1>5, <1>9, <1>23 DEF Prefix, Running, Calls
  <2>2. f.t \notin Literals
    BY <2>1, PrefixKinds
  <2>3. PICK y, k : /\ Hold(s, y) /\ IsSum(y) /\ k \in Nat /\ k >= 2
                    /\ k = (IF f.t \in Separators THEN 3 ELSE 2)
                    /\ FitsText(V, l, q, After(y, <<>>, FALSE, k))
    BY <1>22, <2>1, <2>2
  <2>4. FitsText(V, l, q, After(y, <<>>, FALSE, IF t \in Separators THEN 3 ELSE 2))
    BY <2>3, Zenon
  <2>5. PICK b : b = PrefixBindp(t)
    OBVIOUS
  <2>6. Built(V, l, q, (<<Expr(b)>> \o made) \o s, NoTree)
    BY <1>6, <2>1, <2>3, <2>4, PrefixBuilt
  <2> HIDE DEF made
  <2> QED
    BY <1>11, <2>1, <2>5, <2>6
<1>24. ASSUME f.k = "nud", f.t \notin Literals, ret = NoTree,
              NEW h, Shaped(h), Given(h, <<>>, FALSE, 1), NEW b
       PROVE  /\ Built(V, l, q, <<Expr(b), h>> \o s, NoTree)
              /\ c.t \notin Literals => Built(V, l + 1, q, <<Expr(b), h>> \o s, NoTree)
  <2>1. PICK y, k : /\ Hold(s, y) /\ IsSum(y) /\ k \in Nat /\ k >= 2
                    /\ k = (IF f.t \in Separators THEN 3 ELSE 2)
                    /\ FitsText(V, l, q, After(y, <<>>, FALSE, k))
    BY <1>22, <1>24
  <2>2. k \in Nat /\ k >= 1 + 1 /\ k <= k + 3 /\ l + 1 \in Nat
    BY <2>1
  <2>3. Built(V, l, q, <<Expr(b), h>> \o s, NoTree)
    BY <1>6, <1>24, <2>1, <2>2, ExprWaitBuilt
  <2>4. ASSUME c.t \notin Literals PROVE Built(V, l + 1, q, <<Expr(b), h>> \o s, NoTree)
    <3>1. IsList(<<>>)
      BY ShortLists
    <3>2. FitsText(V, l + 1, q, After(y, <<>>, FALSE, k))
      BY <1>8, <2>1, <2>2, <2>4, <3>1, FitsPassed
    <3> QED
      BY <1>6, <1>24, <2>1, <2>2, <3>2, ExprWaitBuilt
  <2> QED
    BY <2>3, <2>4
<1>25. /\ \A t \in Conditions : Shaped(Wait("body", t, <<>>)) /\ Given(Wait("body", t, <<>>), <<>>, FALSE, 1)
       /\ \A t \in {"Paren", "CodeBlock", "Array", "Recurse", "Function"} :
            Shaped(Wait("close", t, <<>>)) /\ Given(Wait("close", t, <<>>), <<>>, FALSE, 1)
  <2>1. "body" \in Waits /\ "close" \in Waits
    BY DEF Waits
  <2> QED
    BY <2>1, ShapedWait, GivenWait
<1>26. CASE Condition
  <2>1. /\ ret = NoTree /\ f.k = "nud" /\ f.t \in Conditions
        /\ frames' = <<Expr(DefBlockBindp), Wait("body", f.t, <<>>)>> \o s /\ ret' = NoTree /\ Stay /\ NoError
    BY <1>5, <1>9, <1>26 DEF Condition, Running, Calls
  <2>2. f.t \notin Literals
    BY <2>1 DEF Conditions, Literals
  <2>3. PICK h : h = Wait("body", f.t, <<>>)
    OBVIOUS
  <2>4. Shaped(h) /\ Given(h, <<>>, FALSE, 1)
    BY <1>25, <2>1, <2>3
  <2>5. Built(V, l, q, <<Expr(DefBlockBindp), h>> \o s, NoTree)
    BY <1>24, <2>1, <2>2, <2>4
  <2> QED
    BY <1>11, <2>1, <2>3, <2>5
<1>27. CASE Opening
  <2>1. ret = NoTree /\ f.k = "nud" /\ f.t \in Openings /\ Stay /\ NoError
    BY <1>9, <1>27 DEF Opening, Running
  <2>2. \E b : \E t \in {"Paren", "CodeBlock", "Array"} :
          frames' = <<Expr(b), Wait("close", t, <<>>)>> \o s /\ ret' = NoTree
    BY <1>5, <1>9, <1>27, <2>1 DEF Opening, Calls, Openings
  <2>3. PICK b, t : /\ frames' = <<Expr(b), Wait("close", t, <<>>)>> \o s /\ ret' = NoTree
                    /\ t \in {"Paren", "CodeBlock", "Array", "Recurse", "Function"}
    BY <2>2
  <2>4. f.t \notin Literals
    BY <2>1 DEF Openings, Literals
  <2>5. PICK h : h = Wait("close", t, <<>>)
    OBVIOUS
  <2>6. Shaped(h) /\ Given(h, <<>>, FALSE, 1)
    BY <1>25, <2>3, <2>5
  <2>7. Built(V, l, q, <<Expr(b), h>> \o s, NoTree)
    BY <1>24, <2>1, <2>4, <2>6
  <2> QED
    BY <1>11, <2>1, <2>3, <2>5, <2>7
<1>28. CASE Parameters
  <2>1. ret = NoTree /\ f.k = "nud" /\ f.t \in CallLike /\ c.t = "LParen" /\ Next_ /\ NoError
    BY <1>7, <1>9, <1>28 DEF Parameters, Running
  <2>2. \E b : \E t \in {"Recurse", "Function"} :
          frames' = <<Expr(b), Wait("close", t, <<>>)>> \o s /\ ret' = NoTree
    BY <1>5, <1>9, <1>28 DEF Parameters, Calls
  <2>3. PICK b, t : /\ frames' = <<Expr(b), Wait("close", t, <<>>)>> \o s /\ ret' = NoTree
                    /\ t \in {"Paren", "CodeBlock", "Array", "Recurse", "Function"}
    BY <2>2
  <2>4. f.t \notin Literals /\ c.t \notin Literals
    BY <2>1 DEF CallLike, Literals
  <2>5. PICK h : h = Wait("close", t, <<>>)
    OBVIOUS
  <2>6. Shaped(h) /\ Given(h, <<>>, FALSE, 1)
    BY <1>25, <2>3, <2>5
  <2>7. Built(V, l + 1, q, <<Expr(b), h>> \o s, NoTree)
    BY <1>24, <2>1, <2>4, <2>6
  <2> QED
    BY <1>12, <2>1, <2>3, <2>5, <2>7
<1>29. CASE NoParameters \/ NoExpression
  <2>1. ret = NoTree /\ f.k = "nud" /\ Stay /\ Fail /\ f.t \notin Literals
    BY <1>9, <1>29 DEF NoParameters, NoExpression, Running, CallLike, Literals
  <2>2. PICK y, k : /\ Hold(s, y) /\ IsSum(y) /\ k \in Nat /\ k >= 2
                    /\ k = (IF f.t \in Separators THEN 3 ELSE 2)
                    /\ FitsText(V, l, q, After(y, <<>>, FALSE, k))
    BY <1>22, <2>1
  <2>3. k \in Nat \ {0}
    BY <2>2
  <2>4. Built(V, l, TRUE, s, ParseError)
    BY <2>2, <2>3, FailBuilt
  <2> QED
    BY <1>13, <2>1, <2>4
<1>30. ASSUME f.k = "led", ret = NoTree
       PROVE  \E y, n, u, e, m : /\ Hold(s, y) /\ IsSum(y) /\ f.kids = <<n>> /\ Gives(n, u, e, m)
                                 /\ FitsText(V, l, q, After(y, u \o Word(f), e, m + 3))
  <2>1. PICK y, w, e, k : /\ Hold(s, y) /\ IsSum(y) /\ Shaped(f) /\ Given(f, w, e, k)
                          /\ FitsText(V, l, q, After(y, w, e, k))
    BY <1>14, <1>30
  <2>2. PICK n, u, m : f.kids = <<n>> /\ Gives(n, u, e, m) /\ w = u \o Word(f) /\ k = m + 3
    BY <1>30, <2>1, LedHas
  <2>3. FitsText(V, l, q, After(y, u \o Word(f), e, m + 3))
    BY <2>1, <2>2, Zenon
  <2> QED
    BY <2>1, <2>2, <2>3
<1>31. ASSUME f.k = "led", ret = NoTree, f.t \notin Literals, NEW k \in Waits, NEW t,
              \A n : Shaped(Wait(k, t, <<n>>)), NEW b
       PROVE  Built(V, l, q, <<Expr(b), Wait(k, t, f.kids)>> \o s, NoTree)
  <2>1. PICK y, n, u, e, m : /\ Hold(s, y) /\ IsSum(y) /\ f.kids = <<n>> /\ Gives(n, u, e, m)
                             /\ FitsText(V, l, q, After(y, u \o Word(f), e, m + 3))
    BY <1>30, <1>31
  <2>2. u \o Word(f) = u /\ m \in Nat
    <3>1. Word(f) = <<>>
      BY <1>31, Wordless
    <3>2. u \o <<>> = u /\ m \in Nat
      BY <2>1, NothingMore DEF Gives
    <3> QED
      BY <3>1, <3>2, Zenon
  <2>3. FitsText(V, l, q, After(y, u, e, m + 3))
    BY <2>1, <2>2, Zenon
  <2>4. PICK h : h = Wait(k, t, <<n>>)
    OBVIOUS
  <2>5. Shaped(h) /\ Given(h, u, e, m + 1)
    BY <1>31, <2>1, <2>4, GivenWaitKid
  <2>6. m + 3 \in Nat /\ m + 3 >= (m + 1) + 1
    BY <2>2
  <2>7. Built(V, l, q, <<Expr(b), h>> \o s, NoTree)
    BY <1>6, <2>1, <2>3, <2>5, <2>6, ExprWaitBuilt
  <2> QED
    BY <2>1, <2>4, <2>7, Zenon
<1>32. CASE IndexOrCall
  <2>1. /\ ret = NoTree /\ f.k = "led" /\ f.t \in {"LBracket", "LParen"} /\ Stay /\ NoError
        /\ frames' = <<Expr(DefExprBindp),
             Wait("close", IF f.t = "LBracket" THEN "Index" ELSE "Call", f.kids)>> \o s
        /\ ret' = NoTree
    BY <1>5, <1>9, <1>32 DEF IndexOrCall, Running, Calls
  <2>2. PICK t : t = IF f.t = "LBracket" THEN "Index" ELSE "Call"
    OBVIOUS
  <2>3. t \in {"Index", "Call"}
    BY <2>2
  <2>4. f.t \notin Literals /\ "close" \in Waits
    BY <2>1 DEF Literals, Waits
  <2>5. \A n : Shaped(Wait("close", t, <<n>>))
    BY <2>3, ShapedWait
  <2>6. Built(V, l, q, <<Expr(DefExprBindp), Wait("close", t, f.kids)>> \o s, NoTree)
    BY <1>31, <2>1, <2>4, <2>5
  <2>7. Built(V, l, q, frames', ret')
    BY <2>1, <2>2, <2>6, Zenon
  <2> QED
    BY <1>11, <2>1, <2>7
<1>33. CASE Apply
  <2>1. /\ ret = NoTree /\ f.k = "led" /\ Level(f.t) >= 13 /\ Stay /\ NoError
        /\ frames' = <<Nud(f.t, f.x), Wait("node", "Apply", f.kids)>> \o s
        /\ ret' = NoTree
    BY <1>5, <1>9, <1>33 DEF Apply, Running, Calls
  <2>2. PICK y, n, u, e, m : /\ Hold(s, y) /\ IsSum(y) /\ f.kids = <<n>> /\ Gives(n, u, e, m)
                             /\ FitsText(V, l, q, After(y, u \o Word(f), e, m + 3))
    BY <1>30, <2>1
  <2>3. PICK g : g = Nud(f.t, f.x)
    OBVIOUS
  <2>4. f.t \notin Separators
    BY <2>1 DEF Separators, Level
  <2>5. Shaped(g) /\ Given(g, Word(f), FALSE, 2)
    <3>1. Given(g, Word(f), FALSE, IF f.t \in Separators THEN 3 ELSE 2)
      BY <2>3, GivenNud
    <3>2. (IF f.t \in Separators THEN 3 ELSE 2) = 2
      BY <2>4
    <3>3. Shaped(g)
      BY <2>3, GivenNud
    <3> QED
      BY <3>1, <3>2, <3>3, Zenon
  <2>6. PICK h : h = Wait("node", "Apply", <<n>>)
    OBVIOUS
  <2>7. Shaped(h) /\ Given(h, u, e, m + 1)
    <3>1. Children("Apply") = 2 /\ "Apply" # "NoTree"
      BY DEF Children, ValueNodes, UnaryNodes
    <3>2. "node" \in Waits
      BY DEF Waits
    <3> QED
      BY <2>2, <2>6, <3>1, <3>2, ShapedWait, GivenWaitKid
  <2>8. (e \/ FALSE) = e /\ (m + 1) + 2 = m + 3
    BY <2>2, NothingMore DEF Gives
  <2>9. FitsText(V, l, q, After(y, u \o Word(f), e \/ FALSE, (m + 1) + 2))
    BY <2>2, <2>8, Zenon
  <2>10. PICK x : x = Word(f)
    OBVIOUS
  <2>11. Given(g, x, FALSE, 2) /\ FitsText(V, l, q, After(y, u \o x, e \/ FALSE, (m + 1) + 2))
    BY <2>5, <2>9, <2>10, Zenon
  <2>12. Built(V, l, q, <<g, h>> \o s, NoTree)
    BY <1>6, <2>2, <2>5, <2>7, <2>11, CallsBuilt
  <2>13. Built(V, l, q, frames', ret')
    BY <2>1, <2>2, <2>3, <2>6, <2>12, Zenon
  <2> QED
    BY <1>11, <2>1, <2>13
<1>34. CASE InfixOperator
  <2>1. /\ ret = NoTree /\ f.k = "led" /\ Level(f.t) < 13 /\ Stay /\ NoError
        /\ frames' = <<Expr(InfixBindp(f.t)),
             Wait("node", IF f.t \in DOMAIN Infix THEN Infix[f.t] ELSE "Unexpected", f.kids)>> \o s
        /\ ret' = NoTree
    BY <1>5, <1>9, <1>34 DEF InfixOperator, Running, Calls
  <2>2. PICK t : t = IF f.t \in DOMAIN Infix THEN Infix[f.t] ELSE "Unexpected"
    OBVIOUS
  <2>3. (Children(t) = 2 /\ t # "NoTree") \/ t = "Unexpected"
    BY <2>2, InfixTwo
  <2>4. f.t \notin Literals /\ "node" \in Waits
    <3>1. f.t \in Literals => FALSE
      BY <2>1, LiteralsHigh
    <3> QED
      BY <3>1 DEF Waits
  <2>5. \A n : Shaped(Wait("node", t, <<n>>))
    BY <2>3, ShapedWait
  <2>6. Built(V, l, q, <<Expr(InfixBindp(f.t)), Wait("node", t, f.kids)>> \o s, NoTree)
    BY <1>31, <2>1, <2>4, <2>5
  <2>7. Built(V, l, q, frames', ret')
    BY <2>1, <2>2, <2>6, Zenon
  <2> QED
    BY <1>11, <2>1, <2>7
<1>35. CASE BuildNode
  <2>1. /\ ret # NoTree /\ f.k = "node" /\ f.t # "Unexpected" /\ Stay /\ NoError
        /\ frames' = s /\ ret' = Node(f.t, "", 0, Append(f.kids, ret))
    BY <1>5, <1>9, <1>35 DEF BuildNode, Returned, Return
  <2>2. PICK y, u, d, m, w, e, k :
               /\ Hold(s, y) /\ IsSum(y) /\ Shaped(f) /\ Given(f, u, d, m)
               /\ Gives(ret, w, e, k) /\ FitsText(V, l, q, After(y, u \o w, d \/ e, m + k))
    BY <1>15, <2>1
  <2>3. PICK t : t = f.t
    OBVIOUS
  <2>4. t # "NoTree" /\ Children(t) = IF f.kids = <<>> THEN 1 ELSE 2
    BY <2>1, <2>2, <2>3 DEF Shaped
  <2>5. PICK n : n = Node(t, "", 0, Append(f.kids, ret))
    OBVIOUS
  <2>6. f.k \in Waits
    BY <2>1 DEF Waits
  <2>7. Gives(n, u \o w, d \/ e, m + k) /\ n # NoTree
    BY <2>2, <2>4, <2>5, <2>6, NodeGiven
  <2>8. Built(V, l, q, s, n)
    BY <2>2, <2>7, ReturnBuilt
  <2> QED
    BY <1>11, <2>1, <2>3, <2>5, <2>8
<1>36. CASE UnexpectedLexeme \/ NotClosed \/ NoBody
  <2>1. ret # NoTree /\ f.k \in Waits /\ Stay /\ Fail
    BY <1>9, <1>36 DEF UnexpectedLexeme, NotClosed, NoBody, Returned, Waits
  <2>2. PICK y, u, d, m, w, e, k :
               /\ Hold(s, y) /\ IsSum(y) /\ Shaped(f) /\ Given(f, u, d, m)
               /\ Gives(ret, w, e, k) /\ FitsText(V, l, q, After(y, u \o w, d \/ e, m + k))
    BY <1>15, <2>1
  <2>3. m \in Nat \ {0} /\ k \in Nat
    BY <2>1, <2>2, WaitHas DEF Gives
  <2>4. PICK p \in Nat \ {0} : p = m + k
    BY <2>3
  <2>5. PICK x, g : x = u \o w /\ g = (d \/ e)
    OBVIOUS
  <2>6. FitsText(V, l, q, After(y, x, g, p))
    BY <2>2, <2>4, <2>5, Zenon
  <2>7. Built(V, l, TRUE, s, ParseError)
    BY <2>2, <2>6, FailBuilt
  <2> QED
    BY <1>13, <2>1, <2>7
<1>37. CASE CloseBracket
  <2>1. /\ ret # NoTree /\ f.k = "close" /\ c.t = Closer[f.t] /\ Next_ /\ NoError
    BY <1>7, <1>9, <1>37 DEF CloseBracket, Returned
  <2>2. PICK y, u, d, m, w, e, k :
               /\ Hold(s, y) /\ IsSum(y) /\ Shaped(f) /\ Given(f, u, d, m)
               /\ Gives(ret, w, e, k) /\ FitsText(V, l, q, After(y, u \o w, d \/ e, m + k))
    BY <1>15, <2>1
  <2>3. c.t \notin Literals
    <3>1. \A t \in DOMAIN Closer : Closer[t] \in {"RParen", "RBrace", "RBracket"}
      BY DEF Closer
    <3>2. f.t \in DOMAIN Closer
      BY <1>10, <2>1 DEF FrameOK
    <3> QED
      BY <2>1, <3>1, <3>2 DEF Literals
  <2>4. PICK r : r = ret
    OBVIOUS
  <2>5. /\ f.t = "Paren" => Built(V, l + 1, q, s, r)
        /\ f.t = "Function" =>
              \A b : Built(V, l + 1, q, <<Expr(b), Wait("node", f.t, <<r>>)>> \o s, NoTree)
        /\ f.t = "CodeBlock" => Built(V, l + 1, q, s, Node("Table", "", 0, <<r>>))
        /\ f.t \notin {"Paren", "Function"} => Built(V, l + 1, q, s, Node(f.t, "", 0, Append(f.kids, r)))
    <3>1. r # NoTree /\ Gives(r, w, e, k) /\ f.k \in {"close", "body"}
      BY <2>1, <2>2, <2>4
    <3>2. /\ f.k = "close" /\ f.t = "Paren" => Built(V, l + 1, q, s, r)
          /\ f.t \in {"Function"} \union Conditions =>
               \A b : Built(V, l + 1, q, <<Expr(b), Wait("node", f.t, <<r>>)>> \o s, NoTree)
          /\ f.k = "close" /\ f.t = "CodeBlock" => Built(V, l + 1, q, s, Node("Table", "", 0, <<r>>))
          /\ f.k = "close" /\ f.t \notin {"Paren", "Function"} =>
               Built(V, l + 1, q, s, Node(f.t, "", 0, Append(f.kids, r)))
      BY <1>6, <1>8, <2>2, <2>3, <3>1, CloseBuilt
    <3> QED
      BY <2>1, <3>2
  <2>6. Built(V, l + 1, q, frames', ret')
    <3>1. CASE f.t = "Paren"
      <4>1. frames' = s /\ ret' = r
        BY <1>5, <1>9, <1>37, <2>4, <3>1 DEF CloseBracket, Return
      <4> QED
        BY <2>5, <3>1, <4>1
    <3>2. CASE f.t = "Function"
      <4>1. frames' = <<Expr(DefStatementBindp), Wait("node", f.t, <<r>>)>> \o s /\ ret' = NoTree
        BY <1>5, <1>9, <1>37, <2>4, <3>2 DEF CloseBracket, Calls
      <4> QED
        BY <2>5, <3>2, <4>1
    <3>3. CASE f.t = "CodeBlock" /\ ret.t \in {"ExprList", "KeyValuePair", "Nop"}
      <4>1. frames' = s /\ ret' = Node("Table", "", 0, <<r>>)
        BY <1>5, <1>9, <1>37, <2>4, <3>3 DEF CloseBracket, Return
      <4> QED
        BY <2>5, <3>3, <4>1
    <3>4. CASE f.t \notin {"Paren", "Function"} /\ ~(f.t = "CodeBlock" /\ ret.t \in {"ExprList", "KeyValuePair", "Nop"})
      <4>1. frames' = s /\ ret' = Node(f.t, "", 0, Append(f.kids, r))
        BY <1>5, <1>9, <1>37, <2>4, <3>4 DEF CloseBracket, Return
      <4> QED
        BY <2>5, <3>4, <4>1
    <3> QED
      BY <3>1, <3>2, <3>3, <3>4
  <2> QED
    BY <1>12, <2>1, <2>6
<1>38. CASE BeginBody
  <2>1. /\ ret # NoTree /\ f.k = "body" /\ c.t = "Do" /\ Next_ /\ NoError
        /\ frames' = <<Expr(DefStatementBindp), Wait("node", f.t, <<ret>>)>> \o s /\ ret' = NoTree
    BY <1>5, <1>7, <1>9, <1>38 DEF BeginBody, Returned, Calls
  <2>2. PICK y, u, d, m, w, e, k :
               /\ Hold(s, y) /\ IsSum(y) /\ Shaped(f) /\ Given(f, u, d, m)
               /\ Gives(ret, w, e, k) /\ FitsText(V, l, q, After(y, u \o w, d \/ e, m + k))
    BY <1>15, <2>1
  <2>3. c.t \notin Literals /\ f.k \in {"close", "body"}
    BY <2>1 DEF Literals
  <2>4. f.t \in {"Function"} \union Conditions
    BY <2>1, <2>2 DEF Shaped
  <2>5. PICK r : r = ret
    OBVIOUS
  <2>6. r # NoTree /\ Gives(r, w, e, k)
    BY <2>1, <2>2, <2>5
  <2>7. f.t \in {"Function"} \union Conditions =>
               \A b : Built(V, l + 1, q, <<Expr(b), Wait("node", f.t, <<r>>)>> \o s, NoTree)
    BY <1>6, <1>8, <2>2, <2>3, <2>6, CloseBuilt
  <2>8. Built(V, l + 1, q, frames', ret')
    BY <2>1, <2>4, <2>5, <2>7
  <2> QED
    BY <1>12, <2>1, <2>8
<1> QED
  BY <1>16, <1>17, <1>19, <1>20, <1>21, <1>23, <1>26, <1>27, <1>28, <1>29, <1>32, <1>33, <1>34, <1>35,
     <1>36, <1>37, <1>38 DEF Parse, ParseStep

(* What is built when no call is left is the tree of what was read.        *)
LEMMA TreeBuilt ==
  ASSUME IsList(lexemes), lcurrent \in 2..Len(lexemes), NEW q,
         Built(WordsRead, lcurrent, q, <<>>, ret)
  PROVE  \E w, Q : /\ Walk(ret) = Visit(<<>>, w, Q)
                   /\ \A x \in Q : Len(x.kids) = Children(x.t)
                   /\ q <=> \E x \in Q : x.t = "ParseError"
                   /\ ~q => w = WordsRead[lcurrent - 1]
<1>1. PICK V : V = WordsRead
  OBVIOUS
<1>2. PICK n, l \in Nat : n = Len(lexemes) /\ l = lcurrent /\ 2 <= l /\ l <= n
  BY DEF IsList
<1>3. Built(V, l, q, <<>>, ret)
  BY <1>1, <1>2, Zenon
<1>4. PICK a, w, e, k : Hold(<<>>, a) /\ Gives(ret, w, e, k) /\ FitsText(V, l, q, After(a, w, e, k))
  BY <1>3 DEF Built
<1>5. a.w = <<>> /\ a.e = FALSE /\ a.m = 0
  <2>1. a = Sum(<<>>, FALSE, 0)
    BY <1>4, NoneHeld
  <2> QED
    BY <2>1 DEF Sum
<1>6. PICK c : c = After(a, w, e, k)
  OBVIOUS
<1>7. c.w = a.w \o w /\ c.e = (a.e \/ e) /\ c.m = a.m + k
  <2>1. LET b == After(a, w, e, k) IN b.w = a.w \o w /\ b.e = (a.e \/ e) /\ b.m = a.m + k
    BY AfterFields
  <2> QED
    BY <1>6, <2>1, Zenon
<1>8. <<>> \o w = w /\ (FALSE \/ e) = e /\ 0 + k = k /\ k \in Nat
  BY <1>4, NothingMore DEF Gives
<1>9. c.w = w /\ c.e = e /\ c.m = k
  BY <1>5, <1>7, <1>8, Zenon
<1>10. FitsText(V, l, q, c)
  BY <1>4, <1>6
<1>11. k <= 3 * (l - 2) + 1 /\ (e <=> q) /\ (~e => w = V[l - 1])
  BY <1>9, <1>10, Zenon DEF FitsText
<1>12. k <= MaxNodes
  BY <1>2, <1>8, <1>11 DEF MaxNodes
<1>13. PICK Q : /\ Walk(ret) = Visit(<<>>, w, Q)
                /\ \A x \in Q : Len(x.kids) = Children(x.t)
                /\ e <=> \E x \in Q : x.t = "ParseError"
  BY <1>4, <1>8, <1>12, WalkIs DEF Gives
<1>14. ~q => w = WordsRead[lcurrent - 1]
  BY <1>1, <1>2, <1>11
<1>15. q <=> \E x \in Q : x.t = "ParseError"
  BY <1>11, <1>13
<1> QED
  BY <1>13, <1>14, <1>15

(* The parser begins with nothing read and nothing made.                   *)
LEMMA BeginTree ==
  ASSUME IsList(lexemes), lexemes[1].t = "Semicolon", Len(lexemes) >= 2
  PROVE  Built(WordsRead, 2, FALSE, <<Expr(DefBlockBindp)>>, NoTree)
<1>1. PICK V : V = WordsRead
  OBVIOUS
<1>2. V[1] = <<>>
  <2>1. Len(lexemes) \in Nat
    BY DEF IsList
  <2>2. 1 \in 1..Len(lexemes) /\ 1 - 1 = 0
    BY <2>1
  <2>3. V[0] = <<>> /\ V[1] = V[0] \o Word(lexemes[1])
    BY <1>1, <2>2, WordsReadIs
  <2>4. Word(lexemes[1]) = <<>>
    BY DEF Word, Literals
  <2> QED
    BY <2>3, <2>4, NothingMore
<1>3. PICK a : a = Sum(<<>>, FALSE, 0)
  OBVIOUS
<1>4. Hold(<<>>, a) /\ IsList(<<>>)
  BY <1>3, HeldNone, ShortLists
<1>5. PICK f : f = Expr(DefBlockBindp)
  OBVIOUS
<1>6. Shaped(f) /\ Given(f, <<>>, FALSE, 1)
  BY <1>5, GivenExpr
<1>7. FitsText(V, 2, FALSE, After(a, <<>>, FALSE, 1))
  <2>1. a.w = <<>> /\ a.e = FALSE /\ a.m = 0
    BY <1>3 DEF Sum
  <2>2. PICK g : g = FALSE
    OBVIOUS
  <2>3. PICK z, k, c : z = <<>> /\ k = 1 /\ c = After(a, z, g, k)
    OBVIOUS
  <2>4. c.w = a.w \o <<>> /\ c.e = (a.e \/ g) /\ c.m = a.m + 1
    <3>1. LET b == After(a, z, g, k) IN b.w = a.w \o z /\ b.e = (a.e \/ g) /\ b.m = a.m + k
      BY AfterFields
    <3> QED
      BY <2>3, <3>1, Zenon
  <2>5. (FALSE \/ FALSE) = FALSE /\ <<>> \o <<>> = <<>>
    BY NothingMore
  <2>6. c.w = <<>> /\ c.e = FALSE /\ c.m = 0 + 1
    BY <2>1, <2>2, <2>4, <2>5, Zenon
  <2>10. c.m = 0 + 1
    BY <2>6, Zenon
  <2>7. c.m <= 3 * (2 - 2) + 1 /\ 2 - 1 = 1
    BY <2>10
  <2>8. (c.e <=> FALSE) /\ (~c.e => c.w = V[2 - 1])
    BY <1>2, <2>6, <2>7, Zenon
  <2>9. FitsText(V, 2, FALSE, c)
    BY <2>7, <2>8 DEF FitsText
  <2> QED
    BY <2>2, <2>3, <2>9, Zenon
<1>8. Built(V, 2, FALSE, <<f>> \o <<>>, NoTree)
  BY <1>4, <1>6, <1>7, CallBuilt
<1>9. <<f>> \o <<>> = <<f>>
  BY ShortLists, JoinNone
<1> QED
  BY <1>1, <1>5, <1>8, <1>9, Zenon

(* From the first lexeme on, what is built is made of what was read.       *)
GInv ==
  /\ WInv
  /\ stage = "lexing" => ret = NoTree
  /\ stage = "parsed" => errors = <<>> /\ frames = <<>>
  /\ stage # "lexing" /\ (stage = "parsing" \/ frames = <<>>) =>
       lcurrent \in 2..Len(lexemes) /\ Built(WordsRead, lcurrent, errors # <<>>, frames, ret)

LEMMA InitGInv == InitFrontEnd => GInv
BY InitWInv DEF GInv, InitFrontEnd, InitParser

LEMMA NextGInv == GInv /\ [Next]_vars => GInv'
<1> SUFFICES ASSUME GInv, [Next]_vars PROVE GInv'
  OBVIOUS
<1>1. WInv /\ WInv'
  BY NextWInv DEF GInv
<1>2. IsList(lexemes)
  BY <1>1 DEF WInv, TInv, IInv, EndLast
<1>3. CASE LexStep
  <2>1. stage = "lexing" /\ stage' = "lexing" /\ ret' = ret
    BY <1>3 DEF LexStep, parserVars
  <2> QED
    BY <1>1, <2>1 DEF GInv
<1>4. CASE ReportLexer
  <2>1. stage' = "reported" /\ frames' = <<Expr(DefBlockBindp)>>
    BY <1>1, <1>4 DEF ReportLexer, parserVars, WInv
  <2>2. frames' # <<>>
    BY <2>1
  <2> QED
    BY <1>1, <2>1, <2>2 DEF GInv
<1>5. CASE BeginParse
  <2>1. /\ stage = "lexing" /\ mode = "done" /\ stage' = "parsing" /\ errors = <<>>
        /\ UNCHANGED <<lexemes, errors, lcurrent, frames, ret>>
    BY <1>5 DEF BeginParse, lexerVars, parserVars
  <2>2. frames = <<Expr(DefBlockBindp)>> /\ lcurrent = 2 /\ lexemes[1].t = "Semicolon" /\ Len(lexemes) >= 2
    BY <1>1, <2>1 DEF WInv, TInv, IInv, EndLast
  <2>3. ret = NoTree
    BY <2>1 DEF GInv
  <2>4. Built(WordsRead, 2, FALSE, frames, ret)
    BY <1>2, <2>2, <2>3, BeginTree
  <2>5. (errors # <<>>) = FALSE
    BY <2>1
  <2>6. Built(WordsRead, lcurrent, errors # <<>>, frames, ret)
    BY <2>2, <2>4, <2>5, Zenon
  <2>7. WordsRead' = WordsRead
    BY <2>1 DEF WordsRead
  <2>8. Built(WordsRead', lcurrent', errors' # <<>>, frames', ret')
    BY <2>1, <2>6, <2>7, Zenon
  <2>9. lcurrent' \in 2..Len(lexemes')
    <3>1. Len(lexemes) \in Nat
      BY <1>2 DEF IsList
    <3> QED
      BY <2>1, <2>2, <3>1
  <2> QED
    BY <1>1, <2>1, <2>8, <2>9 DEF GInv
<1>6. CASE ParserStep
  <2>1. stage = "parsing" /\ stage' = "parsing" /\ Parse /\ lexemes' = lexemes
    BY <1>6 DEF ParserStep, Parse
  <2>2. Built(WordsRead, lcurrent, errors # <<>>, frames, ret)
    BY <2>1 DEF GInv
  <2>3. /\ lcurrent \in 2..Len(lexemes) /\ FramesOK(frames) /\ IsList(errors)
        /\ lcurrent' \in 2..Len(lexemes')
    BY <1>1, <2>1 DEF WInv, TInv, IInv
  <2>4. PICK V : V = WordsRead
    OBVIOUS
  <2>5. \A i \in 1..Len(lexemes) : V[i] = V[i - 1] \o Word(lexemes[i])
    BY <1>2, <2>4, WordsReadIs
  <2>6. Built(V, lcurrent, errors # <<>>, frames, ret)
    BY <2>2, <2>4, Zenon
  <2>7. Built(V, lcurrent', errors' # <<>>, frames', ret')
    BY <1>2, <2>1, <2>3, <2>5, <2>6, ParseBuilt
  <2>8. WordsRead' = WordsRead
    BY <2>1 DEF WordsRead
  <2>9. Built(WordsRead', lcurrent', errors' # <<>>, frames', ret')
    BY <2>4, <2>7, <2>8, Zenon
  <2> QED
    BY <1>1, <2>1, <2>3, <2>9 DEF GInv
<1>7. CASE EndParse
  <2>1. /\ stage = "parsing" /\ frames = <<>> /\ stage' = (IF errors = <<>> THEN "parsed" ELSE "reported")
        /\ UNCHANGED <<lexemes, errors, lcurrent, frames, ret>>
    BY <1>7 DEF EndParse, lexerVars, parserVars
  <2>2. lcurrent \in 2..Len(lexemes) /\ Built(WordsRead, lcurrent, errors # <<>>, frames, ret)
    BY <2>1 DEF GInv
  <2>3. WordsRead' = WordsRead
    BY <2>1 DEF WordsRead
  <2>4. lcurrent' \in 2..Len(lexemes') /\ Built(WordsRead', lcurrent', errors' # <<>>, frames', ret')
    BY <2>1, <2>2, <2>3, Zenon
  <2>5. stage' # "lexing" /\ (stage' = "parsed" => errors' = <<>> /\ frames' = <<>>)
    BY <2>1
  <2> QED
    BY <1>1, <2>4, <2>5 DEF GInv
<1>8. CASE UNCHANGED vars
  <2>1. UNCHANGED <<lexemes, errors, lcurrent, frames, ret, stage>>
    BY <1>8 DEF vars, parserVars
  <2>2. WordsRead' = WordsRead
    BY <2>1 DEF WordsRead
  <2>3. ASSUME stage # "lexing", stage = "parsing" \/ frames = <<>>
        PROVE  lcurrent' \in 2..Len(lexemes') /\ Built(WordsRead', lcurrent', errors' # <<>>, frames', ret')
    <3>1. lcurrent \in 2..Len(lexemes) /\ Built(WordsRead, lcurrent, errors # <<>>, frames, ret)
      BY <2>3 DEF GInv
    <3> QED
      BY <2>1, <2>2, <3>1, Zenon
  <2> QED
    BY <1>1, <2>1, <2>3 DEF GInv
<1> QED
  BY <1>3, <1>4, <1>5, <1>6, <1>7, <1>8 DEF Next

LEMMA TreesKept == Spec => []GInv
BY InitGInv, NextGInv, PTL DEF Spec

(* For every text: the tree of a script without errors has the names and   *)
(* literals of the lexemes read, in their order, and no others (nud_ and   *)
(* led_ drop no operand and turn none around).                             *)
THEOREM LeavesAlwaysInOrder == Spec => []LeavesInOrder
<1>1. GInv => LeavesInOrder
  <2> SUFFICES ASSUME GInv, stage = "parsed" PROVE Walk(ret).words = WordsRead[lcurrent - 1]
    BY DEF LeavesInOrder
  <2>1. errors = <<>> /\ frames = <<>>
    BY DEF GInv
  <2>2. lcurrent \in 2..Len(lexemes) /\ Built(WordsRead, lcurrent, errors # <<>>, frames, ret)
    BY <2>1 DEF GInv
  <2>3. (errors # <<>>) = FALSE
    BY <2>1
  <2>4. Built(WordsRead, lcurrent, FALSE, <<>>, ret)
    BY <2>1, <2>2, <2>3, Zenon
  <2>5. IsList(lexemes)
    BY DEF GInv, WInv, TInv, IInv, EndLast
  <2>6. PICK w, Q : Walk(ret) = Visit(<<>>, w, Q) /\ w = WordsRead[lcurrent - 1]
    BY <2>2, <2>4, <2>5, TreeBuilt
  <2> QED
    BY <2>6 DEF Visit
<1> QED
  BY <1>1, TreesKept, PTL

(* For every text: the parser's tree ends, each of its nodes has the       *)
(* children that those who read it take it to have, and it has a           *)
(* ParseError in it just when an error was reported.                       *)
THEOREM TreeAlwaysWellMade == Spec => []TreeWellMade
<1>1. GInv => TreeWellMade
  <2> SUFFICES ASSUME GInv, frames = <<>>, ret # NoTree
               PROVE  LET w == Walk(ret) IN
                      /\ w.todo = <<>>
                      /\ \A n \in w.nodes : Len(n.kids) = Children(n.t)
                      /\ (\E n \in w.nodes : n.t = "ParseError") <=> errors # <<>>
    BY DEF TreeWellMade
  <2>1. stage # "lexing"
    BY DEF GInv
  <2>2. lcurrent \in 2..Len(lexemes) /\ Built(WordsRead, lcurrent, errors # <<>>, frames, ret)
    BY <2>1 DEF GInv
  <2>3. PICK q \in BOOLEAN : q = (errors # <<>>)
    OBVIOUS
  <2>4. Built(WordsRead, lcurrent, q, <<>>, ret)
    BY <2>2, <2>3, Zenon
  <2>5. IsList(lexemes)
    BY DEF GInv, WInv, TInv, IInv, EndLast
  <2>6. PICK w, Q : /\ Walk(ret) = Visit(<<>>, w, Q)
                    /\ \A x \in Q : Len(x.kids) = Children(x.t)
                    /\ q <=> \E x \in Q : x.t = "ParseError"
    BY <2>2, <2>4, <2>5, TreeBuilt
  <2>7. Walk(ret).todo = <<>> /\ Walk(ret).nodes = Q
    BY <2>6 DEF Visit
  <2> QED
    BY <2>3, <2>6, <2>7, Zenon
<1> QED
  BY <1>1, TreesKept, PTL

-----------------------------------------------------------------------------
(* Chains of binary operators.                                             *)

(* A natural number that is least.                                         *)
LEMMA Least ==
  ASSUME NEW T \in SUBSET Nat, T # {}
  PROVE  \E x \in T : \A y \in T : x <= y
<1> DEFINE R == OpToRel(<, Nat)
<1>1. IsWellFoundedOn(R, Nat)
  BY NatLessThanWellFounded
<1>2. \A x, y \in Nat : y < x => <<y, x>> \in R
  BY DEF OpToRel
<1> HIDE DEF R
<1>3. PICK x \in T : \A y \in T : ~ (<<y, x>> \in R)
  BY <1>1, WFMin
<1>4. \A y \in T : x <= y
  <2> TAKE y \in T
  <2>1. x \in Nat /\ y \in Nat /\ ~(y < x)
    BY <1>2, <1>3
  <2> QED
    BY <2>1
<1> QED
  BY <1>4

(* What a chain is, N being the number of lexemes.                         *)
Chain(N) ==
  /\ N \in Nat /\ N = Len(lexemes) /\ N > 2 /\ N % 2 = 1
  /\ \A i \in 2..(N - 1) :
       /\ i % 2 = 0 => lexemes[i].t = "Identifier"
       /\ i % 2 = 1 => lexemes[i].t \in DOMAIN Infix
  /\ lexemes[N].t = "End"

LEMMA ChainIs ==
  ASSUME IsList(lexemes), IsChain, lexemes[Len(lexemes)].t = "End"
  PROVE  \E N : Chain(N)
<1>1. PICK N \in Nat : N = Len(lexemes)
  BY DEF IsList
<1>2. \A i \in 2..(N - 1) : i % 2 = 0 \/ i % 2 = 1
  OBVIOUS
<1>3. Chain(N)
  BY <1>1, <1>2 DEF Chain, IsChain
<1> QED
  BY <1>3

LEMMA InfixLevels ==
  \A t \in DOMAIN Infix : Level(t) \in 2..12 /\ Infix[t] # "Unexpected" /\ Infix[t] # "NoTree"
<1>1. \A t \in DOMAIN Infix :
        t \in {"Plus", "Minus", "Mul", "Div", "Mod", "Append", "Cmp", "Eq", "Neq", "Gt", "Lt",
          "Geq", "Leq", "And", "Or", "In", "Assign", "AddAssign", "SubAssign", "MulAssign",
          "DivAssign", "ModAssign", "AppendAssign", "Insert", "Comma", "Colon", "Semicolon", "Newline", "Else"}
  BY DEF Infix
<1>2. \A t \in DOMAIN Infix : Level(t) \in 2..12
  BY <1>1 DEF Level
<1>3. \A t \in DOMAIN Infix : Infix[t] # "Unexpected" /\ Infix[t] # "NoTree"
  BY DEF Infix
<1> QED
  BY <1>2, <1>3

OperatorAt(N, i) == i \in 2..(N - 1) /\ i % 2 = 1

LEMMA OperatorLevel ==
  ASSUME NEW N, Chain(N), NEW i, OperatorAt(N, i)
  PROVE  lexemes[i].t \in DOMAIN Infix /\ Level(lexemes[i].t) \in 2..12 /\ i \in Nat
<1>1. N \in Nat /\ i \in 2..(N - 1) /\ i % 2 = 1
  BY DEF Chain, OperatorAt
<1>2. lexemes[i].t \in DOMAIN Infix
  BY <1>1 DEF Chain
<1> QED
  BY <1>1, <1>2, InfixLevels

LEMMA OperatorsAre ==
  ASSUME NEW N, Chain(N), NEW first \in 2..(N - 1), NEW last \in 2..(N - 1)
  PROVE  \A i : i \in Operators(first, last) <=> OperatorAt(N, i) /\ first <= i /\ i <= last
<1>1. N \in Nat
  BY DEF Chain
<1> QED
  BY <1>1 DEF Operators, OperatorAt

(* Every span of a chain is divided somewhere, at one place.               *)
LEMMA DividedSomewhere ==
  ASSUME NEW N, Chain(N), NEW first \in 2..(N - 1), NEW last \in 2..(N - 1), first < last
  PROVE  \E i \in 2..(N - 1) : Divides(first, last, i)
<1>1. N \in Nat /\ first \in Nat /\ last \in Nat
  BY DEF Chain
<1>2. PICK O : O = Operators(first, last)
  OBVIOUS
<1>3. \A i \in O : OperatorAt(N, i) /\ i \in 2..(N - 1) /\ i \in Nat /\ i <= N /\ Level(lexemes[i].t) \in 2..12
  <2>1. \A i \in O : OperatorAt(N, i)
    BY <1>2, OperatorsAre
  <2>2. \A i \in O : Level(lexemes[i].t) \in 2..12
    BY <2>1, OperatorLevel
  <2>3. \A i \in O : i \in 2..(N - 1) /\ i \in Nat /\ i <= N
    BY <1>1, <2>1 DEF OperatorAt
  <2> QED
    BY <2>1, <2>2, <2>3
<1>4. O # {}
  <2>1. CASE first % 2 = 1
    <3>1. first \in O
      BY <1>1, <1>2, <2>1 DEF Operators
    <3> QED
      BY <3>1
  <2>2. CASE first % 2 = 0
    <3>1. (first + 1) % 2 = 1 /\ first + 1 \in first..last
      BY <1>1, <2>2
    <3>2. first + 1 \in O
      BY <1>2, <3>1 DEF Operators
    <3> QED
      BY <3>2
  <2> QED
    BY <1>1, <2>1, <2>2
<1>5. PICK v \in Nat : /\ \E i \in O : Level(lexemes[i].t) = v
                       /\ \A i \in O : v <= Level(lexemes[i].t)
  <2> DEFINE T == {Level(lexemes[i].t) : i \in O}
  <2>1. T \in SUBSET Nat /\ T # {}
    BY <1>3, <1>4
  <2>2. PICK v \in T : \A y \in T : v <= y
    BY <2>1, Least
  <2> QED
    BY <2>1, <2>2
<1>6. PICK P : P = {i \in O : Level(lexemes[i].t) = v}
  OBVIOUS
<1>7. P # {} /\ \A i \in P : i \in O /\ i \in Nat /\ N - i \in Nat
  BY <1>1, <1>3, <1>5, <1>6
<1>8. ASSUME NEW i \in P,
             IF v \in {5, 6} THEN \A j \in P : i <= j ELSE \A j \in P : i >= j
      PROVE  Divides(first, last, i)
  <2>1. i \in O /\ Level(lexemes[i].t) = v
    BY <1>6
  <2>2. \A j \in O : v <= Level(lexemes[j].t) /\ (v = Level(lexemes[j].t) => j \in P)
    BY <1>5, <1>6
  <2>3. GroupsRight(lexemes[i].t) <=> v \in {5, 6}
    BY <2>1 DEF GroupsRight
  <2>4. \A j \in O : v = Level(lexemes[j].t) => IF GroupsRight(lexemes[i].t) THEN i <= j ELSE i >= j
    BY <1>8, <2>2, <2>3
  <2> QED
    BY <1>2, <2>1, <2>2, <2>4 DEF Divides
<1>9. CASE v \in {5, 6}
  <2>1. P \in SUBSET Nat
    BY <1>7
  <2>2. PICK i \in P : \A j \in P : i <= j
    BY <1>7, <2>1, Least
  <2>3. Divides(first, last, i)
    BY <1>8, <1>9, <2>2
  <2> QED
    BY <1>3, <1>7, <2>2, <2>3
<1>10. CASE v \notin {5, 6}
  <2> DEFINE T == {N - i : i \in P}
  <2>1. T \in SUBSET Nat /\ T # {}
    BY <1>7
  <2>2. PICK u \in T : \A y \in T : u <= y
    BY <2>1, Least
  <2>3. PICK i \in P : u = N - i
    BY <2>2
  <2>4. \A j \in P : i >= j
    <3> TAKE j \in P
    <3>1. N - i <= N - j
      BY <2>2, <2>3
    <3> QED
      BY <1>1, <1>7, <3>1
  <2>5. Divides(first, last, i)
    BY <1>8, <1>10, <2>4
  <2> QED
    BY <1>3, <1>7, <2>3, <2>5
<1> QED
  BY <1>9, <1>10

LEMMA DividedOnce ==
  ASSUME NEW N, Chain(N), NEW first \in 2..(N - 1), NEW last \in 2..(N - 1),
         NEW i, Divides(first, last, i), NEW j, Divides(first, last, j)
  PROVE  i = j
<1>1. i \in Operators(first, last) /\ j \in Operators(first, last)
  BY DEF Divides
<1>2. OperatorAt(N, i) /\ OperatorAt(N, j)
  BY <1>1, OperatorsAre
<1>3. Level(lexemes[i].t) \in 2..12 /\ Level(lexemes[j].t) \in 2..12 /\ i \in Nat /\ j \in Nat
  BY <1>2, OperatorLevel
<1>4. Level(lexemes[i].t) = Level(lexemes[j].t)
  BY <1>1, <1>3 DEF Divides
<1>5. GroupsRight(lexemes[i].t) <=> GroupsRight(lexemes[j].t)
  BY <1>4 DEF GroupsRight
<1>6. IF GroupsRight(lexemes[i].t) THEN i <= j ELSE i >= j
  BY <1>1, <1>4 DEF Divides
<1>7. IF GroupsRight(lexemes[j].t) THEN j <= i ELSE j >= i
  BY <1>1, <1>4 DEF Divides
<1> QED
  BY <1>3, <1>5, <1>6, <1>7

-----------------------------------------------------------------------------
(* The trees of chains exist.                                              *)

Spans(N) == (2..(N - 1)) \X (2..(N - 1))
Half(N, s) == CHOOSE i \in 2..(N - 1) : Divides(s[1], s[2], i)
Leaf(i) == Node("Identifier", lexemes[i].x, 0, <<>>)
Fork(i, l, r) == Node(Infix[lexemes[i].t], "", 0, <<l, r>>)

Parted(N, g, s) ==
  IF s[1] >= s[2] THEN Leaf(s[1])
  ELSE Fork(Half(N, s), g[<<s[1], Half(N, s) - 1>>], g[<<Half(N, s) + 1, s[2]>>])

LEMMA SpanIs ==
  ASSUME NEW N, NEW first \in 2..(N - 1), NEW last \in 2..(N - 1), NEW s, s = <<first, last>>
  PROVE  s \in Spans(N) /\ s[1] = first /\ s[2] = last
BY DEF Spans

LEMMA SpanHas ==
  ASSUME NEW N, Chain(N), NEW s \in Spans(N)
  PROVE  /\ s[1] \in 2..(N - 1) /\ s[2] \in 2..(N - 1) /\ s = <<s[1], s[2]>>
         /\ N \in Nat /\ s[1] \in Nat /\ s[2] \in Nat
<1>1. s[1] \in 2..(N - 1) /\ s[2] \in 2..(N - 1) /\ s = <<s[1], s[2]>>
  BY DEF Spans
<1>2. N \in Nat
  BY DEF Chain
<1>3. \A i \in 2..(N - 1) : i \in Nat
  BY <1>2
<1> QED
  BY <1>1, <1>2, <1>3

LEMMA HalfIs ==
  ASSUME NEW N, Chain(N), NEW s \in Spans(N), s[1] < s[2]
  PROVE  \E i \in Nat : /\ i = Half(N, s) /\ Divides(s[1], s[2], i) /\ OperatorAt(N, i)
                        /\ s[1] <= i /\ i <= s[2] /\ i - 1 \in 2..(N - 1) /\ i + 1 \in 2..(N - 1)
<1>1. PICK first, last : first = s[1] /\ last = s[2]
  OBVIOUS
<1>2. /\ N \in Nat /\ first \in 2..(N - 1) /\ last \in 2..(N - 1) /\ first \in Nat /\ last \in Nat
  BY <1>1, SpanHas
<1>3. first < last
  BY <1>1
<1>4. \E i \in 2..(N - 1) : Divides(first, last, i)
  BY <1>2, <1>3, DividedSomewhere
<1>5. PICK i : i = CHOOSE j \in 2..(N - 1) : Divides(first, last, j)
  OBVIOUS
<1>6. i \in 2..(N - 1) /\ Divides(first, last, i)
  BY <1>4, <1>5
<1>7. i = Half(N, s)
  BY <1>1, <1>5 DEF Half
<1>8. i \in Operators(first, last)
  BY <1>6 DEF Divides
<1>9. OperatorAt(N, i) /\ first <= i /\ i <= last
  BY <1>2, <1>8, OperatorsAre
<1>10. N % 2 = 1 /\ i % 2 = 1 /\ i \in Nat
  BY <1>2, <1>6, <1>9 DEF Chain, OperatorAt
<1>11. i - 1 \in 2..(N - 1) /\ i + 1 \in 2..(N - 1)
  BY <1>2, <1>6, <1>10
<1> QED
  BY <1>1, <1>6, <1>7, <1>9, <1>10, <1>11

(* The parts of a span are shorter.                                        *)
LEMMA PartedSame ==
  ASSUME NEW N, Chain(N), NEW g, NEW h, NEW s \in Spans(N), NEW m \in Nat, s[2] - s[1] <= m,
         \A r \in Spans(N) : r[2] - r[1] < m => h[r] = g[r]
  PROVE  Parted(N, h, s) = Parted(N, g, s)
<1>1. CASE s[1] >= s[2]
  BY <1>1 DEF Parted
<1>2. CASE ~(s[1] >= s[2])
  <2>1. s[1] \in Nat /\ s[2] \in Nat /\ N \in Nat /\ s[1] \in 2..(N - 1) /\ s[2] \in 2..(N - 1)
    BY SpanHas
  <2>2. s[1] < s[2]
    BY <1>2, <2>1
  <2>3. PICK i \in Nat : /\ i = Half(N, s) /\ s[1] <= i /\ i <= s[2]
                         /\ i - 1 \in 2..(N - 1) /\ i + 1 \in 2..(N - 1)
    BY <2>2, HalfIs
  <2>4. PICK a : a = <<s[1], i - 1>>
    OBVIOUS
  <2>5. PICK b : b = <<i + 1, s[2]>>
    OBVIOUS
  <2>6. a \in Spans(N) /\ a[1] = s[1] /\ a[2] = i - 1 /\ b \in Spans(N) /\ b[1] = i + 1 /\ b[2] = s[2]
    BY <2>1, <2>3, <2>4, <2>5, SpanIs
  <2>7. a[2] - a[1] < m
    <3>1. PICK x \in Nat : x = s[1]
      BY <2>1
    <3>2. PICK y \in Nat : y = s[2]
      BY <2>1
    <3>3. y - x <= m /\ i <= y
      BY <2>3, <3>1, <3>2
    <3>4. (i - 1) - x < m
      BY <3>3
    <3> QED
      BY <2>6, <3>1, <3>4
  <2>8. b[2] - b[1] < m
    <3>1. PICK x \in Nat : x = s[1]
      BY <2>1
    <3>2. PICK y \in Nat : y = s[2]
      BY <2>1
    <3>3. y - x <= m /\ x <= i
      BY <2>3, <3>1, <3>2
    <3>4. y - (i + 1) < m
      BY <3>3
    <3> QED
      BY <2>6, <3>2, <3>4
  <2>9. h[a] = g[a] /\ h[b] = g[b]
    BY <2>6, <2>7, <2>8
  <2>10. \A f : Parted(N, f, s) = Fork(i, f[a], f[b])
    BY <1>2, <2>3, <2>4, <2>5 DEF Parted
  <2> QED
    BY <2>9, <2>10
<1> QED
  BY <1>1, <1>2

LEMMA DividedExists ==
  ASSUME NEW N, Chain(N)
  PROVE  \E g : g = [s \in Spans(N) |-> Parted(N, g, s)]
<1>1. N \in Nat
  BY DEF Chain
<1> DEFINE Good(g, m) == \A s \in Spans(N) : s[2] - s[1] < m => g[s] = Parted(N, g, s)
           E == {m \in Nat : \E g : Good(g, m)}
<1>2. 0 \in E
  <2>1. PICK g : g = [s \in Spans(N) |-> Leaf(s[1])]
    OBVIOUS
  <2>2. ASSUME NEW s \in Spans(N), s[2] - s[1] < 0 PROVE g[s] = Parted(N, g, s)
    <3>1. s[1] \in Nat /\ s[2] \in Nat
      BY SpanHas
    <3>2. s[1] >= s[2]
      BY <2>2, <3>1
    <3> QED
      BY <2>1, <3>2 DEF Parted
  <2>3. Good(g, 0)
    BY <2>2
  <2> HIDE DEF Good
  <2> QED
    BY <2>3
<1>3. ASSUME NEW m \in E PROVE m + 1 \in E
  <2>1. m \in Nat
    OBVIOUS
  <2>2. PICK g : Good(g, m)
    OBVIOUS
  <2>3. PICK h : h = [s \in Spans(N) |-> IF s[2] - s[1] < m THEN g[s] ELSE Parted(N, g, s)]
    OBVIOUS
  <2>4. \A r \in Spans(N) : r[2] - r[1] < m => h[r] = g[r]
    BY <2>3
  <2>5. ASSUME NEW s \in Spans(N), s[2] - s[1] < m + 1 PROVE h[s] = Parted(N, h, s)
    <3>1. h[s] = Parted(N, g, s)
      BY <2>2, <2>3
    <3>2. s[2] - s[1] <= m
      <4>1. s[1] \in Nat /\ s[2] \in Nat
        BY SpanHas
      <4> QED
        BY <2>1, <2>5, <4>1
    <3>3. Parted(N, h, s) = Parted(N, g, s)
      BY <2>1, <2>4, <3>2, PartedSame
    <3> QED
      BY <3>1, <3>3
  <2>6. Good(h, m + 1)
    BY <2>5
  <2> HIDE DEF Good
  <2> QED
    BY <2>1, <2>6
<1>4. E = Nat
  <2>1. E \in SUBSET Nat
    OBVIOUS
  <2> HIDE DEF E
  <2> QED
    BY <1>2, <1>3, <2>1, EveryNatural
<1>5. PICK v : Good(v, N)
  BY <1>1, <1>4
<1>6. PICK g : g = [s \in Spans(N) |-> v[s]]
  OBVIOUS
<1>7. ASSUME NEW s \in Spans(N) PROVE v[s] = Parted(N, g, s)
  <2>1. s[1] \in 2..(N - 1) /\ s[2] \in 2..(N - 1)
    BY SpanHas
  <2>2. s[2] - s[1] < N /\ s[2] - s[1] <= N
    BY <1>1, <2>1
  <2>3. v[s] = Parted(N, v, s)
    BY <1>5, <2>2
  <2>4. \A r \in Spans(N) : r[2] - r[1] < N => g[r] = v[r]
    BY <1>6
  <2>5. Parted(N, g, s) = Parted(N, v, s)
    BY <1>1, <2>2, <2>4, PartedSame
  <2> QED
    BY <2>3, <2>5
<1>8. g = [s \in Spans(N) |-> Parted(N, g, s)]
  BY <1>6, <1>7
<1> QED
  BY <1>8

LEMMA DividedIs ==
  ASSUME NEW N, Chain(N)
  PROVE  Divided = [s \in Spans(N) |-> Parted(N, Divided, s)]
<1>1. N = Len(lexemes)
  BY DEF Chain
<1> DEFINE A(g) == g = [s \in Spans(N) |-> Parted(N, g, s)]
           c == CHOOSE g : A(g)
<1>2. Divided = c
  BY <1>1 DEF Divided, Spans, Parted, Half, Leaf, Fork
<1>3. \E g : A(g)
  BY DividedExists
<1>4. A(c)
  BY <1>3
<1> HIDE DEF c
<1> QED
  BY <1>2, <1>4

LEMMA DividedLeaf ==
  ASSUME NEW N, Chain(N), NEW i \in 2..(N - 1)
  PROVE  Divided[<<i, i>>] = Leaf(i)
<1>1. PICK s : s = <<i, i>>
  OBVIOUS
<1>2. s \in Spans(N) /\ s[1] = i /\ s[2] = i
  BY <1>1, SpanIs
<1>3. PICK g : g = Divided
  OBVIOUS
<1>4. g[s] = Parted(N, g, s)
  BY <1>2, <1>3, DividedIs
<1>5. s[1] >= s[2]
  <2>1. i \in Nat
    BY DEF Chain
  <2> QED
    BY <1>2, <2>1
<1> QED
  BY <1>1, <1>2, <1>3, <1>4, <1>5 DEF Parted

LEMMA DividedFork ==
  ASSUME NEW N, Chain(N), NEW first \in 2..(N - 1), NEW last \in 2..(N - 1), first < last,
         NEW i, Divides(first, last, i)
  PROVE  Divided[<<first, last>>] = Fork(i, Divided[<<first, i - 1>>], Divided[<<i + 1, last>>])
<1>1. PICK s : s = <<first, last>>
  OBVIOUS
<1>2. s \in Spans(N) /\ s[1] = first /\ s[2] = last
  BY <1>1, SpanIs
<1>3. PICK g : g = Divided
  OBVIOUS
<1>4. g[s] = Parted(N, g, s)
  BY <1>2, <1>3, DividedIs
<1>5. ~(s[1] >= s[2]) /\ s[1] < s[2]
  <2>1. first \in Nat /\ last \in Nat
    BY DEF Chain
  <2> QED
    BY <1>2, <2>1
<1>6. PICK j \in Nat : j = Half(N, s) /\ Divides(first, last, j)
  BY <1>2, <1>5, HalfIs
<1>7. i = j
  BY <1>6, DividedOnce
<1>8. g[s] = Fork(i, g[<<first, i - 1>>], g[<<i + 1, last>>])
  BY <1>2, <1>4, <1>5, <1>6, <1>7 DEF Parted
<1> QED
  BY <1>1, <1>3, <1>8

-----------------------------------------------------------------------------
(* What the calls under way have read of a chain.                          *)

(* A call of expression_(b), begun behind lexeme p: before what it calls   *)
(* returns, or in its loop.                                                *)
CallAt(p, b, k) == [p |-> p, b |-> b, k |-> k]

IsCall(N, a) ==
  a.p \in 1..(N - 2) /\ a.p % 2 = 1 /\ a.b \in 17..192 /\ a.k \in {"call", "loop"}

(* It has made n of all lexemes up to operator j: those are operators that *)
(* bind tighter than b and end before j.                                   *)
HasRead(N, p, b, j, n) ==
  /\ j \in Nat /\ j % 2 = 1 /\ p < j /\ j <= N
  /\ n = Divided[<<p + 1, j - 1>>]
  /\ \A q : OperatorAt(N, q) /\ p < q /\ q < j =>
       Bindp(lexemes[q].t) > b /\ InfixBindp(lexemes[q].t) >= Bindp(lexemes[j].t)

(* It goes on behind operator j, the operand before which is n.            *)
GoesOn(N, c, f, a, j, n) ==
  /\ OperatorAt(N, j) /\ HasRead(N, c.p, c.b, j, n) /\ c.b < Bindp(lexemes[j].t)
  /\ f = Wait("node", Infix[lexemes[j].t], <<n>>)
  /\ a = CallAt(j, InfixBindp(lexemes[j].t), "call")

(* c makes the call or goes on as the call a by the frame f.               *)
Opens(N, c, f, a) ==
  \/ c.k = "call" /\ f = Loop(c.b) /\ a = CallAt(c.p, c.b, "loop")
  \/ c.k = "loop" /\ \E j, n : GoesOn(N, c, f, a, j, n)

(* d[i] is what the i calls at the bottom of fs are in.                    *)
UnderwayBy(N, d, fs, a) ==
  /\ d[0] = CallAt(1, DefBlockBindp, "call") /\ d[Len(fs)] = a
  /\ \A i \in 0..Len(fs) : IsCall(N, d[i])
  /\ \A i \in 1..Len(fs) : Opens(N, d[i - 1], fs[Len(fs) + 1 - i], d[i])

Underway(N, fs, a) == \E d : UnderwayBy(N, d, fs, a)

LEMMA NoneUnderway ==
  ASSUME NEW N, Chain(N)
  PROVE  Underway(N, <<>>, CallAt(1, DefBlockBindp, "call"))
<1>1. PICK a : a = CallAt(1, DefBlockBindp, "call")
  OBVIOUS
<1>2. IsCall(N, a)
  <2>1. a.p = 1 /\ a.b = 17 /\ a.k = "call"
    BY <1>1 DEF CallAt, DefBlockBindp
  <2>2. 1 \in 1..(N - 2) /\ 1 % 2 = 1 /\ 17 \in 17..192
    BY DEF Chain
  <2> QED
    BY <2>1, <2>2 DEF IsCall
<1>3. PICK d : d = [i \in {0} |-> a]
  OBVIOUS
<1>4. d[0] = a /\ Len(<<>>) = 0 /\ 0..0 = {0} /\ 1..0 = {}
  BY <1>3
<1>5. UnderwayBy(N, d, <<>>, a)
  BY <1>1, <1>2, <1>4 DEF UnderwayBy
<1> QED
  BY <1>1, <1>5 DEF Underway

LEMMA UnderwayNone ==
  ASSUME NEW N, NEW a, Underway(N, <<>>, a)
  PROVE  a = CallAt(1, DefBlockBindp, "call")
BY DEF Underway, UnderwayBy

LEMMA UnderwayCall ==
  ASSUME NEW N, NEW s, IsList(s), NEW a, Underway(N, s, a)
  PROVE  IsCall(N, a)
<1>1. PICK n \in Nat : n = Len(s)
  BY DEF IsList
<1>2. n \in 0..n
  OBVIOUS
<1> QED
  BY <1>1, <1>2 DEF Underway, UnderwayBy

LEMMA CallUnderway ==
  ASSUME NEW N, NEW s, IsList(s), NEW b, Underway(N, s, b), NEW f, NEW a, Opens(N, b, f, a), IsCall(N, a)
  PROVE  Underway(N, <<f>> \o s, a)
<1>1. PICK n \in Nat : n = Len(s)
  BY DEF IsList
<1>2. PICK d : UnderwayBy(N, d, s, b)
  BY DEF Underway
<1>3. PICK r : r = <<f>> \o s
  OBVIOUS
<1>4. PICK e : Longer(e, d, a, n, f, s)
  BY <1>1, OneMoreCall
<1>5. Len(r) = n + 1
  BY <1>1, <1>3, OneMoreCall
<1>6. d[n] = b
  BY <1>1, <1>2 DEF UnderwayBy
<1>7. \A i \in 1..(n + 1) : Opens(N, e[i - 1], r[n + 2 - i], e[i])
  BY <1>1, <1>2, <1>3, <1>4, <1>6 DEF UnderwayBy, Longer
<1>8. \A i \in 0..(n + 1) : IsCall(N, e[i])
  <2>1. \A i \in 0..(n + 1) : i = n + 1 \/ i \in 0..n
    OBVIOUS
  <2> QED
    BY <1>1, <1>2, <1>4, <2>1 DEF UnderwayBy, Longer
<1>9. UnderwayBy(N, e, r, a)
  <2>1. \A i \in 1..(n + 1) : (n + 1) + 1 - i = n + 2 - i
    OBVIOUS
  <2> QED
    BY <1>2, <1>4, <1>5, <1>7, <1>8, <2>1 DEF UnderwayBy, Longer
<1> QED
  BY <1>3, <1>9 DEF Underway

LEMMA ReturnUnderway ==
  ASSUME NEW N, NEW s, IsList(s), s # <<>>, NEW a, Underway(N, s, a)
  PROVE  \E b : Underway(N, Tail(s), b) /\ IsCall(N, b) /\ Opens(N, b, s[1], a)
<1>1. PICK n \in Nat : /\ Len(s) = n + 1 /\ Len(Tail(s)) = n
                       /\ \A i \in 1..n : Tail(s)[n + 1 - i] = s[n + 2 - i]
                       /\ s[n + 2 - (n + 1)] = s[1]
  BY OneCallLess
<1>2. PICK d : UnderwayBy(N, d, s, a)
  BY DEF Underway
<1>3. \A i \in 1..(n + 1) : (n + 1) + 1 - i = n + 2 - i
  OBVIOUS
<1>4. /\ d[0] = CallAt(1, DefBlockBindp, "call") /\ d[n + 1] = a
      /\ \A i \in 0..(n + 1) : IsCall(N, d[i])
      /\ \A i \in 1..(n + 1) : Opens(N, d[i - 1], s[n + 2 - i], d[i])
  BY <1>1, <1>2, <1>3 DEF UnderwayBy
<1>5. UnderwayBy(N, d, Tail(s), d[n])
  <2>1. (\A i \in 0..n : i \in 0..(n + 1)) /\ \A i \in 1..n : i \in 1..(n + 1)
    OBVIOUS
  <2> QED
    BY <1>1, <1>4, <2>1 DEF UnderwayBy
<1>6. Opens(N, d[n], s[1], a)
  <2>1. n + 1 \in 1..(n + 1) /\ (n + 1) - 1 = n
    OBVIOUS
  <2> QED
    BY <1>1, <1>4, <2>1
<1>7. IsCall(N, d[n])
  <2>1. n \in 0..(n + 1)
    OBVIOUS
  <2> QED
    BY <1>4, <2>1
<1> QED
  BY <1>5, <1>6, <1>7 DEF Underway

-----------------------------------------------------------------------------
(* Binding powers of operators.                                            *)

LEMMA OperatorBindp ==
  ASSUME NEW N, Chain(N), NEW i, OperatorAt(N, i)
  PROVE  /\ Bindp(lexemes[i].t) \in 32..192 /\ InfixBindp(lexemes[i].t) \in 17..192
         /\ InfixBindp(lexemes[i].t) <= Bindp(lexemes[i].t)
         /\ Level(lexemes[i].t) < 13 /\ lexemes[i].t \in DOMAIN Infix
         /\ Infix[lexemes[i].t] # "Unexpected" /\ Infix[lexemes[i].t] # "NoTree"
         /\ i \in 1..(N - 2) /\ i % 2 = 1 /\ i \in Nat
<1>1. PICK v : v = Level(lexemes[i].t)
  OBVIOUS
<1>2. v \in 2..12 /\ i \in Nat /\ lexemes[i].t \in DOMAIN Infix
  BY <1>1, OperatorLevel
<1>3. Bindp(lexemes[i].t) = 16 * v
  BY <1>1 DEF Bindp
<1>4. InfixBindp(lexemes[i].t) = IF v \in {5, 6} THEN 16 * v - 1 ELSE 16 * v
  BY <1>1 DEF InfixBindp, Bindp
<1>5. 16 * v \in 32..192
  BY <1>2
<1>6. i \in 1..(N - 2) /\ i % 2 = 1
  <2>1. N \in Nat /\ N % 2 = 1
    BY DEF Chain
  <2>2. i \in 2..(N - 1) /\ i % 2 = 1
    BY DEF OperatorAt
  <2>3. i # N - 1
    BY <2>1, <2>2
  <2> QED
    BY <2>1, <2>2, <2>3
<1>7. v < 13
  BY <1>2
<1>8. InfixBindp(lexemes[i].t) \in 17..192 /\ InfixBindp(lexemes[i].t) <= 16 * v
  <2>1. CASE v \in {5, 6}
    BY <1>2, <1>4, <2>1
  <2>2. CASE v \notin {5, 6}
    BY <1>2, <1>4, <1>5, <2>2
  <2> QED
    BY <2>1, <2>2
<1>9. Bindp(lexemes[i].t) \in 32..192 /\ InfixBindp(lexemes[i].t) <= Bindp(lexemes[i].t)
  BY <1>3, <1>5, <1>8, Zenon
<1>10. Infix[lexemes[i].t] # "Unexpected" /\ Infix[lexemes[i].t] # "NoTree"
  BY <1>2, InfixLevels
<1>11. Level(lexemes[i].t) < 13
  BY <1>1, <1>7, Zenon
<1> QED
  BY <1>2, <1>6, <1>8, <1>9, <1>10, <1>11, Zenon

(* What binding powers say of classes: of two operators in a row.          *)
LEMMA BindpLevels ==
  ASSUME NEW N, Chain(N), NEW i, OperatorAt(N, i), NEW j, OperatorAt(N, j)
  PROVE  /\ InfixBindp(lexemes[i].t) >= Bindp(lexemes[j].t) =>
              /\ Level(lexemes[j].t) <= Level(lexemes[i].t)
              /\ Level(lexemes[j].t) = Level(lexemes[i].t) => ~GroupsRight(lexemes[j].t)
         /\ Bindp(lexemes[j].t) > InfixBindp(lexemes[i].t) =>
              /\ Level(lexemes[i].t) <= Level(lexemes[j].t)
              /\ Level(lexemes[i].t) = Level(lexemes[j].t) => GroupsRight(lexemes[i].t)
              /\ Bindp(lexemes[i].t) <= Bindp(lexemes[j].t)
<1>1. PICK v, w : v = Level(lexemes[i].t) /\ w = Level(lexemes[j].t)
  OBVIOUS
<1>2. v \in 2..12 /\ w \in 2..12
  BY <1>1, OperatorLevel
<1>3. Bindp(lexemes[i].t) = 16 * v /\ Bindp(lexemes[j].t) = 16 * w
  BY <1>1 DEF Bindp
<1>4. InfixBindp(lexemes[i].t) = IF v \in {5, 6} THEN 16 * v - 1 ELSE 16 * v
  BY <1>1 DEF InfixBindp, Bindp
<1>5. (GroupsRight(lexemes[i].t) <=> v \in {5, 6}) /\ (GroupsRight(lexemes[j].t) <=> w \in {5, 6})
  BY <1>1 DEF GroupsRight
<1>6. PICK u \in Int : u = IF v \in {5, 6} THEN 16 * v - 1 ELSE 16 * v
  BY <1>2
<1>7. u >= 16 * w => w <= v /\ (w = v => w \notin {5, 6})
  BY <1>2, <1>6
<1>8. 16 * w > u => v <= w /\ (v = w => v \in {5, 6}) /\ 16 * v <= 16 * w
  BY <1>2, <1>6
<1> QED
  BY <1>1, <1>3, <1>4, <1>5, <1>6, <1>7, <1>8

(* What expression_ has read when it has made a node is divided there.     *)
LEMMA NodeReads ==
  ASSUME NEW N, Chain(N), NEW p, p \in 1..(N - 2), p % 2 = 1, NEW b, b \in 17..192,
         NEW j, OperatorAt(N, j), NEW m, HasRead(N, p, b, j, m), b < Bindp(lexemes[j].t),
         NEW l, NEW n, HasRead(N, j, InfixBindp(lexemes[j].t), l, n),
         InfixBindp(lexemes[j].t) >= Bindp(lexemes[l].t)
  PROVE  HasRead(N, p, b, l, Node(Infix[lexemes[j].t], "", 0, <<m, n>>))
<1>1. N \in Nat /\ p \in Nat /\ j \in Nat /\ l \in Nat /\ b \in Nat /\ N % 2 = 1
  BY DEF Chain, HasRead
<1>2. p % 2 = 1 /\ j % 2 = 1 /\ l % 2 = 1 /\ p < j /\ j < l /\ l <= N /\ p >= 1
  BY <1>1 DEF HasRead, OperatorAt
<1>3. p + 1 \in 2..(N - 1) /\ l - 1 \in 2..(N - 1) /\ p + 1 < l - 1 /\ p + 1 <= j /\ j <= l - 1
  BY <1>1, <1>2
<1>4. \A q : OperatorAt(N, q) =>
        q \in Nat /\ (q < j \/ q = j \/ q > j) /\ (p + 1 <= q => p < q) /\ (q <= l - 1 => q < l)
  BY <1>1 DEF OperatorAt
<1>5. ASSUME NEW q, OperatorAt(N, q), p < q, q < j
      PROVE  /\ Level(lexemes[j].t) <= Level(lexemes[q].t)
             /\ Level(lexemes[j].t) = Level(lexemes[q].t) => ~GroupsRight(lexemes[j].t)
             /\ Bindp(lexemes[q].t) > b /\ InfixBindp(lexemes[q].t) >= Bindp(lexemes[l].t)
  <2>1. Bindp(lexemes[q].t) > b /\ InfixBindp(lexemes[q].t) >= Bindp(lexemes[j].t)
    BY <1>5 DEF HasRead
  <2>2. InfixBindp(lexemes[q].t) >= Bindp(lexemes[l].t)
    <3>1. PICK x, y, z, w : /\ x = InfixBindp(lexemes[q].t) /\ y = Bindp(lexemes[j].t)
                            /\ z = InfixBindp(lexemes[j].t) /\ w = Bindp(lexemes[l].t)
      OBVIOUS
    <3>2. x \in Int /\ y \in Int /\ z \in Int /\ z <= y /\ x >= y /\ z >= w
      BY <1>5, <2>1, <3>1, OperatorBindp
    <3>3. w \in Int
      <4>1. Level(lexemes[l].t) \in Int
        BY DEF Level
      <4> QED
        BY <3>1, <4>1 DEF Bindp
    <3>4. x >= w
      BY <3>2, <3>3
    <3> QED
      BY <3>1, <3>4
  <2> QED
    BY <1>5, <2>1, <2>2, BindpLevels
<1>6. ASSUME NEW q, OperatorAt(N, q), j < q, q < l
      PROVE  /\ Level(lexemes[j].t) <= Level(lexemes[q].t)
             /\ Level(lexemes[j].t) = Level(lexemes[q].t) => GroupsRight(lexemes[j].t)
             /\ Bindp(lexemes[q].t) > b /\ InfixBindp(lexemes[q].t) >= Bindp(lexemes[l].t)
  <2>1. Bindp(lexemes[q].t) > InfixBindp(lexemes[j].t) /\ InfixBindp(lexemes[q].t) >= Bindp(lexemes[l].t)
    BY <1>6 DEF HasRead
  <2>2. /\ Level(lexemes[j].t) <= Level(lexemes[q].t)
        /\ Level(lexemes[j].t) = Level(lexemes[q].t) => GroupsRight(lexemes[j].t)
        /\ Bindp(lexemes[j].t) <= Bindp(lexemes[q].t)
    BY <1>6, <2>1, BindpLevels
  <2>3. Bindp(lexemes[q].t) > b
    <3>1. PICK x, y : x = Bindp(lexemes[q].t) /\ y = Bindp(lexemes[j].t)
      OBVIOUS
    <3>2. x \in Int /\ y \in Int /\ y <= x /\ b < y
      BY <1>6, <2>2, <3>1, OperatorBindp
    <3>3. x > b
      BY <1>1, <3>2
    <3> QED
      BY <3>1, <3>3
  <2> QED
    BY <2>1, <2>2, <2>3
<1>7. Divides(p + 1, l - 1, j)
  <2>1. PICK first \in 2..(N - 1) : first = p + 1
    BY <1>3
  <2>2. PICK last \in 2..(N - 1) : last = l - 1
    BY <1>3
  <2>3. j \in Operators(first, last)
    BY <1>3, <2>1, <2>2, OperatorsAre
  <2>4. ASSUME NEW q \in Operators(first, last)
        PROVE  /\ Level(lexemes[j].t) <= Level(lexemes[q].t)
               /\ Level(lexemes[j].t) = Level(lexemes[q].t) =>
                    IF GroupsRight(lexemes[j].t) THEN j <= q ELSE j >= q
    <3>1. OperatorAt(N, q) /\ first <= q /\ q <= last
      BY OperatorsAre
    <3>2. q \in Nat /\ p < q /\ q < l /\ (q < j \/ q = j \/ q > j)
      BY <1>4, <2>1, <2>2, <3>1
    <3>3. CASE q < j
      <4>1. j >= q
        BY <1>1, <3>2, <3>3
      <4> QED
        BY <1>5, <3>1, <3>2, <3>3, <4>1
    <3>4. CASE q = j
      <4>1. Level(lexemes[j].t) \in 2..12
        BY OperatorLevel
      <4> QED
        BY <1>1, <3>4, <4>1
    <3>5. CASE q > j
      <4>1. j <= q /\ j < q
        BY <1>1, <3>2, <3>5
      <4> QED
        BY <1>6, <3>1, <3>2, <4>1
    <3> QED
      BY <3>2, <3>3, <3>4, <3>5
  <2>5. Divides(first, last, j)
    BY <2>3, <2>4 DEF Divides
  <2> QED
    BY <2>1, <2>2, <2>5
<1>8. PICK r : r = Node(Infix[lexemes[j].t], "", 0, <<m, n>>)
  OBVIOUS
<1>9. r = Divided[<<p + 1, l - 1>>]
  <2>1. PICK first \in 2..(N - 1) : first = p + 1
    BY <1>3
  <2>2. PICK last \in 2..(N - 1) : last = l - 1
    BY <1>3
  <2>3. first < last /\ Divides(first, last, j)
    BY <1>3, <1>7, <2>1, <2>2
  <2>4. Divided[<<first, last>>] = Fork(j, Divided[<<first, j - 1>>], Divided[<<j + 1, last>>])
    BY <2>3, DividedFork
  <2>5. m = Divided[<<first, j - 1>>] /\ n = Divided[<<j + 1, last>>]
    BY <2>1, <2>2 DEF HasRead
  <2> QED
    BY <1>8, <2>1, <2>2, <2>4, <2>5 DEF Fork
<1>10. ASSUME NEW q, OperatorAt(N, q), p < q, q < l
       PROVE  Bindp(lexemes[q].t) > b /\ InfixBindp(lexemes[q].t) >= Bindp(lexemes[l].t)
  <2>1. q \in Nat /\ (q < j \/ q = j \/ q > j)
    BY <1>4, <1>10
  <2>2. CASE q < j
    BY <1>5, <1>10, <2>2
  <2>3. CASE q = j
    <3>1. PICK y \in Int : y = Bindp(lexemes[j].t)
      BY OperatorBindp
    <3>2. y > b
      BY <1>1, <3>1
    <3> QED
      BY <2>3, <3>1, <3>2
  <2>4. CASE q > j
    <3>1. j < q
      BY <1>1, <2>1, <2>4
    <3> QED
      BY <1>6, <1>10, <3>1
  <2> QED
    BY <2>1, <2>2, <2>3, <2>4
<1>11. p < l
  BY <1>1, <1>2
<1>12. HasRead(N, p, b, l, r)
  BY <1>1, <1>2, <1>9, <1>10, <1>11 DEF HasRead
<1> QED
  BY <1>8, <1>12

-----------------------------------------------------------------------------
(* The parser on chains.                                                   *)

(* expression_ is about to read its first operand, nud_ has it, expression_*)
(* has read the tree r, led_ has an operator.                              *)
AtExpr(N, fs, l, a) ==
  fs # <<>> /\ fs[1] = Expr(a.b) /\ a.k = "call" /\ l = a.p + 1 /\ Underway(N, Tail(fs), a)

AtOperand(N, fs, l, a) ==
  /\ fs # <<>> /\ fs[1] = Nud("Identifier", lexemes[a.p + 1].x) /\ a.k = "loop" /\ l = a.p + 2
  /\ Underway(N, Tail(fs), a)

AtTree(N, fs, l, r, a) ==
  /\ HasRead(N, a.p, a.b, l, r) /\ (a.k = "call" => a.b >= Bindp(lexemes[l].t))
  /\ Underway(N, fs, a)

LedAt(N, fs, a, j, n) ==
  /\ fs # <<>> /\ fs[1] = Led(lexemes[j].t, lexemes[j].x, n)
  /\ OperatorAt(N, j) /\ HasRead(N, a.p, a.b, j, n) /\ a.b < Bindp(lexemes[j].t)

AtOperator(N, fs, l, a) ==
  a.k = "loop" /\ Underway(N, Tail(fs), a) /\ \E j, n : l = j + 1 /\ LedAt(N, fs, a, j, n)

GroupedIn(N, fs, l, r, a) ==
  IF r = NoTree THEN AtExpr(N, fs, l, a) \/ AtOperand(N, fs, l, a) \/ AtOperator(N, fs, l, a)
  ELSE AtTree(N, fs, l, r, a)

Grouped(N, fs, l, r) == \E a : GroupedIn(N, fs, l, r, a)

LEMMA CallFields == \A p, b, k : LET a == CallAt(p, b, k) IN a.p = p /\ a.b = b /\ a.k = k
BY DEF CallAt

LEMMA FrameFields ==
  /\ \A b : Expr(b).k = "expr" /\ Expr(b).b = b /\ Loop(b).k = "loop" /\ Loop(b).b = b
  /\ \A t, x : Nud(t, x).k = "nud" /\ Nud(t, x).t = t /\ Nud(t, x).x = x
  /\ \A t, x, n : Led(t, x, n).k = "led" /\ Led(t, x, n).t = t /\ Led(t, x, n).kids = <<n>>
  /\ \A t, s : Wait("node", t, s).k = "node" /\ Wait("node", t, s).t = t /\ Wait("node", t, s).kids = s
BY DEF Expr, Loop, Nud, Led, Wait, Frame

LEMMA ExprReads ==
  ASSUME NEW N, Chain(N), NEW fs, IsList(fs), NEW l, NEW a, AtExpr(N, fs, l, a)
  PROVE  /\ lexemes[l].t = "Identifier" /\ ~(a.b > Bindp(lexemes[l].t))
         /\ Grouped(N, <<Nud(lexemes[l].t, lexemes[l].x), Loop(a.b)>> \o Tail(fs), l + 1, NoTree)
<1>1. fs # <<>> /\ a.k = "call" /\ l = a.p + 1
  BY DEF AtExpr
<1>2. PICK s : s = Tail(fs) /\ IsList(s) /\ Underway(N, s, a)
  BY <1>1, TailParts DEF AtExpr
<1>3. IsCall(N, a)
  BY <1>2, UnderwayCall
<1>4. N \in Nat /\ N % 2 = 1 /\ a.p \in 1..(N - 2) /\ a.p % 2 = 1 /\ a.b \in 17..192
  BY <1>3 DEF IsCall, Chain
<1>5. PICK p \in Nat : p = a.p
  BY <1>4
<1>6. l \in 2..(N - 1) /\ l % 2 = 0
  BY <1>1, <1>4, <1>5
<1>7. lexemes[l].t = "Identifier"
  BY <1>6 DEF Chain
<1>8. ~(a.b > Bindp(lexemes[l].t))
  <2>1. Level("Identifier") = 14
    BY DEF Level
  <2>2. Bindp(lexemes[l].t) = 224
    BY <1>7, <2>1 DEF Bindp
  <2> QED
    BY <1>4, <2>2
<1>9. PICK f : f = Nud(lexemes[l].t, lexemes[l].x)
  OBVIOUS
<1>10. PICK h : h = Loop(a.b)
  OBVIOUS
<1>11. PICK c : c = CallAt(a.p, a.b, "loop")
  OBVIOUS
<1>12. c.p = a.p /\ c.b = a.b /\ c.k = "loop"
  BY <1>11, CallFields
<1>13. IsCall(N, c)
  BY <1>4, <1>12 DEF IsCall
<1>14. Opens(N, a, h, c)
  BY <1>1, <1>10, <1>11 DEF Opens
<1>15. PICK r : r = <<h>> \o s
  OBVIOUS
<1>16. IsList(r) /\ Underway(N, r, c)
  BY <1>2, <1>13, <1>14, <1>15, CallUnderway, ListParts
<1>17. PICK q : q = <<f>> \o r
  OBVIOUS
<1>18. q # <<>> /\ q[1] = f /\ Tail(q) = r
  BY <1>16, <1>17, FirstOff
<1>19. PICK m : m = l + 1
  OBVIOUS
<1>20. m = c.p + 2
  BY <1>1, <1>5, <1>12, <1>19
<1>21. f = Nud("Identifier", lexemes[c.p + 1].x)
  BY <1>1, <1>7, <1>9, <1>12
<1>22. AtOperand(N, q, m, c)
  BY <1>12, <1>16, <1>18, <1>20, <1>21, Zenon DEF AtOperand
<1>23. Grouped(N, q, m, NoTree)
  BY <1>22 DEF Grouped, GroupedIn
<1>24. <<f, h>> \o s = q
  BY <1>15, <1>17, <1>2, TwoCalls
<1> QED
  BY <1>2, <1>7, <1>8, <1>9, <1>10, <1>19, <1>23, <1>24

LEMMA OperandMade ==
  ASSUME NEW N, Chain(N), NEW fs, IsList(fs), NEW l, NEW a, AtOperand(N, fs, l, a)
  PROVE  Grouped(N, Tail(fs), l, Node(fs[1].t, fs[1].x, 0, <<>>)) /\ fs[1].k = "nud" /\ fs[1].t = "Identifier"
<1>1. fs # <<>> /\ a.k = "loop" /\ l = a.p + 2
  BY DEF AtOperand
<1>2. PICK s : s = Tail(fs) /\ IsList(s) /\ Underway(N, s, a)
  BY <1>1, TailParts DEF AtOperand
<1>3. IsCall(N, a)
  BY <1>2, UnderwayCall
<1>4. N \in Nat /\ N % 2 = 1 /\ a.p \in 1..(N - 2) /\ a.p % 2 = 1
  BY <1>3 DEF IsCall, Chain
<1>5. PICK p \in Nat : p = a.p
  BY <1>4
<1>6. fs[1].k = "nud" /\ fs[1].t = "Identifier" /\ fs[1].x = lexemes[p + 1].x
  BY <1>5, FrameFields DEF AtOperand
<1>7. PICK n : n = Node(fs[1].t, fs[1].x, 0, <<>>)
  OBVIOUS
<1>8. n # NoTree
  BY <1>6, <1>7 DEF Node, NoTree
<1>9. n = Leaf(p + 1)
  BY <1>6, <1>7 DEF Leaf
<1>10. PICK i \in 2..(N - 1) : i = p + 1
  BY <1>4, <1>5
<1>11. n = Divided[<<p + 1, l - 1>>]
  <2>1. l - 1 = i
    BY <1>1, <1>5, <1>10
  <2>2. n = Divided[<<i, i>>]
    BY <1>9, <1>10, DividedLeaf
  <2> QED
    BY <1>10, <2>1, <2>2
<1>12. l \in Nat /\ l % 2 = 1 /\ p < l /\ l <= N
  BY <1>1, <1>4, <1>5
<1>13. \A q : OperatorAt(N, q) /\ p < q /\ q < l => FALSE
  <2> SUFFICES ASSUME NEW q, OperatorAt(N, q), p < q, q < l PROVE FALSE
    OBVIOUS
  <2>1. q \in Nat /\ q % 2 = 1
    BY <1>4 DEF OperatorAt
  <2>2. q = p + 1
    BY <1>1, <1>5, <2>1
  <2> QED
    BY <1>4, <1>5, <2>1, <2>2
<1>14. HasRead(N, p, a.b, l, n)
  BY <1>11, <1>12, <1>13 DEF HasRead
<1>15. AtTree(N, s, l, n, a)
  BY <1>1, <1>2, <1>5, <1>14 DEF AtTree
<1>16. Grouped(N, s, l, n)
  BY <1>8, <1>15 DEF Grouped, GroupedIn
<1> QED
  BY <1>2, <1>6, <1>7, <1>16

LEMMA OperatorCalls ==
  ASSUME NEW N, Chain(N), NEW fs, IsList(fs), NEW l, NEW a, AtOperator(N, fs, l, a)
  PROVE  /\ fs[1].k = "led" /\ Level(fs[1].t) < 13
         /\ Grouped(N, <<Expr(InfixBindp(fs[1].t)),
                         Wait("node", IF fs[1].t \in DOMAIN Infix THEN Infix[fs[1].t] ELSE "Unexpected",
                              fs[1].kids)>> \o Tail(fs), l, NoTree)
<1>1. PICK j, n : l = j + 1 /\ LedAt(N, fs, a, j, n)
  BY DEF AtOperator
<1>2. /\ fs # <<>> /\ fs[1] = Led(lexemes[j].t, lexemes[j].x, n)
      /\ OperatorAt(N, j) /\ HasRead(N, a.p, a.b, j, n) /\ a.b < Bindp(lexemes[j].t)
  BY <1>1 DEF LedAt
<1>3. PICK s : s = Tail(fs) /\ IsList(s) /\ Underway(N, s, a)
  BY <1>2, TailParts DEF AtOperator
<1>4. PICK t : t = lexemes[j].t
  OBVIOUS
<1>5. fs[1].k = "led" /\ fs[1].t = t /\ fs[1].kids = <<n>>
  BY <1>2, <1>4, FrameFields
<1>6. /\ InfixBindp(t) \in 17..192 /\ Level(t) < 13 /\ t \in DOMAIN Infix
      /\ j \in 1..(N - 2) /\ j % 2 = 1 /\ j \in Nat
  BY <1>2, <1>4, OperatorBindp
<1>7. PICK f : f = Expr(InfixBindp(t))
  OBVIOUS
<1>8. PICK h : h = Wait("node", Infix[t], <<n>>)
  OBVIOUS
<1>9. PICK c : c = CallAt(j, InfixBindp(t), "call")
  OBVIOUS
<1>10. c.p = j /\ c.b = InfixBindp(t) /\ c.k = "call"
  BY <1>9, CallFields
<1>11. IsCall(N, c)
  BY <1>6, <1>10 DEF IsCall
<1>12. GoesOn(N, a, h, c, j, n)
  BY <1>2, <1>4, <1>8, <1>9 DEF GoesOn
<1>13. Opens(N, a, h, c)
  BY <1>12 DEF Opens, AtOperator
<1>14. PICK r : r = <<h>> \o s
  OBVIOUS
<1>15. IsList(r) /\ Underway(N, r, c)
  BY <1>3, <1>11, <1>13, <1>14, CallUnderway, ListParts
<1>16. PICK q : q = <<f>> \o r
  OBVIOUS
<1>17. q # <<>> /\ q[1] = f /\ Tail(q) = r
  BY <1>15, <1>16, FirstOff
<1>18. AtExpr(N, q, l, c)
  BY <1>1, <1>7, <1>10, <1>15, <1>17 DEF AtExpr
<1>19. Grouped(N, q, l, NoTree)
  BY <1>18 DEF Grouped, GroupedIn
<1>20. <<f, h>> \o s = q
  BY <1>14, <1>16, <1>3, TwoCalls
<1>21. h = Wait("node", IF fs[1].t \in DOMAIN Infix THEN Infix[fs[1].t] ELSE "Unexpected", fs[1].kids)
  BY <1>5, <1>6, <1>8
<1> QED
  BY <1>3, <1>5, <1>6, <1>7, <1>19, <1>20, <1>21

(* What waits for the tree a call returns.                                 *)
LEMMA TreeAwaited ==
  ASSUME NEW N, Chain(N), NEW fs, IsList(fs), fs # <<>>, NEW l, NEW r, NEW a, AtTree(N, fs, l, r, a)
  PROVE  \/ a.k = "loop" /\ \E c : /\ Underway(N, Tail(fs), c) /\ c.k = "call" /\ c.p = a.p /\ c.b = a.b
                                   /\ fs[1] = Loop(a.b)
         \/ a.k = "call" /\ \E c, j, n : /\ Underway(N, Tail(fs), c) /\ c.k = "loop"
                                         /\ GoesOn(N, c, fs[1], a, j, n)
<1>1. Underway(N, fs, a)
  BY DEF AtTree
<1>2. PICK c : Underway(N, Tail(fs), c) /\ IsCall(N, c) /\ Opens(N, c, fs[1], a)
  BY <1>1, ReturnUnderway
<1>3. CASE c.k = "call" /\ fs[1] = Loop(c.b) /\ a = CallAt(c.p, c.b, "loop")
  <2>1. a.k = "loop" /\ a.p = c.p /\ a.b = c.b
    BY <1>3, CallFields
  <2> QED
    BY <1>2, <1>3, <2>1
<1>4. CASE c.k = "loop" /\ \E j, n : GoesOn(N, c, fs[1], a, j, n)
  <2>1. PICK j, n : GoesOn(N, c, fs[1], a, j, n)
    BY <1>4
  <2>2. a.k = "call"
    BY <2>1, CallFields DEF GoesOn
  <2> QED
    BY <1>2, <1>4, <2>1, <2>2
<1> QED
  BY <1>2, <1>3, <1>4 DEF Opens

LEMMA LoopExtends ==
  ASSUME NEW N, Chain(N), NEW fs, IsList(fs), fs # <<>>, NEW l, NEW r, NEW a, AtTree(N, fs, l, r, a),
         fs[1].k = "loop", fs[1].b < Bindp(lexemes[l].t)
  PROVE  Grouped(N, <<Led(lexemes[l].t, lexemes[l].x, r), fs[1]>> \o Tail(fs), l + 1, NoTree)
<1>1. PICK c : /\ Underway(N, Tail(fs), c) /\ c.k = "call" /\ c.p = a.p /\ c.b = a.b
               /\ fs[1] = Loop(a.b) /\ a.k = "loop"
  <2>1. \A c, j, n : ~GoesOn(N, c, fs[1], a, j, n)
    BY FrameFields DEF GoesOn
  <2> QED
    BY <2>1, TreeAwaited
<1>2. PICK s : s = Tail(fs) /\ IsList(s) /\ Underway(N, s, c)
  BY <1>1, TailParts
<1>3. PICK h : h = fs[1]
  OBVIOUS
<1>4. h.b = a.b /\ a.b < Bindp(lexemes[l].t)
  BY <1>1, <1>3, FrameFields
<1>5. IsCall(N, a) /\ Underway(N, fs, a)
  BY UnderwayCall DEF AtTree
<1>6. HasRead(N, a.p, a.b, l, r)
  BY DEF AtTree
<1>7. N \in Nat /\ a.b \in 17..192 /\ a.p \in 1..(N - 2) /\ l \in Nat /\ l % 2 = 1 /\ a.p < l /\ l <= N
  BY <1>5, <1>6 DEF IsCall, HasRead, Chain
<1>8. l # N
  <2>1. SUFFICES ASSUME l = N PROVE FALSE
    OBVIOUS
  <2>2. lexemes[l].t = "End"
    BY <2>1 DEF Chain
  <2>3. Level("End") = 0
    BY DEF Level
  <2>4. Bindp(lexemes[l].t) = 0
    BY <2>2, <2>3 DEF Bindp
  <2>5. PICK z : z = a.b
    OBVIOUS
  <2>6. z < 0
    BY <1>4, <2>4, <2>5, Zenon
  <2>7. z \in 17..192
    BY <1>7, <2>5
  <2> QED
    BY <2>6, <2>7
<1>9. OperatorAt(N, l)
  BY <1>7, <1>8 DEF OperatorAt
<1>10. Opens(N, c, h, a)
  <2>1. Opens(N, c, h, CallAt(c.p, c.b, "loop"))
    BY <1>1, <1>3 DEF Opens
  <2>2. a = CallAt(c.p, c.b, "loop")
    <3>1. PICK z : Underway(N, Tail(fs), z) /\ IsCall(N, z) /\ Opens(N, z, fs[1], a)
      BY <1>5, ReturnUnderway
    <3>2. a = CallAt(z.p, z.b, "loop")
      <4>1. \A j, n : ~GoesOn(N, z, fs[1], a, j, n)
        BY FrameFields DEF GoesOn
      <4> QED
        BY <3>1, <4>1 DEF Opens
    <3>3. a.p = z.p /\ a.b = z.b
      BY <3>2, CallFields
    <3> QED
      BY <1>1, <3>2, <3>3
  <2> QED
    BY <2>1, <2>2
<1>11. PICK u : u = <<h>> \o s
  OBVIOUS
<1>12. IsList(u) /\ Underway(N, u, a)
  BY <1>2, <1>5, <1>10, <1>11, CallUnderway, ListParts
<1>13. PICK f : f = Led(lexemes[l].t, lexemes[l].x, r)
  OBVIOUS
<1>14. PICK q : q = <<f>> \o u
  OBVIOUS
<1>15. q # <<>> /\ q[1] = f /\ Tail(q) = u
  BY <1>12, <1>14, FirstOff
<1>16. LedAt(N, q, a, l, r)
  BY <1>4, <1>6, <1>9, <1>13, <1>15 DEF LedAt
<1>17. PICK m : m = l + 1
  OBVIOUS
<1>18. AtOperator(N, q, m, a)
  BY <1>1, <1>12, <1>15, <1>16, <1>17 DEF AtOperator
<1>19. Grouped(N, q, m, NoTree)
  BY <1>18 DEF Grouped, GroupedIn
<1>20. <<f, h>> \o s = q
  BY <1>2, <1>11, <1>14, TwoCalls
<1> QED
  BY <1>2, <1>3, <1>13, <1>17, <1>19, <1>20

LEMMA LoopEnds ==
  ASSUME NEW N, Chain(N), NEW fs, IsList(fs), fs # <<>>, NEW l, NEW r, r # NoTree, NEW a,
         AtTree(N, fs, l, r, a), fs[1].k = "loop", fs[1].b >= Bindp(lexemes[l].t)
  PROVE  Grouped(N, Tail(fs), l, r)
<1>1. PICK c : /\ Underway(N, Tail(fs), c) /\ c.k = "call" /\ c.p = a.p /\ c.b = a.b
               /\ fs[1] = Loop(a.b) /\ a.k = "loop"
  <2>1. \A c, j, n : ~GoesOn(N, c, fs[1], a, j, n)
    BY FrameFields DEF GoesOn
  <2> QED
    BY <2>1, TreeAwaited
<1>2. c.b >= Bindp(lexemes[l].t)
  BY <1>1, FrameFields
<1>3. HasRead(N, c.p, c.b, l, r)
  BY <1>1 DEF AtTree
<1>4. AtTree(N, Tail(fs), l, r, c)
  BY <1>1, <1>2, <1>3 DEF AtTree
<1> QED
  BY <1>4 DEF Grouped, GroupedIn

LEMMA NodeMade ==
  ASSUME NEW N, Chain(N), NEW fs, IsList(fs), fs # <<>>, NEW l, NEW r, NEW a,
         AtTree(N, fs, l, r, a), fs[1].k # "loop"
  PROVE  /\ fs[1].k = "node" /\ fs[1].t # "Unexpected"
         /\ Grouped(N, Tail(fs), l, Node(fs[1].t, "", 0, Append(fs[1].kids, r)))
<1>1. PICK c, j, n : Underway(N, Tail(fs), c) /\ c.k = "loop" /\ GoesOn(N, c, fs[1], a, j, n) /\ a.k = "call"
  <2>1. \A b : fs[1] # Loop(b)
    BY FrameFields
  <2> QED
    BY <2>1, TreeAwaited
<1>2. /\ OperatorAt(N, j) /\ HasRead(N, c.p, c.b, j, n) /\ c.b < Bindp(lexemes[j].t)
      /\ fs[1] = Wait("node", Infix[lexemes[j].t], <<n>>)
      /\ a = CallAt(j, InfixBindp(lexemes[j].t), "call")
  BY <1>1 DEF GoesOn
<1>3. a.p = j /\ a.b = InfixBindp(lexemes[j].t)
  BY <1>2, CallFields
<1>4. fs[1].k = "node" /\ fs[1].t = Infix[lexemes[j].t] /\ fs[1].kids = <<n>>
  BY <1>2, FrameFields
<1>5. Infix[lexemes[j].t] # "Unexpected" /\ Infix[lexemes[j].t] # "NoTree"
  BY <1>2, OperatorBindp
<1>6. IsList(Tail(fs)) /\ IsCall(N, c)
  BY <1>1, TailParts, UnderwayCall
<1>7. c.p \in 1..(N - 2) /\ c.p % 2 = 1 /\ c.b \in 17..192
  BY <1>6 DEF IsCall
<1>8. HasRead(N, j, InfixBindp(lexemes[j].t), l, r) /\ InfixBindp(lexemes[j].t) >= Bindp(lexemes[l].t)
  BY <1>1, <1>3 DEF AtTree
<1>9. PICK p, b : p = c.p /\ b = c.b
  OBVIOUS
<1>10. PICK y : y = Node(Infix[lexemes[j].t], "", 0, <<n, r>>)
  OBVIOUS
<1>11. HasRead(N, p, b, l, y)
  BY <1>2, <1>7, <1>8, <1>9, <1>10, NodeReads
<1>12. y # NoTree
  BY <1>5, <1>10 DEF Node, NoTree
<1>13. AtTree(N, Tail(fs), l, y, c)
  BY <1>1, <1>9, <1>11 DEF AtTree
<1>14. Grouped(N, Tail(fs), l, y)
  BY <1>12, <1>13 DEF Grouped, GroupedIn
<1>15. y = Node(fs[1].t, "", 0, Append(fs[1].kids, r))
  BY <1>4, <1>10, AppendOne
<1> QED
  BY <1>4, <1>5, <1>14, <1>15

(* What each step of the parser begins with.                               *)
LEMMA ParseSteps ==
  ASSUME ParseStep
  PROVE  /\ frames # <<>>
         /\ \/ ret = NoTree /\ Top.k = "expr" /\ Top.b > Bindp(Current.t)
            \/ ret = NoTree /\ Top.k = "expr" /\ BeginExpression
            \/ ret # NoTree /\ Top.k = "loop" /\ (ExtendExpression \/ EndExpression)
            \/ ret = NoTree /\ Top.k = "nud" /\ (Literal \/ Top.t # "Identifier")
            \/ ret = NoTree /\ Top.k = "led" /\ (InfixOperator \/ Level(Top.t) >= 13)
            \/ ret # NoTree /\ Top.k = "node" /\ (BuildNode \/ Top.t = "Unexpected")
            \/ ret # NoTree /\ Top.k \in {"close", "body"}
<1>1. CASE EmptyExpression
  BY <1>1 DEF EmptyExpression, Running
<1>2. CASE BeginExpression
  <2>1. Running("expr")
    BY <1>2 DEF BeginExpression
  <2> QED
    BY <1>2, <2>1 DEF Running
<1>3. CASE ExtendExpression
  <2>1. Returned("loop")
    BY <1>3 DEF ExtendExpression
  <2> QED
    BY <1>3, <2>1 DEF Returned
<1>4. CASE EndExpression
  <2>1. Returned("loop")
    BY <1>4 DEF EndExpression
  <2> QED
    BY <1>4, <2>1 DEF Returned
<1>5. CASE Literal
  <2>1. Running("nud")
    BY <1>5 DEF Literal
  <2> QED
    BY <1>5, <2>1 DEF Running
<1>6. CASE Prefix \/ Condition \/ Opening \/ Parameters \/ NoParameters \/ NoExpression
  <2>1. Running("nud")
    BY <1>6 DEF Prefix, Condition, Opening, Parameters, NoParameters, NoExpression
  <2>2. Top.t \in PrefixLexemes \union Conditions \union Openings \union CallLike \/ Top.t \notin Literals
    BY <1>6 DEF Prefix, Condition, Opening, Parameters, NoParameters, NoExpression
  <2>3. Top.t # "Identifier"
    BY <2>2 DEF PrefixLexemes, Conditions, Openings, CallLike, Literals
  <2> QED
    BY <2>1, <2>3 DEF Running
<1>7. CASE IndexOrCall \/ Apply
  <2>1. Running("led")
    BY <1>7 DEF IndexOrCall, Apply
  <2>2. Level("LBracket") = 13 /\ Level("LParen") = 13
    BY DEF Level
  <2>3. Level(Top.t) >= 13
    <3>1. CASE IndexOrCall
      <4>1. Top.t \in {"LBracket", "LParen"}
        BY <3>1 DEF IndexOrCall
      <4>2. Level(Top.t) = 13
        BY <2>2, <4>1
      <4> QED
        BY <4>2
    <3>2. CASE Apply
      BY <3>2 DEF Apply
    <3> QED
      BY <1>7, <3>1, <3>2
  <2> QED
    BY <2>1, <2>3 DEF Running
<1>8. CASE InfixOperator
  <2>1. Running("led")
    BY <1>8 DEF InfixOperator
  <2> QED
    BY <1>8, <2>1 DEF Running
<1>9. CASE BuildNode
  <2>1. Returned("node")
    BY <1>9 DEF BuildNode
  <2> QED
    BY <1>9, <2>1 DEF Returned
<1>10. CASE UnexpectedLexeme
  BY <1>10 DEF UnexpectedLexeme, Returned
<1>11. CASE CloseBracket \/ NotClosed \/ BeginBody \/ NoBody
  <2>1. Returned("close") \/ Returned("body")
    BY <1>11 DEF CloseBracket, NotClosed, BeginBody, NoBody
  <2> QED
    BY <2>1 DEF Returned
<1> QED
  BY <1>1, <1>2, <1>3, <1>4, <1>5, <1>6, <1>7, <1>8, <1>9, <1>10, <1>11 DEF ParseStep

LEMMA ParseGroups ==
  ASSUME NEW N, Chain(N), lcurrent \in Nat, IsList(frames), ParseStep, Grouped(N, frames, lcurrent, ret)
  PROVE  Grouped(N, frames', lcurrent', ret')
<1>1. frames # <<>>
  BY ParseSteps
<1>2. PICK f : f = frames[1] /\ f = Top
  BY DEF Top
<1>3. PICK s : s = Tail(frames) /\ s = Callers
  BY DEF Callers
<1>4. PICK c : c = lexemes[lcurrent] /\ c = Current
  BY DEF Current
<1>5. PICK a : GroupedIn(N, frames, lcurrent, ret, a)
  BY DEF Grouped
<1>6. CASE ret = NoTree /\ AtExpr(N, frames, lcurrent, a)
  <2>1. /\ ~(a.b > Bindp(c.t))
        /\ Grouped(N, <<Nud(c.t, c.x), Loop(a.b)>> \o s, lcurrent + 1, NoTree)
    BY <1>3, <1>4, <1>6, ExprReads
  <2>2. f.k = "expr" /\ f.b = a.b
    <3>1. PICK b : b = a.b
      OBVIOUS
    <3>2. f = Expr(b)
      BY <1>2, <1>6, <3>1 DEF AtExpr
    <3> QED
      BY <3>1, <3>2, FrameFields
  <2>3. BeginExpression
    <3>1. ret = NoTree /\ Top.k = "expr" /\ ~(Top.b > Bindp(Current.t))
      BY <1>2, <1>4, <1>6, <2>1, <2>2, Zenon
    <3> QED
      BY <3>1, ParseSteps
  <2>4. frames' = <<Nud(c.t, c.x), Loop(f.b)>> \o s /\ ret' = NoTree /\ lcurrent' = lcurrent + 1
    BY <1>2, <1>3, <1>4, <2>3 DEF BeginExpression, Calls, Next_
  <2> QED
    BY <2>1, <2>2, <2>4
<1>7. CASE ret = NoTree /\ AtOperand(N, frames, lcurrent, a)
  <2>1. Grouped(N, s, lcurrent, Node(f.t, f.x, 0, <<>>)) /\ f.k = "nud" /\ f.t = "Identifier"
    BY <1>2, <1>3, <1>7, OperandMade
  <2>2. Literal
    BY <1>2, <1>7, <2>1, ParseSteps
  <2>3. frames' = s /\ ret' = Node(f.t, f.x, 0, <<>>) /\ lcurrent' = lcurrent
    BY <1>2, <1>3, <2>2 DEF Literal, Return, Stay
  <2> QED
    BY <2>1, <2>3
<1>8. CASE ret = NoTree /\ AtOperator(N, frames, lcurrent, a)
  <2>1. PICK h : h = Wait("node", IF f.t \in DOMAIN Infix THEN Infix[f.t] ELSE "Unexpected", f.kids)
    OBVIOUS
  <2>2. PICK b : b = InfixBindp(f.t)
    OBVIOUS
  <2>3. f.k = "led" /\ Level(f.t) < 13 /\ Grouped(N, <<Expr(b), h>> \o s, lcurrent, NoTree)
    BY <1>2, <1>3, <1>8, <2>1, <2>2, OperatorCalls
  <2>4. Level(f.t) \in Int
    BY DEF Level
  <2>5. PICK v \in Int : v = Level(f.t)
    BY <2>4
  <2>6. ~(v >= 13)
    BY <2>3, <2>5
  <2>7. InfixOperator
    BY <1>2, <1>8, <2>3, <2>5, <2>6, ParseSteps
  <2>8. frames' = <<Expr(b), h>> \o s /\ ret' = NoTree /\ lcurrent' = lcurrent
    BY <1>2, <1>3, <2>1, <2>2, <2>7 DEF InfixOperator, Calls, Stay
  <2> QED
    BY <2>3, <2>8
<1>9. CASE ret # NoTree /\ AtTree(N, frames, lcurrent, ret, a)
  <2>1. CASE f.k = "loop"
    <3>1. ExtendExpression \/ EndExpression
      BY <1>2, <1>9, <2>1, ParseSteps
    <3>2. CASE ExtendExpression
      <4>1. /\ f.b < Bindp(c.t) /\ frames' = <<Led(c.t, c.x, ret), f>> \o s /\ ret' = NoTree
            /\ lcurrent' = lcurrent + 1
        BY <1>2, <1>3, <1>4, <3>2 DEF ExtendExpression, Calls, Next_
      <4>2. Grouped(N, <<Led(c.t, c.x, ret), f>> \o s, lcurrent + 1, NoTree)
        BY <1>1, <1>2, <1>3, <1>4, <1>9, <2>1, <4>1, LoopExtends
      <4> QED
        BY <4>1, <4>2
    <3>3. CASE EndExpression
      <4>1. f.b >= Bindp(c.t) /\ frames' = s /\ ret' = ret /\ lcurrent' = lcurrent
        BY <1>2, <1>3, <1>4, <3>3 DEF EndExpression, Return, Stay
      <4>2. Grouped(N, s, lcurrent, ret)
        BY <1>1, <1>2, <1>3, <1>4, <1>9, <2>1, <4>1, LoopEnds
      <4> QED
        BY <4>1, <4>2
    <3> QED
      BY <3>1, <3>2, <3>3
  <2>2. CASE f.k # "loop"
    <3>1. /\ f.k = "node" /\ f.t # "Unexpected"
          /\ Grouped(N, s, lcurrent, Node(f.t, "", 0, Append(f.kids, ret)))
      BY <1>1, <1>2, <1>3, <1>9, <2>2, NodeMade
    <3>2. BuildNode
      BY <1>2, <1>9, <3>1, ParseSteps
    <3>3. frames' = s /\ ret' = Node(f.t, "", 0, Append(f.kids, ret)) /\ lcurrent' = lcurrent
      BY <1>2, <1>3, <3>2 DEF BuildNode, Return, Stay
    <3> QED
      BY <3>1, <3>3
  <2> QED
    BY <2>1, <2>2
<1> QED
  BY <1>5, <1>6, <1>7, <1>8, <1>9 DEF GroupedIn

LEMMA BeginGroups ==
  ASSUME NEW N, Chain(N)
  PROVE  Grouped(N, <<Expr(DefBlockBindp)>>, 2, NoTree)
<1>1. PICK a : a = CallAt(1, DefBlockBindp, "call")
  OBVIOUS
<1>2. a.p = 1 /\ a.b = DefBlockBindp /\ a.k = "call" /\ Underway(N, <<>>, a)
  BY <1>1, CallFields, NoneUnderway
<1>3. PICK f : f = Expr(DefBlockBindp)
  OBVIOUS
<1>4. PICK q : q = <<f>> \o <<>>
  OBVIOUS
<1>5. q # <<>> /\ q[1] = f /\ Tail(q) = <<>> /\ q = <<f>>
  <2>1. IsList(<<>>) /\ IsList(<<f>>)
    BY ShortLists
  <2> QED
    BY <1>4, <2>1, FirstOff, JoinNone
<1>6. AtExpr(N, q, 2, a)
  <2>1. 2 = a.p + 1
    BY <1>2
  <2> QED
    BY <1>2, <1>3, <1>5, <2>1, Zenon DEF AtExpr
<1>7. Grouped(N, q, 2, NoTree)
  BY <1>6 DEF Grouped, GroupedIn
<1> QED
  BY <1>3, <1>5, <1>7

(* When no call is left the whole chain was read.                          *)
LEMMA GroupsAll ==
  ASSUME NEW N, Chain(N), NEW l, NEW r, Grouped(N, <<>>, l, r)
  PROVE  r = Divided[<<2, N - 1>>]
<1>1. PICK a : GroupedIn(N, <<>>, l, r, a)
  BY DEF Grouped
<1>2. AtTree(N, <<>>, l, r, a)
  <2>1. \A j, n : ~LedAt(N, <<>>, a, j, n)
    BY DEF LedAt
  <2> QED
    BY <1>1, <2>1 DEF GroupedIn, AtExpr, AtOperand, AtOperator
<1>3. HasRead(N, a.p, a.b, l, r) /\ (a.k = "call" => a.b >= Bindp(lexemes[l].t)) /\ Underway(N, <<>>, a)
  BY <1>2 DEF AtTree
<1>4. a = CallAt(1, DefBlockBindp, "call")
  BY <1>3, UnderwayNone
<1>5. a.p = 1 /\ a.b = DefBlockBindp /\ a.k = "call"
  BY <1>4, CallFields
<1>6. DefBlockBindp = 17
  BY DEF DefBlockBindp
<1>7. PICK one : one = 1
  OBVIOUS
<1>8. HasRead(N, one, a.b, l, r)
  BY <1>3, <1>5, <1>7
<1>9. l \in Nat /\ l % 2 = 1 /\ 1 < l /\ l <= N /\ r = Divided[<<2, l - 1>>]
  BY <1>7, <1>8 DEF HasRead
<1>10. N \in Nat
  BY DEF Chain
<1>11. l = N
  <2>1. SUFFICES ASSUME l # N PROVE FALSE
    OBVIOUS
  <2>2. OperatorAt(N, l)
    BY <1>9, <1>10, <2>1 DEF OperatorAt
  <2>3. PICK z : z = Bindp(lexemes[l].t)
    OBVIOUS
  <2>4. z \in 32..192
    BY <2>2, <2>3, OperatorBindp
  <2>5. 17 >= z
    BY <1>3, <1>5, <1>6, <2>3
  <2> QED
    BY <2>4, <2>5
<1> QED
  BY <1>9, <1>11

(* While a chain is parsed and after, what was read is grouped.            *)
ChainInv ==
  /\ GInv
  /\ stage \in {"parsing", "parsed"} => \A N : Chain(N) => Grouped(N, frames, lcurrent, ret)

LEMMA SameChain ==
  ASSUME lexemes' = lexemes, NEW N
  PROVE  /\ Chain(N)' <=> Chain(N)
         /\ \A fs, l, r : Grouped(N, fs, l, r)' <=> Grouped(N, fs, l, r)
<1>1. Chain(N)' <=> Chain(N)
  BY DEF Chain
<1>2. Divided' = Divided
  BY DEF Divided, Divides, Operators
<1>3. \A p, b, j, n : HasRead(N, p, b, j, n)' <=> HasRead(N, p, b, j, n)
  BY <1>2 DEF HasRead, OperatorAt
<1>4. \A c, f, a, j, n : GoesOn(N, c, f, a, j, n)' <=> GoesOn(N, c, f, a, j, n)
  BY <1>3 DEF GoesOn, OperatorAt
<1>5. \A c, f, a : Opens(N, c, f, a)' <=> Opens(N, c, f, a)
  BY <1>4 DEF Opens
<1>6. \A d, s, a : UnderwayBy(N, d, s, a)' <=> UnderwayBy(N, d, s, a)
  BY <1>5 DEF UnderwayBy
<1>7. \A s, a : Underway(N, s, a)' <=> Underway(N, s, a)
  BY <1>6 DEF Underway
<1>8. \A s, a, j, n : LedAt(N, s, a, j, n)' <=> LedAt(N, s, a, j, n)
  BY <1>3 DEF LedAt, OperatorAt
<1>9. \A s, l, a : AtOperator(N, s, l, a)' <=> AtOperator(N, s, l, a)
  BY <1>7, <1>8 DEF AtOperator
<1>10. \A s, l, r, a : AtTree(N, s, l, r, a)' <=> AtTree(N, s, l, r, a)
  BY <1>3, <1>7 DEF AtTree
<1>11. \A s, l, a : (AtExpr(N, s, l, a)' <=> AtExpr(N, s, l, a)) /\ (AtOperand(N, s, l, a)' <=> AtOperand(N, s, l, a))
  BY <1>7 DEF AtExpr, AtOperand
<1>12. \A s, l, r, a : GroupedIn(N, s, l, r, a)' <=> GroupedIn(N, s, l, r, a)
  BY <1>9, <1>10, <1>11 DEF GroupedIn
<1> QED
  BY <1>1, <1>12 DEF Grouped

LEMMA InitChainInv == InitFrontEnd => ChainInv
BY InitGInv DEF ChainInv, InitFrontEnd

LEMMA NextChainInv == ChainInv /\ [Next]_vars => ChainInv'
<1> SUFFICES ASSUME ChainInv, [Next]_vars PROVE ChainInv'
  OBVIOUS
<1>1. GInv /\ GInv'
  BY NextGInv DEF ChainInv
<1>2. ASSUME stage \in {"parsing", "parsed"}, UNCHANGED <<lexemes, frames, lcurrent, ret>>
      PROVE  \A N : Chain(N)' => Grouped(N, frames, lcurrent, ret)'
  <2> SUFFICES ASSUME NEW N, Chain(N)' PROVE Grouped(N, frames, lcurrent, ret)'
    OBVIOUS
  <2>1. Chain(N)
    BY <1>2, SameChain
  <2>2. Grouped(N, frames, lcurrent, ret)
    BY <1>2, <2>1 DEF ChainInv
  <2>3. PICK fs, l, r : fs = frames /\ l = lcurrent /\ r = ret
    OBVIOUS
  <2>4. Grouped(N, fs, l, r)
    BY <2>2, <2>3
  <2>5. Grouped(N, fs, l, r)'
    BY <1>2, <2>4, SameChain
  <2>6. frames' = fs /\ lcurrent' = l /\ ret' = r
    BY <1>2, <2>3
  <2> QED
    BY <2>5, <2>6
<1>3. CASE LexStep
  <2>1. stage' = "lexing"
    BY <1>3 DEF LexStep
  <2> QED
    BY <1>1, <2>1 DEF ChainInv
<1>4. CASE ReportLexer
  <2>1. stage' = "reported"
    BY <1>4 DEF ReportLexer
  <2> QED
    BY <1>1, <2>1 DEF ChainInv
<1>5. CASE BeginParse
  <2>1. stage = "lexing" /\ UNCHANGED <<lexemes, lcurrent, frames, ret>>
    BY <1>5 DEF BeginParse, parserVars
  <2>2. frames = <<Expr(DefBlockBindp)>> /\ lcurrent = 2 /\ ret = NoTree
    BY <1>1, <2>1 DEF GInv, WInv, TInv, IInv
  <2>3. ASSUME NEW N, Chain(N)' PROVE Grouped(N, frames, lcurrent, ret)'
    <3>1. Chain(N)
      BY <2>1, <2>3, SameChain
    <3>2. PICK fs, l, r : fs = <<Expr(DefBlockBindp)>> /\ l = 2 /\ r = NoTree
      OBVIOUS
    <3>3. Grouped(N, fs, l, r)
      BY <3>1, <3>2, BeginGroups
    <3>4. Grouped(N, fs, l, r)'
      BY <2>1, <3>3, SameChain
    <3>5. frames' = fs /\ lcurrent' = l /\ ret' = r
      BY <2>1, <2>2, <3>2
    <3> QED
      BY <3>4, <3>5
  <2> QED
    BY <1>1, <2>3 DEF ChainInv
<1>6. CASE ParserStep
  <2>1. stage = "parsing" /\ ParseStep /\ lexemes' = lexemes
    BY <1>6 DEF ParserStep, Parse
  <2>2. lcurrent \in Nat /\ IsList(frames)
    BY <1>1 DEF GInv, WInv, TInv, IInv, FramesOK, FramesIn, IsList
  <2>3. ASSUME NEW N, Chain(N)' PROVE Grouped(N, frames, lcurrent, ret)'
    <3>1. Chain(N)
      BY <2>1, <2>3, SameChain
    <3>2. Grouped(N, frames, lcurrent, ret)
      BY <2>1, <3>1 DEF ChainInv
    <3>3. PICK fs, l, r : fs = frames' /\ l = lcurrent' /\ r = ret'
      OBVIOUS
    <3>4. Grouped(N, frames', lcurrent', ret')
      BY <2>1, <2>2, <3>1, <3>2, ParseGroups
    <3>5. Grouped(N, fs, l, r)
      BY <3>3, <3>4
    <3>6. Grouped(N, fs, l, r)'
      BY <2>1, <3>5, SameChain
    <3> QED
      BY <3>3, <3>6
  <2> QED
    BY <1>1, <2>3 DEF ChainInv
<1>7. CASE EndParse
  <2>1. stage \in {"parsing", "parsed"} /\ UNCHANGED <<lexemes, frames, lcurrent, ret>>
    BY <1>7 DEF EndParse, parserVars
  <2> QED
    BY <1>1, <1>2, <2>1 DEF ChainInv
<1>8. CASE UNCHANGED vars
  <2>1. UNCHANGED <<lexemes, frames, lcurrent, ret>> /\ stage' = stage
    BY <1>8 DEF vars, parserVars
  <2>2. ASSUME stage \in {"parsing", "parsed"} PROVE \A N : Chain(N)' => Grouped(N, frames, lcurrent, ret)'
    BY <1>2, <2>1, <2>2
  <2> QED
    BY <1>1, <2>1, <2>2 DEF ChainInv
<1> QED
  BY <1>3, <1>4, <1>5, <1>6, <1>7, <1>8 DEF Next

(* For every text that is a chain of binary operators, however long: nud_, *)
(* led_ and expression_ divide it at its loosest operator, the first or    *)
(* the last of these as its class groups, and so on in the parts.          *)
THEOREM ParsesAlwaysByPrecedence == Spec => []ParsesByPrecedence
<1>1. ChainInv => ParsesByPrecedence
  <2> SUFFICES ASSUME ChainInv, stage = "parsed", IsChain PROVE ret = Divided[<<2, Len(lexemes) - 1>>]
    BY DEF ParsesByPrecedence
  <2>1. WInv /\ frames = <<>>
    BY DEF ChainInv, GInv
  <2>2. IsList(lexemes) /\ lexemes[Len(lexemes)].t = "End"
    BY <2>1 DEF WInv, TInv, IInv, EndLast
  <2>3. PICK N : Chain(N)
    BY <2>2, ChainIs
  <2>4. N = Len(lexemes)
    BY <2>3 DEF Chain
  <2>5. Grouped(N, <<>>, lcurrent, ret)
    BY <2>1, <2>3 DEF ChainInv
  <2>6. ret = Divided[<<2, N - 1>>]
    BY <2>3, <2>5, GroupsAll
  <2> QED
    BY <2>4, <2>6
<1> QED
  BY <1>1, InitChainInv, NextChainInv, PTL DEF Spec
=============================================================================
