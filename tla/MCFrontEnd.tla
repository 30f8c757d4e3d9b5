------------------------------ MODULE MCFrontEnd ------------------------------
(***************************************************************************)
(* Small texts for FrontEnd.                                               *)
(***************************************************************************)
EXTENDS ParseTrees

LOCAL INSTANCE SequencesExt

(* Everything of a few symbols: brackets and lines, strings and comments.  *)
Short(S, n) == [1..n -> S]

Lines    == {"a", "newline", "{", "}", "(", ")"}
Scanners == {"a", "newline", "quote", "backslash", "/", "*", "blank"}
(* Comments of two symbols, between two names.                             *)
Commented == {<<"a", "/", "*">> \o s \o <<"*", "/", "a">> : s \in Short(Scanners, 2)}

Marks    == {"a", "invalid", "!", "=", "+", "<", "[", "]", "else", "print", "newline", "do"}

(* Chains of binary operators.                                             *)
Op(t)    == Spelling[t]
Spaced(w) == <<"blank", w, "blank">>

AllOps   == {Op(t) : t \in DOMAIN Spelling \ {"BlockComment", "LineComment"}}
            \union {Spaced(w) : w \in {"and", "or", "else", "in"}} \union {<<"newline">>}
SomeOps  == {Op("Comma"), Op("Assign"), Op("Colon"), Op("Eq"), Op("Append"), Op("Cmp"), Op("Minus"),
             Op("Mul"), Spaced("and"), Spaced("else"), <<"newline">>}
FewOps   == {Op("Semicolon"), Op("Comma"), Op("AddAssign"), Op("Lt"), Op("Plus")}

Chains2 == {<<"a">> \o p \o <<"b">> \o q \o <<"a">> : p, q \in AllOps}
Chains3 == {<<"a">> \o p \o <<"b">> \o q \o <<"a">> \o r \o <<"b">> : p, q, r \in SomeOps}
Chains4 == {<<"a">> \o p \o <<"b">> \o q \o <<"a">> \o r \o <<"b">> \o s \o <<"a">> :
              p, q, r, s \in FewOps}

(* Statements and expressions of every kind, whole and with a hole.        *)
Exprs ==
  {<<"a">>, <<"n1">>, <<"-", "a">>, <<"not", "blank", "a">>, <<"(", "a", ")">>, <<"{", "a", "}">>,
   <<"[", "a", ",", "n1", "]">>, <<"{", "}">>, <<"{", "a", ":", "n1", "}">>,
   <<"a", "[", "n1", "]">>, <<"a", "(", "b", ",", "n1", ")">>, <<"a", "blank", "b">>,
   <<"func", "(", "a", ")", "a", "*", "n2">>, <<"recurse", "(", "a", ")">>,
   <<"move", "blank", "a">>, <<"quote", "a", "quote">>, <<"+", "null">>,
   <<"-", "a", "[", "n1", "]", "*", "b">>}

Stmts(E) ==
  UNION {{<<"print", "blank">> \o e, <<"var", "blank", "a", "=">> \o e,
          <<"return", "blank">> \o e, <<"assert", "(">> \o e \o <<")">>,
          <<"for", "blank", "a", "blank", "in", "blank">> \o e \o <<"blank", "do", "blank", "b">>,
          <<"while", "blank">> \o e \o <<"blank", "do", "{">> \o e \o <<"newline", "}">>} : e \in E}

Few    == {<<"a">>, <<"(", "a", ")">>, <<"not", "blank", "a">>}
Simple == Exprs \union Stmts(Exprs)

Blocks == {<<"if", "blank">> \o c \o <<"blank", "do", "blank">> \o s \o <<"newline", "else", "blank">> \o t :
              c \in Few, s \in Stmts(Few), t \in Stmts(Few)}
Holes  == {RemoveAt(s, i) : <<s, i>> \in {<<s, i>> \in Simple \X (1..14) : i <= Len(s)}}

MCFamilies ==
  <<Short(Lines, 5), Short(Scanners, 5), Commented, Short(Marks, 3), Chains2, Chains3, Chains4,
    Simple, Blocks, Holes>>

=============================================================================
