-------------------------------- MODULE Texts --------------------------------
(***************************************************************************)
(* Strings as string.cpp keeps them: bytes and a length, with a 0 behind   *)
(* the last.  Most functions stop at the first 0 they meet; the length,    *)
(* and with it ++ and the table of strings, counts those inside.  Bytes    *)
(* above 0x7f, of which several make a character, are left out.            *)
(***************************************************************************)
EXTENDS Scalars, FiniteSets

(* Bytes are fewer than Ints: how two differ is an Int.                    *)
Bytes == 0..(Half - 1)

First(S) == CHOOSE i \in S : \A j \in S : i <= j

(* What str() reads as: s up to its first 0.                               *)
Visible(s) ==
  LET zeros == {i \in DOMAIN s : s[i] = 0}
  IN  IF zeros = {} THEN s
      ELSE SubSeq(s, 1, First(zeros) - 1)

Utf8Len(s) == Len(Visible(s))

(* p[i] of str(), counted from 0.                                          *)
Byte(s, i) == IF i < Len(s) THEN s[i + 1] ELSE 0

(* The difference of the first bytes that differ, or 0.                    *)
CmpBytes(s, t) ==
  LET at == First({i \in 0..Len(s) : Byte(s, i) # Byte(t, i) \/ Byte(s, i) = 0})
  IN  Byte(s, at) - Byte(t, at)

(* sprintf "%d".                                                           *)
Decimal(n) ==
  LET m      == IF n < 0 THEN -n ELSE n
      places == 1 + Cardinality({i \in 1..IntWidth : 10 ^ i <= m})
      digits == [i \in 1..places |-> Zero + ((m \div (10 ^ (places - i))) % 10)]
  IN  IF n < 0 THEN <<Minus>> \o digits ELSE digits

NoGlyph == <<>>

(* utf8Get and the make_new of one glyph: one byte of four, the others 0.  *)
(* Going to an index stops at a 0 before it, not at one.                   *)
Glyph(s, idx) ==
  IF idx > Utf8Len(s) THEN NoGlyph ELSE <<Byte(s, idx), 0, 0, 0>>

(* One end of a slice.                                                     *)
SliceIndex(c, size, default) ==
  LET i == IF c.k = "null" THEN default
           ELSE IF N(c) < 0 THEN size + N(c) ELSE N(c)
  IN  IF i < 0 THEN 0 ELSE IF i >= size THEN size ELSE i

SliceBytes(s, from, to) ==
  LET index1 == SliceIndex(from, Utf8Len(s), 0)
      index2 == SliceIndex(to, Utf8Len(s), Half)
  IN  IF index2 <= index1 THEN <<>> ELSE SubSeq(s, index1 + 1, index2)
=============================================================================
