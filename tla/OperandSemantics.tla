-------------------------- MODULE OperandSemantics --------------------------
(***************************************************************************)
(* Proofs about Operands: it implements OperandSem.                        *)
(*                                                                         *)
(* Cells stand for values, and what a cell stands for must not change while*)
(* counts do, or partial applications are made and freed. A partial        *)
(* application stands for what those stand for that it holds, and these for*)
(* what they hold: as none is held by one it holds (each is made of others *)
(* that are there before it, and keeps them), what they stand for is what  *)
(* one level of the definition says (Unfolded). So a step changes the      *)
(* meaning of no cell that is there before and after it (CellKept). The rest*)
(* is what each operator answers.                                          *)
(***************************************************************************)
EXTENDS OperandProofs

-----------------------------------------------------------------------------
(* OperandSem and Operands write their cells alike.                        *)

LEMMA SameWords ==
  /\ Sem!Half = Half /\ Sem!IntOf = IntOf /\ Sem!Modes = Modes
  /\ Sem!Floats = Floats /\ Sem!NaN = NaN /\ Sem!Null = Null
  /\ \A k, v, e : Sem!Cell(k, v, e) = Cell(k, v, e)
  /\ \A b : Sem!Bool(b) = Bool(b)
  /\ \A n : Sem!Int_(n) = Int_(n) /\ Sem!Float(n) = Float(n)
  /\ \A s : Sem!Text(s) = Text(s) /\ Sem!Arr(s) = Arr(s)
  /\ \A c : /\ Sem!N(c) = N(c) /\ Sem!IsNaN(c) = IsNaN(c) /\ Sem!AsFloat(c) = AsFloat(c)
            /\ Sem!IsNumber(c) = IsNumber(c)
  /\ \A n : Sem!Sign(n) = Sign(n)
  /\ \A m, n : Sem!Holds(m, n) = Holds(m, n)
BY DEF Sem!Half, Half, Sem!IntOf, IntOf, Sem!Modes, Modes, Sem!Floats, Floats, Sem!NaN, NaN,
       Sem!Null, Null, Sem!Cell, Cell, Sem!Bool, Bool, Sem!Int_, Int_, Sem!Float, Float,
       Sem!Text, Text, Sem!Arr, Arr, Sem!N, N, Sem!IsNaN, IsNaN, Sem!AsFloat, AsFloat,
       Sem!IsNumber, IsNumber, Sem!Sign, Sign, Sem!Holds, Holds

-----------------------------------------------------------------------------
(* Numbers.                                                                *)

LEMMA Congruent ==
  ASSUME NEW n \in Int, NEW d \in Nat, d > 0, NEW h \in Int
  PROVE  ((((n + h) % d) - h) - n) % d = 0
<1>1. PICK m \in Int : m = n + h
  OBVIOUS
<1>2. PICK q : q = m \div d
  OBVIOUS
<1>3. PICK r : r = m % d
  OBVIOUS
<1>4. q \in Int /\ r \in Int /\ m = d * q + r
  BY <1>2, <1>3
<1>5. PICK k \in Int : k = -q
  BY <1>4
<1>6. (r - h) - n = d * k
  BY <1>1, <1>4, <1>5
<1>7. (d * k) % d = 0
  OBVIOUS
<1> QED
  BY <1>1, <1>3, <1>6, <1>7

LEMMA WrapsIs == \A n \in Int : Int_(Wrapped(n)) \in Sem!Wraps(n)
<1> TAKE n \in Int
<1>1. PICK h \in Nat \ {0, 1} : h = Half
  BY OperandAssumption
<1>2. PICK d \in Nat : d = 2 * h /\ d > 0
  OBVIOUS
<1>3. ((((n + h) % d) - h) - n) % d = 0
  <2>1. h \in Int /\ d > 0
    BY <1>2
  <2> QED
    BY <2>1, Congruent
<1>4. Wrapped(n) = ((n + h) % d) - h
  BY <1>1, <1>2 DEF Wrapped
<1>5. (Wrapped(n) - n) % (2 * Half) = 0
  BY <1>1, <1>2, <1>3, <1>4
<1> QED
  BY <1>5, WrappedIs, SameWords DEF Sem!Wraps

(* An Int is not changed by being cut to the width of one.                 *)
LEMMA WrappedSame == \A n \in IntOf : Wrapped(n) = n
<1> TAKE n \in IntOf
<1>1. PICK h \in Nat \ {0, 1} : h = Half /\ n \in (-h)..(h - 1)
  BY OperandAssumption DEF IntOf
<1>2. PICK m : m = n + h
  OBVIOUS
<1>3. m \in 0..(2 * h - 1)
  BY <1>1, <1>2
<1>4. m % (2 * h) = m
  BY <1>1, <1>3
<1> QED
  BY <1>1, <1>2, <1>4 DEF Wrapped

LEMMA NarrowedSame ==
  \A n \in Int : n \in (-(2 ^ (CmpWidth - 1)))..(2 ^ (CmpWidth - 1) - 1) => Narrowed(n) = n /\ n \in IntOf
<1> TAKE n \in Int
<1>1. PICK h \in Nat \ {0, 1} : h = Half /\ IntOf = (-h)..(h - 1)
  BY OperandAssumption DEF IntOf
<1>2. PICK g \in 1..h : g = 2 ^ (CmpWidth - 1)
  BY <1>1, PowersAssumption
<1> SUFFICES ASSUME n \in (-g)..(g - 1) PROVE Narrowed(n) = n /\ n \in IntOf
  BY <1>2
<1>3. PICK m : m = n + g
  OBVIOUS
<1>4. m \in 0..(2 * g - 1)
  BY <1>2, <1>3
<1>5. m % (2 * g) = m
  BY <1>2, <1>4
<1>6. Narrowed(n) = (m % (2 * g)) - g
  BY <1>2, <1>3 DEF Narrowed
<1>7. Narrowed(n) = n
  BY <1>2, <1>3, <1>5, <1>6
<1> QED
  BY <1>1, <1>2, <1>7

LEMMA DividesIs ==
  ASSUME NEW a \in Int, NEW b \in Int, b # 0
  PROVE  Sem!Divides(a, b, Quotient(a, b), Remainder(a, b))
<1>1. PICK x \in Nat : x = Sign(a) * a /\ (a < 0 => x = -a) /\ (a >= 0 => x = a)
  BY DEF Sign
<1>2. PICK y \in Nat : y = Sign(b) * b /\ (b < 0 => y = -b) /\ (b >= 0 => y = b) /\ y > 0
  BY DEF Sign
<1>3. PICK k : k = x \div y
  OBVIOUS
<1>4. PICK r : r = x - y * k
  OBVIOUS
<1>5. k \in Nat /\ r \in 0..(y - 1)
  BY <1>2, <1>3, <1>4, DivisionIs
<1>6. PICK q : q = Quotient(a, b)
  OBVIOUS
<1>7. PICK z : z = Remainder(a, b)
  OBVIOUS
<1>8. q = Sign(a) * Sign(b) * k
  BY <1>1, <1>2, <1>3, <1>6 DEF Quotient
<1>9. z = a - b * q
  BY <1>6, <1>7 DEF Remainder
<1>10. x = y * k + r
  BY <1>4, <1>5
<1>11. /\ a > 0 /\ b > 0 => q = k
       /\ a > 0 /\ b < 0 => q = -k
       /\ a < 0 /\ b > 0 => q = -k
       /\ a < 0 /\ b < 0 => q = k
       /\ a = 0 => q = 0
  BY <1>5, <1>8 DEF Sign
<1>12. q \in Int
  BY <1>5, <1>11
<1>13. b * q = IF a >= 0 THEN y * k ELSE -(y * k)
  <2>1. CASE a = 0
    <3>1. y * k = 0
      BY <1>1, <1>5, <1>10, <2>1
    <3> QED
      BY <1>11, <2>1, <3>1
  <2>2. CASE a > 0 /\ b > 0
    BY <1>2, <1>5, <1>11, <2>2
  <2>3. CASE a > 0 /\ b < 0
    BY <1>2, <1>5, <1>11, <2>3
  <2>4. CASE a < 0 /\ b > 0
    <3>1. b = y /\ q = -k
      BY <1>2, <1>11, <2>4
    <3>2. y * (-k) = -(y * k)
      BY <1>2, <1>5
    <3> QED
      BY <2>4, <3>1, <3>2
  <2>5. CASE a < 0 /\ b < 0
    BY <1>2, <1>5, <1>11, <2>5
  <2> QED
    BY <2>1, <2>2, <2>3, <2>4, <2>5
<1>14. PICK w \in Int : w = y * k
  BY <1>2, <1>5
<1>15. z = IF a >= 0 THEN r ELSE -r
  BY <1>1, <1>5, <1>9, <1>10, <1>13, <1>14
<1>16. PICK v : v = b * q
  OBVIOUS
<1>17. v \in Int /\ q * b = v
  BY <1>12, <1>16
<1>18. a = q * b + z
  BY <1>5, <1>9, <1>16, <1>17
<1>19. Sem!Abs(z) < Sem!Abs(b)
  BY <1>2, <1>5, <1>15 DEF Sem!Abs
<1>20. Sign(z) \in {0, Sign(a)}
  BY <1>1, <1>5, <1>10, <1>14, <1>15 DEF Sign
<1> QED
  BY <1>6, <1>7, <1>18, <1>19, <1>20, SameWords DEF Sem!Divides

LEMMA QuotientsIs ==
  ASSUME NEW a \in IntOf, NEW b \in IntOf, b # 0, ~(a = -Half /\ b = -1)
  PROVE  /\ Int_(Quotient(a, b)) \in Sem!Quotients("Div", a, b)
         /\ Int_(Remainder(a, b)) \in Sem!Quotients("Mod", a, b)
<1>1. a \in Int /\ b \in Int
  BY OperandAssumption DEF IntOf
<1>2. Sem!Divides(a, b, Quotient(a, b), Remainder(a, b))
  BY <1>1, DividesIs
<1>3. PICK q \in IntOf : q = Quotient(a, b)
  BY QuotientIs
<1>4. PICK r \in IntOf : r = Remainder(a, b)
  BY QuotientIs
<1>5. PICK D : D = {d \in IntOf \X IntOf : Sem!Divides(a, b, d[1], d[2])}
  OBVIOUS
<1>6. <<q, r>> \in D
  BY <1>2, <1>3, <1>4, <1>5
<1>7. Sem!Quotients("Div", a, b) = {Int_(d[1]) : d \in D} /\ Sem!Quotients("Mod", a, b) = {Int_(d[2]) : d \in D}
  BY <1>5, SameWords DEF Sem!Quotients
<1>8. Int_(<<q, r>>[1]) = Int_(q) /\ Int_(<<q, r>>[2]) = Int_(r)
  OBVIOUS
<1> QED
  BY <1>3, <1>4, <1>6, <1>7, <1>8

-----------------------------------------------------------------------------
(* What of a string is seen.                                               *)

(* The first m bytes of s are those before its first 0.                    *)
SeenTo(s, m) ==
  /\ m \in 0..Len(s) /\ \A i \in 1..m : s[i] # 0
  /\ m < Len(s) => s[m + 1] = 0

LEMMA SeenOnce ==
  ASSUME NEW s \in Seq(Bytes), NEW m, SeenTo(s, m), NEW k, SeenTo(s, k)
  PROVE  m = k
<1>1. PICK n \in Nat : n = Len(s)
  OBVIOUS
<1>2. m \in 0..n /\ k \in 0..n
  BY <1>1 DEF SeenTo
<1>3. ~(m < k)
  <2> SUFFICES ASSUME m < k PROVE FALSE
    OBVIOUS
  <2>1. m + 1 \in 1..k /\ m < n
    BY <1>2
  <2> QED
    BY <1>1, <2>1 DEF SeenTo
<1>4. ~(k < m)
  <2> SUFFICES ASSUME k < m PROVE FALSE
    OBVIOUS
  <2>1. k + 1 \in 1..m /\ k < n
    BY <1>2
  <2> QED
    BY <1>1, <2>1 DEF SeenTo
<1> QED
  BY <1>2, <1>3, <1>4

LEMMA VisiblePart ==
  ASSUME NEW s \in Seq(Bytes)
  PROVE  \E m \in Nat : SeenTo(s, m) /\ Visible(s) = SubSeq(s, 1, m)
<1>1. PICK n \in Nat : n = Len(s) /\ DOMAIN s = 1..n
  OBVIOUS
<1> DEFINE Z == {i \in DOMAIN s : s[i] = 0}
<1>2. Visible(s) = IF Z = {} THEN s ELSE SubSeq(s, 1, First(Z) - 1)
  BY DEF Visible
<1>3. CASE Z = {}
  <2>1. SeenTo(s, n)
    BY <1>1, <1>3 DEF SeenTo
  <2>2. IsList(s)
    BY DEF IsList
  <2>3. SubSeq(s, 1, n) = s
    <3>1. IsList(SubSeq(s, 1, n)) /\ Len(SubSeq(s, 1, n)) = n /\ \A i \in 1..n : SubSeq(s, 1, n)[i] = s[i]
      BY <1>1, <2>2, ListSplit
    <3> QED
      BY <1>1, <2>2, <3>1, ListsEqual
  <2> QED
    BY <1>2, <1>3, <2>1, <2>3
<1>4. CASE Z # {}
  <2>1. Z \in SUBSET Nat
    BY <1>1
  <2>2. PICK f : f = First(Z)
    OBVIOUS
  <2>3. f \in Z /\ \A y \in Z : f <= y
    <3> HIDE DEF Z
    <3> QED
      BY <1>4, <2>1, <2>2, FirstIs
  <2>4. PICK m \in Nat : m = f - 1
    BY <1>1, <2>3
  <2>5. m + 1 = f /\ f \in 1..n
    BY <1>1, <2>3, <2>4
  <2>6. \A i \in 1..m : i \in 1..n /\ ~(f <= i)
    BY <2>4, <2>5
  <2>7. SeenTo(s, m)
    BY <1>1, <2>3, <2>5, <2>6 DEF SeenTo
  <2> QED
    BY <1>2, <1>4, <2>2, <2>4, <2>7
<1> QED
  BY <1>3, <1>4

LEMMA VisibleTo ==
  ASSUME NEW s \in Seq(Bytes), NEW m, SeenTo(s, m)
  PROVE  /\ Visible(s) = SubSeq(s, 1, m) /\ Len(Visible(s)) = m /\ Utf8Len(s) = m
         /\ IsList(Visible(s)) /\ Visible(s) \in Seq(Bytes)
         /\ \A i \in 1..m : Visible(s)[i] = s[i]
         /\ Visible(s) = s <=> m = Len(s)
<1>1. PICK n \in Nat : n = Len(s) /\ m \in 0..n
  BY DEF SeenTo
<1>2. PICK k : SeenTo(s, k) /\ Visible(s) = SubSeq(s, 1, k)
  BY VisiblePart
<1>3. k = m
  BY <1>2, SeenOnce
<1>4. IsList(s)
  BY DEF IsList
<1>5. PICK v : v = Visible(s)
  OBVIOUS
<1>6. IsList(v) /\ Len(v) = m /\ \A i \in 1..m : v[i] = s[i]
  BY <1>1, <1>2, <1>3, <1>4, <1>5, ListSplit
<1>7. m = n => v = s
  BY <1>1, <1>4, <1>6, ListsEqual
<1>8. v \in Seq(Bytes)
  BY <1>1, <1>2, <1>3, <1>5
<1> QED
  BY <1>1, <1>2, <1>3, <1>5, <1>6, <1>7, <1>8 DEF Utf8Len

LEMMA BytesSeen ==
  ASSUME NEW s \in Seq(Bytes), NEW m, SeenTo(s, m)
  PROVE  /\ Byte(s, m) = 0
         /\ \A i \in 0..(m - 1) : Byte(s, i) = s[i + 1] /\ Byte(s, i) # 0
<1>1. PICK n \in Nat : n = Len(s) /\ m \in 0..n
  BY DEF SeenTo
<1>2. Byte(s, m) = 0
  BY <1>1 DEF Byte, SeenTo
<1>3. ASSUME NEW i \in 0..(m - 1) PROVE Byte(s, i) = s[i + 1] /\ Byte(s, i) # 0
  <2>1. i + 1 \in 1..m /\ i < n
    BY <1>1
  <2> QED
    BY <1>1, <2>1 DEF Byte, SeenTo
<1> QED
  BY <1>2, <1>3

-----------------------------------------------------------------------------
(* The order of strings.                                                   *)

LEMMA SubSeqFrom ==
  ASSUME NEW u, IsList(u), NEW k \in 0..Len(u)
  PROVE  IsList(SubSeq(u, 1, k)) /\ Len(SubSeq(u, 1, k)) = k /\ \A i \in 1..k : SubSeq(u, 1, k)[i] = u[i]
<1>1. PICK n \in Nat : n = Len(u)
  BY ListFinite
<1> QED
  BY <1>1, ListSplit

LEMMA SubSeqsEqual ==
  ASSUME NEW u, IsList(u), NEW v, IsList(v), NEW k \in Nat, k <= Len(u), k <= Len(v)
  PROVE  SubSeq(u, 1, k) = SubSeq(v, 1, k) <=> \A i \in 1..k : u[i] = v[i]
<1>1. Len(u) \in Nat /\ Len(v) \in Nat
  BY ListFinite
<1>2. k \in 0..Len(u) /\ k \in 0..Len(v)
  BY <1>1
<1>3. PICK x : x = SubSeq(u, 1, k)
  OBVIOUS
<1>4. PICK y : y = SubSeq(v, 1, k)
  OBVIOUS
<1>5. IsList(x) /\ Len(x) = k /\ \A i \in 1..k : x[i] = u[i]
  BY <1>2, <1>3, SubSeqFrom
<1>6. IsList(y) /\ Len(y) = k /\ \A i \in 1..k : y[i] = v[i]
  BY <1>2, <1>4, SubSeqFrom
<1>7. (\A i \in 1..k : u[i] = v[i]) => x = y
  BY <1>5, <1>6, ListsEqual
<1> QED
  BY <1>3, <1>4, <1>5, <1>6, <1>7

(* u, of a numbers, and v, of b, are alike up to the k-th and no further.  *)
Alike(u, a, v, b, k) ==
  /\ IsList(u) /\ IsList(v) /\ a = Len(u) /\ b = Len(v) /\ k <= a /\ k <= b
  /\ (\A i \in 1..a : u[i] \in Int) /\ (\A i \in 1..b : v[i] \in Int)
  /\ \A i \in 1..k : u[i] = v[i]
  /\ k = a \/ k = b \/ u[k + 1] # v[k + 1]

LEMMA BeforeIs ==
  ASSUME NEW a \in Nat, NEW b \in Nat, NEW k \in Nat, NEW u, NEW v, Alike(u, a, v, b, k)
  PROVE  Sem!Before(u, v) <=> k < b /\ (k = a \/ u[k + 1] < v[k + 1])
<1> USE DEF Alike
<1>1. ASSUME k < b, k = a \/ u[k + 1] < v[k + 1] PROVE Sem!Before(u, v)
  <2>1. PICK i \in 1..b : i = k + 1
    BY <1>1
  <2>2. i - 1 = k
    BY <2>1
  <2>3. SubSeq(u, 1, k) = SubSeq(v, 1, k)
    BY SubSeqsEqual
  <2>4. i <= Len(u) + 1 /\ (i <= Len(u) => k # a)
    BY <2>1
  <2> QED
    BY <1>1, <2>1, <2>2, <2>3, <2>4 DEF Sem!Before
<1>2. ASSUME Sem!Before(u, v) PROVE k < b /\ (k = a \/ u[k + 1] < v[k + 1])
  <2>1. PICK i \in 1..b : /\ i <= a + 1 /\ SubSeq(u, 1, i - 1) = SubSeq(v, 1, i - 1)
                          /\ i <= a => u[i] < v[i]
    BY <1>2 DEF Sem!Before
  <2>2. PICK j \in Nat : j = i - 1 /\ j <= a /\ j <= b
    BY <2>1
  <2>3. \A x \in 1..j : u[x] = v[x]
    BY <2>1, <2>2, SubSeqsEqual
  <2>4. ~(i <= k)
    <3> SUFFICES ASSUME i <= k PROVE FALSE
      OBVIOUS
    <3>1. i \in 1..k /\ i \in 1..a /\ i <= a
      OBVIOUS
    <3> QED
      BY <2>1, <3>1
  <2>5. ~(i > k + 1)
    <3> SUFFICES ASSUME i > k + 1 PROVE FALSE
      OBVIOUS
    <3>1. k + 1 \in 1..j /\ k < a /\ k < b
      BY <2>2
    <3> QED
      BY <2>3, <3>1
  <2>6. i = k + 1
    BY <2>4, <2>5
  <2> QED
    BY <2>1, <2>6
<1> QED
  BY <1>1, <1>2

(* What CmpBytes finds, when the strings are alike up to at.               *)
LEMMA CmpBytesOrder ==
  ASSUME NEW s \in Seq(Bytes), NEW t \in Seq(Bytes)
  PROVE  Sign(CmpBytes(s, t)) = IF Sem!Before(Visible(s), Visible(t)) THEN -1
                                ELSE IF Sem!Before(Visible(t), Visible(s)) THEN 1 ELSE 0
<1>1. PICK m \in Nat : SeenTo(s, m)
  BY VisiblePart
<1>2. PICK k \in Nat : SeenTo(t, k)
  BY VisiblePart
<1>3. PICK n \in Nat : n = Len(s) /\ m <= n
  BY <1>1 DEF SeenTo
<1>4. PICK u : u = Visible(s)
  OBVIOUS
<1>5. PICK v : v = Visible(t)
  OBVIOUS
<1>6. IsList(u) /\ Len(u) = m /\ (\A i \in 1..m : u[i] = s[i]) /\ u \in Seq(Bytes)
  BY <1>1, <1>4, VisibleTo
<1>7. IsList(v) /\ Len(v) = k /\ (\A i \in 1..k : v[i] = t[i]) /\ v \in Seq(Bytes)
  BY <1>2, <1>5, VisibleTo
<1>8. Bytes \subseteq Nat
  BY DEF Bytes
<1>9. (\A i \in 1..m : u[i] \in Int) /\ (\A i \in 1..k : v[i] \in Int)
  <2>1. ASSUME NEW z \in Seq(Bytes), NEW i \in 1..Len(z) PROVE z[i] \in Int
    <3>1. z[i] \in Bytes
      OBVIOUS
    <3> QED
      BY <3>1 DEF Bytes
  <2>2. \A i \in 1..m : u[i] \in Int
    BY <1>6, <2>1
  <2>3. \A i \in 1..k : v[i] \in Int
    BY <1>7, <2>1
  <2> QED
    BY <2>2, <2>3
<1> DEFINE Z == {i \in 0..Len(s) : Byte(s, i) # Byte(t, i) \/ Byte(s, i) = 0}
<1>10. PICK at : at = First(Z)
  OBVIOUS
<1>11. Byte(s, m) = 0 /\ \A i \in 0..(m - 1) : Byte(s, i) = s[i + 1] /\ Byte(s, i) # 0
  BY <1>1, BytesSeen
<1>12. Byte(t, k) = 0 /\ \A i \in 0..(k - 1) : Byte(t, i) = t[i + 1] /\ Byte(t, i) # 0
  BY <1>2, BytesSeen
<1>13. m \in Z /\ Z \in SUBSET Nat
  BY <1>3, <1>11
<1>14. at \in Z /\ \A i \in Z : at <= i
  <2> HIDE DEF Z
  <2> QED
    BY <1>10, <1>13, FirstIs
<1>15. at \in Nat /\ at <= m
  BY <1>13, <1>14
<1>16. \A i \in 0..(at - 1) : Byte(s, i) = Byte(t, i) /\ Byte(s, i) # 0
  <2> TAKE i \in 0..(at - 1)
  <2>1. i \in 0..Len(s) /\ ~(at <= i)
    BY <1>3, <1>15
  <2> QED
    BY <1>14, <2>1
<1>17. at <= k
  <2> SUFFICES ASSUME k < at PROVE FALSE
    BY <1>15
  <2>1. k \in 0..(at - 1)
    BY <1>15
  <2> QED
    BY <1>12, <1>16, <2>1
<1>18. \A i \in 1..at : u[i] = v[i]
  <2> TAKE i \in 1..at
  <2>1. i - 1 \in 0..(at - 1) /\ i - 1 \in 0..(m - 1) /\ i - 1 \in 0..(k - 1) /\ (i - 1) + 1 = i
        /\ i \in 1..m /\ i \in 1..k
    BY <1>15, <1>17
  <2> QED
    BY <1>6, <1>7, <1>11, <1>12, <1>16, <2>1
<1>19. PICK x \in Nat : x = Byte(s, at)
  BY <1>15, ByteIs
<1>20. PICK y \in Nat : y = Byte(t, at)
  BY <1>15, ByteIs
<1>21. CmpBytes(s, t) = x - y
  BY <1>10, <1>19, <1>20 DEF CmpBytes
<1>22. x # y \/ x = 0
  BY <1>14, <1>19, <1>20
<1>23. (at = m => x = 0) /\ (at < m => x = u[at + 1] /\ x # 0)
  <2>1. at < m => at \in 0..(m - 1) /\ at + 1 \in 1..m
    BY <1>15
  <2> QED
    BY <1>6, <1>11, <1>15, <1>19, <2>1
<1>24. (at = k => y = 0) /\ (at < k => y = v[at + 1] /\ y # 0)
  <2>1. at < k => at \in 0..(k - 1) /\ at + 1 \in 1..k
    BY <1>15, <1>17
  <2> QED
    BY <1>7, <1>12, <1>15, <1>20, <2>1
<1>25. at = m \/ at = k \/ u[at + 1] # v[at + 1]
  BY <1>15, <1>17, <1>22, <1>23, <1>24
<1>26. Sem!Before(u, v) <=> at < k /\ (at = m \/ u[at + 1] < v[at + 1])
  <2>1. Alike(u, m, v, k, at)
    BY <1>6, <1>7, <1>9, <1>15, <1>17, <1>18, <1>25 DEF Alike
  <2> QED
    BY <1>15, <2>1, BeforeIs
<1>27. Sem!Before(v, u) <=> at < m /\ (at = k \/ v[at + 1] < u[at + 1])
  <2>1. Alike(v, k, u, m, at)
    BY <1>6, <1>7, <1>9, <1>15, <1>17, <1>18, <1>25 DEF Alike
  <2> QED
    BY <1>15, <2>1, BeforeIs
<1>28. Sem!Before(u, v) <=> x < y
  BY <1>15, <1>17, <1>23, <1>24, <1>26
<1>29. Sem!Before(v, u) <=> y < x
  BY <1>15, <1>17, <1>23, <1>24, <1>27
<1> QED
  BY <1>4, <1>5, <1>21, <1>28, <1>29 DEF Sign

-----------------------------------------------------------------------------
(* Strings as OperandSem sees them.                                        *)

LEMMA SemTextIs ==
  ASSUME NEW s \in Seq(Bytes)
  PROVE  /\ SemText(s).v = Visible(s) /\ SemText(s).e = <<>>
         /\ SemText(s).k = "text" <=> Visible(s) = s
         /\ SemText(s).k = "cut" <=> Visible(s) # s
         /\ SemText(s).k \in {"text", "cut"} /\ Sem!IsText(SemText(s))
BY DEF SemText, Cell, Sem!IsText

(* What SemText makes of a string seen up to m.                            *)
LEMMA SemTextTo ==
  ASSUME NEW s \in Seq(Bytes), NEW m, SeenTo(s, m), NEW v, IsList(v), Len(v) = m,
         \A i \in 1..m : v[i] = s[i]
  PROVE  SemText(s) = Cell(IF m = Len(s) THEN "text" ELSE "cut", v, <<>>)
<1>1. PICK w : w = Visible(s)
  OBVIOUS
<1>2. /\ Len(w) = m /\ IsList(w) /\ \A i \in 1..m : w[i] = s[i]
      /\ w = s <=> m = Len(s)
  BY <1>1, VisibleTo
<1>3. m \in Nat
  BY DEF SeenTo
<1>4. w = v
  BY <1>2, <1>3, ListsEqual
<1> QED
  BY <1>1, <1>2, <1>4 DEF SemText

LEMMA CutTo ==
  ASSUME NEW s \in Seq(Bytes), NEW m \in Nat, NEW n \in Nat, n = Len(s), m # n, SeenTo(s, m),
         NEW v, IsList(v), Len(v) = m, \A i \in 1..m : v[i] = s[i]
  PROVE  SemText(s) = Cell("cut", v, <<>>)
<1>1. SemText(s) = Cell(IF m = Len(s) THEN "text" ELSE "cut", v, <<>>)
  BY SemTextTo
<1> QED
  BY <1>1

LEMMA BytesJoin ==
  ASSUME NEW s \in Seq(Bytes), NEW t \in Seq(Bytes)
  PROVE  s \o t \in Seq(Bytes) /\ IsList(s) /\ IsList(t)
BY DEF IsList

LEMMA SemTextJoined ==
  ASSUME NEW s \in Seq(Bytes), NEW t \in Seq(Bytes)
  PROVE  SemText(s \o t) = IF SemText(s).k = "cut" THEN SemText(s)
                           ELSE Cell(SemText(t).k, Visible(s) \o Visible(t), <<>>)
<1>1. PICK m \in Nat : SeenTo(s, m)
  BY VisiblePart
<1>2. PICK k \in Nat : SeenTo(t, k)
  BY VisiblePart
<1>3. PICK a \in Nat : a = Len(s) /\ m <= a
  BY <1>1 DEF SeenTo
<1>4. PICK b \in Nat : b = Len(t) /\ k <= b
  BY <1>2 DEF SeenTo
<1>5. PICK j : j = s \o t
  OBVIOUS
<1>6. /\ j \in Seq(Bytes) /\ IsList(j) /\ Len(j) = a + b
      /\ \A i \in 1..a : j[i] = s[i]
      /\ \A i \in 1..b : j[a + i] = t[i]
  BY <1>3, <1>4, <1>5, BytesJoin, ListConcat
<1>7. PICK u : u = Visible(s)
  OBVIOUS
<1>8. PICK v : v = Visible(t)
  OBVIOUS
<1>9. IsList(u) /\ Len(u) = m /\ (\A i \in 1..m : u[i] = s[i]) /\ (u = s <=> m = a)
  BY <1>1, <1>3, <1>7, VisibleTo
<1>10. IsList(v) /\ Len(v) = k /\ (\A i \in 1..k : v[i] = t[i]) /\ (v = t <=> k = b)
  BY <1>2, <1>4, <1>8, VisibleTo
<1>11. CASE m = a
  <2>1. \A i \in 1..(a + k) : \/ i \in 1..a
                              \/ \E x \in 1..k : i = a + x /\ x \in 1..b
    <3> TAKE i \in 1..(a + k)
    <3>1. CASE i <= a
      BY <3>1
    <3>2. CASE i > a
      <4>1. i - a \in 1..k /\ i - a \in 1..b /\ i = a + (i - a)
        BY <1>4, <3>2
      <4> QED
        BY <4>1
    <3> QED
      BY <3>1, <3>2
  <2>2. ASSUME NEW i \in 1..(a + k) PROVE j[i] # 0
    <3>1. CASE i \in 1..a
      BY <1>1, <1>6, <1>11, <3>1 DEF SeenTo
    <3>2. CASE \E x \in 1..k : i = a + x /\ x \in 1..b
      <4>1. PICK x \in 1..k : i = a + x /\ x \in 1..b
        BY <3>2
      <4>2. j[a + x] = t[x] /\ t[x] # 0
        BY <1>2, <1>6, <4>1 DEF SeenTo
      <4> QED
        BY <4>1, <4>2
    <3> QED
      BY <2>1, <3>1, <3>2
  <2>3. k < b => j[(a + k) + 1] = 0
    <3> SUFFICES ASSUME k < b PROVE j[(a + k) + 1] = 0
      OBVIOUS
    <3>1. k + 1 \in 1..b /\ (a + k) + 1 = a + (k + 1)
      OBVIOUS
    <3> QED
      BY <1>2, <1>4, <1>6, <3>1 DEF SeenTo
  <2>4. SeenTo(j, a + k)
    <3>1. a + k \in 0..Len(j) /\ (a + k < Len(j) => k < b)
      BY <1>3, <1>4, <1>6
    <3> QED
      BY <2>2, <2>3, <3>1 DEF SeenTo
  <2>5. PICK w : w = u \o v
    OBVIOUS
  <2>6. /\ IsList(w) /\ Len(w) = a + k
        /\ \A i \in 1..a : w[i] = u[i]
        /\ \A i \in 1..k : w[a + i] = v[i]
    <3>1. IsList(u) /\ Len(u) = a /\ IsList(v) /\ Len(v) = k
      BY <1>9, <1>10, <1>11
    <3>2. /\ IsList(u \o v) /\ Len(u \o v) = Len(u) + Len(v)
          /\ \A i \in 1..Len(u) : (u \o v)[i] = u[i]
          /\ \A i \in 1..Len(v) : (u \o v)[Len(u) + i] = v[i]
      <4>1. IsList(u) /\ IsList(v)
        BY <3>1
      <4> QED
        BY <4>1, ListConcat
    <3> QED
      BY <2>5, <3>1, <3>2
  <2>7. ASSUME NEW i \in 1..(a + k) PROVE w[i] = j[i]
    <3>1. CASE i \in 1..a
      BY <1>6, <1>9, <1>11, <2>6, <3>1
    <3>2. CASE \E x \in 1..k : i = a + x /\ x \in 1..b
      <4>1. PICK x \in 1..k : i = a + x /\ x \in 1..b
        BY <3>2
      <4>2. j[a + x] = t[x] /\ w[a + x] = v[x] /\ v[x] = t[x]
        BY <1>6, <1>10, <2>6, <4>1
      <4> QED
        BY <4>1, <4>2
    <3> QED
      BY <2>1, <3>1, <3>2
  <2>8. SemText(j) = Cell(IF a + k = Len(j) THEN "text" ELSE "cut", w, <<>>)
    BY <1>6, <2>4, <2>6, <2>7, SemTextTo
  <2>9. a + k = Len(j) <=> k = b
    <3>1. Len(j) = a + b
      BY ONLY <1>6
    <3>2. a + k = a + b <=> k = b
      OBVIOUS
    <3> QED
      BY ONLY <3>1, <3>2
  <2>10. SemText(s).k # "cut" /\ SemText(t).k = (IF k = b THEN "text" ELSE "cut")
    BY <1>7, <1>8, <1>9, <1>10, <1>11, SemTextIs
  <2> QED
    BY <1>5, <1>7, <1>8, <2>5, <2>8, <2>9, <2>10
<1>12. CASE m # a
  <2>1. m < a /\ m + 1 \in 1..a /\ \A i \in 1..m : i \in 1..a
    BY <1>3, <1>12
  <2>2. SeenTo(j, m)
    BY <1>1, <1>3, <1>4, <1>6, <2>1 DEF SeenTo
  <2>3. \A i \in 1..m : u[i] = j[i]
    BY <1>6, <1>9, <2>1
  <2>4. m # Len(j)
    BY <1>4, <1>6, <2>1
  <2>5. SemText(j) = Cell("cut", u, <<>>)
    <3>1. PICK l \in Nat : l = Len(j)
      BY <1>6
    <3>2. m # l
      BY <2>4, <3>1
    <3> QED
      BY <1>6, <1>9, <2>2, <2>3, <3>1, <3>2, CutTo
  <2>6. SemText(s) = Cell("cut", u, <<>>) /\ SemText(s).k = "cut"
    BY <1>7, <1>9, <1>12, SemTextIs DEF SemText
  <2> QED
    BY <1>5, <2>5, <2>6
<1> QED
  BY <1>11, <1>12

-----------------------------------------------------------------------------
(* One character of a string.                                              *)

LEMMA GlyphText ==
  ASSUME NEW s \in Seq(Bytes), NEW m \in Nat, SeenTo(s, m), NEW i \in 0..m
  PROVE  /\ Glyph(s, i) # NoGlyph
         /\ SemText(Glyph(s, i)) = Sem!Cut(IF i = m THEN <<>> ELSE <<Visible(s)[i + 1]>>)
<1>1. Utf8Len(s) = m /\ ~(i > m)
  BY VisibleTo
<1>2. PICK x : x = Byte(s, i)
  OBVIOUS
<1>3. PICK g : g = <<x, 0, 0, 0>>
  OBVIOUS
<1>4. Glyph(s, i) = g
  BY <1>1, <1>2, <1>3 DEF Glyph
<1>5. g \in Seq(Bytes)
  BY <1>4, GlyphIs
<1>6. Len(g) = 4 /\ g[1] = x /\ g[2] = 0
  BY <1>3
<1>7. IsList(<<>>) /\ Len(<<>>) = 0
  BY EmptyList
<1>8. CASE i = m
  <2>1. x = 0
    BY <1>2, <1>8, BytesSeen
  <2>2. PICK z : z = 0
    OBVIOUS
  <2>3. SeenTo(g, z)
    BY <1>6, <2>1, <2>2 DEF SeenTo
  <2>4. SemText(g) = Cell("cut", <<>>, <<>>)
    <3>1. PICK l \in Nat : l = Len(g) /\ z # l /\ z \in Nat
      BY <1>6, <2>2
    <3>2. PICK v : v = <<>>
      OBVIOUS
    <3>3. IsList(v) /\ Len(v) = z /\ \A k \in 1..z : v[k] = g[k]
      BY <1>7, <2>2, <3>2
    <3>4. SemText(g) = Cell("cut", v, <<>>)
      BY <1>5, <2>3, <3>1, <3>3, CutTo
    <3> QED
      BY <3>2, <3>4
  <2> QED
    BY <1>3, <1>4, <1>8, <2>4, SameWords DEF Sem!Cut, NoGlyph
<1>9. CASE i # m
  <2>1. i \in 0..(m - 1) /\ i + 1 \in 1..m
    BY <1>9
  <2>2. x # 0 /\ x = s[i + 1] /\ Visible(s)[i + 1] = s[i + 1]
    BY <1>2, <2>1, BytesSeen, VisibleTo
  <2>3. PICK o : o = 1
    OBVIOUS
  <2>4. SeenTo(g, o)
    BY <1>6, <2>2, <2>3 DEF SeenTo
  <2>5. PICK v : v = <<x>>
    OBVIOUS
  <2>6. IsList(v) /\ Len(v) = o /\ \A k \in 1..o : v[k] = g[k]
    BY <1>6, <2>3, <2>5, OneElement
  <2>7. SemText(g) = Cell("cut", v, <<>>)
    <3>1. PICK l \in Nat : l = Len(g) /\ o # l /\ o \in Nat
      BY <1>6, <2>3
    <3> QED
      BY <1>5, <2>4, <2>6, <3>1, CutTo
  <2> QED
    BY <1>3, <1>4, <1>9, <2>2, <2>5, <2>7, SameWords DEF Sem!Cut, NoGlyph
<1> QED
  BY <1>8, <1>9

-----------------------------------------------------------------------------
(* Parts of strings.                                                       *)

LEMMA BeforeIndexIs ==
  ASSUME NEW v, NEW m \in Nat, Len(v) = m, NEW c, c.k # "null", N(c) \in Int, NEW default
  PROVE  Sem!BeforeIndex(v, c) = SliceIndex(c, m, default)
<1>1. PICK n \in Int : n = N(c)
  OBVIOUS
<1>2. PICK j \in Int : j = IF n < 0 THEN m + n ELSE n
  OBVIOUS
<1>3. PICK k \in 0..m : k = IF j < 0 THEN 0 ELSE IF j >= m THEN m ELSE j
  OBVIOUS
<1>4. SliceIndex(c, m, default) = k
  BY <1>1, <1>2, <1>3 DEF SliceIndex
<1>5. ASSUME NEW x \in 0..m
      PROVE  (\A i \in 0..(m - 1) : i < x <=> (IF n < 0 THEN i - m < n ELSE i < n)) <=> x = k
  <2>1. \A i \in 0..(m - 1) : (IF n < 0 THEN i - m < n ELSE i < n) <=> i < k
    BY <1>2, <1>3
  <2>2. CASE x = k
    BY <2>1, <2>2
  <2>3. CASE x < k
    <3>1. x \in 0..(m - 1) /\ ~(x < x)
      BY <2>3
    <3> QED
      BY <2>1, <2>3, <3>1
  <2>4. CASE x > k
    <3>1. k \in 0..(m - 1) /\ ~(k < k)
      BY <2>4
    <3> QED
      BY <2>1, <2>4, <3>1
  <2> QED
    BY <2>2, <2>3, <2>4
<1>6. Sem!BeforeIndex(v, c) =
        CHOOSE x \in 0..m : \A i \in 0..(m - 1) : i < x <=> (IF n < 0 THEN i - m < n ELSE i < n)
  BY <1>1, SameWords DEF Sem!BeforeIndex
<1> QED
  BY <1>4, <1>5, <1>6

IsIndex(c) == c.k \in {"int", "null"} /\ (c.k = "int" => N(c) \in Int)

(* A part of the bytes before the first 0.                                 *)
LEMMA PartSeen ==
  ASSUME NEW s \in Seq(Bytes), NEW m \in Nat, SeenTo(s, m), NEW a \in 0..m, NEW b \in 0..m
  PROVE  SemText(IF b <= a THEN <<>> ELSE SubSeq(s, a + 1, b)) = Text(SubSeq(Visible(s), a + 1, b))
<1>1. PICK n \in Nat : n = Len(s) /\ m <= n
  BY DEF SeenTo
<1>2. PICK v : v = Visible(s)
  OBVIOUS
<1>3. IsList(v) /\ v \in Seq(Bytes) /\ Len(v) = m /\ \A i \in 1..m : v[i] = s[i]
  BY <1>2, VisibleTo
<1>4. CASE b <= a
  <2>1. SubSeq(v, a + 1, b) = <<>>
    BY <1>4, SubSeqEmpty
  <2>2. <<>> \in Seq(Bytes) /\ SeenTo(<<>>, 0) /\ IsList(<<>>) /\ Len(<<>>) = 0
    BY EmptyList DEF SeenTo
  <2>3. PICK z \in Nat : z = 0
    OBVIOUS
  <2>4. PICK w : w = <<>>
    OBVIOUS
  <2>5. w \in Seq(Bytes) /\ SeenTo(w, z) /\ IsList(w) /\ Len(w) = z /\ \A i \in 1..z : w[i] = w[i]
    BY <2>2, <2>3, <2>4
  <2>6. SemText(w) = Cell(IF z = Len(w) THEN "text" ELSE "cut", w, <<>>)
    BY <2>5, SemTextTo
  <2>7. SemText(w) = Cell("text", w, <<>>)
    BY <2>5, <2>6
  <2> QED
    BY <1>2, <1>4, <2>1, <2>4, <2>7 DEF Text
<1>5. CASE ~(b <= a)
  <2>1. PICK l \in Nat : l = b - a
    BY <1>5
  <2>2. PICK x : x = SubSeq(s, a + 1, b)
    OBVIOUS
  <2>3. PICK y : y = SubSeq(v, a + 1, b)
    OBVIOUS
  <2>4. \A i \in (a + 1)..b : i \in 1..n /\ i \in 1..m
    BY <1>1
  <2>5. \A i \in (a + 1)..b : s[i] \in Bytes /\ v[i] \in Bytes
    <3>1. \A i \in 1..n : s[i] \in Bytes
      BY <1>1, ElementOfSeq
    <3>2. \A i \in 1..m : v[i] \in Bytes
      BY <1>3, ElementOfSeq
    <3> QED
      BY <2>4, <3>1, <3>2
  <2>6. a + 1 \in Int /\ b \in Int /\ a + 1 <= b /\ b - (a + 1) + 1 = l
    BY <1>5, <2>1
  <2>7. x \in Seq(Bytes) /\ Len(x) = l /\ \A i \in 1..l : x[i] = s[(a + 1) + i - 1]
    <3>1. /\ SubSeq(s, a + 1, b) \in Seq(Bytes)
          /\ Len(SubSeq(s, a + 1, b)) = IF a + 1 <= b THEN b - (a + 1) + 1 ELSE 0
          /\ \A i \in 1..(b - (a + 1) + 1) : SubSeq(s, a + 1, b)[i] = s[(a + 1) + i - 1]
      BY <2>5, <2>6, SubSeqProperties
    <3> QED
      BY <2>2, <2>6, <3>1
  <2>8. y \in Seq(Bytes) /\ Len(y) = l /\ \A i \in 1..l : y[i] = v[(a + 1) + i - 1]
    <3>1. /\ SubSeq(v, a + 1, b) \in Seq(Bytes)
          /\ Len(SubSeq(v, a + 1, b)) = IF a + 1 <= b THEN b - (a + 1) + 1 ELSE 0
          /\ \A i \in 1..(b - (a + 1) + 1) : SubSeq(v, a + 1, b)[i] = v[(a + 1) + i - 1]
      BY <2>5, <2>6, SubSeqProperties
    <3> QED
      BY <2>3, <2>6, <3>1
  <2>9. \A i \in 1..l : (a + 1) + i - 1 \in 1..m
    BY <2>1
  <2>10. \A i \in 1..l : x[i] # 0 /\ y[i] = x[i]
    BY <1>3, <2>7, <2>8, <2>9 DEF SeenTo
  <2>11. SeenTo(x, l)
    BY <2>7, <2>10 DEF SeenTo
  <2>12. SemText(x) = Cell(IF l = Len(x) THEN "text" ELSE "cut", y, <<>>)
    <3>1. IsList(y)
      BY <2>8 DEF IsList
    <3> QED
      BY <2>7, <2>8, <2>10, <2>11, <3>1, SemTextTo
  <2> QED
    BY <1>2, <1>5, <2>2, <2>3, <2>7, <2>12 DEF Text
<1> QED
  BY <1>4, <1>5

LEMMA SliceText ==
  ASSUME NEW s \in Seq(Bytes), Len(s) <= MaxText, NEW from, IsIndex(from), NEW to, IsIndex(to)
  PROVE  SemText(SliceBytes(s, from, to)) = Text(Sem!SliceOf(Visible(s), from, to))
<1>1. PICK m \in Nat : SeenTo(s, m)
  BY VisiblePart
<1>2. PICK n \in Nat : n = Len(s) /\ m <= n
  BY <1>1 DEF SeenTo
<1>3. PICK h \in Nat : h = Half /\ m < h
  BY <1>2, OperandAssumption
<1>4. PICK v : v = Visible(s)
  OBVIOUS
<1>5. Len(v) = m /\ Utf8Len(s) = m
  BY <1>1, <1>4, VisibleTo
<1>6. PICK a : a = SliceIndex(from, m, 0)
  OBVIOUS
<1>7. PICK b : b = SliceIndex(to, m, h)
  OBVIOUS
<1>8. a \in 0..m /\ b \in 0..m
  <2>1. Index(from) /\ Index(to)
    BY DEF IsIndex, Index
  <2> QED
    BY <1>6, <1>7, <2>1, SliceIndexIs
<1>9. SliceBytes(s, from, to) = IF b <= a THEN <<>> ELSE SubSeq(s, a + 1, b)
  BY <1>3, <1>5, <1>6, <1>7 DEF SliceBytes
<1>10. (IF from.k = "null" THEN 1 ELSE Sem!BeforeIndex(v, from) + 1) = a + 1
  <2>1. CASE from.k = "null"
    BY <1>6, <2>1 DEF SliceIndex
  <2>2. CASE from.k # "null"
    <3>1. N(from) \in Int
      BY <2>2 DEF IsIndex
    <3> QED
      BY <1>5, <1>6, <2>2, <3>1, BeforeIndexIs
  <2> QED
    BY <2>1, <2>2
<1>11. (IF to.k = "null" THEN Len(v) ELSE Sem!BeforeIndex(v, to)) = b
  <2>1. CASE to.k = "null"
    BY <1>3, <1>5, <1>7, <2>1 DEF SliceIndex
  <2>2. CASE to.k # "null"
    <3>1. N(to) \in Int
      BY <2>2 DEF IsIndex
    <3> QED
      BY <1>5, <1>7, <2>2, <3>1, BeforeIndexIs
  <2> QED
    BY <2>1, <2>2
<1>12. Sem!SliceOf(v, from, to) = SubSeq(v, a + 1, b)
  BY <1>10, <1>11 DEF Sem!SliceOf
<1> QED
  BY <1>1, <1>4, <1>8, <1>9, <1>12, PartSeen

-----------------------------------------------------------------------------
(* Indexes.                                                                *)

LEMMA GetText ==
  ASSUME NEW s \in Seq(Bytes), Len(s) <= MaxText, NEW i \in Int,
         NEW index, index = (IF i < 0 THEN Utf8Len(s) + i ELSE i) % IndexMod
  PROVE  /\ Glyph(s, index) = NoGlyph => Sem!Raise \in Sem!Glyphs(SemText(s), i)
         /\ Glyph(s, index) # NoGlyph =>
              Sem!OrStopped(SemText(s), SemText(Glyph(s, index))) \subseteq Sem!Glyphs(SemText(s), i)
<1>1. PICK m \in Nat : SeenTo(s, m)
  BY VisiblePart
<1>2. PICK n \in Nat : n = Len(s) /\ m <= n
  BY <1>1 DEF SeenTo
<1>3. PICK d \in Nat : d = IndexMod /\ m < d
  BY <1>2, OperandAssumption
<1>4. PICK v : v = Visible(s)
  OBVIOUS
<1>5. Len(v) = m /\ Utf8Len(s) = m
  BY <1>1, <1>4, VisibleTo
<1>6. PICK j \in Int : j = IF i < 0 THEN m + i ELSE i
  OBVIOUS
<1>7. PICK x \in 0..(d - 1) : x = index
  BY <1>3, <1>5, <1>6
<1>8. x = j % d
  BY <1>3, <1>5, <1>6, <1>7
<1>9. PICK a : a = SemText(s)
  OBVIOUS
<1>10. a.v = v
  BY <1>4, <1>9, SemTextIs
<1> DEFINE Char(k) == Sem!Cut(IF k = m THEN <<>> ELSE <<v[k + 1]>>)
<1>11. Sem!Glyphs(a, i) =
         IF j \in 0..m THEN Sem!OrStopped(a, Char(j))
         ELSE IF j \in (m - d + 1)..(d - 1) THEN {Sem!Raise}
         ELSE {Sem!Raise} \union UNION {Sem!OrStopped(a, Char(k)) : k \in 0..m}
  BY <1>3, <1>5, <1>6, <1>10 DEF Sem!Glyphs
<1>12. ASSUME NEW k \in 0..m PROVE Glyph(s, k) # NoGlyph /\ SemText(Glyph(s, k)) = Char(k)
  BY <1>1, <1>4, GlyphText
<1>13. x > m => Glyph(s, x) = NoGlyph
  BY <1>5 DEF Glyph
<1>14. x <= m => x \in 0..m
  OBVIOUS
<1> HIDE DEF Char
<1>15. CASE j \in 0..m
  <2>1. x = j
    BY <1>3, <1>8, <1>15
  <2> QED
    BY <1>7, <1>9, <1>11, <1>12, <1>15, <2>1
<1>16. CASE j \notin 0..m /\ j \in (m - d + 1)..(d - 1)
  <2>1. x > m
    <3>1. CASE j >= 0
      <4>1. x = j
        BY <1>3, <1>8, <1>16, <3>1
      <4> QED
        BY <1>16, <3>1, <4>1
    <3>2. CASE j < 0
      <4>1. j + d \in 0..(d - 1) /\ j + d > m
        BY <1>3, <1>16, <3>2
      <4>2. j % d = j + d
        BY <1>3, <4>1
      <4> QED
        BY <1>8, <4>1, <4>2
    <3> QED
      BY <3>1, <3>2
  <2> QED
    BY <1>7, <1>9, <1>11, <1>13, <1>16, <2>1
<1>17. CASE j \notin 0..m /\ j \notin (m - d + 1)..(d - 1)
  <2>1. Sem!Glyphs(a, i) = {Sem!Raise} \union UNION {Sem!OrStopped(a, Char(k)) : k \in 0..m}
    BY <1>11, <1>17
  <2>2. CASE x > m
    BY <1>7, <1>9, <1>13, <2>1, <2>2
  <2>3. CASE x \in 0..m
    <3>1. Sem!OrStopped(a, Char(x)) \subseteq Sem!Glyphs(a, i)
      BY <2>1, <2>3
    <3> QED
      BY <1>7, <1>9, <1>12, <2>3, <3>1
  <2> QED
    BY <1>14, <2>2, <2>3
<1> QED
  BY <1>15, <1>16, <1>17

-----------------------------------------------------------------------------
(* Numbers as characters.                                                  *)

Reached(m)    == {i \in 1..IntWidth : 10 ^ i <= m}
DigitCount(m) == 1 + Cardinality(Reached(m))
Digits(m)     == [i \in 1..DigitCount(m) |-> Zero + ((m \div (10 ^ (DigitCount(m) - i))) % 10)]

LEMMA Power ==
  ASSUME NEW i \in 0..IntWidth
  PROVE  \E p \in Nat \ {0} : p = 10 ^ i /\ 10 ^ (i + 1) = 10 * p
BY PowersAssumption

LEMMA ReachedFinite ==
  ASSUME NEW m \in Nat
  PROVE  /\ IsFiniteSet(Reached(m)) /\ Cardinality(Reached(m)) \in 0..IntWidth
         /\ DigitCount(m) \in 1..(IntWidth + 1)
<1>1. PICK w \in Nat : w = IntWidth
  BY OperandAssumption
<1>2. IsFiniteSet(1..w) /\ Cardinality(1..w) = w
  <2>1. 1 \in Int /\ w \in Int
    OBVIOUS
  <2>2. IsFiniteSet(1..w) /\ Cardinality(1..w) = IF 1 > w THEN 0 ELSE w - 1 + 1
    BY <2>1, FS_Interval
  <2> QED
    BY <2>2
<1>3. Reached(m) \subseteq 1..w
  BY <1>1 DEF Reached
<1>4. IsFiniteSet(Reached(m)) /\ Cardinality(Reached(m)) <= w
  BY <1>2, <1>3, FS_Subset
<1>5. Cardinality(Reached(m)) \in Nat
  BY <1>4, FS_CardinalityType
<1> QED
  BY <1>1, <1>4, <1>5 DEF DigitCount

LEMMA Shifted ==
  ASSUME NEW T \in SUBSET Nat, IsFiniteSet(T)
  PROVE  IsFiniteSet({i + 1 : i \in T}) /\ Cardinality({i + 1 : i \in T}) = Cardinality(T)
<1> DEFINE U == {i + 1 : i \in T}
           f == [i \in T |-> i + 1]
<1>1. f \in Bijection(T, U)
  <2>1. f \in [T -> U]
    OBVIOUS
  <2>2. \A i, j \in T : f[i] = f[j] => i = j
    OBVIOUS
  <2>3. \A t \in U : \E i \in T : f[i] = t
    OBVIOUS
  <2> QED
    BY <2>1, <2>2, <2>3, Fun_IsBij
<1>2. ExistsBijection(T, U)
  BY <1>1 DEF ExistsBijection
<1> HIDE DEF U
<1> QED
  BY <1>2, FS_Bijection DEF U

LEMMA OneDigit ==
  ASSUME NEW m \in 0..9
  PROVE  DigitCount(m) = 1
<1>1. ASSUME NEW i \in 1..IntWidth PROVE ~(10 ^ i <= m)
  <2>1. i - 1 \in 0..IntWidth /\ (i - 1) + 1 = i
    BY OperandAssumption
  <2>2. PICK p \in Nat \ {0} : 10 ^ i = 10 * p
    BY <2>1, Power
  <2> QED
    BY <2>2
<1>2. Reached(m) = {}
  BY <1>1 DEF Reached
<1> QED
  BY <1>2, FS_EmptySet DEF DigitCount

LEMMA MoreDigits ==
  ASSUME NEW m \in 10..Half, NEW q \in Nat, NEW r \in 0..9, m = 10 * q + r
  PROVE  DigitCount(m) = DigitCount(q) + 1
<1>1. PICK w \in Nat : w = IntWidth
  BY OperandAssumption
<1>2. m \in Nat /\ q >= 1
  BY OperandAssumption
<1>3. ASSUME NEW i \in Nat, i <= w PROVE (10 ^ (i + 1) <= m) <=> (10 ^ i <= q)
  <2>1. PICK p \in Nat \ {0} : p = 10 ^ i /\ 10 ^ (i + 1) = 10 * p
    <3>1. i \in 0..IntWidth
      BY <1>1, <1>3
    <3> QED
      BY <3>1, Power
  <2> QED
    BY <2>1
<1>4. ~(10 ^ w <= q)
  BY <1>1, PowersAssumption, OperandAssumption, Power
<1>5. w >= 1 /\ 10 ^ 1 <= m
  <2>1. 10 ^ (0 + 1) = 10 * (10 ^ 0) /\ 10 ^ 0 = 1
    BY <1>1, PowersAssumption
  <2>2. 10 ^ 1 = 10
    BY <2>1
  <2> QED
    BY <1>1, <2>2, OperandAssumption
<1>6. Reached(m) = {i + 1 : i \in Reached(q)} \union {1}
  <2>1. ASSUME NEW x \in Reached(m) PROVE x = 1 \/ x \in {i + 1 : i \in Reached(q)}
    <3>1. x \in 1..w /\ 10 ^ x <= m
      BY <1>1, <2>1 DEF Reached
    <3>2. ASSUME x # 1 PROVE x - 1 \in Reached(q)
      <4>1. PICK y \in 1..w : y = x - 1 /\ y + 1 = x
        BY <3>1, <3>2
      <4>2. 10 ^ y <= q
        BY <1>3, <3>1, <4>1
      <4> QED
        BY <1>1, <4>1, <4>2 DEF Reached
    <3>3. x = (x - 1) + 1
      BY <3>1
    <3> QED
      BY <3>2, <3>3
  <2>2. ASSUME NEW i \in Reached(q) PROVE i + 1 \in Reached(m)
    <3>1. i \in 1..w /\ 10 ^ i <= q
      BY <1>1, <2>2 DEF Reached
    <3>2. 10 ^ (i + 1) <= m
      BY <1>3, <3>1
    <3>3. i # w
      BY <1>4, <3>1
    <3>4. i + 1 \in 1..w
      BY <3>1, <3>3
    <3> QED
      BY <1>1, <3>2, <3>4 DEF Reached
  <2>3. 1 \in Reached(m)
    BY <1>1, <1>5 DEF Reached
  <2> QED
    BY <2>1, <2>2, <2>3
<1>7. PICK T : T = Reached(q)
  OBVIOUS
<1>8. IsFiniteSet(T) /\ T \in SUBSET Nat /\ Cardinality(T) \in Nat /\ 0 \notin T
  <2>1. T \subseteq 1..w
    BY <1>1, <1>7 DEF Reached
  <2>2. IsFiniteSet(T) /\ Cardinality(T) \in 0..w
    BY <1>1, <1>7, ReachedFinite
  <2> QED
    BY <2>1, <2>2
<1>9. PICK U : U = {i + 1 : i \in T}
  OBVIOUS
<1>10. IsFiniteSet(U) /\ Cardinality(U) = Cardinality(T)
  BY <1>8, <1>9, Shifted
<1>11. 1 \notin U
  <2>1. \A i \in T : i + 1 # 1
    BY <1>8
  <2> QED
    BY <1>9, <2>1
<1>12. Cardinality(U \union {1}) = Cardinality(U) + 1
  BY <1>10, <1>11, FS_AddElement
<1> QED
  BY <1>6, <1>7, <1>8, <1>9, <1>10, <1>12 DEF DigitCount

LEMMA DividedOnce ==
  ASSUME NEW a \in Nat, NEW b \in Nat \ {0}, NEW q \in Nat, NEW r \in 0..(b - 1), a = b * q + r
  PROVE  a \div b = q
<1>1. PICK x : x = a \div b
  OBVIOUS
<1>2. PICK y : y = a - b * x
  OBVIOUS
<1>3. x \in Nat /\ y \in 0..(b - 1) /\ a = b * x + y
  BY <1>1, <1>2, DivisionIs
<1>4. CASE x > q
  <2>1. PICK z \in Nat : x = q + 1 + z
    BY <1>3, <1>4
  <2>2. b * x = b * q + b + b * z /\ b * z >= 0
    BY <2>1
  <2> QED
    BY <1>3, <2>2
<1>5. CASE x < q
  <2>1. PICK z \in Nat : q = x + 1 + z
    BY <1>3, <1>5
  <2>2. b * q = b * x + b + b * z /\ b * z >= 0
    BY <1>3, <2>1
  <2> QED
    BY <1>3, <2>2
<1> QED
  BY <1>1, <1>3, <1>4, <1>5

LEMMA DividedTwice ==
  ASSUME NEW m \in Nat, NEW q \in Nat, NEW r \in 0..9, m = 10 * q + r, NEW p \in Nat \ {0}
  PROVE  m \div (10 * p) = q \div p
<1>1. PICK t : t = q \div p
  OBVIOUS
<1>2. PICK u : u = q - p * t
  OBVIOUS
<1>3. t \in Nat /\ u \in 0..(p - 1)
  BY <1>1, <1>2, DivisionIs
<1>4. PICK x \in Nat : x = p * t
  BY <1>3
<1>5. q = x + u
  BY <1>2, <1>3, <1>4
<1>6. PICK b \in Nat \ {0} : b = 10 * p
  OBVIOUS
<1>7. b * t = 10 * x
  BY <1>3, <1>4, <1>6
<1>8. PICK v : v = 10 * u + r
  OBVIOUS
<1>9. v \in 0..(b - 1) /\ m = b * t + v
  BY <1>3, <1>5, <1>6, <1>7, <1>8
<1>10. m \div b = t
  BY <1>3, <1>9, DividedOnce
<1> QED
  BY <1>1, <1>6, <1>10

LEMMA DigitsList ==
  ASSUME NEW m \in Nat
  PROVE  /\ IsList(Digits(m)) /\ Len(Digits(m)) = DigitCount(m)
         /\ \A i \in 1..DigitCount(m) : Digits(m)[i] \in Bytes \ {0}
<1>1. PICK k \in Nat : k = DigitCount(m)
  BY ReachedFinite
<1>2. PICK d : d = Digits(m)
  OBVIOUS
<1>3. d = [i \in 1..k |-> Zero + ((m \div (10 ^ (k - i))) % 10)]
  BY <1>1, <1>2 DEF Digits
<1>4. d = [i \in 1..k |-> d[i]]
  BY <1>3
<1>5. IsList(d) /\ Len(d) = k
  BY <1>4, ListOf
<1>6. ASSUME NEW i \in 1..k PROVE d[i] \in Bytes \ {0}
  <2>1. k - i \in 0..IntWidth
    <3>1. PICK w \in Nat : w = IntWidth
      BY OperandAssumption
    <3>2. k \in 1..(w + 1)
      BY <1>1, <3>1, ReachedFinite
    <3> QED
      BY <3>1, <3>2
  <2>2. PICK p \in Nat \ {0} : p = 10 ^ (k - i)
    BY <2>1, Power
  <2>3. PICK x : x = m \div p
    OBVIOUS
  <2>4. x \in Nat
    BY <2>3, DivisionIs
  <2>5. PICK y : y = x % 10
    OBVIOUS
  <2>6. y \in 0..9
    BY <2>4, <2>5
  <2>7. d[i] = Zero + y
    BY <1>3, <2>2, <2>3, <2>5
  <2>8. PICK h \in Nat : h = Half
    BY OperandAssumption
  <2> QED
    BY <2>6, <2>7, <2>8, OperandAssumption DEF Bytes
<1> QED
  BY <1>1, <1>2, <1>5, <1>6

LEMMA DigitsOfOne ==
  ASSUME NEW m \in 0..9
  PROVE  Digits(m) = Sem!Digit(m)
<1>1. PICK d : d = Digits(m)
  OBVIOUS
<1>2. IsList(d) /\ Len(d) = 1
  <2>1. m \in Nat /\ DigitCount(m) = 1
    BY OneDigit
  <2>2. IsList(Digits(m)) /\ Len(Digits(m)) = DigitCount(m)
    BY <2>1, DigitsList
  <2> QED
    BY <1>1, <2>1, <2>2
<1>3. d[1] = Zero + m
  <2>1. 10 ^ (1 - 1) = 1
    BY PowersAssumption
  <2>2. m \div 1 = m /\ m % 10 = m
    OBVIOUS
  <2>3. d = [i \in 1..1 |-> Zero + ((m \div (10 ^ (1 - i))) % 10)]
    BY <1>1, OneDigit DEF Digits
  <2>4. d[1] = Zero + ((m \div (10 ^ (1 - 1))) % 10)
    BY <2>3
  <2> QED
    BY <2>1, <2>2, <2>4
<1>4. PICK w : w = << Zero + m >>
  OBVIOUS
<1>5. IsList(w) /\ Len(w) = 1 /\ w[1] = Zero + m
  BY <1>4, OneElement
<1>6. PICK n \in Nat : n = 1
  OBVIOUS
<1>7. Len(d) = n /\ Len(w) = n /\ \A i \in 1..n : d[i] = w[i]
  BY <1>2, <1>3, <1>5, <1>6
<1>8. d = w
  BY <1>2, <1>5, <1>7, ListsEqual
<1> QED
  BY <1>1, <1>4, <1>8 DEF Sem!Digit

LEMMA DigitsOfMore ==
  ASSUME NEW m \in 10..Half, NEW q \in Nat, NEW r \in 0..9, m = 10 * q + r
  PROVE  Digits(m) = Digits(q) \o Sem!Digit(r)
<1>1. m \in Nat
  BY OperandAssumption
<1>2. PICK k \in Nat : k = DigitCount(q) /\ k >= 1 /\ k <= IntWidth + 1 /\ DigitCount(m) = k + 1
  <2>1. PICK w \in Nat : w = IntWidth
    BY OperandAssumption
  <2>2. DigitCount(q) \in 1..(w + 1)
    BY <2>1, ReachedFinite
  <2>3. DigitCount(m) = DigitCount(q) + 1
    BY MoreDigits
  <2> QED
    BY <2>1, <2>2, <2>3
<1>3. PICK d : d = Digits(m)
  OBVIOUS
<1>4. PICK e : e = Digits(q)
  OBVIOUS
<1>5. IsList(d) /\ Len(d) = k + 1
  BY <1>1, <1>2, <1>3, DigitsList
<1>6. IsList(e) /\ Len(e) = k
  BY <1>2, <1>4, DigitsList
<1>7. PICK w : w = << Zero + r >>
  OBVIOUS
<1>8. IsList(w) /\ Len(w) = 1 /\ w[1] = Zero + r
  BY <1>7, OneElement
<1>9. PICK j : j = e \o w
  OBVIOUS
<1>10. /\ IsList(j) /\ Len(j) = k + 1 /\ j[k + 1] = Zero + r
       /\ \A i \in 1..k : j[i] = e[i]
  <2>1. /\ IsList(e \o w) /\ Len(e \o w) = Len(e) + Len(w)
        /\ \A i \in 1..Len(e) : (e \o w)[i] = e[i]
        /\ \A i \in 1..Len(w) : (e \o w)[Len(e) + i] = w[i]
    <3>1. IsList(e) /\ IsList(w)
      BY <1>6, <1>8
    <3> QED
      BY <3>1, ListConcat
  <2> QED
    BY <1>6, <1>8, <1>9, <2>1
<1>11. d = [i \in 1..(k + 1) |-> Zero + ((m \div (10 ^ ((k + 1) - i))) % 10)]
  BY <1>2, <1>3 DEF Digits
<1>12. e = [i \in 1..k |-> Zero + ((q \div (10 ^ (k - i))) % 10)]
  BY <1>2, <1>4 DEF Digits
<1>13. ASSUME NEW i \in 1..k PROVE d[i] = e[i]
  <2>1. PICK x \in 0..IntWidth : x = k - i /\ (k + 1) - i = x + 1
    BY <1>2, OperandAssumption
  <2>2. PICK p \in Nat \ {0} : p = 10 ^ x /\ 10 ^ (x + 1) = 10 * p
    BY <2>1, Power
  <2>3. d[i] = Zero + ((m \div (10 * p)) % 10)
    <3>1. i \in 1..(k + 1)
      OBVIOUS
    <3> QED
      BY <1>11, <2>1, <2>2, <3>1
  <2>4. e[i] = Zero + ((q \div p) % 10)
    BY <1>12, <2>1, <2>2
  <2>5. m \div (10 * p) = q \div p
    BY <1>1, DividedTwice
  <2> QED
    BY <2>3, <2>4, <2>5
<1>14. d[k + 1] = Zero + r
  <2>1. 10 ^ ((k + 1) - (k + 1)) = 1
    BY PowersAssumption
  <2>2. m \div 1 = m /\ m % 10 = r
    BY <1>1
  <2>3. d[k + 1] = Zero + ((m \div (10 ^ ((k + 1) - (k + 1)))) % 10)
    BY <1>11
  <2> QED
    BY <2>1, <2>2, <2>3
<1>15. PICK n \in Nat : n = k + 1
  OBVIOUS
<1>16. ASSUME NEW i \in 1..n PROVE d[i] = j[i]
  <2>1. i \in 1..k \/ i = k + 1
    BY <1>15
  <2> QED
    BY <1>10, <1>13, <1>14, <2>1
<1>17. d = j
  BY <1>5, <1>10, <1>15, <1>16, ListsEqual
<1> QED
  BY <1>3, <1>4, <1>7, <1>9, <1>17 DEF Sem!Digit

LEMMA DecimalWritten ==
  ASSUME NEW n \in IntOf
  PROVE  /\ Decimal(n) = Sem!Written(n)
         /\ Decimal(n) \in Seq(Bytes \ {0})
<1>1. PICK h \in Nat \ {0, 1} : h = Half /\ IntOf = (-h)..(h - 1)
  BY OperandAssumption DEF IntOf
<1>2. PICK m \in 0..h : m = IF n < 0 THEN -n ELSE n
  BY <1>1
<1> DEFINE Is(g) == g = [i \in 0..h |-> IF i < 10 THEN Sem!Digit(i) ELSE g[i \div 10] \o Sem!Digit(i % 10)]
<1>3. ASSUME NEW i \in 0..h, ~(i < 10)
      PROVE  /\ i \div 10 \in 0..(i - 1) /\ i % 10 \in 0..9
             /\ Digits(i) = Digits(i \div 10) \o Sem!Digit(i % 10)
  <2>1. PICK q : q = i \div 10
    OBVIOUS
  <2>2. PICK r : r = i % 10
    OBVIOUS
  <2>3. q \in Nat /\ r \in 0..9 /\ i = 10 * q + r
    BY <2>1, <2>2
  <2>4. i \in 10..Half
    BY <1>1, <1>3
  <2>5. Digits(i) = Digits(q) \o Sem!Digit(r)
    BY <2>3, <2>4, DigitsOfMore
  <2>6. q \in 0..(i - 1)
    BY <1>3, <2>3
  <2> QED
    BY <2>1, <2>2, <2>3, <2>5, <2>6
<1>4. Is([i \in 0..h |-> Digits(i)])
  <2>1. ASSUME NEW i \in 0..h
        PROVE  Digits(i) = IF i < 10 THEN Sem!Digit(i)
                           ELSE [k \in 0..h |-> Digits(k)][i \div 10] \o Sem!Digit(i % 10)
    <3>1. CASE i < 10
      <4>1. i \in 0..9
        BY <3>1
      <4> QED
        BY <3>1, <4>1, DigitsOfOne
    <3>2. CASE ~(i < 10)
      <4>1. i \div 10 \in 0..h
        BY <1>3, <3>2
      <4> QED
        BY <1>3, <3>2, <4>1
    <3> QED
      BY <3>1, <3>2
  <2> QED
    BY <2>1
<1>5. PICK f : f = CHOOSE g : Is(g)
  OBVIOUS
<1>6. Is(f)
  BY <1>4, <1>5
<1>7. ASSUME NEW i \in 0..h PROVE f[i] = Digits(i)
  <2> DEFINE T == {k \in 0..h : f[k] # Digits(k)}
  <2>1. SUFFICES ASSUME T # {} PROVE FALSE
    OBVIOUS
  <2>2. T \in SUBSET Nat
    OBVIOUS
  <2>3. PICK x \in T : \A y \in T : x <= y
    BY <2>1, <2>2, Least
  <2>4. x \in 0..h /\ f[x] # Digits(x)
    OBVIOUS
  <2>5. \A y \in 0..h : y < x => f[y] = Digits(y)
    BY <2>3, <2>4
  <2> HIDE DEF T
  <2>6. f[x] = IF x < 10 THEN Sem!Digit(x) ELSE f[x \div 10] \o Sem!Digit(x % 10)
    BY <1>6, <2>4
  <2>7. CASE x < 10
    <3>1. x \in 0..9
      BY <2>4, <2>7
    <3> QED
      BY <2>4, <2>6, <2>7, <3>1, DigitsOfOne
  <2>8. CASE ~(x < 10)
    <3>1. x \div 10 \in 0..(x - 1) /\ Digits(x) = Digits(x \div 10) \o Sem!Digit(x % 10)
      BY <1>3, <2>4, <2>8
    <3>2. PICK y : y = x \div 10
      OBVIOUS
    <3>3. y \in 0..h /\ y < x
      BY <2>4, <3>1, <3>2
    <3>4. f[y] = Digits(y)
      BY <2>5, <3>3
    <3> QED
      BY <2>4, <2>6, <2>8, <3>1, <3>2, <3>4
  <2> QED
    BY <2>7, <2>8
<1>8. Sem!Written(n) = (IF n < 0 THEN << Minus >> ELSE <<>>) \o f[m]
  <2>1. Sem!Abs(n) = m
    BY <1>2 DEF Sem!Abs
  <2> QED
    BY <1>1, <1>5, <2>1, SameWords DEF Sem!Written
<1>9. f[m] = Digits(m)
  BY <1>7
<1>10. Decimal(n) = IF n < 0 THEN << Minus >> \o Digits(m) ELSE Digits(m)
  BY <1>2 DEF Decimal, Digits, DigitCount, Reached
<1>11. PICK d : d = Digits(m)
  OBVIOUS
<1>12. PICK k \in Nat : k = DigitCount(m)
  BY ReachedFinite
<1>13. IsList(d) /\ Len(d) = k /\ \A i \in 1..k : d[i] \in Bytes \ {0}
  <2>1. m \in Nat
    OBVIOUS
  <2>2. /\ IsList(Digits(m)) /\ Len(Digits(m)) = DigitCount(m)
        /\ \A i \in 1..DigitCount(m) : Digits(m)[i] \in Bytes \ {0}
    BY <2>1, DigitsList
  <2> QED
    BY <1>11, <1>12, <2>2
<1>14. d \in Seq(Bytes \ {0})
  <2>1. d = [i \in 1..k |-> d[i]]
    BY <1>13 DEF IsList
  <2>2. d \in [1..k -> Bytes \ {0}]
    BY <1>13, <2>1
  <2> QED
    BY <2>2
<1>15. <<>> \o d = d /\ << Minus >> \o d \in Seq(Bytes \ {0})
  BY <1>14, OperandAssumption
<1> QED
  BY <1>8, <1>9, <1>10, <1>11, <1>14, <1>15

-----------------------------------------------------------------------------
(* Partial applications that hold each other.                              *)

LEMMA AllNaturals ==
  ASSUME NEW T \in SUBSET Nat, 0 \in T, \A n \in T : n + 1 \in T
  PROVE  T = Nat
<1> SUFFICES ASSUME T # Nat PROVE FALSE
  OBVIOUS
<1> DEFINE U == Nat \ T
<1>1. U \in SUBSET Nat /\ U # {}
  OBVIOUS
<1> HIDE DEF U
<1>2. PICK x \in U : \A y \in U : x <= y
  BY <1>1, Least
<1>3. x \in Nat /\ x \notin T /\ x # 0
  BY <1>2 DEF U
<1>4. x - 1 \in Nat /\ ~(x <= x - 1) /\ (x - 1) + 1 = x
  BY <1>3
<1>5. x - 1 \in T
  BY <1>2, <1>4 DEF U
<1> QED
  BY <1>3, <1>4, <1>5

Holds_(ps, p, q) == \E j \in DOMAIN ps[p].slots : ps[p].slots[j] = Partial(q)

(* Every partial application ranks above those it holds.                   *)
Ranked(ps, r, K) ==
  /\ r \in [PartialIds -> 0..K]
  /\ \A p, q \in PartialIds : Holds_(ps, p, q) => r[q] < r[p]

Ordered(ps) == \E K \in Nat : \E r \in [PartialIds -> 0..K] : Ranked(ps, r, K)

(* New ones may hold the others, and are held by none.                     *)
LEMMA OrderedNew ==
  ASSUME NEW ps, Ordered(ps), NEW qs, NEW New \in SUBSET PartialIds,
         \A p, q \in PartialIds : Holds_(qs, p, q) =>
           q \notin New /\ (Holds_(ps, p, q) \/ p \in New)
  PROVE  Ordered(qs)
<1>1. PICK K \in Nat : \E r : Ranked(ps, r, K)
  BY DEF Ordered
<1>2. PICK r : Ranked(ps, r, K)
  BY <1>1
<1>3. \A p \in PartialIds : r[p] \in 0..K
  BY <1>2 DEF Ranked
<1> DEFINE M == K + 1
           s == [p \in PartialIds |-> IF p \in New THEN K + 1 ELSE r[p]]
<1>4. M \in Nat /\ s \in [PartialIds -> 0..M]
  BY <1>3
<1>5. ASSUME NEW p \in PartialIds, NEW q \in PartialIds, Holds_(qs, p, q) PROVE s[q] < s[p]
  <2>1. q \notin New /\ (Holds_(ps, p, q) \/ p \in New)
    BY <1>5
  <2>2. p \notin New => r[q] < r[p]
    BY <1>2, <2>1 DEF Ranked
  <2> QED
    BY <1>3, <2>1, <2>2
<1>6. Ranked(qs, s, M)
  BY <1>4, <1>5 DEF Ranked
<1> QED
  BY <1>4, <1>6 DEF Ordered

LEMMA OrderedFirst ==
  ASSUME NEW ps, \A p, q \in PartialIds : ~Holds_(ps, p, q)
  PROVE  Ordered(ps)
<1> DEFINE r == [p \in PartialIds |-> 0]
<1>1. r \in [PartialIds -> 0..0]
  OBVIOUS
<1>2. Ranked(ps, r, 0)
  BY <1>1 DEF Ranked
<1> QED
  BY <1>1, <1>2 DEF Ordered

-----------------------------------------------------------------------------
(* What a partial application holds: its captures, then its arguments.     *)

Alive(x) ==
  /\ x.rc \in Nat \ {0} /\ x.f \in DOMAIN Functions /\ SlotsOK(x.f, x.nargs, x.slots)

HeldOf(x, a, k, h) ==
  /\ a = Functions[x.f].arguments /\ k = Functions[x.f].captures
  /\ IsList(h) /\ Len(h) = k + (a - x.nargs) /\ DOMAIN h = 1..(k + (a - x.nargs))
  /\ \A i \in 1..k : h[i] = x.slots[a + i] /\ a + i \in DOMAIN x.slots
  /\ \A i \in 1..(a - x.nargs) : h[k + i] = x.slots[i] /\ i \in DOMAIN x.slots
  /\ \A i \in DOMAIN h : IsValueCell(h[i]) /\ \E j \in DOMAIN x.slots : h[i] = x.slots[j]

LEMMA HeldIs ==
  ASSUME NEW x, Alive(x)
  PROVE  \E a, k \in Nat : HeldOf(x, a, k, HeldIn(x))
<1>1. PICK a, k \in Nat : a = Functions[x.f].arguments /\ k = Functions[x.f].captures
  BY FunctionShape DEF Alive
<1>2. PICK s : s = x.slots
  OBVIOUS
<1>3. PICK m \in 0..a : m = x.nargs
  BY <1>1 DEF Alive, SlotsOK
<1>4. /\ IsList(s) /\ Len(s) = a + k
      /\ \A i \in DOMAIN s : IF i \in (a - m + 1)..a THEN s[i] = None ELSE IsValueCell(s[i])
  BY <1>1, <1>2, <1>3 DEF Alive, SlotsOK
<1>5. DOMAIN s = 1..(a + k)
  BY <1>4, ListFinite
<1>6. PICK l \in Nat : l = a + k /\ l = Len(s)
  BY <1>4
<1>7. PICK u : u = SubSeq(s, a + 1, l)
  OBVIOUS
<1>8. IsList(u) /\ Len(u) = k /\ \A i \in 1..k : u[i] = s[a + i]
  <2>1. a \in 0..l /\ l - a = k
    BY <1>6
  <2> QED
    <3>1. /\ IsList(SubSeq(s, a + 1, l)) /\ Len(SubSeq(s, a + 1, l)) = l - a
          /\ \A i \in 1..(l - a) : SubSeq(s, a + 1, l)[i] = s[a + i]
      <4>1. IsList(s) /\ l = Len(s)
        BY <1>4, <1>6
      <4> QED
        BY <2>1, <4>1, ListSplit
    <3> QED
      BY <1>7, <2>1, <3>1
<1>9. PICK b \in 0..a : b = a - m
  BY <1>3
<1>10. PICK v : v = SubSeq(s, 1, b)
  OBVIOUS
<1>11. IsList(v) /\ Len(v) = b /\ \A i \in 1..b : v[i] = s[i]
  <2>1. b \in 0..l
    BY <1>6, <1>9
  <2> QED
    BY <1>4, <1>6, <1>10, <2>1, ListSplit
<1>12. PICK h : h = u \o v
  OBVIOUS
<1>13. IsList(u) /\ IsList(v)
  BY <1>8, <1>11
<1>14. /\ IsList(u \o v) /\ Len(u \o v) = Len(u) + Len(v)
       /\ \A i \in 1..Len(u) : (u \o v)[i] = u[i]
       /\ \A i \in 1..Len(v) : (u \o v)[Len(u) + i] = v[i]
  BY <1>13, ListConcat
<1>15. /\ IsList(h) /\ Len(h) = k + b /\ DOMAIN h = 1..(k + b)
       /\ \A i \in 1..k : h[i] = s[a + i]
       /\ \A i \in 1..b : h[k + i] = s[i]
  BY <1>8, <1>11, <1>12, <1>14, ListFinite
<1>16. HeldIn(x) = h
  <2>1. x.rc # 0
    BY DEF Alive
  <2> QED
    BY <1>1, <1>2, <1>3, <1>6, <1>7, <1>9, <1>10, <1>12, <2>1 DEF HeldIn
<1>17. /\ \A i \in 1..k : a + i \in DOMAIN s /\ a + i \notin (a - m + 1)..a
       /\ \A i \in 1..b : i \in DOMAIN s /\ i \notin (a - m + 1)..a
  BY <1>5, <1>9
<1>18. ASSUME NEW i \in DOMAIN h
       PROVE  IsValueCell(h[i]) /\ \E j \in DOMAIN s : h[i] = s[j]
  <2>1. CASE i \in 1..k
    BY <1>4, <1>15, <1>17, <2>1
  <2>2. CASE i \notin 1..k
    <3>1. PICK j \in 1..b : i = k + j
      <4>1. i - k \in 1..b /\ i = k + (i - k)
        BY <1>15, <1>18, <2>2
      <4> QED
        BY <4>1
    <3> QED
      BY <1>4, <1>15, <1>17, <3>1
  <2> QED
    BY <2>1, <2>2
<1>19. HeldOf(x, a, k, h)
  BY <1>1, <1>2, <1>3, <1>9, <1>15, <1>17, <1>18 DEF HeldOf
<1> QED
  BY <1>16, <1>19

Layer(ps, d, below) == [p \in PartialIds |-> FunOver(ps[p], d, below)]

Layered(ps, n, t) ==
  /\ t = [d \in 0..n |-> t[d]]
  /\ \A d \in 0..n : t[d] = Layer(ps, d, t[d - 1])

LEMMA LowestLayer ==
  ASSUME NEW ps, NEW x, NEW y
  PROVE  Layer(ps, 0, x) = Layer(ps, 0, y)
<1>1. \A c : InnerIn(0, x, c) = InnerIn(0, y, c)
  BY DEF InnerIn
<1>2. \A z : FunOver(z, 0, x) = FunOver(z, 0, y)
  BY <1>1 DEF FunOver
<1> QED
  BY <1>2 DEF Layer

LEMMA LayersExist ==
  ASSUME NEW ps, NEW n \in Nat
  PROVE  \E t : Layered(ps, n, t)
<1> DEFINE T == {m \in Nat : \E t : Layered(ps, m, t)}
<1>1. 0 \in T
  <2> DEFINE t == [d \in 0..0 |-> Layer(ps, 0, <<>>)]
  <2>1. t = [d \in 0..0 |-> t[d]] /\ t[0] = Layer(ps, 0, <<>>)
    OBVIOUS
  <2> HIDE DEF t
  <2>2. Layer(ps, 0, <<>>) = Layer(ps, 0, t[0 - 1])
    BY LowestLayer
  <2>3. \A d \in 0..0 : d = 0
    OBVIOUS
  <2>4. Layered(ps, 0, t)
    BY <2>1, <2>2, <2>3 DEF Layered
  <2> QED
    BY <2>4
<1>2. ASSUME NEW m \in T PROVE m + 1 \in T
  <2>1. PICK t : Layered(ps, m, t)
    BY <1>2
  <2>2. m \in Nat /\ m + 1 \in Nat /\ m + 1 # 0 /\ (m + 1) - 1 = m /\ m \in 0..m
    OBVIOUS
  <2> DEFINE u == [d \in 0..(m + 1) |-> IF d = m + 1 THEN Layer(ps, m + 1, t[m]) ELSE t[d]]
  <2>3. /\ u = [d \in 0..(m + 1) |-> u[d]] /\ u[m + 1] = Layer(ps, m + 1, t[m])
        /\ \A d \in 0..m : u[d] = t[d]
    BY <2>2
  <2> HIDE DEF u
  <2>4. ASSUME NEW d \in 0..(m + 1) PROVE u[d] = Layer(ps, d, u[d - 1])
    <3>1. CASE d = m + 1
      <4>1. d - 1 = m
        BY <2>2, <3>1
      <4> QED
        BY <2>2, <2>3, <3>1, <4>1
    <3>2. CASE d # m + 1 /\ d # 0
      <4>1. d \in 0..m /\ d - 1 \in 0..m
        BY <2>2, <3>2
      <4> QED
        BY <2>1, <2>3, <4>1 DEF Layered
    <3>3. CASE d = 0
      <4>1. d \in 0..m
        BY <2>2, <3>3
      <4>2. u[d] = Layer(ps, 0, t[d - 1])
        BY <2>1, <2>3, <3>3, <4>1 DEF Layered
      <4>3. Layer(ps, 0, t[d - 1]) = Layer(ps, 0, u[d - 1])
        BY LowestLayer
      <4> QED
        BY <3>3, <4>2, <4>3
    <3> QED
      BY <3>1, <3>2, <3>3
  <2>5. Layered(ps, m + 1, u)
    BY <2>3, <2>4 DEF Layered
  <2> QED
    BY <2>2, <2>5
<1>3. T \in SUBSET Nat
  OBVIOUS
<1> HIDE DEF T
<1>4. T = Nat
  BY <1>1, <1>2, <1>3, AllNaturals
<1> QED
  BY <1>4 DEF T

FunsLayered == \E t : Layered(partials, MaxPartials, t) /\ Funs = t[MaxPartials]

LEMMA FunsAreLayered == FunsLayered
<1> DEFINE A(g) == g = [layer \in 0..MaxPartials |->
                          [p \in PartialIds |-> FunOver(partials[p], layer, g[layer - 1])]]
           w == CHOOSE g : A(g)
<1>1. Funs = w[MaxPartials]
  BY DEF Funs
<1>2. \A g : A(g) <=> g = [d \in 0..MaxPartials |-> Layer(partials, d, g[d - 1])]
  BY DEF Layer
<1>3. PICK t : Layered(partials, MaxPartials, t)
  BY OperandAssumption, LayersExist
<1>4. A(t)
  BY <1>2, <1>3 DEF Layered
<1> HIDE DEF A
<1>5. A(w)
  BY <1>4
<1> HIDE DEF w
<1>6. Layered(partials, MaxPartials, w)
  <2>1. w = [d \in 0..MaxPartials |-> Layer(partials, d, w[d - 1])]
    BY <1>2, <1>5
  <2> QED
    BY <2>1 DEF Layered
<1> QED
  BY <1>1, <1>6 DEF FunsLayered

-----------------------------------------------------------------------------
(* A partial application in terms of those it holds.                       *)

Of(T, c)   == InnerIn(1, T, c)
Over(T, x) == FunOver(x, 1, T)

LEMMA Deeper == \A d \in Nat \ {0} : \A T, c : InnerIn(d, T, c) = Of(T, c)
BY DEF InnerIn, Of

LEMMA CellIs == \A c : SemCell(c) = Of(Funs, c)
BY DEF SemCell, Of, InnerIn

LEMMA OverSame ==
  ASSUME NEW x, NEW y, HeldIn(x) = HeldIn(y), x.f = y.f, NEW d, NEW s, NEW e, NEW t,
         \A i \in DOMAIN HeldIn(x) : InnerIn(d, s, HeldIn(x)[i]) = InnerIn(e, t, HeldIn(x)[i])
  PROVE  FunOver(x, d, s) = FunOver(y, e, t)
<1>1. PICK h : h = HeldIn(x)
  OBVIOUS
<1>2. [i \in DOMAIN h |-> InnerIn(d, s, h[i])] = [i \in DOMAIN h |-> InnerIn(e, t, h[i])]
  BY <1>1
<1> QED
  BY <1>1, <1>2 DEF FunOver

AllAlive(ps, S) ==
  /\ S \in SUBSET PartialIds /\ \A p \in S : Alive(ps[p])
  /\ \A p \in S : \A q \in PartialIds : Holds_(ps, p, q) => q \in S

(* What p holds.                                                           *)
LEMMA HeldHeld ==
  ASSUME NEW ps, NEW S, AllAlive(ps, S), NEW p \in S,
         NEW i \in DOMAIN HeldIn(ps[p]), HeldIn(ps[p])[i].k = "partial"
  PROVE  \E q \in S : q = N(HeldIn(ps[p])[i]) /\ Holds_(ps, p, q)
<1>1. PICK c : c = HeldIn(ps[p])[i]
  OBVIOUS
<1>2. IsValueCell(c) /\ \E j \in DOMAIN ps[p].slots : c = ps[p].slots[j]
  BY <1>1, HeldIs DEF AllAlive, HeldOf
<1>3. c = Partial(N(c)) /\ N(c) \in PartialIds
  BY <1>1, <1>2, ValueCells
<1>4. PICK q \in PartialIds : q = N(c) /\ c = Partial(q)
  BY <1>3
<1>5. Holds_(ps, p, q)
  BY <1>2, <1>4 DEF Holds_
<1> QED
  BY <1>1, <1>4, <1>5 DEF AllAlive

(* There is one meaning of the partial applications that are alive.        *)
LEMMA OneFun ==
  ASSUME NEW ps, Ordered(ps), NEW S, AllAlive(ps, S),
         NEW F, \A p \in S : F[p] = Over(F, ps[p]),
         NEW G, \A p \in S : G[p] = Over(G, ps[p])
  PROVE  \A p \in S : F[p] = G[p]
<1> SUFFICES ASSUME NEW z \in S, F[z] # G[z] PROVE FALSE
  OBVIOUS
<1>1. PICK K \in Nat : \E r : Ranked(ps, r, K)
  BY DEF Ordered
<1>2. PICK r : Ranked(ps, r, K)
  BY <1>1
<1>3. \A p \in S : r[p] \in Nat /\ p \in PartialIds
  BY <1>2 DEF Ranked, AllAlive
<1> DEFINE T == {r[p] : p \in {p \in S : F[p] # G[p]}}
<1>4. T \in SUBSET Nat /\ T # {}
  BY <1>3
<1>5. PICK m \in T : \A n \in T : m <= n
  <2> HIDE DEF T
  <2> QED
    BY <1>4, Least
<1>6. PICK p \in S : F[p] # G[p] /\ r[p] = m
  OBVIOUS
<1>7. ASSUME NEW q \in S, Holds_(ps, p, q) PROVE F[q] = G[q]
  <2>1. r[q] < r[p]
    BY <1>2, <1>3, <1>7 DEF Ranked
  <2>2. ~(m <= r[q])
    BY <1>3, <1>6, <2>1
  <2> QED
    BY <1>5, <2>2
<1>8. ASSUME NEW i \in DOMAIN HeldIn(ps[p])
      PROVE  InnerIn(1, F, HeldIn(ps[p])[i]) = InnerIn(1, G, HeldIn(ps[p])[i])
  <2>1. PICK c : c = HeldIn(ps[p])[i]
    OBVIOUS
  <2>2. c.k = "partial" => F[N(c)] = G[N(c)]
    BY <1>7, <2>1, HeldHeld
  <2>3. InnerIn(1, F, c) = InnerIn(1, G, c)
    BY <2>2 DEF InnerIn
  <2> QED
    BY <2>1, <2>3
<1>9. PICK x, o : x = ps[p] /\ o = 1
  OBVIOUS
<1>10. FunOver(x, o, F) = FunOver(x, o, G)
  BY <1>8, <1>9, OverSame
<1> QED
  BY <1>6, <1>9, <1>10 DEF Over

-----------------------------------------------------------------------------
(* What partial applications stand for, one holding the next.              *)

Live == {p \in PartialIds : partials[p] # Dead}

LEMMA LiveAlive ==
  ASSUME IInv
  PROVE  AllAlive(partials, Live)
<1>1. ASSUME NEW p \in Live PROVE Alive(partials[p])
  BY AlivePartial DEF Live, Alive
<1>2. ASSUME NEW p \in Live, NEW q \in PartialIds, Holds_(partials, p, q) PROVE q \in Live
  <2>1. PICK c : c = Partial(q)
    OBVIOUS
  <2>2. IsValueCell(c) /\ c.k = "partial" /\ N(c) = q
    BY <2>1, ValuesMade, CellFields
  <2>3. p \in PartialIds /\ \E j \in DOMAIN partials[p].slots : partials[p].slots[j] = c
    BY <1>2, <2>1 DEF Holds_, Live
  <2>4. Present(c)
    BY <2>2, <2>3, CellPresent
  <2> QED
    BY <2>2, <2>4 DEF Present, Live
<1> QED
  BY <1>1, <1>2 DEF AllAlive, Live

Unfolded == \A p \in Live : Funs[p] = Over(Funs, partials[p])

LEMMA FunsUnfold == IInv /\ Ordered(partials) => Unfolded
<1> SUFFICES ASSUME IInv, Ordered(partials), NEW z \in Live PROVE Funs[z] = Over(Funs, partials[z])
  BY DEF Unfolded
<1>1. PICK n \in Nat : n = MaxPartials
  BY OperandAssumption
<1>2. PICK t : Layered(partials, n, t) /\ Funs = t[n]
  BY <1>1, FunsAreLayered DEF FunsLayered
<1>3. PICK K \in Nat : \E r : Ranked(partials, r, K)
  BY DEF Ordered
<1>4. PICK r : Ranked(partials, r, K)
  BY <1>3
<1>5. \A p \in PartialIds : r[p] \in Nat
  BY <1>4 DEF Ranked
<1> DEFINE Lower(p) == {q \in PartialIds : r[q] < r[p]}
           Size(p) == Cardinality(Lower(p))
<1>6. IsFiniteSet(PartialIds) /\ Cardinality(PartialIds) = n
  <2>1. 1 \in Int /\ n \in Int /\ PartialIds = 1..n
    BY <1>1 DEF PartialIds
  <2>2. IsFiniteSet(1..n) /\ Cardinality(1..n) = IF 1 > n THEN 0 ELSE n - 1 + 1
    BY <2>1, FS_Interval
  <2> QED
    BY <2>1, <2>2
<1>7. \A p \in PartialIds : IsFiniteSet(Lower(p)) /\ Size(p) \in Nat
  BY <1>6, FS_Subset, FS_CardinalityType
<1>8. \A p \in PartialIds : Size(p) <= n - 1 /\ n >= 1
  <2> TAKE p \in PartialIds
  <2>1. Lower(p) \subseteq PartialIds \ {p}
    BY <1>5
  <2>2. Cardinality(PartialIds \ {p}) = n - 1 /\ IsFiniteSet(PartialIds \ {p}) /\ n - 1 \in Nat
    <3>1. Cardinality(PartialIds \ {p}) = n - 1 /\ IsFiniteSet(PartialIds \ {p})
      BY <1>6, FS_RemoveElement
    <3>2. Cardinality(PartialIds \ {p}) \in Nat
      BY <3>1, FS_CardinalityType
    <3> QED
      BY <3>1, <3>2
  <2>3. Size(p) <= n - 1
    BY <2>1, <2>2, FS_Subset
  <2> QED
    BY <2>2, <2>3
<1>9. \A p \in Live : p \in PartialIds
  BY DEF Live
<1>10. ASSUME NEW p \in Live, NEW i \in DOMAIN HeldIn(partials[p]), HeldIn(partials[p])[i].k = "partial"
       PROVE  \E q \in Live : q = N(HeldIn(partials[p])[i]) /\ Size(q) < Size(p)
  <2>1. PICK q \in Live : q = N(HeldIn(partials[p])[i]) /\ Holds_(partials, p, q)
    BY <1>10, LiveAlive, HeldHeld
  <2>2. q \in PartialIds /\ p \in PartialIds
    BY <1>9
  <2>3. r[q] < r[p] /\ r[q] \in Nat /\ r[p] \in Nat
    BY <1>4, <1>5, <2>1, <2>2 DEF Ranked
  <2>4. Lower(q) \subseteq Lower(p) \ {q} /\ q \in Lower(p)
    BY <1>5, <2>2, <2>3
  <2>5. Cardinality(Lower(p) \ {q}) = Size(p) - 1 /\ IsFiniteSet(Lower(p) \ {q})
    BY <1>7, <2>2, <2>4, FS_RemoveElement
  <2>6. Size(q) <= Size(p) - 1
    BY <2>4, <2>5, FS_Subset
  <2>7. Size(q) \in Nat /\ Size(p) \in Nat
    BY <1>7, <2>2
  <2> HIDE DEF Size
  <2>8. Size(q) < Size(p)
    BY <2>6, <2>7
  <2> QED
    BY <2>1, <2>8
<1> HIDE DEF Lower, Size
<1> DEFINE Stays(d) == \A p \in Live : Size(p) <= d => t[d + 1][p] = t[d][p]
           T == {d \in Nat : d + 1 <= n => Stays(d)}
<1>11. ASSUME NEW d \in Nat, d + 1 <= n, d = 0 \/ (d - 1 \in Nat /\ Stays(d - 1)) PROVE Stays(d)
  <2> SUFFICES ASSUME NEW p \in Live, Size(p) <= d PROVE t[d + 1][p] = t[d][p]
    OBVIOUS
  <2>1. d \in 0..n /\ d + 1 \in 0..n /\ (d + 1) - 1 = d /\ d + 1 # 0
    BY <1>11
  <2>2. t[d] = Layer(partials, d, t[d - 1]) /\ t[d + 1] = Layer(partials, d + 1, t[d])
    BY <1>2, <2>1 DEF Layered
  <2>3. t[d][p] = FunOver(partials[p], d, t[d - 1]) /\ t[d + 1][p] = FunOver(partials[p], d + 1, t[d])
    BY <1>9, <2>2 DEF Layer
  <2>4. ASSUME NEW i \in DOMAIN HeldIn(partials[p])
        PROVE  InnerIn(d, t[d - 1], HeldIn(partials[p])[i]) = InnerIn(d + 1, t[d], HeldIn(partials[p])[i])
    <3>1. PICK c : c = HeldIn(partials[p])[i]
      OBVIOUS
    <3>2. CASE c.k # "partial"
      BY <3>1, <3>2 DEF InnerIn
    <3>3. CASE c.k = "partial"
      <4>1. PICK q \in Live : q = N(c) /\ Size(q) < Size(p)
        BY <1>10, <3>1, <3>3
      <4>2. Size(q) \in Nat /\ Size(p) \in Nat
        BY <1>7, <1>9
      <4>3. d # 0 /\ Size(q) <= d - 1
        BY <4>1, <4>2
      <4>4. t[d][q] = t[d - 1][q]
        <5>1. (d - 1) + 1 = d
          OBVIOUS
        <5> QED
          BY <1>11, <4>3, <5>1
      <4>5. InnerIn(d, t[d - 1], c) = t[d - 1][q]
        BY <3>3, <4>1, <4>3 DEF InnerIn
      <4>6. InnerIn(d + 1, t[d], c) = t[d][q]
        BY <2>1, <3>3, <4>1 DEF InnerIn
      <4> QED
        BY <3>1, <4>4, <4>5, <4>6
    <3> QED
      BY <3>2, <3>3
  <2>5. PICK x, a, b, f : x = partials[p] /\ a = t[d - 1] /\ b = t[d] /\ f = d + 1
    OBVIOUS
  <2>6. FunOver(x, d, a) = FunOver(x, f, b)
    BY <2>4, <2>5, OverSame
  <2> QED
    BY <2>3, <2>5, <2>6
<1>12. T \in SUBSET Nat /\ 0 \in T
  BY <1>11
<1>13. ASSUME NEW d \in T PROVE d + 1 \in T
  <2>1. d \in Nat /\ d + 1 \in Nat /\ (d + 1) - 1 = d /\ ((d + 1) + 1 <= n => d + 1 <= n)
    OBVIOUS
  <2>2. d + 1 <= n => Stays(d)
    OBVIOUS
  <2> HIDE DEF Stays
  <2>3. (d + 1) + 1 <= n => Stays(d + 1)
    BY <1>11, <2>1, <2>2
  <2> QED
    BY <2>1, <2>3
<1> HIDE DEF T
<1>14. T = Nat
  BY <1>12, <1>13, AllNaturals
<1>15. n >= 1 /\ n - 1 \in Nat /\ (n - 1) + 1 = n /\ n \in 0..n /\ n # 0
  BY <1>8, <1>9
<1>16. \A p \in Live : t[n][p] = t[n - 1][p]
  <2>1. n - 1 \in T
    BY <1>14, <1>15
  <2> QED
    BY <1>8, <1>9, <1>15, <2>1 DEF T
<1>17. t[n][z] = FunOver(partials[z], n, t[n - 1])
  <2>1. t[n] = Layer(partials, n, t[n - 1])
    BY <1>2, <1>15 DEF Layered
  <2> QED
    BY <1>9, <2>1 DEF Layer
<1>18. ASSUME NEW i \in DOMAIN HeldIn(partials[z])
       PROVE  InnerIn(n, t[n - 1], HeldIn(partials[z])[i]) = InnerIn(1, t[n], HeldIn(partials[z])[i])
  <2>1. PICK c : c = HeldIn(partials[z])[i]
    OBVIOUS
  <2>2. c.k = "partial" => t[n][N(c)] = t[n - 1][N(c)]
    BY <1>10, <1>16, <2>1
  <2>3. InnerIn(n, t[n - 1], c) = InnerIn(1, t[n], c)
    BY <1>15, <2>2 DEF InnerIn
  <2> QED
    BY <2>1, <2>3
<1>19. PICK x, a, b, f : x = partials[z] /\ a = t[n - 1] /\ b = t[n] /\ f = 1
  OBVIOUS
<1>20. FunOver(x, n, a) = FunOver(x, f, b)
  BY <1>18, <1>19, OverSame
<1> QED
  BY <1>2, <1>17, <1>19, <1>20 DEF Over

-----------------------------------------------------------------------------
(* What a step changes.                                                    *)

AllHold == \A p \in Live : partials[p].nargs < Len(partials[p].slots)

(* The invariant, with what partial applications hold.                     *)
SInv == IInv /\ Ordered(partials) /\ AllHold

Same(x, y) == y.f = x.f /\ y.nargs = x.nargs /\ y.slots = x.slots

(* A step changes counts, frees, and makes the partial applications New.   *)
Changes(New) ==
  /\ New \in SUBSET PartialIds
  /\ \A p \in New : /\ partials[p] = Dead
                    /\ partials'[p].nargs < Len(partials'[p].slots)
                    /\ \A q \in New : ~Holds_(partials', p, q)
  /\ \A p \in PartialIds \ New :
       partials'[p] = Dead \/ (partials[p] # Dead /\ Same(partials[p], partials'[p]))

LiveIsAlive == AllAlive(partials, Live)

LEMMA LiveNow == IInv => LiveIsAlive
BY LiveAlive DEF LiveIsAlive

LEMMA LiveNext == IInv' => LiveIsAlive'
BY LiveNow, PTL

LEMMA LiveAliveNext == IInv' => AllAlive(partials', Live')
<1> SUFFICES ASSUME IInv' PROVE AllAlive(partials', Live')
  OBVIOUS
<1>1. LiveIsAlive'
  BY LiveNext
<1> QED
  BY <1>1 DEF LiveIsAlive, AllAlive

LEMMA DeadHolds == \A ps, p, q : ps[p] = Dead => ~Holds_(ps, p, q)
<1> TAKE ps, p, q
<1> SUFFICES ASSUME ps[p] = Dead PROVE ~Holds_(ps, p, q)
  OBVIOUS
<1>1. ps[p].slots = <<>>
  BY DEF Dead
<1> QED
  BY <1>1, EmptyList DEF Holds_

LEMMA ChangesKeep ==
  ASSUME SInv, IInv', NEW New, Changes(New)
  PROVE  SInv'
<1>1. New \in SUBSET PartialIds /\ Ordered(partials) /\ IInv
  BY DEF Changes, SInv
<1>2. ASSUME NEW p \in PartialIds, NEW q \in PartialIds, Holds_(partials', p, q)
      PROVE  q \notin New /\ (Holds_(partials, p, q) \/ p \in New)
  <2>1. CASE p \in New
    BY <1>2, <2>1 DEF Changes
  <2>2. CASE p \notin New
    <3>1. partials'[p] # Dead
      BY <1>2, DeadHolds
    <3>2. partials[p] # Dead /\ partials'[p].slots = partials[p].slots
      BY <2>2, <3>1 DEF Changes, Same
    <3>3. Holds_(partials, p, q)
      BY <1>2, <3>2 DEF Holds_
    <3>4. q \in Live
      BY <1>1, <3>2, <3>3, LiveAlive DEF AllAlive, Live
    <3> QED
      BY <3>3, <3>4 DEF Changes, Live
  <2> QED
    BY <2>1, <2>2
<1>3. Ordered(partials')
  BY <1>1, <1>2, OrderedNew
<1>4. AllHold'
  <2> SUFFICES ASSUME NEW p \in PartialIds, partials'[p] # Dead
               PROVE  partials'[p].nargs < Len(partials'[p].slots)
    BY DEF AllHold, Live
  <2>1. CASE p \in New
    BY <2>1 DEF Changes
  <2>2. CASE p \notin New
    <3>1. partials[p] # Dead /\ Same(partials[p], partials'[p])
      BY <2>2 DEF Changes
    <3> QED
      BY <3>1 DEF SInv, AllHold, Live, Same
  <2> QED
    BY <2>1, <2>2
<1> QED
  BY <1>3, <1>4 DEF SInv

LEMMA UnfoldedNow == SInv => Unfolded
BY FunsUnfold DEF SInv

LEMMA UnfoldedNext == SInv' => Unfolded'
BY UnfoldedNow, PTL

LEMMA FunsKept ==
  ASSUME SInv, SInv', NEW New, Changes(New)
  PROVE  \A p \in Live : p \in Live' => Funs'[p] = Funs[p]
<1> DEFINE S == {p \in Live : p \in Live'}
<1>1. ASSUME NEW p \in S
      PROVE  /\ p \in PartialIds /\ partials[p] # Dead /\ partials'[p] # Dead
             /\ Same(partials[p], partials'[p])
  <2>1. p \in PartialIds /\ partials[p] # Dead /\ partials'[p] # Dead
    BY DEF Live
  <2> QED
    BY <2>1 DEF Changes
<1>2. AllAlive(partials, Live) /\ AllAlive(partials', Live')
  BY LiveAlive, LiveAliveNext DEF SInv
<1>3. AllAlive(partials, S)
  <2>1. ASSUME NEW p \in S, NEW q \in PartialIds, Holds_(partials, p, q) PROVE q \in S
    <3>1. Holds_(partials', p, q)
      BY <1>1, <2>1 DEF Same, Holds_
    <3> QED
      BY <1>2, <2>1, <3>1 DEF AllAlive
  <2> QED
    BY <1>2, <2>1 DEF AllAlive
<1>4. \A p \in S : Funs[p] = Over(Funs, partials[p])
  BY UnfoldedNow DEF Unfolded
<1>5. ASSUME NEW p \in S PROVE Funs'[p] = Over(Funs', partials[p])
  <2>1. Funs'[p] = Over(Funs', partials'[p])
    BY UnfoldedNext DEF Unfolded
  <2>2. partials[p].rc # 0 /\ partials'[p].rc # 0
    BY <1>2 DEF AllAlive, Alive
  <2>3. PICK x, y : x = partials[p] /\ y = partials'[p]
    OBVIOUS
  <2>4. HeldIn(y) = HeldIn(x) /\ y.f = x.f
    BY <1>1, <2>2, <2>3 DEF HeldIn, Same
  <2>5. PICK o, F : o = 1 /\ F = Funs'
    OBVIOUS
  <2>6. FunOver(y, o, F) = FunOver(x, o, F)
    BY <2>4, OverSame
  <2> QED
    BY <2>1, <2>3, <2>5, <2>6 DEF Over
<1> HIDE DEF S
<1>6. PICK F, G : F = Funs /\ G = Funs'
  OBVIOUS
<1>7. \A p \in S : F[p] = G[p]
  <2>1. \A p \in S : F[p] = Over(F, partials[p])
    BY <1>4, <1>6
  <2>2. \A p \in S : G[p] = Over(G, partials[p])
    BY <1>5, <1>6
  <2> QED
    BY <1>3, <2>1, <2>2, OneFun DEF SInv
<1> QED
  BY <1>6, <1>7 DEF S

-----------------------------------------------------------------------------
(* What cells stand for, before and after a step.                          *)

LEMMA CellIsNext == \A c : SemCell(c)' = Of(Funs', c)
BY DEF SemCell, Of, InnerIn

(* The cell is there: what it refers to, too.                              *)
Known(c) == c.k = "partial" => N(c) \in Live

LEMMA CellKept ==
  ASSUME SInv, SInv', NEW New, Changes(New), NEW c, Known(c), Known(c)'
  PROVE  Of(Funs', c) = Of(Funs, c)
<1>1. c.k = "partial" => Funs'[N(c)] = Funs[N(c)]
  BY FunsKept DEF Known
<1> QED
  BY <1>1 DEF Of, InnerIn

LEMMA KnownCells ==
  ASSUME IInv
  PROVE  /\ \A c \in script.values : Known(c)
         /\ \A v \in script.vars : Known(env[v])
         /\ \A i \in DOMAIN stack : Known(stack[i]) /\ \A j \in DOMAIN stack[i].e : Known(stack[i].e[j])
         /\ \A p \in PartialIds : \A j \in DOMAIN partials[p].slots : Known(partials[p].slots[j])
<1>1. ASSUME NEW c, IsValueCell(c), Present(c) PROVE Known(c)
  BY <1>1, ValueCells DEF Present, Known, Live
<1>2. ASSUME NEW c \in script.values PROVE Known(c)
  BY ScriptsAssumption DEF IInv, Known
<1>3. ASSUME NEW v \in script.vars PROVE Known(env[v])
  <2>1. IsValueCell(env[v])
    BY DEF IInv
  <2>2. Present(env[v])
    BY <2>1, CellPresent
  <2> QED
    BY <1>1, <2>1, <2>2
<1>4. ASSUME NEW i \in DOMAIN stack
      PROVE  Known(stack[i]) /\ \A j \in DOMAIN stack[i].e : Known(stack[i].e[j])
  <2>1. WellMade(stack[i])
    BY DEF IInv, Cells
  <2>2. CASE IsValueCell(stack[i])
    <3>1. stack[i].e = <<>>
      BY <2>2, ValueCells
    <3>2. Present(stack[i])
      BY <2>2, CellPresent
    <3> QED
      BY <1>1, <2>2, <3>1, <3>2, EmptyList
  <2>3. CASE stack[i] = Arr(stack[i].e) /\ ValueList(stack[i].e)
    <3>1. Known(stack[i])
      BY <2>3, CellFields DEF Known
    <3>2. ASSUME NEW j \in DOMAIN stack[i].e PROVE Known(stack[i].e[j])
      <4>1. PICK c : c = stack[i].e[j]
        OBVIOUS
      <4>2. IsValueCell(c)
        BY <2>3, <4>1 DEF ValueList
      <4>3. Present(c)
        BY <4>1, <4>2, CellPresent
      <4> QED
        BY <1>1, <4>1, <4>2, <4>3
    <3> QED
      BY <3>1, <3>2
  <2> QED
    BY <2>1, <2>2, <2>3 DEF WellMade
<1>5. ASSUME NEW p \in PartialIds, NEW j \in DOMAIN partials[p].slots
      PROVE  Known(partials[p].slots[j])
  <2>1. PICK c : c = partials[p].slots[j]
    OBVIOUS
  <2>2. PartialOK(partials[p])
    BY DEF IInv, PartialsOK
  <2>3. c = None \/ IsValueCell(c)
    BY <2>1, <2>2, PartialSlots DEF Flat
  <2>4. CASE c = None
    BY <2>1, <2>4, CellFields DEF Known
  <2>5. CASE IsValueCell(c)
    <3>1. Present(c)
      BY <2>1, <2>5, CellPresent
    <3> QED
      BY <1>1, <2>1, <2>5, <3>1
  <2> QED
    BY <2>3, <2>4, <2>5
<1> QED
  BY <1>2, <1>3, <1>4, <1>5

KnowsCells ==
  /\ \A c \in script.values : Known(c)
  /\ \A v \in script.vars : Known(env[v])
  /\ \A i \in DOMAIN stack : Known(stack[i]) /\ \A j \in DOMAIN stack[i].e : Known(stack[i].e[j])
  /\ \A p \in PartialIds : \A j \in DOMAIN partials[p].slots : Known(partials[p].slots[j])

LEMMA KnownNow == IInv => KnowsCells
BY KnownCells DEF KnowsCells

LEMMA KnownNext == IInv' => KnowsCells'
BY KnownNow, PTL

-----------------------------------------------------------------------------
(* The state of OperandSem.                                                *)

OperandOf(T, c) ==
  IF c.k = "arr" THEN Arr([i \in DOMAIN c.e |-> Of(T, c.e[i])]) ELSE Of(T, c)

SemScript == [script EXCEPT !.values = {SemCell(c) : c \in @}]
SemEnv    == [v \in script.vars |-> SemCell(env[v])]
SemStack  == [j \in 1..Len(stack) |-> SemOperand(stack[j])]
SemStatus == IF status \in {"ok", "error"} THEN status ELSE "stopped"

LEMMA OperandIs == \A c : SemOperand(c) = OperandOf(Funs, c)
<1> SUFFICES ASSUME NEW c PROVE SemOperand(c) = OperandOf(Funs, c)
  OBVIOUS
<1>1. \A x : SemCell(x) = Of(Funs, x)
  BY CellIs
<1>2. SemCell(c) = Of(Funs, c)
  BY <1>1
<1>3. [i \in DOMAIN c.e |-> SemCell(c.e[i])] = [i \in DOMAIN c.e |-> Of(Funs, c.e[i])]
  BY <1>1
<1> QED
  BY <1>2, <1>3 DEF SemOperand, OperandOf

LEMMA SemStacks ==
  /\ SemStack = [j \in 1..Len(stack) |-> OperandOf(Funs, stack[j])]
  /\ SemStack' = [j \in 1..Len(stack') |-> OperandOf(Funs', stack'[j])]
<1>1. \A c : SemOperand(c) = OperandOf(Funs, c)
  BY OperandIs
<1>2. (\A c : SemOperand(c) = OperandOf(Funs, c))'
  BY OperandIs, PTL
<1>3. SemStack = [j \in 1..Len(stack) |-> OperandOf(Funs, stack[j])]
  BY <1>1 DEF SemStack
<1>4. SemStack' = [j \in 1..Len(stack') |-> OperandOf(Funs', stack'[j])]
  BY <1>2 DEF SemStack, OperandOf, Of, InnerIn
<1> QED
  BY <1>3, <1>4

(* What cells stand for that are there before a step and after it.         *)
LEMMA OperandKept ==
  ASSUME SInv, SInv', NEW New, Changes(New), NEW c, WellMade(c),
         Known(c), Known(c)', \A j \in DOMAIN c.e : Known(c.e[j]) /\ Known(c.e[j])'
  PROVE  OperandOf(Funs', c) = OperandOf(Funs, c)
<1>1. Of(Funs', c) = Of(Funs, c)
  BY CellKept
<1>2. ASSUME NEW j \in DOMAIN c.e PROVE Of(Funs', c.e[j]) = Of(Funs, c.e[j])
  <2>1. PICK x : x = c.e[j]
    OBVIOUS
  <2>2. Known(x) /\ Known(x)'
    BY <2>1
  <2> QED
    BY <2>1, <2>2, CellKept
<1>3. [j \in DOMAIN c.e |-> Of(Funs', c.e[j])] = [j \in DOMAIN c.e |-> Of(Funs, c.e[j])]
  BY <1>2
<1> QED
  BY <1>1, <1>3 DEF OperandOf

LEMMA EnvKept ==
  ASSUME SInv, SInv', NEW New, Changes(New), UNCHANGED <<script, env>>
  PROVE  SemEnv' = SemEnv /\ SemScript' = SemScript
<1>1. KnowsCells /\ KnowsCells'
  BY KnownNow, KnownNext DEF SInv
<1>2. \A c : SemCell(c) = Of(Funs, c)
  BY CellIs
<1>3. \A c : SemCell(c)' = Of(Funs', c)
  BY CellIsNext
<1>4. ASSUME NEW v \in script.vars PROVE SemCell(env[v]) = Of(Funs, env[v]) /\ SemCell(env[v])' = Of(Funs, env[v])
  <2>1. PICK c : c = env[v]
    OBVIOUS
  <2>2. Known(c) /\ Known(c)'
    BY <1>1, <2>1 DEF KnowsCells
  <2>3. Of(Funs', c) = Of(Funs, c)
    BY <2>2, CellKept
  <2>4. SemCell(env[v])' = Of(Funs', env'[v])
    BY DEF SemCell, Of, InnerIn
  <2> QED
    BY <1>2, <2>1, <2>3, <2>4
<1>5. SemEnv' = SemEnv
  BY <1>4 DEF SemEnv
<1>6. ASSUME NEW c \in script.values PROVE SemCell(c) = Of(Funs, c) /\ SemCell(c)' = Of(Funs, c)
  <2>1. Known(c) /\ Known(c)'
    BY <1>1 DEF KnowsCells
  <2> QED
    BY <1>2, <1>3, <2>1, CellKept
<1>7. {SemCell(c)' : c \in script.values} = {SemCell(c) : c \in script.values}
  BY <1>6
<1>8. SemScript' = [script EXCEPT !.values = {SemCell(c)' : c \in script.values}]
  BY DEF SemScript
<1>9. SemScript = [script EXCEPT !.values = {SemCell(c) : c \in script.values}]
  BY DEF SemScript
<1> QED
  BY <1>5, <1>7, <1>8, <1>9

LEMMA StackKept ==
  ASSUME SInv, SInv', NEW New, Changes(New), NEW i \in DOMAIN stack,
         NEW j \in DOMAIN stack', stack'[j] = stack[i]
  PROVE  OperandOf(Funs', stack'[j]) = OperandOf(Funs, stack[i])
<1>1. KnowsCells /\ KnowsCells'
  BY KnownNow, KnownNext DEF SInv
<1>2. PICK c : c = stack[i]
  OBVIOUS
<1>3. WellMade(c) /\ Known(c) /\ Known(c)' /\ \A l \in DOMAIN c.e : Known(c.e[l]) /\ Known(c.e[l])'
  <2>1. WellMade(c)
    BY <1>2 DEF SInv, IInv, Cells
  <2>2. Known(c) /\ \A l \in DOMAIN c.e : Known(c.e[l])
    BY <1>1, <1>2 DEF KnowsCells
  <2>3. Known(c)' /\ \A l \in DOMAIN c.e : Known(c.e[l])'
    BY <1>1, <1>2 DEF KnowsCells, Known
  <2> QED
    BY <2>1, <2>2, <2>3
<1> QED
  BY <1>2, <1>3, OperandKept

-----------------------------------------------------------------------------
(* Operands and outcomes.                                                  *)

LEMMA SemStackList ==
  ASSUME IInv, NEW size \in Nat, size = Len(stack)
  PROVE  /\ IsList(SemStack) /\ Len(SemStack) = size
         /\ \A j \in 1..size : SemStack[j] = OperandOf(Funs, stack[j])
<1>1. SemStack = [j \in 1..size |-> OperandOf(Funs, stack[j])]
  BY SemStacks
<1>2. SemStack = [j \in 1..size |-> SemStack[j]]
  BY <1>1
<1> QED
  BY <1>1, <1>2, ListOf

LEMMA SemOperands ==
  ASSUME IInv, NEW n \in Nat, Has(n)
  PROVE  /\ Sem!Has(n)
         /\ \A i \in 0..(n - 1) : Sem!Operand(i) = OperandOf(Funs, Operand(i))
         /\ IsList(Sem!Below(n)) /\ Sem!Below(n) = SubSeq(SemStack, 1, Len(SemStack) - n)
         /\ IsList(Sem!Top(n)) /\ Len(Sem!Top(n)) = n
         /\ \A i \in 1..n : Sem!Top(n)[i] = OperandOf(Funs, Top(n)[i])
<1>1. PICK size \in Nat : size = Len(stack) /\ n <= size
  BY HasParts
<1>2. IsList(SemStack) /\ Len(SemStack) = size /\ \A j \in 1..size : SemStack[j] = OperandOf(Funs, stack[j])
  BY <1>1, SemStackList
<1>3. status = "ok" /\ SemStatus = "ok"
  BY DEF Has, SemStatus
<1>4. Sem!Has(n)
  <2>1. SemStatus = "ok" /\ Len(SemStack) >= n
    BY <1>1, <1>2, <1>3
  <2> QED
    BY <2>1 DEF Sem!Has, SemStatus, SemStack
<1>5. \A i : Sem!Operand(i) = SemStack[Len(SemStack) - i]
  BY DEF Sem!Operand, SemStack
<1>6. Sem!Below(n) = SubSeq(SemStack, 1, Len(SemStack) - n)
  BY DEF Sem!Below, SemStack
<1>7. Sem!Top(n) = SubSeq(SemStack, Len(SemStack) - n + 1, Len(SemStack))
  BY DEF Sem!Top, SemStack
<1>8. PICK m \in 0..size : m = size - n
  BY <1>1
<1>9. /\ IsList(SubSeq(SemStack, 1, m)) /\ Len(SubSeq(SemStack, 1, m)) = m
      /\ IsList(SubSeq(SemStack, m + 1, size)) /\ Len(SubSeq(SemStack, m + 1, size)) = size - m
      /\ \A i \in 1..(size - m) : SubSeq(SemStack, m + 1, size)[i] = SemStack[m + i]
  BY <1>2, ListSplit
<1>10. Sem!Below(n) = SubSeq(SemStack, 1, m) /\ Sem!Top(n) = SubSeq(SemStack, m + 1, size) /\ size - m = n
  BY <1>1, <1>2, <1>6, <1>7, <1>8
<1>11. ASSUME NEW i \in 0..(n - 1) PROVE Sem!Operand(i) = OperandOf(Funs, Operand(i))
  <2>1. size - i \in 1..size
    BY <1>1
  <2>2. SemStack[size - i] = OperandOf(Funs, stack[size - i])
    BY <1>2, <2>1
  <2> QED
    BY <1>1, <1>2, <1>5, <2>2 DEF Operand
<1>12. ASSUME NEW i \in 1..n PROVE Sem!Top(n)[i] = OperandOf(Funs, Top(n)[i])
  <2>1. m + i \in 1..size /\ i \in 1..(size - m)
    BY <1>1, <1>8
  <2>2. Sem!Top(n)[i] = OperandOf(Funs, stack[m + i])
    BY <1>2, <1>9, <1>10, <2>1
  <2>3. Top(n)[i] = stack[m + i]
    BY <1>1, <1>8, StackParts
  <2> QED
    BY <2>2, <2>3
<1> QED
  BY <1>4, <1>6, <1>9, <1>10, <1>11, <1>12

(* The stack after a step that puts r in place of n operands.              *)
LEMMA SemStackNext ==
  ASSUME SInv, SInv', NEW New, Changes(New), NEW n \in Nat, Has(n), NEW r, stack' = Append(Below(n), r)
  PROVE  SemStack' = Append(Sem!Below(n), OperandOf(Funs', r))
<1>1. PICK size \in Nat : size = Len(stack) /\ n <= size
  BY HasParts DEF SInv
<1>2. PICK m \in 0..size : m = size - n
  BY <1>1
<1>3. IsList(SemStack) /\ Len(SemStack) = size /\ \A j \in 1..size : SemStack[j] = OperandOf(Funs, stack[j])
  BY <1>1, SemStackList DEF SInv
<1>4. /\ IsList(SubSeq(SemStack, 1, m)) /\ Len(SubSeq(SemStack, 1, m)) = m
      /\ \A i \in 1..m : SubSeq(SemStack, 1, m)[i] = SemStack[i]
  BY <1>3, ListSplit
<1>5. Sem!Below(n) = SubSeq(SemStack, 1, m)
  BY <1>1, <1>2, <1>3, SemOperands DEF SInv
<1>6. PICK R : R = OperandOf(Funs', r)
  OBVIOUS
<1>7. PICK A : A = Append(Sem!Below(n), R)
  OBVIOUS
<1>8. IsList(A) /\ Len(A) = m + 1 /\ (\A i \in 1..m : A[i] = SemStack[i]) /\ A[m + 1] = R
  BY <1>4, <1>5, <1>7, ListAppend
<1>9. IsList(stack) /\ DOMAIN stack = 1..size
  BY <1>1, ListFinite DEF SInv, IInv, Cells
<1>10. /\ IsList(SubSeq(stack, 1, m)) /\ Len(SubSeq(stack, 1, m)) = m
       /\ \A i \in 1..m : SubSeq(stack, 1, m)[i] = stack[i]
  BY <1>1, <1>9, ListSplit
<1>11. Below(n) = SubSeq(stack, 1, m)
  BY <1>1, <1>2 DEF Below
<1>12. IsList(stack') /\ Len(stack') = m + 1 /\ (\A i \in 1..m : stack'[i] = stack[i]) /\ stack'[m + 1] = r
  BY <1>10, <1>11, ListAppend
<1>13. DOMAIN stack' = 1..(m + 1)
  BY <1>12, ListFinite
<1>14. PICK S : S = SemStack'
  OBVIOUS
<1>15. S = [j \in 1..(m + 1) |-> OperandOf(Funs', stack'[j])]
  BY <1>12, <1>14, SemStacks
<1>16. S = [j \in 1..(m + 1) |-> S[j]]
  BY <1>15
<1>17. IsList(S) /\ Len(S) = m + 1
  BY <1>16, ListOf
<1>18. ASSUME NEW j \in 1..(m + 1) PROVE S[j] = A[j]
  <2>1. CASE j = m + 1
    BY <1>6, <1>8, <1>12, <1>15, <2>1
  <2>2. CASE j # m + 1
    <3>1. j \in 1..m /\ j \in DOMAIN stack /\ j \in DOMAIN stack'
      BY <1>9, <1>13, <2>2
    <3>2. stack'[j] = stack[j]
      BY <1>12, <3>1
    <3>3. OperandOf(Funs', stack'[j]) = OperandOf(Funs, stack[j])
      BY <3>1, <3>2, StackKept
    <3>4. SemStack[j] = OperandOf(Funs, stack[j])
      BY <1>3, <1>9, <3>1
    <3> QED
      BY <1>8, <1>15, <3>1, <3>3, <3>4
  <2> QED
    BY <2>1, <2>2
<1>19. S = A
  BY <1>8, <1>17, <1>18, ListsEqual
<1> QED
  BY <1>6, <1>7, <1>14, <1>19

(* What a cell stands for is never how a step ends.                        *)
LEMMA NoOutcome ==
  ASSUME IInv, Ordered(partials), NEW i \in DOMAIN stack
  PROVE  OperandOf(Funs, stack[i]).k \notin {"raise", "stopped"}
<1>1. PICK c : c = stack[i] /\ WellMade(c) /\ Known(c)
  BY KnownNow DEF IInv, Cells, KnowsCells
<1>2. CASE c.k = "arr"
  BY <1>1, <1>2, CellFields DEF OperandOf
<1>3. CASE IsValueCell(c) /\ c.k # "partial"
  <2>1. c.k = "text" => c.v \in Seq(Bytes)
    BY <1>3, ValueCells
  <2>2. c.k = "text" => SemText(c.v).k \in {"text", "cut"}
    BY <2>1, SemTextIs
  <2>3. c.k \in {"int", "float", "bool", "null", "text", "func"}
    BY <1>3, ValueCells
  <2> QED
    BY <1>1, <1>3, <2>2, <2>3 DEF OperandOf, Of, InnerIn, Cell
<1>4. CASE c.k = "partial"
  <2>1. N(c) \in Live
    BY <1>1, <1>4 DEF Known
  <2>2. Funs[N(c)] = Over(Funs, partials[N(c)])
    BY <2>1, FunsUnfold DEF Unfolded
  <2>3. Funs[N(c)].k = "fun"
    BY <2>2 DEF Over, FunOver, Cell
  <2> QED
    BY <1>1, <1>4, <2>3 DEF OperandOf, Of, InnerIn
<1>5. c = Arr(c.e) => c.k = "arr"
  BY CellFields
<1> QED
  BY <1>1, <1>2, <1>3, <1>4, <1>5 DEF WellMade

NoOutcomes == \A i \in DOMAIN stack : OperandOf(Funs, stack[i]).k \notin {"raise", "stopped"}

LEMMA NoOutcomesNow == SInv => NoOutcomes
BY NoOutcome DEF NoOutcomes, SInv

LEMMA NoOutcomesNext == SInv' => NoOutcomes'
BY NoOutcomesNow, PTL

LEMMA ResultIs ==
  ASSUME NEW n, NEW outcomes
  PROVE  Sem!Result(n, outcomes) <=>
           /\ Sem!Has(n)
           /\ \/ Sem!Raise \in outcomes /\ SemStatus' = "error" /\ SemStack' = SemStack
              \/ Sem!Stopped \in outcomes /\ SemStatus' = "stopped" /\ SemStack' = SemStack
              \/ \E r \in outcomes \ {Sem!Raise, Sem!Stopped} :
                   SemStack' = Append(Sem!Below(n), r) /\ SemStatus' = SemStatus
           /\ SemScript' = SemScript /\ SemEnv' = SemEnv
BY DEF Sem!Result, SemStatus, SemStack, SemScript, SemEnv

(* The n operands become r.                                                *)
Becomes(n, r) == stack' = Append(Below(n), r) /\ UNCHANGED <<script, env, status>>

LEMMA Outcome ==
  ASSUME SInv, IInv', NEW New, Changes(New), NEW n \in Nat, Has(n), NEW r, Becomes(n, r)
  PROVE  /\ SInv'
         /\ \A outcomes : OperandOf(Funs', r) \in outcomes => Sem!Result(n, outcomes)
<1>1. SInv'
  BY ChangesKeep
<1>2. SemEnv' = SemEnv /\ SemScript' = SemScript
  BY <1>1, EnvKept DEF Becomes
<1>3. SemStack' = Append(Sem!Below(n), OperandOf(Funs', r))
  BY <1>1, SemStackNext DEF Becomes
<1>4. OperandOf(Funs', r).k \notin {"raise", "stopped"}
  <2>1. IsList(Below(n))
    BY HasParts, StackParts DEF SInv, Cells
  <2>2. IsList(stack') /\ Len(stack') = Len(Below(n)) + 1 /\ stack'[Len(Below(n)) + 1] = r
    BY <2>1, ListAppend DEF Becomes
  <2>3. Len(Below(n)) \in Nat /\ DOMAIN stack' = 1..Len(stack')
    BY <2>1, <2>2, ListFinite
  <2>4. Len(Below(n)) + 1 \in DOMAIN stack'
    BY <2>2, <2>3
  <2>5. \A i \in DOMAIN stack' : OperandOf(Funs', stack'[i]).k \notin {"raise", "stopped"}
    BY <1>1, NoOutcomesNext DEF NoOutcomes, OperandOf, Of, InnerIn
  <2> QED
    BY <2>2, <2>4, <2>5
<1>5. OperandOf(Funs', r) \notin {Sem!Raise, Sem!Stopped}
  BY <1>4 DEF Sem!Raise, Sem!Stopped, Sem!Cell
<1>6. SemStatus' = SemStatus
  BY DEF Becomes, SemStatus
<1>7. Sem!Has(n)
  BY SemOperands DEF SInv
<1>8. ASSUME NEW outcomes, OperandOf(Funs', r) \in outcomes PROVE Sem!Result(n, outcomes)
  <2>1. PICK R \in outcomes \ {Sem!Raise, Sem!Stopped} : SemStack' = Append(Sem!Below(n), R)
    BY <1>3, <1>5, <1>8
  <2> QED
    BY <1>2, <1>6, <1>7, <2>1, ResultIs
<1> QED
  BY <1>1, <1>8

(* Nothing changes that OperandSem has.                                    *)
LEMMA SameChanges == partials' = partials => Changes({})
BY DEF Changes, Same

LEMMA Stopping ==
  ASSUME SInv, IInv', NEW n \in Nat, Has(n), NEW how \in {"error", "freed", "trap", "misbound"}, Stop(how)
  PROVE  /\ SInv'
         /\ \A outcomes :
              (IF how = "error" THEN Sem!Raise \in outcomes ELSE Sem!Stopped \in outcomes)
              => Sem!Result(n, outcomes)
<1>1. SInv'
  BY SameChanges, ChangesKeep DEF Stop
<1>2. SemEnv' = SemEnv /\ SemScript' = SemScript
  BY <1>1, SameChanges, EnvKept DEF Stop
<1>3. Funs' = Funs
  BY DEF Funs, Stop
<1>4. SemStack' = SemStack
  BY <1>3, SemStacks DEF Stop
<1>5. SemStatus' = IF how = "error" THEN "error" ELSE "stopped"
  BY DEF Stop, SemStatus
<1>6. Sem!Has(n)
  BY SemOperands DEF SInv
<1>7. ASSUME NEW outcomes, IF how = "error" THEN Sem!Raise \in outcomes ELSE Sem!Stopped \in outcomes
      PROVE Sem!Result(n, outcomes)
  BY <1>2, <1>4, <1>5, <1>6, <1>7, ResultIs
<1> QED
  BY <1>1, <1>7

-----------------------------------------------------------------------------
(* Operands that are values, and the answers.                              *)

Plain(c) == c.k \in {"int", "float", "bool", "null"}

LEMMA PlainSame == \A T, c : Plain(c) => OperandOf(T, c) = c
BY DEF Plain, OperandOf, Of, InnerIn

LEMMA TextShown == \A T, c : c.k = "text" => OperandOf(T, c) = SemText(c.v)
BY DEF OperandOf, Of, InnerIn

LEMMA ValueShown ==
  ASSUME SInv, NEW c, IsValueCell(c), Known(c), NEW b, b = OperandOf(Funs, c)
  PROVE  /\ b = SemCell(c)
         /\ Plain(c) => b = c
         /\ c.k = "text" => b = SemText(c.v) /\ b.k \in {"text", "cut"} /\ c.v \in Seq(Bytes)
         /\ c.k = "func" => b = Sem!Fun(N(c), <<>>) /\ N(c) \in DOMAIN Functions
         /\ c.k = "partial" => N(c) \in Live /\ b = Over(Funs, partials[N(c)])
         /\ c.k \in {"func", "partial"} => b.k = "fun"
         /\ Plain(c) \/ c.k \in {"text", "func", "partial"}
<1>1. /\ c.k \in {"int", "float", "bool", "null", "text", "func", "partial"}
      /\ c.k = "text" => c.v \in Seq(Bytes)
      /\ c.k = "func" => N(c) \in DOMAIN Functions
  BY ValueCells
<1>2. c.k = "text" => b = SemText(c.v) /\ b.k \in {"text", "cut"}
  BY <1>1, TextShown, SemTextIs
<1>3. c.k = "func" => b = Sem!Fun(N(c), <<>>)
  <2>1. ASSUME c.k = "func" PROVE c = Func(N(c))
    BY <2>1 DEF IsValueCell
  <2>2. ASSUME c.k = "func" PROVE c.v = <<N(c)>>
    <3>1. PICK n : n = N(c)
      OBVIOUS
    <3>2. c = Func(n)
      BY <2>1, <2>2, <3>1
    <3> QED
      BY <3>1, <3>2 DEF Func, Cell
  <2> QED
    BY <2>2 DEF OperandOf, Of, InnerIn, Sem!Fun, Sem!Cell, Cell
<1>4. c.k = "partial" => N(c) \in Live /\ b = Over(Funs, partials[N(c)])
  <2>1. ASSUME c.k = "partial" PROVE N(c) \in Live /\ b = Funs[N(c)]
    BY <2>1 DEF Known, OperandOf, Of, InnerIn
  <2> QED
    BY <2>1, UnfoldedNow DEF Unfolded
<1>5. Plain(c) => b = c
  BY PlainSame
<1>6. b = SemCell(c)
  <2>1. c.k # "arr"
    BY <1>1
  <2> QED
    BY <2>1, CellIs DEF OperandOf
<1>7. c.k \in {"func", "partial"} => b.k = "fun"
  BY <1>3, <1>4 DEF Sem!Fun, Sem!Cell, Over, FunOver, Cell
<1> QED
  BY <1>1, <1>2, <1>3, <1>4, <1>5, <1>6, <1>7 DEF Plain

LEMMA Shown ==
  ASSUME SInv, NEW n \in Nat, Values(n), NEW i \in 0..(n - 1)
  PROVE  /\ IsValueCell(Operand(i)) /\ ~IsRaw(Operand(i)) /\ Known(Operand(i))
         /\ Sem!Operand(i) = OperandOf(Funs, Operand(i))
         /\ Has(n) /\ Sem!Has(n)
<1>1. IsValueCell(Operand(i)) /\ Present(Operand(i)) /\ ~IsRaw(Operand(i))
  BY OperandPresent DEF SInv
<1>2. Known(Operand(i))
  BY <1>1, ValueCells DEF Present, Known, Live
<1>3. Has(n)
  BY DEF Values
<1> QED
  BY <1>1, <1>2, <1>3, SemOperands DEF SInv

(* The operand at i, in a module that has no use for its other names.      *)
IsOperand(i, c, b) ==
  /\ c = Operand(i) /\ b = Sem!Operand(i)
  /\ IsValueCell(c) /\ ~IsRaw(c) /\ Known(c) /\ b = OperandOf(Funs, c)

LEMMA TheOperand ==
  ASSUME SInv, NEW n \in Nat, Values(n), NEW i \in 0..(n - 1)
  PROVE  Has(n) /\ \E c, b : IsOperand(i, c, b)
BY Shown DEF IsOperand

LEMMA DoBecomes ==
  ASSUME NEW n, NEW r, NEW np, NEW ps, NEW d, Do(Append(Below(n), r), np, ps, d)
  PROVE  Becomes(n, r) /\ partials' = ps
BY DEF Do, Becomes

LEMMA AnswerSem ==
  ASSUME SInv, IInv', NEW n \in Nat, Has(n), NEW r, Plain(r), Answer(n, r)
  PROVE  SInv' /\ \A outcomes : r \in outcomes => Sem!Result(n, outcomes)
<1>1. Becomes(n, r) /\ partials' = partials
  BY DoBecomes DEF Answer
<1>2. OperandOf(Funs', r) = r
  BY PlainSame
<1>3. Changes({})
  BY <1>1, SameChanges
<1> QED
  BY <1>1, <1>2, <1>3, Outcome

LEMMA AnswerTextSem ==
  ASSUME SInv, IInv', NEW n \in Nat, Has(n), NEW s, AnswerText(n, s),
         NEW outcomes, Sem!OrStopped(OperandOf(Funs, Operand(n - 1)), SemText(s)) \subseteq outcomes
  PROVE  SInv' /\ Sem!Result(n, outcomes)
<1>1. SemText(s) \in outcomes
  BY DEF Sem!OrStopped
<1>2. CASE Operand(n - 1) = Text(s) /\ pool[s] = 1
  <2>1. OperandOf(Funs, Operand(n - 1)) = SemText(s)
    BY <1>2, TextShown, CellFields
  <2>2. Sem!Stopped \in outcomes
    BY <2>1 DEF Sem!OrStopped
  <2>3. Stop("freed")
    BY <1>2 DEF AnswerText
  <2> QED
    BY <2>2, <2>3, Stopping
<1>3. CASE ~(Operand(n - 1) = Text(s) /\ pool[s] = 1)
  <2>1. Do(Append(Below(n), Text(s)), Interned(s), partials, Top(n))
    BY <1>3 DEF AnswerText
  <2>2. Becomes(n, Text(s)) /\ partials' = partials
    BY <2>1, DoBecomes
  <2>3. Changes({})
    BY <2>2, SameChanges
  <2>4. OperandOf(Funs', Text(s)) = SemText(s)
    BY TextShown, CellFields
  <2> QED
    BY <1>1, <2>2, <2>3, <2>4, Outcome
<1> QED
  BY <1>2, <1>3

LEMMA Raising ==
  ASSUME SInv, IInv', NEW n \in Nat, Has(n), Stop("error")
  PROVE  SInv' /\ \A outcomes : Sem!Raise \in outcomes => Sem!Result(n, outcomes)
BY Stopping

-----------------------------------------------------------------------------
(* Arithmetic.                                                             *)

LEMMA BinaryStep ==
  ASSUME Sem!Has(2), NEW a, a = Sem!Operand(1), NEW b, b = Sem!Operand(0)
  PROVE  /\ \A op \in {"Add", "Sub", "Mul", "Div", "Mod"} :
              Sem!Result(2, Sem!Calculated(op, a, b)) => Sem!Next
         /\ \A mode \in Modes : Sem!Result(2, Sem!Decided(mode, a, b)) => Sem!Next
         /\ Sem!Result(2, Sem!Compared(a, b)) => Sem!Next
         /\ Sem!Result(2, Sem!Appended(a, b)) => Sem!Next
         /\ Sem!Result(2, Sem!Got(a, b)) => Sem!Next
         /\ Sem!Result(2, Sem!Applied(a, b)) => Sem!Next
         /\ b.k = "arr" /\ Sem!Result(2, Sem!Found(a, b.e)) => Sem!Next
<1>1. Sem!Binary => Sem!Next
  BY DEF Sem!Next
<1> QED
  BY <1>1 DEF Sem!Binary, Sem!Modes, Modes

LEMMA UnaryStep ==
  ASSUME Sem!Has(1), NEW a, a = Sem!Operand(0)
  PROVE  /\ Sem!Result(1, Sem!Negated(a)) => Sem!Next
         /\ Sem!Result(1, Sem!Denied(a)) => Sem!Next
BY DEF Sem!Next, Sem!Unary

(* Numbers stand for themselves, and nothing else for a number.            *)
LEMMA NumbersShown ==
  ASSUME SInv, NEW i, NEW c, NEW b, IsOperand(i, c, b)
  PROVE  /\ IsNumber(c) => b = c
         /\ IsNumber(b) <=> IsNumber(c)
         /\ \A k \in {"int", "float", "bool", "null"} : b.k = k <=> c.k = k
         /\ c.k \in {"bool", "null"} => b = c
<1>1. /\ Plain(c) => b = c
      /\ c.k = "text" => b.k \in {"text", "cut"}
      /\ c.k \in {"func", "partial"} => b.k = "fun"
      /\ Plain(c) \/ c.k \in {"text", "func", "partial"}
  BY ValueShown DEF IsOperand
<1> QED
  BY <1>1 DEF Plain, IsNumber

LEMMA IntsAre == \A n \in IntOf : n \in Int
<1>1. PICK h \in Nat : h = Half
  BY OperandAssumption
<1> QED
  BY <1>1 DEF IntOf

LEMMA IntOpIs ==
  ASSUME NEW op \in {"Add", "Sub", "Mul", "Div", "Mod"}, NEW a \in IntOf, NEW b \in IntOf,
         op \in {"Div", "Mod"} => b # 0 /\ ~(a = -Half /\ b = -1)
  PROVE  Int_(IntOp(op, a, b)) \in CASE op = "Add" -> Sem!Wraps(a + b)
                                     [] op = "Sub" -> Sem!Wraps(a - b)
                                     [] op = "Mul" -> Sem!Wraps(a * b)
                                     [] OTHER      -> Sem!Quotients(op, a, b)
<1>1. a \in Int /\ b \in Int
  BY IntsAre
<1>2. a + b \in Int /\ a - b \in Int /\ a * b \in Int
  BY <1>1
<1>3. /\ Int_(Wrapped(a + b)) \in Sem!Wraps(a + b)
      /\ Int_(Wrapped(a - b)) \in Sem!Wraps(a - b)
      /\ Int_(Wrapped(a * b)) \in Sem!Wraps(a * b)
  BY <1>2, WrapsIs
<1>4. CASE op \in {"Div", "Mod"}
  BY <1>4, QuotientsIs DEF IntOp
<1> QED
  BY <1>3, <1>4 DEF IntOp

LEMMA ArithSem ==
  ASSUME SInv, IInv', Arith
  PROVE  SInv' /\ Sem!Next
<1>1. Values(2)
  BY DEF Arith, Uses
<1>2. Has(2) /\ Sem!Has(2)
  BY <1>1, Shown
<1>3. PICK a, x : IsOperand(1, a, x)
  BY <1>1, TheOperand
<1>4. PICK b, y : IsOperand(0, b, y)
  BY <1>1, TheOperand
<1>5. PICK op \in {"Add", "Sub", "Mul", "Div", "Mod"} :
        IF ~IsNumber(a) \/ ~IsNumber(b) THEN Stop("error")
        ELSE IF "float" \in {a.k, b.k} THEN \E z \in Floats : Answer(2, Float(z))
        ELSE IF op \in {"Div", "Mod"} /\ N(b) = 0 THEN Stop("error")
        ELSE IF op \in {"Div", "Mod"} /\ N(a) = -Half /\ N(b) = -1 THEN Stop("trap")
        ELSE Answer(2, Int_(IntOp(op, N(a), N(b))))
  BY <1>3, <1>4 DEF Arith, IsOperand
<1>6. SUFFICES SInv' /\ Sem!Result(2, Sem!Calculated(op, x, y))
  BY <1>2, <1>3, <1>4, BinaryStep DEF IsOperand
<1>7. (IsNumber(a) => x = a) /\ (IsNumber(x) <=> IsNumber(a)) /\ (IsNumber(b) => y = b) /\ (IsNumber(y) <=> IsNumber(b))
  BY <1>3, <1>4, NumbersShown
<1>8. /\ Sem!Calculated(op, x, y) =
           IF ~IsNumber(x) \/ ~IsNumber(y) THEN {Sem!Raise}
           ELSE IF x.k = "float" \/ y.k = "float" THEN {Float(z) : z \in Floats}
           ELSE CASE op = "Add" -> Sem!Wraps(N(x) + N(y))
                  [] op = "Sub" -> Sem!Wraps(N(x) - N(y))
                  [] op = "Mul" -> Sem!Wraps(N(x) * N(y))
                  [] OTHER      -> Sem!Quotients(op, N(x), N(y))
  BY SameWords DEF Sem!Calculated
<1>9. CASE ~IsNumber(a) \/ ~IsNumber(b)
  <2>1. Stop("error") /\ Sem!Raise \in Sem!Calculated(op, x, y)
    BY <1>5, <1>7, <1>8, <1>9
  <2> QED
    BY <1>2, <2>1, Raising
<1>10. CASE IsNumber(a) /\ IsNumber(b) /\ "float" \in {a.k, b.k}
  <2>1. PICK z \in Floats : Answer(2, Float(z))
    BY <1>5, <1>10
  <2>2. Float(z) \in Sem!Calculated(op, x, y)
    BY <1>7, <1>8, <1>10
  <2>3. Plain(Float(z))
    BY CellFields DEF Plain
  <2> QED
    BY <1>2, <2>1, <2>2, <2>3, AnswerSem
<1>11. CASE IsNumber(a) /\ IsNumber(b) /\ "float" \notin {a.k, b.k}
  <2>1. a.k = "int" /\ b.k = "int" /\ x = a /\ y = b
    BY <1>7, <1>11 DEF IsNumber
  <2>2. N(a) \in IntOf /\ N(b) \in IntOf
    BY <1>3, <1>4, <2>1, ValueCells DEF IsOperand
  <2>3. Sem!Calculated(op, x, y) =
          CASE op = "Add" -> Sem!Wraps(N(a) + N(b))
            [] op = "Sub" -> Sem!Wraps(N(a) - N(b))
            [] op = "Mul" -> Sem!Wraps(N(a) * N(b))
            [] OTHER      -> Sem!Quotients(op, N(a), N(b))
    BY <1>7, <1>8, <1>11, <2>1
  <2>4. PICK m, n : m = N(a) /\ n = N(b)
    OBVIOUS
  <2>5. CASE op \in {"Div", "Mod"} /\ n = 0
    <3>1. Sem!Quotients(op, m, n) = {Sem!Raise}
      BY <2>5 DEF Sem!Quotients
    <3>2. Stop("error")
      BY <1>5, <1>11, <2>4, <2>5
    <3>3. Sem!Raise \in Sem!Calculated(op, x, y)
      BY <2>3, <2>4, <2>5, <3>1
    <3> QED
      BY <1>2, <3>2, <3>3, Raising
  <2>6. CASE op \in {"Div", "Mod"} /\ n # 0 /\ m = -Half /\ n = -1
    <3>1. Sem!Quotients(op, m, n) = {Sem!Stopped}
      BY <2>6, SameWords DEF Sem!Quotients
    <3>2. Stop("trap")
      BY <1>5, <1>11, <2>4, <2>6
    <3>3. Sem!Stopped \in Sem!Calculated(op, x, y)
      BY <2>3, <2>4, <2>6, <3>1
    <3> QED
      BY <1>2, <3>2, <3>3, Stopping
  <2>7. CASE ~(op \in {"Div", "Mod"} /\ (n = 0 \/ (m = -Half /\ n = -1)))
    <3>1. Answer(2, Int_(IntOp(op, m, n)))
      BY <1>5, <1>11, <2>4, <2>7
    <3>2. Int_(IntOp(op, m, n)) \in CASE op = "Add" -> Sem!Wraps(m + n)
                                     [] op = "Sub" -> Sem!Wraps(m - n)
                                     [] op = "Mul" -> Sem!Wraps(m * n)
                                     [] OTHER      -> Sem!Quotients(op, m, n)
      BY <2>2, <2>4, <2>7, IntOpIs
    <3>3. Int_(IntOp(op, m, n)) \in Sem!Calculated(op, x, y)
      BY <2>3, <2>4, <3>2
    <3>4. Plain(Int_(IntOp(op, m, n)))
      BY CellFields DEF Plain
    <3> QED
      BY <1>2, <3>1, <3>3, <3>4, AnswerSem
  <2> QED
    BY <2>5, <2>6, <2>7
<1> QED
  BY <1>9, <1>10, <1>11

LEMMA NegSem ==
  ASSUME SInv, IInv', Neg
  PROVE  SInv' /\ Sem!Next
<1>1. Values(1)
  BY DEF Neg, Uses
<1>2. Has(1) /\ Sem!Has(1)
  BY <1>1, Shown
<1>3. PICK c, b : IsOperand(0, c, b)
  BY <1>1, TheOperand
<1>4. SUFFICES SInv' /\ Sem!Result(1, Sem!Negated(b))
  BY <1>2, <1>3, UnaryStep DEF IsOperand
<1>5. (IsNumber(c) => b = c) /\ (IsNumber(b) <=> IsNumber(c))
  BY <1>3, NumbersShown
<1>6. CASE c.k = "int"
  <2>1. Answer(1, Int_(Wrapped(-N(c))))
    BY <1>3, <1>6 DEF Neg, IsOperand
  <2>2. N(c) \in Int
    BY <1>3, <1>6, Numbers DEF IsOperand
  <2>3. -N(c) \in Int
    BY <2>2
  <2>4. Int_(Wrapped(-N(c))) \in Sem!Wraps(-N(c))
    BY <2>3, WrapsIs
  <2>5. Int_(Wrapped(-N(c))) \in Sem!Negated(b)
    BY <1>5, <1>6, <2>4, SameWords DEF Sem!Negated, IsNumber
  <2>6. Plain(Int_(Wrapped(-N(c))))
    BY CellFields DEF Plain
  <2> QED
    BY <1>2, <2>1, <2>5, <2>6, AnswerSem
<1>7. CASE c.k = "float"
  <2>1. PICK z : z = IF IsNaN(c) THEN NaN ELSE -N(c)
    OBVIOUS
  <2>2. Answer(1, Float(z))
    BY <1>3, <1>7, <2>1 DEF Neg, IsOperand
  <2>3. b = c
    BY <1>5, <1>7 DEF IsNumber
  <2>4. Sem!Negated(b) = {Sem!Float(IF Sem!IsNaN(c) THEN Sem!NaN ELSE -Sem!N(c))}
    BY <1>7, <2>3 DEF Sem!Negated
  <2>5. Sem!Negated(b) = {Float(z)}
    BY <2>1, <2>4, SameWords
  <2>6. Plain(Float(z))
    BY CellFields DEF Plain
  <2> QED
    BY <1>2, <2>2, <2>5, <2>6, AnswerSem
<1>8. CASE c.k \notin {"int", "float"}
  <2>1. Stop("error")
    BY <1>3, <1>8 DEF Neg, IsOperand
  <2>2. Sem!Negated(b) = {Sem!Raise}
    BY <1>5, <1>8 DEF Sem!Negated, IsNumber
  <2> QED
    BY <1>2, <2>1, <2>2, Raising
<1> QED
  BY <1>6, <1>7, <1>8

LEMMA NotSem ==
  ASSUME SInv, IInv', Not
  PROVE  SInv' /\ Sem!Next
<1>1. Values(1)
  BY DEF Not, Uses
<1>2. Has(1) /\ Sem!Has(1)
  BY <1>1, Shown
<1>3. PICK c, b : IsOperand(0, c, b)
  BY <1>1, TheOperand
<1>4. SUFFICES SInv' /\ Sem!Result(1, Sem!Denied(b))
  BY <1>2, <1>3, UnaryStep DEF IsOperand
<1>5. /\ c.k \in {"int", "float", "bool", "null"} => b = c
      /\ \A k \in {"int", "float", "bool", "null"} : b.k = k <=> c.k = k
  BY <1>3, NumbersShown DEF IsNumber
<1>6. \A t : Plain(Bool(t))
  BY CellFields DEF Plain
<1>7. CASE c.k = "null"
  <2>1. Answer(1, Bool(TRUE))
    BY <1>3, <1>7 DEF Not, IsOperand
  <2>2. Sem!Denied(b) = {Bool(TRUE)}
    BY <1>5, <1>7, SameWords DEF Sem!Denied
  <2> QED
    BY <1>2, <1>6, <2>1, <2>2, AnswerSem
<1>8. CASE c.k \in {"bool", "int", "float"}
  <2>1. Answer(1, Bool(N(c) = 0))
    BY <1>3, <1>8 DEF Not, IsOperand
  <2>2. Sem!Denied(b) = {Bool(N(c) = 0)}
    BY <1>5, <1>8, SameWords DEF Sem!Denied
  <2> QED
    BY <1>2, <1>6, <2>1, <2>2, AnswerSem
<1>9. CASE c.k \notin {"int", "float", "bool", "null"}
  <2>1. Stop("error")
    BY <1>3, <1>9 DEF Not, IsOperand
  <2>2. Sem!Denied(b) = {Sem!Raise}
    BY <1>5, <1>9 DEF Sem!Denied
  <2> QED
    BY <1>2, <2>1, <2>2, Raising
<1> QED
  BY <1>7, <1>8, <1>9

-----------------------------------------------------------------------------
(* Comparisons.                                                            *)

LEMMA SignTwice == \A n \in Int : Sign(Sign(n)) = Sign(n) /\ Sign(2 * n) = Sign(n)
BY DEF Sign

LEMMA HoldsSign == \A mode \in Modes : \A n \in Int : Holds(mode, Sign(n)) <=> Holds(mode, n)
<1> SUFFICES ASSUME NEW mode \in Modes, NEW n \in Int PROVE Holds(mode, Sign(n)) <=> Holds(mode, n)
  OBVIOUS
<1>1. (Sign(n) = 0 <=> n = 0) /\ (Sign(n) > 0 <=> n > 0) /\ (Sign(n) < 0 <=> n < 0) /\ Sign(n) \in Int
  BY DEF Sign
<1>2. (Sign(n) >= 0 <=> n >= 0) /\ (Sign(n) <= 0 <=> n <= 0)
  BY <1>1
<1> QED
  BY <1>1, <1>2 DEF Holds, Modes

(* Two operands that have an order.                                        *)
Alike_(a, b) ==
  \/ IsNumber(a) /\ IsNumber(b)
  \/ a.k = b.k /\ a.k \in {"null", "bool", "text"}

LEMMA OrdersShown ==
  ASSUME SInv, NEW a, NEW x, IsOperand(1, a, x), NEW b, NEW y, IsOperand(0, b, y)
  PROVE  /\ IsNumber(a) /\ IsNumber(b) => Sem!Orders(x, y) = {Sign(FloatDifference(a, b))}
         /\ a.k = "null" /\ b.k = "null" => Sem!Orders(x, y) = {0}
         /\ a.k = "bool" /\ b.k = "bool" => Sem!Orders(x, y) = {Sign(N(a) - N(b))}
         /\ a.k = "text" /\ b.k = "text" => Sem!Orders(x, y) = {Sign(CmpBytes(a.v, b.v))}
         /\ ~Alike_(a, b) => Sem!Orders(x, y) = {}
<1>1. /\ IsNumber(a) => x = a
      /\ IsNumber(x) <=> IsNumber(a)
      /\ \A k \in {"int", "float", "bool", "null"} : x.k = k <=> a.k = k
      /\ a.k \in {"bool", "null"} => x = a
  BY NumbersShown
<1>2. /\ IsNumber(b) => y = b
      /\ IsNumber(y) <=> IsNumber(b)
      /\ \A k \in {"int", "float", "bool", "null"} : y.k = k <=> b.k = k
      /\ b.k \in {"bool", "null"} => y = b
  BY NumbersShown
<1>3. /\ Plain(a) => x = a
      /\ a.k = "text" => x = SemText(a.v) /\ x.k \in {"text", "cut"} /\ a.v \in Seq(Bytes)
      /\ a.k \in {"func", "partial"} => x.k = "fun"
      /\ Plain(a) \/ a.k \in {"text", "func", "partial"}
  BY ValueShown DEF IsOperand
<1>4. /\ Plain(b) => y = b
      /\ b.k = "text" => y = SemText(b.v) /\ y.k \in {"text", "cut"} /\ b.v \in Seq(Bytes)
      /\ b.k \in {"func", "partial"} => y.k = "fun"
      /\ Plain(b) \/ b.k \in {"text", "func", "partial"}
  BY ValueShown DEF IsOperand
<1>5. (Sem!IsText(x) <=> a.k = "text") /\ (Sem!IsText(y) <=> b.k = "text")
  BY <1>3, <1>4 DEF Sem!IsText, Plain
<1>6. Sem!Orders(x, y) =
        IF Sem!IsText(x) /\ Sem!IsText(y)
        THEN {IF Sem!Before(x.v, y.v) THEN -1 ELSE IF Sem!Before(y.v, x.v) THEN 1 ELSE 0}
        ELSE IF IsNumber(x) /\ IsNumber(y)
        THEN IF IsNaN(x) \/ IsNaN(y) THEN {0} ELSE {Sign(AsFloat(x) - AsFloat(y))}
        ELSE IF x.k = y.k /\ x.k \in {"null", "bool"}
        THEN {IF x = y THEN 0 ELSE Sign(N(x) - N(y))}
        ELSE {}
  BY SameWords DEF Sem!Orders
<1>7. IsValueCell(a) /\ IsValueCell(b)
  BY DEF IsOperand
<1>8. ASSUME IsNumber(a), IsNumber(b) PROVE Sem!Orders(x, y) = {Sign(FloatDifference(a, b))}
  <2>1. ~Sem!IsText(x) /\ x = a /\ y = b
    BY <1>1, <1>2, <1>5, <1>8 DEF IsNumber
  <2>2. Sign(0) = 0
    BY DEF Sign
  <2> QED
    BY <1>6, <1>8, <2>1, <2>2 DEF FloatDifference
<1>9. ASSUME a.k = "null", b.k = "null" PROVE Sem!Orders(x, y) = {0}
  <2>1. a = Null /\ b = Null
    BY <1>7, <1>9 DEF IsValueCell
  <2>2. ~Sem!IsText(x) /\ x = a /\ y = b /\ ~IsNumber(a)
    BY <1>1, <1>2, <1>5, <1>9 DEF IsNumber
  <2> QED
    BY <1>6, <1>9, <2>1, <2>2
<1>10. ASSUME a.k = "bool", b.k = "bool" PROVE Sem!Orders(x, y) = {Sign(N(a) - N(b))}
  <2>1. N(a) \in {0, 1} /\ N(b) \in {0, 1}
    BY <1>7, <1>10, ValueCells
  <2>2. ~Sem!IsText(x) /\ x = a /\ y = b /\ ~IsNumber(a)
    BY <1>1, <1>2, <1>5, <1>10 DEF IsNumber
  <2>3. a = b => Sign(N(a) - N(b)) = 0
    <3>1. a = b => N(a) - N(b) = 0
      BY <2>1
    <3> QED
      BY <3>1 DEF Sign
  <2> QED
    BY <1>6, <1>10, <2>2, <2>3
<1>11. ASSUME a.k = "text", b.k = "text" PROVE Sem!Orders(x, y) = {Sign(CmpBytes(a.v, b.v))}
  <2>1. Sem!IsText(x) /\ Sem!IsText(y)
    BY <1>5, <1>11
  <2>2. x.v = Visible(a.v) /\ y.v = Visible(b.v)
    BY <1>3, <1>4, <1>11, SemTextIs
  <2>3. Sign(CmpBytes(a.v, b.v)) = IF Sem!Before(x.v, y.v) THEN -1
                                   ELSE IF Sem!Before(y.v, x.v) THEN 1 ELSE 0
    BY <1>3, <1>4, <1>11, <2>2, CmpBytesOrder
  <2> QED
    BY <1>6, <2>1, <2>3
<1>12. ASSUME ~Alike_(a, b) PROVE Sem!Orders(x, y) = {}
  <2>1. ~(Sem!IsText(x) /\ Sem!IsText(y))
    BY <1>5, <1>12 DEF Alike_
  <2>2. ~(IsNumber(x) /\ IsNumber(y))
    BY <1>1, <1>2, <1>12 DEF Alike_
  <2>3. ~(x.k = y.k /\ x.k \in {"null", "bool"})
    BY <1>1, <1>2, <1>12 DEF Alike_
  <2> QED
    BY <1>6, <2>1, <2>2, <2>3
<1> QED
  BY <1>8, <1>9, <1>10, <1>11, <1>12

LEMMA IntsDiffer ==
  ASSUME NEW a, IsValueCell(a), a.k = "int", NEW b, IsValueCell(b), b.k = "int"
  PROVE  /\ N(a) - N(b) \in Int
         /\ Sign(FloatDifference(a, b)) = Sign(N(a) - N(b))
<1>1. PICK m, n \in Int : m = N(a) /\ n = N(b)
  BY Numbers
<1>2. FloatDifference(a, b) = 2 * m - 2 * n
  BY <1>1 DEF FloatDifference, IsNaN, AsFloat
<1>3. PICK d \in Int : d = m - n
  OBVIOUS
<1>4. 2 * m - 2 * n = 2 * d
  BY <1>3
<1> QED
  BY <1>1, <1>2, <1>3, <1>4, SignTwice

LEMMA ComparedIs ==
  ASSUME NEW x, NEW y, NEW n \in IntOf, Sign(n) \in Sem!Orders(x, y),
         x.k = "int" /\ y.k = "int" => n \in -1..1
  PROVE  Int_(n) \in Sem!Compared(x, y)
<1>1. Sem!Compared(x, y) =
        IF Sem!Orders(x, y) = {} THEN {Sem!Raise}
        ELSE IF x.k = "int" /\ y.k = "int" /\ N(x) - N(y) \notin IntOf
        THEN {Int_(i) : i \in -1..1}
        ELSE {Int_(i) : i \in {i \in IntOf : Sign(i) \in Sem!Orders(x, y)}}
  BY SameWords DEF Sem!Compared
<1>2. Sem!Orders(x, y) # {}
  OBVIOUS
<1>3. CASE x.k = "int" /\ y.k = "int" /\ N(x) - N(y) \notin IntOf
  BY <1>1, <1>2, <1>3
<1>4. CASE ~(x.k = "int" /\ y.k = "int" /\ N(x) - N(y) \notin IntOf)
  BY <1>1, <1>2, <1>4
<1> QED
  BY <1>3, <1>4

LEMMA CmpSem ==
  ASSUME SInv, IInv', Cmp
  PROVE  SInv' /\ Sem!Next
<1>1. Values(2)
  BY DEF Cmp, Uses
<1>2. Has(2) /\ Sem!Has(2)
  BY <1>1, Shown
<1>3. PICK a, x : IsOperand(1, a, x)
  BY <1>1, TheOperand
<1>4. PICK b, y : IsOperand(0, b, y)
  BY <1>1, TheOperand
<1>5. IF IsNumber(a) /\ IsNumber(b)
      THEN Answer(2, Int_(Sign(IF a.k = "int" /\ b.k = "int" THEN Wrapped(N(a) - N(b))
                               ELSE FloatDifference(a, b))))
      ELSE IF a.k # b.k \/ a.k \notin {"null", "bool", "text"} THEN Stop("error")
      ELSE Answer(2, Int_(CASE a.k = "null" -> 0
                            [] a.k = "bool" -> N(a) - N(b)
                            [] a.k = "text" -> CmpBytes(a.v, b.v)))
  BY <1>3, <1>4 DEF Cmp, IsOperand
<1>6. SUFFICES SInv' /\ Sem!Result(2, Sem!Compared(x, y))
  BY <1>2, <1>3, <1>4, BinaryStep DEF IsOperand
<1>7. IsValueCell(a) /\ IsValueCell(b)
  BY <1>3, <1>4 DEF IsOperand
<1>8. \A k \in {"int", "float", "bool", "null"} : (x.k = k <=> a.k = k) /\ (y.k = k <=> b.k = k)
  BY <1>3, <1>4, NumbersShown
<1>9. ASSUME NEW n \in Int, Answer(2, Int_(n)), Int_(n) \in Sem!Compared(x, y)
      PROVE  SInv' /\ Sem!Result(2, Sem!Compared(x, y))
  <2>1. Plain(Int_(n))
    BY CellFields DEF Plain
  <2> QED
    BY <1>2, <1>9, <2>1, AnswerSem
<1>10. /\ IsNumber(a) /\ IsNumber(b) => Sem!Orders(x, y) = {Sign(FloatDifference(a, b))}
       /\ a.k = "null" /\ b.k = "null" => Sem!Orders(x, y) = {0}
       /\ a.k = "bool" /\ b.k = "bool" => Sem!Orders(x, y) = {Sign(N(a) - N(b))}
       /\ a.k = "text" /\ b.k = "text" => Sem!Orders(x, y) = {Sign(CmpBytes(a.v, b.v))}
  BY <1>3, <1>4, OrdersShown
<1>11. CASE a.k = "int" /\ b.k = "int"
  <2>1. PICK d \in Int : d = N(a) - N(b) /\ Sign(FloatDifference(a, b)) = Sign(d)
    BY <1>7, <1>11, IntsDiffer
  <2>2. Answer(2, Int_(Sign(Wrapped(d))))
    BY <1>5, <1>11, <2>1 DEF IsNumber
  <2>3. Sem!Orders(x, y) = {Sign(d)}
    BY <1>3, <1>4, <1>11, <2>1, OrdersShown DEF IsNumber
  <2>4. PICK w \in IntOf : w = Wrapped(d) /\ (d \in IntOf => w = d)
    BY <2>1, WrappedIs, WrappedSame
  <2>5. w \in Int /\ Sign(w) \in -1..1 /\ Sign(w) \in IntOf /\ Sign(w) \in Int
    BY <2>4, IntsAre, SignIs, SmallIs
  <2>6. CASE d \in IntOf
    <3>1. Sign(Sign(w)) \in Sem!Orders(x, y)
      BY <2>1, <2>3, <2>4, <2>6, SignTwice
    <3>2. Int_(Sign(w)) \in Sem!Compared(x, y)
      BY <2>5, <3>1, ComparedIs
    <3> QED
      BY <1>9, <2>2, <2>4, <2>5, <3>2
  <2>7. CASE d \notin IntOf
    <3>1. x = a /\ y = b
      BY <1>3, <1>4, <1>11, NumbersShown DEF IsNumber
    <3>2. Sem!Compared(x, y) = {Int_(i) : i \in -1..1}
      BY <1>11, <2>1, <2>3, <2>7, <3>1, SameWords DEF Sem!Compared
    <3>3. Int_(Sign(w)) \in Sem!Compared(x, y)
      BY <2>5, <3>2
    <3> QED
      BY <1>9, <2>2, <2>4, <2>5, <3>3
  <2> QED
    BY <2>6, <2>7
<1>12. CASE IsNumber(a) /\ IsNumber(b) /\ ~(a.k = "int" /\ b.k = "int")
  <2>1. PICK d \in Int : d = FloatDifference(a, b)
    BY <1>7, <1>12, DifferenceIs
  <2>2. Answer(2, Int_(Sign(d)))
    BY <1>5, <1>12, <2>1
  <2>3. Sem!Orders(x, y) = {Sign(d)}
    BY <1>3, <1>4, <1>12, <2>1, OrdersShown
  <2>4. Sign(d) \in IntOf /\ Sign(d) \in Int /\ Sign(Sign(d)) = Sign(d) /\ Sign(d) \in -1..1
    BY <2>1, IntsAre, SignIs, SmallIs, SignTwice
  <2>5. Int_(Sign(d)) \in Sem!Compared(x, y)
    BY <2>3, <2>4, ComparedIs
  <2> QED
    BY <1>9, <2>2, <2>4, <2>5
<1>13. ASSUME ~(IsNumber(a) /\ IsNumber(b)), a.k = b.k, a.k \in {"null", "bool", "text"}
       PROVE  SInv' /\ Sem!Result(2, Sem!Compared(x, y))
  <2>1. PICK n : n = CASE a.k = "null" -> 0
                       [] a.k = "bool" -> N(a) - N(b)
                       [] a.k = "text" -> CmpBytes(a.v, b.v)
    OBVIOUS
  <2>2. Answer(2, Int_(n))
    BY <1>5, <1>13, <2>1
  <2>3. n \in IntOf /\ Sem!Orders(x, y) = {Sign(n)}
    <3>1. CASE a.k = "null"
      <4>1. n = 0 /\ 0 \in IntOf /\ Sign(0) = 0
        BY <2>1, <3>1, SmallIs DEF Sign
      <4> QED
        BY <1>13, <3>1, <4>1, <1>10
    <3>2. CASE a.k = "bool"
      <4>1. N(a) \in {0, 1} /\ N(b) \in {0, 1}
        BY <1>7, <1>13, <3>2, ValueCells
      <4>2. n = N(a) - N(b)
        BY <2>1, <3>2
      <4>3. n \in -1..1
        BY <4>1, <4>2
      <4> QED
        BY <1>13, <3>2, <4>2, <4>3, SmallIs, <1>10
    <3>3. CASE a.k = "text"
      <4>1. a.v \in Seq(Bytes) /\ b.v \in Seq(Bytes)
        BY <1>7, <1>13, <3>3, ValueCells
      <4>2. n = CmpBytes(a.v, b.v)
        BY <2>1, <3>3
      <4> QED
        BY <1>13, <3>3, <4>1, <4>2, CmpBytesIs, <1>10
    <3> QED
      BY <1>13, <3>1, <3>2, <3>3
  <2>4. ~(x.k = "int" /\ y.k = "int") /\ n \in Int
    BY <1>8, <1>13, <2>3, IntsAre
  <2>5. Int_(n) \in Sem!Compared(x, y)
    BY <2>3, <2>4, ComparedIs
  <2> QED
    BY <1>9, <2>2, <2>4, <2>5
<1>14. ASSUME ~(IsNumber(a) /\ IsNumber(b)), a.k # b.k \/ a.k \notin {"null", "bool", "text"}
       PROVE  SInv' /\ Sem!Result(2, Sem!Compared(x, y))
  <2>1. Stop("error")
    BY <1>5, <1>14
  <2>2. Sem!Orders(x, y) = {}
    BY <1>3, <1>4, <1>14, OrdersShown DEF Alike_
  <2>3. Sem!Raise \in Sem!Compared(x, y)
    BY <2>2 DEF Sem!Compared
  <2> QED
    BY <1>2, <2>1, <2>3, Raising
<1> QED
  BY <1>11, <1>12, <1>13, <1>14

(* What the six comparisons look at.                                       *)
CmpOf(a, b) ==
  CASE a.k = "null"  -> 0
    [] a.k = "bool"  -> N(a) - N(b)
    [] a.k = "int"   -> Narrowed(Wrapped(N(a) - N(b)))
    [] a.k = "float" -> SingleSign(FloatDifference(a, b))
    [] a.k = "text"  -> CmpBytes(a.v, b.v)

LEMMA CmpOfIs ==
  ASSUME SInv, NEW a, NEW x, IsOperand(1, a, x), NEW b, NEW y, IsOperand(0, b, y),
         a.k = b.k, a.k \in {"null", "bool", "int", "float", "text"}, ~Sem!Blurred(x, y)
  PROVE  CmpOf(a, b) \in Int /\ Sem!Orders(x, y) = {Sign(CmpOf(a, b))}
<1>1. PICK n : n = CmpOf(a, b)
  OBVIOUS
<1>2. IsValueCell(a) /\ IsValueCell(b)
  BY DEF IsOperand
<1>3. IsNumber(a) => x = a /\ y = b
  BY NumbersShown DEF IsNumber
<1>4. /\ IsNumber(a) /\ IsNumber(b) => Sem!Orders(x, y) = {Sign(FloatDifference(a, b))}
      /\ a.k = "null" /\ b.k = "null" => Sem!Orders(x, y) = {0}
      /\ a.k = "bool" /\ b.k = "bool" => Sem!Orders(x, y) = {Sign(N(a) - N(b))}
      /\ a.k = "text" /\ b.k = "text" => Sem!Orders(x, y) = {Sign(CmpBytes(a.v, b.v))}
  BY OrdersShown
<1>5. CASE a.k = "null"
  <2>1. n = 0 /\ Sign(0) = 0
    BY <1>1, <1>5 DEF CmpOf, Sign
  <2> QED
    BY <1>1, <1>5, <2>1, <1>4
<1>6. CASE a.k = "bool"
  <2>1. N(a) \in {0, 1} /\ N(b) \in {0, 1}
    BY <1>2, <1>6, ValueCells
  <2>2. n = N(a) - N(b)
    BY <1>1, <1>6 DEF CmpOf
  <2>3. n \in Int
    BY <2>1, <2>2
  <2> QED
    BY <1>1, <1>6, <2>2, <2>3, <1>4
<1>7. CASE a.k = "int"
  <2>1. PICK d \in Int : d = N(a) - N(b) /\ Sign(FloatDifference(a, b)) = Sign(d)
    BY <1>2, <1>7, IntsDiffer
  <2>2. PICK h \in Int : h = 2 ^ (CmpWidth - 1)
    <3>1. PICK g \in Nat : g = Half
      BY OperandAssumption
    <3> QED
      BY <3>1, PowersAssumption
  <2>3. d \in (-h)..(h - 1)
    <3>1. Sem!Blurred(x, y) <=> d \notin -(2 ^ (CmpWidth - 1))..(2 ^ (CmpWidth - 1) - 1)
      BY <1>3, <1>7, <2>1, SameWords DEF Sem!Blurred, IsNumber
    <3> QED
      BY <2>2, <3>1
  <2>4. Narrowed(d) = d /\ d \in IntOf
    BY <2>2, <2>3, NarrowedSame
  <2>5. n = d
    BY <1>1, <1>7, <2>1, <2>4, WrappedSame DEF CmpOf
  <2> QED
    BY <1>1, <1>7, <2>1, <2>5, <1>4 DEF IsNumber
<1>8. CASE a.k = "float"
  <2>1. PICK d \in Int : d = FloatDifference(a, b)
    BY <1>2, <1>8, DifferenceIs DEF IsNumber
  <2>2. n = SingleSign(d)
    BY <1>1, <1>8, <2>1 DEF CmpOf
  <2>3. d \notin {-1, 1}
    <3>1. CASE IsNaN(a) \/ IsNaN(b)
      BY <2>1, <3>1 DEF FloatDifference
    <3>2. CASE ~IsNaN(a) /\ ~IsNaN(b)
      <4>1. d = N(a) - N(b)
        BY <1>8, <2>1, <3>2 DEF FloatDifference, AsFloat
      <4>2. Sem!Blurred(x, y) <=> Sem!Abs(d) = 1
        BY <1>3, <1>8, <3>2, <4>1, SameWords DEF Sem!Blurred, IsNumber
      <4> QED
        BY <2>1, <4>2 DEF Sem!Abs
    <3> QED
      BY <3>1, <3>2
  <2>4. n = Sign(d)
    BY <2>1, <2>2, <2>3 DEF SingleSign, Sign
  <2> QED
    BY <1>1, <1>8, <2>1, <2>4, <1>4, SignTwice, SignIs DEF IsNumber
<1>9. CASE a.k = "text"
  <2>1. a.v \in Seq(Bytes) /\ b.v \in Seq(Bytes)
    BY <1>2, <1>9, ValueCells
  <2>2. n = CmpBytes(a.v, b.v)
    BY <1>1, <1>9 DEF CmpOf
  <2>3. n \in Int
    BY <2>1, <2>2, CmpBytesIs, IntsAre
  <2> QED
    BY <1>1, <1>9, <2>2, <2>3, <1>4
<1> QED
  BY <1>5, <1>6, <1>7, <1>8, <1>9

LEMMA CmpOpSem ==
  ASSUME SInv, IInv', CmpOp
  PROVE  SInv' /\ Sem!Next
<1>1. Values(2)
  BY DEF CmpOp, Uses
<1>2. Has(2) /\ Sem!Has(2)
  BY <1>1, Shown
<1>3. PICK a, x : IsOperand(1, a, x)
  BY <1>1, TheOperand
<1>4. PICK b, y : IsOperand(0, b, y)
  BY <1>1, TheOperand
<1>5. IF a.k # b.k \/ a.k \notin {"null", "bool", "int", "float", "text"} THEN Stop("error")
      ELSE \E mode \in Modes : Answer(2, Bool(Holds(mode, CmpOf(a, b))))
  BY <1>3, <1>4 DEF CmpOp, IsOperand, CmpOf
<1>6. SUFFICES \E mode \in Modes : SInv' /\ Sem!Result(2, Sem!Decided(mode, x, y))
  BY <1>2, <1>3, <1>4, BinaryStep DEF IsOperand
<1>7. /\ a.k = "text" => x.k \in {"text", "cut"}
      /\ a.k \in {"func", "partial"} => x.k = "fun"
      /\ Plain(a) => x = a
      /\ Plain(a) \/ a.k \in {"text", "func", "partial"}
  BY <1>3, ValueShown DEF IsOperand
<1>8. /\ b.k = "text" => y.k \in {"text", "cut"}
      /\ b.k \in {"func", "partial"} => y.k = "fun"
      /\ Plain(b) => y = b
      /\ Plain(b) \/ b.k \in {"text", "func", "partial"}
  BY <1>4, ValueShown DEF IsOperand
<1>9. CASE a.k # b.k \/ a.k \notin {"null", "bool", "int", "float", "text"}
  <2>1. Stop("error")
    BY <1>5, <1>9
  <2>2. ~Sem!SameKind(x, y) \/ Sem!Orders(x, y) = {}
    <3>1. CASE Plain(a) \/ Plain(b) \/ a.k = "text" \/ b.k = "text"
      BY <1>7, <1>8, <1>9, <3>1 DEF Sem!SameKind, Sem!IsText, Plain
    <3>2. CASE ~(Plain(a) \/ Plain(b) \/ a.k = "text" \/ b.k = "text")
      <4>1. ~Alike_(a, b)
        BY <3>2 DEF Alike_, Plain, IsNumber
      <4> QED
        BY <1>3, <1>4, <4>1, OrdersShown
    <3> QED
      BY <3>1, <3>2
  <2>3. "Equal" \in Modes /\ Sem!Raise \in Sem!Decided("Equal", x, y)
    BY <2>2 DEF Sem!Decided, Modes
  <2> QED
    BY <1>2, <2>1, <2>3, Raising
<1>10. /\ IsNumber(a) /\ IsNumber(b) => Sem!Orders(x, y) = {Sign(FloatDifference(a, b))}
       /\ a.k = "null" /\ b.k = "null" => Sem!Orders(x, y) = {0}
       /\ a.k = "bool" /\ b.k = "bool" => Sem!Orders(x, y) = {Sign(N(a) - N(b))}
       /\ a.k = "text" /\ b.k = "text" => Sem!Orders(x, y) = {Sign(CmpBytes(a.v, b.v))}
  BY <1>3, <1>4, OrdersShown
<1>11. CASE a.k = b.k /\ a.k \in {"null", "bool", "int", "float", "text"}
  <2>1. PICK mode \in Modes : Answer(2, Bool(Holds(mode, CmpOf(a, b))))
    BY <1>5, <1>11
  <2>2. PICK n : n = CmpOf(a, b)
    OBVIOUS
  <2>3. Sem!SameKind(x, y)
    BY <1>7, <1>8, <1>11 DEF Sem!SameKind, Sem!IsText, Plain
  <2>4. Bool(Holds(mode, n)) \in {Bool(TRUE), Bool(FALSE)}
    BY DEF Bool
  <2>5. Plain(Bool(Holds(mode, n)))
    BY CellFields DEF Plain
  <2>6. Sem!Orders(x, y) # {}
    <3>1. Alike_(a, b)
      BY <1>11 DEF Alike_, IsNumber
    <3>2. \E o : Sem!Orders(x, y) = {o}
      BY <1>11, <1>10 DEF IsNumber
    <3> QED
      BY <3>2
  <2>7. Sem!Decided(mode, x, y) =
          IF Sem!Blurred(x, y) THEN {Bool(TRUE), Bool(FALSE)}
          ELSE {Bool(Holds(mode, o)) : o \in Sem!Orders(x, y)}
    BY <2>3, <2>6, SameWords DEF Sem!Decided
  <2>8. Bool(Holds(mode, n)) \in Sem!Decided(mode, x, y)
    <3>1. CASE Sem!Blurred(x, y)
      BY <2>4, <2>7, <3>1
    <3>2. CASE ~Sem!Blurred(x, y)
      <4>1. n \in Int /\ Sem!Orders(x, y) = {Sign(n)}
        BY <1>3, <1>4, <1>11, <2>2, <3>2, CmpOfIs
      <4>2. Holds(mode, Sign(n)) <=> Holds(mode, n)
        BY <4>1, HoldsSign
      <4>3. Bool(Holds(mode, Sign(n))) = Bool(Holds(mode, n))
        BY <4>2 DEF Bool
      <4>4. Bool(Holds(mode, Sign(n))) \in Sem!Decided(mode, x, y)
        BY <2>7, <3>2, <4>1
      <4> QED
        BY <4>3, <4>4
    <3> QED
      BY <3>1, <3>2
  <2> QED
    BY <1>2, <2>1, <2>2, <2>5, <2>8, AnswerSem
<1> QED
  BY <1>9, <1>11

-----------------------------------------------------------------------------
(* Strings.                                                                *)

LEMMA AllSeen ==
  ASSUME NEW s \in Seq(Bytes \ {0})
  PROVE  s \in Seq(Bytes) /\ SemText(s) = Text(s)
<1>1. PICK n \in Nat : n = Len(s) /\ s \in [1..n -> Bytes \ {0}]
  OBVIOUS
<1>2. s \in [1..n -> Bytes] /\ \A i \in 1..n : s[i] # 0
  BY <1>1
<1>3. s \in Seq(Bytes)
  BY <1>2
<1>4. SeenTo(s, n)
  BY <1>1, <1>2 DEF SeenTo
<1>5. Visible(s) = s
  BY <1>1, <1>3, <1>4, VisibleTo
<1> QED
  BY <1>3, <1>5 DEF SemText, Text

LEMMA BytesShown ==
  ASSUME SInv, NEW i, NEW c, NEW b, IsOperand(i, c, b), c.k \in {"text", "int", "bool"}
  PROVE  BytesOf(c) \in Seq(Bytes) /\ Sem!AsText(b) = SemText(BytesOf(c))
<1>1. Sem!AsText(b) = CASE b.k = "int"  -> Text(Sem!Written(N(b)))
                        [] b.k = "bool" -> Text(Words[b = Bool(TRUE)])
                        [] OTHER        -> b
  BY SameWords DEF Sem!AsText
<1>2. IsValueCell(c)
  BY DEF IsOperand
<1>3. \A k \in {"int", "bool"} : (b.k = k <=> c.k = k) /\ (c.k = k => b = c)
  BY NumbersShown DEF IsNumber
<1>4. CASE c.k = "text"
  <2>1. b = SemText(c.v) /\ c.v \in Seq(Bytes)
    BY <1>4, ValueShown DEF IsOperand
  <2>2. BytesOf(c) = c.v
    BY <1>4 DEF BytesOf
  <2>3. Sem!AsText(b) = b
    BY <1>1, <1>3, <1>4
  <2> QED
    BY <2>1, <2>2, <2>3
<1>5. CASE c.k = "int"
  <2>1. N(c) \in IntOf
    BY <1>2, <1>5, ValueCells
  <2>2. Decimal(N(c)) = Sem!Written(N(c)) /\ Decimal(N(c)) \in Seq(Bytes \ {0})
    BY <2>1, DecimalWritten
  <2>3. BytesOf(c) = Decimal(N(c))
    BY <1>5 DEF BytesOf
  <2>4. Sem!AsText(b) = Text(Decimal(N(c)))
    BY <1>1, <1>3, <1>5, <2>2
  <2> QED
    BY <2>2, <2>3, <2>4, AllSeen
<1>6. CASE c.k = "bool"
  <2>1. PICK t \in BOOLEAN : t = (c = Bool(TRUE))
    OBVIOUS
  <2>2. PICK w \in Seq(Bytes \ {0}) : w = Words[t]
    BY OperandAssumption
  <2>3. BytesOf(c) = w
    BY <1>6, <2>1, <2>2 DEF BytesOf
  <2>4. Sem!AsText(b) = Text(w)
    BY <1>1, <1>3, <1>6, <2>1, <2>2
  <2> QED
    BY <2>2, <2>3, <2>4, AllSeen
<1> QED
  BY <1>4, <1>5, <1>6

LEMMA KindsShown ==
  ASSUME SInv, NEW i, NEW c, NEW b, IsOperand(i, c, b)
  PROVE  /\ Sem!IsText(b) <=> c.k = "text"
         /\ c.k = "text" => b = SemText(c.v) /\ c.v \in Seq(Bytes) /\ Len(c.v) <= MaxText
         /\ \A k \in {"int", "null", "bool"} : (b.k = k <=> c.k = k) /\ (c.k = k => b = c)
         /\ b.k = "fun" <=> c.k \in {"func", "partial"}
<1>1. /\ c.k = "text" => b = SemText(c.v) /\ b.k \in {"text", "cut"} /\ c.v \in Seq(Bytes)
      /\ c.k \in {"func", "partial"} => b.k = "fun"
      /\ Plain(c) => b = c
      /\ Plain(c) \/ c.k \in {"text", "func", "partial"}
  BY ValueShown DEF IsOperand
<1>2. c.k = "text" => Len(c.v) <= MaxText
  BY ValueCells DEF IsOperand
<1> QED
  BY <1>1, <1>2 DEF Plain, Sem!IsText

LEMMA AppendOpSem ==
  ASSUME SInv, IInv', AppendOp
  PROVE  SInv' /\ Sem!Next
<1>1. Values(2)
  BY DEF AppendOp, Uses
<1>2. Has(2) /\ Sem!Has(2)
  BY <1>1, Shown
<1>3. PICK a, x : IsOperand(1, a, x)
  BY <1>1, TheOperand
<1>4. PICK b, y : IsOperand(0, b, y)
  BY <1>1, TheOperand
<1>5. /\ a.k # "float" /\ b.k # "float"
      /\ IF "text" \in {a.k, b.k} /\ {a.k, b.k} \subseteq {"text", "int", "bool"}
         THEN AnswerText(2, BytesOf(a) \o BytesOf(b)) ELSE Stop("error")
  BY <1>3, <1>4 DEF AppendOp, IsOperand
<1>6. SUFFICES SInv' /\ Sem!Result(2, Sem!Appended(x, y))
  BY <1>2, <1>3, <1>4, BinaryStep DEF IsOperand
<1>7. /\ Sem!IsText(x) <=> a.k = "text"
      /\ \A k \in {"int", "null", "bool"} : x.k = k <=> a.k = k
      /\ x.k = "fun" <=> a.k \in {"func", "partial"}
  BY <1>3, KindsShown
<1>8. /\ Sem!IsText(y) <=> b.k = "text"
      /\ \A k \in {"int", "null", "bool"} : y.k = k <=> b.k = k
      /\ y.k = "fun" <=> b.k \in {"func", "partial"}
  BY <1>4, KindsShown
<1>9. PICK l, r : l = Sem!AsText(x) /\ r = Sem!AsText(y)
  OBVIOUS
<1>10. Sem!Appended(x, y) =
         IF ~Sem!IsText(l) \/ ~Sem!IsText(r) \/ ~(Sem!IsText(x) \/ Sem!IsText(y)) THEN {Sem!Raise}
         ELSE Sem!OrStopped(x, IF l.k = "cut" THEN l ELSE Cell(r.k, l.v \o r.v, <<>>))
  BY <1>9, SameWords DEF Sem!Appended
<1>11. CASE "text" \in {a.k, b.k} /\ {a.k, b.k} \subseteq {"text", "int", "bool"}
  <2>1. PICK s, t \in Seq(Bytes) : s = BytesOf(a) /\ t = BytesOf(b) /\ l = SemText(s) /\ r = SemText(t)
    <3>1. a.k \in {"text", "int", "bool"} /\ b.k \in {"text", "int", "bool"}
      BY <1>11
    <3>2. BytesOf(a) \in Seq(Bytes) /\ l = SemText(BytesOf(a))
      BY <1>3, <1>9, <3>1, BytesShown
    <3>3. BytesOf(b) \in Seq(Bytes) /\ r = SemText(BytesOf(b))
      BY <1>4, <1>9, <3>1, BytesShown
    <3> QED
      BY <3>2, <3>3
  <2>2. AnswerText(2, s \o t)
    BY <1>5, <1>11, <2>1
  <2>3. Sem!IsText(l) /\ Sem!IsText(r) /\ l.v = Visible(s) /\ r.v = Visible(t)
    BY <2>1, SemTextIs
  <2>4. Sem!IsText(x) \/ Sem!IsText(y)
    BY <1>7, <1>8, <1>11
  <2>5. SemText(s \o t) = IF l.k = "cut" THEN l ELSE Cell(r.k, l.v \o r.v, <<>>)
    BY <2>1, <2>3, SemTextJoined
  <2>6. Sem!Appended(x, y) = Sem!OrStopped(x, SemText(s \o t))
    BY <1>10, <2>3, <2>4, <2>5
  <2>7. x = OperandOf(Funs, Operand(2 - 1))
    BY <1>3 DEF IsOperand
  <2> QED
    BY <1>2, <2>2, <2>6, <2>7, AnswerTextSem
<1>12. CASE ~("text" \in {a.k, b.k} /\ {a.k, b.k} \subseteq {"text", "int", "bool"})
  <2>1. Stop("error")
    BY <1>5, <1>12
  <2>2. /\ a.k \in {"int", "float", "bool", "null", "text", "func", "partial"}
        /\ b.k \in {"int", "float", "bool", "null", "text", "func", "partial"}
    BY <1>3, <1>4, ValueCells DEF IsOperand
  <2>3. ~Sem!IsText(l) \/ ~Sem!IsText(r) \/ ~(Sem!IsText(x) \/ Sem!IsText(y))
    <3>1. CASE "text" \notin {a.k, b.k}
      BY <1>7, <1>8, <3>1
    <3>2. CASE a.k \in {"null", "func", "partial"}
      <4>1. l = x /\ ~Sem!IsText(x)
        BY <1>7, <1>9, <3>2 DEF Sem!AsText
      <4> QED
        BY <4>1
    <3>3. CASE b.k \in {"null", "func", "partial"}
      <4>1. r = y /\ ~Sem!IsText(y)
        BY <1>8, <1>9, <3>3 DEF Sem!AsText
      <4> QED
        BY <4>1
    <3> QED
      BY <1>5, <1>12, <2>2, <3>1, <3>2, <3>3
  <2>4. Sem!Raise \in Sem!Appended(x, y)
    BY <1>10, <2>3
  <2> QED
    BY <1>2, <2>1, <2>4, Raising
<1> QED
  BY <1>11, <1>12

LEMMA GetSem ==
  ASSUME SInv, IInv', Get
  PROVE  SInv' /\ Sem!Next
<1>1. Values(2)
  BY DEF Get, Uses
<1>2. Has(2) /\ Sem!Has(2)
  BY <1>1, Shown
<1>3. PICK a, x : IsOperand(1, a, x)
  BY <1>1, TheOperand
<1>4. PICK b, y : IsOperand(0, b, y)
  BY <1>1, TheOperand
<1>5. PICK index : index = (IF N(b) < 0 THEN Utf8Len(a.v) + N(b) ELSE N(b)) % IndexMod
  OBVIOUS
<1>6. IF a.k # "text" \/ b.k # "int" THEN Stop("error")
      ELSE IF Glyph(a.v, index) = NoGlyph THEN Stop("error")
      ELSE AnswerText(2, Glyph(a.v, index))
  BY <1>3, <1>4, <1>5 DEF Get, IsOperand
<1>7. SUFFICES SInv' /\ Sem!Result(2, Sem!Got(x, y))
  BY <1>2, <1>3, <1>4, BinaryStep DEF IsOperand
<1>8. (Sem!IsText(x) <=> a.k = "text") /\ (a.k = "text" => x = SemText(a.v) /\ a.v \in Seq(Bytes) /\ Len(a.v) <= MaxText)
  BY <1>3, KindsShown
<1>9. (y.k = "int" <=> b.k = "int") /\ (b.k = "int" => y = b)
  BY <1>4, KindsShown
<1>10. CASE a.k # "text" \/ b.k # "int"
  <2>1. Stop("error")
    BY <1>6, <1>10
  <2>2. Sem!Raise \in Sem!Got(x, y)
    BY <1>8, <1>9, <1>10 DEF Sem!Got
  <2> QED
    BY <1>2, <2>1, <2>2, Raising
<1>11. CASE a.k = "text" /\ b.k = "int"
  <2>1. PICK i \in Int : i = N(b)
    BY <1>4, <1>11, Numbers DEF IsOperand
  <2>2. Sem!Got(x, y) = Sem!Glyphs(SemText(a.v), i)
    BY <1>8, <1>9, <1>11, <2>1, SameWords DEF Sem!Got
  <2>3. index = (IF i < 0 THEN Utf8Len(a.v) + i ELSE i) % IndexMod
    BY <1>5, <2>1
  <2>4. /\ Glyph(a.v, index) = NoGlyph => Sem!Raise \in Sem!Glyphs(SemText(a.v), i)
        /\ Glyph(a.v, index) # NoGlyph =>
              Sem!OrStopped(SemText(a.v), SemText(Glyph(a.v, index))) \subseteq Sem!Glyphs(SemText(a.v), i)
    BY <1>8, <1>11, <2>3, GetText
  <2>5. CASE Glyph(a.v, index) = NoGlyph
    <3>1. Stop("error")
      BY <1>6, <1>11, <2>5
    <3>2. Sem!Raise \in Sem!Got(x, y)
      BY <2>2, <2>4, <2>5
    <3> QED
      BY <1>2, <3>1, <3>2, Raising
  <2>6. CASE Glyph(a.v, index) # NoGlyph
    <3>1. AnswerText(2, Glyph(a.v, index))
      BY <1>6, <1>11, <2>6
    <3>2. OperandOf(Funs, Operand(2 - 1)) = SemText(a.v)
      BY <1>3, <1>8, <1>11 DEF IsOperand
    <3>3. Sem!OrStopped(OperandOf(Funs, Operand(2 - 1)), SemText(Glyph(a.v, index))) \subseteq Sem!Got(x, y)
      BY <2>2, <2>4, <2>6, <3>2
    <3> QED
      BY <1>2, <3>1, <3>3, AnswerTextSem
  <2> QED
    BY <2>5, <2>6
<1> QED
  BY <1>10, <1>11

LEMMA SliceSem ==
  ASSUME SInv, IInv', Slice
  PROVE  SInv' /\ Sem!Next
<1>1. Values(3)
  BY DEF Slice, Uses
<1>2. Has(3) /\ Sem!Has(3)
  BY <1>1, Shown
<1>3. PICK a, x : IsOperand(2, a, x)
  BY <1>1, TheOperand
<1>4. PICK b, y : IsOperand(1, b, y)
  BY <1>1, TheOperand
<1>5. PICK c, z : IsOperand(0, c, z)
  BY <1>1, TheOperand
<1>6. IF a.k = "text" /\ {b.k, c.k} \subseteq {"int", "null"}
      THEN AnswerText(3, SliceBytes(a.v, b, c)) ELSE Stop("error")
  BY <1>3, <1>4, <1>5 DEF Slice, IsOperand
<1>7. SUFFICES SInv' /\ Sem!Result(3, Sem!Sliced(x, y, z))
  BY <1>2, <1>3, <1>4, <1>5 DEF IsOperand, Sem!Next, Sem!Slice
<1>8. (Sem!IsText(x) <=> a.k = "text") /\ (a.k = "text" => x = SemText(a.v) /\ a.v \in Seq(Bytes) /\ Len(a.v) <= MaxText)
  BY <1>3, KindsShown
<1>9. \A k \in {"int", "null"} : (y.k = k <=> b.k = k) /\ (b.k = k => y = b)
  BY <1>4, KindsShown
<1>10. \A k \in {"int", "null"} : (z.k = k <=> c.k = k) /\ (c.k = k => z = c)
  BY <1>5, KindsShown
<1>11. CASE a.k = "text" /\ {b.k, c.k} \subseteq {"int", "null"}
  <2>1. AnswerText(3, SliceBytes(a.v, b, c)) /\ y = b /\ z = c
    BY <1>6, <1>9, <1>10, <1>11
  <2>2. IsIndex(b) /\ IsIndex(c)
    BY <1>4, <1>5, <1>11, Numbers DEF IsOperand, IsIndex
  <2>3. SemText(SliceBytes(a.v, b, c)) = Text(Sem!SliceOf(Visible(a.v), b, c))
    BY <1>8, <1>11, <2>2, SliceText
  <2>4. x.v = Visible(a.v) /\ x = SemText(a.v)
    BY <1>8, <1>11, SemTextIs
  <2>5. {y.k, z.k} \subseteq {"int", "null"}
    BY <1>11, <2>1
  <2>6. Sem!Sliced(x, y, z) = Sem!OrStopped(x, SemText(SliceBytes(a.v, b, c)))
    BY <1>8, <1>11, <2>1, <2>3, <2>4, <2>5, SameWords DEF Sem!Sliced
  <2>7. x = OperandOf(Funs, Operand(3 - 1))
    BY <1>3 DEF IsOperand
  <2> QED
    BY <1>2, <2>1, <2>6, <2>7, AnswerTextSem
<1>12. CASE ~(a.k = "text" /\ {b.k, c.k} \subseteq {"int", "null"})
  <2>1. Stop("error")
    BY <1>6, <1>12
  <2>2. ~(Sem!IsText(x) /\ {y.k, z.k} \subseteq {"int", "null"})
    BY <1>8, <1>9, <1>10, <1>12
  <2>3. Sem!Raise \in Sem!Sliced(x, y, z)
    BY <2>2 DEF Sem!Sliced
  <2> QED
    BY <1>2, <2>1, <2>3, Raising
<1> QED
  BY <1>11, <1>12

-----------------------------------------------------------------------------
(* Arrays, and looking for values in them.                                 *)

LEMMA FunsSame == partials' = partials => Funs' = Funs
BY DEF Funs

LEMMA ShownAsCell == \A T, c : IsValueCell(c) => OperandOf(T, c) = Of(T, c)
<1> SUFFICES ASSUME NEW T, NEW c, IsValueCell(c) PROVE OperandOf(T, c) = Of(T, c)
  OBVIOUS
<1>1. c.k # "arr"
  BY ValueCells
<1> QED
  BY <1>1 DEF OperandOf

LEMMA CreateArraySem ==
  ASSUME SInv, IInv', CreateArray
  PROVE  SInv' /\ Sem!Next
<1>1. PICK n \in 1..MaxArray : /\ Uses("In", n)
                               /\ Do(Append(Below(n), Arr(Top(n))), pool, partials, <<>>)
  BY DEF CreateArray
<1>2. n \in Nat \ {0} /\ Values(n) /\ Has(n)
  BY <1>1 DEF Uses, Values
<1>3. Becomes(n, Arr(Top(n))) /\ partials' = partials
  BY <1>1, DoBecomes
<1>4. PICK t : t = Top(n)
  OBVIOUS
<1>5. IsList(t) /\ Len(t) = n /\ \A i \in 1..n : IsValueCell(t[i])
  <2>1. Cells(Top(n)) /\ Len(Top(n)) = n /\ \A i \in 1..n : Top(n)[i] = Operand(n - i)
    BY <1>2, HasParts, StackParts DEF SInv
  <2>2. \A i \in 0..(n - 1) : IsValueCell(Operand(i))
    BY <1>2, OperandValues DEF SInv
  <2>3. ASSUME NEW i \in 1..n PROVE IsValueCell(Top(n)[i])
    <3>1. n - i \in 0..(n - 1)
      BY <1>2
    <3> QED
      BY <2>1, <2>2, <3>1
  <2> QED
    BY <1>4, <2>1, <2>3 DEF Cells
<1>6. DOMAIN t = 1..n
  BY <1>5, ListFinite
<1>7. PICK u : u = Sem!Top(n)
  OBVIOUS
<1>8. Sem!Has(n) /\ IsList(u) /\ Len(u) = n /\ \A i \in 1..n : u[i] = OperandOf(Funs, t[i])
  BY <1>2, <1>4, <1>7, SemOperands DEF SInv
<1>9. PICK w : w = [i \in 1..n |-> Of(Funs, t[i])]
  OBVIOUS
<1>10. w = [i \in 1..n |-> w[i]]
  BY <1>9
<1>11. IsList(w) /\ Len(w) = n
  BY <1>2, <1>10, ListOf
<1>12. \A i \in 1..n : u[i] = w[i]
  BY <1>5, <1>8, <1>9, ShownAsCell
<1>13. u = w
  BY <1>2, <1>8, <1>11, <1>12, ListsEqual
<1>14. Funs' = Funs
  BY <1>3, FunsSame
<1>15. OperandOf(Funs', Arr(t)) = Arr(u)
  <2>1. Arr(t).k = "arr" /\ Arr(t).e = t
    BY CellFields
  <2> QED
    BY <1>6, <1>9, <1>13, <1>14, <2>1 DEF OperandOf
<1>16. SInv' /\ Sem!Result(n, {Arr(u)})
  <2>1. Changes({})
    BY <1>3, SameChanges
  <2>2. OperandOf(Funs', Arr(Top(n))) \in {Arr(u)}
    BY <1>4, <1>15
  <2> QED
    BY <1>2, <1>3, <2>1, <2>2, Outcome
<1>17. Sem!CreateArray
  <2>1. PICK size \in Nat : size = Len(stack) /\ n <= size
    BY <1>2, HasParts DEF SInv
  <2>2. DOMAIN SemStack = 1..size
    BY <2>1 DEF SemStack
  <2>3. n \in DOMAIN SemStack
    BY <1>2, <2>1, <2>2
  <2> QED
    BY <1>7, <1>8, <1>16, <2>3, SameWords DEF Sem!CreateArray, SemStack
<1> QED
  BY <1>16, <1>17 DEF Sem!Next

(* A partial application holds something.                                  *)
LEMMA HoldsSome ==
  ASSUME SInv, NEW p \in Live
  PROVE  Over(Funs, partials[p]).e # <<>>
<1>1. PICK x : x = partials[p] /\ Alive(x) /\ x.nargs < Len(x.slots)
  BY LiveAlive DEF SInv, AllHold, AllAlive
<1>2. PICK a, k \in Nat : HeldOf(x, a, k, HeldIn(x))
  BY <1>1, HeldIs
<1>3. x.nargs \in 0..a /\ Len(x.slots) = a + k
  BY <1>1, <1>2 DEF Alive, SlotsOK, HeldOf
<1>4. DOMAIN HeldIn(x) = 1..(k + (a - x.nargs))
  BY <1>2 DEF HeldOf
<1>5. 1 \in DOMAIN HeldIn(x)
  BY <1>1, <1>3, <1>4
<1>6. DOMAIN (Over(Funs, x).e) = DOMAIN HeldIn(x)
  BY DEF Over, FunOver, Cell
<1> QED
  BY <1>1, <1>5, <1>6, EmptyList

(* Cells that stand for the same value, of a kind in finds for certain.    *)
LEMMA SurelySame ==
  ASSUME SInv, NEW c, IsValueCell(c), Known(c), NEW d, IsValueCell(d), Known(d),
         NEW b, b = OperandOf(Funs, c), b = OperandOf(Funs, d),
         b.k \in {"int", "text"} \/ (b.k = "fun" /\ b.e = <<>>)
  PROVE  c = d
<1>1. /\ Plain(c) => b = c
      /\ c.k = "text" => b = SemText(c.v) /\ b.k \in {"text", "cut"} /\ c.v \in Seq(Bytes)
      /\ c.k = "func" => b = Sem!Fun(N(c), <<>>)
      /\ c.k = "partial" => N(c) \in Live /\ b = Over(Funs, partials[N(c)])
      /\ c.k \in {"func", "partial"} => b.k = "fun"
      /\ Plain(c) \/ c.k \in {"text", "func", "partial"}
  BY ValueShown
<1>2. /\ Plain(d) => b = d
      /\ d.k = "text" => b = SemText(d.v) /\ b.k \in {"text", "cut"} /\ d.v \in Seq(Bytes)
      /\ d.k = "func" => b = Sem!Fun(N(d), <<>>)
      /\ d.k = "partial" => N(d) \in Live /\ b = Over(Funs, partials[N(d)])
      /\ d.k \in {"func", "partial"} => b.k = "fun"
      /\ Plain(d) \/ d.k \in {"text", "func", "partial"}
  BY ValueShown
<1>3. CASE b.k = "int"
  BY <1>1, <1>2, <1>3 DEF Plain
<1>4. CASE b.k = "text"
  <2>1. c.k = "text" /\ d.k = "text"
    BY <1>1, <1>2, <1>4 DEF Plain
  <2>2. Visible(c.v) = c.v /\ Visible(d.v) = d.v /\ b.v = Visible(c.v) /\ b.v = Visible(d.v)
    BY <1>1, <1>2, <1>4, <2>1, SemTextIs
  <2>3. c = Text(c.v) /\ d = Text(d.v)
    BY <2>1, ValueCells
  <2> QED
    BY <2>2, <2>3
<1>5. CASE b.k = "fun" /\ b.e = <<>>
  <2>1. c.k = "func" /\ d.k = "func"
    BY <1>1, <1>2, <1>5, HoldsSome DEF Plain
  <2>2. N(c) = N(d)
    BY <1>1, <1>2, <2>1 DEF Sem!Fun, Sem!Cell
  <2>3. c = Func(N(c)) /\ d = Func(N(d))
    BY <2>1 DEF IsValueCell
  <2> QED
    BY <2>2, <2>3
<1> QED
  BY <1>3, <1>4, <1>5

LEMMA InSem ==
  ASSUME SInv, IInv', In
  PROVE  SInv' /\ Sem!Next
<1>1. Has(2) /\ IsValue(Operand(1)) /\ Operand(0).k = "arr"
  BY DEF In
<1>2. PICK size \in Nat : size = Len(stack) /\ 2 <= size
  BY <1>1, HasParts DEF SInv
<1>3. PICK a, r : a = Operand(1) /\ r = Operand(0)
  OBVIOUS
<1>4. WellMade(a) /\ WellMade(r) /\ size \in DOMAIN stack /\ size - 1 \in DOMAIN stack
  <2>1. \A i \in 0..(2 - 1) : WellMade(Operand(i)) /\ size - i \in DOMAIN stack
    BY <1>2, StackParts DEF SInv
  <2>2. 0 \in 0..(2 - 1) /\ 1 \in 0..(2 - 1) /\ size - 0 = size
    OBVIOUS
  <2> QED
    BY <1>3, <2>1, <2>2
<1>5. a = stack[size - 1] /\ r = stack[size]
  BY <1>2, <1>3 DEF Operand
<1>6. KnowsCells
  BY KnownNow DEF SInv
<1>7. IsValueCell(a) /\ Known(a)
  <2>1. a.k # "arr"
    BY <1>1, <1>3 DEF IsValue
  <2>2. a = Arr(a.e) => a.k = "arr"
    BY CellFields
  <2> QED
    BY <1>4, <1>5, <1>6, <2>1, <2>2 DEF WellMade, KnowsCells
<1>8. \A j \in DOMAIN r.e : IsValueCell(r.e[j]) /\ Known(r.e[j])
  <2>1. ~IsValueCell(r)
    BY <1>1, <1>3, ValueCells
  <2> QED
    BY <1>4, <1>5, <1>6, <2>1 DEF WellMade, ValueList, KnowsCells
<1>9. PICK equal : equal = {i \in DOMAIN r.e : r.e[i] = a}
  OBVIOUS
<1>10. PICK found \in BOOLEAN :
         (equal = {} => ~found) /\ (equal # {} /\ ~Uncertain(a) => found) /\ Answer(2, Bool(found))
  BY <1>3, <1>9 DEF In
<1>11. PICK x, y : x = OperandOf(Funs, a) /\ y = OperandOf(Funs, r)
  OBVIOUS
<1>12. Sem!Has(2) /\ Sem!Operand(1) = x /\ Sem!Operand(0) = y
  BY <1>1, <1>3, <1>11, SemOperands DEF SInv
<1>13. y.k = "arr" /\ y.e = [j \in DOMAIN r.e |-> Of(Funs, r.e[j])]
  BY <1>1, <1>3, <1>11, CellFields DEF OperandOf
<1>14. \A j \in DOMAIN r.e : y.e[j] = OperandOf(Funs, r.e[j])
  BY <1>8, <1>13, ShownAsCell
<1>15. DOMAIN y.e = DOMAIN r.e
  BY <1>13
<1>16. IF found THEN \E j \in DOMAIN y.e : Sem!MayEqual(x, y.e[j])
                ELSE \A j \in DOMAIN y.e : ~Sem!SurelyEqual(x, y.e[j])
  <2>1. CASE found
    <3>1. PICK j \in DOMAIN r.e : r.e[j] = a
      BY <1>9, <1>10, <2>1
    <3>2. y.e[j] = x
      BY <1>11, <1>14, <3>1
    <3> QED
      BY <1>15, <2>1, <3>2 DEF Sem!MayEqual
  <2>2. CASE ~found
    <3>1. SUFFICES ASSUME NEW j \in DOMAIN y.e, Sem!SurelyEqual(x, y.e[j]) PROVE FALSE
      BY <2>2
    <3>2. x = y.e[j] /\ (x.k \in {"int", "text"} \/ (x.k = "fun" /\ x.e = <<>>))
      BY <3>1 DEF Sem!SurelyEqual
    <3>3. PICK d : d = r.e[j] /\ IsValueCell(d) /\ Known(d) /\ x = OperandOf(Funs, d)
      BY <1>8, <1>14, <1>15, <3>2
    <3>4. a = d
      BY <1>7, <1>11, <3>2, <3>3, SurelySame
    <3>5. equal # {}
      BY <1>9, <1>15, <3>3, <3>4
    <3>6. Uncertain(a)
      BY <1>10, <2>2, <3>5
    <3>7. x = a
      BY <1>11, <3>6, PlainSame DEF Uncertain, Plain
    <3> QED
      BY <3>2, <3>6, <3>7 DEF Uncertain
  <2> QED
    BY <2>1, <2>2
<1>17. Bool(found) \in Sem!Found(x, y.e)
  BY <1>16, SameWords DEF Sem!Found
<1>18. Plain(Bool(found))
  BY CellFields DEF Plain
<1>19. SInv' /\ Sem!Result(2, Sem!Found(x, y.e))
  BY <1>1, <1>10, <1>17, <1>18, AnswerSem
<1> QED
  BY <1>12, <1>13, <1>19, BinaryStep

-----------------------------------------------------------------------------
(* Partial applications that are made.                                     *)

(* Only counts change from ps to qs.                                       *)
CountsOnly(ps, qs) ==
  \A p \in PartialIds : IF ps[p] = Dead THEN qs[p] = Dead ELSE qs[p] # Dead /\ Same(ps[p], qs[p])

LEMMA CountsNone == \A ps : CountsOnly(ps, ps)
BY DEF CountsOnly, Same

LEMMA CopyingCounts ==
  ASSUME PoolOK(pool), NEW ps, PartialsOK(ps), NEW cells, MayCopy(cells, ps)
  PROVE  CountsOnly(ps, PartialsCopying(ps, cells))
<1>1. PICK qs : qs = PartialsCopying(ps, cells)
  OBVIOUS
<1>2. /\ PartialsOK(qs)
      /\ \A c : Shared(c) => Rc(c, PoolCopying(cells), qs) = Rc(c, pool, ps) + References(c, cells)
  BY <1>1, Copying
<1>3. ASSUME NEW p \in PartialIds
      PROVE  IF ps[p] = Dead THEN qs[p] = Dead ELSE qs[p] # Dead /\ Same(ps[p], qs[p])
  <2>1. PartialOK(ps[p]) /\ PartialOK(qs[p])
    BY <1>2 DEF PartialsOK
  <2>2. PICK n, m : n = ps[p].rc /\ m = qs[p].rc
    OBVIOUS
  <2>3. n \in Nat /\ m \in Nat /\ (n = 0 <=> ps[p] = Dead) /\ (m = 0 <=> qs[p] = Dead)
    BY <2>1, <2>2, PartialSlots
  <2>4. Shared(Partial(p)) /\ Partial(p).k = "partial" /\ N(Partial(p)) = p
    BY CellFields DEF Shared
  <2>5. PICK r : r = References(Partial(p), cells)
    OBVIOUS
  <2>6. r \in Nat
    BY <2>5, CellLists, ListCounted DEF MayCopy
  <2>7. m = n + r
    <3>1. Rc(Partial(p), PoolCopying(cells), qs) = m /\ Rc(Partial(p), pool, ps) = n
      BY <2>2, <2>4 DEF Rc
    <3> QED
      BY <1>2, <2>4, <2>5, <3>1
  <2>8. CASE ps[p] = Dead
    <3>1. \A i \in DOMAIN cells : cells[i] # Partial(p)
      BY <2>4, <2>8 DEF MayCopy
    <3>2. r = 0
      BY <2>4, <2>5, <3>1, NotReferred DEF MayCopy
    <3> QED
      BY <2>3, <2>7, <2>8, <3>2
  <2>9. CASE ps[p] # Dead
    <3>1. m # 0
      BY <2>3, <2>6, <2>7, <2>9
    <3>2. ps[p] = [rc |-> n, f |-> ps[p].f, nargs |-> ps[p].nargs, slots |-> ps[p].slots]
      BY <2>1, <2>2, <2>9 DEF PartialOK
    <3>3. qs[p] = [ps[p] EXCEPT !.rc = @ + r]
      BY <1>1, <2>5 DEF PartialsCopying
    <3>4. Same(ps[p], qs[p])
      BY <3>2, <3>3 DEF Same
    <3> QED
      BY <2>3, <2>9, <3>1, <3>4
  <2> QED
    BY <2>8, <2>9
<1> QED
  BY <1>1, <1>3 DEF CountsOnly

LEMMA CountsChanges == CountsOnly(partials, partials') => Changes({})
BY DEF CountsOnly, Changes

(* new is made at p, and its slots are filled by then.                     *)
LEMMA MadeChanges ==
  ASSUME IInv, NEW p \in PartialIds, partials[p] = Dead,
         NEW new, new.rc = 1, new.nargs < Len(new.slots),
         \A j \in DOMAIN new.slots : new.slots[j] # Partial(p),
         NEW ps, Made(p, new, ps), CountsOnly(ps, partials')
  PROVE  /\ Changes({p})
         /\ partials'[p] # Dead /\ Same(new, partials'[p])
<1>1. DOMAIN partials = PartialIds /\ Dead.rc = 0
  BY DEF IInv, PartialsOK, Dead
<1>2. ps[p] = new /\ new # Dead /\ \A q \in PartialIds \ {p} : ps[q] = partials[q]
  BY <1>1 DEF Made
<1>3. partials'[p] # Dead /\ Same(new, partials'[p])
  BY <1>2 DEF CountsOnly
<1>4. \A q \in PartialIds \ {p} : partials'[q] = Dead \/ (partials[q] # Dead /\ Same(partials[q], partials'[q]))
  BY <1>2 DEF CountsOnly
<1>5. ~Holds_(partials', p, p)
  BY <1>3 DEF Holds_, Same
<1>6. partials'[p].nargs < Len(partials'[p].slots)
  BY <1>3 DEF Same
<1> QED
  BY <1>3, <1>4, <1>5, <1>6 DEF Changes

(* A function f that holds the cells h.                                    *)
FunOf(f, h) == Cell("fun", <<f>>, [i \in DOMAIN h |-> Of(Funs, h[i])])

LEMMA PartialShown == \A x : Over(Funs, x) = FunOf(x.f, HeldIn(x))
<1> SUFFICES ASSUME NEW x PROVE Over(Funs, x) = FunOf(x.f, HeldIn(x))
  OBVIOUS
<1>1. 1 \in Nat \ {0}
  OBVIOUS
<1>2. \A c : InnerIn(1, Funs, c) = Of(Funs, c)
  BY <1>1, Deeper
<1>3. [i \in DOMAIN HeldIn(x) |-> InnerIn(1, Funs, HeldIn(x)[i])] = [i \in DOMAIN HeldIn(x) |-> Of(Funs, HeldIn(x)[i])]
  BY <1>2
<1> QED
  BY <1>3 DEF Over, FunOver, FunOf

LEMMA NewShown ==
  ASSUME SInv, SInv', NEW New, Changes(New), NEW p \in PartialIds, partials'[p] # Dead,
         NEW x, x = partials'[p], NEW h, h = HeldIn(x), \A i \in DOMAIN h : Known(h[i])
  PROVE  OperandOf(Funs', Partial(p)) = FunOf(x.f, h)
<1>1. p \in Live'
  BY DEF Live
<1>2. Funs'[p] = Over(Funs', x)
  BY <1>1, UnfoldedNext DEF Unfolded
<1>3. Alive(x)
  BY <1>1, LiveAliveNext DEF SInv, AllAlive
<1>4. PICK a, k \in Nat : HeldOf(x, a, k, h)
  BY <1>3, HeldIs
<1>5. ASSUME NEW i \in DOMAIN h PROVE Of(Funs', h[i]) = Of(Funs, h[i])
  <2>1. PICK c : c = h[i]
    OBVIOUS
  <2>2. PICK j \in DOMAIN x.slots : c = x.slots[j]
    BY <1>4, <2>1 DEF HeldOf
  <2>3. KnowsCells'
    BY KnownNext DEF SInv
  <2>4. Known(c)'
    BY <2>2, <2>3 DEF KnowsCells, Known
  <2> QED
    BY <2>1, <2>4, CellKept
<1>6. 1 \in Nat \ {0}
  OBVIOUS
<1>7. \A c : InnerIn(1, Funs', c) = Of(Funs', c)
  <2>1. PICK T : T = Funs'
    OBVIOUS
  <2>2. \A c : InnerIn(1, T, c) = Of(T, c)
    BY <1>6, Deeper
  <2> QED
    BY <2>1, <2>2
<1>8. [i \in DOMAIN h |-> InnerIn(1, Funs', h[i])] = [i \in DOMAIN h |-> Of(Funs, h[i])]
  BY <1>5, <1>7
<1>9. Over(Funs', x) = FunOf(x.f, h)
  BY <1>8 DEF Over, FunOver, FunOf
<1>10. OperandOf(Funs', Partial(p)) = Funs'[p]
  BY CellFields DEF OperandOf, Of, InnerIn
<1> QED
  BY <1>2, <1>9, <1>10

-----------------------------------------------------------------------------
(* Calls.                                                                  *)

Returned_(f, frame) == IF Functions[f].returns = 0 THEN Null ELSE frame[Functions[f].returns]

(* A frame has the arguments and then the captures, e the captures first.  *)
Frame(f, frame, e) ==
  LET a == Functions[f].arguments
      k == Functions[f].captures
  IN  /\ IsList(frame) /\ Len(frame) = a + k
      /\ \A i \in 1..k : e[i] = Of(Funs, frame[a + i])
      /\ \A i \in 1..a : e[k + i] = Of(Funs, frame[i])

LEMMA FrameReturns ==
  ASSUME NEW f \in DOMAIN Functions, NEW frame, NEW e, Frame(f, frame, e)
  PROVE  /\ Sem!Returned(f, e) = Of(Funs, Returned_(f, frame))
         /\ Returned_(f, frame) = Null \/ \E i \in DOMAIN frame : Returned_(f, frame) = frame[i]
<1>1. PICK a, k \in Nat : a = Functions[f].arguments /\ k = Functions[f].captures
  BY FunctionShape
<1>2. PICK i \in 0..(a + k) : i = Functions[f].returns
  BY <1>1, FunctionShape
<1>3. Sem!Returned(f, e) = IF i = 0 THEN Null ELSE IF i > a THEN e[i - a] ELSE e[k + i]
  BY <1>1, <1>2, SameWords DEF Sem!Returned
<1>4. Returned_(f, frame) = IF i = 0 THEN Null ELSE frame[i]
  BY <1>2 DEF Returned_
<1>5. Of(Funs, Null) = Null
  BY CellFields DEF Of, InnerIn
<1>6. DOMAIN frame = 1..(a + k)
  BY <1>1, ListFinite DEF Frame
<1>7. ASSUME i > a PROVE e[i - a] = Of(Funs, frame[i])
  <2>1. i - a \in 1..k /\ a + (i - a) = i
    BY <1>2, <1>7
  <2> QED
    BY <1>1, <2>1 DEF Frame
<1>8. ASSUME i # 0, ~(i > a) PROVE e[k + i] = Of(Funs, frame[i])
  <2>1. i \in 1..a
    BY <1>2, <1>8
  <2> QED
    BY <1>1, <2>1 DEF Frame
<1> QED
  BY <1>2, <1>3, <1>4, <1>5, <1>6, <1>7, <1>8

LEMMA CopiesMade ==
  ASSUME NEW copied, NEW ps, MayCopy(copied, ps), NEW r, MayCopy(<<r>>, ps)
  PROVE  MayCopy(Append(copied, r), ps)
<1>1. PICK cells : cells = Append(copied, r)
  OBVIOUS
<1>2. PICK m \in Nat : m = Len(copied) /\ DOMAIN copied = 1..m
  BY ListFinite DEF MayCopy, Flat
<1>3. /\ IsList(cells) /\ Len(cells) = m + 1
      /\ \A i \in 1..m : cells[i] = copied[i]
      /\ cells[m + 1] = r
  BY <1>1, <1>2, ListAppend DEF MayCopy, Flat
<1>4. DOMAIN cells = 1..(m + 1) /\ \A i \in 1..(m + 1) : i \in 1..m \/ i = m + 1
  BY <1>3, ListFinite
<1>5. 1 \in DOMAIN <<r>> /\ <<r>>[1] = r
  BY OneElement
<1>6. /\ r = None \/ IsValueCell(r)
      /\ r.k = "text" => r.v \in DOMAIN pool
      /\ r.k = "partial" => ps[N(r)] # Dead
  BY <1>5 DEF MayCopy, Flat
<1> QED
  BY <1>1, <1>2, <1>3, <1>4, <1>6 DEF MayCopy, Flat

LEMMA ReturnsCounts ==
  ASSUME IInv, NEW n, NEW f \in DOMAIN Functions, NEW frame, NEW e, Frame(f, frame, e),
         NEW ps, PartialsOK(ps), MayCopy(frame, ps), NEW copied, MayCopy(copied, ps),
         NEW d, Returns(n, f, frame, ps, copied, d)
  PROVE  Becomes(n, Returned_(f, frame)) /\ CountsOnly(ps, partials')
<1>1. PICK r : r = Returned_(f, frame)
  OBVIOUS
<1>2. Do(Append(Below(n), r), PoolCopying(Append(copied, r)), PartialsCopying(ps, Append(copied, r)), d)
  BY <1>1 DEF Returns, Returned_
<1>3. MayCopy(<<r>>, ps)
  <2>1. r = Null \/ \E i \in DOMAIN frame : r = frame[i]
    BY <1>1, FrameReturns
  <2>2. /\ r = None \/ IsValueCell(r)
        /\ r.k = "text" => r.v \in DOMAIN pool
        /\ r.k = "partial" => ps[N(r)] # Dead
    BY <2>1, ValuesMade, CellFields DEF MayCopy, Flat
  <2> QED
    BY <2>2, OneElement DEF MayCopy, Flat
<1>4. MayCopy(Append(copied, r), ps)
  BY <1>3, CopiesMade
<1>5. CountsOnly(ps, PartialsCopying(ps, Append(copied, r)))
  BY <1>4, CopyingCounts DEF IInv
<1>6. Becomes(n, r) /\ partials' = PartialsCopying(ps, Append(copied, r))
  BY <1>2, DoBecomes
<1> QED
  BY <1>1, <1>5, <1>6

(* What is returned was there before.                                      *)
LEMMA ReturnsSem ==
  ASSUME SInv, IInv', NEW New, Changes(New), NEW n \in Nat, Has(n),
         NEW f \in DOMAIN Functions, NEW frame, NEW e, Frame(f, frame, e),
         \A i \in DOMAIN frame : IsValueCell(frame[i]) /\ Known(frame[i]),
         Becomes(n, Returned_(f, frame))
  PROVE  SInv' /\ \A outcomes : Sem!Returned(f, e) \in outcomes => Sem!Result(n, outcomes)
<1>1. PICK r : r = Returned_(f, frame)
  OBVIOUS
<1>2. /\ Sem!Returned(f, e) = Of(Funs, r)
      /\ r = Null \/ \E i \in DOMAIN frame : r = frame[i]
  BY <1>1, FrameReturns
<1>3. IsValueCell(r) /\ Known(r)
  BY <1>2, ValuesMade, CellFields DEF Known
<1>4. SInv'
  BY ChangesKeep
<1>5. Known(r)'
  <2>1. IsList(Below(n))
    BY HasParts, StackParts DEF SInv, Cells
  <2>2. IsList(stack') /\ Len(stack') = Len(Below(n)) + 1 /\ stack'[Len(Below(n)) + 1] = r
    BY <1>1, <2>1, ListAppend DEF Becomes
  <2>3. Len(Below(n)) \in Nat /\ DOMAIN stack' = 1..Len(stack')
    BY <2>1, <2>2, ListFinite
  <2>4. Len(Below(n)) + 1 \in DOMAIN stack'
    BY <2>2, <2>3
  <2>5. KnowsCells'
    BY <1>4, KnownNext DEF SInv
  <2> QED
    BY <2>2, <2>4, <2>5 DEF KnowsCells, Known
<1>6. OperandOf(Funs', r) = Of(Funs, r)
  <2>1. Of(Funs', r) = Of(Funs, r)
    BY <1>3, <1>4, <1>5, CellKept
  <2> QED
    BY <1>3, <2>1, ShownAsCell
<1> QED
  BY <1>1, <1>2, <1>6, Outcome

-----------------------------------------------------------------------------
(* Closures.                                                               *)

LEMMA FunIs ==
  ASSUME NEW f \in DOMAIN Functions, NEW h, IsList(h), NEW c, c = FunOf(f, h), NEW m, m = Len(h)
  PROVE  /\ m \in Nat /\ IsList(c.e) /\ Len(c.e) = m
         /\ \A i \in 1..m : c.e[i] = Of(Funs, h[i])
         /\ c = Sem!Fun(f, c.e) /\ c.k = "fun" /\ Sem!N(c) = f
<1>1. m \in Nat /\ DOMAIN h = 1..m
  BY ListFinite
<1>2. c.k = "fun" /\ c.v = <<f>> /\ c.e = [i \in 1..m |-> Of(Funs, h[i])]
  BY <1>1 DEF FunOf, Cell
<1>3. PICK e : e = c.e
  OBVIOUS
<1>4. e = [i \in 1..m |-> e[i]]
  BY <1>2, <1>3
<1>5. IsList(e) /\ Len(e) = m
  BY <1>1, <1>4, ListOf
<1>6. Sem!N(c) = f
  BY <1>2 DEF Sem!N
<1>7. c = Sem!Fun(f, c.e)
  BY <1>1, <1>2 DEF FunOf, Sem!Fun, Sem!Cell, Cell
<1> QED
  BY <1>1, <1>2, <1>3, <1>5, <1>6, <1>7

(* How many arguments it has been given, and how many it lacks.            *)
LEMMA FunLacks ==
  ASSUME NEW f \in DOMAIN Functions, NEW h, IsList(h), NEW c, c = FunOf(f, h),
         NEW a, a = Functions[f].arguments, NEW k, k = Functions[f].captures,
         NEW g \in Nat, Len(h) = k + g
  PROVE  Sem!Given(c) = g /\ Sem!MissingOf(c) = a - g
<1>1. PICK m \in Nat : m = Len(h) /\ Len(c.e) = m /\ Sem!N(c) = f
  BY FunIs
<1>2. a \in Nat /\ k \in Nat
  BY FunctionShape
<1>3. Sem!Given(c) = m - k /\ Sem!MissingOf(c) = a - (m - k)
  BY <1>1 DEF Sem!Given, Sem!MissingOf
<1>4. m - k = g
  BY <1>1, <1>2
<1> QED
  BY <1>3, <1>4

(* A function f that holds the cells of h and of x.                        *)
LEMMA FunWithMore ==
  ASSUME NEW f \in DOMAIN Functions, NEW h, IsList(h), NEW x, NEW g, IsList(g),
         Len(g) = Len(h) + 1, \A i \in 1..Len(h) : g[i] = h[i], g[Len(h) + 1] = x
  PROVE  FunOf(f, g) = Sem!Fun(f, Append(FunOf(f, h).e, Of(Funs, x)))
<1>1. PICK c, d, m : c = FunOf(f, h) /\ d = FunOf(f, g) /\ m = Len(h)
  OBVIOUS
<1>2. m \in Nat /\ IsList(c.e) /\ Len(c.e) = m /\ \A i \in 1..m : c.e[i] = Of(Funs, h[i])
  BY <1>1, FunIs
<1>3. PICK n \in Nat : n = m + 1 /\ n = Len(g)
  BY <1>1, <1>2
<1>4. IsList(d.e) /\ Len(d.e) = n /\ (\A i \in 1..n : d.e[i] = Of(Funs, g[i])) /\ d = Sem!Fun(f, d.e)
  BY <1>1, <1>3, FunIs
<1>5. PICK v : v = Append(c.e, Of(Funs, x))
  OBVIOUS
<1>6. IsList(v) /\ Len(v) = n /\ (\A i \in 1..m : v[i] = c.e[i]) /\ v[n] = Of(Funs, x)
  BY <1>2, <1>3, <1>5, ListAppend
<1>7. ASSUME NEW i \in 1..n PROVE d.e[i] = v[i]
  <2>1. CASE i = n
    BY <1>1, <1>3, <1>4, <1>6, <2>1
  <2>2. CASE i # n
    <3>1. i \in 1..m
      BY <1>2, <1>3, <2>2
    <3> QED
      BY <1>1, <1>2, <1>4, <1>6, <3>1
  <2> QED
    BY <2>1, <2>2
<1>8. d.e = v
  BY <1>4, <1>6, <1>7, ListsEqual
<1> QED
  BY <1>1, <1>4, <1>5, <1>8

LEMMA CreateClosureSem ==
  ASSUME SInv, IInv', CreateClosure
  PROVE  SInv' /\ Sem!Next
<1>1. PICK n \in 1..(Len(stack) - 1) :
        /\ Has(n + 1) /\ IsRaw(Operand(n)) /\ Functions[N(Operand(n))].captures = n
        /\ \A i \in 0..(n - 1) : IsValue(Operand(i))
        /\ Free # {}
        /\ Do(Append(Below(n + 1), Partial(NewPartial)), pool,
              [partials EXCEPT ![NewPartial] = Captured(N(Operand(n)), Top(n))], <<>>)
  BY DEF CreateClosure
<1>2. n \in Nat /\ n + 1 \in Nat /\ n \in 0..((n + 1) - 1)
  BY <1>1
<1>3. PICK size \in Nat : size = Len(stack) /\ n + 1 <= size
  BY <1>1, <1>2, HasParts DEF SInv
<1>4. PICK b, f : b = Operand(n) /\ f = N(b)
  OBVIOUS
<1>5. WellMade(b) /\ b.k = "func" /\ b = stack[size - n] /\ size - n \in DOMAIN stack
  BY <1>1, <1>2, <1>3, <1>4, StackParts DEF IsRaw, Operand, SInv
<1>6. IsValueCell(b) /\ f \in DOMAIN Functions
  BY <1>4, <1>5, CellFields, RawCaptures DEF WellMade
<1>7. PICK a \in Nat : a = Functions[f].arguments
  BY <1>6, FunctionShape
<1>8. Functions[f].captures = n
  BY <1>1, <1>4
<1>9. PICK id \in PartialIds : id = NewPartial /\ partials[id] = Dead
  BY <1>1, FreePartial DEF SInv
<1>10. PICK t : t = Top(n)
  OBVIOUS
<1>11. KnowsCells
  BY KnownNow DEF SInv
<1>12. /\ IsList(t) /\ Len(t) = n /\ DOMAIN t = 1..n
       /\ \A i \in 1..n : IsValueCell(t[i]) /\ Known(t[i])
  <2>1. /\ Cells(t) /\ Len(t) = n
        /\ \A i \in 1..n : t[i] = Operand(n - i) /\ t[i] = stack[size - n + i]
    <3>1. n <= size
      BY <1>2, <1>3
    <3> QED
      BY <1>2, <1>3, <1>10, <3>1, StackParts DEF SInv
  <2>2. DOMAIN t = 1..n /\ DOMAIN stack = 1..size
    BY <1>3, <2>1, ListFinite DEF Cells, SInv, IInv
  <2>3. \A i \in 1..n : IsValueCell(t[i]) /\ Known(t[i])
    <3> TAKE i \in 1..n
    <3>1. n - i \in 0..(n - 1) /\ size - n + i \in 1..size
      BY <1>2, <1>3
    <3>2. t[i].k # "arr" /\ WellMade(t[i])
      BY <1>1, <2>1, <2>2, <3>1 DEF IsValue, Cells
    <3>3. Known(t[i])
      BY <1>11, <2>1, <2>2, <3>1 DEF KnowsCells
    <3> QED
      BY <3>2, <3>3, CellFields DEF WellMade
  <2> QED
    BY <2>1, <2>2, <2>3 DEF Cells
<1>13. PICK none : none = [i \in 1..a |-> None]
  OBVIOUS
<1>14. IsList(none) /\ Len(none) = a
  <2>1. none = [i \in 1..a |-> none[i]]
    BY <1>13
  <2> QED
    BY <2>1, ListOf
<1>15. PICK slots : slots = none \o t
  OBVIOUS
<1>16. /\ IsList(slots) /\ Len(slots) = a + n
       /\ \A i \in 1..a : slots[i] = None
       /\ \A i \in 1..n : slots[a + i] = t[i]
  <2>1. IsList(none) /\ IsList(t)
    BY <1>12, <1>14
  <2>2. /\ IsList(none \o t) /\ Len(none \o t) = Len(none) + Len(t)
        /\ \A i \in 1..Len(none) : (none \o t)[i] = none[i]
        /\ \A i \in 1..Len(t) : (none \o t)[Len(none) + i] = t[i]
    BY ONLY <2>1, ListConcat
  <2> QED
    BY <1>12, <1>13, <1>14, <1>15, <2>2
<1>17. PICK new : new = Captured(f, t)
  OBVIOUS
<1>18. new.rc = 1 /\ new.f = f /\ new.nargs = a /\ new.slots = slots
  <2>1. PICK all : all = [i \in 1..(a + n) |-> None]
    OBVIOUS
  <2>2. all = [i \in 1..(a + n) |-> all[i]]
    BY <2>1
  <2>3. IsList(all) /\ Len(all) = a + n
    <3>1. a + n \in Nat
      BY <1>2
    <3> QED
      BY <2>2, <3>1, ListOf
  <2>4. a \in 0..(a + n)
    BY <1>2
  <2>5. PICK part : part = SubSeq(all, 1, a)
    OBVIOUS
  <2>6. IsList(part) /\ Len(part) = a /\ \A i \in 1..a : part[i] = all[i]
    <3>1. a + n \in Nat
      BY <1>2
    <3> QED
      BY <2>3, <2>4, <2>5, <3>1, ListSplit
  <2>7. \A i \in 1..a : part[i] = none[i]
    BY <1>2, <1>13, <2>1, <2>6
  <2>8. part = none
    BY <1>14, <2>6, <2>7, ListsEqual
  <2>9. Unapplied(f) = [rc |-> 1, f |-> f, nargs |-> a, slots |-> all]
    BY <1>7, <1>8, <2>1 DEF Unapplied
  <2>10. new = [rc |-> 1, f |-> f, nargs |-> a, slots |-> part \o t]
    <3>1. PICK y : y = part \o t
      OBVIOUS
    <3>2. new = [Unapplied(f) EXCEPT !.slots = SubSeq(@, 1, a) \o t]
      BY <1>7, <1>17 DEF Captured
    <3>3. Unapplied(f).slots = all
      BY <2>9
    <3>4. new = [Unapplied(f) EXCEPT !.slots = y]
      BY <2>5, <3>1, <3>2, <3>3
    <3>5. PICK v : v = [Unapplied(f) EXCEPT !.slots = y]
      OBVIOUS
    <3>6. v = [rc |-> 1, f |-> f, nargs |-> a, slots |-> y]
      BY <2>9, <3>5
    <3> QED
      BY <3>1, <3>4, <3>5, <3>6
  <2> QED
    BY <1>15, <2>8, <2>10
<1>19. DOMAIN slots = 1..(a + n)
  BY <1>16, ListFinite
<1>20. \A j \in DOMAIN slots : slots[j] # Partial(id)
  <2> TAKE j \in DOMAIN slots
  <2>1. CASE j \in 1..a
    BY <1>16, <2>1, CellFields
  <2>2. CASE j \notin 1..a
    <3>1. j - a \in 1..n /\ a + (j - a) = j
      BY <1>2, <1>19, <2>2
    <3>2. slots[j] = t[j - a] /\ Known(t[j - a])
      BY <1>12, <1>16, <3>1
    <3>3. ~Known(Partial(id))
      BY <1>9, CellFields DEF Known, Live
    <3> QED
      BY <3>2, <3>3
  <2> QED
    BY <2>1, <2>2
<1>21. Made(id, new, partials')
  BY <1>1, <1>4, <1>9, <1>10, <1>17, DoBecomes DEF Made
<1>22. Changes({id}) /\ partials'[id] # Dead /\ Same(new, partials'[id])
  <2>1. new.nargs < Len(new.slots)
    BY <1>1, <1>16, <1>18
  <2> QED
    BY <1>9, <1>18, <1>20, <1>21, <2>1, CountsNone, MadeChanges DEF SInv
<1>23. SInv'
  BY <1>22, ChangesKeep
<1>24. PICK x : x = partials'[id] /\ x.f = f /\ x.nargs = a /\ x.slots = slots
  BY <1>18, <1>22 DEF Same
<1>25. PICK h : h = HeldIn(x)
  OBVIOUS
<1>26. IsList(h) /\ Len(h) = n /\ DOMAIN h = 1..n /\ \A i \in 1..n : h[i] = t[i]
  <2>1. Alive(x)
    BY <1>22, <1>23, <1>24, LiveAliveNext DEF SInv, AllAlive, Live
  <2>2. PICK aa, k \in Nat : HeldOf(x, aa, k, h)
    BY <1>25, <2>1, HeldIs
  <2>3. aa = a /\ k = n /\ k + (aa - x.nargs) = n
    BY <1>7, <1>8, <1>24, <2>2 DEF HeldOf
  <2> QED
    BY <1>16, <1>24, <2>2, <2>3 DEF HeldOf
<1>27. OperandOf(Funs', Partial(id)) = FunOf(f, h)
  <2>1. \A i \in DOMAIN h : Known(h[i])
    BY <1>12, <1>26
  <2> QED
    BY <1>22, <1>23, <1>24, <1>25, <2>1, NewShown
<1>28. PICK u : u = Sem!Top(n)
  OBVIOUS
<1>29. IsList(u) /\ Len(u) = n /\ \A i \in 1..n : u[i] = Of(Funs, t[i])
  <2>1. Has(n)
    BY <1>1, <1>2, <1>3 DEF Has
  <2>2. IsList(u) /\ Len(u) = n /\ \A i \in 1..n : u[i] = OperandOf(Funs, t[i])
    BY <1>2, <1>10, <1>28, <2>1, SemOperands DEF SInv
  <2> QED
    BY <1>12, <2>2, ShownAsCell
<1>30. FunOf(f, h) = Sem!Fun(f, u)
  <2>1. PICK c : c = FunOf(f, h)
    OBVIOUS
  <2>2. IsList(c.e) /\ Len(c.e) = n /\ (\A i \in 1..n : c.e[i] = Of(Funs, h[i])) /\ c = Sem!Fun(f, c.e)
    BY <1>6, <1>26, <2>1, FunIs
  <2>3. \A i \in 1..n : c.e[i] = u[i]
    BY <1>26, <1>29, <2>2
  <2>4. c.e = u
    BY <1>2, <1>29, <2>2, <2>3, ListsEqual
  <2> QED
    BY <2>1, <2>2, <2>4
<1>31. Becomes(n + 1, Partial(id))
  BY <1>1, <1>9, DoBecomes
<1>32. Sem!Result(n + 1, {Sem!Fun(f, u)})
  <2>1. OperandOf(Funs', Partial(id)) \in {Sem!Fun(f, u)}
    BY <1>27, <1>30
  <2> QED
    BY <1>1, <1>2, <1>22, <1>31, <2>1, Outcome
<1>33. PICK y : y = Sem!Operand(n)
  OBVIOUS
<1>34. Sem!Has(n + 1) /\ y = OperandOf(Funs, b)
  BY <1>1, <1>2, <1>4, <1>33, SemOperands DEF SInv
<1>35. y.k = "fun" /\ y.e = <<>> /\ Sem!N(y) = f
  <2>1. Known(b)
    BY <1>5, CellFields DEF Known
  <2>2. y = Sem!Fun(f, <<>>)
    BY <1>4, <1>5, <1>6, <1>34, <2>1, ValueShown
  <2> QED
    BY <2>2 DEF Sem!Fun, Sem!Cell, Sem!N
<1>36. n \in 1..(Len(SemStack) - 1)
  BY <1>1, <1>3, SemStackList DEF SInv
<1>37. Sem!CreateClosure
  BY <1>8, <1>28, <1>32, <1>33, <1>34, <1>35, <1>36 DEF Sem!CreateClosure, SemStack
<1> QED
  BY <1>23, <1>37 DEF Sem!Next

-----------------------------------------------------------------------------
(* Applications.                                                           *)

(* new is a copy of p that has been given x.                               *)
Bound(p, x, new) ==
  /\ new.f = p.f /\ new.nargs = p.nargs - 1
  /\ Filled(p.f, p.nargs, p.slots, x, new.slots)

LEMMA BoundIs ==
  ASSUME NEW p, p = [rc |-> p.rc, f |-> p.f, nargs |-> p.nargs, slots |-> p.slots],
         Alive(p), p.nargs # 0, NEW x, IsValueCell(x)
  PROVE  \E new : /\ Bound(p, x, new) /\ new.rc = 1 /\ PartialOK(new) /\ Alive(new)
                  /\ new = [Bind(p, x) EXCEPT !.rc = 1]
                  /\ p.rc = 1 => new = Bind(p, x)
                  /\ \A j \in DOMAIN new.slots : new.slots[j] = x \/ new.slots[j] = p.slots[j]
                  /\ DOMAIN new.slots = DOMAIN p.slots
<1>1. PICK slots : Filled(p.f, p.nargs, p.slots, x, slots)
  BY DEF Filled
<1>2. /\ First(Empty(p)) = FirstEmpty(p.f, p.nargs) /\ SlotsOK(p.f, p.nargs - 1, slots)
      /\ DOMAIN slots = DOMAIN p.slots /\ \A j \in DOMAIN p.slots : slots[j] = x \/ slots[j] = p.slots[j]
  BY <1>1, SlotFilled DEF Alive
<1>3. PICK new : new = [Bind(p, x) EXCEPT !.rc = 1]
  OBVIOUS
<1>4. /\ new = [rc |-> 1, f |-> p.f, nargs |-> p.nargs - 1, slots |-> slots]
      /\ Bind(p, x) = [rc |-> p.rc, f |-> p.f, nargs |-> p.nargs - 1, slots |-> slots]
  BY <1>1, <1>2, <1>3, BindIs
<1>5. new.rc = 1 /\ new.f = p.f /\ new.nargs = p.nargs - 1 /\ new.slots = slots
  BY <1>4
<1>6. PartialOK(new) /\ Alive(new)
  BY <1>2, <1>4, <1>5 DEF PartialOK, Alive
<1>7. Bound(p, x, new)
  BY <1>1, <1>5 DEF Bound
<1> QED
  BY <1>2, <1>3, <1>4, <1>5, <1>6, <1>7

LEMMA HeldMore ==
  ASSUME NEW p, Alive(p), p.nargs # 0, NEW x, NEW new, Alive(new), Bound(p, x, new),
         NEW h, h = HeldIn(p), NEW g, g = HeldIn(new)
  PROVE  FunOf(p.f, g) = Sem!Fun(p.f, Append(FunOf(p.f, h).e, Of(Funs, x)))
<1>1. PICK a, k \in Nat : HeldOf(p, a, k, h)
  BY HeldIs
<1>2. PICK aa, kk \in Nat : HeldOf(new, aa, kk, g)
  BY HeldIs
<1>3. aa = a /\ kk = k /\ new.nargs = p.nargs - 1
  BY <1>1, <1>2 DEF HeldOf, Bound
<1>4. PICK n \in 1..a : n = p.nargs
  BY <1>1 DEF Alive, SlotsOK, HeldOf
<1>5. PICK s, t, z : s = p.slots /\ t = new.slots /\ z = FirstEmpty(p.f, p.nargs)
  OBVIOUS
<1>6. z = a - n + 1
  BY <1>1, <1>4, <1>5 DEF FirstEmpty, HeldOf
<1>7. t = [s EXCEPT ![z] = x]
  BY <1>5 DEF Bound, Filled
<1>8. DOMAIN s = 1..(a + k)
  <2>1. IsList(s) /\ Len(s) = a + k
    BY <1>1, <1>5 DEF Alive, SlotsOK, HeldOf
  <2> QED
    BY <2>1, ListFinite
<1>9. PICK m \in Nat : m = k + (a - n)
  BY <1>4
<1>10. IsList(h) /\ Len(h) = m /\ (\A i \in 1..k : h[i] = s[a + i]) /\ (\A i \in 1..(a - n) : h[k + i] = s[i])
  BY <1>1, <1>4, <1>5, <1>9 DEF HeldOf
<1>11. /\ IsList(g) /\ Len(g) = m + 1
       /\ \A i \in 1..k : g[i] = t[a + i]
       /\ \A i \in 1..(a - (n - 1)) : g[k + i] = t[i]
  <2>1. k + (a - (n - 1)) = m + 1
    BY <1>4, <1>9
  <2> QED
    BY <1>2, <1>3, <1>4, <1>5, <2>1 DEF HeldOf
<1>12. ASSUME NEW i \in 1..m PROVE g[i] = h[i]
  <2>1. CASE i \in 1..k
    <3>1. a + i # z /\ a + i \in 1..(a + k)
      BY <1>4, <1>6, <2>1
    <3>2. t[a + i] = s[a + i]
      BY <1>7, <1>8, <3>1
    <3> QED
      BY <1>10, <1>11, <2>1, <3>2
  <2>2. CASE i \notin 1..k
    <3>1. PICK j \in 1..(a - n) : i = k + j
      <4>1. i - k \in 1..(a - n) /\ i = k + (i - k)
        BY <1>4, <1>9, <2>2
      <4> QED
        BY <4>1
    <3>2. j # z /\ j \in 1..(a + k) /\ j \in 1..(a - (n - 1))
      BY <1>4, <1>6
    <3>3. t[j] = s[j]
      BY <1>7, <1>8, <3>2
    <3> QED
      BY <1>10, <1>11, <3>1, <3>2, <3>3
  <2> QED
    BY <2>1, <2>2
<1>13. g[m + 1] = x
  <2>1. z \in 1..(a - (n - 1)) /\ k + z = m + 1 /\ z \in 1..(a + k)
    BY <1>4, <1>6, <1>9
  <2>2. t[z] = x
    BY <1>7, <1>8, <2>1
  <2>3. g[k + z] = t[z]
    BY <1>11, <2>1
  <2> QED
    BY <2>1, <2>2, <2>3
<1>14. p.f \in DOMAIN Functions
  BY DEF Alive
<1>15. Len(g) = Len(h) + 1 /\ (\A i \in 1..Len(h) : g[i] = h[i]) /\ g[Len(h) + 1] = x
  BY <1>10, <1>11, <1>12, <1>13
<1> QED
  BY <1>10, <1>11, <1>14, <1>15, FunWithMore

(* One that lacks nothing is the frame of a call.                          *)
LEMMA FullFrame ==
  ASSUME NEW x, Alive(x), x.nargs = 0, NEW h, h = HeldIn(x), NEW e, e = FunOf(x.f, h).e
  PROVE  Frame(x.f, x.slots, e) /\ \A i \in DOMAIN x.slots : IsValueCell(x.slots[i])
<1>1. PICK a, k \in Nat : HeldOf(x, a, k, h)
  BY HeldIs
<1>2. PICK m \in Nat : m = k + a /\ m = Len(h)
  BY <1>1 DEF HeldOf
<1>3. \A i \in 1..m : e[i] = Of(Funs, h[i])
  BY <1>1, <1>2, FunIs DEF Alive, HeldOf
<1>4. IsList(x.slots) /\ Len(x.slots) = a + k
  BY <1>1 DEF Alive, SlotsOK, HeldOf
<1>5. ASSUME NEW i \in 1..k PROVE e[i] = Of(Funs, x.slots[a + i])
  BY <1>1, <1>2, <1>3, <1>5 DEF HeldOf
<1>6. ASSUME NEW i \in 1..a PROVE e[k + i] = Of(Funs, x.slots[i])
  <2>1. k + i \in 1..m /\ i \in 1..(a - x.nargs)
    BY <1>2
  <2> QED
    BY <1>1, <1>3, <2>1 DEF HeldOf
<1>7. \A i \in DOMAIN x.slots : IsValueCell(x.slots[i])
  <2>1. \A i \in DOMAIN x.slots : i \notin (a - x.nargs + 1)..a
    BY <1>1
  <2> QED
    BY <1>1, <2>1 DEF Alive, SlotsOK, HeldOf
<1>8. Functions[x.f].arguments = a /\ Functions[x.f].captures = k
  BY <1>1 DEF HeldOf
<1> QED
  BY <1>4, <1>5, <1>6, <1>7, <1>8 DEF Frame

LEMMA AppliedIs ==
  ASSUME NEW f \in DOMAIN Functions, NEW h, IsList(h), NEW b, b = FunOf(f, h), NEW y,
         NEW n \in Nat, n = Sem!MissingOf(b)
  PROVE  /\ n = 0 => Sem!Raise \in Sem!Applied(b, y)
         /\ n = 1 => Sem!Returned(f, Append(b.e, y)) \in Sem!Applied(b, y)
         /\ n > 1 => Sem!Fun(f, Append(b.e, y)) \in Sem!Applied(b, y)
<1>1. b.k = "fun" /\ Sem!N(b) = f
  BY FunIs
<1> QED
  BY <1>1 DEF Sem!Applied

LEMMA EmptyFun ==
  ASSUME NEW f \in DOMAIN Functions
  PROVE  FunOf(f, <<>>) = Sem!Fun(f, <<>>)
<1>1. PICK c : c = FunOf(f, <<>>)
  OBVIOUS
<1>2. IsList(<<>>) /\ Len(<<>>) = 0
  BY EmptyList
<1>3. IsList(c.e) /\ Len(c.e) = 0 /\ c = Sem!Fun(f, c.e)
  BY <1>1, <1>2, FunIs
<1>4. c.e = <<>>
  BY <1>2, <1>3, ListsEqual
<1> QED
  BY <1>1, <1>3, <1>4

(* A function with nothing given to it.                                    *)
LEMMA UnappliedIs ==
  ASSUME NEW f \in DOMAIN Functions, Functions[f].captures = 0, NEW u, u = Unapplied(f)
  PROVE  /\ u = [rc |-> u.rc, f |-> u.f, nargs |-> u.nargs, slots |-> u.slots]
         /\ u.rc = 1 /\ u.f = f /\ u.nargs = Functions[f].arguments
         /\ Alive(u) /\ HeldIn(u) = <<>>
         /\ \A j \in DOMAIN u.slots : u.slots[j] = None
<1>1. PICK a \in Nat : a = Functions[f].arguments
  BY FunctionShape
<1>2. PICK none : none = [i \in 1..a |-> None]
  OBVIOUS
<1>3. IsList(none) /\ Len(none) = a /\ DOMAIN none = 1..a /\ \A i \in 1..a : none[i] = None
  <2>1. none = [i \in 1..a |-> none[i]]
    BY <1>2
  <2> QED
    BY <1>2, <2>1, ListOf
<1>4. u = [rc |-> 1, f |-> f, nargs |-> a, slots |-> none]
  <2>1. PICK m : m = Functions[f].arguments + Functions[f].captures
    OBVIOUS
  <2>2. m = a
    BY <1>1, <2>1
  <2>3. u = [rc |-> 1, f |-> f, nargs |-> a, slots |-> [i \in 1..m |-> None]]
    BY <1>1, <2>1 DEF Unapplied
  <2>4. [i \in 1..m |-> None] = none
    BY <1>2, <2>2
  <2> QED
    BY <2>3, <2>4
<1>5. u.rc = 1 /\ u.f = f /\ u.nargs = a /\ u.slots = none
  BY <1>4
<1>6. SlotsOK(f, a, none)
  <2>1. a \in 0..a /\ a + 0 = a /\ \A i \in 1..a : i \in (a - a + 1)..a
    OBVIOUS
  <2> QED
    BY <1>1, <1>3, <2>1 DEF SlotsOK
<1>7. Alive(u)
  BY <1>5, <1>6 DEF Alive
<1>8. PICK h : h = HeldIn(u)
  OBVIOUS
<1>9. PICK aa, k \in Nat : HeldOf(u, aa, k, h)
  BY <1>7, <1>8, HeldIs
<1>10. IsList(h) /\ Len(h) = 0
  BY <1>1, <1>5, <1>9 DEF HeldOf
<1>11. h = <<>>
  <2>1. \A i \in 1..0 : h[i] = <<>>[i]
    OBVIOUS
  <2> QED
    BY <1>10, <2>1, EmptyList, ListsEqual
<1> QED
  BY <1>1, <1>3, <1>4, <1>5, <1>7, <1>8, <1>11

-----------------------------------------------------------------------------
(* Partial applications with one argument more.                            *)

LEMMA PartialLacks ==
  ASSUME NEW p, Alive(p), NEW b, b = FunOf(p.f, HeldIn(p)), NEW a, a = Functions[p.f].arguments
  PROVE  /\ a \in Nat /\ p.nargs \in 0..a
         /\ b.k = "fun" /\ Sem!N(b) = p.f
         /\ Sem!MissingOf(b) = p.nargs /\ Sem!Given(b) = a - p.nargs
<1>1. PICK h : h = HeldIn(p)
  OBVIOUS
<1>2. PICK aa, k \in Nat : HeldOf(p, aa, k, h)
  BY <1>1, HeldIs
<1>3. aa = a /\ a \in Nat /\ p.f \in DOMAIN Functions /\ p.nargs \in 0..a
  BY <1>2 DEF HeldOf, Alive, SlotsOK
<1>4. PICK n \in 0..a : n = p.nargs
  BY <1>3
<1>5. PICK g \in Nat : g = a - n
  BY <1>3, <1>4
<1>6. IsList(h) /\ Len(h) = k + g /\ k = Functions[p.f].captures
  BY <1>2, <1>3, <1>4, <1>5 DEF HeldOf
<1>7. b = FunOf(p.f, h)
  BY <1>1
<1>8. Sem!Given(b) = g /\ Sem!MissingOf(b) = a - g
  <2>1. PICK f \in DOMAIN Functions : f = p.f
    BY <1>3
  <2>2. /\ IsList(h) /\ b = FunOf(f, h) /\ a = Functions[f].arguments
        /\ k = Functions[f].captures /\ Len(h) = k + g
    BY <1>6, <1>7, <2>1
  <2> QED
    BY ONLY <2>2, f \in DOMAIN Functions, g \in Nat, FunLacks
<1>9. b.k = "fun" /\ Sem!N(b) = p.f
  BY <1>3, <1>6, <1>7, FunIs
<1>10. a - g = n
  BY <1>3, <1>4, <1>5
<1> QED
  BY <1>3, <1>4, <1>5, <1>8, <1>9, <1>10

(* The partial application id that is made of p and x.                     *)
MadeOf(id, p, x, new, ps) ==
  /\ id \in PartialIds /\ partials[id] = Dead
  /\ Alive(p) /\ p.nargs # 0 /\ \A j \in DOMAIN p.slots : Known(p.slots[j])
  /\ IsValueCell(x) /\ Known(x)
  /\ Alive(new) /\ new.rc = 1 /\ Bound(p, x, new)
  /\ \A j \in DOMAIN new.slots : new.slots[j] = x \/ new.slots[j] = p.slots[j]
  /\ DOMAIN new.slots = DOMAIN p.slots
  /\ Made(id, new, ps)

LEMMA NewChanges ==
  ASSUME SInv, IInv', NEW id, NEW p, NEW x, NEW new, NEW ps,
         MadeOf(id, p, x, new, ps), CountsOnly(ps, partials')
  PROVE  /\ Changes({id}) /\ SInv'
         /\ partials'[id] # Dead /\ Same(new, partials'[id])
         /\ \A j \in DOMAIN new.slots : Known(new.slots[j])
<1>1. \A j \in DOMAIN new.slots : Known(new.slots[j])
  BY DEF MadeOf
<1>2. id \in PartialIds /\ partials[id] = Dead /\ new.rc = 1 /\ Made(id, new, ps)
  BY DEF MadeOf
<1>3. \A j \in DOMAIN new.slots : new.slots[j] # Partial(id)
  <2>1. ~Known(Partial(id))
    BY <1>2, CellFields DEF Known, Live
  <2> QED
    BY <1>1, <2>1
<1>4. new.nargs < Len(new.slots)
  <2>1. PICK a, k \in Nat : a = Functions[p.f].arguments /\ k = Functions[p.f].captures
    BY FunctionShape DEF MadeOf, Alive
  <2>2. PICK n \in 1..a : n = p.nargs
    BY <2>1 DEF MadeOf, Alive, SlotsOK
  <2>3. new.nargs = n - 1 /\ Len(new.slots) = a + k
    BY <2>1, <2>2 DEF MadeOf, Bound, Alive, SlotsOK
  <2>4. n - 1 < a + k
    BY <2>1, <2>2
  <2> QED
    BY <2>3, <2>4
<1>5. Changes({id}) /\ partials'[id] # Dead /\ Same(new, partials'[id])
  BY <1>2, <1>3, <1>4, MadeChanges DEF SInv
<1>6. SInv'
  BY <1>5, ChangesKeep
<1> QED
  BY <1>1, <1>5, <1>6

(* It stands for what p stands for with x added.                           *)
LEMMA NewIsMore ==
  ASSUME SInv, IInv', NEW id, NEW p, NEW x, NEW new, NEW ps,
         MadeOf(id, p, x, new, ps), CountsOnly(ps, partials'),
         NEW n \in Nat, Has(n), Becomes(n, Partial(id)),
         NEW h, h = HeldIn(p)
  PROVE  SInv' /\ \A outcomes :
                    Sem!Fun(p.f, Append(FunOf(p.f, h).e, Of(Funs, x))) \in outcomes => Sem!Result(n, outcomes)
<1>1. /\ Changes({id}) /\ SInv'
      /\ partials'[id] # Dead /\ Same(new, partials'[id])
      /\ \A j \in DOMAIN new.slots : Known(new.slots[j])
  BY NewChanges
<1>2. PICK y : y = partials'[id]
  OBVIOUS
<1>3. y.f = new.f /\ y.nargs = new.nargs /\ y.slots = new.slots
  BY <1>1, <1>2 DEF Same
<1>4. Bound(p, x, y) /\ id \in PartialIds /\ y.f = p.f
  BY <1>3 DEF MadeOf, Bound
<1>5. Alive(y)
  BY <1>1, <1>2, <1>4, LiveAliveNext DEF SInv, AllAlive, Live
<1>6. PICK g : g = HeldIn(y)
  OBVIOUS
<1>7. FunOf(p.f, g) = Sem!Fun(p.f, Append(FunOf(p.f, h).e, Of(Funs, x)))
  BY <1>4, <1>5, <1>6, HeldMore DEF MadeOf
<1>8. \A i \in DOMAIN g : Known(g[i])
  <2>1. PICK a, k \in Nat : HeldOf(y, a, k, g)
    BY <1>5, <1>6, HeldIs
  <2> QED
    BY <1>1, <1>3, <2>1 DEF HeldOf
<1>9. OperandOf(Funs', Partial(id)) = FunOf(y.f, g)
  BY <1>1, <1>2, <1>4, <1>6, <1>8, NewShown
<1>10. \A outcomes : OperandOf(Funs', Partial(id)) \in outcomes => Sem!Result(n, outcomes)
  BY <1>1, Outcome
<1> QED
  BY <1>1, <1>4, <1>7, <1>9, <1>10

(* When nothing lacks, its slots are the frame of the call.                *)
LEMMA NewIsFrame ==
  ASSUME NEW id, NEW p, NEW x, NEW new, NEW ps, MadeOf(id, p, x, new, ps), new.nargs = 0,
         NEW h, h = HeldIn(p), NEW e, e = Append(FunOf(p.f, h).e, Of(Funs, x))
  PROVE  Frame(p.f, new.slots, e) /\ \A i \in DOMAIN new.slots : IsValueCell(new.slots[i])
<1>1. PICK g : g = HeldIn(new)
  OBVIOUS
<1>2. new.f = p.f /\ p.f \in DOMAIN Functions /\ Alive(new)
  BY DEF MadeOf, Bound, Alive
<1>3. FunOf(p.f, g) = Sem!Fun(p.f, e)
  BY <1>1, HeldMore DEF MadeOf
<1>4. PICK d : d = FunOf(p.f, g).e
  OBVIOUS
<1>5. d = e
  BY <1>3, <1>4 DEF Sem!Fun, Sem!Cell
<1>6. Frame(new.f, new.slots, d) /\ \A i \in DOMAIN new.slots : IsValueCell(new.slots[i])
  BY <1>1, <1>2, <1>4, FullFrame
<1> QED
  BY <1>2, <1>5, <1>6

-----------------------------------------------------------------------------
(* Applying functions.                                                     *)

LEMMA ApplyFuncSem ==
  ASSUME SInv, IInv', Values(2), NEW c, NEW b, IsOperand(1, c, b), NEW x, NEW y, IsOperand(0, x, y),
         c.k = "func", ApplyFunc(N(c), x)
  PROVE  SInv' /\ Sem!Result(2, Sem!Applied(b, y))
<1>1. PICK f : f = N(c)
  OBVIOUS
<1>2. /\ c = Operand(1) /\ IsValueCell(c) /\ ~IsRaw(c) /\ Known(c) /\ b = OperandOf(Funs, c)
      /\ x = Operand(0) /\ IsValueCell(x) /\ Known(x) /\ y = OperandOf(Funs, x)
  BY DEF IsOperand
<1>3. f \in DOMAIN Functions /\ Functions[f].captures = 0 /\ Functions[f].arguments \in Nat
  BY <1>1, <1>2, RawCaptures, FunctionShape
<1>4. PICK a \in Nat : a = Functions[f].arguments
  BY <1>3
<1>5. Has(2) /\ 2 \in Nat /\ y = Of(Funs, x)
  BY <1>2, ShownAsCell DEF Values
<1>6. b = Sem!Fun(f, <<>>) /\ b = FunOf(f, <<>>) /\ b.e = <<>>
  <2>1. b = Sem!Fun(f, <<>>)
    BY <1>1, <1>2, ValueShown
  <2> QED
    BY <1>3, <2>1, EmptyFun DEF Sem!Fun, Sem!Cell
<1>7. Sem!MissingOf(b) = a
  <2>1. IsList(<<>>) /\ Len(<<>>) = 0 + 0 /\ 0 \in Nat
    BY EmptyList
  <2>2. PICK k : k = Functions[f].captures
    OBVIOUS
  <2>3. Sem!MissingOf(b) = a - 0
    BY <1>3, <1>4, <1>6, <2>1, <2>2, FunLacks
  <2> QED
    BY <2>3
<1>8. /\ a = 0 => Sem!Raise \in Sem!Applied(b, y)
      /\ a = 1 => Sem!Returned(f, Append(b.e, y)) \in Sem!Applied(b, y)
      /\ a > 1 => Sem!Fun(f, Append(b.e, y)) \in Sem!Applied(b, y)
  <2>1. IsList(<<>>) /\ b = FunOf(f, <<>>) /\ a = Sem!MissingOf(b)
    BY <1>6, <1>7, EmptyList
  <2> QED
    BY <1>3, <2>1, AppliedIs
<1>9. CASE a = 0
  <2>1. Stop("error")
    BY <1>1, <1>4, <1>9 DEF ApplyFunc
  <2> QED
    BY <1>5, <1>8, <1>9, <2>1, Raising
<1>10. CASE a = 1
  <2>1. Returns(2, f, <<x>>, partials, <<>>, <<x>>)
    BY <1>1, <1>4, <1>10 DEF ApplyFunc
  <2>2. PICK frame : frame = <<x>>
    OBVIOUS
  <2>3. IsList(frame) /\ Len(frame) = 1 /\ DOMAIN frame = {1} /\ frame[1] = x
    BY <2>2, OneElement
  <2>4. PICK e : e = Append(b.e, y)
    OBVIOUS
  <2>5. e[1] = y
    <3>1. IsList(<<>>) /\ Len(<<>>) = 0 /\ e = Append(<<>>, y)
      BY <1>6, <2>4, EmptyList
    <3> QED
      BY <3>1
  <2>6. Frame(f, frame, e)
    <3>1. \A i \in 1..0 : e[i] = Of(Funs, frame[1 + i])
      OBVIOUS
    <3>2. \A i \in 1..1 : e[0 + i] = Of(Funs, frame[i])
      BY <1>5, <2>3, <2>5
    <3> QED
      BY <1>3, <1>4, <1>10, <2>3, <3>1, <3>2 DEF Frame
  <2>7. MayCopy(frame, partials) /\ MayCopy(<<>>, partials)
    <3>1. Present(x)
      <4>1. 0 \in 0..(2 - 1)
        OBVIOUS
      <4> QED
        BY <1>2, <4>1, OperandPresent DEF SInv
    <3> QED
      BY <1>2, <2>3, <3>1, EmptyList DEF MayCopy, Flat, Present
  <2>8. Returns(2, f, frame, partials, <<>>, <<x>>)
    BY <2>1, <2>2
  <2>9. Becomes(2, Returned_(f, frame)) /\ CountsOnly(partials, partials')
    BY <1>3, <2>6, <2>7, <2>8, ReturnsCounts DEF SInv, IInv
  <2>10. Changes({})
    BY <2>9, CountsChanges
  <2>11. SInv' /\ \A outcomes : Sem!Returned(f, e) \in outcomes => Sem!Result(2, outcomes)
    <3>1. \A i \in DOMAIN frame : IsValueCell(frame[i]) /\ Known(frame[i])
      BY <1>2, <2>3
    <3> QED
      BY <1>3, <1>5, <2>6, <2>9, <2>10, <3>1, ReturnsSem
  <2> QED
    BY <1>8, <1>10, <2>4, <2>11
<1>11. CASE a \notin {0, 1}
  <2>1. /\ Free # {}
        /\ Do(Append(Below(2), Partial(NewPartial)), pool,
              [partials EXCEPT ![NewPartial] = Bind(Unapplied(f), x)], <<>>)
    BY <1>1, <1>4, <1>11 DEF ApplyFunc
  <2>2. PICK id \in PartialIds : id = NewPartial /\ partials[id] = Dead
    BY <2>1, FreePartial DEF SInv
  <2>3. PICK u : u = Unapplied(f)
    OBVIOUS
  <2>4. /\ u = [rc |-> u.rc, f |-> u.f, nargs |-> u.nargs, slots |-> u.slots]
        /\ u.rc = 1 /\ u.f = f /\ u.nargs = a
        /\ Alive(u) /\ HeldIn(u) = <<>>
        /\ \A j \in DOMAIN u.slots : u.slots[j] = None
    BY <1>3, <1>4, <2>3, UnappliedIs
  <2>5. u.nargs # 0 /\ a > 1
    BY <1>11, <2>4
  <2>6. PICK new : /\ Bound(u, x, new) /\ new.rc = 1 /\ Alive(new)
                   /\ u.rc = 1 => new = Bind(u, x)
                   /\ \A j \in DOMAIN new.slots : new.slots[j] = x \/ new.slots[j] = u.slots[j]
                   /\ DOMAIN new.slots = DOMAIN u.slots
    BY <1>2, <2>4, <2>5, BoundIs
  <2>7. Do(Append(Below(2), Partial(id)), pool, partials', <<>>) /\ Made(id, new, partials')
    BY <2>1, <2>2, <2>3, <2>4, <2>6, DoBecomes DEF Made
  <2>8. Becomes(2, Partial(id))
    BY <2>7, DoBecomes
  <2>9. MadeOf(id, u, x, new, partials')
    <3>1. \A j \in DOMAIN u.slots : Known(u.slots[j])
      BY <2>4, CellFields DEF Known
    <3> QED
      BY <1>2, <2>2, <2>4, <2>5, <2>6, <2>7, <3>1 DEF MadeOf
  <2>10. PICK h : h = HeldIn(u)
    OBVIOUS
  <2>11. SInv' /\ \A outcomes :
           Sem!Fun(u.f, Append(FunOf(u.f, h).e, Of(Funs, x))) \in outcomes => Sem!Result(2, outcomes)
    BY <1>5, <2>8, <2>9, <2>10, CountsNone, NewIsMore
  <2>12. Sem!Fun(u.f, Append(FunOf(u.f, h).e, Of(Funs, x))) = Sem!Fun(f, Append(b.e, y))
    BY <1>5, <1>6, <2>4, <2>10
  <2> QED
    BY <1>8, <2>5, <2>11, <2>12
<1> QED
  BY <1>9, <1>10, <1>11

-----------------------------------------------------------------------------
(* Applying partial applications.                                          *)

LEMMA ApplyPartialSem ==
  ASSUME SInv, IInv', Values(2), NEW c, NEW b, IsOperand(1, c, b), NEW x, NEW y, IsOperand(0, x, y),
         c.k = "partial", ApplyPartial(c, x)
  PROVE  SInv' /\ Sem!Result(2, Sem!Applied(b, y))
<1>1. /\ c = Operand(1) /\ IsValueCell(c) /\ Known(c) /\ b = OperandOf(Funs, c)
      /\ x = Operand(0) /\ IsValueCell(x) /\ Known(x) /\ y = OperandOf(Funs, x)
  BY DEF IsOperand
<1>2. Has(2) /\ 2 \in Nat /\ y = Of(Funs, x)
  BY <1>1, ShownAsCell DEF Values
<1>3. PICK q \in Live : q = N(c) /\ q \in PartialIds /\ partials[q] # Dead /\ b = Over(Funs, partials[q])
  BY <1>1, ValueShown DEF Live
<1>4. PICK p : p = partials[q]
  OBVIOUS
<1>5. /\ p = [rc |-> p.rc, f |-> p.f, nargs |-> p.nargs, slots |-> p.slots]
      /\ MayCopy(p.slots, partials) /\ p.f \in DOMAIN Functions
  BY <1>3, <1>4, AlivePartial DEF SInv
<1>6. Alive(p)
  BY <1>3, <1>4, LiveAlive DEF SInv, AllAlive
<1>7. PICK f, h : f = p.f /\ h = HeldIn(p)
  OBVIOUS
<1>8. b = FunOf(f, h) /\ f \in DOMAIN Functions
  BY <1>3, <1>4, <1>5, <1>7, PartialShown
<1>9. PICK n \in Nat : n = p.nargs /\ n = Sem!MissingOf(b)
  <2>1. PICK a : a = Functions[p.f].arguments
    OBVIOUS
  <2>2. b = FunOf(p.f, HeldIn(p))
    BY <1>7, <1>8
  <2>3. a \in Nat /\ p.nargs \in 0..a /\ Sem!MissingOf(b) = p.nargs
    BY <1>6, <2>1, <2>2, PartialLacks
  <2> QED
    BY <2>3
<1>10. /\ n = 0 => Sem!Raise \in Sem!Applied(b, y)
       /\ n = 1 => Sem!Returned(f, Append(b.e, y)) \in Sem!Applied(b, y)
       /\ n > 1 => Sem!Fun(f, Append(b.e, y)) \in Sem!Applied(b, y)
  <2>1. IsList(h)
    BY <1>6, <1>7, HeldIs DEF HeldOf
  <2> QED
    BY <1>8, <1>9, <2>1, AppliedIs
<1>11. CASE n = 0
  <2>1. Stop("error")
    BY <1>3, <1>4, <1>9, <1>11 DEF ApplyPartial
  <2> QED
    BY <1>2, <1>10, <1>11, <2>1, Raising
<1>12. CASE n # 0
  <2>1. PICK new : /\ Bound(p, x, new) /\ new.rc = 1 /\ PartialOK(new) /\ Alive(new)
                   /\ new = [Bind(p, x) EXCEPT !.rc = 1]
                   /\ \A j \in DOMAIN new.slots : new.slots[j] = x \/ new.slots[j] = p.slots[j]
                   /\ DOMAIN new.slots = DOMAIN p.slots
    BY <1>1, <1>5, <1>6, <1>9, <1>12, BoundIs
  <2>2. PICK id, ps : id = NewPartial /\ Made(id, new, ps)
    BY DEF Made
  <2>3. /\ Free # {}
        /\ IF new.nargs > 0
           THEN Do(Append(Below(2), Partial(id)), PoolCopying(p.slots), PartialsCopying(ps, p.slots), <<c>>)
           ELSE Returns(2, p.f, new.slots, ps, p.slots, <<c, Partial(id)>>)
    BY <1>3, <1>4, <1>9, <1>12, <2>1, <2>2 DEF ApplyPartial, Made
  <2>4. id \in PartialIds /\ partials[id] = Dead
    BY <2>2, <2>3, FreePartial DEF SInv
  <2>5. MadeOf(id, p, x, new, ps)
    <3>1. \A j \in DOMAIN p.slots : Known(p.slots[j])
      BY <1>3, <1>4, KnownNow DEF SInv, KnowsCells
    <3> QED
      BY <1>1, <1>6, <1>9, <1>12, <2>1, <2>2, <2>4, <3>1 DEF MadeOf
  <2>6. PartialsOK(ps)
    BY <2>1, <2>2, <2>4, NewKeeps DEF SInv, IInv
  <2>7. \A r \in PartialIds : partials[r] # Dead => ps[r] # Dead
    <3>1. Dead.rc = 0 /\ DOMAIN partials = PartialIds
      BY DEF Dead, SInv, IInv, PartialsOK
    <3> QED
      BY <2>1, <2>2, <2>4, <3>1 DEF Made
  <2>8. ASSUME NEW d, d = None \/ IsValueCell(d), d.k = "partial" => partials[N(d)] # Dead
        PROVE  d.k = "partial" => ps[N(d)] # Dead
    BY <2>7, <2>8, ValueCells, CellFields
  <2>9. MayCopy(p.slots, ps)
    BY <1>5, <2>8 DEF MayCopy, Flat
  <2>10. new.nargs = n - 1
    BY <1>9, <2>1 DEF Bound
  <2>11. CASE n > 1
    <3>1. Do(Append(Below(2), Partial(id)), PoolCopying(p.slots), PartialsCopying(ps, p.slots), <<c>>)
      <4>1. n - 1 > 0
        BY <2>11
      <4> QED
        BY <2>3, <2>10, <4>1
    <3>2. Becomes(2, Partial(id)) /\ partials' = PartialsCopying(ps, p.slots)
      BY <3>1, DoBecomes
    <3>3. CountsOnly(ps, partials')
      BY <2>6, <2>9, <3>2, CopyingCounts DEF SInv, IInv
    <3>4. SInv' /\ \A outcomes :
            Sem!Fun(p.f, Append(FunOf(p.f, h).e, Of(Funs, x))) \in outcomes => Sem!Result(2, outcomes)
      BY <1>2, <1>7, <2>5, <3>2, <3>3, NewIsMore
    <3>5. Sem!Fun(p.f, Append(FunOf(p.f, h).e, Of(Funs, x))) = Sem!Fun(f, Append(b.e, y))
      BY <1>2, <1>7, <1>8
    <3> QED
      BY <1>10, <2>11, <3>4, <3>5
  <2>12. CASE n = 1
    <3>1. new.nargs = 0 /\ ~(new.nargs > 0)
      BY <2>10, <2>12
    <3>2. PICK frame, e : frame = new.slots /\ e = Append(FunOf(p.f, h).e, Of(Funs, x))
      OBVIOUS
    <3>3. Returns(2, f, frame, ps, p.slots, <<c, Partial(id)>>)
      BY <1>7, <2>3, <3>1, <3>2
    <3>4. Frame(f, frame, e) /\ \A i \in DOMAIN frame : IsValueCell(frame[i])
      BY <1>7, <2>5, <3>1, <3>2, NewIsFrame
    <3>5. MayCopy(frame, ps)
      <4>1. IsList(frame)
        BY <3>4 DEF Frame
      <4>2. Present(x)
        <5>1. 0 \in 0..(2 - 1)
          OBVIOUS
        <5> QED
          BY <1>1, <5>1, OperandPresent DEF SInv
      <4>3. ASSUME NEW i \in DOMAIN frame
            PROVE  /\ frame[i].k = "text" => frame[i].v \in DOMAIN pool
                   /\ frame[i].k = "partial" => ps[N(frame[i])] # Dead
        <5>1. CASE frame[i] = x
          BY <1>1, <2>8, <4>2, <5>1 DEF Present
        <5>2. CASE i \in DOMAIN p.slots /\ frame[i] = p.slots[i]
          BY <2>9, <5>2 DEF MayCopy
        <5> QED
          BY <2>1, <3>2, <5>1, <5>2
      <4> QED
        BY <3>4, <4>1, <4>3 DEF MayCopy, Flat
    <3>6. Becomes(2, Returned_(f, frame)) /\ CountsOnly(ps, partials')
      BY <1>8, <2>6, <2>9, <3>3, <3>4, <3>5, ReturnsCounts DEF SInv
    <3>7. Changes({id}) /\ \A j \in DOMAIN new.slots : Known(new.slots[j])
      BY <2>5, <3>6, NewChanges
    <3>8. SInv' /\ \A outcomes : Sem!Returned(f, e) \in outcomes => Sem!Result(2, outcomes)
      <4>1. \A i \in DOMAIN frame : IsValueCell(frame[i]) /\ Known(frame[i])
        BY <3>2, <3>4, <3>7
      <4> QED
        BY <1>2, <1>8, <3>4, <3>6, <3>7, <4>1, ReturnsSem
    <3>9. e = Append(b.e, y)
      BY <1>2, <1>7, <1>8, <3>2
    <3> QED
      BY <1>10, <2>12, <3>8, <3>9
  <2> QED
    BY <1>12, <2>11, <2>12
<1> QED
  BY <1>11, <1>12

LEMMA ApplySem ==
  ASSUME SInv, IInv', Apply
  PROVE  SInv' /\ Sem!Next
<1>1. Values(2)
  BY DEF Apply, Uses
<1>2. 2 \in Nat /\ 0 \in 0..(2 - 1) /\ 1 \in 0..(2 - 1)
  OBVIOUS
<1>3. PICK c, b : IsOperand(1, c, b)
  BY <1>1, <1>2, TheOperand
<1>4. PICK x, y : IsOperand(0, x, y)
  BY <1>1, <1>2, TheOperand
<1>5. c = Operand(1) /\ b = Sem!Operand(1) /\ x = Operand(0) /\ y = Sem!Operand(0)
  BY <1>3, <1>4 DEF IsOperand
<1>6. SInv' /\ Sem!Result(2, Sem!Applied(b, y))
  <2>1. CASE c.k = "func"
    <3>1. ApplyFunc(N(c), x)
      BY <1>5, <2>1 DEF Apply
    <3> QED
      BY <1>1, <1>3, <1>4, <2>1, <3>1, ApplyFuncSem
  <2>2. CASE c.k = "partial"
    <3>1. ApplyPartial(c, x)
      BY <1>5, <2>2 DEF Apply
    <3> QED
      BY <1>1, <1>3, <1>4, <2>2, <3>1, ApplyPartialSem
  <2>3. CASE c.k \notin {"func", "partial"}
    <3>1. Stop("error")
      BY <1>5, <2>3 DEF Apply
    <3>2. b.k # "fun"
      <4>1. IsValueCell(c) /\ Known(c) /\ b = OperandOf(Funs, c)
        BY <1>3 DEF IsOperand
      <4> QED
        BY <2>3, <4>1, ValueShown DEF Plain
    <3>3. Sem!Raise \in Sem!Applied(b, y)
      BY <3>2 DEF Sem!Applied
    <3> QED
      BY <1>1, <1>2, <3>1, <3>3, Raising DEF Values
  <2> QED
    BY <2>1, <2>2, <2>3
<1>7. Sem!Has(2)
  BY <1>1, <1>2, Shown
<1> QED
  BY <1>5, <1>6, <1>7, BinaryStep

-----------------------------------------------------------------------------
(* Calling functions.                                                      *)

LEMMA CalledIs ==
  ASSUME NEW f \in DOMAIN Functions, NEW h, IsList(h), NEW b, b = FunOf(f, h), NEW w,
         NEW n, n = Len(w), NEW m, m = Sem!MissingOf(b), NEW g \in Nat, g = Sem!Given(b)
  PROVE  /\ m # n => Sem!Raise \in Sem!Called(b, w)
         /\ m = n /\ g # 0 => Sem!Stopped \in Sem!Called(b, w)
         /\ m = n /\ g = 0 => Sem!Returned(f, b.e \o w) \in Sem!Called(b, w)
<1>1. b.k = "fun" /\ Sem!N(b) = f
  BY FunIs
<1>2. g # 0 <=> g > 0
  OBVIOUS
<1> QED
  BY <1>1, <1>2 DEF Sem!Called

(* What is on the stack and what was held make the frame of a call.        *)
CallShape(f, h, n, k, t, w, frame) ==
  /\ f \in DOMAIN Functions /\ n = Functions[f].arguments /\ k = Functions[f].captures
  /\ n \in Nat /\ k \in Nat
  /\ IsList(h) /\ Len(h) = k
  /\ IsList(w) /\ Len(w) = n /\ \A i \in 1..n : w[i] = Of(Funs, t[i])
  /\ IsList(frame) /\ Len(frame) = n + k
  /\ \A i \in 1..n : frame[i] = t[i]
  /\ \A i \in 1..k : frame[n + i] = h[i]

LEMMA CalledFrame ==
  ASSUME NEW f, NEW h, NEW n, NEW k, NEW t, NEW w, NEW frame, CallShape(f, h, n, k, t, w, frame),
         NEW b, b = FunOf(f, h), NEW e, e = b.e \o w
  PROVE  Frame(f, frame, e)
<1>1. /\ f \in DOMAIN Functions /\ n = Functions[f].arguments /\ k = Functions[f].captures
      /\ n \in Nat /\ k \in Nat
      /\ IsList(h) /\ Len(h) = k
      /\ IsList(w) /\ Len(w) = n /\ \A i \in 1..n : w[i] = Of(Funs, t[i])
      /\ IsList(frame) /\ Len(frame) = n + k
      /\ \A i \in 1..n : frame[i] = t[i]
      /\ \A i \in 1..k : frame[n + i] = h[i]
  BY DEF CallShape
<1>2. PICK d : d = b.e
  OBVIOUS
<1>3. IsList(d) /\ Len(d) = k /\ \A i \in 1..k : d[i] = Of(Funs, h[i])
  <2>1. PICK m : m = Len(h)
    OBVIOUS
  <2>2. IsList(b.e) /\ Len(b.e) = m /\ \A i \in 1..m : b.e[i] = Of(Funs, h[i])
    BY <1>1, <2>1, FunIs
  <2> QED
    BY <1>1, <1>2, <2>1, <2>2
<1>4. /\ \A i \in 1..k : e[i] = d[i]
      /\ \A i \in 1..n : e[k + i] = w[i]
  <2>1. /\ \A i \in 1..Len(d) : (d \o w)[i] = d[i]
        /\ \A i \in 1..Len(w) : (d \o w)[Len(d) + i] = w[i]
    <3>1. IsList(d) /\ IsList(w)
      BY <1>1, <1>3
    <3> QED
      BY ONLY <3>1, ListConcat
  <2> QED
    BY <1>1, <1>2, <1>3, <2>1
<1>5. \A i \in 1..k : e[i] = Of(Funs, frame[n + i])
  BY <1>1, <1>3, <1>4
<1>6. \A i \in 1..n : e[k + i] = Of(Funs, frame[i])
  BY <1>1, <1>4
<1> QED
  BY <1>1, <1>5, <1>6 DEF Frame

(* Such a call gives what OperandSem says.                                 *)
LEMMA CallReturns ==
  ASSUME SInv, IInv', NEW m \in Nat, Has(m), NEW f \in DOMAIN Functions, NEW frame, NEW e,
         Frame(f, frame, e), MayCopy(frame, partials),
         \A i \in DOMAIN frame : IsValueCell(frame[i]) /\ Known(frame[i]),
         NEW d, Returns(m, f, frame, partials, <<>>, d)
  PROVE  SInv' /\ \A outcomes : Sem!Returned(f, e) \in outcomes => Sem!Result(m, outcomes)
<1>1. MayCopy(<<>>, partials)
  BY EmptyList DEF MayCopy, Flat
<1>2. Becomes(m, Returned_(f, frame)) /\ CountsOnly(partials, partials')
  BY <1>1, ReturnsCounts DEF SInv, IInv
<1>3. Changes({})
  BY <1>2, CountsChanges
<1> QED
  BY <1>2, <1>3, ReturnsSem

(* The operands of a call.                                                 *)
Calls(n, m, t, w, c, b) ==
  /\ m = n + 1 /\ Values(m) /\ Has(m)
  /\ t = Top(n) /\ c = Operand(n)
  /\ IsList(t) /\ Len(t) = n /\ DOMAIN t = 1..n
  /\ \A i \in 1..n : IsValueCell(t[i]) /\ Known(t[i]) /\ Present(t[i])
  /\ w = Sem!Top(n) /\ b = Sem!Operand(n)
  /\ IsList(w) /\ Len(w) = n /\ \A i \in 1..n : w[i] = Of(Funs, t[i])
  /\ IsValueCell(c) /\ ~IsRaw(c) /\ Known(c) /\ b = OperandOf(Funs, c)

LEMMA CallOperands ==
  ASSUME SInv, NEW n \in Nat, Values(n + 1)
  PROVE  \E m \in Nat : \E t, w, c, b : Calls(n, m, t, w, c, b)
<1>1. PICK m \in Nat : m = n + 1
  OBVIOUS
<1>2. PICK t, w : t = Top(n) /\ w = Sem!Top(n)
  OBVIOUS
<1>3. /\ IsList(t) /\ Len(t) = n /\ DOMAIN t = 1..n
      /\ \A i \in 1..n : IsValueCell(t[i]) /\ Present(t[i])
      /\ Has(m)
  BY <1>1, <1>2, CallFrame DEF SInv
<1>4. Values(m) /\ n \in 0..(m - 1)
  BY <1>1
<1>5. PICK c, b : IsOperand(n, c, b)
  BY <1>4, TheOperand
<1>6. PICK size \in Nat : size = Len(stack) /\ m <= size
  BY <1>3, HasParts DEF SInv
<1>7. ASSUME NEW i \in 1..n PROVE Known(t[i])
  <2>1. n <= size
    BY <1>1, <1>6
  <2>2. \A j \in 1..n : Top(n)[j] = stack[size - n + j]
    BY <1>6, <2>1, StackParts DEF SInv
  <2>3. DOMAIN stack = 1..size
    BY <1>6, ListFinite DEF SInv, IInv, Cells
  <2>4. size - n + i \in DOMAIN stack
    BY <2>1, <2>3
  <2> QED
    BY <1>2, <2>2, <2>4, KnownNow DEF SInv, KnowsCells
<1>8. IsList(w) /\ Len(w) = n /\ \A i \in 1..n : w[i] = OperandOf(Funs, t[i])
  <2>1. Has(n)
    BY <1>1, <1>3, <1>6 DEF Has
  <2> QED
    BY <1>2, <2>1, SemOperands DEF SInv
<1>9. \A i \in 1..n : w[i] = Of(Funs, t[i])
  BY <1>3, <1>8, ShownAsCell
<1>10. Calls(n, m, t, w, c, b)
  BY <1>1, <1>2, <1>3, <1>4, <1>5, <1>7, <1>8, <1>9 DEF Calls, IsOperand
<1> QED
  BY <1>10

LEMMA CallFuncSem ==
  ASSUME SInv, IInv', NEW n \in Nat, NEW m \in Nat, NEW t, NEW w, NEW c, NEW b,
         Calls(n, m, t, w, c, b), c.k = "func",
         IF Functions[N(c)].arguments = n THEN Returns(m, N(c), t, partials, <<>>, t) ELSE Stop("error")
  PROVE  SInv' /\ Sem!Result(m, Sem!Called(b, w))
<1>1. PICK f : f = N(c)
  OBVIOUS
<1>2. f \in DOMAIN Functions /\ Functions[f].captures = 0
  BY <1>1, RawCaptures DEF Calls
<1>3. PICK a \in Nat : a = Functions[f].arguments
  BY <1>2, FunctionShape
<1>4. b = FunOf(f, <<>>)
  <2>1. b = Sem!Fun(f, <<>>)
    BY <1>1, ValueShown DEF Calls
  <2> QED
    BY <1>2, <2>1, EmptyFun
<1>5. PICK h, k : h = <<>> /\ k = 0
  OBVIOUS
<1>6. IsList(h) /\ Len(h) = k + 0 /\ Len(h) = k /\ b = FunOf(f, h) /\ k \in Nat /\ k = Functions[f].captures
  BY <1>2, <1>4, <1>5, EmptyList
<1>7. Sem!Given(b) = 0 /\ Sem!MissingOf(b) = a
  <2>1. PICK g \in Nat : g = 0
    OBVIOUS
  <2>2. PICK z \in DOMAIN Functions : z = f
    BY <1>2
  <2>3. /\ IsList(h) /\ b = FunOf(z, h) /\ a = Functions[z].arguments
        /\ k = Functions[z].captures /\ Len(h) = k + g
    BY <1>3, <1>6, <2>1, <2>2
  <2>4. Sem!Given(b) = g /\ Sem!MissingOf(b) = a - g
    BY ONLY <2>3, z \in DOMAIN Functions, g \in Nat, FunLacks
  <2> QED
    BY <2>1, <2>4
<1>8. n = Len(w)
  BY DEF Calls
<1>9. /\ a # n => Sem!Raise \in Sem!Called(b, w)
      /\ a = n => Sem!Returned(f, b.e \o w) \in Sem!Called(b, w)
  BY <1>2, <1>6, <1>7, <1>8, 0 \in Nat, CalledIs
<1>10. CASE a # n
  <2>1. Stop("error")
    BY <1>1, <1>3, <1>10
  <2> QED
    BY <1>9, <1>10, <2>1, Raising DEF Calls
<1>11. CASE a = n
  <2>1. Returns(m, f, t, partials, <<>>, t)
    BY <1>1, <1>3, <1>11
  <2>2. PICK e : e = b.e \o w
    OBVIOUS
  <2>3. IsList(t) /\ Len(t) = n + k /\ \A i \in 1..k : t[n + i] = h[i]
    BY <1>5 DEF Calls
  <2>4. Frame(f, t, e)
    <3>1. CallShape(f, h, n, k, t, w, t)
      BY <1>2, <1>3, <1>6, <1>11, <2>3 DEF CallShape, Calls
    <3> QED
      BY <1>6, <2>2, <3>1, CalledFrame
  <2>5. MayCopy(t, partials) /\ \A i \in DOMAIN t : IsValueCell(t[i]) /\ Known(t[i])
    BY DEF Calls, MayCopy, Flat, Present
  <2>6. Has(m)
    BY DEF Calls
  <2>7. SInv' /\ \A outcomes : Sem!Returned(f, e) \in outcomes => Sem!Result(m, outcomes)
    BY <1>2, <2>1, <2>4, <2>5, <2>6, CallReturns
  <2> QED
    BY <1>9, <1>11, <2>2, <2>7
<1> QED
  BY <1>10, <1>11

-----------------------------------------------------------------------------
(* Calling partial applications.                                           *)

LEMMA CallPartialSem ==
  ASSUME SInv, IInv', NEW n \in Nat, NEW m \in Nat, NEW t, NEW w, NEW c, NEW b,
         Calls(n, m, t, w, c, b), c.k = "partial", NEW p, p = partials[N(c)],
         IF p.nargs # n THEN Stop("error")
         ELSE IF Functions[p.f].arguments # n THEN Stop("misbound")
         ELSE \E d : Returns(m, p.f, t \o SubSeq(p.slots, n + 1, Len(p.slots)), partials, <<>>, d)
  PROVE  SInv' /\ Sem!Result(m, Sem!Called(b, w))
<1>1. PICK q \in Live : q = N(c) /\ q \in PartialIds /\ partials[q] # Dead /\ b = Over(Funs, partials[q])
  BY ValueShown DEF Live, Calls
<1>2. p = partials[q] /\ Alive(p)
  BY <1>1, LiveAlive DEF SInv, AllAlive
<1>3. MayCopy(p.slots, partials)
  BY <1>1, <1>2, AlivePartial DEF SInv
<1>4. PICK f, h, s : f = p.f /\ h = HeldIn(p) /\ s = p.slots
  OBVIOUS
<1>5. b = FunOf(f, h)
  BY <1>1, <1>2, <1>4, PartialShown
<1>6. PICK a, k \in Nat : HeldOf(p, a, k, h)
  BY <1>2, <1>4, HeldIs
<1>7. f \in DOMAIN Functions /\ a = Functions[f].arguments /\ k = Functions[f].captures /\ IsList(h)
  BY <1>2, <1>4, <1>6 DEF HeldOf, Alive
<1>8. PICK l \in 0..a : l = p.nargs
  BY <1>2, <1>4, <1>7 DEF Alive, SlotsOK
<1>9. Sem!MissingOf(b) = l /\ Sem!Given(b) = a - l
  <2>1. b = FunOf(p.f, HeldIn(p)) /\ a = Functions[p.f].arguments
    BY <1>4, <1>5, <1>7
  <2> QED
    BY <1>2, <1>8, <2>1, PartialLacks
<1>10. PICK g \in Nat : g = a - l /\ g = Sem!Given(b)
  BY <1>8, <1>9
<1>11. n = Len(w) /\ Has(m)
  BY DEF Calls
<1>12. /\ l # n => Sem!Raise \in Sem!Called(b, w)
       /\ l = n /\ g # 0 => Sem!Stopped \in Sem!Called(b, w)
       /\ l = n /\ g = 0 => Sem!Returned(f, b.e \o w) \in Sem!Called(b, w)
  BY <1>5, <1>7, <1>9, <1>10, <1>11, CalledIs
<1>13. CASE l # n
  <2>1. Stop("error")
    BY <1>8, <1>13
  <2> QED
    BY <1>11, <1>12, <1>13, <2>1, Raising
<1>14. CASE l = n /\ a # n
  <2>1. Stop("misbound") /\ g # 0
    BY <1>4, <1>7, <1>8, <1>10, <1>14
  <2> QED
    BY <1>11, <1>12, <1>14, <2>1, Stopping
<1>15. CASE l = n /\ a = n
  <2>1. PICK d : Returns(m, f, t \o SubSeq(s, n + 1, Len(s)), partials, <<>>, d)
    BY <1>4, <1>7, <1>8, <1>15
  <2>2. PICK rest : rest = SubSeq(s, n + 1, Len(s))
    OBVIOUS
  <2>3. IsList(s) /\ Len(s) = n + k /\ DOMAIN s = 1..(n + k)
    <3>1. IsList(s) /\ Len(s) = n + k
      BY <1>2, <1>4, <1>7, <1>15 DEF Alive, SlotsOK
    <3> QED
      BY <3>1, ListFinite
  <2>4. IsList(rest) /\ Len(rest) = k /\ \A i \in 1..k : rest[i] = s[n + i]
    <3>1. n + k \in Nat /\ n \in 0..(n + k) /\ (n + k) - n = k
      OBVIOUS
    <3> QED
      BY <2>2, <2>3, <3>1, ListSplit
  <2>5. PICK frame : frame = t \o rest
    OBVIOUS
  <2>6. IsList(t) /\ Len(t) = n /\ DOMAIN t = 1..n
        /\ \A i \in 1..n : IsValueCell(t[i]) /\ Known(t[i]) /\ Present(t[i])
    BY DEF Calls
  <2>7. /\ IsList(frame) /\ Len(frame) = n + k
        /\ \A i \in 1..n : frame[i] = t[i]
        /\ \A i \in 1..k : frame[n + i] = rest[i]
    <3>1. IsList(t) /\ IsList(rest)
      BY <2>4, <2>6
    <3>2. /\ IsList(t \o rest) /\ Len(t \o rest) = Len(t) + Len(rest)
          /\ \A i \in 1..Len(t) : (t \o rest)[i] = t[i]
          /\ \A i \in 1..Len(rest) : (t \o rest)[Len(t) + i] = rest[i]
      BY ONLY <3>1, ListConcat
    <3> QED
      BY <2>4, <2>5, <2>6, <3>2
  <2>8. Len(h) = k /\ \A i \in 1..k : h[i] = s[n + i]
    <3>1. k + (n - n) = k
      OBVIOUS
    <3> QED
      BY <1>4, <1>6, <1>8, <1>15, <3>1 DEF HeldOf
  <2>9. \A i \in 1..k : frame[n + i] = h[i]
    BY <2>4, <2>7, <2>8
  <2>10. PICK e : e = b.e \o w
    OBVIOUS
  <2>11. Frame(f, frame, e)
    <3>1. CallShape(f, h, n, k, t, w, frame)
      BY <1>7, <1>15, <2>7, <2>8, <2>9 DEF CallShape, Calls
    <3> QED
      BY <1>5, <2>10, <3>1, CalledFrame
  <2>12. ASSUME NEW i \in DOMAIN frame
         PROVE  /\ IsValueCell(frame[i]) /\ Known(frame[i])
                /\ frame[i].k = "text" => frame[i].v \in DOMAIN pool
                /\ frame[i].k = "partial" => partials[N(frame[i])] # Dead
    <3>1. DOMAIN frame = 1..(n + k)
      BY <2>7, ListFinite
    <3>2. CASE i \in 1..n
      BY <2>6, <2>7, <3>2 DEF Present
    <3>3. CASE i \notin 1..n
      <4>1. PICK j \in 1..k : i = n + j
        <5>1. i - n \in 1..k /\ i = n + (i - n)
          BY <3>1, <3>3
        <5> QED
          BY <5>1
      <4>2. frame[i] = s[i] /\ i \in DOMAIN s
        BY <2>3, <2>8, <2>9, <3>1, <4>1
      <4>3. IsValueCell(frame[i])
        <5>1. j \in DOMAIN h
          BY <2>8, <4>1, <1>7, ListFinite
        <5> QED
          BY <1>6, <2>9, <4>1, <5>1 DEF HeldOf
      <4>4. Known(s[i])
        BY <1>1, <1>2, <1>4, <4>2, KnownNow DEF SInv, KnowsCells
      <4> QED
        BY <1>3, <1>4, <4>2, <4>3, <4>4 DEF MayCopy
    <3> QED
      BY <3>2, <3>3
  <2>13. MayCopy(frame, partials)
    BY <2>7, <2>12 DEF MayCopy, Flat
  <2>14. Returns(m, f, frame, partials, <<>>, d)
    BY <2>1, <2>2, <2>5
  <2>15. SInv' /\ \A outcomes : Sem!Returned(f, e) \in outcomes => Sem!Result(m, outcomes)
    BY <1>7, <1>11, <2>11, <2>12, <2>13, <2>14, CallReturns
  <2>16. g = 0
    BY <1>10, <1>15
  <2> QED
    BY <1>12, <1>15, <2>10, <2>15, <2>16
<1> QED
  BY <1>13, <1>14, <1>15

LEMMA CallSem ==
  ASSUME SInv, IInv', Call
  PROVE  SInv' /\ Sem!Next
<1>1. PICK n \in 0..(Len(stack) - 1) :
        /\ Uses("Call", n + 1)
        /\ LET c == Operand(n) IN
           CASE c.k = "func" /\ Functions[N(c)].arguments = n ->
                  Returns(n + 1, N(c), Top(n), partials, <<>>, Top(n))
             [] c.k = "partial" /\ partials[N(c)].nargs = n ->
                  LET p == partials[N(c)] IN
                  IF Functions[p.f].arguments # n THEN Stop("misbound")
                  ELSE Returns(n + 1, p.f, Top(n) \o SubSeq(p.slots, n + 1, Len(p.slots)),
                               partials, <<>>, Top(n + 1))
             [] OTHER -> Stop("error")
  BY DEF Call
<1>2. n \in Nat /\ Values(n + 1)
  BY <1>1 DEF Uses
<1>3. PICK m \in Nat : \E t, w, c, b : Calls(n, m, t, w, c, b)
  BY <1>2, CallOperands
<1>4. PICK t, w, c, b : Calls(n, m, t, w, c, b)
  BY <1>3
<1>5. /\ m = n + 1 /\ t = Top(n) /\ c = Operand(n) /\ w = Sem!Top(n) /\ b = Sem!Operand(n)
      /\ Has(m) /\ Values(m) /\ Len(w) = n /\ IsValueCell(c) /\ Known(c) /\ b = OperandOf(Funs, c)
  BY <1>4 DEF Calls
<1>6. SInv' /\ Sem!Result(m, Sem!Called(b, w))
  <2>1. CASE c.k = "func"
    <3>1. IF Functions[N(c)].arguments = n THEN Returns(m, N(c), t, partials, <<>>, t) ELSE Stop("error")
      BY <1>1, <1>5, <2>1
    <3> QED
      BY <1>2, <1>4, <2>1, <3>1, CallFuncSem
  <2>2. CASE c.k = "partial"
    <3>1. PICK p : p = partials[N(c)]
      OBVIOUS
    <3>2. IF p.nargs # n THEN Stop("error")
          ELSE IF Functions[p.f].arguments # n THEN Stop("misbound")
          ELSE \E d : Returns(m, p.f, t \o SubSeq(p.slots, n + 1, Len(p.slots)), partials, <<>>, d)
      BY <1>1, <1>5, <2>2, <3>1
    <3> QED
      BY <1>2, <1>4, <2>2, <3>1, <3>2, CallPartialSem
  <2>3. CASE c.k \notin {"func", "partial"}
    <3>1. Stop("error")
      BY <1>1, <1>5, <2>3
    <3>2. b.k # "fun"
      BY <1>5, <2>3, ValueShown DEF Plain
    <3>3. Sem!Raise \in Sem!Called(b, w)
      BY <3>2 DEF Sem!Called
    <3> QED
      BY <1>5, <3>1, <3>3, Raising
  <2> QED
    BY <2>1, <2>2, <2>3
<1>7. Sem!Has(n + 1)
  BY <1>2, <1>5, SemOperands DEF SInv
<1>8. PICK size \in Nat : size = Len(stack) /\ m <= size
  BY <1>5, HasParts DEF SInv
<1>9. n \in 0..(Len(SemStack) - 1)
  BY <1>1, <1>8, SemStackList DEF SInv
<1>10. Sem!Call
  BY <1>5, <1>6, <1>7, <1>9 DEF Sem!Call, SemStack
<1> QED
  BY <1>6, <1>10 DEF Sem!Next

-----------------------------------------------------------------------------
(* Variables and the stack.                                                *)

LEMMA CopySem ==
  ASSUME SInv, IInv', Has(0), NEW c, IsValueCell(c), Present(c), Copy(c)
  PROVE  SInv' /\ Changes({}) /\ \A outcomes : Of(Funs', c) \in outcomes => Sem!Result(0, outcomes)
<1>1. MayCopy(<<c>>, partials)
  <2>1. \A i \in DOMAIN <<c>> : <<c>>[i] = c
    BY OneElement
  <2> QED
    BY <2>1, OneElement DEF MayCopy, Flat, Present
<1>2. Below(0) = stack
  BY TopNone DEF SInv
<1>3. Do(Append(Below(0), c), PoolCopying(<<c>>), PartialsCopying(partials, <<c>>), <<>>)
  BY <1>2 DEF Copy
<1>4. Becomes(0, c) /\ partials' = PartialsCopying(partials, <<c>>)
  BY <1>3, DoBecomes
<1>5. Changes({})
  <2>1. CountsOnly(partials, partials')
    BY <1>1, <1>4, CopyingCounts DEF SInv, IInv
  <2> QED
    BY <2>1, CountsChanges
<1>6. SInv' /\ \A outcomes : OperandOf(Funs', c) \in outcomes => Sem!Result(0, outcomes)
  <2>1. 0 \in Nat
    OBVIOUS
  <2> QED
    BY <1>4, <1>5, <2>1, Outcome
<1> QED
  BY <1>5, <1>6, ShownAsCell

LEMMA SemScriptIs ==
  ASSUME IInv
  PROVE  SemScript.values = {SemCell(c) : c \in script.values} /\ SemScript.vars = script.vars
<1>1. script = [values |-> script.values, vars |-> script.vars, ops |-> script.ops, depth |-> script.depth]
  BY ScriptsAssumption DEF IInv
<1> QED
  BY <1>1 DEF SemScript

LEMMA PushSem ==
  ASSUME SInv, IInv', Push
  PROVE  SInv' /\ Sem!Next
<1>1. PICK c \in script.values : Has(0) /\ Copy(c)
  BY DEF Push
<1>2. IsValueCell(c) /\ c.k # "partial"
  BY ScriptsAssumption DEF SInv, IInv
<1>3. Present(c)
  BY <1>2, CellPresent DEF SInv
<1>4. SInv' /\ \A outcomes : Of(Funs', c) \in outcomes => Sem!Result(0, outcomes)
  BY <1>1, <1>2, <1>3, CopySem
<1>5. Of(Funs', c) = SemCell(c)
  BY <1>2 DEF Of, SemCell, InnerIn
<1>6. Sem!Result(0, {SemCell(c)})
  BY <1>4, <1>5
<1>7. SemCell(c) \in SemScript.values
  BY SemScriptIs DEF SInv
<1>8. Sem!Has(0)
  BY <1>1, 0 \in Nat, SemOperands DEF SInv
<1>9. Sem!Push
  BY <1>6, <1>7, <1>8 DEF Sem!Push, SemScript
<1> QED
  BY <1>4, <1>9 DEF Sem!Next

LEMMA PushVarSem ==
  ASSUME SInv, IInv', PushVar
  PROVE  SInv' /\ Sem!Next
<1>1. PICK v \in script.vars : Has(0) /\ Copy(env[v])
  BY DEF PushVar
<1>2. PICK c : c = env[v]
  OBVIOUS
<1>3. IsValueCell(c) /\ Copy(c)
  BY <1>1, <1>2 DEF SInv, IInv
<1>4. Present(c)
  BY <1>2, <1>3, CellPresent DEF SInv
<1>5. SInv' /\ Changes({}) /\ \A outcomes : Of(Funs', c) \in outcomes => Sem!Result(0, outcomes)
  BY <1>1, <1>3, <1>4, CopySem
<1>6. UNCHANGED <<script, env>>
  BY <1>3 DEF Copy, Do
<1>7. SemEnv' = SemEnv
  BY <1>5, <1>6, EnvKept
<1>8. Of(Funs', c) = SemEnv[v]
  <2>1. SemEnv' = [u \in script'.vars |-> Of(Funs', env'[u])]
    BY CellIsNext DEF SemEnv
  <2> QED
    BY <1>1, <1>2, <1>6, <1>7, <2>1
<1>9. Sem!Result(0, {SemEnv[v]})
  BY <1>5, <1>8
<1>10. v \in SemScript.vars
  BY SemScriptIs DEF SInv
<1>11. Sem!Has(0)
  BY <1>1, 0 \in Nat, SemOperands DEF SInv
<1>12. Sem!PushVar
  BY <1>9, <1>10, <1>11 DEF Sem!PushVar, SemScript, SemEnv
<1> QED
  BY <1>5, <1>12 DEF Sem!Next

(* The stack without what is at its top.                                   *)
LEMMA SemStackLess ==
  ASSUME SInv, SInv', Changes({}), Has(1), stack' = Below(1)
  PROVE  SemStack' = Sem!Below(1)
<1>1. PICK size \in Nat : size = Len(stack) /\ 1 <= size
  BY 1 \in Nat, HasParts DEF SInv
<1>2. PICK m \in 0..size : m = size - 1
  BY <1>1
<1>3. IsList(SemStack) /\ Len(SemStack) = size /\ \A j \in 1..size : SemStack[j] = OperandOf(Funs, stack[j])
  BY <1>1, SemStackList DEF SInv
<1>4. /\ IsList(SubSeq(SemStack, 1, m)) /\ Len(SubSeq(SemStack, 1, m)) = m
      /\ \A i \in 1..m : SubSeq(SemStack, 1, m)[i] = SemStack[i]
  BY <1>3, ListSplit
<1>5. Sem!Below(1) = SubSeq(SemStack, 1, m)
  <2>1. Sem!Below(1) = SubSeq(SemStack, 1, Len(SemStack) - 1)
    BY 1 \in Nat, SemOperands DEF SInv
  <2> QED
    BY <1>2, <1>3, <2>1
<1>6. IsList(stack) /\ DOMAIN stack = 1..size
  BY <1>1, ListFinite DEF SInv, IInv, Cells
<1>7. /\ IsList(SubSeq(stack, 1, m)) /\ Len(SubSeq(stack, 1, m)) = m
      /\ \A i \in 1..m : SubSeq(stack, 1, m)[i] = stack[i]
  BY <1>1, <1>6, ListSplit
<1>8. IsList(stack') /\ Len(stack') = m /\ \A i \in 1..m : stack'[i] = stack[i]
  BY <1>1, <1>2, <1>7 DEF Below
<1>9. DOMAIN stack' = 1..m
  BY <1>8, ListFinite
<1>10. PICK S, A : S = SemStack' /\ A = Sem!Below(1)
  OBVIOUS
<1>11. S = [j \in 1..m |-> OperandOf(Funs', stack'[j])]
  BY <1>8, <1>10, SemStacks
<1>12. S = [j \in 1..m |-> S[j]]
  BY <1>11
<1>13. IsList(S) /\ Len(S) = m
  BY <1>12, ListOf
<1>14. ASSUME NEW j \in 1..m PROVE S[j] = A[j]
  <2>1. j \in DOMAIN stack /\ j \in DOMAIN stack' /\ j \in 1..size
    BY <1>6, <1>9
  <2>2. stack'[j] = stack[j]
    BY <1>8
  <2>3. OperandOf(Funs', stack'[j]) = OperandOf(Funs, stack[j])
    BY <2>1, <2>2, StackKept
  <2> QED
    BY <1>3, <1>4, <1>5, <1>10, <1>11, <2>1, <2>3
<1>15. IsList(A) /\ Len(A) = m
  <2>1. A = SubSeq(SemStack, 1, m)
    BY <1>5, <1>10
  <2> QED
    BY <1>4, <2>1
<1>16. S = A
  <2>1. m \in Nat
    BY <1>2
  <2> QED
    BY <1>13, <1>14, <1>15, <2>1, ListsEqual
<1> QED
  BY <1>10, <1>16

LEMMA PopSem ==
  ASSUME SInv, IInv', Pop
  PROVE  SInv' /\ Sem!Next
<1>1. Has(1) /\ stack' = Below(1) /\ partials' = partials /\ UNCHANGED <<script, env, status>>
  BY DEF Pop, Do
<1>2. Changes({}) /\ SInv'
  BY <1>1, SameChanges, ChangesKeep
<1>3. SemStack' = Sem!Below(1) /\ SemEnv' = SemEnv /\ SemScript' = SemScript
  BY <1>1, <1>2, SemStackLess, EnvKept
<1>4. Sem!Has(1)
  BY <1>1, 1 \in Nat, SemOperands DEF SInv
<1>5. SemStatus' = SemStatus
  BY <1>1 DEF SemStatus
<1>6. Sem!Pop
  BY <1>3, <1>4, <1>5 DEF Sem!Pop, SemStack, SemEnv, SemScript, SemStatus
<1> QED
  BY <1>2, <1>6 DEF Sem!Next

LEMMA WriteVarSem ==
  ASSUME SInv, IInv', WriteVar
  PROVE  SInv' /\ Sem!Next
<1>1. PICK v \in script.vars : env' = [env EXCEPT ![v] = Operand(0)]
  BY DEF WriteVar
<1>2. /\ Values(1) /\ stack' = Below(1) /\ partials' = partials /\ script' = script /\ status' = status
      /\ 1 \in Nat /\ 0 \in 0..(1 - 1)
  BY DEF WriteVar
<1>3. PICK c, b : IsOperand(0, c, b)
  BY <1>2, TheOperand
<1>4. Has(1) /\ c = Operand(0) /\ b = Sem!Operand(0) /\ IsValueCell(c) /\ b = Of(Funs, c)
  BY <1>2, <1>3, ShownAsCell DEF IsOperand, Values
<1>5. Changes({}) /\ SInv' /\ Funs' = Funs
  BY <1>2, SameChanges, ChangesKeep, FunsSame
<1>6. SemStack' = Sem!Below(1)
  BY <1>2, <1>4, <1>5, SemStackLess
<1>7. SemStatus' = SemStatus
  BY <1>2 DEF SemStatus
<1>8. SemScript' = SemScript
  <2>1. \A d \in script.values : SemCell(d)' = SemCell(d)
    BY <1>5, CellIs, CellIsNext
  <2>2. SemScript' = [script EXCEPT !.values = {SemCell(d)' : d \in @}]
    BY <1>2 DEF SemScript
  <2> QED
    BY <2>1, <2>2 DEF SemScript
<1>9. DOMAIN env = script.vars
  BY DEF SInv, IInv
<1>10. SemEnv' = [SemEnv EXCEPT ![v] = b]
  <2>1. SemEnv' = [u \in script.vars |-> Of(Funs, env'[u])]
    BY <1>2, <1>5, CellIsNext DEF SemEnv
  <2>2. SemEnv = [u \in script.vars |-> Of(Funs, env[u])]
    BY CellIs DEF SemEnv
  <2>3. env'[v] = c /\ \A u \in script.vars \ {v} : env'[u] = env[u]
    BY <1>1, <1>4, <1>9
  <2> QED
    BY <1>4, <2>1, <2>2, <2>3
<1>11. Sem!Has(1)
  BY <1>2, <1>4, SemOperands DEF SInv
<1>12. v \in SemScript.vars
  BY SemScriptIs DEF SInv
<1>13. Sem!WriteVar
  BY <1>4, <1>6, <1>7, <1>8, <1>10, <1>11, <1>12 DEF Sem!WriteVar, SemStack, SemEnv, SemScript, SemStatus
<1> QED
  BY <1>5, <1>13 DEF Sem!Next

-----------------------------------------------------------------------------
(* Every step.                                                             *)

(* Nothing OperandSem has changes when no more than counts do.             *)
LEMMA Stutters ==
  ASSUME SInv, IInv', Changes({}), UNCHANGED <<script, env, stack, status>>
  PROVE  SInv' /\ UNCHANGED (Sem!vars)
<1>1. SInv'
  BY ChangesKeep
<1>2. SemEnv' = SemEnv /\ SemScript' = SemScript
  BY <1>1, EnvKept
<1>3. PICK size \in Nat : size = Len(stack) /\ DOMAIN stack = 1..size
  BY ListFinite DEF SInv, IInv, Cells
<1>4. \A j \in 1..size : OperandOf(Funs', stack'[j]) = OperandOf(Funs, stack[j])
  <2> TAKE j \in 1..size
  <2>1. j \in DOMAIN stack /\ j \in DOMAIN stack' /\ stack'[j] = stack[j]
    BY <1>3
  <2> QED
    BY <1>1, <2>1, StackKept
<1>5. SemStack' = SemStack
  <2>1. SemStack' = [j \in 1..size |-> OperandOf(Funs', stack'[j])]
    BY <1>3, SemStacks
  <2>2. SemStack = [j \in 1..size |-> OperandOf(Funs, stack[j])]
    BY <1>3, SemStacks
  <2> QED
    BY <1>4, <2>1, <2>2
<1>6. SemStatus' = SemStatus
  BY DEF SemStatus
<1> QED
  BY <1>1, <1>2, <1>5, <1>6 DEF Sem!vars, SemStack, SemEnv, SemScript, SemStatus

LEMMA ReleaseSem ==
  ASSUME SInv, IInv', Release
  PROVE  SInv' /\ UNCHANGED (Sem!vars)
<1>1. UNCHANGED <<script, env, stack, status>>
  BY DEF Release
<1>2. PICK h, id : h = Head(drop) /\ id = N(h)
  OBVIOUS
<1>3. Changes({})
  <2>1. CASE h.k # "partial"
    <3>1. partials' = partials
      BY <1>2, <2>1 DEF Release
    <3> QED
      BY <3>1, SameChanges
  <2>2. CASE h.k = "partial"
    <3>1. PICK p, q : p = partials[id] /\ q = OneLess(p)
      OBVIOUS
    <3>2. partials' = [partials EXCEPT ![id] = q]
      BY <1>2, <2>2, <3>1 DEF Release
    <3>3. DOMAIN partials = PartialIds
      BY DEF SInv, IInv, PartialsOK
    <3>4. ASSUME id \in PartialIds, p # Dead PROVE q = Dead \/ Same(p, q)
      <4>1. p = [rc |-> p.rc, f |-> p.f, nargs |-> p.nargs, slots |-> p.slots]
        BY <3>1, <3>4, AlivePartial DEF SInv
      <4> QED
        BY <3>1, <4>1 DEF OneLess, Same
    <3>5. ASSUME NEW r \in PartialIds
          PROVE  partials'[r] = Dead \/ (partials[r] # Dead /\ Same(partials[r], partials'[r]))
      <4>1. CASE r # id
        BY <3>2, <3>3, <4>1 DEF Same
      <4>2. CASE r = id /\ p # Dead
        BY <3>1, <3>2, <3>3, <3>4, <4>2
      <4>3. CASE r = id /\ p = Dead
        <5>1. IsValueCell(h) /\ Present(h)
          <6>1. (h = None \/ WellMade(h)) /\ h = drop[1] /\ 1 \in DOMAIN drop
            <7>1. 1 \in DOMAIN <<h>>
              BY OneElement
            <7> QED
              BY <1>2, <7>1, ReleaseParts DEF SInv
          <6>2. IsValueCell(h)
            BY <2>2, <6>1, CellFields DEF WellMade
          <6> QED
            BY <6>1, <6>2, CellPresent DEF SInv
        <5> QED
          BY <1>2, <2>2, <3>1, <4>3, <5>1 DEF Present
      <4> QED
        BY <4>1, <4>2, <4>3
    <3> QED
      BY <3>5 DEF Changes
  <2> QED
    BY <2>1, <2>2
<1> QED
  BY <1>1, <1>3, Stutters

LEMMA StepSem ==
  ASSUME SInv, IInv', Next
  PROVE  SInv' /\ (Sem!Next \/ UNCHANGED (Sem!vars))
<1>1. CASE Release
  BY <1>1, ReleaseSem
<1>2. CASE Push
  BY <1>2, PushSem
<1>3. CASE PushVar
  BY <1>3, PushVarSem
<1>4. CASE WriteVar
  BY <1>4, WriteVarSem
<1>5. CASE Pop
  BY <1>5, PopSem
<1>6. CASE Arith
  BY <1>6, ArithSem
<1>7. CASE Neg
  BY <1>7, NegSem
<1>8. CASE Cmp
  BY <1>8, CmpSem
<1>9. CASE CmpOp
  BY <1>9, CmpOpSem
<1>10. CASE Not
  BY <1>10, NotSem
<1>11. CASE AppendOp
  BY <1>11, AppendOpSem
<1>12. CASE Get
  BY <1>12, GetSem
<1>13. CASE Slice
  BY <1>13, SliceSem
<1>14. CASE CreateArray
  BY <1>14, CreateArraySem
<1>15. CASE In
  BY <1>15, InSem
<1>16. CASE CreateClosure
  BY <1>16, CreateClosureSem
<1>17. CASE Apply
  BY <1>17, ApplySem
<1>18. CASE Call
  BY <1>18, CallSem
<1> QED
  BY <1>1, <1>2, <1>3, <1>4, <1>5, <1>6, <1>7, <1>8, <1>9, <1>10, <1>11, <1>12,
     <1>13, <1>14, <1>15, <1>16, <1>17, <1>18 DEF Next

LEMMA FirstSem == Init /\ IInv => SInv /\ Sem!Init
<1> SUFFICES ASSUME Init, IInv PROVE SInv /\ Sem!Init
  OBVIOUS
<1>1. \A p \in PartialIds : partials[p] = Dead
  BY DEF Init
<1>2. Live = {}
  BY <1>1 DEF Live
<1>3. Ordered(partials)
  BY <1>1, DeadHolds, OrderedFirst
<1>4. SInv
  BY <1>2, <1>3 DEF SInv, AllHold
<1>5. SemStack = <<>>
  <2>1. stack = <<>>
    BY DEF Init
  <2>2. 0 \in Nat /\ 0 = Len(stack)
    BY <2>1, EmptyList
  <2>3. IsList(SemStack) /\ Len(SemStack) = 0
    BY <2>2, SemStackList
  <2>4. \A i \in 1..0 : SemStack[i] = <<>>[i]
    OBVIOUS
  <2> QED
    BY <2>3, <2>4, 0 \in Nat, EmptyList, ListsEqual
<1>6. SemStatus = "ok"
  BY DEF Init, SemStatus
<1>7. SemEnv = [v \in script.vars |-> Null]
  <2>1. \A v \in script.vars : SemCell(env[v]) = Null
    BY CellFields DEF Init, SemCell
  <2> QED
    BY <2>1 DEF SemEnv
<1>8. SemScript.vars = script.vars
  BY SemScriptIs
<1>9. SemEnv = [v \in SemScript.vars |-> Sem!Null]
  BY <1>7, <1>8 DEF Null, Sem!Null, Cell, Sem!Cell
<1>10. Sem!Init
  BY <1>5, <1>6, <1>9 DEF Sem!Init, SemStack, SemEnv, SemScript, SemStatus
<1> QED
  BY <1>4, <1>10

LEMMA NextSem == SInv /\ IInv' /\ [Next]_vars => SInv' /\ [Sem!Next]_(Sem!vars)
<1> SUFFICES ASSUME SInv, IInv', [Next]_vars PROVE SInv' /\ [Sem!Next]_(Sem!vars)
  OBVIOUS
<1>1. CASE Next
  BY <1>1, StepSem
<1>2. CASE UNCHANGED vars
  <2>1. partials' = partials /\ UNCHANGED <<script, env, stack, status>>
    BY <1>2 DEF vars
  <2> QED
    BY <2>1, SameChanges, Stutters
<1> QED
  BY <1>1, <1>2

(* Every step of the code's representation, with its shared strings, its   *)
(* counts, the bytes behind the ends of strings and the slots of partial   *)
(* applications, has an outcome that OperandSem allows: scripts see values. *)
THEOREM OperandsImplement == Spec => ImplementsOperandSem
<1>1. Init /\ IInv => SInv /\ Sem!Init
  BY FirstSem
<1>2. SInv /\ IInv' /\ [Next]_vars => SInv' /\ [Sem!Next]_(Sem!vars)
  BY NextSem
<1>3. ImplementsOperandSem <=> Sem!Init /\ [][Sem!Next]_(Sem!vars)
  BY DEF ImplementsOperandSem, Sem!Spec
<1> QED
  BY <1>1, <1>2, <1>3, Invariant, PTL DEF Spec
=============================================================================
