------------------------------ MODULE VMProofs ------------------------------
(***************************************************************************)
(* What VMShape states of the stack machine, proved for every well-shaped  *)
(* program, every capacity of the stack and any number of scripts.         *)
(***************************************************************************)
EXTENDS VMShape, SequenceTheorems, TLAPS

(* The running frame of a stack m that ends at "end", and a suspended one. *)
Runs(m, fr, end) ==
  /\ FitsRunning(fr, end)
  /\ HasOperands(m, fr, Expects(fr), Len(Expects(fr)))
  /\ HasVariables(m, fr)

Waits(m, fr, end) ==
  /\ FitsWaiting(fr, end)
  /\ HasOperands(m, fr, Awaits(fr), Len(Awaits(fr)))
  /\ HasVariables(m, fr)

(* Cells of the kinds "kinds", for frame fr.                               *)
AreOf(cells, kinds, fr) ==
  /\ Len(cells) = Len(kinds)
  /\ \A i \in 1..Len(kinds) : Conforms(cells[i], kinds[i], fr)

(* Two stacks that differ in variables of fr only, which stay values.      *)
SetsVariables(m, m1, fr) ==
  \A i \in Addr : \/ m1[i] = m[i]
                  \/ m1[i] \in Values /\ \E p \in VarPos(fr.f) : i = fr.bp + p

(* An instruction of frame fr that takes operands of the kinds "need" from *)
(* m, writes at most variables, giving m1, and leaves the cells new, of    *)
(* the kinds "give", leads along an edge of the shapes to target.          *)
Moves(m, fr, need, give, new, target, m1) ==
  /\ need \in Seq(Kind) /\ give \in Seq(Kind) /\ new \in Seq(Cell)
  /\ target \in DOMAIN Code[fr.f] /\ m1 \in [Addr -> Cell]
  /\ Edge(Expects(fr), need, give, Shape[fr.f][target])
  /\ AreOf(new, give, fr)
  /\ SetsVariables(m, m1, fr)

(* A stack m of s cells and the frames fs on it.                           *)
Fits(m, s, fs) ==
  /\ m \in [Addr -> Cell]
  /\ s \in 0..StackSize
  /\ fs \in Seq(Frame)
  /\ Len(fs) > 0
  /\ fs[1].bp = 0 /\ fs[1].f \in Main
  /\ Runs(m, fs[Len(fs)], s)
  /\ \A k \in 1..(Len(fs) - 1) : Waits(m, fs[k], fs[k + 1].bp)
  /\ \A j, k \in 1..Len(fs) : j <= k => fs[j].bp <= fs[k].bp

(* The inductive invariant.  Nothing more is said of a machine on which a  *)
(* script was run over the frames of a failed one.                         *)
IInv ==
  history # "stale" =>
    /\ TypeOK
    /\ CleanWhenIdle
    /\ NoMisuse
    /\ status = "idle" /\ frames = <<>> => sp = 0
    /\ status = "idle" /\ frames # <<>> => Top.bp - 1 <= sp
    /\ status = "running" => Fits(stack, sp, frames)

(* A step that leaves every cell below the slot of the running frame's     *)
(* result alone, unless the script ends.                                   *)
Untouched ==
  \A i \in Addr :
    (frames # <<>> /\ i < Top.bp - 1 /\ frames' # <<>>) => stack'[i] = stack[i]

-----------------------------------------------------------------------------
(* Cells and kinds.                                                        *)

(* Every value is a cell; a function among them has no captures.           *)
LEMMA ValueCells ==
  /\ Values \subseteq Cell
  /\ Plain \in Values /\ None \in Values
  /\ \A c \in Values : c.k = "func" =>
       c.f \in Func \ Main /\ Caps[c.f] = 0 /\ c = FuncCell(c.f)
  /\ \A c \in Values : c.k = "partial" => c.f \in Func \ Main /\ c.n \in 0..Args[c.f]
  /\ \A g \in Func : \A n \in 0..Args[g] : g \notin Main => PartialCell(g, n) \in Values
<1>1. Values \subseteq Cell
  BY DEF Values, Cell, Plain, None, FuncValues, FuncCell, Partials, PartialCell
<1>2. Plain \in Values /\ None \in Values
  BY DEF Values
<1>3. \A c \in Values : c.k = "func" =>
       c.f \in Func \ Main /\ Caps[c.f] = 0 /\ c = FuncCell(c.f)
  BY DEF Values, Plain, None, FuncValues, FuncCell, Partials, PartialCell
<1>4. \A c \in Values : c.k = "partial" => c.f \in Func \ Main /\ c.n \in 0..Args[c.f]
  BY DEF Values, Plain, None, FuncValues, FuncCell, Partials, PartialCell
<1>5. \A g \in Func : \A n \in 0..Args[g] : g \notin Main => PartialCell(g, n) \in Values
  BY DEF Values, Partials
<1> QED BY <1>1, <1>2, <1>3, <1>4, <1>5

(* A cell of a kind will do wherever Sub lets the kind stand.              *)
LEMMA SubConforms ==
  ASSUME NEW c, NEW k \in Kind, NEW l \in Kind, NEW fr, Sub(k, l), Conforms(c, k, fr)
  PROVE  Conforms(c, l, fr)
<1>1. CASE k = l
  BY <1>1
<1>2. CASE l = "val" /\ k \in Func /\ FuncCell(k) \in FuncValues
  <2>1. c = FuncCell(k)
    BY <1>2, KindAssumption DEF Conforms
  <2> QED BY <1>2, <2>1 DEF Conforms, Values
<1> QED BY <1>1, <1>2 DEF Sub

(* What a conforming cell is.                                              *)
LEMMA ConformsCell ==
  ASSUME NEW c, NEW k \in Kind, NEW fr \in Frame, Conforms(c, k, fr)
  PROVE  c \in Cell
<1>1. CASE k = "val"
  BY <1>1, ValueCells DEF Conforms
<1>2. CASE k = "iter"
  BY <1>2 DEF Conforms, Iter, Cell
<1>3. CASE k = "borrow"
  <2>1. VarPos(fr.f) \subseteq Int
    BY DEF VarPos, Fixed, LocalPos, ConstPos, Frame
  <2> QED BY <1>3, <2>1 DEF Conforms, BorrowCell, Cell, InHeap, Frame
<1>4. CASE k \in Func
  BY <1>4, KindAssumption DEF Conforms, FuncCell, Cell
<1> QED BY <1>1, <1>2, <1>3, <1>4 DEF Kind

(* Where the cells of Splice come from.                                    *)
LEMMA SpliceCells ==
  ASSUME NEW m, NEW at \in Nat, NEW new \in Seq(Cell), m \in [Addr -> Cell]
  PROVE  /\ Splice(m, at, new) \in [Addr -> Cell]
         /\ \A i \in Addr : i < at => Splice(m, at, new)[i] = m[i]
         /\ \A i \in 1..Len(new) :
              at + i - 1 \in Addr => Splice(m, at, new)[at + i - 1] = new[i]
<1> DEFINE s == Splice(m, at, new)
<1>1. ASSUME NEW i \in Addr PROVE s[i] \in Cell
  <2>1. CASE i < at
    BY <1>1, <2>1 DEF Splice
  <2>2. CASE ~(i < at) /\ i < at + Len(new)
    <3>1. i - at + 1 \in 1..Len(new)
      BY <1>1, <2>2, MachineAssumption DEF Addr
    <3> QED BY <1>1, <2>2, <3>1 DEF Splice
  <2>3. CASE ~(i < at) /\ ~(i < at + Len(new))
    BY <1>1, <2>3 DEF Splice, Dead, Cell
  <2> QED BY <2>1, <2>2, <2>3
<1>2. s \in [Addr -> Cell]
  BY <1>1 DEF Splice
<1>3. \A i \in Addr : i < at => s[i] = m[i]
  BY DEF Splice
<1>4. ASSUME NEW i \in 1..Len(new), at + i - 1 \in Addr
      PROVE  s[at + i - 1] = new[i]
  BY <1>4 DEF Splice
<1> QED BY <1>2, <1>3, <1>4

(* Sizes of a frame's parts.                                               *)
LEMMA FrameSizes ==
  ASSUME NEW f \in Func
  PROVE  /\ ConstPos(f) \in Nat /\ LocalPos(f) \in Nat /\ Fixed(f) \in Nat
         /\ ConstPos(f) = Args[f] + Caps[f]
         /\ ConstPos(f) + Len(Consts[f]) = LocalPos(f)
         /\ LocalPos(f) + Locals[f] = Fixed(f)
         /\ VarPos(f) \subseteq 0..(Fixed(f) - 1)
BY ProgramAssumption, ConstsAssumption DEF ConstPos, LocalPos, Fixed, VarPos

-----------------------------------------------------------------------------
(* Frames on a stack.                                                      *)

(* The parts of a frame are where the sizes of its function put them.      *)
LEMMA FrameParts ==
  ASSUME NEW fr \in Frame
  PROVE  /\ fr.f \in Func /\ fr.pc \in Nat /\ fr.bp \in Nat
         /\ Base(fr) \in Nat /\ Fixed(fr.f) \in Nat
         /\ Base(fr) = fr.bp + Fixed(fr.f)
         /\ VarPos(fr.f) \subseteq 0..(Fixed(fr.f) - 1)
BY FrameSizes DEF Frame, Base

(* The shape of a code position is a sequence of kinds.                    *)
LEMMA ShapeKinds ==
  ASSUME WellShaped, NEW f \in Func, NEW pc \in DOMAIN Code[f]
  PROVE  /\ Shape[f][pc] \in Seq(Kind) /\ Len(Shape[f][pc]) \in Nat
         /\ \A i \in 1..Len(Shape[f][pc]) : Shape[f][pc][i] \in Kind
         /\ WellShapedAt(f, pc)
         /\ pc \in Nat /\ Code[f][pc] \in Instruction
<1>1. Shape[f][pc] \in Seq(Kind) /\ WellShapedAt(f, pc)
  BY DEF WellShaped
<1>2. pc \in Nat /\ Code[f][pc] \in Instruction
  BY ProgramAssumption, ElementOfSeq, LenProperties
<1> QED BY <1>1, <1>2, LenProperties, ElementOfSeq

(* A suspended frame does not see what changes above its operands.         *)
LEMMA WaitsKept ==
  ASSUME WellShaped, NEW fr \in Frame, NEW end \in Nat, end <= StackSize,
         NEW m, NEW m2, Waits(m, fr, end),
         \A i \in Addr : i < end => m2[i] = m[i]
  PROVE  Waits(m2, fr, end)
<1>1. /\ fr.bp \in Nat /\ Base(fr) \in Nat /\ Fixed(fr.f) \in Nat
      /\ Base(fr) = fr.bp + Fixed(fr.f)
  BY FrameParts
<1>2. Len(Awaits(fr)) \in Nat /\ Awaits(fr) \in Seq(Kind)
  BY FrameParts, ShapeKinds DEF Waits, FitsWaiting, Awaits
<1>3. Len(Awaits(fr)) > 0 /\ Base(fr) + Len(Awaits(fr)) = end
  BY <1>2, EmptySeq DEF Waits, FitsWaiting
<1>4. \A i \in 0..(end - 1) : m2[i] = m[i]
  BY MachineAssumption DEF Addr
<1>5. HasOperands(m2, fr, Awaits(fr), Len(Awaits(fr)))
  <2> SUFFICES ASSUME NEW i \in 1..Len(Awaits(fr))
               PROVE  Conforms(m2[Base(fr) + i - 1], Awaits(fr)[i], fr)
    BY DEF HasOperands
  <2>1. Conforms(m[Base(fr) + i - 1], Awaits(fr)[i], fr)
    BY DEF Waits, HasOperands
  <2>2. Base(fr) + i - 1 \in 0..(end - 1)
    BY <1>1, <1>2, <1>3
  <2> QED BY <1>4, <2>1, <2>2
<1>6. HasVariables(m2, fr)
  <2>1. \A i \in 0..(Fixed(fr.f) - 1) : fr.bp + i \in 0..(end - 1)
    BY <1>1, <1>2, <1>3
  <2> QED BY <1>4, <2>1 DEF Waits, HasVariables
<1> QED BY <1>5, <1>6 DEF Waits

(* From m and fs to m2 and fs2 nothing changes below the cells of frame j, *)
(* which still runs on s2 cells or waits for one frame above it.           *)
SameBelow(m, fs, j, m2, s2, fs2) ==
  /\ j \in 1..Len(fs)
  /\ m2 \in [Addr -> Cell] /\ s2 \in 0..StackSize /\ fs2 \in Seq(Frame)
  /\ Len(fs2) = j \/ Len(fs2) = j + 1
  /\ \A i \in 1..(j - 1) : fs2[i] = fs[i]
  /\ fs2[j].f = fs[j].f /\ fs2[j].bp = fs[j].bp
  /\ \A i \in Addr : i < fs[j].bp => m2[i] = m[i]
  /\ Runs(m2, fs2[Len(fs2)], s2)
  /\ Len(fs2) = j + 1 => /\ Waits(m2, fs2[j], fs2[j + 1].bp)
                         /\ fs2[j].bp <= fs2[j + 1].bp

(* The frames below frame j stay as they are as long as their cells do,    *)
(* whatever becomes of frame j and above.                                  *)
LEMMA FramesBelow ==
  ASSUME WellShaped,
         NEW m, NEW s, NEW fs, Fits(m, s, fs),
         NEW j, NEW m2, NEW s2, NEW fs2, SameBelow(m, fs, j, m2, s2, fs2)
  PROVE  Fits(m2, s2, fs2)
<1>1. /\ j \in 1..Len(fs)
      /\ m2 \in [Addr -> Cell] /\ s2 \in 0..StackSize /\ fs2 \in Seq(Frame)
      /\ Len(fs2) = j \/ Len(fs2) = j + 1
      /\ \A i \in 1..(j - 1) : fs2[i] = fs[i]
      /\ fs2[j].f = fs[j].f /\ fs2[j].bp = fs[j].bp
  BY DEF SameBelow
<1>2. \A i \in Addr : i < fs[j].bp => m2[i] = m[i]
  BY DEF SameBelow
<1>3. /\ Runs(m2, fs2[Len(fs2)], s2)
      /\ Len(fs2) = j + 1 => /\ Waits(m2, fs2[j], fs2[j + 1].bp)
                             /\ fs2[j].bp <= fs2[j + 1].bp
  BY DEF SameBelow
<1>4. fs \in Seq(Frame) /\ Len(fs) \in Nat /\ Len(fs2) \in Nat /\ j \in Nat /\ j >= 1
  <2>1. fs \in Seq(Frame)
    BY DEF Fits
  <2> QED BY <1>1, <2>1, LenProperties
<1>5. /\ \A k \in 1..Len(fs) : fs[k] \in Frame
      /\ \A k \in 1..Len(fs2) : fs2[k] \in Frame
  BY <1>1, <1>4, ElementOfSeq
<1>6. /\ \A k \in 1..Len(fs) : fs[k].bp \in Nat
      /\ \A k \in 1..Len(fs2) : fs2[k].bp \in Nat
  BY <1>5 DEF Frame
<1>7. \A i \in 1..j : fs2[i].f = fs[i].f /\ fs2[i].bp = fs[i].bp
  <2>1. \A i \in 1..j : i \in 1..(j - 1) \/ i = j
    BY <1>4
  <2> QED BY <1>1, <2>1
<1>8. fs2[1].bp = 0 /\ fs2[1].f \in Main /\ Len(fs2) > 0
  <2>1. 1 \in 1..j /\ Len(fs2) > 0
    BY <1>1, <1>4
  <2> QED BY <1>7, <2>1 DEF Fits
<1>9. \A k, l \in 1..Len(fs) : k <= l => fs[k].bp <= fs[l].bp
  BY DEF Fits
<1>10. j \in 1..Len(fs) /\ Len(fs) \in 1..Len(fs) /\ \A k \in 1..j : k \in 1..Len(fs)
  BY <1>1, <1>4
<1>11. ASSUME NEW k \in 1..(j - 1)
       PROVE  Waits(m2, fs2[k], fs2[k + 1].bp)
  <2>1. /\ k \in 1..Len(fs) /\ k \in 1..j /\ k + 1 \in 1..Len(fs) /\ k + 1 \in 1..j
        /\ k \in 1..(Len(fs) - 1) /\ k + 1 <= j /\ j <= Len(fs)
    BY <1>1, <1>4
  <2>2. fs2[k] = fs[k] /\ fs2[k + 1].bp = fs[k + 1].bp /\ fs[k + 1].bp <= fs[j].bp
    BY <1>1, <1>7, <1>9, <2>1
  <2>3. Waits(m, fs[k], fs[k + 1].bp)
    BY <2>1 DEF Fits
  <2>4. fs[k] \in Frame /\ fs[k + 1].bp \in Nat /\ fs[j].bp \in Nat /\ fs[Len(fs)].bp \in Nat
    BY <1>5, <1>6, <1>10, <2>1
  <2>5. fs[k + 1].bp <= StackSize
    <3>1. fs[j].bp <= fs[Len(fs)].bp /\ fs[Len(fs)] \in Frame
      BY <1>5, <1>9, <1>10, <2>1
    <3>2. FitsRunning(fs[Len(fs)], s) /\ s \in 0..StackSize
      BY DEF Fits, Runs
    <3>3. Len(Expects(fs[Len(fs)])) \in Nat
      BY <3>1, <3>2, FrameParts, ShapeKinds DEF FitsRunning, Expects
    <3>4. fs[Len(fs)].bp <= s
      BY <3>1, <3>2, <3>3, FrameParts DEF FitsRunning
    <3> QED BY <2>2, <2>4, <3>1, <3>2, <3>4, MachineAssumption
  <2>6. \A i \in Addr : i < fs[k + 1].bp => m2[i] = m[i]
    <3>1. \A i \in Addr : i \in Int
      BY MachineAssumption DEF Addr
    <3> QED BY <1>2, <2>2, <2>4, <3>1
  <2> QED BY <2>2, <2>3, <2>4, <2>5, <2>6, WaitsKept
<1>12. ASSUME NEW k \in 1..Len(fs2), NEW l \in 1..Len(fs2), k <= l
       PROVE  fs2[k].bp <= fs2[l].bp
  <2>1. CASE l <= j
    <3>1. k \in 1..j /\ l \in 1..j
      BY <1>4, <1>12, <2>1
    <3> QED BY <1>7, <1>9, <1>10, <1>12, <3>1
  <2>2. CASE l = j + 1 /\ k <= j
    <3>1. k \in 1..j /\ j \in 1..j /\ Len(fs2) = j + 1
      BY <1>1, <1>4, <2>2
    <3>2. fs[k].bp <= fs[j].bp
      BY <1>9, <1>10, <2>2, <3>1
    <3>3. fs2[k].bp <= fs2[j].bp /\ fs2[j].bp <= fs2[l].bp
      BY <1>3, <1>7, <2>2, <3>1, <3>2
    <3>4. fs2[k].bp \in Int /\ fs2[l].bp \in Int /\ fs2[j].bp \in Int
      <4>1. j \in 1..Len(fs2)
        BY <1>4, <3>1
      <4> QED BY <1>6, <4>1
    <3> QED BY <3>3, <3>4
  <2>3. CASE l = j + 1 /\ k = j + 1
    BY <1>6, <2>3
  <2>4. l <= j \/ l = j + 1
    BY <1>1, <1>4
  <2>5. k <= j \/ k = j + 1
    BY <1>1, <1>4
  <2> QED BY <2>1, <2>2, <2>3, <2>4, <2>5
<1>13. ASSUME NEW k \in 1..(Len(fs2) - 1) PROVE Waits(m2, fs2[k], fs2[k + 1].bp)
  <2>1. k \in 1..(j - 1) \/ (k = j /\ Len(fs2) = j + 1)
    BY <1>1, <1>4
  <2> QED BY <1>3, <1>11, <2>1
<1> QED BY <1>1, <1>3, <1>8, <1>12, <1>13 DEF Fits

(* Moving the code position of a frame moves nothing else of it.           *)
LEMMA MovedFrame ==
  ASSUME NEW fr \in Frame, NEW pc \in Nat
  PROVE  LET fr2 == [fr EXCEPT !.pc = pc] IN
         /\ fr2 \in Frame /\ fr2.f = fr.f /\ fr2.bp = fr.bp /\ fr2.pc = pc
         /\ Base(fr2) = Base(fr)
         /\ \A c, kind : Conforms(c, kind, fr2) <=> Conforms(c, kind, fr)
         /\ \A m, S, n : HasOperands(m, fr2, S, n) <=> HasOperands(m, fr, S, n)
         /\ \A m : HasVariables(m, fr2) <=> HasVariables(m, fr)
<1> DEFINE fr2 == [fr EXCEPT !.pc = pc]
<1>1. fr2 \in Frame /\ fr2.f = fr.f /\ fr2.bp = fr.bp /\ fr2.pc = pc
  BY DEF Frame
<1> HIDE DEF fr2
<1>2. Base(fr2) = Base(fr)
  BY <1>1 DEF Base
<1>3. ASSUME NEW c, NEW kind PROVE Conforms(c, kind, fr2) <=> Conforms(c, kind, fr)
  BY <1>1 DEF Conforms
<1>4. ASSUME NEW m, NEW S, NEW n
      PROVE  HasOperands(m, fr2, S, n) <=> HasOperands(m, fr, S, n)
  BY <1>2, <1>3 DEF HasOperands
<1>5. ASSUME NEW m PROVE HasVariables(m, fr2) <=> HasVariables(m, fr)
  BY <1>1 DEF HasVariables
<1> QED BY <1>1, <1>2, <1>3, <1>4, <1>5 DEF fr2

(* The operands an instruction leaves alone fit the shape it leads to.     *)
LEMMA OperandsKept ==
  ASSUME NEW fr, NEW m, NEW m2,
         NEW S \in Seq(Kind), NEW T \in Seq(Kind), NEW need \in Seq(Kind),
         NEW give \in Seq(Kind), NEW keep, keep = Len(S) - Len(need),
         Edge(S, need, give, T), HasOperands(m, fr, S, Len(S)),
         \A i \in 1..keep : m2[Base(fr) + i - 1] = m[Base(fr) + i - 1]
  PROVE  HasOperands(m2, fr, T, keep)
<1>1. /\ keep \in Nat /\ keep <= Len(S) /\ keep <= Len(T)
      /\ \A i \in 1..keep : Sub(S[i], T[i])
  <2>1. Len(S) \in Nat /\ Len(T) \in Nat /\ Len(need) \in Nat /\ Len(give) \in Nat
    BY LenProperties
  <2> QED BY <2>1 DEF Edge
<1> SUFFICES ASSUME NEW i \in 1..keep PROVE Conforms(m2[Base(fr) + i - 1], T[i], fr)
  BY DEF HasOperands
<1>2. i \in 1..Len(S) /\ i \in 1..Len(T)
  BY <1>1, LenProperties
<1>3. S[i] \in Kind /\ T[i] \in Kind
  BY <1>2, ElementOfSeq
<1>4. Conforms(m2[Base(fr) + i - 1], S[i], fr)
  BY <1>2 DEF HasOperands
<1> QED BY <1>1, <1>3, <1>4, SubConforms

(* Such an instruction leaves a frame that fits the position it goes to.   *)
LEMMA RunsOn ==
  ASSUME WellShaped,
         NEW fr \in Frame, NEW s \in 0..StackSize, NEW m, Runs(m, fr, s),
         NEW need, NEW give, NEW new, NEW target, NEW m1,
         Moves(m, fr, need, give, new, target, m1),
         s - Len(need) + Len(new) <= StackSize
  PROVE  LET at == s - Len(need) IN
         /\ at \in Nat /\ at + Len(new) \in 0..StackSize
         /\ Splice(m1, at, new) \in [Addr -> Cell]
         /\ \A i \in Addr : i < fr.bp => Splice(m1, at, new)[i] = m[i]
         /\ Runs(Splice(m1, at, new), [fr EXCEPT !.pc = target], at + Len(new))
<1>21. PICK at : at = s - Len(need)
  OBVIOUS
<1>18. /\ need \in Seq(Kind) /\ give \in Seq(Kind) /\ new \in Seq(Cell)
       /\ target \in DOMAIN Code[fr.f] /\ m1 \in [Addr -> Cell]
  BY DEF Moves
<1>19. AreOf(new, give, fr) /\ SetsVariables(m, m1, fr)
  BY DEF Moves
<1>20. Edge(Expects(fr), need, give, Shape[fr.f][target])
  BY DEF Moves
<1>1. PICK S, T, keep, base, m2, fr2, bp, fixed :
        /\ S = Expects(fr) /\ T = Shape[fr.f][target] /\ keep = Len(S) - Len(need)
        /\ base = Base(fr) /\ m2 = Splice(m1, at, new) /\ fr2 = [fr EXCEPT !.pc = target]
        /\ bp = fr.bp /\ fixed = Fixed(fr.f)
  OBVIOUS
<1>0. keep = Len(S) - Len(need) /\ base = Base(fr)
  BY <1>1
<1>2. /\ fr.f \in Func /\ fr.bp \in Nat /\ base \in Nat /\ Fixed(fr.f) \in Nat
      /\ base = fr.bp + Fixed(fr.f) /\ VarPos(fr.f) \subseteq 0..(Fixed(fr.f) - 1)
  BY <1>1, FrameParts
<1>3. /\ S \in Seq(Kind) /\ Len(S) \in Nat /\ base + Len(S) = s
      /\ HasOperands(m, fr, S, Len(S)) /\ HasVariables(m, fr)
  BY <1>1, <1>2, ShapeKinds DEF Runs, FitsRunning, Expects
<1>4. /\ T \in Seq(Kind) /\ target \in Nat
      /\ \A i \in 1..Len(T) : T[i] \in Kind
  BY <1>1, <1>2, <1>18, ShapeKinds
<1>5. /\ Len(need) \in Nat /\ Len(new) \in Nat
      /\ \A i \in 1..Len(new) : give[i] \in Kind
  BY <1>18, <1>19, LenProperties, ElementOfSeq DEF AreOf
<1>6. /\ keep \in Nat /\ Len(T) = keep + Len(new)
      /\ \A i \in 1..Len(new) : Sub(give[i], T[keep + i])
  BY <1>1, <1>3, <1>5, <1>19, <1>20 DEF Edge, AreOf
<1>7. at = base + keep /\ at \in Nat /\ at + Len(new) \in 0..StackSize
  <2>1. at = base + keep /\ at + Len(new) <= StackSize
    <3>4. at + Len(new) <= StackSize /\ at = s - Len(need)
      BY <1>21
    <3>1. s \in Int
      BY MachineAssumption
    <3>2. base \in Int /\ Len(S) \in Int /\ Len(need) \in Int /\ keep \in Int
      BY <1>2, <1>3, <1>5, <1>6
    <3>3. base + Len(S) = s /\ keep = Len(S) - Len(need)
      BY <1>0, <1>3
    <3> QED BY <3>1, <3>2, <3>3, <3>4
  <2>2. at \in Nat
    <3>1. base \in Nat /\ keep \in Nat /\ at = base + keep
      BY <1>2, <1>6, <2>1
    <3> QED BY ONLY <3>1
  <2>3. Len(new) \in Nat /\ StackSize \in Nat
    BY <1>5, MachineAssumption
  <2> QED BY ONLY <2>1, <2>2, <2>3
<1>15. /\ base \in Nat /\ keep \in Nat /\ at \in Nat /\ bp \in Nat /\ fixed \in Nat
       /\ at = base + keep /\ base = bp + fixed
  BY <1>1, <1>2, <1>6, <1>7
<1>16. bp <= base /\ base <= at
  BY <1>15
<1>17. bp = fr.bp /\ fixed = Fixed(fr.f) /\ VarPos(fr.f) \subseteq 0..(fixed - 1)
  BY <1>1, <1>2
<1>8. /\ m2 \in [Addr -> Cell]
      /\ \A i \in Addr : i < at => m2[i] = m1[i]
      /\ \A i \in 1..Len(new) : at + i - 1 \in Addr => m2[at + i - 1] = new[i]
  BY <1>1, <1>7, <1>18, SpliceCells
<1>9. \A i \in 0..(at - 1) : i \in Addr
  BY <1>5, <1>7, MachineAssumption DEF Addr
<1>10. \A i \in Addr : i < bp => m2[i] = m[i]
  <2> SUFFICES ASSUME NEW i \in Addr, i < bp PROVE m2[i] = m[i]
    OBVIOUS
  <2>0. i \in Int
    BY MachineAssumption DEF Addr
  <2>1. i < at
    BY <1>15, <1>16, <2>0
  <2>2. \A p \in 0..(fixed - 1) : i # bp + p
    BY <1>15, <2>0
  <2>3. m1[i] = m[i]
    BY <1>17, <1>19, <2>2 DEF SetsVariables
  <2> QED BY <1>8, <2>1, <2>3
<1>11. HasOperands(m2, fr, T, Len(T))
  <2>1. HasOperands(m2, fr, T, keep)
    <3>1. ASSUME NEW i \in 1..keep PROVE m2[base + i - 1] = m[base + i - 1]
      <4>0. base + i - 1 \in 0..(at - 1)
        <5>1. i \in Int /\ 1 <= i /\ i <= keep
          BY <1>15
        <5>2. base + i - 1 <= base + keep - 1 /\ 0 <= base + i - 1
          BY <1>15, <5>1
        <5> QED BY <1>15, <5>1, <5>2
      <4>1. base + i - 1 \in Addr /\ base + i - 1 < at
        BY <1>9, <4>0, <1>7
      <4>2. \A p \in 0..(fixed - 1) : base + i - 1 # bp + p
        BY <1>15
      <4>3. m1[base + i - 1] = m[base + i - 1]
        BY <1>17, <1>19, <4>1, <4>2 DEF SetsVariables
      <4> QED BY <1>8, <4>1, <4>3
    <3>2. Edge(S, need, give, T)
      BY <1>1, <1>20
    <3>3. HasOperands(m, fr, S, Len(S)) /\ S \in Seq(Kind) /\ T \in Seq(Kind)
      BY <1>3, <1>4
    <3> QED BY <1>18, <1>0, <3>1, <3>2, <3>3, OperandsKept
  <2>2. ASSUME NEW i \in 1..Len(T), ~(i <= keep)
        PROVE  Conforms(m2[base + i - 1], T[i], fr)
    <3>1. PICK j \in 1..Len(new) : i = keep + j
      <4>1. i - keep \in 1..Len(new) /\ i = keep + (i - keep)
        <5>1. /\ i \in 1..Len(T) /\ ~(i <= keep) /\ Len(T) = keep + Len(new)
              /\ keep \in Nat /\ Len(new) \in Nat
          BY <1>5, <1>6, <2>2
        <5> QED BY ONLY <5>1
      <4> QED BY <4>1
    <3>2. base + i - 1 = at + j - 1 /\ at + j - 1 \in Addr
      <4>1. base + i - 1 = at + j - 1
        <5>1. base \in Int /\ keep \in Int /\ at = base + keep /\ j \in Int
          BY <1>5, <1>15
        <5> QED BY <3>1, <5>1
      <4>2. at + j - 1 \in 0..(StackSize - 1)
        BY <1>5, <1>7, MachineAssumption
      <4> QED BY <4>1, <4>2 DEF Addr
    <3>3. m2[base + i - 1] = new[j]
      BY <1>8, <3>2
    <3>4. give[j] \in Kind /\ T[i] \in Kind /\ Sub(give[j], T[i])
      BY <1>4, <1>5, <1>6, <3>1
    <3>5. Conforms(new[j], give[j], fr)
      BY <1>5, <1>19 DEF AreOf
    <3> QED BY <3>3, <3>4, <3>5, SubConforms
  <2>3. Len(T) \in Nat
    BY <1>5, <1>6
  <2>4. ASSUME NEW i \in 1..Len(T) PROVE Conforms(m2[base + i - 1], T[i], fr)
    <3>1. CASE i <= keep
      <4>1. i \in 1..keep
        BY <1>6, <2>3, <3>1
      <4> QED BY <1>0, <2>1, <4>1 DEF HasOperands
    <3> QED BY <2>2, <3>1
  <2> QED BY <1>0, <2>4 DEF HasOperands
<1>12. HasVariables(m2, fr)
  <2> SUFFICES ASSUME NEW i \in 0..(fixed - 1)
               PROVE  IF i \in VarPos(fr.f) THEN m2[bp + i] \in Values
                      ELSE m2[bp + i] = Consts[fr.f][i - ConstPos(fr.f) + 1]
    BY <1>17 DEF HasVariables
  <2>0. bp + i \in 0..(at - 1)
    BY <1>15, <1>16
  <2>1. bp + i \in Addr /\ bp + i < at
    BY <1>7, <1>9, <2>0
  <2>2. m2[bp + i] = m1[bp + i]
    BY <1>8, <2>1
  <2>3. IF i \in VarPos(fr.f) THEN m[bp + i] \in Values
        ELSE m[bp + i] = Consts[fr.f][i - ConstPos(fr.f) + 1]
    BY <1>3, <1>17 DEF HasVariables
  <2>4. ASSUME m1[bp + i] # m[bp + i]
        PROVE  m1[bp + i] \in Values /\ i \in VarPos(fr.f)
    <3>1. m1[bp + i] \in Values /\ \E p \in VarPos(fr.f) : bp + i = bp + p
      BY <1>17, <1>19, <2>1, <2>4 DEF SetsVariables
    <3>2. \A p \in 0..(fixed - 1) : bp + i = bp + p => p = i
      BY <1>15
    <3> QED BY <1>17, <3>1, <3>2
  <2> QED BY <2>2, <2>3, <2>4
<1>13. Runs(m2, fr2, at + Len(new))
  <2>1. /\ fr2.f = fr.f /\ fr2.pc = target /\ Base(fr2) = base
        /\ HasOperands(m2, fr2, T, Len(T)) /\ HasVariables(m2, fr2)
    BY <1>1, <1>4, <1>11, <1>12, MovedFrame
  <2>2. Expects(fr2) = T
    BY <1>1, <2>1 DEF Expects
  <2>3. base + Len(T) = at + Len(new)
    <3>1. base + (keep + Len(new)) = base + keep + Len(new)
      BY <1>2, <1>5, <1>6
    <3> QED BY <1>6, <1>7, <3>1
  <2> QED BY <1>18, <2>1, <2>2, <2>3 DEF Runs, FitsRunning
<1> QED BY <1>1, <1>7, <1>8, <1>10, <1>13, <1>17, <1>21

(* The operands an instruction is about to take are of the kinds it needs. *)
LEMMA OperandsTaken ==
  ASSUME WellShaped,
         NEW fr \in Frame, NEW s \in 0..StackSize, NEW m, Runs(m, fr, s),
         NEW need \in Seq(Kind), NEW give \in Seq(Kind), NEW T \in Seq(Kind),
         Edge(Expects(fr), need, give, T)
  PROVE  /\ s - Len(need) \in Nat /\ Base(fr) <= s - Len(need) /\ fr.bp <= s - Len(need)
         /\ \A i \in 1..Len(need) : Conforms(m[s - Len(need) + i - 1], need[i], fr)
<1>1. PICK S, keep, base, ln : /\ S = Expects(fr) /\ keep = Len(S) - Len(need)
                               /\ base = Base(fr) /\ ln = Len(need)
  OBVIOUS
<1>2. fr.f \in Func /\ fr.bp \in Nat /\ base \in Nat /\ fr.bp <= base
  BY <1>1, FrameParts
<1>3. /\ S \in Seq(Kind) /\ Len(S) \in Nat /\ base + Len(S) = s
      /\ HasOperands(m, fr, S, Len(S))
  BY <1>1, <1>2, ShapeKinds DEF Runs, FitsRunning, Expects
<1>4. ln \in Nat /\ keep \in Nat /\ Len(S) = keep + ln /\ keep = Len(S) - ln
  BY <1>1, <1>3, LenProperties DEF Edge
<1>5. s - ln = base + keep /\ s \in Nat
  BY <1>2, <1>3, <1>4
<1>6. s - ln \in Nat /\ base <= s - ln /\ fr.bp <= s - ln
  BY <1>2, <1>4, <1>5
<1>7. ASSUME NEW i \in 1..ln PROVE Conforms(m[s - ln + i - 1], need[i], fr)
  <2>1. keep + i \in 1..Len(S) /\ base + (keep + i) - 1 = s - ln + i - 1
    BY <1>2, <1>4, <1>5
  <2>2. Conforms(m[base + (keep + i) - 1], S[keep + i], fr)
    BY <1>1, <1>3, <2>1 DEF HasOperands
  <2>3. Sub(S[keep + i], need[i])
    BY <1>1 DEF Edge
  <2>4. S[keep + i] \in Kind /\ need[i] \in Kind
    BY <1>1, <1>3, <2>1, ElementOfSeq
  <2> QED BY <2>1, <2>2, <2>3, <2>4, SubConforms
<1> QED BY <1>1, <1>6, <1>7

(* A frame that gives its operands to a callee waits for one value.        *)
LEMMA WaitsFor ==
  ASSUME WellShaped,
         NEW fr \in Frame, NEW s \in 0..StackSize, NEW m, Runs(m, fr, s),
         NEW need \in Seq(Kind), Len(need) > 0, need[1] = "val",
         Code[fr.f][fr.pc].op \in {"Apply", "Call", "Recurse"},
         fr.pc + 1 \in DOMAIN Code[fr.f],
         Edge(Expects(fr), need, <<"val">>, Awaits(fr)),
         NEW at, at = s - Len(need),
         NEW m2, \A i \in Addr : i < at + 1 => m2[i] = m[i]
  PROVE  Waits(m2, fr, at + 1)
<1>1. PICK S, T, keep, base, bp, fixed, ln :
        /\ S = Expects(fr) /\ T = Awaits(fr) /\ keep = Len(S) - Len(need)
        /\ base = Base(fr) /\ bp = fr.bp /\ fixed = Fixed(fr.f) /\ ln = Len(need)
  OBVIOUS
<1>2. fr.f \in Func /\ fr.bp \in Nat /\ base \in Nat /\ Fixed(fr.f) \in Nat /\ base = fr.bp + Fixed(fr.f)
  BY <1>1, FrameParts
<1>3. /\ S \in Seq(Kind) /\ Len(S) \in Nat /\ base + Len(S) = s /\ fr.pc \in DOMAIN Code[fr.f]
      /\ HasOperands(m, fr, S, Len(S)) /\ HasVariables(m, fr)
  BY <1>1, <1>2, ShapeKinds DEF Runs, FitsRunning, Expects
<1>4. T \in Seq(Kind) /\ Len(T) \in Nat
  BY <1>1, <1>2, ShapeKinds DEF Awaits
<1>5. <<"val">> \in Seq(Kind) /\ Len(<<"val">>) = 1
  BY DEF Kind
<1>6. keep \in Nat /\ Len(T) = keep + 1 /\ Sub("val", T[keep + 1])
  <2>1. keep \in Nat
    BY <1>1, <1>3, LenProperties DEF Edge
  <2> QED BY <1>1, <1>4, <1>5, <2>1 DEF Edge
<1>7. T[Len(T)] = "val"
  <2>1. "val" \notin Func
    BY KindAssumption
  <2> QED BY <1>6, <2>1 DEF Sub
<1>8. at = base + keep /\ at \in Nat
  <2>1. Len(need) \in Nat /\ s \in Int /\ keep = Len(S) - Len(need)
    BY <1>1, LenProperties, MachineAssumption
  <2>2. /\ base \in Int /\ Len(S) \in Int /\ ln \in Int /\ s \in Int
        /\ at = s - ln /\ base + Len(S) = s /\ keep = Len(S) - ln
    BY <1>1, <1>2, <1>3, <2>1
  <2>3. at = base + keep
    BY <2>2
  <2> QED BY <1>2, <1>6, <2>3
<1>12. /\ base \in Nat /\ bp \in Nat /\ fixed \in Nat /\ keep \in Nat /\ at \in Nat
       /\ base = bp + fixed /\ at = base + keep
  BY <1>1, <1>2, <1>6, <1>8
<1>13. bp = fr.bp /\ fixed = Fixed(fr.f)
  BY <1>1
<1>9. at + 1 <= StackSize
  <2>1. Len(need) \in Nat /\ s \in Int /\ s <= StackSize
    BY LenProperties, MachineAssumption
  <2> QED BY <2>1, MachineAssumption
<1>10. \A i \in 0..at : i \in Addr /\ m2[i] = m[i]
  <2>1. \A i \in 0..at : i \in Addr /\ i < at + 1
    BY <1>8, <1>9, MachineAssumption DEF Addr
  <2> QED BY <2>1
<1>11. Waits(m2, fr, at + 1)
  <2>1. FitsWaiting(fr, at + 1)
    <3>1. T # <<>>
      BY <1>4, <1>6, EmptySeq
    <3>2. base + Len(T) = at + 1
      <4>1. base \in Nat /\ keep \in Nat /\ at = base + keep /\ Len(T) = keep + 1
        BY <1>6, <1>12
      <4> QED BY ONLY <4>1
    <3> QED BY <1>1, <1>3, <1>7, <3>1, <3>2 DEF FitsWaiting
  <2>2. ASSUME NEW i \in 1..Len(T) PROVE Conforms(m2[base + i - 1], T[i], fr)
    <3>1. CASE i \in 1..keep
      <4>1. HasOperands(m2, fr, T, keep)
        <5>1. ASSUME NEW j \in 1..keep PROVE m2[base + j - 1] = m[base + j - 1]
          <6>1. base + j - 1 \in 0..at
            BY <1>12
          <6> QED BY <1>10, <6>1
        <5>2. Edge(S, need, <<"val">>, T) /\ keep = Len(S) - Len(need) /\ base = Base(fr)
          BY <1>1
        <5>3. \A j \in 1..keep : m2[Base(fr) + j - 1] = m[Base(fr) + j - 1]
          BY <5>1, <5>2
        <5>4. /\ S \in Seq(Kind) /\ T \in Seq(Kind) /\ <<"val">> \in Seq(Kind)
              /\ HasOperands(m, fr, S, Len(S))
          BY <1>3, <1>4, <1>5
        <5> QED BY <5>2, <5>3, <5>4, OperandsKept
      <4> QED BY <1>1, <3>1, <4>1 DEF HasOperands
    <3>2. CASE i = keep + 1
      <4>1. base + i - 1 = at /\ m2[at] = m[at]
        <5>1. base \in Nat /\ keep \in Nat /\ at = base + keep
          BY <1>12
        <5>2. base + (keep + 1) - 1 = at /\ at \in 0..at
          BY ONLY <5>1
        <5>3. m2[at] = m[at]
          BY <1>10, <5>2
        <5> QED BY <3>2, <5>2, <5>3
      <4>2. Conforms(m[at + 1 - 1], need[1], fr)
        <5>1. 1 \in 1..Len(need)
          BY LenProperties
        <5>2. \A j \in 1..Len(need) : Conforms(m[s - Len(need) + j - 1], need[j], fr)
          BY <1>1, <1>4, <1>5, OperandsTaken
        <5> QED BY <5>1, <5>2
      <4>3. at + 1 - 1 = at
        BY <1>8
      <4> QED BY <1>6, <1>7, <3>2, <4>1, <4>2, <4>3
    <3>3. i \in 1..keep \/ i = keep + 1
      BY <1>6
    <3> QED BY <3>1, <3>2, <3>3
  <2>3. HasVariables(m2, fr)
    <3>1. \A i \in 0..(fixed - 1) : bp + i \in 0..at
      BY <1>12
    <3> QED BY <1>3, <1>10, <1>13, <3>1 DEF HasVariables
  <2> QED BY <1>1, <2>1, <2>2, <2>3 DEF Waits, HasOperands
<1> QED BY <1>11

-----------------------------------------------------------------------------
(* Calls and returns.                                                      *)

(* The elements of a concatenation.                                        *)
LEMMA ConcatParts ==
  ASSUME NEW S, NEW a \in Seq(S), NEW b \in Seq(S)
  PROVE  /\ a \o b \in Seq(S) /\ Len(a \o b) = Len(a) + Len(b)
         /\ \A i \in 1..Len(a) : (a \o b)[i] = a[i]
         /\ \A i \in 1..Len(b) : (a \o b)[Len(a) + i] = b[i]
<1>1. /\ a \o b \in Seq(S) /\ Len(a \o b) = Len(a) + Len(b)
      /\ \A i \in 1..(Len(a) + Len(b)) :
           (a \o b)[i] = IF i <= Len(a) THEN a[i] ELSE b[i - Len(a)]
  BY ConcatProperties
<1>2. Len(a) \in Nat /\ Len(b) \in Nat
  BY LenProperties
<1>3. ASSUME NEW i \in 1..Len(a) PROVE (a \o b)[i] = a[i]
  BY <1>1, <1>2
<1>4. ASSUME NEW i \in 1..Len(b) PROVE (a \o b)[Len(a) + i] = b[i]
  <2>1. /\ Len(a) + i \in 1..(Len(a) + Len(b)) /\ ~(Len(a) + i <= Len(a))
        /\ Len(a) + i - Len(a) = i
    BY <1>2
  <2> QED BY <1>1, <2>1
<1> QED BY <1>1, <1>3, <1>4

(* What pushFunction_ puts on the stack, and where.                        *)
LEMMA EnteredCells ==
  ASSUME NEW f \in Func, NEW before \in Seq(Cell)
  PROVE  /\ Entered(f, before) \in Seq(Cell)
         /\ Len(Entered(f, before)) = Len(before) + Len(Consts[f]) + Locals[f]
         /\ \A i \in 1..Len(before) : Entered(f, before)[i] = before[i]
         /\ \A i \in 1..Len(Consts[f]) : Entered(f, before)[Len(before) + i] = Consts[f][i]
         /\ \A i \in 1..Locals[f] :
              Entered(f, before)[Len(before) + Len(Consts[f]) + i] = None
         /\ Len(before) \in Nat /\ Len(Consts[f]) \in Nat /\ Locals[f] \in Nat
<1>1. Consts[f] \in Seq(Cell) /\ Locals[f] \in Nat
  BY ProgramAssumption, ConstsAssumption
<1>2. PICK c, l, n : c = Consts[f] /\ l = Repeat(None, Locals[f]) /\ n = Locals[f]
  OBVIOUS
<1>3. None \in Cell
  BY DEF None, Cell
<1>4. l \in Seq(Cell) /\ Len(l) = n /\ \A i \in 1..n : l[i] = None
  BY <1>1, <1>2, <1>3 DEF Repeat
<1>5. c \in Seq(Cell) /\ Len(c) \in Nat /\ Len(before) \in Nat /\ n \in Nat
  BY <1>1, <1>2, LenProperties
<1>6. /\ before \o c \in Seq(Cell) /\ Len(before \o c) = Len(before) + Len(c)
      /\ \A i \in 1..Len(before) : (before \o c)[i] = before[i]
      /\ \A i \in 1..Len(c) : (before \o c)[Len(before) + i] = c[i]
  BY <1>5, ConcatParts
<1>7. PICK bc : bc = before \o c
  OBVIOUS
<1>8. /\ bc \o l \in Seq(Cell) /\ Len(bc \o l) = Len(bc) + n
      /\ \A i \in 1..Len(bc) : (bc \o l)[i] = bc[i]
      /\ \A i \in 1..n : (bc \o l)[Len(bc) + i] = None
  <2>1. bc \in Seq(Cell) /\ l \in Seq(Cell) /\ Len(l) = n
    BY <1>4, <1>6, <1>7
  <2>2. /\ bc \o l \in Seq(Cell) /\ Len(bc \o l) = Len(bc) + Len(l)
        /\ \A i \in 1..Len(bc) : (bc \o l)[i] = bc[i]
        /\ \A i \in 1..Len(l) : (bc \o l)[Len(bc) + i] = l[i]
    BY <2>1, ConcatParts
  <2>3. \A i \in 1..n : l[i] = None
    BY <1>4
  <2> QED BY <2>1, <2>2, <2>3
<1>9. Entered(f, before) = bc \o l
  BY <1>2, <1>7 DEF Entered
<1>10. Len(bc) = Len(before) + Len(c)
  BY <1>6, <1>7
<1>11. \A i \in 1..Len(before) : i \in 1..Len(bc)
  BY <1>5, <1>10
<1>12. \A i \in 1..Len(c) : Len(before) + i \in 1..Len(bc)
  BY <1>5, <1>10
<1>13. \A i \in 1..Len(before) : (bc \o l)[i] = before[i]
  BY <1>6, <1>7, <1>8, <1>11
<1>14. \A i \in 1..Len(c) : (bc \o l)[Len(before) + i] = c[i]
  BY <1>6, <1>7, <1>8, <1>12
<1> QED BY <1>2, <1>5, <1>8, <1>9, <1>10, <1>13, <1>14

(* A function entered on its arguments and captures runs from its first    *)
(* instruction.                                                            *)
LEMMA EnteredRuns ==
  ASSUME WellShaped, NEW f \in Func, NEW before \in Seq(Values),
         NEW at \in Nat, NEW m \in [Addr -> Cell],
         NEW bp \in Nat, bp <= at, bp + ConstPos(f) = at + Len(before),
         at + Len(Entered(f, before)) <= StackSize,
         \A i \in Addr : bp <= i /\ i < at => m[i] \in Values
  PROVE  LET m2 == Splice(m, at, Entered(f, before))
             fr == [f |-> f, pc |-> 1, bp |-> bp]
             s  == at + Len(Entered(f, before))
         IN  /\ m2 \in [Addr -> Cell] /\ s \in 0..StackSize /\ fr \in Frame
             /\ Runs(m2, fr, s)
             /\ \A i \in Addr : i < at => m2[i] = m[i]
<1>1. PICK new, m2, fr, s, cp, nc, nl, lb :
        /\ new = Entered(f, before) /\ m2 = Splice(m, at, new)
        /\ fr = [f |-> f, pc |-> 1, bp |-> bp] /\ s = at + Len(new)
        /\ cp = ConstPos(f) /\ nc = Len(Consts[f]) /\ nl = Locals[f] /\ lb = Len(before)
  OBVIOUS
<1>2. before \in Seq(Cell)
  BY ValueCells, SeqMonotonic
<1>3. /\ new \in Seq(Cell) /\ Len(new) = lb + nc + nl
      /\ \A i \in 1..lb : new[i] = before[i]
      /\ \A i \in 1..nc : new[lb + i] = Consts[f][i]
      /\ \A i \in 1..nl : new[lb + nc + i] = None
      /\ lb \in Nat /\ nc \in Nat /\ nl \in Nat
  BY <1>1, <1>2, EnteredCells
<1>4. /\ cp \in Nat /\ LocalPos(f) = cp + nc /\ Fixed(f) = cp + nc + nl
      /\ bp + cp = at + lb
  BY <1>1, <1>3, FrameSizes DEF LocalPos, Fixed
<1>5. /\ m2 \in [Addr -> Cell]
      /\ \A i \in Addr : i < at => m2[i] = m[i]
      /\ \A i \in 1..Len(new) : at + i - 1 \in Addr => m2[at + i - 1] = new[i]
  <2>1. new \in Seq(Cell)
    BY <1>3
  <2>2. /\ Splice(m, at, new) \in [Addr -> Cell]
        /\ \A i \in Addr : i < at => Splice(m, at, new)[i] = m[i]
        /\ \A i \in 1..Len(new) :
             at + i - 1 \in Addr => Splice(m, at, new)[at + i - 1] = new[i]
    BY <2>1, SpliceCells
  <2>3. m2 = Splice(m, at, new)
    BY <1>1
  <2> QED BY ONLY <2>2, <2>3
<1>6. s \in 0..StackSize /\ s = at + lb + nc + nl
  <2>1. s = at + Len(new) /\ s <= StackSize
    BY <1>1
  <2>2. Len(new) = lb + nc + nl /\ lb \in Nat /\ nc \in Nat /\ nl \in Nat
    BY <1>3
  <2>3. at \in Nat /\ StackSize \in Nat
    BY MachineAssumption
  <2> QED BY ONLY <2>1, <2>2, <2>3
<1>15. /\ at \in Nat /\ lb \in Nat /\ nc \in Nat /\ nl \in Nat /\ cp \in Nat
       /\ bp \in Nat /\ s \in Nat /\ bp + cp = at + lb /\ s = at + lb + nc + nl
  BY <1>3, <1>4, <1>6
<1>16. Fixed(f) = cp + nc + nl /\ LocalPos(f) = cp + nc /\ ConstPos(f) = cp
  BY <1>1, <1>4
<1>7. /\ fr \in Frame /\ fr.f = f /\ fr.pc = 1 /\ fr.bp = bp
      /\ Base(fr) = bp + Fixed(f)
  BY <1>1 DEF Frame, Base
<1>8. Shape[f][1] = <<>> /\ 1 \in DOMAIN Code[f]
  <2>1. Code[f] \in Seq(Instruction) /\ Code[f] # <<>> /\ Shape[f][1] = <<>>
    BY ProgramAssumption DEF WellShaped
  <2> QED BY <2>1, EmptySeq, LenProperties
<1>9. FitsRunning(fr, s) /\ Expects(fr) = <<>>
  <2>1. Expects(fr) = <<>> /\ Len(Expects(fr)) = 0
    BY <1>7, <1>8 DEF Expects
  <2>2. bp + Fixed(f) + 0 = s
    BY <1>3, <1>4, <1>6
  <2> QED BY <1>7, <1>8, <2>1, <2>2 DEF FitsRunning
<1>10. HasOperands(m2, fr, Expects(fr), Len(Expects(fr)))
  BY <1>9 DEF HasOperands
<1>11. \A i \in 0..(s - 1) : i \in Addr
  <2>1. s \in Int /\ s <= StackSize
    BY <1>6, MachineAssumption
  <2> QED BY <2>1, MachineAssumption DEF Addr
<1>12. \A i \in 1..(lb + nc + nl) : at + i - 1 \in Addr /\ m2[at + i - 1] = new[i]
  <2>1. \A i \in 1..(lb + nc + nl) : at + i - 1 \in 0..(s - 1)
    BY <1>15
  <2> QED BY <1>3, <1>5, <1>11, <2>1
<1>13. ASSUME NEW i \in 0..(Fixed(f) - 1)
       PROVE  IF i \in VarPos(f) THEN m2[bp + i] \in Values
              ELSE m2[bp + i] = Consts[f][i - cp + 1]
  <2>1. i \in 0..(cp + nc + nl - 1) /\ i \in Nat
    BY <1>15, <1>16
  <2>2. CASE i < cp
    <3>1. i \in VarPos(f)
      BY <1>16, <2>2 DEF VarPos
    <3>2. CASE bp + i < at
      <4>1. bp + i \in 0..(s - 1)
        BY <1>15, <2>1, <3>2
      <4> QED BY <1>5, <1>11, <2>1, <3>1, <3>2, <4>1
    <3>3. CASE ~(bp + i < at)
      <4>1. bp + i - at + 1 \in 1..lb /\ bp + i - at + 1 \in 1..(lb + nc + nl)
        BY <1>15, <2>1, <2>2, <3>3
      <4>2. at + (bp + i - at + 1) - 1 = bp + i
        BY <2>1
      <4>3. m2[bp + i] = before[bp + i - at + 1]
        BY <1>3, <1>12, <4>1, <4>2
      <4>4. before[bp + i - at + 1] \in Values
        BY <1>1, <4>1, ElementOfSeq
      <4> QED BY <3>1, <4>3, <4>4
    <3> QED BY <3>2, <3>3
  <2>3. CASE i >= cp /\ i < cp + nc
    <3>1. i \notin VarPos(f)
      BY <1>16, <2>1, <2>3, <1>15 DEF VarPos
    <3>2. i - cp + 1 \in 1..nc /\ lb + (i - cp + 1) \in 1..(lb + nc + nl)
      BY <1>15, <2>1, <2>3
    <3>3. at + (lb + (i - cp + 1)) - 1 = bp + i
      BY <1>15, <2>1
    <3> QED BY <1>3, <1>12, <3>1, <3>2, <3>3
  <2>4. CASE i >= cp + nc
    <3>1. i \in VarPos(f)
      BY <1>16, <2>1, <2>4 DEF VarPos
    <3>2. i - cp - nc + 1 \in 1..nl /\ lb + nc + (i - cp - nc + 1) \in 1..(lb + nc + nl)
      BY <1>15, <2>1, <2>4
    <3>3. at + (lb + nc + (i - cp - nc + 1)) - 1 = bp + i
      BY <1>15, <2>1
    <3> QED BY <1>3, <1>12, <3>1, <3>2, <3>3, ValueCells
  <2>5. i < cp \/ (i >= cp /\ i < cp + nc) \/ i >= cp + nc
    BY <1>15, <2>1
  <2> QED BY <2>2, <2>3, <2>4, <2>5
<1>14. HasVariables(m2, fr)
  BY <1>1, <1>7, <1>13 DEF HasVariables
<1> QED BY <1>1, <1>5, <1>6, <1>7, <1>9, <1>10, <1>14 DEF Runs

-----------------------------------------------------------------------------
(* Steps of the machine.                                                   *)

(* What is known while the frames are those of the running script.         *)
LEMMA WhileRunning ==
  ASSUME WellShaped, IInv, status = "running", history # "stale"
  PROVE  /\ TypeOK /\ Fits(stack, sp, frames)
         /\ stack \in [Addr -> Cell] /\ sp \in 0..StackSize /\ sp \in Nat
         /\ frames \in Seq(Frame) /\ Len(frames) \in Nat /\ Len(frames) \in 1..Len(frames)
         /\ Top = frames[Len(frames)] /\ Top \in Frame
         /\ Top.f \in Func /\ Top.pc \in DOMAIN Code[Top.f] /\ Top.pc \in Nat /\ Top.bp \in Nat
         /\ Ins = Code[Top.f][Top.pc] /\ Ins \in Instruction
         /\ Runs(stack, Top, sp)
         /\ Expects(Top) = Shape[Top.f][Top.pc] /\ Expects(Top) \in Seq(Kind)
         /\ WellShapedAt(Top.f, Top.pc)
<1>1. TypeOK /\ Fits(stack, sp, frames)
  BY DEF IInv
<1>2. /\ stack \in [Addr -> Cell] /\ sp \in 0..StackSize /\ frames \in Seq(Frame)
      /\ Len(frames) > 0 /\ Runs(stack, Top, sp)
  BY <1>1 DEF Fits, Top
<1>3. sp \in Nat /\ Len(frames) \in Nat /\ Len(frames) \in 1..Len(frames)
  BY <1>2, LenProperties, MachineAssumption
<1>4. Top \in Frame /\ Top = frames[Len(frames)]
  BY <1>2, <1>3, ElementOfSeq DEF Top
<1>5. Top.f \in Func /\ Top.pc \in DOMAIN Code[Top.f] /\ Top.pc \in Nat /\ Top.bp \in Nat
  BY <1>2, <1>4 DEF Frame, Runs, FitsRunning
<1>6. /\ Ins = Code[Top.f][Top.pc] /\ Ins \in Instruction /\ WellShapedAt(Top.f, Top.pc)
      /\ Expects(Top) = Shape[Top.f][Top.pc] /\ Expects(Top) \in Seq(Kind)
  BY <1>5, ShapeKinds DEF Ins, Expects
<1> QED BY <1>1, <1>2, <1>3, <1>4, <1>5, <1>6

(* A step that changes nothing below the running frame, or the stack not   *)
(* at all.                                                                 *)
LEMMA LeavesCallers ==
  ASSUME Top.bp \in Int,
         NEW m, NEW at \in Int, Top.bp - 1 <= at,
         \A i \in Addr : i < at => m[i] = stack[i],
         stack' = m
  PROVE  Untouched
<1>1. \A i \in Addr : i \in Int
  BY MachineAssumption DEF Addr
<1> QED BY <1>1 DEF Untouched

(* A machine that stops without misuse keeps the invariant.                *)
LEMMA StopKeeps ==
  ASSUME IInv, status = "running", history # "stale",
         NEW how \in {"overflow", "misbound"}, Stop(how)
  PROVE  IInv' /\ Untouched
<1>1. TypeOK'
  BY DEF IInv, TypeOK, Stop, Undefined
<1>2. CleanWhenIdle' /\ NoMisuse' /\ status' # "running"
  BY DEF Stop, CleanWhenIdle, NoMisuse
<1>3. status' # "idle"
  BY DEF Stop
<1>4. Untouched
  BY DEF Stop, Untouched
<1> QED BY <1>1, <1>2, <1>3, <1>4 DEF IInv

(* A machine that runs on with new stack and frames keeps it if they fit.  *)
LEMMA GoOnKeeps ==
  ASSUME TypeOK, status = "running", UNCHANGED <<status, history, executes>>,
         Fits(stack, sp, frames)'
  PROVE  IInv'
<1>1. TypeOK'
  BY DEF TypeOK, Fits
<1>2. CleanWhenIdle' /\ NoMisuse'
  BY DEF CleanWhenIdle, NoMisuse
<1> QED BY <1>1, <1>2 DEF IInv

(* An instruction inside the running frame keeps the invariant.            *)
LEMMA InFrameKeeps ==
  ASSUME WellShaped, IInv, status = "running", history # "stale",
         NEW need, NEW give, NEW new, NEW target, NEW m,
         Moves(stack, Top, need, give, new, target, m),
         NEW at, at = sp - Len(need),
         Put(m, at, new, Jump(target))
  PROVE  IInv' /\ Untouched
<1>1. PICK fr, n, mem, s, fs : fr = Top /\ n = Len(frames) /\ mem = stack /\ s = sp /\ fs = frames
  OBVIOUS
<1>2. /\ TypeOK /\ Fits(mem, s, fs) /\ n \in 1..Len(fs) /\ n \in Nat /\ fs \in Seq(Frame)
      /\ fr = fs[n] /\ fr \in Frame /\ fr.f \in Func /\ Runs(mem, fr, s) /\ s \in 0..StackSize
  BY <1>1, WhileRunning
<1>8. Moves(mem, fr, need, give, new, target, m)
  BY <1>1
<1>9. /\ need \in Seq(Kind) /\ give \in Seq(Kind) /\ new \in Seq(Cell)
      /\ target \in DOMAIN Code[fr.f]
  BY <1>8 DEF Moves
<1>3. target \in Nat /\ Shape[fr.f][target] \in Seq(Kind)
  BY <1>2, <1>9, ShapeKinds
<1>4. Edge(Expects(fr), need, give, Shape[fr.f][target])
  BY <1>8 DEF Moves
<1>5. at \in Nat
  <2>1. s - Len(need) \in Nat
    BY <1>2, <1>3, <1>4, <1>9, OperandsTaken
  <2> QED BY <1>1, <2>1
<1>6. CASE at + Len(new) > StackSize
  <2>1. Stop("overflow")
    BY <1>5, <1>6 DEF Put
  <2> QED BY <2>1, StopKeeps
<1>7. CASE ~(at + Len(new) > StackSize)
  <2>1. PICK m2, s2, fr2, fs2 :
          /\ m2 = Splice(m, at, new) /\ s2 = at + Len(new)
          /\ fr2 = [fr EXCEPT !.pc = target] /\ fs2 = [fs EXCEPT ![n] = fr2]
    OBVIOUS
  <2>2. /\ stack' = m2 /\ sp' = s2 /\ frames' = fs2
        /\ UNCHANGED <<status, history, executes>>
    BY <1>1, <1>5, <1>7, <2>1 DEF Put, Jump
  <2>3. at + Len(new) <= StackSize
    BY <1>5, <1>7, <1>9, LenProperties, MachineAssumption
  <2>4. /\ m2 \in [Addr -> Cell] /\ s2 \in 0..StackSize
        /\ \A i \in Addr : i < fr.bp => m2[i] = mem[i]
        /\ Runs(m2, fr2, s2)
    <3>1. fr \in Frame /\ s \in 0..StackSize /\ Runs(mem, fr, s) /\ at = s - Len(need)
      BY <1>1, <1>2
    <3>2. /\ at + Len(new) \in 0..StackSize
          /\ Splice(m, at, new) \in [Addr -> Cell]
          /\ \A i \in Addr : i < fr.bp => Splice(m, at, new)[i] = mem[i]
          /\ Runs(Splice(m, at, new), [fr EXCEPT !.pc = target], at + Len(new))
      <4>1. s - Len(need) + Len(new) <= StackSize
        BY <2>3, <3>1
      <4>2. LET a == s - Len(need) IN
            /\ a \in Nat /\ a + Len(new) \in 0..StackSize
            /\ Splice(m, a, new) \in [Addr -> Cell]
            /\ \A i \in Addr : i < fr.bp => Splice(m, a, new)[i] = mem[i]
            /\ Runs(Splice(m, a, new), [fr EXCEPT !.pc = target], a + Len(new))
        BY <1>8, <3>1, <4>1, RunsOn
      <4> QED BY <3>1, <4>2
    <3> QED BY <2>1, <3>2
  <2>5. fr2 \in Frame /\ fr2.f = fr.f /\ fr2.bp = fr.bp
    <3>1. fr \in Frame /\ target \in Nat /\ fr2 = [fr EXCEPT !.pc = target]
      BY <1>2, <1>3, <2>1
    <3> QED BY ONLY <3>1, MovedFrame
  <2>6. /\ fs2 \in Seq(Frame) /\ Len(fs2) = n /\ fs2[n] = fr2
        /\ \A i \in 1..(n - 1) : fs2[i] = fs[i]
    <3>1. n = Len(fs)
      BY <1>1
    <3>2. /\ fs2 \in Seq(Frame) /\ Len(fs2) = n
          /\ \A i \in 1..n : fs2[i] = IF i = n THEN fr2 ELSE fs[i]
      BY <1>2, <2>1, <2>5, <3>1, ExceptSeq
    <3> QED BY <1>2, <3>2
  <2>7. Fits(m2, s2, fs2)
    <3>1. SameBelow(mem, fs, n, m2, s2, fs2)
      BY <1>2, <2>4, <2>5, <2>6 DEF SameBelow
    <3> QED BY <1>2, <3>1, FramesBelow
  <2>8. Untouched
    <3>1. /\ fr.bp \in Int /\ fr.bp - 1 <= fr.bp /\ fr = Top
          /\ \A i \in Addr : i < fr.bp => m2[i] = stack[i]
      BY <1>1, <1>2, <2>4, FrameParts
    <3> QED BY <2>2, <3>1, LeavesCallers
  <2> QED BY <1>2, <2>2, <2>7, <2>8, GoOnKeeps
<1> QED BY <1>6, <1>7

(* A call keeps the invariant: the callee's frame starts at the first of   *)
(* its arguments, right above the slot of its result.                      *)
LEMMA CallKeeps ==
  ASSUME WellShaped, IInv, status = "running", history # "stale",
         NEW need \in Seq(Kind), Len(need) > 0, \A i \in 1..Len(need) : need[i] = "val",
         Ins.op \in {"Apply", "Call", "Recurse"},
         Top.pc + 1 \in DOMAIN Code[Top.f],
         Edge(Expects(Top), need, <<"val">>, Awaits(Top)),
         NEW f \in Func, NEW before \in Seq(Values), NEW at \in Nat, at <= sp,
         sp - Len(need) + 1 <= at,
         sp - Len(need) + 1 + ConstPos(f) = at + Len(before),
         PushFunction(f, before, at)
  PROVE  IInv' /\ Untouched
<1>1. PICK fr, n, mem, s, fs, bp :
        /\ fr = Top /\ n = Len(frames) /\ mem = stack /\ s = sp /\ fs = frames
        /\ bp = sp - Len(need) + 1
  OBVIOUS
<1>2. /\ TypeOK /\ Fits(mem, s, fs) /\ n \in 1..Len(fs) /\ n \in Nat /\ fs \in Seq(Frame)
      /\ fr = fs[n] /\ fr \in Frame /\ fr.f \in Func /\ Runs(mem, fr, s)
      /\ s \in 0..StackSize /\ s \in Nat /\ mem \in [Addr -> Cell] /\ fr.pc \in Nat
  BY <1>1, WhileRunning
<1>3. Awaits(fr) \in Seq(Kind) /\ <<"val">> \in Seq(Kind) /\ Len(need) \in Nat
  <2>1. fr.pc + 1 \in DOMAIN Code[fr.f] /\ fr.f \in Func
    BY <1>1, <1>2
  <2>2. Awaits(fr) \in Seq(Kind)
    BY <2>1, ShapeKinds DEF Awaits
  <2>3. <<"val">> \in Seq(Kind)
    BY DEF Kind
  <2> QED BY <2>2, <2>3, LenProperties
<1>4. Edge(Expects(fr), need, <<"val">>, Awaits(fr))
  BY <1>1
<1>5. /\ s - Len(need) \in Nat /\ fr.bp <= s - Len(need)
      /\ \A i \in 1..Len(need) : Conforms(mem[s - Len(need) + i - 1], need[i], fr)
  BY <1>2, <1>3, <1>4, OperandsTaken
<1>6. /\ bp \in Nat /\ bp = s - Len(need) + 1 /\ bp <= at /\ fr.bp <= bp
      /\ bp + ConstPos(f) = at + Len(before)
  <2>1. bp \in Nat /\ bp = s - Len(need) + 1
    BY <1>1, <1>5
  <2>2. fr.bp \in Nat
    BY <1>2, FrameParts
  <2>3. fr.bp <= bp
    BY <1>1, <1>3, <1>5, <2>1, <2>2
  <2> QED BY <1>1, <2>1, <2>3
<1>7. PICK new : new = Entered(f, before)
  OBVIOUS
<1>8. before \in Seq(Cell) /\ new \in Seq(Cell) /\ Len(new) \in Nat /\ Len(before) \in Nat
  BY <1>7, ValueCells, SeqMonotonic, EnteredCells, LenProperties
<1>9. PushFunction(f, before, at) =
        Put(stack, at, new, Append(frames, [f |-> f, pc |-> 1, bp |-> bp]))
  <2>1. at + Len(before) - Args[f] - Caps[f] = bp
    <3>1. ConstPos(f) = Args[f] + Caps[f] /\ Args[f] \in Nat /\ Caps[f] \in Nat
      BY FrameSizes, ProgramAssumption
    <3>2. bp \in Int /\ at \in Int /\ Len(before) \in Int /\ bp + ConstPos(f) = at + Len(before)
      BY <1>6, <1>8
    <3>3. PICK a, c, l : a = Args[f] /\ c = Caps[f] /\ l = Len(before)
      OBVIOUS
    <3>4. a \in Nat /\ c \in Nat /\ l \in Int /\ bp \in Int /\ at \in Int /\ bp + (a + c) = at + l
      BY <3>1, <3>2, <3>3
    <3>5. at + l - a - c = bp
      BY <3>4
    <3> QED BY <3>3, <3>5
  <2>2. ~(bp < 0)
    BY <1>6
  <2> QED BY <1>7, <2>1, <2>2 DEF PushFunction
<1>12. Put(stack, at, new, Append(frames, [f |-> f, pc |-> 1, bp |-> bp]))
  BY <1>9
<1>13. ~(at < 0)
  OBVIOUS
<1>10. CASE at + Len(new) > StackSize
  <2>1. Stop("overflow")
    BY <1>10, <1>12, <1>13 DEF Put
  <2> QED BY <2>1, StopKeeps
<1>11. CASE ~(at + Len(new) > StackSize)
  <2>1. PICK m2, s2, fr2, fs2 :
          /\ m2 = Splice(mem, at, new) /\ s2 = at + Len(new)
          /\ fr2 = [f |-> f, pc |-> 1, bp |-> bp] /\ fs2 = Append(fs, fr2)
    OBVIOUS
  <2>2. /\ stack' = m2 /\ sp' = s2 /\ frames' = fs2
        /\ UNCHANGED <<status, history, executes>>
    <3>1. /\ stack' = Splice(stack, at, new) /\ sp' = at + Len(new)
          /\ frames' = Append(frames, [f |-> f, pc |-> 1, bp |-> bp])
          /\ UNCHANGED <<status, history, executes>>
      BY <1>11, <1>12, <1>13 DEF Put
    <3> QED BY <1>1, <2>1, <3>1
  <2>3. \A i \in Addr : bp <= i /\ i < at => mem[i] \in Values
    <3> SUFFICES ASSUME NEW i \in Addr, bp <= i, i < at PROVE mem[i] \in Values
      OBVIOUS
    <3>1. PICK j \in 1..Len(need) : s - Len(need) + j - 1 = i
      <4>1. i \in Int /\ i < s
        BY <1>1, <1>2, MachineAssumption DEF Addr
      <4>2. i - s + Len(need) + 1 \in 1..Len(need)
        BY <1>2, <1>3, <1>6, <4>1
      <4>3. s - Len(need) + (i - s + Len(need) + 1) - 1 = i
        BY <1>2, <1>3, <4>1
      <4> QED BY <4>2, <4>3
    <3>2. Conforms(mem[i], "val", fr)
      BY <1>5, <3>1
    <3> QED BY <3>2 DEF Conforms
  <2>4. at + Len(new) <= StackSize
    BY <1>8, <1>11, MachineAssumption
  <2>5. /\ m2 \in [Addr -> Cell] /\ s2 \in 0..StackSize /\ fr2 \in Frame
        /\ Runs(m2, fr2, s2)
        /\ \A i \in Addr : i < at => m2[i] = mem[i]
    <3>1. at + Len(Entered(f, before)) <= StackSize
      BY <1>7, <2>4
    <3>2. LET m3 == Splice(mem, at, Entered(f, before))
              fr3 == [f |-> f, pc |-> 1, bp |-> bp]
              s3  == at + Len(Entered(f, before))
          IN  /\ m3 \in [Addr -> Cell] /\ s3 \in 0..StackSize /\ fr3 \in Frame
              /\ Runs(m3, fr3, s3)
              /\ \A i \in Addr : i < at => m3[i] = mem[i]
      <4>1. /\ mem \in [Addr -> Cell] /\ bp \in Nat /\ bp <= at
            /\ bp + ConstPos(f) = at + Len(before)
        BY <1>2, <1>6
      <4> QED BY <2>3, <3>1, <4>1, EnteredRuns
    <3> QED BY <1>7, <2>1, <3>2
  <2>6. \A i \in Addr : i < bp => m2[i] = mem[i]
    BY <1>6, <2>5, MachineAssumption DEF Addr
  <2>7. \A i \in Addr : i < fr.bp => m2[i] = mem[i]
    <3>1. fr.bp \in Int
      BY <1>2, FrameParts
    <3> QED BY <1>6, <2>6, <3>1, MachineAssumption DEF Addr
  <2>8. Waits(m2, fr, bp)
    <3>1. Code[fr.f][fr.pc].op \in {"Apply", "Call", "Recurse"} /\ fr.pc + 1 \in DOMAIN Code[fr.f]
      BY <1>1 DEF Ins
    <3>2. need[1] = "val"
      BY <1>3
    <3>3. PICK a : a = s - Len(need)
      OBVIOUS
    <3>4. bp = a + 1
      BY <1>6, <3>3
    <3>5. \A i \in Addr : i < a + 1 => m2[i] = mem[i]
      BY <2>6, <3>4
    <3>6. Waits(m2, fr, a + 1)
      BY <1>2, <1>4, <3>1, <3>2, <3>3, <3>5, WaitsFor
    <3> QED BY <3>4, <3>6
  <2>9. /\ fs2 \in Seq(Frame) /\ Len(fs2) = n + 1 /\ fs2[n + 1] = fr2 /\ fs2[n] = fr
        /\ \A i \in 1..(n - 1) : fs2[i] = fs[i]
    <3>1. n = Len(fs)
      BY <1>1
    <3>2. /\ fs2 \in Seq(Frame) /\ Len(fs2) = n + 1 /\ fs2[n + 1] = fr2
          /\ \A i \in 1..n : fs2[i] = fs[i]
      BY <1>2, <2>1, <2>5, <3>1, AppendProperties
    <3> QED BY <1>2, <3>2
  <2>10. Fits(m2, s2, fs2)
    <3>1. fr2.bp = bp
      BY <2>1
    <3>2. /\ fs2[n].f = fs[n].f /\ fs2[n].bp = fs[n].bp /\ n \in 1..Len(fs)
          /\ \A i \in Addr : i < fs[n].bp => m2[i] = mem[i]
      BY <1>2, <2>7, <2>9
    <3>3. /\ Runs(m2, fs2[Len(fs2)], s2)
          /\ Waits(m2, fs2[n], fs2[n + 1].bp) /\ fs2[n].bp <= fs2[n + 1].bp
      BY <1>6, <2>5, <2>8, <2>9, <3>1
    <3>4. SameBelow(mem, fs, n, m2, s2, fs2)
      BY <2>5, <2>9, <3>2, <3>3 DEF SameBelow
    <3> QED BY <1>2, <3>4, FramesBelow
  <2>11. Untouched
    <3>1. /\ fr.bp \in Int /\ fr.bp - 1 <= fr.bp /\ fr = Top
          /\ \A i \in Addr : i < fr.bp => m2[i] = stack[i]
      BY <1>1, <1>2, <2>7, FrameParts
    <3> QED BY <2>2, <3>1, LeavesCallers
  <2> QED BY <1>2, <2>2, <2>10, <2>11, GoOnKeeps
<1> QED BY <1>10, <1>11

(* The operands leave along the edges of the running frame's position.     *)
Leads(need, give, target) ==
  /\ target \in DOMAIN Code[Top.f]
  /\ Edge(Expects(Top), need, give, Shape[Top.f][target])

On(need, give) == Leads(need, give, Top.pc + 1)

(* The edges of every instruction.                                         *)
LEMMA Edges ==
  ASSUME WellShaped, IInv, status = "running", history # "stale"
  PROVE  /\ Ins.op = "Push" => On(<<>>, <<"val">>)
         /\ Ins.op = "PushVar" => /\ Ins.a \in 0..(Fixed(Top.f) - 1)
                                  /\ On(<<>>, <<VarKind(Top.f, Ins.a)>>)
         /\ Ins.op \in {"Pop", "Print"} => On(Vals(Operands(Ins)), <<>>)
         /\ Ins.op \in Operators \ {"Pop", "Print"} => On(Vals(Operands(Ins)), <<"val">>)
         /\ Ins.op = "WriteVar" => Ins.a \in VarPos(Top.f) /\ On(<<"val">>, <<>>)
         /\ Ins.op = "BorrowVar" => Ins.a \in VarPos(Top.f) /\ On(<<>>, <<"borrow">>)
         /\ Ins.op = "BorrowIndex" => On(<<"borrow", "val">>, <<"borrow">>)
         /\ Ins.op \in {"WriteBorrowed", "ArithBorrowed"} => On(<<"borrow", "val">>, <<>>)
         /\ Ins.op = "Move" => On(<<"borrow">>, <<"val">>)
         /\ Ins.op = "Jmp" => Leads(<<>>, <<>>, Ins.a)
         /\ Ins.op \in {"Jt", "Jf"} => On(<<"val">>, <<>>) /\ Leads(<<"val">>, <<>>, Ins.a)
         /\ Ins.op \in {"Jtsc", "Jfsc"} =>
              On(<<"val">>, <<>>) /\ Leads(<<"val">>, <<"val">>, Ins.a)
         /\ Ins.op = "BeginIter" => On(<<"val">>, <<"iter">>)
         /\ Ins.op = "NextOrJmp" => /\ Code[Top.f][Top.pc - 1].a \in VarPos(Top.f)
                                    /\ Code[Top.f][Top.pc - 1].b \in VarPos(Top.f)
                                    /\ On(<<"iter">>, <<"iter">>)
                                    /\ Leads(<<"iter">>, <<>>, Ins.a)
         /\ Ins.op = "Apply" => On(Vals(2), <<"val">>)
         /\ Ins.op \in {"Call", "Recurse"} => On(Vals(Ins.a + 1), <<"val">>)
         /\ Ins.op = "CreateClosure" =>
              \E g \in Func \ Main : Caps[g] = Ins.a /\ On(<<g>> \o Vals(Ins.a), <<"val">>)
         /\ Ins.op = "Return" =>
              IF Expects(Top) # <<>> THEN Sub(Expects(Top)[Len(Expects(Top))], "val")
              ELSE Fixed(Top.f) > 0 => Sub(VarKind(Top.f, Fixed(Top.f) - 1), "val")
<1>1. PICK f, pc, ins, S : f = Top.f /\ pc = Top.pc /\ ins = Ins /\ S = Expects(Top)
  OBVIOUS
<1>2. WellShapedAt(f, pc) /\ ins = Code[f][pc] /\ S = Shape[f][pc]
  BY <1>1, WhileRunning
<1>3. ASSUME NEW need, NEW give, NEW target,
             target \in DOMAIN Code[f], Edge(S, need, give, Shape[f][target])
      PROVE  Leads(need, give, target)
  BY <1>1, <1>3 DEF Leads
<1>4. ASSUME NEW need, NEW give,
             pc + 1 \in DOMAIN Code[f], Edge(S, need, give, Shape[f][pc + 1])
      PROVE  On(need, give)
  BY <1>1, <1>3, <1>4 DEF On
<1> USE <1>2 DEF WellShapedAt
<1>5. ins.op = "Push" => On(<<>>, <<"val">>)
  BY <1>4 DEF Operators
<1>6. ins.op = "PushVar" => ins.a \in 0..(Fixed(f) - 1) /\ On(<<>>, <<VarKind(f, ins.a)>>)
  BY <1>4 DEF Operators
<1>7. ins.op \in {"Pop", "Print"} => On(Vals(Operands(ins)), <<>>)
  BY <1>4
<1>8. ins.op \in Operators \ {"Pop", "Print"} => On(Vals(Operands(ins)), <<"val">>)
  BY <1>4 DEF Operators
<1>9. ins.op = "WriteVar" => ins.a \in VarPos(f) /\ On(<<"val">>, <<>>)
  BY <1>4 DEF Operators
<1>10. ins.op = "BorrowVar" => ins.a \in VarPos(f) /\ On(<<>>, <<"borrow">>)
  BY <1>4 DEF Operators
<1>11. ins.op = "BorrowIndex" => On(<<"borrow", "val">>, <<"borrow">>)
  BY <1>4 DEF Operators
<1>12. ins.op \in {"WriteBorrowed", "ArithBorrowed"} => On(<<"borrow", "val">>, <<>>)
  BY <1>4 DEF Operators
<1>13. ins.op = "Move" => On(<<"borrow">>, <<"val">>)
  BY <1>4 DEF Operators
<1>14. ins.op = "Jmp" => Leads(<<>>, <<>>, ins.a)
  BY <1>3 DEF Operators
<1>15. ins.op \in {"Jt", "Jf"} => On(<<"val">>, <<>>) /\ Leads(<<"val">>, <<>>, ins.a)
  BY <1>3, <1>4 DEF Operators
<1>16. ins.op \in {"Jtsc", "Jfsc"} =>
         On(<<"val">>, <<>>) /\ Leads(<<"val">>, <<"val">>, ins.a)
  BY <1>3, <1>4 DEF Operators
<1>17. ins.op = "BeginIter" => On(<<"val">>, <<"iter">>)
  BY <1>4 DEF Operators
<1>18. ins.op = "NextOrJmp" => /\ Code[f][pc - 1].a \in VarPos(f)
                               /\ Code[f][pc - 1].b \in VarPos(f)
                               /\ On(<<"iter">>, <<"iter">>)
                               /\ Leads(<<"iter">>, <<>>, ins.a)
  BY <1>3, <1>4 DEF Operators
<1>19. ins.op = "Apply" => On(Vals(2), <<"val">>)
  BY <1>4 DEF Operators
<1>20. ins.op \in {"Call", "Recurse"} => On(Vals(ins.a + 1), <<"val">>)
  BY <1>4 DEF Operators
<1>21. ins.op = "CreateClosure" =>
         \E g \in Func \ Main : Caps[g] = ins.a /\ On(<<g>> \o Vals(ins.a), <<"val">>)
  BY <1>4 DEF Operators
<1>22. ins.op = "Return" =>
         IF S # <<>> THEN Sub(S[Len(S)], "val")
         ELSE Fixed(f) > 0 => Sub(VarKind(f, Fixed(f) - 1), "val")
  BY DEF Operators
<1> HIDE <1>2 DEF WellShapedAt
<1>23. f = Top.f /\ pc = Top.pc /\ ins = Ins /\ S = Expects(Top)
  BY <1>1
<1>24. /\ Ins.op = "Push" => On(<<>>, <<"val">>)
       /\ Ins.op = "PushVar" => /\ Ins.a \in 0..(Fixed(Top.f) - 1)
                                /\ On(<<>>, <<VarKind(Top.f, Ins.a)>>)
       /\ Ins.op \in {"Pop", "Print"} => On(Vals(Operands(Ins)), <<>>)
       /\ Ins.op \in Operators \ {"Pop", "Print"} => On(Vals(Operands(Ins)), <<"val">>)
       /\ Ins.op = "WriteVar" => Ins.a \in VarPos(Top.f) /\ On(<<"val">>, <<>>)
  BY ONLY <1>5, <1>6, <1>7, <1>8, <1>9, <1>23, Zenon
<1>25. /\ Ins.op = "BorrowVar" => Ins.a \in VarPos(Top.f) /\ On(<<>>, <<"borrow">>)
       /\ Ins.op = "BorrowIndex" => On(<<"borrow", "val">>, <<"borrow">>)
       /\ Ins.op \in {"WriteBorrowed", "ArithBorrowed"} => On(<<"borrow", "val">>, <<>>)
       /\ Ins.op = "Move" => On(<<"borrow">>, <<"val">>)
  BY ONLY <1>10, <1>11, <1>12, <1>13, <1>23, Zenon
<1>26. /\ Ins.op = "Jmp" => Leads(<<>>, <<>>, Ins.a)
       /\ Ins.op \in {"Jt", "Jf"} => On(<<"val">>, <<>>) /\ Leads(<<"val">>, <<>>, Ins.a)
       /\ Ins.op \in {"Jtsc", "Jfsc"} =>
            On(<<"val">>, <<>>) /\ Leads(<<"val">>, <<"val">>, Ins.a)
       /\ Ins.op = "BeginIter" => On(<<"val">>, <<"iter">>)
       /\ Ins.op = "NextOrJmp" => /\ Code[Top.f][Top.pc - 1].a \in VarPos(Top.f)
                                  /\ Code[Top.f][Top.pc - 1].b \in VarPos(Top.f)
                                  /\ On(<<"iter">>, <<"iter">>)
                                  /\ Leads(<<"iter">>, <<>>, Ins.a)
  BY ONLY <1>14, <1>15, <1>16, <1>17, <1>18, <1>23, Zenon
<1>27. /\ Ins.op = "Apply" => On(Vals(2), <<"val">>)
       /\ Ins.op \in {"Call", "Recurse"} => On(Vals(Ins.a + 1), <<"val">>)
       /\ Ins.op = "CreateClosure" =>
            \E g \in Func \ Main : Caps[g] = Ins.a /\ On(<<g>> \o Vals(Ins.a), <<"val">>)
       /\ Ins.op = "Return" =>
            IF Expects(Top) # <<>> THEN Sub(Expects(Top)[Len(Expects(Top))], "val")
            ELSE Fixed(Top.f) > 0 => Sub(VarKind(Top.f, Fixed(Top.f) - 1), "val")
  BY ONLY <1>19, <1>20, <1>21, <1>22, <1>23, Zenon
<1> QED BY ONLY <1>24, <1>25, <1>26, <1>27, Zenon

(* Sequences of one or two kinds, and of any number of values.             *)
LEMMA Kinds ==
  /\ <<>> \in Seq(Kind) /\ Len(<<>>) = 0
  /\ \A k \in Kind : <<k>> \in Seq(Kind) /\ Len(<<k>>) = 1
  /\ \A k, l \in Kind : <<k, l>> \in Seq(Kind) /\ Len(<<k, l>>) = 2
  /\ \A n \in Nat : /\ Vals(n) \in Seq(Kind) /\ Len(Vals(n)) = n
                    /\ \A i \in 1..n : Vals(n)[i] = "val"
  /\ "val" \in Kind /\ "iter" \in Kind /\ "borrow" \in Kind /\ Func \subseteq Kind
<1>1. "val" \in Kind /\ "iter" \in Kind /\ "borrow" \in Kind /\ Func \subseteq Kind
  BY DEF Kind
<1>2. ASSUME NEW n \in Nat
      PROVE  /\ Vals(n) \in Seq(Kind) /\ Len(Vals(n)) = n
             /\ \A i \in 1..n : Vals(n)[i] = "val"
  BY <1>1 DEF Vals, Repeat
<1>3. <<>> \in Seq(Kind) /\ Len(<<>>) = 0
  BY EmptySeq
<1> QED BY <1>1, <1>2, <1>3

(* No cell, or one that conforms.                                          *)
LEMMA FewCells ==
  ASSUME NEW fr \in Frame
  PROVE  /\ <<>> \in Seq(Cell) /\ AreOf(<<>>, <<>>, fr)
         /\ \A c : \A k \in Kind :
              Conforms(c, k, fr) => <<c>> \in Seq(Cell) /\ AreOf(<<c>>, <<k>>, fr)
<1>1. <<>> \in Seq(Cell) /\ AreOf(<<>>, <<>>, fr)
  BY DEF AreOf
<1>2. ASSUME NEW c, NEW k \in Kind, Conforms(c, k, fr)
      PROVE  <<c>> \in Seq(Cell) /\ AreOf(<<c>>, <<k>>, fr)
  BY <1>2, ConformsCell DEF AreOf
<1> QED BY <1>1, <1>2

(* The operands of the running frame's instruction.                        *)
LEMMA Taken ==
  ASSUME WellShaped, IInv, status = "running", history # "stale",
         NEW need \in Seq(Kind), NEW give \in Seq(Kind), NEW target, Leads(need, give, target)
  PROVE  /\ sp \in Nat /\ sp >= Len(need)
         /\ Base(Top) <= sp - Len(need)
         /\ \A i \in 1..Len(need) : Conforms(stack[sp - Len(need) + i - 1], need[i], Top)
<1>1. /\ Top \in Frame /\ sp \in 0..StackSize /\ sp \in Nat /\ Runs(stack, Top, sp)
      /\ Top.f \in Func
  BY WhileRunning
<1>2. Shape[Top.f][target] \in Seq(Kind) /\ Edge(Expects(Top), need, give, Shape[Top.f][target])
  BY <1>1, ShapeKinds DEF Leads
<1>3. /\ sp - Len(need) \in Nat /\ Base(Top) <= sp - Len(need)
      /\ \A i \in 1..Len(need) : Conforms(stack[sp - Len(need) + i - 1], need[i], Top)
  BY <1>1, <1>2, OperandsTaken
<1>4. sp >= Len(need)
  BY <1>1, <1>3, LenProperties
<1> QED BY <1>1, <1>3, <1>4

LEMMA TakenOne ==
  ASSUME WellShaped, IInv, status = "running", history # "stale",
         NEW k \in Kind, NEW give \in Seq(Kind), NEW target, Leads(<<k>>, give, target)
  PROVE  sp \in Nat /\ sp >= 1 /\ Base(Top) <= sp - 1 /\ Conforms(stack[sp - 1], k, Top)
<1>1. <<k>> \in Seq(Kind) /\ Len(<<k>>) = 1 /\ <<k>>[1] = k
  BY Kinds
<1>2. PICK n : n = <<k>>
  OBVIOUS
<1>3. /\ sp \in Nat /\ sp >= Len(n) /\ Base(Top) <= sp - Len(n)
      /\ \A i \in 1..Len(n) : Conforms(stack[sp - Len(n) + i - 1], n[i], Top)
  BY <1>1, <1>2, Taken
<1>4. sp - 1 + 1 - 1 = sp - 1
  BY <1>3
<1> QED BY <1>1, <1>2, <1>3, <1>4

LEMMA TakenTwo ==
  ASSUME WellShaped, IInv, status = "running", history # "stale",
         NEW k \in Kind, NEW l \in Kind, NEW give \in Seq(Kind), NEW target,
         Leads(<<k, l>>, give, target)
  PROVE  /\ sp \in Nat /\ sp >= 2
         /\ Conforms(stack[sp - 2], k, Top) /\ Conforms(stack[sp - 1], l, Top)
<1>1. <<k, l>> \in Seq(Kind) /\ Len(<<k, l>>) = 2 /\ <<k, l>>[1] = k /\ <<k, l>>[2] = l
  BY Kinds
<1>2. PICK n : n = <<k, l>>
  OBVIOUS
<1>3. /\ sp \in Nat /\ sp >= Len(n)
      /\ \A i \in 1..Len(n) : Conforms(stack[sp - Len(n) + i - 1], n[i], Top)
  BY <1>1, <1>2, Taken
<1>4. sp - 2 + 1 - 1 = sp - 2 /\ sp - 2 + 2 - 1 = sp - 1
  BY <1>3
<1> QED BY <1>1, <1>2, <1>3, <1>4

(* An instruction that leaves one cell, and one that leaves none.          *)
LEMMA OneLeft ==
  ASSUME WellShaped, IInv, status = "running", history # "stale",
         NEW need \in Seq(Kind), NEW k \in Kind, NEW target, Leads(need, <<k>>, target),
         NEW m \in [Addr -> Cell], SetsVariables(stack, m, Top),
         NEW c, Conforms(c, k, Top),
         NEW at, at = sp - Len(need), Put(m, at, <<c>>, Jump(target))
  PROVE  IInv' /\ Untouched
<1>1. Top \in Frame
  BY WhileRunning
<1>2. Moves(stack, Top, need, <<k>>, <<c>>, target, m)
  BY <1>1, FewCells, Kinds DEF Leads, Moves
<1> QED BY <1>2, InFrameKeeps

LEMMA NoneLeft ==
  ASSUME WellShaped, IInv, status = "running", history # "stale",
         NEW need \in Seq(Kind), NEW target, Leads(need, <<>>, target),
         NEW m \in [Addr -> Cell], SetsVariables(stack, m, Top),
         NEW at, at = sp - Len(need), Put(m, at, <<>>, Jump(target))
  PROVE  IInv' /\ Untouched
<1>1. Top \in Frame
  BY WhileRunning
<1>2. Moves(stack, Top, need, <<>>, <<>>, target, m)
  BY <1>1, FewCells, Kinds DEF Leads, Moves
<1> QED BY <1>2, InFrameKeeps

(* A variable or a constant of the running frame is of its kind.           *)
LEMMA VariableKind ==
  ASSUME WellShaped, NEW fr \in Frame, NEW m, HasVariables(m, fr),
         NEW i \in 0..(Fixed(fr.f) - 1)
  PROVE  /\ VarKind(fr.f, i) \in Kind
         /\ Conforms(m[fr.bp + i], VarKind(fr.f, i), fr)
<1>1. fr.f \in Func
  BY FrameParts
<1>2. CASE i \in VarPos(fr.f)
  BY <1>2, Kinds DEF HasVariables, VarKind, Conforms
<1>3. CASE i \notin VarPos(fr.f)
  <2>1. PICK c : c = Consts[fr.f][i - ConstPos(fr.f) + 1]
    OBVIOUS
  <2>2. m[fr.bp + i] = c
    BY <1>3, <2>1 DEF HasVariables
  <2>3. i - ConstPos(fr.f) + 1 \in DOMAIN Consts[fr.f]
    <3>1. /\ ConstPos(fr.f) \in Nat /\ LocalPos(fr.f) \in Nat /\ i \in Int
          /\ ConstPos(fr.f) + Len(Consts[fr.f]) = LocalPos(fr.f)
      BY <1>1, FrameSizes
    <3>2. i >= ConstPos(fr.f) /\ i < LocalPos(fr.f)
      BY <1>3, <3>1 DEF VarPos
    <3>3. Consts[fr.f] \in Seq(Cell)
      BY <1>1, ConstsAssumption
    <3>4. DOMAIN Consts[fr.f] = 1..Len(Consts[fr.f]) /\ Len(Consts[fr.f]) \in Nat
      BY <3>3, LenProperties
    <3>5. i - ConstPos(fr.f) + 1 \in 1..Len(Consts[fr.f])
      BY <3>1, <3>2, <3>4
    <3> QED BY <3>4, <3>5
  <2>4. c \in {Plain} \union {FuncCell(g) : g \in Func \ Main}
    BY <1>1, <2>1, <2>3 DEF WellShaped
  <2>5. CASE c = Plain
    <3>1. VarKind(fr.f, i) = "val"
      BY <1>3, <2>1, <2>5 DEF VarKind, Plain
    <3> QED BY <2>2, <2>5, <3>1, Kinds, ValueCells DEF Conforms
  <2>6. CASE c # Plain
    <3>1. PICK g \in Func : c = FuncCell(g)
      BY <2>4, <2>6
    <3>2. VarKind(fr.f, i) = g
      BY <1>3, <2>1, <3>1 DEF VarKind, FuncCell
    <3> QED BY <2>2, <3>1, <3>2, KindAssumption DEF Conforms, Kind
  <2> QED BY <2>5, <2>6
<1> QED BY <1>2, <1>3

(* Writing values to variables of the running frame.                       *)
LEMMA VariablesSet ==
  ASSUME NEW fr \in Frame, NEW m \in [Addr -> Cell]
  PROVE  /\ SetsVariables(m, m, fr)
         /\ \A i \in VarPos(fr.f) : \A v \in Values :
              /\ [m EXCEPT ![fr.bp + i] = v] \in [Addr -> Cell]
              /\ SetsVariables(m, [m EXCEPT ![fr.bp + i] = v], fr)
         /\ \A i, j \in VarPos(fr.f) : \A v, w \in Values :
              /\ [m EXCEPT ![fr.bp + i] = v, ![fr.bp + j] = w] \in [Addr -> Cell]
              /\ SetsVariables(m, [m EXCEPT ![fr.bp + i] = v, ![fr.bp + j] = w], fr)
<1>1. SetsVariables(m, m, fr)
  BY DEF SetsVariables
<1>2. ASSUME NEW i \in VarPos(fr.f), NEW v \in Values
      PROVE  /\ [m EXCEPT ![fr.bp + i] = v] \in [Addr -> Cell]
             /\ SetsVariables(m, [m EXCEPT ![fr.bp + i] = v], fr)
  BY ValueCells DEF SetsVariables
<1>3. ASSUME NEW i \in VarPos(fr.f), NEW j \in VarPos(fr.f), NEW v \in Values, NEW w \in Values
      PROVE  /\ [m EXCEPT ![fr.bp + i] = v, ![fr.bp + j] = w] \in [Addr -> Cell]
             /\ SetsVariables(m, [m EXCEPT ![fr.bp + i] = v, ![fr.bp + j] = w], fr)
  BY ValueCells DEF SetsVariables
<1> QED BY <1>1, <1>2, <1>3

-----------------------------------------------------------------------------
(* The actions.                                                            *)

LEMMA PushKeeps ==
  ASSUME WellShaped, IInv, history # "stale", Push
  PROVE  IInv' /\ Untouched
<1>1. status = "running" /\ Ins.op = "Push"
  BY DEF Push, At
<1>2. Top \in Frame /\ stack \in [Addr -> Cell] /\ sp \in Nat
  BY <1>1, WhileRunning
<1>3. Leads(<<>>, <<"val">>, Top.pc + 1)
  BY <1>1, Edges DEF On
<1>4. Put(stack, sp - 0, <<Plain>>, Jump(Top.pc + 1))
  BY DEF Push, Replace, Advance
<1>5. Conforms(Plain, "val", Top) /\ SetsVariables(stack, stack, Top)
  BY <1>2, ValueCells, VariablesSet DEF Conforms
<1> QED BY <1>1, <1>2, <1>3, <1>4, <1>5, Kinds, OneLeft

LEMMA PushVarKeeps ==
  ASSUME WellShaped, IInv, history # "stale", PushVar
  PROVE  IInv' /\ Untouched
<1>1. status = "running" /\ Ins.op = "PushVar"
  BY DEF PushVar, At
<1>2. /\ Top \in Frame /\ stack \in [Addr -> Cell] /\ sp \in Nat /\ Runs(stack, Top, sp)
      /\ HasVariables(stack, Top)
  BY <1>1, WhileRunning DEF Runs
<1>3. Ins.a \in 0..(Fixed(Top.f) - 1) /\ Leads(<<>>, <<VarKind(Top.f, Ins.a)>>, Top.pc + 1)
  BY <1>1, Edges DEF On
<1>4. /\ VarKind(Top.f, Ins.a) \in Kind
      /\ Conforms(stack[Top.bp + Ins.a], VarKind(Top.f, Ins.a), Top)
  BY <1>2, <1>3, VariableKind
<1>5. <<VarKind(Top.f, Ins.a)>> \in Seq(Kind)
  BY <1>4, Kinds
<1>6. sp >= 0 /\ Base(Top) <= sp - 0
  BY <1>1, <1>3, <1>5, Kinds, Taken
<1>7. ~(Top.bp + Ins.a >= sp)
  <2>1. Top.bp \in Nat /\ Fixed(Top.f) \in Nat /\ Base(Top) = Top.bp + Fixed(Top.f)
    BY <1>2, FrameParts
  <2> QED BY <1>2, <1>3, <1>6, <2>1
<1>8. Put(stack, sp - 0, <<stack[Top.bp + Ins.a]>>, Jump(Top.pc + 1))
  BY <1>7 DEF PushVar, Replace, Advance
<1>9. SetsVariables(stack, stack, Top)
  BY <1>2, VariablesSet
<1> QED BY <1>1, <1>2, <1>3, <1>4, <1>8, <1>9, Kinds, OneLeft

LEMMA OperateKeeps ==
  ASSUME WellShaped, IInv, history # "stale", Operate
  PROVE  IInv' /\ Untouched
<1>1. status = "running" /\ Ins.op \in Operators
  BY DEF Operate
<1>2. Top \in Frame /\ stack \in [Addr -> Cell] /\ sp \in Nat /\ Ins \in Instruction
  BY <1>1, WhileRunning
<1>3. PICK new \in Results(Ins) : Replace(Operands(Ins), new, Advance)
  BY DEF Operate
<1>4. Put(stack, sp - Operands(Ins), new, Jump(Top.pc + 1))
  BY <1>3 DEF Replace, Advance
<1>5. Operands(Ins) \in Nat
  BY <1>1, <1>2 DEF Operators, Operands, Instruction
<1>6. Vals(Operands(Ins)) \in Seq(Kind) /\ Len(Vals(Operands(Ins))) = Operands(Ins)
  BY <1>5, Kinds
<1>7. SetsVariables(stack, stack, Top)
  BY <1>2, VariablesSet
<1>8. CASE Ins.op \in {"Pop", "Print"}
  <2>1. new = <<>>
    BY <1>3, <1>8 DEF Results
  <2>2. Leads(Vals(Operands(Ins)), <<>>, Top.pc + 1)
    BY <1>1, <1>8, Edges DEF On
  <2> QED BY <1>1, <1>2, <1>4, <1>6, <1>7, <2>1, <2>2, NoneLeft
<1>9. CASE Ins.op \notin {"Pop", "Print"}
  <2>1. PICK v \in Values : new = <<v>>
    BY <1>3, <1>9, ValueCells DEF Results
  <2>2. Leads(Vals(Operands(Ins)), <<"val">>, Top.pc + 1)
    BY <1>1, <1>9, Edges DEF On
  <2>3. Conforms(v, "val", Top)
    BY DEF Conforms
  <2> QED BY <1>1, <1>2, <1>4, <1>6, <1>7, <2>1, <2>2, <2>3, Kinds, OneLeft
<1> QED BY <1>8, <1>9

LEMMA WriteVarKeeps ==
  ASSUME WellShaped, IInv, history # "stale", WriteVar
  PROVE  IInv' /\ Untouched
<1>1. status = "running" /\ Ins.op = "WriteVar"
  BY DEF WriteVar, At
<1>2. Top \in Frame /\ stack \in [Addr -> Cell] /\ sp \in Nat
  BY <1>1, WhileRunning
<1>3. Ins.a \in VarPos(Top.f) /\ Leads(<<"val">>, <<>>, Top.pc + 1)
  BY <1>1, Edges DEF On
<1>4. <<"val">> \in Seq(Kind) /\ Len(<<"val">>) = 1 /\ <<>> \in Seq(Kind)
  BY Kinds
<1>5. sp >= 1 /\ stack[sp - 1] \in Values
  <2>1. sp >= 1 /\ Conforms(stack[sp - 1], "val", Top)
    BY <1>1, <1>3, <1>4, Kinds, TakenOne
  <2> QED BY <2>1 DEF Conforms
<1>6. PICK m : m = [stack EXCEPT ![Top.bp + Ins.a] = stack[sp - 1]]
  OBVIOUS
<1>7. m \in [Addr -> Cell] /\ SetsVariables(stack, m, Top)
  BY <1>2, <1>3, <1>5, <1>6, VariablesSet
<1>8. Put(m, sp - 1, <<>>, Jump(Top.pc + 1))
  BY <1>5, <1>6 DEF WriteVar, Advance
<1> QED BY <1>1, <1>3, <1>4, <1>7, <1>8, NoneLeft

LEMMA BorrowVarKeeps ==
  ASSUME WellShaped, IInv, history # "stale", BorrowVar
  PROVE  IInv' /\ Untouched
<1>1. status = "running" /\ Ins.op = "BorrowVar"
  BY DEF BorrowVar, At
<1>2. Top \in Frame /\ stack \in [Addr -> Cell]
  BY <1>1, WhileRunning
<1>3. Ins.a \in VarPos(Top.f) /\ Leads(<<>>, <<"borrow">>, Top.pc + 1)
  BY <1>1, Edges DEF On
<1>4. Conforms(BorrowCell(Top.bp + Ins.a), "borrow", Top)
  BY <1>3 DEF Conforms
<1>5. Put(stack, sp - 0, <<BorrowCell(Top.bp + Ins.a)>>, Jump(Top.pc + 1))
  BY DEF BorrowVar, Replace, Advance
<1>6. SetsVariables(stack, stack, Top)
  BY <1>2, VariablesSet
<1> QED BY <1>1, <1>2, <1>3, <1>4, <1>5, <1>6, Kinds, OneLeft

(* What a borrow points at is a variable of the frame, or in the heap.     *)
LEMMA BorrowTarget ==
  ASSUME NEW fr \in Frame, NEW c, Conforms(c, "borrow", fr)
  PROVE  c.k = "borrow" /\ (c.n = InHeap \/ \E i \in VarPos(fr.f) : c.n = fr.bp + i)
BY DEF Conforms, BorrowCell

LEMMA BorrowIndexKeeps ==
  ASSUME WellShaped, IInv, history # "stale", BorrowIndex
  PROVE  IInv' /\ Untouched
<1>1. status = "running" /\ Ins.op = "BorrowIndex"
  BY DEF BorrowIndex, At
<1>2. Top \in Frame /\ stack \in [Addr -> Cell]
  BY <1>1, WhileRunning
<1>3. Leads(<<"borrow", "val">>, <<"borrow">>, Top.pc + 1)
  BY <1>1, Edges DEF On
<1>4. sp \in Nat /\ sp >= 2 /\ Conforms(stack[sp - 2], "borrow", Top)
  BY <1>1, <1>3, Kinds, TakenTwo
<1>5. stack[sp - 2].k = "borrow"
  BY <1>2, <1>4, BorrowTarget
<1>6. Put(stack, sp - 2, <<BorrowCell(InHeap)>>, Jump(Top.pc + 1))
  BY <1>4, <1>5 DEF BorrowIndex, Replace, Advance
<1>7. Conforms(BorrowCell(InHeap), "borrow", Top) /\ SetsVariables(stack, stack, Top)
  BY <1>2, VariablesSet DEF Conforms
<1>8. <<"borrow", "val">> \in Seq(Kind) /\ Len(<<"borrow", "val">>) = 2
  BY Kinds
<1> QED BY <1>1, <1>2, <1>3, <1>6, <1>7, <1>8, Kinds, OneLeft

(* Writing a value through one sets at most a variable.                    *)
LEMMA ThroughSets ==
  ASSUME NEW fr \in Frame, stack \in [Addr -> Cell], NEW t, NEW v \in Values,
         t = InHeap \/ \E i \in VarPos(fr.f) : t = fr.bp + i
  PROVE  Through(t, v) \in [Addr -> Cell] /\ SetsVariables(stack, Through(t, v), fr)
<1>1. CASE t = InHeap
  BY <1>1, VariablesSet DEF Through
<1>2. CASE t # InHeap
  <2>1. PICK i \in VarPos(fr.f) : t = fr.bp + i
    BY <1>2
  <2>2. Through(t, v) = [stack EXCEPT ![fr.bp + i] = v]
    BY <1>2, <2>1 DEF Through
  <2>3. /\ [stack EXCEPT ![fr.bp + i] = v] \in [Addr -> Cell]
        /\ SetsVariables(stack, [stack EXCEPT ![fr.bp + i] = v], fr)
    BY VariablesSet
  <2> QED BY <2>2, <2>3
<1> QED BY <1>1, <1>2

LEMMA WriteBorrowedKeeps ==
  ASSUME WellShaped, IInv, history # "stale", WriteBorrowed
  PROVE  IInv' /\ Untouched
<1>1. status = "running" /\ Ins.op \in {"WriteBorrowed", "ArithBorrowed"}
  BY DEF WriteBorrowed
<1>2. Top \in Frame /\ stack \in [Addr -> Cell]
  BY <1>1, WhileRunning
<1>3. Leads(<<"borrow", "val">>, <<>>, Top.pc + 1)
  BY <1>1, Edges DEF On
<1>4. /\ sp \in Nat /\ sp >= 2 /\ Conforms(stack[sp - 2], "borrow", Top)
      /\ Conforms(stack[sp - 1], "val", Top)
  BY <1>1, <1>3, Kinds, TakenTwo
<1>5. PICK t : t = stack[sp - 2].n
  OBVIOUS
<1>6. stack[sp - 2].k = "borrow" /\ (t = InHeap \/ \E i \in VarPos(Top.f) : t = Top.bp + i)
  BY <1>2, <1>4, <1>5, BorrowTarget
<1>7. PICK v : v = IF Ins.op = "WriteBorrowed" THEN stack[sp - 1] ELSE Plain
  OBVIOUS
<1>8. v \in Values
  BY <1>4, <1>7, ValueCells DEF Conforms
<1>9. Put(Through(t, v), sp - 2, <<>>, Jump(Top.pc + 1))
  BY <1>4, <1>5, <1>6, <1>7 DEF WriteBorrowed, Advance
<1>10. Through(t, v) \in [Addr -> Cell] /\ SetsVariables(stack, Through(t, v), Top)
  BY <1>2, <1>6, <1>8, ThroughSets
<1>11. <<"borrow", "val">> \in Seq(Kind) /\ Len(<<"borrow", "val">>) = 2
  BY Kinds
<1> QED BY <1>1, <1>3, <1>9, <1>10, <1>11, NoneLeft

LEMMA MoveKeeps ==
  ASSUME WellShaped, IInv, history # "stale", Move
  PROVE  IInv' /\ Untouched
<1>1. status = "running" /\ Ins.op = "Move"
  BY DEF Move, At
<1>2. Top \in Frame /\ stack \in [Addr -> Cell] /\ HasVariables(stack, Top)
  BY <1>1, WhileRunning DEF Runs
<1>3. Leads(<<"borrow">>, <<"val">>, Top.pc + 1)
  BY <1>1, Edges DEF On
<1>4. sp \in Nat /\ sp >= 1 /\ Conforms(stack[sp - 1], "borrow", Top)
  BY <1>1, <1>3, Kinds, TakenOne
<1>5. PICK t : t = stack[sp - 1].n
  OBVIOUS
<1>6. stack[sp - 1].k = "borrow" /\ (t = InHeap \/ \E i \in VarPos(Top.f) : t = Top.bp + i)
  BY <1>2, <1>4, <1>5, BorrowTarget
<1>7. PICK v \in (IF t = InHeap THEN Values ELSE {stack[t]}) :
        Put(Through(t, Plain), sp - 1, <<v>>, Jump(Top.pc + 1))
  <2>1. ~(sp < 1)
    BY <1>4
  <2>2. \E v \in (IF stack[sp - 1].n = InHeap THEN Values ELSE {stack[stack[sp - 1].n]}) :
          Put(Through(stack[sp - 1].n, Plain), sp - 1, <<v>>, Advance)
    BY <1>6, <2>1 DEF Move
  <2> QED BY <1>5, <2>2 DEF Advance
<1>8. v \in Values
  <2>1. CASE t = InHeap
    BY <1>7, <2>1
  <2>2. CASE t # InHeap
    <3>1. PICK i \in VarPos(Top.f) : t = Top.bp + i
      BY <1>6, <2>2
    <3>2. i \in 0..(Fixed(Top.f) - 1)
      BY <1>2, FrameParts
    <3> QED BY <1>2, <1>7, <2>2, <3>1, <3>2 DEF HasVariables
  <2> QED BY <2>1, <2>2
<1>9. Through(t, Plain) \in [Addr -> Cell] /\ SetsVariables(stack, Through(t, Plain), Top)
  BY <1>2, <1>6, ValueCells, ThroughSets
<1>10. Conforms(v, "val", Top)
  BY <1>8 DEF Conforms
<1>11. <<"borrow">> \in Seq(Kind) /\ Len(<<"borrow">>) = 1
  BY Kinds
<1> QED BY <1>1, <1>3, <1>7, <1>9, <1>10, <1>11, Kinds, OneLeft

LEMMA JmpKeeps ==
  ASSUME WellShaped, IInv, history # "stale", Jmp
  PROVE  IInv' /\ Untouched
<1>1. status = "running" /\ Ins.op = "Jmp"
  BY DEF Jmp, At
<1>2. Top \in Frame /\ stack \in [Addr -> Cell]
  BY <1>1, WhileRunning
<1>3. Leads(<<>>, <<>>, Ins.a)
  BY <1>1, Edges
<1>4. Put(stack, sp - 0, <<>>, Jump(Ins.a))
  BY DEF Jmp, Replace
<1>5. SetsVariables(stack, stack, Top)
  BY <1>2, VariablesSet
<1> QED BY <1>1, <1>2, <1>3, <1>4, <1>5, Kinds, NoneLeft

LEMMA JumpIfKeeps ==
  ASSUME WellShaped, IInv, history # "stale", JumpIf
  PROVE  IInv' /\ Untouched
<1>1. status = "running" /\ Ins.op \in {"Jt", "Jf", "Jtsc", "Jfsc"}
  BY DEF JumpIf
<1>2. /\ Top \in Frame /\ stack \in [Addr -> Cell]
      /\ SetsVariables(stack, stack, Top) /\ Conforms(Plain, "val", Top)
  BY <1>1, WhileRunning, VariablesSet, ValueCells DEF Conforms
<1>3. <<"val">> \in Seq(Kind) /\ Len(<<"val">>) = 1
  BY Kinds
<1>4. CASE Replace(1, <<>>, Advance)
  <2>1. Leads(<<"val">>, <<>>, Top.pc + 1)
    BY <1>1, Edges DEF On
  <2>2. Put(stack, sp - 1, <<>>, Jump(Top.pc + 1))
    BY <1>4 DEF Replace, Advance
  <2> QED BY <1>1, <1>2, <1>3, <2>1, <2>2, NoneLeft
<1>5. CASE Ins.op \in {"Jt", "Jf"} /\ Replace(1, <<>>, Jump(Ins.a))
  <2>1. Leads(<<"val">>, <<>>, Ins.a)
    BY <1>1, <1>5, Edges
  <2>2. Put(stack, sp - 1, <<>>, Jump(Ins.a))
    BY <1>5 DEF Replace
  <2> QED BY <1>1, <1>2, <1>3, <2>1, <2>2, NoneLeft
<1>6. CASE Ins.op \in {"Jtsc", "Jfsc"} /\ Replace(1, <<Plain>>, Jump(Ins.a))
  <2>1. Leads(<<"val">>, <<"val">>, Ins.a)
    BY <1>1, <1>6, Edges
  <2>2. Put(stack, sp - 1, <<Plain>>, Jump(Ins.a))
    BY <1>6 DEF Replace
  <2> QED BY <1>1, <1>2, <1>3, <2>1, <2>2, Kinds, OneLeft
<1> QED BY <1>1, <1>4, <1>5, <1>6 DEF JumpIf

LEMMA BeginIterKeeps ==
  ASSUME WellShaped, IInv, history # "stale", BeginIter
  PROVE  IInv' /\ Untouched
<1>1. status = "running" /\ Ins.op = "BeginIter"
  BY DEF BeginIter, At
<1>2. /\ Top \in Frame /\ stack \in [Addr -> Cell]
      /\ SetsVariables(stack, stack, Top) /\ Conforms(Iter, "iter", Top)
  BY <1>1, WhileRunning, VariablesSet DEF Conforms
<1>3. <<"val">> \in Seq(Kind) /\ Len(<<"val">>) = 1
  BY Kinds
<1>4. Leads(<<"val">>, <<"iter">>, Top.pc + 1)
  BY <1>1, Edges DEF On
<1>5. Put(stack, sp - 1, <<Iter>>, Jump(Top.pc + 1))
  BY DEF BeginIter, Replace, Advance
<1> QED BY <1>1, <1>2, <1>3, <1>4, <1>5, Kinds, OneLeft

(* Taking an iterator and leaving it is leaving it where it is.            *)
LEMMA IterKept ==
  ASSUME NEW S \in Seq(Kind), NEW T \in Seq(Kind), Edge(S, <<"iter">>, <<"iter">>, T)
  PROVE  Edge(S, <<>>, <<>>, T)
<1>1. /\ Len(S) \in Nat /\ Len(T) \in Nat /\ Len(S) - 1 >= 0 /\ Len(T) = Len(S) - 1 + 1
      /\ \A i \in 1..(Len(S) - 1) : Sub(S[i], T[i])
      /\ Sub(S[Len(S) - 1 + 1], "iter") /\ Sub("iter", T[Len(S) - 1 + 1])
  BY LenProperties DEF Edge
<1>2. Len(S) - 1 + 1 = Len(S) /\ Len(T) = Len(S)
  BY <1>1
<1>3. S[Len(S)] = "iter" /\ T[Len(S)] = "iter"
  BY <1>1, <1>2, KindAssumption DEF Sub
<1>4. ASSUME NEW i \in 1..Len(S) PROVE Sub(S[i], T[i])
  <2>1. i \in 1..(Len(S) - 1) \/ i = Len(S)
    BY <1>1
  <2> QED BY <1>1, <1>3, <2>1 DEF Sub
<1> QED BY <1>1, <1>2, <1>4 DEF Edge

LEMMA NextOrJmpKeeps ==
  ASSUME WellShaped, IInv, history # "stale", NextOrJmp
  PROVE  IInv' /\ Untouched
<1>1. status = "running" /\ Ins.op = "NextOrJmp"
  BY DEF NextOrJmp, At
<1>2. /\ Top \in Frame /\ stack \in [Addr -> Cell] /\ SetsVariables(stack, stack, Top)
  BY <1>1, WhileRunning, VariablesSet
<1>3. PICK loop : loop = Code[Top.f][Top.pc - 1]
  OBVIOUS
<1>4. /\ loop.a \in VarPos(Top.f) /\ loop.b \in VarPos(Top.f)
      /\ Leads(<<"iter">>, <<"iter">>, Top.pc + 1) /\ Leads(<<"iter">>, <<>>, Ins.a)
  BY <1>1, <1>3, Edges DEF On
<1>5. <<"iter">> \in Seq(Kind) /\ Len(<<"iter">>) = 1
  BY Kinds
<1>6. sp \in Nat /\ sp >= 1 /\ stack[sp - 1] = Iter
  <2>1. sp \in Nat /\ sp >= 1 /\ Conforms(stack[sp - 1], "iter", Top)
    BY <1>1, <1>4, <1>5, Kinds, TakenOne
  <2> QED BY <2>1 DEF Conforms
<1>7. \/ Put(stack, sp - 1, <<>>, Jump(Ins.a))
      \/ \E v \in Values :
           Put([stack EXCEPT ![Top.bp + loop.a] = Plain, ![Top.bp + loop.b] = v],
               sp, <<>>, Jump(Top.pc + 1))
  BY <1>3, <1>6 DEF NextOrJmp, Replace, Advance, Iter
<1>8. CASE Put(stack, sp - 1, <<>>, Jump(Ins.a))
  BY <1>1, <1>2, <1>4, <1>5, <1>8, NoneLeft
<1>9. ASSUME NEW v \in Values,
             Put([stack EXCEPT ![Top.bp + loop.a] = Plain, ![Top.bp + loop.b] = v],
                 sp, <<>>, Jump(Top.pc + 1))
      PROVE  IInv' /\ Untouched
  <2>1. PICK m : m = [stack EXCEPT ![Top.bp + loop.a] = Plain, ![Top.bp + loop.b] = v]
    OBVIOUS
  <2>2. m \in [Addr -> Cell] /\ SetsVariables(stack, m, Top)
    BY <1>2, <1>4, <2>1, ValueCells, VariablesSet
  <2>3. Leads(<<>>, <<>>, Top.pc + 1)
    <3>1. /\ Top.pc + 1 \in DOMAIN Code[Top.f]
          /\ Edge(Expects(Top), <<"iter">>, <<"iter">>, Shape[Top.f][Top.pc + 1])
      BY <1>4 DEF Leads
    <3>2. Expects(Top) \in Seq(Kind) /\ Shape[Top.f][Top.pc + 1] \in Seq(Kind)
      BY <1>1, <3>1, WhileRunning, ShapeKinds
    <3> QED BY <3>1, <3>2, IterKept DEF Leads
  <2>4. Put(m, sp - 0, <<>>, Jump(Top.pc + 1))
    BY <1>6, <1>9, <2>1
  <2> QED BY <1>1, <2>2, <2>3, <2>4, Kinds, NoneLeft
<1> QED BY <1>7, <1>8, <1>9

(* An error leaves the frames and takes one cell off the stack.            *)
LEMMA RaiseKeeps ==
  ASSUME WellShaped, IInv, status = "running", history # "stale", sp >= 1, Raise
  PROVE  IInv' /\ Untouched
<1>1. /\ TypeOK /\ Fits(stack, sp, frames) /\ sp \in Nat /\ sp \in 0..StackSize
      /\ stack \in [Addr -> Cell]
  BY WhileRunning
<1>2. /\ stack' = Splice(stack, sp - 1, <<>>) /\ sp' = sp - 1 /\ status' = "idle"
      /\ history' = "failed" /\ UNCHANGED <<frames, executes>>
  BY <1>1 DEF Raise
<1>3. stack' \in [Addr -> Cell] /\ sp' \in 0..StackSize
  <2>1. sp - 1 \in Nat /\ <<>> \in Seq(Cell)
    BY <1>1
  <2>2. Splice(stack, sp - 1, <<>>) \in [Addr -> Cell]
    BY <1>1, <2>1, SpliceCells
  <2>3. sp - 1 \in 0..StackSize
    BY <1>1, MachineAssumption
  <2> QED BY <1>2, <2>2, <2>3
<1>4. frames # <<>>
  BY <1>1, EmptySeq DEF Fits
<1>5. TypeOK'
  BY <1>1, <1>2, <1>3 DEF TypeOK
<1>6. Top.bp \in Int /\ Top.bp - 1 <= sp - 1 /\ Top' = Top
  <2>1. /\ Top \in Frame /\ Expects(Top) \in Seq(Kind)
        /\ Base(Top) + Len(Expects(Top)) = sp
    BY WhileRunning DEF Runs, FitsRunning
  <2>2. Top.bp \in Nat /\ Base(Top) \in Nat /\ Top.bp <= Base(Top)
    BY <2>1, FrameParts
  <2> QED BY <1>1, <1>2, <2>1, <2>2, LenProperties DEF Top
<1>7. Untouched
  <2>1. PICK m, at : m = Splice(stack, at, <<>>) /\ at = sp - 1
    OBVIOUS
  <2>2. at \in Nat /\ stack' = m /\ Top.bp - 1 <= at
    BY <1>1, <1>2, <1>6, <2>1
  <2>3. \A i \in Addr : i < at => m[i] = stack[i]
    BY <2>1 DEF Splice
  <2> QED BY <1>6, <2>2, <2>3, LeavesCallers
<1>8. status' = "idle" /\ frames' # <<>> => (Top.bp - 1 <= sp)'
  BY <1>2, <1>6
<1> QED BY <1>2, <1>4, <1>5, <1>7, <1>8 DEF IInv, CleanWhenIdle, NoMisuse, Undefined

LEMMA FailKeeps ==
  ASSUME WellShaped, IInv, history # "stale", Fail
  PROVE  IInv' /\ Untouched
<1>1. status = "running" /\ Ins.op \in MayRaise /\ Raise /\ (Ins.op = "CreateTable" => Ins.a > 0)
  BY DEF Fail
<1>2. Ins \in Instruction
  BY <1>1, WhileRunning
<1>3. sp >= 1
  <2>1. CASE Ins.op \in Operators
    <3>1. Ins.op \notin {"Pop", "Print"}
      BY <1>1 DEF MayRaise
    <3>2. Operands(Ins) \in Nat /\ Operands(Ins) >= 1
      BY <1>1, <1>2, <2>1, <3>1 DEF Operators, Operands, Instruction, MayRaise
    <3>3. Vals(Operands(Ins)) \in Seq(Kind) /\ Len(Vals(Operands(Ins))) = Operands(Ins)
      BY <3>2, Kinds
    <3>4. Leads(Vals(Operands(Ins)), <<"val">>, Top.pc + 1)
      BY <1>1, <2>1, <3>1, Edges DEF On
    <3>5. sp \in Nat /\ sp >= Operands(Ins)
      BY <1>1, <3>3, <3>4, Kinds, Taken
    <3> QED BY <3>2, <3>5
  <2>2. CASE Ins.op = "ArithBorrowed"
    <3>1. Leads(<<"borrow", "val">>, <<>>, Top.pc + 1)
      BY <1>1, <2>2, Edges DEF On
    <3> QED BY <1>1, <3>1, Kinds, TakenTwo
  <2>3. CASE Ins.op = "BorrowIndex"
    <3>1. Leads(<<"borrow", "val">>, <<"borrow">>, Top.pc + 1)
      BY <1>1, <2>3, Edges DEF On
    <3>2. PICK give : give = <<"borrow">>
      OBVIOUS
    <3>3. give \in Seq(Kind) /\ "borrow" \in Kind /\ "val" \in Kind
      BY <3>2, Kinds
    <3>4. Leads(<<"borrow", "val">>, give, Top.pc + 1)
      BY <3>1, <3>2
    <3>5. sp \in Nat /\ sp >= 2
      BY <1>1, <3>3, <3>4, TakenTwo
    <3> QED BY <3>5
  <2>4. CASE Ins.op \in {"Jt", "Jf", "Jtsc", "Jfsc"}
    <3>1. Leads(<<"val">>, <<>>, Top.pc + 1)
      BY <1>1, <2>4, Edges DEF On
    <3> QED BY <1>1, <3>1, Kinds, TakenOne
  <2> QED BY <1>1, <2>1, <2>2, <2>3, <2>4 DEF MayRaise, Operators
<1> QED BY <1>1, <1>3, RaiseKeeps

(* The cells a caller gives its callee: the callee, then its arguments.    *)
LEMMA CalleeCells ==
  ASSUME WellShaped, IInv, status = "running", history # "stale",
         NEW n \in Nat, NEW target, Leads(Vals(n + 1), <<"val">>, target)
  PROVE  /\ sp \in Nat /\ sp >= n + 1
         /\ stack[sp - n - 1] \in Values
         /\ \A i \in 1..n : stack[sp - n + i - 1] \in Values
<1>1. /\ Vals(n + 1) \in Seq(Kind) /\ Len(Vals(n + 1)) = n + 1
      /\ \A i \in 1..(n + 1) : Vals(n + 1)[i] = "val"
  BY Kinds
<1>2. PICK need : need = Vals(n + 1)
  OBVIOUS
<1>3. /\ sp \in Nat /\ sp >= Len(need)
      /\ \A i \in 1..Len(need) : Conforms(stack[sp - Len(need) + i - 1], need[i], Top)
  BY <1>1, <1>2, Kinds, Taken
<1>4. sp >= n + 1
  BY <1>1, <1>2, <1>3
<1>5. \A i \in 1..(n + 1) : stack[sp - (n + 1) + i - 1] \in Values
  BY <1>1, <1>2, <1>3 DEF Conforms
<1>6. stack[sp - n - 1] \in Values
  <2>1. 1 \in 1..(n + 1) /\ sp - (n + 1) + 1 - 1 = sp - n - 1
    BY <1>3
  <2> QED BY <1>5, <2>1
<1>7. ASSUME NEW i \in 1..n PROVE stack[sp - n + i - 1] \in Values
  <2>1. i + 1 \in 1..(n + 1) /\ sp - (n + 1) + (i + 1) - 1 = sp - n + i - 1
    BY <1>3
  <2> QED BY <1>5, <2>1
<1> QED BY <1>3, <1>4, <1>6, <1>7

(* A call of n arguments enters its callee.                                *)
LEMMA EnterKeeps ==
  ASSUME WellShaped, IInv, status = "running", history # "stale",
         Ins.op \in {"Apply", "Call", "Recurse"},
         NEW n \in Nat, On(Vals(n + 1), <<"val">>),
         NEW f \in Func, NEW before \in Seq(Values), NEW at \in Nat,
         at <= sp, sp - n <= at, sp - n + ConstPos(f) = at + Len(before),
         PushFunction(f, before, at)
  PROVE  IInv' /\ Untouched
<1>1. PICK need : need = Vals(n + 1)
  OBVIOUS
<1>2. /\ need \in Seq(Kind) /\ Len(need) = n + 1 /\ \A i \in 1..Len(need) : need[i] = "val"
  BY <1>1, Kinds
<1>3. /\ Top.pc + 1 \in DOMAIN Code[Top.f]
      /\ Edge(Expects(Top), need, <<"val">>, Awaits(Top))
  BY <1>1 DEF On, Leads, Awaits
<1>4. sp \in Nat
  BY WhileRunning
<1>5. sp - Len(need) + 1 = sp - n
  BY <1>2, <1>4
<1>6. Len(need) > 0
  BY <1>2
<1> QED BY <1>2, <1>3, <1>5, <1>6, CallKeeps

LEMMA ApplyKeeps ==
  ASSUME WellShaped, IInv, history # "stale", Apply
  PROVE  IInv' /\ Untouched
<1>1. status = "running" /\ Ins.op = "Apply"
  BY DEF Apply, At
<1>2. Top \in Frame /\ stack \in [Addr -> Cell] /\ SetsVariables(stack, stack, Top)
  BY <1>1, WhileRunning, VariablesSet
<1>3. On(Vals(1 + 1), <<"val">>) /\ Leads(Vals(1 + 1), <<"val">>, Top.pc + 1)
  <2>1. 1 + 1 = 2
    OBVIOUS
  <2> QED BY <1>1, <2>1, Edges DEF On
<1>4. PICK c : c = stack[sp - 2]
  OBVIOUS
<1>5. sp \in Nat /\ sp >= 2 /\ c \in Values
  <2>1. 1 \in Nat
    OBVIOUS
  <2>2. sp \in Nat /\ sp >= 1 + 1 /\ stack[sp - 1 - 1] \in Values
    BY <1>1, <1>3, <2>1, CalleeCells
  <2>3. sp - 1 - 1 = sp - 2
    BY <2>2
  <2> QED BY <1>4, <2>2, <2>3
<1>6. /\ c.k = "func" => c.f \in Func \ Main /\ Caps[c.f] = 0
      /\ c.k = "partial" => c.f \in Func \ Main /\ c.n \in 0..Args[c.f]
  BY <1>5, ValueCells
<1>7. \/ Raise
      \/ c.k = "func" /\ Args[c.f] = 1 /\ PushFunction(c.f, <<>>, sp)
      \/ /\ c.k = "func" /\ Args[c.f] > 1
         /\ Put(stack, sp - 2, <<PartialCell(c.f, Args[c.f] - 1)>>, Jump(Top.pc + 1))
      \/ /\ c.k = "partial" /\ c.n = 1
         /\ \E bound \in [1..ConstPos(c.f) -> Values] : PushFunction(c.f, bound, sp - 1)
      \/ /\ c.k = "partial" /\ c.n > 1
         /\ Put(stack, sp - 2, <<PartialCell(c.f, c.n - 1)>>, Jump(Top.pc + 1))
  <2>1. ~(sp < 2)
    BY <1>5
  <2>2. CASE c.k = "func"
    <3>1. Args[c.f] \in Nat
      BY <1>6, <2>2, ProgramAssumption
    <3>2. Args[c.f] = 0 \/ Args[c.f] = 1 \/ Args[c.f] > 1
      BY <3>1
    <3> QED BY <1>4, <2>1, <2>2, <3>1, <3>2 DEF Apply, Replace, Advance
  <2>3. CASE c.k = "partial"
    <3>1. c.n \in Nat
      BY <1>6, <2>3, ProgramAssumption
    <3>2. c.n = 0 \/ c.n = 1 \/ c.n > 1
      BY <3>1
    <3> QED BY <1>4, <2>1, <2>3, <3>1, <3>2 DEF Apply, Replace, Advance
  <2>4. CASE c.k \notin {"func", "partial"}
    BY <1>4, <2>1, <2>4 DEF Apply
  <2> QED BY <2>2, <2>3, <2>4
<1>8. CASE Raise
  <2>1. sp >= 1
    BY <1>5
  <2> QED BY <1>1, <1>8, <2>1, RaiseKeeps
<1>9. CASE c.k = "func" /\ Args[c.f] = 1 /\ PushFunction(c.f, <<>>, sp)
  <2>1. c.f \in Func /\ ConstPos(c.f) = 1 + 0
    BY <1>6, <1>9, FrameSizes
  <2>2. /\ <<>> \in Seq(Values) /\ sp <= sp /\ sp - 1 <= sp
        /\ sp - 1 + ConstPos(c.f) = sp + Len(<<>>)
    BY <1>5, <2>1
  <2> QED BY <1>1, <1>3, <1>5, <1>9, <2>1, <2>2, EnterKeeps
<1>10. ASSUME c.k = "partial", c.n = 1, NEW bound \in [1..ConstPos(c.f) -> Values],
              PushFunction(c.f, bound, sp - 1)
       PROVE  IInv' /\ Untouched
  <2>1. c.f \in Func /\ ConstPos(c.f) \in Nat
    BY <1>6, <1>10, FrameSizes
  <2>2. bound \in Seq(Values) /\ Len(bound) = ConstPos(c.f)
    BY <2>1
  <2>3. /\ sp - 1 \in Nat /\ sp - 1 <= sp /\ sp - 1 <= sp - 1
        /\ sp - 1 + ConstPos(c.f) = sp - 1 + Len(bound)
    BY <1>5, <2>2
  <2> QED BY <1>1, <1>3, <1>10, <2>1, <2>2, <2>3, EnterKeeps
<1>11. ASSUME NEW p \in Values, Put(stack, sp - 2, <<p>>, Jump(Top.pc + 1))
       PROVE  IInv' /\ Untouched
  <2>1. Conforms(p, "val", Top)
    BY DEF Conforms
  <2>2. Vals(1 + 1) \in Seq(Kind) /\ Len(Vals(1 + 1)) = 2
    <3>1. 1 + 1 \in Nat /\ 1 + 1 = 2
      OBVIOUS
    <3> QED BY <3>1, Kinds
  <2> QED BY <1>1, <1>2, <1>3, <1>11, <2>1, <2>2, Kinds, OneLeft
<1>12. CASE /\ c.k = "func" /\ Args[c.f] > 1
            /\ Put(stack, sp - 2, <<PartialCell(c.f, Args[c.f] - 1)>>, Jump(Top.pc + 1))
  <2>1. Args[c.f] \in Nat /\ c.f \in Func \ Main
    BY <1>6, <1>12, ProgramAssumption
  <2>2. Args[c.f] - 1 \in 0..Args[c.f]
    BY <1>12, <2>1
  <2>3. PartialCell(c.f, Args[c.f] - 1) \in Values
    BY <2>1, <2>2, ValueCells
  <2> QED BY <1>11, <1>12, <2>3
<1>13. CASE /\ c.k = "partial" /\ c.n > 1
            /\ Put(stack, sp - 2, <<PartialCell(c.f, c.n - 1)>>, Jump(Top.pc + 1))
  <2>1. c.f \in Func \ Main /\ c.n \in 0..Args[c.f] /\ Args[c.f] \in Nat
    BY <1>6, <1>13, ProgramAssumption
  <2>2. c.n - 1 \in 0..Args[c.f]
    BY <1>13, <2>1
  <2>3. PartialCell(c.f, c.n - 1) \in Values
    BY <2>1, <2>2, ValueCells
  <2> QED BY <1>11, <1>13, <2>3
<1> QED BY <1>7, <1>8, <1>9, <1>10, <1>12, <1>13

LEMMA CreateClosureKeeps ==
  ASSUME WellShaped, IInv, history # "stale", CreateClosure
  PROVE  IInv' /\ Untouched
<1>1. status = "running" /\ Ins.op = "CreateClosure"
  BY DEF CreateClosure, At
<1>2. /\ Top \in Frame /\ stack \in [Addr -> Cell] /\ SetsVariables(stack, stack, Top)
      /\ Ins \in Instruction
  BY <1>1, WhileRunning, VariablesSet
<1>3. PICK g \in Func \ Main : Caps[g] = Ins.a /\ Leads(<<g>> \o Vals(Ins.a), <<"val">>, Top.pc + 1)
  BY <1>1, Edges DEF On
<1>4. PICK need, a : need = <<g>> \o Vals(Ins.a) /\ a = Ins.a
  OBVIOUS
<1>5. need \in Seq(Kind) /\ Len(need) = a + 1 /\ need[1] = g /\ a \in Nat
  <2>1. a \in Nat
    BY <1>2, <1>4 DEF Instruction
  <2>2. <<g>> \in Seq(Kind) /\ Vals(a) \in Seq(Kind) /\ Len(<<g>>) = 1 /\ Len(Vals(a)) = a
    BY <2>1, Kinds
  <2>3. /\ need \in Seq(Kind) /\ Len(need) = Len(<<g>>) + Len(Vals(a))
        /\ \A i \in 1..Len(<<g>>) : need[i] = <<g>>[i]
    BY <1>4, <2>2, ConcatParts
  <2> QED BY <2>1, <2>2, <2>3
<1>6. /\ sp \in Nat /\ sp >= Len(need)
      /\ \A i \in 1..Len(need) : Conforms(stack[sp - Len(need) + i - 1], need[i], Top)
  BY <1>1, <1>3, <1>4, <1>5, Kinds, Taken
<1>7. PICK c : c = stack[sp - a - 1]
  OBVIOUS
<1>8. sp >= a + 1 /\ c = FuncCell(g)
  <2>1. 1 \in 1..Len(need) /\ sp - Len(need) + 1 - 1 = sp - a - 1 /\ sp >= a + 1
    BY <1>5, <1>6
  <2>2. Conforms(c, g, Top)
    BY <1>5, <1>6, <1>7, <2>1
  <2> QED BY <2>1, <2>2, KindAssumption DEF Conforms
<1>9. Put(stack, sp - (a + 1), <<PartialCell(g, Args[g])>>, Jump(Top.pc + 1))
  <2>1. ~(sp < a + 1) /\ c.k = "func" /\ c.f = g /\ Caps[g] = a
    BY <1>3, <1>4, <1>5, <1>6, <1>8 DEF FuncCell
  <2> QED BY <1>4, <1>7, <2>1 DEF CreateClosure, Replace, Advance
<1>10. Conforms(PartialCell(g, Args[g]), "val", Top)
  <2>1. Args[g] \in 0..Args[g]
    BY ProgramAssumption
  <2> QED BY <2>1, ValueCells DEF Conforms
<1> QED BY <1>1, <1>2, <1>3, <1>4, <1>5, <1>9, <1>10, Kinds, OneLeft

LEMMA CallInsKeeps ==
  ASSUME WellShaped, IInv, history # "stale", Call
  PROVE  IInv' /\ Untouched
<1>1. status = "running" /\ Ins.op = "Call"
  BY DEF Call, At
<1>2. PICK a : a = Ins.a
  OBVIOUS
<1>3. a \in Nat /\ On(Vals(a + 1), <<"val">>) /\ Leads(Vals(a + 1), <<"val">>, Top.pc + 1)
  BY <1>1, <1>2, WhileRunning, Edges DEF On, Instruction
<1>4. PICK c : c = stack[sp - a - 1]
  OBVIOUS
<1>5. sp \in Nat /\ sp >= a + 1 /\ c \in Values
  BY <1>1, <1>3, <1>4, CalleeCells
<1>6. /\ c.k = "func" => c.f \in Func \ Main /\ Caps[c.f] = 0
      /\ c.k = "partial" => c.f \in Func \ Main
  BY <1>5, ValueCells
<1>7. \/ Raise \/ Stop("misbound")
      \/ c.k = "func" /\ Args[c.f] = a /\ PushFunction(c.f, <<>>, sp)
      \/ /\ c.k = "partial" /\ Args[c.f] = a
         /\ \E captured \in [1..Caps[c.f] -> Values] : PushFunction(c.f, captured, sp)
  <2>1. ~(sp < a + 1)
    BY <1>3, <1>5
  <2> QED BY <1>2, <1>4, <2>1 DEF Call
<1>8. CASE Raise
  <2>1. sp >= 1
    BY <1>3, <1>5
  <2> QED BY <1>1, <1>8, <2>1, RaiseKeeps
<1>9. CASE Stop("misbound")
  BY <1>1, <1>9, StopKeeps
<1>10. CASE c.k = "func" /\ Args[c.f] = a /\ PushFunction(c.f, <<>>, sp)
  <2>1. c.f \in Func /\ ConstPos(c.f) = a + 0
    BY <1>6, <1>10, FrameSizes
  <2>2. /\ <<>> \in Seq(Values) /\ sp <= sp /\ sp - a <= sp
        /\ sp - a + ConstPos(c.f) = sp + Len(<<>>)
    BY <1>3, <1>5, <2>1
  <2> QED BY <1>1, <1>3, <1>5, <1>10, <2>1, <2>2, EnterKeeps
<1>11. ASSUME c.k = "partial", Args[c.f] = a, NEW captured \in [1..Caps[c.f] -> Values],
              PushFunction(c.f, captured, sp)
       PROVE  IInv' /\ Untouched
  <2>1. c.f \in Func /\ Caps[c.f] \in Nat /\ ConstPos(c.f) = a + Caps[c.f]
    BY <1>6, <1>11, FrameSizes, ProgramAssumption
  <2>2. captured \in Seq(Values) /\ Len(captured) = Caps[c.f]
    BY <2>1
  <2>3. /\ sp <= sp /\ sp - a <= sp
        /\ sp - a + ConstPos(c.f) = sp + Len(captured)
    BY <1>3, <1>5, <2>1, <2>2
  <2> QED BY <1>1, <1>3, <1>5, <1>11, <2>1, <2>2, <2>3, EnterKeeps
<1> QED BY <1>7, <1>8, <1>9, <1>10, <1>11

LEMMA RecurseKeeps ==
  ASSUME WellShaped, IInv, history # "stale", Recurse
  PROVE  IInv' /\ Untouched
<1>1. status = "running" /\ Ins.op = "Recurse"
  BY DEF Recurse, At
<1>2. PICK a, f : a = Ins.a /\ f = Top.f
  OBVIOUS
<1>3. /\ a \in Nat /\ On(Vals(a + 1), <<"val">>) /\ Leads(Vals(a + 1), <<"val">>, Top.pc + 1)
      /\ f \in Func /\ HasVariables(stack, Top) /\ Top \in Frame
  BY <1>1, <1>2, WhileRunning, Edges DEF On, Instruction, Runs
<1>4. sp \in Nat /\ sp >= a + 1
  BY <1>1, <1>3, CalleeCells
<1>5. CASE Args[f] # a
  <2>1. Raise /\ sp >= 1
    BY <1>2, <1>3, <1>4, <1>5 DEF Recurse
  <2> QED BY <1>1, <2>1, RaiseKeeps
<1>6. CASE Args[f] = a
  <2>1. PICK captured : captured = [i \in 1..Caps[f] |-> stack[Top.bp + a + i - 1]]
    OBVIOUS
  <2>2. PushFunction(f, captured, sp)
    BY <1>2, <1>6, <2>1 DEF Recurse
  <2>3. /\ Caps[f] \in Nat /\ ConstPos(f) = a + Caps[f] /\ ConstPos(f) \in Nat
        /\ Fixed(f) \in Nat /\ ConstPos(f) <= Fixed(f)
    <3>1. /\ Caps[f] \in Nat /\ ConstPos(f) = a + Caps[f] /\ ConstPos(f) \in Nat
          /\ Fixed(f) \in Nat /\ LocalPos(f) \in Nat
          /\ ConstPos(f) + Len(Consts[f]) = LocalPos(f) /\ LocalPos(f) + Locals[f] = Fixed(f)
      BY <1>3, <1>6, FrameSizes, ProgramAssumption
    <3>2. Len(Consts[f]) \in Nat /\ Locals[f] \in Nat
      <4>1. Consts[f] \in Seq(Cell) /\ Locals[f] \in Nat
        BY <1>3, ProgramAssumption, ConstsAssumption
      <4> QED BY <4>1, LenProperties
    <3> QED BY <3>1, <3>2
  <2>4. ASSUME NEW i \in 1..Caps[f] PROVE stack[Top.bp + a + i - 1] \in Values
    <3>1. a + i - 1 \in 0..(Fixed(f) - 1) /\ a + i - 1 < ConstPos(f)
      BY <1>3, <2>3
    <3>2. a + i - 1 \in VarPos(f)
      BY <3>1 DEF VarPos
    <3>3. stack[Top.bp + (a + i - 1)] \in Values
      BY <1>2, <1>3, <3>1, <3>2 DEF HasVariables
    <3>4. Top.bp + (a + i - 1) = Top.bp + a + i - 1
      BY <1>3, FrameParts
    <3> QED BY <3>3, <3>4
  <2>5. captured \in Seq(Values) /\ Len(captured) = Caps[f]
    BY <2>1, <2>3, <2>4
  <2>6. sp <= sp /\ sp - a <= sp /\ sp - a + ConstPos(f) = sp + Len(captured)
    BY <1>3, <1>4, <2>3, <2>5
  <2> QED BY <1>1, <1>3, <1>4, <2>2, <2>5, <2>6, EnterKeeps
<1> QED BY <1>5, <1>6

(* The value a function returns is a value of the language.                *)
LEMMA ResultIsValue ==
  ASSUME WellShaped, IInv, status = "running", history # "stale",
         Ins.op = "Return", sp > Top.bp
  PROVE  stack[sp - 1] \in Values
<1>1. PICK S, m, fr, base : S = Expects(Top) /\ m = stack /\ fr = Top /\ base = Base(Top)
  OBVIOUS
<1>2. /\ fr \in Frame /\ fr.f \in Func /\ S \in Seq(Kind) /\ sp \in Nat
      /\ HasOperands(m, fr, S, Len(S)) /\ HasVariables(m, fr) /\ base + Len(S) = sp
  BY <1>1, WhileRunning DEF Runs, FitsRunning
<1>3. /\ fr.bp \in Nat /\ base \in Nat /\ Fixed(fr.f) \in Nat /\ base = fr.bp + Fixed(fr.f)
  BY <1>1, <1>2, FrameParts
<1>4. IF S # <<>> THEN Sub(S[Len(S)], "val")
      ELSE Fixed(fr.f) > 0 => Sub(VarKind(fr.f, Fixed(fr.f) - 1), "val")
  BY <1>1, Edges
<1>5. CASE S # <<>>
  <2>1. Len(S) \in 1..Len(S) /\ Len(S) \in Nat
    BY <1>2, <1>5, EmptySeq
  <2>2. base + Len(S) - 1 = sp - 1
    BY <1>2, <1>3, <2>1
  <2>3. Conforms(m[sp - 1], S[Len(S)], fr) /\ S[Len(S)] \in Kind
    <3>1. Conforms(m[base + Len(S) - 1], S[Len(S)], fr)
      BY <1>1, <1>2, <2>1 DEF HasOperands
    <3> QED BY <1>2, <2>1, <2>2, <3>1, ElementOfSeq
  <2>4. Conforms(m[sp - 1], "val", fr)
    BY <1>4, <1>5, <2>3, Kinds, SubConforms
  <2> QED BY <1>1, <2>4 DEF Conforms
<1>6. CASE S = <<>>
  <2>1. sp = fr.bp + Fixed(fr.f)
    BY <1>2, <1>3, <1>6
  <2>2. fr.bp < sp
    BY <1>1, <1>2, <1>3
  <2>3. Fixed(fr.f) > 0 /\ fr.bp + (Fixed(fr.f) - 1) = sp - 1
    BY <1>3, <2>1, <2>2
  <2>4. Fixed(fr.f) - 1 \in 0..(Fixed(fr.f) - 1)
    BY <1>3, <2>3
  <2>5. /\ VarKind(fr.f, Fixed(fr.f) - 1) \in Kind
        /\ Conforms(m[fr.bp + (Fixed(fr.f) - 1)], VarKind(fr.f, Fixed(fr.f) - 1), fr)
    BY <1>2, <2>4, VariableKind
  <2>6. Conforms(m[sp - 1], "val", fr)
    BY <1>4, <1>6, <2>3, <2>5, Kinds, SubConforms
  <2> QED BY <1>1, <2>6 DEF Conforms
<1> QED BY <1>5, <1>6

(* A caller whose slot got a value goes on.                                *)
LEMMA WaitsRuns ==
  ASSUME WellShaped, NEW fr \in Frame, NEW end \in Nat, end <= StackSize,
         NEW m, Waits(m, fr, end), NEW m2,
         \A i \in Addr : i < end - 1 => m2[i] = m[i],
         m2[end - 1] \in Values
  PROVE  /\ fr.pc + 1 \in Nat /\ fr.bp < end
         /\ Runs(m2, [fr EXCEPT !.pc = fr.pc + 1], end)
<1>1. PICK T, base, bp, fixed, fr2 :
        /\ T = Awaits(fr) /\ base = Base(fr) /\ bp = fr.bp /\ fixed = Fixed(fr.f)
        /\ fr2 = [fr EXCEPT !.pc = fr.pc + 1]
  OBVIOUS
<1>2. /\ base \in Nat /\ bp \in Nat /\ fixed \in Nat /\ base = bp + fixed
      /\ fr.f \in Func /\ fr.pc \in Nat
  BY <1>1, FrameParts
<1>3. /\ T # <<>> /\ T[Len(T)] = "val" /\ base + Len(T) = end
      /\ fr.pc + 1 \in DOMAIN Code[fr.f]
      /\ HasOperands(m, fr, T, Len(T)) /\ HasVariables(m, fr)
  BY <1>1 DEF Waits, FitsWaiting
<1>4. T \in Seq(Kind) /\ Len(T) \in Nat
  BY <1>1, <1>2, <1>3, ShapeKinds DEF Awaits
<1>5. Len(T) >= 1
  BY <1>3, <1>4, EmptySeq
<1>6. \A i \in 0..(end - 2) : m2[i] = m[i]
  <2>1. \A i \in 0..(end - 2) : i \in Addr /\ i < end - 1
    BY MachineAssumption DEF Addr
  <2> QED BY <2>1
<1>7. ASSUME NEW i \in 1..Len(T) PROVE Conforms(m2[base + i - 1], T[i], fr)
  <2>1. CASE i = Len(T)
    <3>1. base + i - 1 = end - 1
      BY <1>2, <1>3, <1>4, <2>1
    <3> QED BY <1>3, <2>1, <3>1 DEF Conforms
  <2>2. CASE i # Len(T)
    <3>1. base + i - 1 \in 0..(end - 2)
      BY <1>2, <1>3, <1>4, <2>2
    <3> QED BY <1>1, <1>3, <1>6, <3>1 DEF HasOperands
  <2> QED BY <2>1, <2>2
<1>8. HasVariables(m2, fr)
  <2>1. \A i \in 0..(fixed - 1) : bp + i \in 0..(end - 2)
    BY <1>2, <1>3, <1>4, <1>5
  <2> QED BY <1>1, <1>3, <1>6, <2>1 DEF HasVariables
<1>9. HasOperands(m2, fr, T, Len(T))
  BY <1>1, <1>7 DEF HasOperands
<1>10. fr.pc + 1 \in Nat
  BY <1>2
<1>11. /\ fr2.f = fr.f /\ fr2.pc = fr.pc + 1 /\ Base(fr2) = base
       /\ HasOperands(m2, fr2, T, Len(T)) /\ HasVariables(m2, fr2)
  BY <1>1, <1>8, <1>9, <1>10, MovedFrame
<1>12. Expects(fr2) = T
  BY <1>1, <1>11 DEF Expects, Awaits
<1>13. Runs(m2, fr2, end)
  BY <1>3, <1>11, <1>12 DEF Runs, FitsRunning
<1>14. bp < end
  BY <1>2, <1>3, <1>4, <1>5
<1> QED BY <1>1, <1>10, <1>13, <1>14

LEMMA ReturnKeeps ==
  ASSUME WellShaped, IInv, history # "stale", Return
  PROVE  IInv' /\ Untouched
<1>1. status = "running" /\ Ins.op = "Return"
  BY DEF Return, At
<1>2. PICK n, mem, s, fs, fr : n = Len(frames) /\ mem = stack /\ s = sp /\ fs = frames /\ fr = Top
  OBVIOUS
<1>3. /\ TypeOK /\ Fits(mem, s, fs) /\ n \in 1..Len(fs) /\ n \in Nat /\ fs \in Seq(Frame)
      /\ fr = fs[n] /\ fr \in Frame /\ fr.f \in Func /\ Runs(mem, fr, s) /\ s \in 0..StackSize
      /\ s \in Nat /\ mem \in [Addr -> Cell] /\ n = Len(fs) /\ Expects(fr) \in Seq(Kind)
  BY <1>1, <1>2, WhileRunning
<1>4. /\ fr.bp \in Nat /\ Base(fr) \in Nat /\ Fixed(fr.f) \in Nat
      /\ Base(fr) = fr.bp + Fixed(fr.f) /\ Base(fr) + Len(Expects(fr)) = s
      /\ Len(Expects(fr)) \in Nat
  BY <1>3, FrameParts, LenProperties DEF Runs, FitsRunning
<1>5. fr.bp <= s
  BY <1>3, <1>4
<1>6. CASE n > 1
  <2>1. PICK j, caller, rest, fr2, fs2 :
          /\ j = n - 1 /\ caller = fs[j] /\ rest = SubSeq(fs, 1, n - 1)
          /\ fr2 = [caller EXCEPT !.pc = caller.pc + 1]
          /\ fs2 = [rest EXCEPT ![j] = fr2]
    OBVIOUS
  <2>2. j \in 1..(Len(fs) - 1) /\ j \in 1..Len(fs) /\ j + 1 = n /\ j \in Nat /\ j >= 1
    BY <1>3, <1>6, <2>1
  <2>3. caller \in Frame /\ Waits(mem, caller, fr.bp)
    BY <1>3, <2>1, <2>2, ElementOfSeq DEF Fits
  <2>4. caller.f \in Func /\ caller.pc \in Nat /\ caller.bp \in Nat
    BY <2>3, FrameParts
  <2>6. fr2 \in Frame /\ fr2.f = caller.f /\ fr2.bp = caller.bp
    <3>1. PICK pc : pc = caller.pc + 1
      OBVIOUS
    <3>2. pc \in Nat
      BY <2>4, <3>1
    <3>3. fr2 = [caller EXCEPT !.pc = pc]
      BY <2>1, <3>1
    <3> QED BY <2>3, <3>2, <3>3 DEF Frame
  <2>7. /\ rest \in Seq(Frame) /\ Len(rest) = j /\ rest[j] = caller
        /\ \A i \in 1..j : rest[i] = fs[i]
    <3>1. /\ SubSeq(fs, 1, n - 1) \in Seq(Frame)
          /\ Len(SubSeq(fs, 1, n - 1)) = IF 1 <= n - 1 THEN n - 1 - 1 + 1 ELSE 0
          /\ \A i \in 1..(n - 1 - 1 + 1) : SubSeq(fs, 1, n - 1)[i] = fs[1 + i - 1]
      <4>1. \A i \in 1..(n - 1) : fs[i] \in Frame
        <5>1. \A i \in 1..(n - 1) : i \in 1..Len(fs)
          BY <1>3
        <5> QED BY <1>3, <5>1, ElementOfSeq
      <4>2. 1 \in Int /\ n - 1 \in Int
        BY <1>3
      <4> QED BY <4>1, <4>2, SubSeqProperties
    <3>2. n - 1 - 1 + 1 = j /\ 1 <= n - 1 /\ \A i \in 1..j : 1 + i - 1 = i
      BY <1>3, <1>6, <2>1
    <3> QED BY <2>1, <2>2, <3>1, <3>2
  <2>8. /\ fs2 \in Seq(Frame) /\ Len(fs2) = j /\ fs2[j] = fr2
        /\ \A i \in 1..(j - 1) : fs2[i] = fs[i]
    <3>1. /\ rest \in Seq(Frame) /\ j \in 1..Len(rest) /\ fr2 \in Frame
          /\ fs2 = [rest EXCEPT ![j] = fr2]
      BY <2>1, <2>2, <2>6, <2>7
    <3>2. /\ fs2 \in Seq(Frame) /\ Len(fs2) = Len(rest)
          /\ \A i \in 1..Len(rest) : fs2[i] = IF i = j THEN fr2 ELSE rest[i]
      BY <3>1, ExceptSeq
    <3>3. Len(rest) = j /\ j \in 1..j /\ \A i \in 1..(j - 1) : i \in 1..j /\ i # j
      BY <2>2, <2>7
    <3> QED BY <2>7, <3>2, <3>3
  <2>9. IF sp > Top.bp THEN Put(stack, Top.bp - 1, <<stack[sp - 1]>>, fs2)
        ELSE Put(stack, sp - 0, <<>>, fs2)
    <3>1. rest[Len(rest)] = caller /\ Len(rest) = j
      BY <2>7
    <3>2. Len(frames) > 1 /\ SubSeq(frames, 1, Len(frames) - 1) = rest
      BY <1>2, <1>6, <2>1
    <3>3. fs2 = [rest EXCEPT ![Len(rest)] = [rest[Len(rest)] EXCEPT !.pc = rest[Len(rest)].pc + 1]]
      BY <2>1, <3>1
    <3> QED BY <3>2, <3>3 DEF Return, Replace
  <2>10. fr.bp \in Nat /\ fr.bp <= StackSize
    BY <1>3, <1>4, <1>5, MachineAssumption
  <2>12. fr.bp - 1 \in Nat /\ fr.bp - 1 \in Addr /\ mem[fr.bp - 1] \in Values
    <3>1. PICK T, base, lt : T = Awaits(caller) /\ base = Base(caller) /\ lt = Len(T)
      OBVIOUS
    <3>2. /\ T # <<>> /\ T[lt] = "val" /\ base + lt = fr.bp
          /\ HasOperands(mem, caller, T, lt) /\ caller.pc + 1 \in DOMAIN Code[caller.f]
      BY <2>3, <3>1 DEF Waits, FitsWaiting
    <3>3. T \in Seq(Kind) /\ base \in Nat
      BY <2>3, <2>4, <3>1, <3>2, ShapeKinds, FrameParts DEF Awaits
    <3>4. lt \in Nat /\ lt >= 1
      BY <3>1, <3>2, <3>3, EmptySeq
    <3>5. fr.bp - 1 \in Nat /\ base + lt - 1 = fr.bp - 1 /\ lt \in 1..lt
      BY <3>2, <3>3, <3>4
    <3>6. Conforms(mem[base + lt - 1], T[lt], caller)
      BY <3>1, <3>2, <3>5 DEF HasOperands
    <3>7. fr.bp - 1 \in Addr
      BY <2>10, <3>5, MachineAssumption DEF Addr
    <3> QED BY <3>2, <3>5, <3>6, <3>7 DEF Conforms
  <2>11. ASSUME NEW m2 \in [Addr -> Cell],
                \A i \in Addr : i < fr.bp - 1 => m2[i] = mem[i],
                m2[fr.bp - 1] \in Values,
                stack' = m2, sp' = fr.bp, frames' = fs2,
                UNCHANGED <<status, history, executes>>
         PROVE  IInv' /\ Untouched
    <3>1. Runs(m2, fr2, fr.bp) /\ caller.bp < fr.bp
      BY <2>1, <2>3, <2>10, <2>11, WaitsRuns
    <3>2. \A i \in Addr : i < fs[j].bp => m2[i] = mem[i]
      <4>1. \A i \in Addr : i < caller.bp => i < fr.bp - 1
        <5>1. \A i \in Addr : i \in Int
          BY MachineAssumption DEF Addr
        <5> QED BY <2>4, <2>10, <3>1, <5>1
      <4> QED BY <2>1, <2>11, <4>1
    <3>3. fr.bp \in 0..StackSize
      BY <2>10
    <3>4. SameBelow(mem, fs, j, m2, fr.bp, fs2)
      <4>1. fs2[j].f = fs[j].f /\ fs2[j].bp = fs[j].bp /\ Runs(m2, fs2[Len(fs2)], fr.bp)
        BY <2>1, <2>6, <2>8, <3>1
      <4>2. Len(fs2) = j /\ Len(fs2) # j + 1
        BY <2>2, <2>8
      <4> QED BY <2>2, <2>8, <2>11, <3>2, <3>3, <4>1, <4>2 DEF SameBelow
    <3>5. Fits(m2, fr.bp, fs2)
      BY <1>3, <3>4, FramesBelow
    <3>6. Untouched
      <4>1. PICK at : at = fr.bp - 1
        OBVIOUS
      <4>2. /\ Top.bp \in Int /\ at \in Int /\ Top.bp - 1 <= at /\ stack' = m2
            /\ \A i \in Addr : i < at => m2[i] = stack[i]
        BY <1>2, <2>10, <2>11, <2>12, <4>1
      <4> QED BY <4>2, LeavesCallers
    <3> QED BY <1>1, <1>3, <2>11, <3>5, <3>6, GoOnKeeps
  <2>13. CASE sp > Top.bp
    <3>1. PICK v : v = stack[sp - 1]
      OBVIOUS
    <3>2. v \in Values /\ <<v>> \in Seq(Cell) /\ Len(<<v>>) = 1 /\ <<v>>[1] = v
      BY <1>1, <2>13, <3>1, ResultIsValue, ValueCells
    <3>3. PICK m2, at, new : at = fr.bp - 1 /\ new = <<v>> /\ m2 = Splice(mem, at, new)
      OBVIOUS
    <3>9. at \in Nat /\ at \in Addr /\ new \in Seq(Cell) /\ Len(new) = 1 /\ new[1] = v
      BY <2>12, <3>2, <3>3
    <3>10. /\ m2 \in [Addr -> Cell]
           /\ \A i \in Addr : i < at => m2[i] = mem[i]
           /\ \A i \in 1..Len(new) : at + i - 1 \in Addr => m2[at + i - 1] = new[i]
      <4>1. mem \in [Addr -> Cell] /\ at \in Nat /\ new \in Seq(Cell)
        BY <1>3, <3>9
      <4>2. /\ Splice(mem, at, new) \in [Addr -> Cell]
            /\ \A i \in Addr : i < at => Splice(mem, at, new)[i] = mem[i]
            /\ \A i \in 1..Len(new) :
                 at + i - 1 \in Addr => Splice(mem, at, new)[at + i - 1] = new[i]
        BY <4>1, SpliceCells
      <4> QED BY <3>3, <4>2
    <3>4. /\ m2 \in [Addr -> Cell]
          /\ \A i \in Addr : i < fr.bp - 1 => m2[i] = mem[i]
      BY <3>3, <3>10
    <3>5. m2[fr.bp - 1] = v
      <4>1. at + 1 - 1 = at /\ 1 \in 1..Len(new)
        BY <3>9
      <4>2. m2[at] = v
        BY <3>9, <3>10, <4>1
      <4> QED BY <3>3, <4>2
    <3>6. fr.bp - 1 + 1 = fr.bp /\ ~(fr.bp - 1 < 0) /\ ~(fr.bp - 1 + 1 > StackSize)
      BY <2>10, <2>12, MachineAssumption
    <3>7. Put(stack, fr.bp - 1, <<v>>, fs2)
      BY <1>2, <2>9, <2>13, <3>1
    <3>8. /\ stack' = m2 /\ sp' = fr.bp /\ frames' = fs2
          /\ UNCHANGED <<status, history, executes>>
      BY <1>2, <3>2, <3>3, <3>6, <3>7 DEF Put
    <3> QED BY <2>11, <3>2, <3>4, <3>5, <3>8
  <2>14. CASE ~(sp > Top.bp)
    <3>1. s = fr.bp /\ sp - 0 = fr.bp
      BY <1>2, <1>3, <1>4, <1>5, <2>14
    <3>2. PICK m2, new : new = <<>> /\ m2 = Splice(mem, fr.bp, new)
      OBVIOUS
    <3>8. new \in Seq(Cell)
      BY <3>2
    <3>3. m2 \in [Addr -> Cell] /\ \A i \in Addr : i < fr.bp => m2[i] = mem[i]
      <4>1. PICK at : at = fr.bp
        OBVIOUS
      <4>2. mem \in [Addr -> Cell] /\ at \in Nat
        BY <1>3, <2>10, <4>1
      <4>3. /\ Splice(mem, at, new) \in [Addr -> Cell]
            /\ \A i \in Addr : i < at => Splice(mem, at, new)[i] = mem[i]
        BY <3>8, <4>2, SpliceCells
      <4> QED BY <3>2, <4>1, <4>3
    <3>4. m2[fr.bp - 1] \in Values /\ \A i \in Addr : i < fr.bp - 1 => m2[i] = mem[i]
      <4>1. fr.bp - 1 < fr.bp /\ \A i \in Addr : i < fr.bp - 1 => i < fr.bp
        <5>1. \A i \in Addr : i \in Int
          BY MachineAssumption DEF Addr
        <5> QED BY <2>10, <5>1
      <4> QED BY <2>12, <3>3, <4>1
    <3>5. Put(stack, fr.bp, <<>>, fs2)
      BY <2>9, <2>14, <3>1
    <3>6. Len(<<>>) = 0 /\ fr.bp + 0 = fr.bp /\ ~(fr.bp < 0) /\ ~(fr.bp + 0 > StackSize)
      BY <2>10, MachineAssumption
    <3>7. /\ stack' = m2 /\ sp' = fr.bp /\ frames' = fs2
          /\ UNCHANGED <<status, history, executes>>
      BY <1>2, <3>2, <3>5, <3>6 DEF Put
    <3> QED BY <2>11, <3>3, <3>4, <3>7
  <2> QED BY <2>13, <2>14
<1>7. CASE ~(n > 1)
  <2>1. n = 1 /\ fr.bp = 0 /\ fr.f \in Main
    BY <1>3, <1>7 DEF Fits
  <2>2. Fixed(fr.f) + Len(Expects(fr)) > 0
    <3>1. Shape[fr.f][fr.pc] = Expects(fr) /\ fr.pc \in DOMAIN Code[fr.f]
      BY <1>3 DEF Expects, Runs, FitsRunning
    <3>2. Code[fr.f][fr.pc].op = "Return"
      BY <1>1, <1>2 DEF Ins
    <3> QED BY <1>3, <2>1, <3>1, <3>2 DEF WellShaped
  <2>3. s > 0
    BY <1>4, <2>1, <2>2
  <2>4. /\ stack' = Splice(stack, 0, <<>>) /\ sp' = 0 /\ frames' = <<>> /\ status' = "idle"
        /\ UNCHANGED <<history, executes>>
    BY <1>2, <1>3, <1>7, <2>3 DEF Return
  <2>5. TypeOK'
    <3>1. Splice(mem, 0, <<>>) \in [Addr -> Cell]
      BY <1>3, SpliceCells, EmptySeq
    <3>2. 0 \in 0..StackSize /\ <<>> \in Seq(Frame)
      BY MachineAssumption
    <3> QED BY <1>2, <1>3, <2>4, <3>1, <3>2 DEF TypeOK
  <2> QED BY <2>4, <2>5 DEF IInv, CleanWhenIdle, NoMisuse, Untouched
<1> QED BY <1>6, <1>7

(* A script starts on an empty stack, unless one failed before it.         *)
LEMMA ExecuteKeeps ==
  ASSUME WellShaped, IInv, history # "stale", NEW f \in Main, Execute(f)
  PROVE  IInv' /\ Untouched
<1>1. status = "idle" /\ executes < MaxExecutes /\ executes' = executes + 1
  BY DEF Execute
<1>2. TypeOK /\ (frames = <<>> => sp = 0)
  BY <1>1 DEF IInv
<1>3. CASE frames # <<>>
  <2>1. IInv'
    BY <1>3 DEF Execute, IInv
  <2>2. Top.bp \in Int /\ Top.bp - 1 <= sp /\ sp \in Nat /\ stack \in [Addr -> Cell]
    <3>1. frames \in Seq(Frame) /\ sp \in Nat /\ stack \in [Addr -> Cell]
      BY <1>2, MachineAssumption DEF TypeOK
    <3>2. Len(frames) \in 1..Len(frames)
      BY <1>3, <3>1, EmptySeq, LenProperties
    <3>3. Top \in Frame
      BY <3>1, <3>2, ElementOfSeq DEF Top
    <3> QED BY <1>1, <1>3, <3>1, <3>3 DEF IInv, Frame
  <2>3. Untouched
    <3>1. CASE UNCHANGED stack
      BY <3>1 DEF Untouched
    <3>2. CASE stack' = Splice(stack, sp, Entered(f, <<>>))
      <4>1. \A i \in Addr : i < sp => Splice(stack, sp, Entered(f, <<>>))[i] = stack[i]
        BY DEF Splice
      <4> QED BY <2>2, <3>2, <4>1, LeavesCallers
    <3> QED BY <3>1, <3>2 DEF Execute
  <2> QED BY <2>1, <2>3
<1>4. CASE frames = <<>>
  <2>1. sp = 0 /\ history' = history /\ history \in {"clean", "failed"}
    BY <1>2, <1>4 DEF Execute, TypeOK
  <2>2. executes' \in 0..MaxExecutes
    BY <1>1, <1>2, MachineAssumption DEF TypeOK
  <2>3. PICK new : new = Entered(f, <<>>)
    OBVIOUS
  <2>4. f \in Func /\ Args[f] = 0 /\ Caps[f] = 0 /\ ConstPos(f) = 0
    BY ProgramAssumption DEF WellShaped, ConstPos
  <2>5. new \in Seq(Cell) /\ Len(new) \in Nat
    <3>1. PICK before : before = <<>>
      OBVIOUS
    <3>2. before \in Seq(Cell)
      BY <3>1
    <3>3. Entered(f, before) \in Seq(Cell)
      BY <2>4, <3>2, EnteredCells
    <3> QED BY <2>3, <3>1, <3>3, LenProperties
  <2>6. CASE sp + Len(new) > StackSize
    <3>1. status' = "overflow" /\ UNCHANGED <<stack, sp, frames>>
      BY <2>3, <2>6 DEF Execute
    <3>2. TypeOK'
      BY <1>2, <2>1, <2>2, <3>1 DEF TypeOK, Undefined
    <3> QED BY <1>4, <3>1, <3>2 DEF IInv, CleanWhenIdle, NoMisuse, Untouched
  <2>7. CASE ~(sp + Len(new) > StackSize)
    <3>1. PICK m, m2, s2, fr2, fs2, at :
            /\ m = stack /\ at = 0
            /\ m2 = Splice(stack, sp, new) /\ s2 = sp + Len(new)
            /\ fr2 = [f |-> f, pc |-> 1, bp |-> sp] /\ fs2 = Append(frames, fr2)
      OBVIOUS
    <3>2. /\ status' = "running" /\ stack' = m2 /\ sp' = s2 /\ frames' = fs2
      BY <2>3, <2>7, <3>1 DEF Execute
    <3>3. at \in Nat /\ at <= at /\ at + Len(new) <= StackSize /\ s2 = at + Len(new)
      BY <2>1, <2>5, <2>7, <3>1, MachineAssumption
    <3>4. /\ m2 \in [Addr -> Cell] /\ s2 \in 0..StackSize /\ fr2 \in Frame
          /\ Runs(m2, fr2, s2)
      <4>1. PICK before : before = <<>>
        OBVIOUS
      <4>2. before \in Seq(Values) /\ Len(before) = 0
        BY <4>1
      <4>3. at + ConstPos(f) = at + Len(before)
        BY <2>4, <3>3, <4>2
      <4>4. at + Len(Entered(f, before)) <= StackSize
        BY <2>3, <3>3, <4>1
      <4>5. \A i \in Addr : at <= i /\ i < at => m[i] \in Values
        BY <3>3, MachineAssumption DEF Addr
      <4>6. m \in [Addr -> Cell]
        BY <1>2, <3>1 DEF TypeOK
      <4>7. LET m3 == Splice(m, at, Entered(f, before))
                fr3 == [f |-> f, pc |-> 1, bp |-> at]
                s3  == at + Len(Entered(f, before))
            IN  /\ m3 \in [Addr -> Cell] /\ s3 \in 0..StackSize /\ fr3 \in Frame
                /\ Runs(m3, fr3, s3)
                /\ \A i \in Addr : i < at => m3[i] = m[i]
        BY <2>4, <3>3, <4>2, <4>3, <4>4, <4>5, <4>6, EnteredRuns
      <4> QED BY <2>1, <2>3, <3>1, <3>3, <4>1, <4>7
    <3>5. fs2 \in Seq(Frame) /\ Len(fs2) = 1 /\ fs2[1] = fr2
      BY <1>4, <3>1, <3>4
    <3>6. fr2.bp = 0 /\ fr2.f \in Main
      BY <2>1, <3>1
    <3>7. /\ Len(fs2) > 0 /\ fs2[1].bp = 0 /\ fs2[1].f \in Main
          /\ Runs(m2, fs2[Len(fs2)], s2)
          /\ \A k \in 1..(Len(fs2) - 1) : Waits(m2, fs2[k], fs2[k + 1].bp)
          /\ \A j, k \in 1..Len(fs2) : j <= k => fs2[j].bp <= fs2[k].bp
      BY <3>4, <3>5, <3>6
    <3>8. Fits(m2, s2, fs2)
      BY <3>4, <3>5, <3>7 DEF Fits
    <3>9. TypeOK'
      BY <2>1, <2>2, <3>2, <3>4, <3>5 DEF TypeOK
    <3> QED BY <1>4, <3>2, <3>8, <3>9 DEF IInv, CleanWhenIdle, NoMisuse, Untouched
  <2> QED BY <2>6, <2>7
<1> QED BY <1>3, <1>4

-----------------------------------------------------------------------------
(* The machine as a whole.                                                 *)

(* Only Execute and errorJmp touch the history.                            *)
LEMMA HistoryMoves ==
  ASSUME [Next]_vars, ~ \E f \in Main : Execute(f)
  PROVE  history' = history \/ (history # "stale" /\ history' = "failed")
<1>6. PICK H : H = {history} \union (IF history = "stale" THEN {} ELSE {"failed"})
  OBVIOUS
<1> SUFFICES history' \in H
  BY <1>6
<1>1. ASSUME NEW how, Stop(how) PROVE history' \in H
  BY <1>1, <1>6 DEF Stop
<1>2. ASSUME NEW m, NEW at, NEW new, NEW fs, Put(m, at, new, fs) PROVE history' \in H
  <2>1. Stop("underflow") \/ Stop("overflow") \/ UNCHANGED history
    BY <1>2 DEF Put
  <2> QED BY <1>1, <1>6, <2>1
<1>3. ASSUME NEW n, NEW new, NEW fs, Replace(n, new, fs) PROVE history' \in H
  BY <1>2, <1>3 DEF Replace
<1>4. ASSUME Raise PROVE history' \in H
  BY <1>1, <1>4, <1>6 DEF Raise
<1>5. ASSUME NEW f, NEW before, NEW at, PushFunction(f, before, at) PROVE history' \in H
  <2>1. Stop("underflow")
        \/ \E bp : Put(stack, at, Entered(f, before),
                       Append(frames, [f |-> f, pc |-> 1, bp |-> bp]))
    BY <1>5 DEF PushFunction
  <2> QED BY <1>1, <1>2, <2>1
<1>7. CASE Push \/ PushVar \/ Operate \/ Fail \/ WriteVar
  BY <1>1, <1>2, <1>3, <1>4, <1>7 DEF Push, PushVar, Operate, Fail, WriteVar
<1>8. CASE BorrowVar \/ BorrowIndex \/ WriteBorrowed \/ Move
  BY <1>1, <1>2, <1>3, <1>8 DEF BorrowVar, BorrowIndex, WriteBorrowed, Move
<1>9. CASE Jmp \/ JumpIf \/ BeginIter \/ NextOrJmp
  BY <1>1, <1>2, <1>3, <1>9 DEF Jmp, JumpIf, BeginIter, NextOrJmp
<1>10. CASE Apply
  <2>1. \/ Stop("underflow") \/ Raise
        \/ \E new : Replace(2, new, Advance)
        \/ \E f, before, at : PushFunction(f, before, at)
    <3>1. PICK c : c = stack[sp - 2]
      OBVIOUS
    <3> QED BY <1>10, <3>1 DEF Apply
  <2> QED BY <1>1, <1>3, <1>4, <1>5, <2>1
<1>11. CASE CreateClosure \/ Recurse
  BY <1>1, <1>3, <1>4, <1>5, <1>11 DEF CreateClosure, Recurse
<1>12. CASE Call
  BY <1>1, <1>4, <1>5, <1>12 DEF Call
<1>13. CASE Return
  <2>1. \/ \E how : Stop(how)
        \/ \E m, at, new, fs : Put(m, at, new, fs)
        \/ \E n, new, fs : Replace(n, new, fs)
        \/ UNCHANGED history
    BY <1>13 DEF Return
  <2> QED BY <1>1, <1>2, <1>3, <1>6, <2>1
<1>14. CASE UNCHANGED vars
  BY <1>6, <1>14 DEF vars
<1> QED
  BY <1>7, <1>8, <1>9, <1>10, <1>11, <1>12, <1>13, <1>14 DEF Next

(* Once a script has run over the frames of a failed one, that stays true. *)
LEMMA StaleStays ==
  ASSUME history = "stale", [Next]_vars
  PROVE  history' = "stale"
<1>1. CASE \E f \in Main : Execute(f)
  BY <1>1 DEF Execute
<1> QED BY <1>1, HistoryMoves

(* The machine starts in the inductive invariant.                          *)
LEMMA InitKeeps == Init => IInv
<1> SUFFICES ASSUME Init PROVE IInv
  OBVIOUS
<1>1. stack \in [Addr -> Cell]
  BY DEF Init, Dead, Cell
<1>2. TypeOK
  BY <1>1, MachineAssumption DEF Init, TypeOK
<1> QED BY <1>2 DEF Init, IInv, CleanWhenIdle, NoMisuse

(* Every step keeps it.                                                    *)
LEMMA NextKeeps ==
  ASSUME WellShaped, IInv, [Next]_vars
  PROVE  IInv' /\ (history # "stale" => Untouched)
<1>1. CASE history = "stale"
  BY <1>1, StaleStays DEF IInv
<1>2. CASE history # "stale"
  <2>1. ASSUME NEW f \in Main, Execute(f) PROVE IInv' /\ Untouched
    BY <1>2, <2>1, ExecuteKeeps
  <2>2. CASE Push          BY <1>2, <2>2, PushKeeps
  <2>3. CASE PushVar       BY <1>2, <2>3, PushVarKeeps
  <2>4. CASE Operate       BY <1>2, <2>4, OperateKeeps
  <2>5. CASE Fail          BY <1>2, <2>5, FailKeeps
  <2>6. CASE WriteVar      BY <1>2, <2>6, WriteVarKeeps
  <2>7. CASE BorrowVar     BY <1>2, <2>7, BorrowVarKeeps
  <2>8. CASE BorrowIndex   BY <1>2, <2>8, BorrowIndexKeeps
  <2>9. CASE WriteBorrowed BY <1>2, <2>9, WriteBorrowedKeeps
  <2>10. CASE Move         BY <1>2, <2>10, MoveKeeps
  <2>11. CASE Jmp          BY <1>2, <2>11, JmpKeeps
  <2>12. CASE JumpIf       BY <1>2, <2>12, JumpIfKeeps
  <2>13. CASE BeginIter    BY <1>2, <2>13, BeginIterKeeps
  <2>14. CASE NextOrJmp    BY <1>2, <2>14, NextOrJmpKeeps
  <2>15. CASE Apply        BY <1>2, <2>15, ApplyKeeps
  <2>16. CASE CreateClosure BY <1>2, <2>16, CreateClosureKeeps
  <2>17. CASE Call         BY <1>2, <2>17, CallInsKeeps
  <2>18. CASE Recurse      BY <1>2, <2>18, RecurseKeeps
  <2>19. CASE Return       BY <1>2, <2>19, ReturnKeeps
  <2>20. CASE UNCHANGED vars
    BY <1>2, <2>20 DEF vars, IInv, TypeOK, CleanWhenIdle, NoMisuse, Top, Untouched
  <2> QED BY <2>1, <2>2, <2>3, <2>4, <2>5, <2>6, <2>7, <2>8, <2>9, <2>10, <2>11,
             <2>12, <2>13, <2>14, <2>15, <2>16, <2>17, <2>18, <2>19, <2>20 DEF Next
<1> QED BY <1>1, <1>2

(* The inductive invariant holds of every well-shaped program, whatever    *)
(* the capacity of the stack and however many scripts the host runs.       *)
THEOREM Inductive == WellShaped => (Spec => []IInv)
<1> SUFFICES ASSUME WellShaped PROVE Spec => []IInv
  OBVIOUS
<1>1. Init => IInv
  BY InitKeeps
<1>2. IInv /\ [Next]_vars => IInv'
  BY NextKeeps
<1> QED BY <1>1, <1>2, PTL DEF Spec

(* What the inductive invariant says of a script that runs on its own      *)
(* frames.                                                                 *)
LEMMA RunningFits ==
  ASSUME IInv, Running
  PROVE  /\ Fits(stack, sp, frames)
         /\ Len(frames) \in Nat /\ frames # <<>> /\ DOMAIN frames = 1..Len(frames)
<1>1. Fits(stack, sp, frames)
  BY DEF IInv, Running
<1>2. frames \in Seq(Frame) /\ Len(frames) > 0
  BY <1>1 DEF Fits
<1> QED BY <1>1, <1>2, LenProperties, EmptySeq

(* In every well-shaped program, at every depth of calls, the operands of  *)
(* each frame end where the stack or the next frame's slot ends, so        *)
(* popFunction_ finds the slot of the result at bp - 1.                    *)
THEOREM FramesAlwaysFit == WellShaped => (Spec => []FramesFit)
<1>1. IInv => FramesFit
  <2> SUFFICES ASSUME IInv, Running PROVE FramesFit
    BY DEF FramesFit
  <2>1. /\ frames # <<>> /\ frames[1].bp = 0 /\ frames[1].f \in Main
        /\ FitsRunning(Top, sp)
        /\ \A k \in 1..(Len(frames) - 1) : FitsWaiting(frames[k], frames[k + 1].bp)
        /\ \A j, k \in DOMAIN frames : j <= k => frames[j].bp <= frames[k].bp
    BY RunningFits DEF Fits, Runs, Waits, Top
  <2> QED BY <2>1 DEF FramesFit
<1> QED BY <1>1, Inductive, PTL

(* Every operand has the kind its code position expects: NextOrJmp finds   *)
(* an iterator, a write through a borrow a borrow of this frame, a caller  *)
(* its operands as it left them.                                           *)
THEOREM OperandsAlwaysFit == WellShaped => (Spec => []OperandsFit)
<1>1. IInv => OperandsFit
  <2> SUFFICES ASSUME IInv, Running PROVE OperandsFit
    BY DEF OperandsFit
  <2>1. /\ HasOperands(stack, Top, Expects(Top), Len(Expects(Top)))
        /\ \A k \in 1..(Len(frames) - 1) :
             HasOperands(stack, frames[k], Awaits(frames[k]), Len(Awaits(frames[k])))
    BY RunningFits DEF Fits, Runs, Waits, Top
  <2> QED BY <2>1 DEF OperandsFit
<1> QED BY <1>1, Inductive, PTL

(* Whatever runs above a frame, its constants stay what the generator put  *)
(* there and its variables stay values of the language.                    *)
THEOREM VariablesAlwaysFit == WellShaped => (Spec => []VariablesFit)
<1>1. IInv => VariablesFit
  <2> SUFFICES ASSUME IInv, Running, NEW k \in DOMAIN frames
               PROVE  HasVariables(stack, frames[k])
    BY DEF VariablesFit
  <2>1. k = Len(frames) \/ k \in 1..(Len(frames) - 1)
    BY RunningFits
  <2> QED BY <2>1, RunningFits DEF Fits, Runs, Waits
<1> QED BY <1>1, Inductive, PTL

(* Well-shaped code never reads a cell as the wrong type and never pops    *)
(* what is not there.                                                      *)
THEOREM NeverMisused == WellShaped => (Spec => []NoMisuse)
<1>1. IInv => NoMisuse
  BY DEF IInv, NoMisuse
<1> QED BY <1>1, Inductive, PTL

(* Scripts that do not fail leave the machine as they found it.            *)
THEOREM AlwaysCleanWhenIdle == WellShaped => (Spec => []CleanWhenIdle)
<1>1. IInv => CleanWhenIdle
  BY DEF IInv, CleanWhenIdle
<1> QED BY <1>1, Inductive, PTL

(* Calls, returns and errors leave everything a suspended caller keeps     *)
(* below the slot of its result as it was, and so does the next script.    *)
THEOREM CallersNeverTouched == WellShaped => (Spec => CallersUntouched)
<1> SUFFICES ASSUME WellShaped PROVE Spec => CallersUntouched
  OBVIOUS
<1>1. IInv /\ [Next]_vars => [history # "stale" => Untouched]_vars
  BY NextKeeps
<1>2. CallersUntouched <=> [][history # "stale" => Untouched]_vars
  BY DEF CallersUntouched, Untouched
<1> QED BY <1>1, <1>2, Inductive, PTL DEF Spec

-----------------------------------------------------------------------------
(* A host that stops at the first failed script.                           *)

(* Then no script ever runs over the frames of a failed one: a machine     *)
(* that is idle and clean has none.                                        *)
LEMMA NeverStale ==
  ASSUME WellShaped, ~ReuseAfterError, IInv, history # "stale", [Next]_vars
  PROVE  history' # "stale"
<1>1. CASE \E f \in Main : Execute(f)
  <2>1. status = "idle" /\ history = "clean"
    BY <1>1 DEF Execute
  <2>2. frames = <<>>
    BY <2>1 DEF IInv, CleanWhenIdle
  <2> QED BY <1>1, <2>1, <2>2 DEF Execute
<1> QED BY <1>1, HistoryMoves

(* The state of the machine always has its types when the host does not    *)
(* go on after an error.                                                   *)
THEOREM AlwaysTyped == WellShaped /\ ~ReuseAfterError => (Spec => []TypeOK)
<1> SUFFICES ASSUME WellShaped, ~ReuseAfterError PROVE Spec => []TypeOK
  OBVIOUS
<1>1. Init => IInv /\ history # "stale"
  BY InitKeeps DEF Init
<1>2. (IInv /\ history # "stale") /\ [Next]_vars => (IInv /\ history # "stale")'
  BY NextKeeps, NeverStale
<1>3. IInv /\ history # "stale" => TypeOK
  BY DEF IInv
<1> QED BY <1>1, <1>2, <1>3, PTL DEF Spec
=============================================================================
