------------------------------ MODULE Matrices ------------------------------
(***************************************************************************)
(* DOMMatrix (crates/script/js/20_dom.js): sixteen numbers, column by      *)
(* column, and a flag that says that only six of them matter.  Numbers are *)
(* integers: angles are quarter turns, and of the inverses only those are  *)
(* taken that stay integers.                                               *)
(***************************************************************************)
EXTENDS Integers, Sequences, SequencesExt, FiniteSetsExt

CONSTANTS
  Vectors,     \* arguments of translations: <<x, y, z>>
  Scales,      \* arguments of scaleSelf(): [by, at], two vectors
  Others,      \* matrices to multiply with: [n, flat]
  Lists,       \* transform lists of two functions: [fn, by]
  Points,      \* <<x, y, z>>, for the properties
  Bound,       \* of the numbers
  MaxMatrixOps

VARIABLES
  numbers,     \* the matrix
  is2D,
  nan,         \* it was inverted although it cannot be
  did,         \* the last operation, for the properties
  matrixOps

matrices == <<numbers, is2D, nan, did, matrixOps>>
Cells == 0 .. 15
Ident == [i \in Cells |-> IF i % 5 = 0 THEN 1 ELSE 0]
Outside2D == {2, 3, 6, 7, 8, 9, 11, 14}
Planar(n) == \A i \in Outside2D \union {10, 15} : n[i] = Ident[i]

(* matMul().                                                               *)
MatMul(a, b) == [c \in Cells |-> MapThenSumSet(LAMBDA k : a[k * 4 + (c % 4)] * b[(c \div 4) * 4 + k], 0 .. 3)]
(* transformPoint().                                                       *)
TransformPoint(n, p) == [j \in 1 .. 4 |-> MapThenSumSet(LAMBDA k : n[(k - 1) * 4 + j - 1] * p[k], 1 .. 4)]
With(n, cells) == [i \in Cells |-> IF i \in DOMAIN cells THEN cells[i] ELSE n[i]]
Translation(v) == With(Ident, [i \in 12 .. 14 |-> v[i - 11]])
Scaling(v) == With(Ident, [i \in {0, 5, 10} |-> v[(i \div 5) + 1]])
Turn(q) == CASE q = 1 -> [cos |-> 0, sin |-> 1] [] q = 2 -> [cos |-> -1, sin |-> 0] [] q = 3 -> [cos |-> 0, sin |-> -1]
(* The matrix of rotateAxisAngleSelf() about a unit vector.                *)
Rotation(a, q) ==
  LET c == Turn(q).cos  s == Turn(q).sin  t == 1 - c
  IN [i \in Cells |->
        LET col == (i \div 4) + 1  row == (i % 4) + 1
        IN CASE col = 4 \/ row = 4 -> Ident[i]
             [] (col < 4 /\ col = row) -> t * a[col] * a[col] + c
             [] OTHER -> t * a[col] * a[row] + (IF <<col, row>> \in {<<1, 2>>, <<2, 3>>, <<3, 1>>} THEN s ELSE -s) * a[6 - col - row]]
Skew(cell, tan) == With(Ident, [i \in {cell} |-> tan])

Init ==
  /\ numbers = Ident /\ is2D = TRUE /\ nan = FALSE /\ did = [op |-> "new"] /\ matrixOps = 0

-----------------------------------------------------------------------------
Op(what) == matrixOps < MaxMatrixOps /\ matrixOps' = matrixOps + 1 /\ ~nan /\ did' = what
Becomes(n, flat) ==
  /\ \A i \in Cells : n[i] \in -Bound .. Bound
  /\ numbers' = n /\ is2D' = flat /\ UNCHANGED nan
TranslateSelf(v) ==
  Op([op |-> "translate", by |-> v]) /\ Becomes(MatMul(numbers, Translation(v)), is2D /\ v[3] = 0)
\* mutant of Scaled
ScaledThere(n, s) == MatMul(MatMul(n, Translation(s.at)), Scaling(s.by))
Scaled(n, s) == MatMul(MatMul(MatMul(n, Translation(s.at)), Scaling(s.by)), Translation([i \in 1 .. 3 |-> -s.at[i]]))
ScaleSelf(s) ==
  Op([op |-> "scale", by |-> s]) /\ Becomes(Scaled(numbers, s), is2D /\ s.at[3] = 0 /\ s.by[3] = 1)
Axes == {<<1, 0, 0>>, <<0, 1, 0>>, <<0, 0, 1>>}
RotateAxisAngleSelf(a, q) ==
  Op([op |-> "rotate", by |-> <<a, q>>]) /\ Becomes(MatMul(numbers, Rotation(a, q)), is2D /\ a[1] = 0 /\ a[2] = 0)
(* rotateSelf(x, y, z): about z first, so that x turns first of all.       *)
RotateSelf(x, y, z) ==
  /\ Op([op |-> "rotate3", by |-> <<x, y, z>>])
  /\ Becomes(MatMul(MatMul(MatMul(numbers, Rotation(<<0, 0, 1>>, z)), Rotation(<<0, 1, 0>>, y)), Rotation(<<1, 0, 0>>, x)), FALSE)
SkewSelf(cell, tan) == Op([op |-> "skew", by |-> <<cell, tan>>]) /\ Becomes(MatMul(numbers, Skew(cell, tan)), is2D)
MultiplySelf(o) == Op([op |-> "multiply", by |-> o]) /\ Becomes(MatMul(numbers, o.n), is2D /\ o.flat)
PreMultiplySelf(o) == Op([op |-> "before", by |-> o]) /\ Becomes(MatMul(o.n, numbers), is2D /\ o.flat)

(* invertSelf(): the adjugate, sixteen sums of products in the code, by    *)
(* the determinant.                                                        *)
Det3(x) == x[1][1] * (x[2][2] * x[3][3] - x[2][3] * x[3][2]) - x[1][2] * (x[2][1] * x[3][3] - x[2][3] * x[3][1])
           + x[1][3] * (x[2][1] * x[3][2] - x[2][2] * x[3][1])
Minor(n, r, c) ==
  LET past(i, k) == IF k <= i THEN k - 1 ELSE k
  IN Det3([i \in 1 .. 3 |-> [j \in 1 .. 3 |-> n[past(r, i) * 4 + past(c, j)]]])
Sign(r, c) == IF (r + c) % 2 = 0 THEN 1 ELSE -1
Adjugate(n) == [i \in Cells |-> LET r == i \div 4  c == i % 4 IN Sign(r, c) * Minor(n, c, r)]
InvertSelf ==
  LET inv == Adjugate(numbers)
      det == MapThenSumSet(LAMBDA k : numbers[k] * inv[k * 4], 0 .. 3)
  IN /\ Op([op |-> "invert", of |-> numbers])
     /\ IF det = 0 THEN nan' = TRUE /\ is2D' = FALSE /\ numbers' = Ident
        ELSE det \in {1, -1} /\ Becomes([i \in Cells |-> inv[i] * det], is2D)

(* The setters of single numbers; and translate(), multiply() and the      *)
(* other ones that leave the matrix alone: they start from a copy of its   *)
(* sixteen numbers, which is not 2D.                                       *)
\* mutant of LeavesPlane
LeavesPlaneOutside(i, v) == i \in {2, 3, 6, 7, 8, 9, 11}
LeavesPlane(i, v) == i \in Outside2D \/ (i \in {10, 15} /\ v # 1)
SetCell(i, v) == Op([op |-> "set", cell |-> i]) /\ Becomes([numbers EXCEPT ![i] = v], is2D /\ ~LeavesPlane(i, v))
Copy == Op([op |-> "copy"]) /\ Becomes(numbers, FALSE)

(* fromMatrix() of an object: six of its numbers if it looks 2D.           *)
FromMatrix(n) ==
  /\ Op([op |-> "from", by |-> n])
  /\ IF n[2] = 0 /\ n[10] = 1 THEN Becomes(With(n, [i \in Outside2D \union {10, 15} |-> Ident[i]]), TRUE) ELSE Becomes(n, FALSE)

(* parseTransformList(): what setMatrixValue() makes of a list.            *)
Fn(f) ==
  CASE f.fn = "translate" -> Translation(f.by) [] f.fn = "scale" -> Scaling(f.by)
    [] f.fn = "rotate" -> Rotation(<<0, 0, 1>>, f.by[1]) [] f.fn = "skewX" -> Skew(4, f.by[1])
Flat(f) == CASE f.fn = "translate" -> f.by[3] = 0 [] f.fn = "scale" -> f.by[3] = 1 [] OTHER -> TRUE
ParseTransformList(fs) == FoldLeft(LAMBDA n, f : MatMul(n, Fn(f)), Ident, fs)
SetMatrixValue(fs) ==
  Op([op |-> "parse", by |-> fs]) /\ Becomes(ParseTransformList(fs), \A i \in DOMAIN fs : Flat(fs[i]))

Next ==
  \/ \E v \in Vectors : TranslateSelf(v)
  \/ \E s \in Scales : ScaleSelf(s)
  \/ \E a \in Axes, q \in 1 .. 3 : RotateAxisAngleSelf(a, q)
  \/ RotateSelf(1, 1, 3)
  \/ \E cell \in {1, 4} : SkewSelf(cell, 1)
  \/ \E o \in Others : MultiplySelf(o) \/ PreMultiplySelf(o) \/ FromMatrix(o.n)
  \/ InvertSelf \/ Copy
  \/ \E i \in {1, 10, 13, 14} : SetCell(i, 2)
  \/ \E fs \in Lists : SetMatrixValue(fs)
Spec == Init /\ [][Next]_matrices

-----------------------------------------------------------------------------
(* What an operation does to a point, without matrices.                    *)
RECURSIVE Turned(_, _, _)
Turned(a, q, p) ==
  IF q = 0 THEN p
  ELSE Turned(a, q - 1, CASE a[1] = 1 -> <<p[1], -p[3], p[2]>> [] a[2] = 1 -> <<p[3], p[2], -p[1]>> [] a[3] = 1 -> <<-p[2], p[1], p[3]>>)
Effect(op, by, p) ==
  CASE op = "translate" -> [i \in 1 .. 3 |-> p[i] + by[i]]
    [] op = "scale" -> [i \in 1 .. 3 |-> by.at[i] + by.by[i] * (p[i] - by.at[i])]
    [] op = "rotate" -> Turned(by[1], by[2], p)
    [] op = "rotate3" -> Turned(<<0, 0, 1>>, by[3], Turned(<<0, 1, 0>>, by[2], Turned(<<1, 0, 0>>, by[1], p)))
    [] op = "skew" -> IF by[1] = 4 THEN <<p[1] + by[2] * p[2], p[2], p[3]>> ELSE <<p[1], p[2] + by[2] * p[1], p[3]>>
OfFn(f, p) ==
  CASE f.fn = "translate" -> Effect("translate", f.by, p)
    [] f.fn = "scale" -> Effect("scale", [by |-> f.by, at |-> <<0, 0, 0>>], p)
    [] f.fn = "rotate" -> Effect("rotate", <<<<0, 0, 1>>, f.by[1]>>, p)
    [] f.fn = "skewX" -> Effect("skew", <<4, f.by[1]>>, p)
Maps(n, p) == TransformPoint(n, p \o <<1>>)

(* An operation puts its own effect before that of the matrix, the         *)
(* functions of a list apply from the last to the first, and the inverse   *)
(* takes every point back.                                                 *)
EffectsRight ==
  [][\A p \in Points :
       /\ did'.op \in {"translate", "scale", "rotate", "rotate3", "skew"} /\ matrixOps' # matrixOps =>
            Maps(numbers', p) = Maps(numbers, Effect(did'.op, did'.by, p))
       /\ did'.op = "parse" /\ matrixOps' # matrixOps => Maps(numbers', p) = OfFn(did'.by[1], OfFn(did'.by[2], p)) \o <<1>>
       /\ did'.op = "invert" /\ ~nan' /\ matrixOps' # matrixOps => TransformPoint(numbers', Maps(numbers, p)) = p \o <<1>>]_matrices

(* A matrix that says it is 2D is (setters, multiplySelf, scaleSelf).      *)
FlagHonest == is2D => Planar(numbers)
=============================================================================
