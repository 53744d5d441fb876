---------------------------- MODULE AffineForms ----------------------------
(***************************************************************************)
(* Affine forms a * x + b of one symbolic variable x, as pairs <<a, b>>:    *)
(* the arithmetic with which the compiler finds them (_detect_affine) and   *)
(* a call inverts them (_calcu_grid).                                       *)
(***************************************************************************)
EXTENDS Integers

None == <<>>

\* Python's // on integers.
FloorDiv(x, y) == IF y > 0 THEN x \div y ELSE (-x) \div (-y)

\* The form of l op r, or None where it is not affine.
Combined(op, l, r) ==
    CASE op = "add" -> <<l[1] + r[1], l[2] + r[2]>>
      [] op = "sub" -> <<l[1] - r[1], l[2] - r[2]>>
      [] op = "mul" /\ l[1] = 0 -> <<r[1] * l[2], r[2] * l[2]>>
      [] op = "mul" /\ l[1] # 0 /\ r[1] = 0 -> <<l[1] * r[2], l[2] * r[2]>>
      [] OTHER -> None

\* Of a floor division by a number only the constants are kept.
Divided(l, divisor) == IF l[1] = 0 THEN <<0, FloorDiv(l[2], divisor)>> ELSE None

OffsetForgotten(actual, ab) == FloorDiv(actual, ab[1])   \* mutant: b is left out

\* var = (actual_dim - b) // a
SolveFor(actual, ab) == FloorDiv(actual - ab[2], ab[1])

\* dynamic_val, from the actual dimensions shape[param][dim] of the arguments.
Resolve(symbolic, shape) ==
    [x \in DOMAIN symbolic |->
        SolveFor(shape[symbolic[x].param][symbolic[x].dim], symbolic[x].e)]
=============================================================================
