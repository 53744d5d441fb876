------------------------------ MODULE Symbolic ------------------------------
(***************************************************************************)
(* Dynamic shapes: how the compiler decides from which argument dimension   *)
(* each symbolic variable is read (_process_dynamic_symbolic), and how a    *)
(* call turns the dimensions of its arguments back into values              *)
(* (_calcu_grid, _eval_tir_expr).                                           *)
(*                                                                         *)
(* A kernel is [params, grid]; a parameter is [out, shape, scalar], its     *)
(* shape a sequence of expressions, or the name of a scalar and no shape.   *)
(***************************************************************************)
EXTENDS Integers, Sequences, SequencesExt, AffineForms

Var(x)    == [op |-> "var", name |-> x]
Imm(i)    == [op |-> "int", value |-> i]
Bin(o, a, b) == [op |-> o, a |-> a, b |-> b]

RECURSIVE Eval(_, _), VarsOf(_), detect_affine(_, _)

\* _eval_tir_expr under an assignment env, for the operators it evaluates
\* itself; the rest it leaves to TVM's analyzer.
Eval(e, env) ==
    CASE e.op = "var" -> env[e.name]
      [] e.op = "int" -> e.value
      [] e.op = "add" -> Eval(e.a, env) + Eval(e.b, env)
      [] e.op = "sub" -> Eval(e.a, env) - Eval(e.b, env)
      [] e.op = "mul" -> Eval(e.a, env) * Eval(e.b, env)
      [] e.op \in {"floordiv", "div"} -> FloorDiv(Eval(e.a, env), Eval(e.b, env))
      [] e.op = "mod" -> LET x == Eval(e.a, env)  y == Eval(e.b, env)
                         IN  x - y * FloorDiv(x, y)
      [] e.op \in {"max", "min"} ->
             LET x == Eval(e.a, env)  y == Eval(e.b, env)
             IN  IF (x > y) = (e.op = "max") THEN x ELSE y

\* _collect_tir_vars.
VarsOf(e) ==
    CASE e.op = "var" -> {e.name}
      [] e.op = "int" -> {}
      [] OTHER        -> VarsOf(e.a) \cup VarsOf(e.b)

\* _detect_affine: <<a, b>> when e = a * x + b and x is its only variable.
detect_affine(e, x) ==
    IF e.op = "var" THEN IF e.name = x THEN <<1, 0>> ELSE None
    ELSE IF e.op = "int" THEN <<0, e.value>>
    ELSE LET l == detect_affine(e.a, x)
             r == detect_affine(e.b, x)
         IN  IF e.op = "floordiv"
             THEN IF l # None /\ e.b.op = "int" THEN Divided(l, e.b.value) ELSE None
             ELSE IF l = None \/ r = None THEN None ELSE Combined(e.op, l, r)

-----------------------------------------------------------------------------
\* The dimensions of a kernel in the order the two loops visit them.
Dims(k) ==
    FlattenSeq([i \in DOMAIN k.params |->
        [j \in DOMAIN k.params[i].shape |-> [param |-> i, dim |-> j, e |-> k.params[i].shape[j]]]])

SymbolicVars(k) == UNION {VarsOf(Dims(k)[i].e) : i \in DOMAIN Dims(k)}

Direct(k, x) == SelectSeq(Dims(k), LAMBDA d : d.e = Var(x))
Affine(k, x) ==
    SelectSeq(Dims(k), LAMBDA d : /\ d.e.op # "var"
                                  /\ detect_affine(d.e, x) # None
                                  /\ detect_affine(d.e, x)[1] # 0)

\* The first dimension that is the variable itself, otherwise the first that
\* is an affine expression of it; none if there is neither.
Binding(k, x) ==
    IF Direct(k, x) # <<>> THEN <<[Direct(k, x)[1] EXCEPT !.e = <<1, 0>>]>>
    ELSE IF Affine(k, x) # <<>>
    THEN <<[Affine(k, x)[1] EXCEPT !.e = detect_affine(@, x)]>>
    ELSE <<>>

\* The variables that are parameters themselves are not read from a dimension.
Explicit(k) == {k.params[i].scalar : i \in DOMAIN k.params}

\* metadata["symbolic"], made once when the kernel is compiled.
SymbolicMap(k) ==
    LET bound == {x \in SymbolicVars(k) \ Explicit(k) : Binding(k, x) # <<>>}
    IN  [x \in bound |-> Binding(k, x)[1]]

\* A call raises at one of three points, whatever its arguments: a variable is
\* bound to an output dimension ("depends on output"), the grid needs one that is
\* bound to nothing, or an output shape does ("Missing value").
BoundToOutput(k, symbolic) == \E x \in DOMAIN symbolic : k.params[symbolic[x].param].out
GridUnbound(k, symbolic)   == ~(VarsOf(k.grid) \subseteq DOMAIN symbolic)
OutputUnbound(k, symbolic) == \E i \in DOMAIN Dims(k) :
                                  /\ k.params[Dims(k)[i].param].out
                                  /\ ~(VarsOf(Dims(k)[i].e) \subseteq DOMAIN symbolic)

\* What the compiler records of a kernel.
Compile(k) ==
    LET symbolic == SymbolicMap(k)
    IN  [symbolic |-> symbolic, bad_output |-> BoundToOutput(k, symbolic),
         bad_grid |-> GridUnbound(k, symbolic), bad_shape |-> OutputUnbound(k, symbolic)]

\* The dimensions a caller passes who means env.
ShapeOf(k, env) ==
    [i \in DOMAIN k.params |->
        [j \in DOMAIN k.params[i].shape |-> Eval(k.params[i].shape[j], env)]]
=============================================================================
