------------------------------ MODULE MCLaunch ------------------------------
(* Two threads, two streams, a task queue of two entries.  The kernels differ *)
(* in where their symbolic variables occur: as a dimension, inside an affine  *)
(* one, as a scalar parameter, in an output only, or next to another variable. *)
(* The first kernel reaches the launcher, the others raise on the way.        *)
EXTENDS Launch, Symbolic

n == Var("n")
m == Var("m")
j == Var("j")
k == Var("k")
In(shape)  == [out |-> FALSE, shape |-> shape, scalar |-> ""]
Out(shape) == [out |-> TRUE, shape |-> shape, scalar |-> ""]
Scalar(x)  == [out |-> FALSE, shape |-> <<>>, scalar |-> x]
TwoNPlus1  == Bin("add", Bin("mul", Imm(2), n), Imm(1))
TwoMPlus1  == Bin("add", Bin("mul", m, Imm(2)), Imm(1))
FourMinusN == Bin("sub", Imm(4), n)

Signatures == <<
    [params |-> <<Scalar("k"), In(<<k, Bin("max", n, k), FourMinusN>>), In(<<TwoMPlus1, j>>),
                  Out(<<TwoNPlus1, Bin("floordiv", j, Imm(2)), Bin("mod", m, Imm(2))>>)>>,
     grid |-> Bin("mul", n, Bin("add", m, j))],
    [params |-> <<In(<<TwoNPlus1>>), Out(<<n>>)>>, grid |-> n],
    [params |-> <<In(<<Bin("mul", n, m), n>>), Out(<<n>>)>>, grid |-> m],
    [params |-> <<In(<<Bin("mul", n, m), n>>), Out(<<Bin("mul", n, m)>>)>>, grid |-> n]>>
SmallKernels == DOMAIN Signatures
Compiled == [c \in SmallKernels |-> Compile(Signatures[c])]
CompiledSymbolic == [c \in SmallKernels |-> Compiled[c].symbolic]
TwoMeanings == {[n |-> 1, m |-> 3, j |-> 5, k |-> 2], [n |-> 2, m |-> 2, j |-> 4, k |-> 1]}
ShapesMeant == [c \in SmallKernels, v \in TwoMeanings |-> ShapeOf(Signatures[c], v)]
OutputRaises == {c \in SmallKernels : Compiled[c].bad_output}
GridRaises == {c \in SmallKernels : Compiled[c].bad_grid}
ShapeRaises == {c \in SmallKernels : Compiled[c].bad_shape}
EvalGrid(c, v) == Eval(Signatures[c].grid, v)
TwoThreads == {"t1", "t2"}
TwoStreams == {"s1", "s2"}
=============================================================================
