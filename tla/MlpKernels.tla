----------------------------- MODULE MlpKernels -----------------------------
(***************************************************************************)
(* The kernels of src/mlp/mlp.c on flat arrays of raw fixed-point numbers: *)
(* functions on 0 .. n-1, row-major for matrices.  An accumulator is exact *)
(* (128 bits); what is made of it has the width of s64.                    *)
(***************************************************************************)
EXTENDS Integers

CONSTANTS
    One,   \* FXP48_16_ONE
    Half,  \* 2^63: a raw number is in -Half .. Half - 1
    None   \* NULL

KernelConstants ==
    /\ One \in Nat \ {0}
    /\ Half \in Nat \ {0}

Raw == -Half .. Half - 1

(* Conversion to s64; the kernel is built so that overflow wraps.          *)
Wrapped(v) == ((v + Half) % (2 * Half)) - Half

(* f[lo] + ... + f[hi - 1]                                                 *)
Total(f, lo, hi) ==
    LET upTo[k \in lo .. hi] == IF k = lo THEN 0 ELSE upTo[k - 1] + f[k - 1]
    IN  IF hi <= lo THEN 0 ELSE upTo[hi]

(* Mutant: rounding by an arithmetic shift, towards minus infinity.        *)
DownscaleFloor(acc) == acc \div One

(* mlp_fxp_downscale_acc: towards zero.                                    *)
Downscale(acc) == IF acc >= 0 THEN acc \div One ELSE -((-acc) \div One)

Products(a, aFrom, b, bFrom, n) == [k \in 0 .. n - 1 |-> a[aFrom + k] * b[bFrom + k]]

(* Mutant: the elements after the last group of four are left out.         *)
DotRawGroups(a, aFrom, b, bFrom, n) ==
    Total(Products(a, aFrom, b, bFrom, n), 0, 4 * (n \div 4))

(* mlp_fxp_dot_raw: four accumulators, then the rest.                      *)
DotRaw(a, aFrom, b, bFrom, n) ==
    LET p == Products(a, aFrom, b, bFrom, n)
        groups == n \div 4
        Lane(l) == Total([g \in 0 .. groups - 1 |-> p[4 * g + l]], 0, groups)
    IN  Lane(0) + Lane(1) + Lane(2) + Lane(3) + Total(p, 4 * groups, n)

ReluRaw(v) == IF v > 0 THEN v ELSE 0

(* mlp_fxp_finish_acc                                                      *)
FinishAcc(acc, bias, j, activation) ==
    LET scaled == Wrapped(Downscale(acc))
        raw == IF bias = None THEN scaled ELSE Wrapped(scaled + bias[j])
    IN  IF activation = "relu" THEN ReluRaw(raw) ELSE raw

(* One output of mlp_fxp_dense: row r of weights[out_dim][in_dim].         *)
DenseRow(weights, bias, input, from, r, inDim, activation) ==
    FinishAcc(DotRaw(weights, r * inDim, input, from, inDim), bias, r, activation)

(* mlp_fxp_transpose                                                       *)
Transpose(src, rows, cols) ==
    [k \in 0 .. rows * cols - 1 |-> src[(k % rows) * cols + (k \div rows)]]
=============================================================================
