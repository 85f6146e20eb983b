----------------------------- MODULE MlpMatMul -----------------------------
(***************************************************************************)
(* mlp_fxp_matmul_bias_act of src/mlp/mlp.c: C[M][N] = A[M][K] * B[K][N],  *)
(* row by row, four columns at a time and then the rest one by one.        *)
(***************************************************************************)
EXTENDS MlpKernels, Sequences

CONSTANTS
    Shapes,    \* <<M, N, K>>
    Patterns,  \* sequences of raw numbers the matrices are filled with
    Junk       \* what C holds before it is written

MatMulConstants ==
    /\ KernelConstants
    /\ Junk \notin Raw
    /\ Shapes \subseteq Nat \X Nat \X Nat
    /\ Patterns \subseteq Seq(Raw) \ {<< >>}

VARIABLES m, n, k, a, b, bias, activation, c, i, j

inputs == <<m, n, k, a, b, bias, activation>>
vars == <<inputs, c, i, j>>

Filled(p, len) == [x \in 0 .. len - 1 |-> p[(x % Len(p)) + 1]]

(* Mutant: the row of B is stepped by its height.                          *)
ProductsByHeight(col) == [x \in 0 .. k - 1 |-> a[i * k + x] * b[(x * k + col) % (k * n)]]

(* Column col of row i: B is walked with a stride of one row.              *)
ColumnProducts(col) == [x \in 0 .. k - 1 |-> a[i * k + x] * b[x * n + col]]

Cell(col) == FinishAcc(Total(ColumnProducts(col), 0, k), bias, col, activation)

ColumnGroup ==
    /\ i < m
    /\ j + 4 <= n
    /\ c' = [x \in DOMAIN c |-> IF x \in i * n + j .. i * n + j + 3 THEN Cell(x - i * n) ELSE c[x]]
    /\ j' = j + 4
    /\ UNCHANGED <<inputs, i>>

RowDone == j = n

Column ==
    /\ i < m
    /\ j + 4 > n
    /\ j < n
    /\ c' = [c EXCEPT ![i * n + j] = Cell(j)]
    /\ j' = j + 1
    /\ UNCHANGED <<inputs, i>>

NextRow ==
    /\ i < m
    /\ RowDone
    /\ i' = i + 1
    /\ j' = 0
    /\ UNCHANGED <<inputs, c>>

Init ==
    /\ \E shape \in Shapes : m = shape[1] /\ n = shape[2] /\ k = shape[3]
    /\ \E p, q \in Patterns : a = Filled(p, m * k) /\ b = Filled(q, k * n)
    /\ bias \in {None} \cup {Filled(p, n) : p \in Patterns}
    /\ activation \in {"none", "relu"}
    /\ c = [x \in 0 .. m * n - 1 |-> Junk]
    /\ i = 0 /\ j = 0

Next == ColumnGroup \/ Column \/ NextRow

Spec == Init /\ [][Next]_vars

-----------------------------------------------------------------------------
(* Properties                                                              *)

(* The groups of four and the columns after them cover each cell of C once,*)
(* in order: what is written is what lies before the place reached.        *)
WrittenInOrder ==
    \A x \in DOMAIN c : c[x] # Junk <=> x < i * n + j

(* mlp.h gives mlp_fxp_dense_batch and mlp_fxp_matmul_bias_act the same    *)
(* meaning up to the layout of the weights: the product computed by column *)
(* groups is the batch of dense layers whose weights are B transposed,     *)
(* overflowing sums included.                                              *)
MatMulIsDenseBatch ==
    i = m => \A row \in 0 .. m - 1, col \in 0 .. n - 1 :
        c[row * n + col] = DenseRow(Transpose(b, k, n), bias, a, row * k, col, k, activation)
=============================================================================
