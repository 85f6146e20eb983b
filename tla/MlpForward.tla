---------------------------- MODULE MlpForward ----------------------------
(***************************************************************************)
(* mlp_fxp_forward of src/mlp/mlp.c: a network is checked layer by layer,  *)
(* then each layer is computed row by row from the buffer the layer before *)
(* wrote.  Two halves of the caller's work buffer take turns; the last     *)
(* layer writes to the output.                                             *)
(***************************************************************************)
EXTENDS MlpKernels, Sequences

CONSTANTS
    Layers,    \* the layers a network may be made of
    MaxLayers, \* bound: length of a network
    Inputs,    \* vectors of raw numbers a network may be given
    Junk       \* what a buffer holds before it is written

VARIABLES
    layers,    \* a sequence of layers
    input,
    workLen,   \* work_len
    work,      \* the work buffer, or None
    output,
    i,         \* the layer being computed
    r,         \* the row of it to be computed next
    status     \* "checking", "running" or what mlp_fxp_forward returns

(* Room in the caller's output for any of the layers.                      *)
MaxOut == CHOOSE m \in {l.out : l \in Layers} : \A l \in Layers : l.out <= m

(* Weights and offsets have the sizes their layer says, an input has the   *)
(* size of the first layer: the caller's duty, for the code is not told.   *)
ForwardConstants ==
    /\ KernelConstants
    /\ MaxLayers \in Nat
    /\ Junk \notin Raw
    /\ \A l \in Layers :
           /\ l.in \in Nat /\ l.out \in Nat
           /\ l.weights \in {None} \cup [0 .. l.in * l.out - 1 -> Raw]
           /\ l.bias \in {None} \cup [0 .. l.out - 1 -> Raw]
    /\ \E l \in Layers : \A o \in Layers : o.out <= l.out
    /\ \A len \in 0 .. 2 * MaxOut + 3 : None \notin [0 .. len - 1 -> Raw \cup {Junk}]
    /\ \A x \in Inputs, l \in Layers : \A e \in 0 .. l.in - 1 : x[e] \in Raw

vars == <<layers, input, workLen, work, output, i, r, status>>
call == <<layers, input, workLen>>

N == Len(layers)

-----------------------------------------------------------------------------

Widest ==
    CHOOSE w \in {0} \cup {layers[k].out : k \in 1 .. N - 1} :
        \A k \in 1 .. N - 1 : layers[k].out <= w

(* mlp_fxp_required_work_len                                               *)
RequiredWorkLen == 2 * Widest

(* The checks of one layer, in their order.                                *)
LayerError(k) ==
    LET l == layers[k]
    IN  IF l.weights = None \/ l.in = 0 \/ l.out = 0 THEN "ARG"
        ELSE IF k > 1 /\ l.in # layers[k - 1].out THEN "SHAPE"
        ELSE IF l.activation \notin {"none", "relu"} THEN "ARG" ELSE "OK"

CheckNetwork ==
    /\ status = "checking"
    /\ N = 0
    /\ status' = "ARG"
    /\ UNCHANGED <<call, work, output, i, r>>

CheckLayer ==
    /\ status = "checking"
    /\ i < N
    /\ IF LayerError(i + 1) = "OK" THEN i' = i + 1 /\ UNCHANGED status
                                   ELSE status' = LayerError(i + 1) /\ UNCHANGED i
    /\ UNCHANGED <<call, work, output, r>>

CheckWork ==
    /\ status = "checking"
    /\ N > 0 /\ i = N
    /\ status' = IF workLen < RequiredWorkLen \/ (RequiredWorkLen # 0 /\ work = None)
                 THEN "WORK" ELSE "running"
    /\ i' = 0
    /\ r' = 0
    /\ UNCHANGED <<call, work, output>>

-----------------------------------------------------------------------------
(* Mutant: every hidden layer is written to the first half.                *)
DestinationFirst(k) == IF k = N - 1 THEN [buffer |-> "output", from |-> 0]
                                    ELSE [buffer |-> "work", from |-> 0]

(* Where layer k, counted from 0, writes ...                               *)
Destination(k) ==
    IF k = N - 1 THEN [buffer |-> "output", from |-> 0]
    ELSE [buffer |-> "work", from |-> IF k % 2 = 1 THEN RequiredWorkLen \div 2 ELSE 0]

(* ... and where it reads.                                                 *)
Source(k) == IF k = 0 THEN [buffer |-> "input", from |-> 0] ELSE Destination(k - 1)

Contents(buffer) ==
    CASE buffer = "input" -> input [] buffer = "work" -> work [] OTHER -> output

ComputeRow ==
    LET l == layers[i + 1]
        src == Source(i)
        dst == Destination(i)
        v == DenseRow(l.weights, l.bias, Contents(src.buffer), src.from, r, l.in, l.activation)
    IN  /\ status = "running"
        /\ i < N
        /\ r < l.out
        /\ IF dst.buffer = "work"
           THEN work' = [work EXCEPT ![dst.from + r] = v] /\ UNCHANGED output
           ELSE output' = [output EXCEPT ![dst.from + r] = v] /\ UNCHANGED work
        /\ r' = r + 1
        /\ UNCHANGED <<call, i, status>>

NextLayer ==
    /\ status = "running"
    /\ i < N
    /\ r = layers[i + 1].out
    /\ i' = i + 1
    /\ r' = 0
    /\ status' = IF i + 1 = N THEN "OK" ELSE "running"
    /\ UNCHANGED <<call, work, output>>

-----------------------------------------------------------------------------
Init ==
    /\ layers \in UNION {[1 .. n -> Layers] : n \in 0 .. MaxLayers}
    /\ input \in Inputs
    /\ workLen \in {0, 1, 2, 3, RequiredWorkLen, RequiredWorkLen + 1}
    /\ work \in {None, [k \in 0 .. workLen - 1 |-> Junk]}
    /\ output = [k \in 0 .. MaxOut - 1 |-> Junk]
    /\ i = 0 /\ r = 0
    /\ status = "checking"

Next == CheckNetwork \/ CheckLayer \/ CheckWork \/ ComputeRow \/ NextLayer

Spec == Init /\ [][Next]_vars

-----------------------------------------------------------------------------
(* Properties                                                              *)

TypeOK ==
    /\ i \in 0 .. N
    /\ r \in 0 .. MaxOut
    /\ status \in {"checking", "running", "OK", "ARG", "SHAPE", "WORK"}
    /\ work # None => \A k \in DOMAIN work : work[k] \in Raw \cup {Junk}
    /\ \A k \in DOMAIN output : output[k] \in Raw \cup {Junk}

Cells(place, n) == [buffer : {place.buffer}, at : place.from .. place.from + n - 1]

(* The pointers mlp_fxp_dense is given are disjoint, as their restrict     *)
(* demands: no layer overwrites what it still reads.                       *)
BuffersAreDisjoint ==
    status = "running" /\ i < N =>
        Cells(Source(i), layers[i + 1].in) \cap Cells(Destination(i), layers[i + 1].out) = {}

(* No layer writes past the work buffer the caller gave, whatever its      *)
(* length, and every cell it reads was written by the layer before.        *)
StaysInsideWork ==
    status = "running" /\ i < N =>
        /\ Destination(i).buffer = "work" =>
               Destination(i).from + layers[i + 1].out <= workLen
        /\ Source(i).buffer = "work" =>
               \A k \in 0 .. layers[i + 1].in - 1 : work[Source(i).from + k] # Junk

(* A network is accepted if and only if its layers fit together and it is  *)
(* given enough work space, and a refused one leaves the output alone.     *)
RefusedForAReason ==
    LET fits ==
            /\ N > 0
            /\ \A k \in 1 .. N : /\ layers[k].weights # None
                                 /\ layers[k].in > 0 /\ layers[k].out > 0
                                 /\ layers[k].activation \in {"none", "relu"}
            /\ \A k \in 2 .. N : layers[k].in = layers[k - 1].out
        room == \A k \in 1 .. N - 1 : work # None /\ workLen >= 2 * layers[k].out
    IN  /\ status = "OK" => fits /\ room
        /\ status = "WORK" => fits /\ ~room
        /\ status \in {"ARG", "SHAPE"} => ~fits
        /\ status \in {"ARG", "SHAPE", "WORK"} => \A k \in DOMAIN output : output[k] = Junk

(* The network's function, layer by layer on whole vectors.  A neuron that *)
(* does not fit the width of s64 makes it undefined.                       *)
Neuron(l, x, row) ==
    LET sum == Total([k \in 0 .. l.in - 1 |-> l.weights[row * l.in + k] * x[k]], 0, l.in)
        scaled == IF sum < 0 THEN -((-sum) \div One) ELSE sum \div One
        v == scaled + (IF l.bias = None THEN 0 ELSE l.bias[row])
    IN  IF l.activation = "relu" /\ v < 0 THEN [fits |-> scaled \in Raw /\ v \in Raw, v |-> 0]
        ELSE [fits |-> scaled \in Raw /\ v \in Raw, v |-> v]

Function ==
    LET after[k \in 0 .. N] ==
            IF k = 0 THEN [fits |-> TRUE, x |-> input]
            ELSE LET l == layers[k]
                     y == [row \in 0 .. l.out - 1 |-> Neuron(l, after[k - 1].x, row)]
                 IN  [fits |-> after[k - 1].fits /\ \A row \in DOMAIN y : y[row].fits,
                      x |-> [row \in DOMAIN y |-> y[row].v]]
    IN  after[N]

(* What the row-by-row computation in shared buffers, with its four        *)
(* accumulators, leaves in the output is the network's function.           *)
OutputIsFunction ==
    status = "OK" /\ Function.fits =>
        \A k \in 0 .. layers[N].out - 1 : output[k] = Function.x[k]
=============================================================================
