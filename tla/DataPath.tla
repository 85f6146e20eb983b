------------------------------ MODULE DataPath ------------------------------
(***************************************************************************)
(* The code on the way of the numbers: the fixed-point helpers, the two    *)
(* routines of the network, the objective with its averages, and the file  *)
(* that takes the parameters from training to inference.  They share no    *)
(* state: a behaviour is one part's, and the variables of the others are   *)
(* None throughout.                                                        *)
(***************************************************************************)
EXTENDS Integers, Sequences

CONSTANTS
    None, Junk,
    One, Half, Layers, MaxLayers, Inputs,          \* MlpForward
    Shapes, Patterns,                              \* MlpMatMul
    H, F,                                          \* ScaledArithmetic
    DecScale, EnergyScale, MissCost, MissUnit, BenchmarkCount, SamplesPerRow,
    Cycles, Misses, Energies, Freqs,               \* TrainObjective
    Sizes, MaxSaves                                \* TunedParams

VARIABLES
    part,
    layers, input, workLen, work, output, i, r, status,
    m, n, k, a, b, bias, activation, c, j,
    op, step, acc, rem, result,
    min, max, predicted, phase, benchmark, count, sum, told, row, clamped, metrics,
    source, training, header, saving, saves, module, params

-----------------------------------------------------------------------------
Forward    == INSTANCE MlpForward
MatMul     == INSTANCE MlpMatMul
Arithmetic == INSTANCE ScaledArithmetic
Objective  == INSTANCE TrainObjective
Tuned      == INSTANCE TunedParams

ASSUME DataPathConstants ==
    /\ Forward!ForwardConstants
    /\ MatMul!MatMulConstants
    /\ Arithmetic!WidthConstants
    /\ Objective!ObjectiveConstants
    /\ Tuned!TunedConstants

-----------------------------------------------------------------------------
(* i, status and the operands a and b belong to two parts each.            *)

ForwardOnly == <<layers, input, workLen, work, output, r>>
MatMulOnly == <<m, n, k, bias, activation, c, j>>
ArithmeticOnly == <<op, step, acc, rem, result>>
ObjectiveVars ==
    <<min, max, predicted, phase, benchmark, count, sum, told, row, clamped, metrics>>
TunedVars == <<source, training, header, saving, saves, module, params>>

ForwardParked ==
    layers = None /\ input = None /\ workLen = None /\ work = None /\ output = None /\ r = None

MatMulParked ==
    /\ m = None /\ n = None /\ k = None /\ bias = None /\ activation = None
    /\ c = None /\ j = None

ArithmeticParked == op = None /\ step = None /\ acc = None /\ rem = None /\ result = None

ObjectiveParked ==
    /\ min = None /\ max = None /\ predicted = None /\ phase = None /\ benchmark = None
    /\ count = None /\ sum = None /\ told = None /\ row = None /\ clamped = None
    /\ metrics = None

TunedParked ==
    /\ source = None /\ training = None /\ header = None /\ saving = None /\ saves = None
    /\ module = None /\ params = None

Init ==
    \/ /\ part = "forward" /\ Forward!Init
       /\ a = None /\ b = None
       /\ MatMulParked /\ ArithmeticParked /\ ObjectiveParked /\ TunedParked
    \/ /\ part = "matmul" /\ MatMul!Init
       /\ status = None
       /\ ForwardParked /\ ArithmeticParked /\ ObjectiveParked /\ TunedParked
    \/ /\ part = "arithmetic" /\ Arithmetic!Init
       /\ i = None
       /\ ForwardParked /\ MatMulParked /\ ObjectiveParked /\ TunedParked
    \/ /\ part = "objective" /\ Objective!Init
       /\ i = None /\ status = None /\ a = None /\ b = None
       /\ ForwardParked /\ MatMulParked /\ ArithmeticParked /\ TunedParked
    \/ /\ part = "tuned" /\ Tuned!Init
       /\ i = None /\ status = None /\ a = None /\ b = None
       /\ ForwardParked /\ MatMulParked /\ ArithmeticParked /\ ObjectiveParked

Next ==
    /\ \/ /\ part = "forward" /\ Forward!Next
          /\ UNCHANGED <<a, b, MatMulOnly, ArithmeticOnly, ObjectiveVars, TunedVars>>
       \/ /\ part = "matmul" /\ MatMul!Next
          /\ UNCHANGED <<status, ForwardOnly, ArithmeticOnly, ObjectiveVars, TunedVars>>
       \/ /\ part = "arithmetic" /\ Arithmetic!Next
          /\ UNCHANGED <<i, ForwardOnly, MatMulOnly, ObjectiveVars, TunedVars>>
       \/ /\ part = "objective" /\ Objective!Next
          /\ UNCHANGED <<i, status, ForwardOnly, MatMulOnly, a, b, ArithmeticOnly, TunedVars>>
       \/ /\ part = "tuned" /\ Tuned!Next
          /\ UNCHANGED <<i, status, ForwardOnly, MatMulOnly, a, b, ArithmeticOnly, ObjectiveVars>>
    /\ UNCHANGED part

vars == <<part, i, status, a, b, ForwardOnly, MatMulOnly, ArithmeticOnly, ObjectiveVars,
          TunedVars>>

Spec == Init /\ [][Next]_vars

-----------------------------------------------------------------------------
(* Properties                                                              *)

(* mlp_fxp_forward never writes where a layer still reads, and never past  *)
(* the caller's work buffer; what it reads there was written before.       *)
WorkBufferIsSafe ==
    part = "forward" =>
        Forward!TypeOK /\ Forward!BuffersAreDisjoint /\ Forward!StaysInsideWork

(* It refuses exactly the networks that do not fit together or into the    *)
(* work buffer, and computes the function of the others.                   *)
ForwardIsFunction ==
    part = "forward" => Forward!RefusedForAReason /\ Forward!OutputIsFunction

(* mlp_fxp_matmul_bias_act writes each cell once, and agrees with          *)
(* mlp_fxp_dense_batch on the transposed weights.                          *)
MatMulAgrees == part = "matmul" => MatMul!WrittenInOrder /\ MatMul!MatMulIsDenseBatch

(* The products and quotients of ga.c are exact up to saturation, step by  *)
(* step, and those of fixed_point.h are the same numbers.                  *)
ArithmeticIsExact ==
    part = "arithmetic" =>
        Arithmetic!LongDivision /\ Arithmetic!ResultIsExact /\ Arithmetic!AgreesWithFxp

(* The objective is the metric less penalties, a candidate pays only for   *)
(* limits that moved, and a row is the average of its benchmark's samples. *)
ObjectiveIsFair ==
    part = "objective" =>
        /\ Objective!PenaltiesOnlyLower
        /\ Objective!ExcessIsOfMovedLimits
        /\ Objective!RowIsAverage

(* A module built for inference runs with one complete save or with the    *)
(* pretrained parameters.                                                  *)
ParamsAreComplete == part = "tuned" => Tuned!ParamsAreOfOneSave
=============================================================================
