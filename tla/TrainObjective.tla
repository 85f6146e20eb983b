--------------------------- MODULE TrainObjective ---------------------------
(***************************************************************************)
(* The numbers of the training governor (src/train.c, freqmind_choose_freq *)
(* from the counts of a period on): the objective that the optimizer is    *)
(* told, the performance per energy (P/E) of evaluation samples, and the   *)
(* rows of averages in the results file.  The order of benchmarks, cycles  *)
(* and calls of the optimizer is TrainGovernor's.                          *)
(*                                                                         *)
(* Numbers are raw Q48.16; the counts of a period are too small to leave   *)
(* its range, for which it takes 2^47 cycles.                              *)
(***************************************************************************)
EXTENDS Integers, Sequences

CONSTANTS
    One,              \* FXP48_16_ONE
    DecScale,         \* FXP_DEC_SCALE
    EnergyScale,      \* FREQMIND_OBJECTIVE_ENERGY_SCALE_UJ
    MissCost,         \* MEMORY_LATENCY_NS, in cycles per MissUnit of frequency
    MissUnit,         \* 10^6
    BenchmarkCount,   \* BENCHMARK_COUNT
    SamplesPerRow,    \* FREQMIND_EVAL_SAMPLES_PER_BENCHMARK
    Cycles, Misses, Energies, Freqs,  \* counts, uJ and kHz that can occur
    None

ObjectiveConstants ==
    /\ One \in Nat \ {0} /\ DecScale \in Nat \ {0} /\ EnergyScale \in Nat \ {0}
    /\ MissCost \in Nat /\ MissUnit \in Nat \ {0}
    /\ BenchmarkCount \in Nat \ {0} /\ SamplesPerRow \in Nat \ {0}
    /\ Cycles \subseteq Nat \ {0} /\ Misses \subseteq Nat
    /\ Energies \subseteq Nat \ {0} /\ Freqs \subseteq Nat \ {0}

VARIABLES
    min, max,     \* the policy's limits
    predicted,    \* predicted_frequency_khz
    phase,        \* "train" or "eval"
    benchmark,    \* eval_benchmark_id
    count, sum,   \* eval_samples, eval_metric_sum
    told,         \* None, or the last training sample
    row,          \* None, or the last row of the results file
    \* history
    clamped,      \* predicted was clamped to the limits that hold now
    metrics       \* the metrics of this evaluation of a benchmark

limits == <<min, max>>
evaluation == <<phase, benchmark, count, sum, metrics>>
vars == <<limits, predicted, evaluation, told, row, clamped>>

-----------------------------------------------------------------------------
(* C division truncates toward zero.                                       *)
Quot(x, y) == IF x >= 0 THEN x \div y ELSE -((-x) \div y)

LostCycles(misses, khz) == (misses * MissCost * khz) \div MissUnit

(* freqmind_calc_pe_no_penalty                                             *)
PeNoPenalty(cycles, energy) == Quot(cycles * One, energy)

(* Only a performance of zero is multiplied by the scale.                  *)
Performance(cycles, lost) ==
    LET p == IF lost >= cycles THEN 0 ELSE (cycles - lost) * One
    IN  IF p = 0 THEN p * EnergyScale ELSE p

(* freqmind_calc_objective                                                 *)
CalcObjective(cycles, lost, energy) == Quot(Performance(cycles, lost), energy)

(* How far the frequency predicted in the period before lies outside the   *)
(* limits of now.                                                          *)
Excess == IF predicted < min THEN min - predicted
          ELSE IF predicted > max THEN predicted - max ELSE 0

Objective(cycles, lost, energy) ==
    CalcObjective(cycles, lost, energy) - Excess * One

(* freqmind_fxp_to_decimal                                                 *)
Decimal(raw) ==
    LET frac == raw - Quot(raw, One) * One
    IN  [whole |-> Quot(raw, One),
         frac  |-> ((IF frac < 0 THEN -frac ELSE frac) * DecScale) \div One]

-----------------------------------------------------------------------------

Clamped(f) == IF f < min THEN min ELSE IF f > max THEN max ELSE f

(* The end of freqmind_choose_freq: freqmind_predict_freq, with whatever   *)
(* the network makes of the counts.                                        *)
Predict ==
    /\ \E f \in Freqs : predicted' = Clamped(f)
    /\ clamped' = TRUE

(* The core moves the limits between two periods.                          *)
ChangeLimits ==
    /\ \E lo, hi \in Freqs : lo <= hi /\ min' = lo /\ max' = hi
    /\ clamped' = (clamped /\ min' = min /\ max' = max)
    /\ UNCHANGED <<predicted, evaluation, told, row>>

StartBenchmark(b) == benchmark' = b /\ count' = 0 /\ sum' = 0 /\ metrics' = << >>

(* A training period.  After the last benchmark's argument set evaluation  *)
(* starts.                                                                 *)
TrainSample ==
    /\ phase = "train"
    /\ \E cycles \in Cycles, misses \in Misses, khz \in Freqs, energy \in Energies :
          told' = [objective |-> Objective(cycles, LostCycles(misses, khz), energy),
                   pe        |-> PeNoPenalty(cycles, energy),
                   excess    |-> Excess,
                   clamped   |-> clamped]
    /\ \/ UNCHANGED evaluation
       \/ phase' = "eval" /\ StartBenchmark(0)
    /\ Predict
    /\ UNCHANGED <<limits, row>>

(* freqmind_handle_eval_metric                                             *)
EvalSample ==
    /\ phase = "eval"
    /\ count + 1 < SamplesPerRow
    /\ \E cycles \in Cycles, energy \in Energies :
          /\ sum' = sum + PeNoPenalty(cycles, energy)
          /\ metrics' = Append(metrics, PeNoPenalty(cycles, energy))
    /\ count' = count + 1
    /\ Predict
    /\ UNCHANGED <<limits, phase, benchmark, told, row>>

(* Mutant: the sum goes on into the next benchmark.                        *)
NextEvaluationKeepsSum ==
    IF benchmark + 1 >= BenchmarkCount
    THEN phase' = "train" /\ StartBenchmark(0)
    ELSE /\ benchmark' = benchmark + 1
         /\ count' = 0 /\ metrics' = << >>
         /\ sum' = sum
         /\ UNCHANGED phase

NextEvaluation ==
    IF benchmark + 1 >= BenchmarkCount
    THEN phase' = "train" /\ StartBenchmark(0)
    ELSE StartBenchmark(benchmark + 1) /\ UNCHANGED phase

Average(total) == Quot(total, count + 1)

(* freqmind_handle_eval_metric and freqmind_finish_eval_benchmark          *)
FinishEvalBenchmark ==
    /\ phase = "eval"
    /\ count + 1 >= SamplesPerRow
    /\ \E cycles \in Cycles, energy \in Energies :
          LET metric == PeNoPenalty(cycles, energy)
              avg == Average(sum + metric)
          IN  row' = [samples |-> count + 1, avg |-> avg, decimal |-> Decimal(avg),
                      metrics |-> Append(metrics, metric)]
    /\ NextEvaluation
    /\ Predict
    /\ UNCHANGED <<limits, told>>

(* stop and start, at any point                                            *)
Restart ==
    /\ phase' = "train"
    /\ StartBenchmark(0)
    /\ UNCHANGED <<limits, predicted, told, row, clamped>>

Init ==
    /\ min \in Freqs /\ max \in Freqs /\ min <= max
    /\ predicted \in Freqs   \* policy->cur
    /\ phase = "train"
    /\ benchmark = 0 /\ count = 0 /\ sum = 0
    /\ told = None /\ row = None
    /\ clamped = FALSE /\ metrics = << >>

Next == ChangeLimits \/ TrainSample \/ EvalSample \/ FinishEvalBenchmark \/ Restart

Spec == Init /\ [][Next]_vars

-----------------------------------------------------------------------------
(* Properties                                                              *)

(* The objective of training and the metric of evaluation have one unit    *)
(* and one scale, so that lost cycles and frequencies out of limits only   *)
(* ever lower the former below the latter.                                 *)
PenaltiesOnlyLower == told # None => told.objective <= told.pe

(* A candidate of the optimizer, whose predictions are limited as they are *)
(* made, is charged for a frequency out of limits only if the limits moved *)
(* after the prediction, or if the frequency was policy->cur and nobody's  *)
(* prediction.                                                             *)
ExcessIsOfMovedLimits == told # None /\ told.clamped => told.excess = 0

Total(s) == LET upTo[i \in 0 .. Len(s)] == IF i = 0 THEN 0 ELSE upTo[i - 1] + s[i]
            IN  upTo[Len(s)]

(* A row is the average of the samples of its own benchmark in its own     *)
(* cycle, all of them, rounded down, and its two columns show one number:  *)
(* wherever training was stopped before, and whatever benchmarks were      *)
(* evaluated before.                                                       *)
RowIsAverage ==
    row # None =>
        /\ row.samples = Len(row.metrics)
        /\ Total(row.metrics) - row.samples * row.avg \in 0 .. row.samples - 1
        /\ LET shown == row.decimal.whole * DecScale + row.decimal.frac
           IN  row.avg * DecScale - shown * One \in 0 .. One - 1
=============================================================================
