# freqmind: TLA+ models, model checking and proofs

freqmind is a Linux cpufreq governor that reads PMU events, predicts a frequency
with a small MLP in fixed-point arithmetic, and — in its training build — tunes
the MLP's parameters on the machine itself with a genetic algorithm while
benchmark programs run. This directory holds the TLA+ specifications of its
stateful parts and of its arithmetic, the TLC configurations that check them on
small instances, and machine-checked proofs about the stateful parts and the
arithmetic for every configuration.

Source paths below are relative to the repository's root; most code is in
`src/`, written here as `train.c`, `genetic/ga.c` and so on.

## 1. Inventory

| Component | State it keeps | Operations | Module |
|---|---|---|---|
| Genetic optimizer `genetic/ga.c` | `struct ga`: start vector, offspring with results and penalties, elites, best pairs, counters, sigma, `done`, `has_pending` | `ga_init`, `ga_get_new_parameters`, `ga_begin_new_argument_set`, accessors | `GaOptimizer`, `ArgumentSetSearch`, `GaOptimizerProofs` |
| Training governor `train.c` | `freqmind_policy_t`: phase, cycle, parameters in force and best, benchmark id and pid, worker, optimizer; results file; tuned-parameters header | cpufreq `init`, `start`, `stop`, `exit`, `limits`; the worker's period | `TrainGovernor`, `TrainGovernorProofs`; its numbers in `TrainObjective`, `DataPathProofs` |
| Benchmark processes | a running program | started and killed by the governor; may end by itself | `TrainGovernor` |
| PMU counters `pmu/pmu.c` | perf events, previous values, `_created` | create, read, reset, delete | `Measurement`, `MeasurementProofs` |
| AMD core energy `power/amd_core_energy.c` | per CPU: `initialized`, `last_raw` | init state, delta, free state | `Measurement`, `MeasurementProofs` |
| Raspberry Pi 5 sampler `power/rpi5/vdd_core_sampler.c` | firmware handle, timer, thread, pending ticks, power sum, sample count | start, stop, two take functions, timer callback, thread | `VddCoreSampler`, `EnergyMeterProofs` |
| Energy meter `power/energy_meter.c` | `energy_meter_lock`, backend, last value, unit, range | init, deinit, read delta, get backend | `EnergyMeter`, `EnergyAccount`, `EnergyMeterProofs` |
| Inference governor `inference.c` | `freqmind_policy_t`: counters, worker, predicted frequency; the policy's limits | cpufreq `init`, `start`, `stop`, `exit`, `limits`; the worker's period | `InferenceGovernor`, `InferenceGovernorProofs` |
| MLP `mlp/mlp.c` | the caller's work buffer and output | dense, forward, matmul, transpose | `MlpKernels`, `MlpForward`, `MlpMatMul`, `DataPathProofs` |
| Shared weights `perf_mlp_params` | one array for all policies, `freqmind_mlp_lock` | set the parameters, predict | `MlpWeights`, `MlpWeightsProofs` |
| Fixed point `utility/fixed_point.h`, helpers of `ga.c` | none | Q48.16 products and quotients | `ScaledArithmetic`, `DataPathProofs` |
| Tuned parameters `freqmind_tuned_params.h`, `Makefile` targets | the header on disk, the built and the loaded module | save, build, load, pretrain | `TunedParams`, `DataPathProofs` |
| Benchmark programs, the offline part of `pretrain.py`, `run_pmu_sweep.sh` | – | user-space load, offline training and measurement | not modelled |

### How they interact

* The cpufreq core calls `init`, `start`, `stop`, `limits` and `exit` of a policy
  one at a time. `start` of the training governor creates the PMU counter, takes
  an energy baseline, starts a training cycle (optimizer, first candidate,
  benchmark 0) and then the worker.
* The worker thread wakes up every `PERIOD_MS`, reads PMU and energy, turns them
  into an objective, hands it to the optimizer (training) or averages it
  (evaluation), predicts a frequency with the parameters in force and sets it.
  The sample of one wake-up is therefore the effect of the prediction made in
  the wake-up before: everything about credit assignment rests on this delay.
* The optimizer is an ask/tell object: one call reports the result of the last
  candidate and asks for the next. It returns `NULL` when the argument set is
  done; the governor then keeps the best pair and goes on to the next benchmark,
  or to the evaluation of the cycle.
* `stop` sets a flag, wakes the worker, joins it, then kills the benchmark, saves
  the best parameters to a header that the inference build includes, frees the
  optimizer and deletes the counters.
* All policies of a module predict through one array of weights, which each
  overwrites with its own parameters under `freqmind_mlp_lock`.
* The worker of the inference governor and the core, which moves the policy's
  limits and has `freqmind_limits` correct the frequency, both set the frequency
  and do not exclude each other.
* The Raspberry Pi sampler is timer + thread + any number of callers that
  exchange atomics without a lock.
* The energy meter is exported and has no caller in the repository: the model
  lets several threads call any of its functions in any order.

### What is hard, and the properties that make each part correct

* **Optimizer.** Attribution: an answer belongs to `active_index`, and results of
  an earlier generation are left in `offspring_raw`; a budget may end a
  generation early. Correct means: what is kept as elite or best was measured by
  the caller in this argument set; nothing measured beats the best by more than
  the threshold; the limits are met exactly; a finished set leaves nothing
  pending.
* **Training governor.** A joined thread before anything is freed; processes
  started without killing the one before (`put_pid` sends no signal); benchmarks
  that cannot be started; a start that fails half-way; credit across the change
  of benchmark and phase; the best result over benchmarks, cycles and stops at
  any point; rows of the results file when a write fails after part of a line.
* **Measurement.** Counters that wrap; an event that cannot be created after
  others were; two readings taken one after the other of which the second may
  fail; a baseline that must not be older than the start.
* **Sampler.** Ticks pile up while the firmware is slow; `start` clears the
  accumulators while callers take them; `stop` gives the firmware handle back;
  two atomics that are not exchanged together.
* **Meter.** Several threads read one baseline; init stores before it may fail;
  the backend is looked at without the lock; three counters that wrap
  differently, one of which may go round unseen between two refused readings.
* **Inference governor.** Limits that move between the prediction, the driver's
  resolution and the setting of a frequency; stop and exit against the worker.
* **MLP and arithmetic.** Two halves of one buffer by turns; loops unrolled by
  four with a rest; sums wider than `s64`; helpers that saturate part by part.
* **Objective.** A penalty for a prediction made under other limits; sums carried
  over benchmarks, cycles and restarts.
* **Tuned parameters.** A file that is truncated first and written chunk by chunk,
  read by a build at any moment, for a network that may have another size by now.

`PROJECT.json` lists each hazard with its line and the properties that cover it,
and says so where none does.

## 2. Modules and how they correspond to the code

```
ArgumentSetSearch  <--refines--  GaOptimizer  <--EXTENDS--  MCGaOptimizer, GaOptimizerProofs
        ^
        | INSTANCE
   TrainGovernor     <--EXTENDS--  MCTrainGovernor, TrainGovernorProofs
   InferenceGovernor <--EXTENDS--  MCInferenceGovernor, InferenceGovernorProofs
   MlpWeights        <--EXTENDS--  MCMlpWeights, MlpWeightsProofs
EnergyAccount  <--refines--  EnergyMeter  <--EXTENDS--  MCEnergyMeter, EnergyMeterProofs --+
   VddCoreSampler    <--EXTENDS--  MCVddCoreSampler, EnergyMeterProofs                     |
   Measurement       <--EXTENDS--  MCMeasurement, MeasurementProofs -----------------------+--EXTENDS--> NumberFacts
   DataPath          <--EXTENDS--  MCDataPath, DataPathProofs -----------------------------+
MlpKernels  <--EXTENDS--  MlpForward, MlpMatMul
MlpForward, MlpMatMul, ScaledArithmetic, TrainObjective, TunedParams  <--INSTANCE--  DataPath
   TunedParams       <--EXTENDS--  MCTunedParams
```

Some definitions are preceded by others marked *Mutant*: the same definition as
a plausible mistake would have written it. No specification uses them; replacing
the definition by its mutant must violate the property that `PROJECT.json` pairs
it with, which is how we know that each property can tell right code from wrong.

### `GaOptimizer` — `genetic/ga.c`

One variable per field of `struct ga` that any code reads (`elite_fitness` and
`best_regularized_fitness` are only written and are left out), `offered` for the
pointer last returned and the history `observed` of the pairs the caller
measured. `ga_get_new_parameters(r)` is three actions, by what it returns:
`OfferNext` (the generation goes on), `OfferFromNextGeneration` (it closed) and
`EndArgumentSet` (`NULL`). `FinishGeneration` holds all of
`ga_finish_generation`: the pool of old elites and evaluated offspring, fitness
from mean and mean absolute deviation less the penalty, selection in order of
fitness with ties to the earlier entry, the scan for the best observed result
with its threshold, sigma, the patience counter, the three limits and the next
offspring. Fixed-point products and quotients truncate as in the code, with
`One` raw units for 1.0.

Abstractions: a parameter vector has one coordinate; random draws are
nondeterministic, so mutation, blending and anchor pull may produce any value,
clamped as in the code; values stay inside the range in which the helpers do not
saturate (`ScaledArithmetic` shows what they do at its ends). `Taken` states the scan by the set of entries it takes, `Selections`
the selection loop by the sequence it picks, so that neither is recursive.
Calls of `ga_begin_new_argument_set` on an unfinished set answer `-EBUSY` and
change nothing; the model leaves them out.

### `ArgumentSetSearch` — what the optimizer promises

Five variables: start, offered, observed, best, done. An offer is answered by
one result; `best` only ever becomes a measured pair that beats the one before by
more than the threshold; at the end nothing measured beats it by more; at most
`MaxAnswers` results are consumed. `GaOptimizer` implements it
(`ImplementsSearch`, with `best <- bestObserved`); `TrainGovernor` is built on it
and on nothing else of the optimizer, except that the next set starts from a
measured pair (`WorkerNextBenchmark`), which is what
`ga_begin_new_argument_set(NULL)` does with the best regularized elite.

### `TrainGovernor` — `train.c`

Two threads. The cpufreq core: `InitPolicy`; `Start`, `StartExec`, `StartWorker`
or `StartWorkerFails` (`freqmind_start` cut where another actor can see the
difference); `Stop`, `StopJoin`, `StopFinish`; `ExitPolicy`. The worker:
`WorkerWake` into one period, which is
`WorkerNoSample` / `WorkerTell` / `WorkerConclude` / `WorkerEvalSample` /
`WorkerFinishEval` / `WorkerFinishCycle` / `WorkerNoOptimizer` according to phase
and outcome, the steps after the end of an argument set (`WorkerSelect`,
`WorkerNextBenchmark`, `WorkerAsk` or `WorkerStartEvaluation`, then
`WorkerExec`), and `WorkerPredict`. `BenchmarkExits` is the world.

A benchmark process is a pid that is alive or dead; `forgotten` counts live
processes whose pid was dropped. Starting one may fail (setup or exec), writing
results and header may fail, `ga_init` may run out of memory, creating counters
and threads may fail: each failure is a disjunct. What is abstracted: the
objective is any value of `Results` (`TrainObjective` computes it); a frequency is the parameters that predicted
it (`applied`); a sample dropped for any reason is `WorkerNoSample`.
`freqmind_limits` changes no governor state and has no action (its race with the
worker is in `InferenceGovernor`, whose function is the same). A failure of
`start` before anything was changed is its absence.

Two details a reader may stumble over, both as the code has them: evaluation runs
with the parameters selected last (`active_mlp_params`, those of the last
benchmark's argument set), while the header and the next cycle get the best over
all of them; and after a failed exec `current_benchmark_id` keeps its value, so
that an argument set runs without a process under that id, and the id decides
what comes after it. Between two benchmarks of a cycle the start is thereby tried
again. For benchmark 0 of a later cycle the id left is the last benchmark's: the
cycle ends after it. `unstarted` remembers which benchmarks a cycle could not
start, `trained` those an argument set ended on with a process behind it.

The results file. `freqmind_write_all` may fail after part of a line, for the
header (`PrepareResultsFile`) as for a row (`AppendCycleResult`), and the next row
is appended where the file ends. `lineOpen` says that the file ends within a line,
and a row keeps in `intact` whether it began a line of its own; `lost` is the
history of the evaluations whose row failed, `firstCycle` and `oldRows` tell the
rows of the last start from those before. A torn row is not a row of
`resultsFile`; what is left of it shows in `lineOpen`.

### `Measurement` — `pmu/pmu.c`, `power/amd_core_energy.c`, `train.c`

One CPU, its perf events and its energy MSR. Since start, worker and stop of a
policy never overlap (`WorkerKeepsItsResources` of `TrainGovernor`), one position
`at` suffices; `Burn` is the CPU working between any two steps. Creation goes
event by event and may fail at any; deletion resets every field. The energy
reading can fail for want of state, CPU or MSR. Readings wrap at `PmuWrap` and
`EnergyWrap`. `EnergyDelta` is in microjoules as in the code: counts times
`EnergyScale` (10^6) over `EnergyUnit` (2^ESU), truncated, and `SampleEnergy` drops a
sample whose microjoules are zero although counts were burnt; what the truncation
of one reading cuts off is not made up for by the next. The product with 10^6 is
below 2^52 and cannot overflow. Module load and unload are actions.

### `VddCoreSampler` — `power/rpi5/vdd_core_sampler.c`

Each action is one atomic operation of the code: the timer callback, the
thread's wake, claim, firmware read, add and count; start; stop in two parts;
`Take`, and `TakeSum`/`TakeCount` for the function that returns both values. The
sum is abstracted to the number of samples in it.

### `EnergyMeter` — `power/energy_meter.c`

Any number of `Callers` call `energy_meter_init`, `_deinit`, `_read_delta_uj` and
`_get_backend`. A call that takes the lock goes step by step: `Enter` (the
`mutex_lock`), then for init `InitAgain`, `InitSelects`, `InitFails`, `InitReads`,
`InitStores`, `InitDone`; for deinit `Deinit`, `DeinitClears`; for a reading
`ReadRefused` (`-ENODEV`), `ReadFails`, `ReadRpi5`, or `ReadSees` followed by
`ReadStores` or `ReadOverflows` (`-EOVERFLOW`). The counter runs on between any two
of them (`BurnEnergy`), and `GetBackend` looks at `current_backend` without the
lock. `machine` is one of `Machines` and stays the same while the module is loaded:
its backend, as `rpi5_is_supported` and `amd_zen2_is_supported` find it, the
modulus, range and units of its counter.

`Delta` is the u32 subtraction of the AMD backend or the powercap difference by
way of the range; `Micro` and the quotient in `ReadStores` are the conversions to
uJ. `owed`, `unread` and `overflows` are history: what was burnt since the
baseline, since the counter was last seen, and how many readings said
`-EOVERFLOW` since the last one that succeeded. The one assumption about callers
is in `BurnEnergy`: they read often enough that the counter passes its own value at
most once between two readings that saw it (`unread < Wrap`); no code can tell
more wraps. It bounds nothing beyond that: through any number of `-EOVERFLOW`
readings, which keep the baseline, any number of rounds may pass (`MaxOverflows`
bounds them for TLC).

### `EnergyAccount` — what the meter promises

Open, burn, refuse, tell, close. Nothing is told twice, and a reading loses at
most `slack` counts, and one `round` more for each reading since the last
successful one that was refused because the counter had wrapped. `EnergyMeter`
implements it on every machine (`ImplementsAccount`): nothing is lost where the
counter's modulus is known, one count where a powercap range is one short of
the modulus, whole rounds only where the range cannot be read. In the last case
the difference of two readings does not say what is still owed, so `AccountOwed`
takes it from the history.

### `InferenceGovernor` — `inference.c`

The core: `InitPolicy`, `CreateCounter`/`SpawnWorker`/`SpawnFails` (start), `Limits`
and `CoreSets` (`freqmind_limits`), `StopWorker`/`StopFrees`, `ExitPolicy`, and
`ChangeMax`/`ChangeMin`, by which `cpufreq_set_policy` moves the two limits one
after the other. The worker: `Wake`, `ReadFails` or `Predict`, `Resolve`,
`WorkerSets`. `__cpufreq_driver_target` is two steps, resolving a frequency against
the limits of that moment and setting it, for the core and the worker alike;
nothing orders them. The prediction is any frequency. `begun` and `settled` are
history: a period that began under the present limits has begun, has ended.

### `MlpKernels`, `MlpForward`, `MlpMatMul` — `mlp/mlp.c`

`MlpKernels` is the arithmetic on flat arrays: the dot product in four lanes and a
rest, truncation of the accumulator, the width of the result, ReLU, transposition.
`MlpForward` checks a network layer by layer in the code's order of checks
(`CheckNetwork`, `CheckLayer`, `CheckWork`) and computes it row by row
(`ComputeRow`, `NextLayer`) in the two halves of the work buffer; `Neuron` and
`Function` are the reference it is compared with, which knows neither lanes nor
buffers. `MlpMatMul` goes over columns four at a time and then one by one, and is
compared with dense layers on the transposed matrix. A raw number has the width
`2 * Half`; a conversion that does not fit wraps, as in the kernel's build
(`-fno-strict-overflow`).

### `ScaledArithmetic` — helpers of `genetic/ga.c`, `utility/fixed_point.h`

A product from four products of half words with saturating additions and shifts,
a quotient by binary long division, for words of `2 * H` bits with `F` fractional
ones (64 and 16 in the code). The operations of `fixed_point.h` stand beside them.

### `TrainObjective` — the numbers of `train.c`

From the counts of a period to the objective and the P/E metric, the penalty for
a frequency outside the limits, the sums and averages of evaluation and the two
columns of a row. The order of phases is reduced to what the numbers depend on;
`TrainGovernor` has it in full.

### `TunedParams` — header, build and load

The header is a sequence of chunks of a save (guard and macro, one per value,
closing). `SaveOpens`, `SaveWrites`, `SaveFails` are `freqmind_save_params_header`;
`BuildInference` compiles if what it finds is complete; `LoadInference` is
`freqmind_load_params`, with C's rules for initializers that are too short or too
long. `Pretrain` gives the network another size.

### `MlpWeights` — `freqmind_predict_freq` of several policies

One step per weight copied and per weight used, between taking and giving back
`freqmind_mlp_lock`. `CopyParams` is everything that changes a policy's own
parameters between two predictions.

### `DataPath`

Several specifications in one state graph, of which a behaviour picks one and
stays with it: the five parts that compute or carry numbers and share no state.
Its properties are those of the parts, each where its part is the one running.
`MCDataPath` gives it its networks and matrices.

### `NumberFacts`

No model but what the proofs share about numbers: a set of naturals has a
smallest element and induction over sets of naturals; functions defined by
recursion over an interval exist and are unique (sums, powers of two); a sum is
the sum of its four lanes; quotients, remainders and counters that wrap; the
cells of a matrix in a flat array.

## 3. Runs

| Run | Question | Bounds and why they suffice |
|---|---|---|
| `ga_generations` | best observed pair, refinement of the abstract search | 2 offspring, up to 3 elites, 3 generations, a threshold of 3 and results {-4, 0, 3}: elites fill up over the generations, gaps below, at and above the threshold all occur |
| `ga_limits` | attribution, limits, patience, sigma, the end of a set | budget 7 and patience 2 with 2 offspring: the last generation of a spent budget holds one new and one stale slot, and patience can end the set one evaluation before; parameters outside the bounds, so that clamping shows |
| `train_cycles` | processes, threads, counters, phases, rows | 2 benchmarks, 2 samples per evaluation, two starts, two cycles (the second up to its end of evaluation), one answer per set and one result value, as none of its properties depends on results; every write may break off before, in or after a line (4.8 million states, about a minute with two workers) |
| `train_results` | credit, best result; stop returns, training is evaluated | up to 2 answers per set over 2 benchmarks, one start, stop at any point |
| `measurement` | wraparound, all-or-nothing, baselines | 2 events, counters modulo 4, bursts of up to 2: every counter wraps, the energy counter also several times while stopped; 2 uJ per 3 counts, so that the conversion truncates and one count is no whole microjoule |
| `sampler` | firmware handle, no tick counted twice, stop returns, ticks are answered | 2 takers, 4 ticks, 2 starts |
| `sampler_pairs` | *violated*, see findings | 1 taker, 2 ticks |
| `meter` | consumption, accounting, exclusion, the unlocked look, the lock | 2 callers on each of five machines: powercap with range 3, 4 or unknown, AMD, Pi; counters modulo 4 (8 for the Pi, so that rounding both ways occurs), bursts of up to 2, up to 3 readings refused in a row, so that several rounds go missing at once |
| `inference` | limits after a period, resources; limits take effect, stop returns | 3 frequencies, so that a frequency can be below, in and above moved limits; 3 changes, 2 starts |
| `mlp_weights` | own parameters, no starvation | 2 policies, 2 weights of 2 values |
| `data_path` | buffers, function, products, arithmetic, objective, tuned header | see below |
| `tuned_count` | *violated*, see findings | sizes 1 to 3, 2 saves |

`data_path`: networks of up to 4 of 8 layers, 3 of them malformed, one layer with
5 inputs (a group of four and a rest), work buffers of 0 to 3 cells, of what is
needed and one more, words of 5 bits with 2 fractional, so that sums overflow;
matrices of 1, 3, 4, 6 and 9 columns (no group, no rest, both); every pair of
6-bit words with 2 fractional bits, the negative end and zero included;
objectives of 2 benchmarks with 2 samples per row, counts for which lost cycles
exceed the cycles counted; 3 network sizes and 2 saves.

The bounds of the model that are not the code's: `MaxCycles`, `MaxStarts`,
`MaxTicks`, `MaxBurst`, `MaxOverflows`, `MaxChanges`, `MaxSaves`, `MaxLayers`. Deadlock checking is
on except in `data_path`, where a call that has returned stops, and in `inference`,
where the core may have used up its starts and leave the policy without governor.
After the last cycle of the model the worker of `TrainGovernor` can only skip
samples, be stopped or see the benchmark end.

### Fairness

* `GaOptimizer!FairSpec`: the caller keeps asking. The worker calls once per
  period. `BeginNewArgumentSet` needs none.
* `TrainGovernor!FairSpec`: weak fairness of the worker (it sleeps at most
  `PERIOD_MS`) and of a start or stop under way (`kthread_stop` returns when the
  thread has). Nothing obliges the core to call start or stop, a benchmark to
  end, or a sample to be good. `SamplingSpec` adds strong fairness of telling
  the optimizer a sample: counters do not fail in every period. Only
  `TrainingIsEvaluated` (in `GovernorGoesOn`) needs it; without it a governor whose counters always
  fail never leaves training, which is what the code does.
* `VddCoreSampler!FairSamplerSpec`: the thread has real-time priority and firmware calls
  return; a stop that was begun goes on.
* `EnergyMeter`: the holder of the mutex runs on; its reads of a counter block for
  a bounded time.
* `InferenceGovernor!FairSpec`: the core finishes the call it is in; the worker's
  wait ends after `PERIOD_MS` at the latest. Counters may fail for ever:
  `LimitsTakeEffect` does not need them.
* `MlpWeights!FairSpec`: weak inside the section; strong for taking the mutex, as
  Linux hands a mutex over to a waiter that has waited too long.

## 4. Proofs

### The optimizer

`GaOptimizerProofs` proves for every number of offspring and elites, every limit
(none included), every threshold and every set of values:

| Theorem | States |
|---|---|
| `TypeCorrect` | `Spec => []TypeOK` |
| `PendingCandidateIsOffered` | `Spec => []PendingIsOffered` |
| `AnswersCounted` | `Spec => []EveryAnswerCounted` |
| `KeptPairsMeasured` | `Spec => []KeptPairsWereMeasured` |
| `BestObservedBest` | `Spec => []BestObservedIsBest` |
| `BestObservedImproves` | `Spec => BestObservedOnlyImproves` |
| `SigmaBounded` | `Spec => []SigmaInBounds` |
| `LimitsKept` | `Spec => []LimitsRespected` |
| `StaleIsStale` | `Spec => []StaleGenerationsAreStale` |
| `Implements` | `Spec => ImplementsSearch` |

The assumptions are the named ones of `GaOptimizer`, `GaConstants` and
`SigmaConstants`; TLC evaluates them on every run.

The argument has two layers. `ProtocolInv` is `TypeOK`, `PendingIsOffered`,
`EveryAnswerCounted` and `BudgetLeft`. `BudgetLeft` is the strengthening: while
the set is not done, the budget is not spent. It is needed because a call
without a pending candidate records nothing; were the budget spent at that
point, a generation would close over an empty pool, its mean would divide by
zero and the first elite would not exist. `MeasuredInv` is
`KeptPairsWereMeasured` and `BestObservedIsBest`, inductive relative to
`ProtocolInv`: the correspondence between the last `evaluated` answers and the
first `evaluated` slots makes every pool entry a measured pair, the selection
picks pool entries, and the scan's characterisation `Taken` bounds every pool
entry by the last one taken. `BestObservedImproves` follows from the same facts.

`SigmaInBounds` and `LimitsRespected` are inductive relative to `ProtocolInv`: the
first needs that a fixed-point product with a factor above one is never smaller
than its argument, whatever the truncation; the second needs `BudgetLeft` again.
`StaleGenerationsAreStale` says nothing of a set whose last generation improved,
so that it is not inductive. `StaleInv` adds that the best observed pair always
lies before the stale answers, also when there are none: an unimproved generation
then adds as many closed answers as stale ones. That needs a generation of a set
that goes on to be full, which holds because a spent budget ends the set.

`Implements` maps `best` to `bestObserved` and the bound on answers to
`AnswerBound`. An `OfferNext` or `OfferFromNextGeneration` is an `Offer`: answers
stay below the bound because a set that goes on is short of both limits
(`BelowBound`). An `EndArgumentSet` is a `Conclude`, which needs a candidate to be on
offer: `IdleIsFresh`, a set without a pending candidate has no answer yet, so its
generation cannot be over.

### The training governor

`TrainGovernorProofs` holds for any number of
benchmarks, samples per evaluation, answers per argument set, starts and cycles,
under the one assumption `GovernorConstants`: results are integers above the
code's `-infinity`, there is at least one benchmark and one sample, and the
model's `None` is none of the values it stands beside. The optimizer is what
`ArgumentSetSearch` promises and no more.

| Theorem | States |
|---|---|
| `NoBenchmarkForgotten` | `Spec => []NoForgottenBenchmark` |
| `ResourcesOutliveWorker` | `Spec => []WorkerKeepsItsResources` |
| `SamplesCredited` | `Spec => []SampleIsOfOffered` |
| `StoppedGovernorHoldsNothing` | `Spec => []NothingLeftBehind` |
| `EveryBenchmarkTrained` | `Spec => []CycleTrainsEveryBenchmark` |
| `BestResultKept` | `Spec => []NoBetterResultDropped` |
| `BestParamsMeasured` | `Spec => BestParamsWereMeasured` |
| `BestMetricNeverFalls` | `Spec => BestMetricOnlyRises` |
| `ParamsFrozenInEvaluation` | `Spec => EvaluationFreezesParams` |
| `RowsOrdered` | `Spec => []RowsAreComplete` |
| `TrainTypeCorrect` | `Spec => []TypeOK` |

`GovernorInv` is the inductive invariant of lifecycle and credit:

* `LifecycleInv` says which positions of the worker go with which step of a start
  or stop. It gives that nothing is freed under the worker.
* `NoPidBeforeExec` says that the governor holds no pid where it is about to start
  a benchmark. `NoForgottenBenchmark` alone is not inductive: it needs to know
  that the step that overwrites the pid has none to overwrite.
* `OptimizerInUse` and `EvaluationWithoutOptimizer` tie the optimizer's lifetime
  to the worker's position and the phase.
* `CreditInv` carries the parameters from the offer over the prediction to the
  next sample: before the prediction, the parameters in force are the candidate;
  after it, the frequency in force is theirs too.

The others are inductive relative to it, each one proved once and used by those
after it. `CycleInv` keeps the benchmark ids in range and remembers which branch
was taken at the end of an argument set; `TrainedInOrder` says that in a cycle
whose benchmark 0 could be started the benchmarks trained so far are an initial
segment whose end depends on the worker's position and on whether a process is
there: an argument set without one adds none, and the one after it, on the
benchmark whose start failed, is the next. `ResultInv` adds that the optimizer's
best is one of the measured pairs; with it `ToleranceInv` carries "nothing beats
the best beyond the threshold" from the optimizer's promise over
`select_best_params` to the governor's metric. `RowsInv` adds to the order of the
rows that all rows of this start come before the one written next. `CompleteInv`
carries the other two parts of `RowsAreComplete`, that every evaluation has a row
or is in `lost` and that only a row after a failed write shares its line; its
strengthening is that a line left open is the one the next row goes to, so that
the write that left it open is the one just before.
`TrainTypeCorrect` is assembled from these and from the types of what is left.

### The sampler

The last part of `EnergyMeterProofs` holds for any set of callers and any limits,
under `SamplerConstants`. (The sampler's specification has names of its own,
`SamplerSpec` and so on, so that one module can extend it and `EnergyMeter`.)

| Theorem | States |
|---|---|
| `FirmwareHandleOutlivesThread` | `SamplerSpec => []FirmwareOutlivesThread` |
| `EnergyNeverExceedsTime` | `SamplerSpec => []EnergyWithinElapsedTime` |
| `SamplerTypeCorrect` | `SamplerSpec => []SamplerTypeOK` |

`SamplerInv` is `SamplerTypeOK`, `EnergyWithinElapsedTime` and `HandleWithThread`: the
handle is held exactly while there is a thread, one that has ended and is not
joined included. The last is the strengthening; `FirmwareOutlivesThread` says
nothing about an ended thread, and so nothing about what `stop` may free.

### The measurement

`MeasurementProofs` holds for any set of events and counters of any width, under
`MeasurementConstants`. The facts about counters that wrap are in
`NumberFacts`, which the meter's proofs share: remainders are unique, a
counter that runs on moves its distance from a baseline by what was counted, and
a distance below the width is what was counted. That a quotient rounds down by
less than one (`QuotientRounds`) gives the bounds of the microjoules.

| Theorem | States |
|---|---|
| `TypeCorrect` | `Spec => []TypeOK` |
| `EventsAllOrNone` | `Spec => []AllEventsOrNone` |
| `SamplesAreConsumption` | `Spec => []SampleIsConsumption` |
| `BaselineFresh` | `Spec => []BaselineIsFresh` |
| `SamplesCoverOnePeriod` | `Spec => []SampleCoversOnePeriod` |

`IInv` adds to the properties what they need at the positions between two
readings: `Positions` (when the events exist), `WorkIsDistance` (each counter's
distance from its baseline is the work done since), `CountsAreWork` (the counts
the worker holds) and `OneReadingBehind` (how many PMU readings lie behind the
energy baseline).

### The energy meter

`EnergyMeterProofs` holds for any set of callers and any set of machines, each
with its backend, modulus, range and units, under `MeterConstants`.

| Theorem | States |
|---|---|
| `TypeCorrect` | `Spec => []TypeOK` |
| `CallsExclude` | `Spec => []CallsAreExclusive` |
| `RepliesAreConsumption` | `Spec => []EveryReplyIsConsumption` |
| `SeenBackendsWork` | `Spec => SeenBackendWorks` |
| `MeterImplementsAccount` | `Spec => ImplementsAccount` |

`IInv` says who is inside (`Exclusion`), what a call may rely on at each place
(`Backends`) and how far the counter stands from the baseline and from the value a
reading holds (`Distances`). The last is what makes a delta the consumption: it is
the invariant that a baseline stored by a call that was interrupted by nobody is
the value the history counts from. `Given` is what `MeterConstants` says of the
machine in use, and `Same` that a step leaves it as it is: with them the steps are
proved once for all machines.

Where the range is unknown, `Distances` counts rounds: what was burnt since the
baseline up to the last look at the counter (`owed - unread`) is at most a round for
each reading refused since (`Lost`). The next reading sees less than a round more.
If it finds the counter below the baseline, it is refused and a round more is
allowed for. If not, its difference and what was burnt have the same remainder, so
that what it misses are whole rounds, and no more than `Lost` (`WholeRounds`).
`MeterImplementsAccount` maps every step to one of the account or to a stutter.
Nothing rests on how much is consumed between two readings that succeed, only on
callers seeing the counter once per round.

### The inference governor

`InferenceGovernorProofs` holds for any frequencies, starts and changes, under
`InferenceConstants`: `TypeCorrect`, `ResourcesKept`
(`Spec => []WorkerKeepsItsResources`) and `LimitsHold`
(`Spec => []LimitsHoldAfterOnePeriod`). `Resources` says for every place of the core
which of thread and counters exist. `LimitsInv` follows the limits through the
driver: once a period has begun since the last change, whatever is resolved and
still to be set lies within them, be it the worker's or the core's. The property
alone is not inductive, for a frequency resolved under the old limits could
still be on its way.

### The shared weights

`MlpWeightsProofs` holds for any number of policies and weights, under
`WeightsConstants`: `TypeCorrect` (the loops stay inside the arrays) and
`OwnParams` (`Spec => []PredictionUsesOwnParams`). The invariant says that whoever
is inside owns the lock and how far its loops have come: all weights up to
`index` are its own.

### The data path

`DataPathProofs` holds for any word width and any number of fractional bits below
half a word, any set of layers, work buffer length, shapes of matrices, network
sizes, counts and scales, under `DataPathConstants`: the numbers are naturals
and positive where the code divides by them, the arrays hold what their sizes
say and words of the width in use, and one layer is the widest.

| Theorem | States |
|---|---|
| `WorkBufferSafe` | `Spec => []WorkBufferIsSafe` |
| `ForwardComputesFunction` | `Spec => []ForwardIsFunction` |
| `MatMulIsRight` | `Spec => []MatMulAgrees` |
| `ArithmeticExact` | `Spec => []ArithmeticIsExact` |
| `ObjectiveFair` | `Spec => []ObjectiveIsFair` |
| `ParamsComplete` | `Spec => []ParamsAreComplete` |

Most of these compare what a loop has stored with a reference defined by
recursion, which calls for induction over the data. The library's induction
theorems cannot be instantiated here; `NumberFacts` therefore proves induction
for sets of naturals from the least element that a non-empty one has, which is
a statement without operators, and from it that recursive functions on an
interval exist, are unique and have the values that their equation gives.

* **Forward pass.** `ForwardInv` is `NetworkGiven` (the call's arguments),
  `BuffersTyped`, `Progress` (how far checks and layers have come: a layer before
  the one in work was accepted, and the work buffer is long enough as soon as a
  layer is computed), `CellsWritten` (the input of the layer in work and the rows
  done hold numbers, not what was in the buffer before the call) and
  `FunctionReached`: they hold the values of `Computed`, the network's function
  after each layer. `CellsWritten` and `FunctionReached` are the strengthening:
  the properties speak of the end of the call and of the places a layer uses, not
  of what the layers before left there. The lanes of the dot product come in by
  `SumOfLanes`; where sums exceed the accumulator the reference is undefined and
  nothing is claimed but safety.
* **Product of matrices.** `MatMulInv` says that every cell before the place
  reached, in the order of rows and columns, holds its value and every other one
  what it held before. That different places are different cells of the flat
  array is `CellOrder`.
* **Arithmetic.** The product (`ProductInv`): after each of the four parts, the
  accumulator is the exact sum of the parts so far, capped at the largest word;
  capping early or late gives the same, for parts are never negative, and the sum
  of all four is the truncated product. The quotient (`DivisionInv`): accumulator
  and remainder divide the bits brought down so far, and no bit that is shifted
  out of the accumulator is set as long as bits above the word's are brought down.
* **Objective.** `ObjectiveInv` adds to the properties that the limits are in
  order, that a clamped prediction lies within them, and that the sum is that of
  the metrics since the last row.
* **Tuned header.** `TunedInv`: the header is a save or the beginning of one,
  of the last save while it is being written, and a module built with tuned
  parameters has all the chunks of one save.

### Only model-checked

Liveness, which is outside what the proof system handles: `ArgumentSetEnds`,
`GovernorGoesOn`, `StopReturns`, `TickIsAnswered`, `LockIsReturned`,
`EveryPolicyPredicts`.

The other way round, some proved theorems state invariants that no run lists any
more, since the proof covers every instance: the type invariants,
`PendingIsOffered`, `EveryAnswerCounted`, `BestObservedOnlyImproves`,
`BestMetricOnlyRises`, `CallsAreExclusive`. TLC
checked each of them on the instances above before it was proved.

## 5. Findings

* `sampler_pairs`: `power/rpi5/vdd_core_sampler.h:29` promises the number of the
  samples that the returned energy is made of; sum and count are two atomics that
  are added to and exchanged one after the other, so a sample in between is in
  one and not in the other.
* `tuned_count`: `inference.c:68` asserts at build time that the header's
  parameters are as many as the network's. The header is written with the text
  `#define FREQMIND_TUNED_PARAM_COUNT PERF_MLP_PARAM_COUNT` (`train.c:296`), so the
  assertion compares a number with itself, and the header of a network
  pretrained before with another size is accepted.

Observations without a run:

* `power/amd_core_energy.h:14-18` says that `amd_energy_free_state` is to be called
  from `module_exit`; nobody calls it, so each unload leaves the array allocated.
  The next load allocates another, so readings are not affected
  (`BaselineIsFresh` holds across reloads).
* Without a powercap range, the reading after an `-EOVERFLOW` may succeed short of
  what was consumed, once the counter has climbed past the old baseline
  (`power/energy_meter.c:325`), and the baseline stays through any number of such
  errors: every one of them may cost a whole range. `ShortfallIsAnnounced` says
  exactly that, while `energy_meter.h:30` promises the energy since the last call.
* A row of the results file whose write fails after part of it (`train.c:192-207`)
  is left there, and the next row continues its line although that write reports
  success (`train.c:253`, opened with `O_APPEND`). `LinesAreIntact` says that no
  other row shares its line.
* When benchmark 0 of a later cycle cannot be started, `current_benchmark_id` is
  still the last benchmark's (`train.c:148`), so that the first argument set ends
  the cycle (`train.c:539`) and it is evaluated without having been trained on any
  benchmark. `CycleTrainsEveryBenchmark` shows that this is the only case.
* A benchmark that cannot be started in evaluation gets a row like any other
  (`train.c:501`): its samples are of a CPU on which nothing was started.
* `train.c:342` multiplies the performance by `FREQMIND_OBJECTIVE_ENERGY_SCALE_UJ`
  only where it is zero, so that the scale never has an effect.
* `freqmind_fxp_to_decimal` loses the sign of numbers in (-1, 0). Rows of the
  results file are never negative; log lines may be.

## 6. Not modelled, and why

* Multi-coordinate parameter vectors: the optimizer treats coordinates alike;
  only norms combine them. The stand-alone vector ReLUs of `mlp.c` repeat one
  element's.
* Several policies that write the same results file and the same header: the
  models of the training governor have one policy. `MlpWeights` has several.
* Logging, formatting and parsing of files, the contents of the benchmark
  programs, the offline scripts.
* The window inside `call_usermodehelper_exec` when its caller is killed
  (`train.c:145`): it is inside the kernel.
* The lifetime of the worker's `task_struct`. The thread returns by itself when it
  sees `worker.stop`, possibly before `kthread_stop` is called on it
  (`train.c:728-730`); keeping the task until then is the caller's duty, which
  `train.c` does nothing for. The model joins a thread that has ended like any
  other.
* The cpufreq driver sets the frequency it resolved; drivers that fail to are left
  out.
* The mutex of `amd_core_energy.c`: one caller per CPU.
* Additions and conversions of `fixed_point.h` appear where they are used;
  `fxp_pr_info` has no caller.

## 7. Status

Every stateful component of the repository is modelled, and every safety property
that a passing run checks is proved; so are the refinements of the optimizer and
of the meter. What would be left to
do:

1. Several policies of the training governor at once, with the files they share.
2. Parameter vectors of several coordinates, with the norms of the penalty.
