--------------------------- MODULE TrainGovernor ---------------------------
(***************************************************************************)
(* The training governor of src/train.c for one cpufreq policy.  Two       *)
(* threads act: the cpufreq core, which calls init, start, stop and exit   *)
(* one at a time, and the worker thread, which wakes up every PERIOD_MS,   *)
(* reads the counters and advances the training.  Training runs one GA     *)
(* argument set per benchmark; when the last one is done the cycle is      *)
(* evaluated benchmark by benchmark and the next cycle begins.             *)
(*                                                                         *)
(* The optimizer is used through ArgumentSetSearch, which GaOptimizer      *)
(* implements.  Frequencies and the numbers in metrics are abstracted to   *)
(* which parameters predicted the frequency in force (applied) and to the  *)
(* objective value handed to the optimizer.                                *)
(***************************************************************************)
EXTENDS Integers, Sequences, FiniteSets

CONSTANTS
    Params,          \* MLP parameter vectors
    Pretrained,      \* freqmind_pretrained_params
    Results,         \* objective values
    NegInf,          \* ga_fxp_neg_inf()
    MinImprovement,  \* ga_config.min_improvement
    MaxAnswers,      \* answers one argument set consumes (10 generations)
    None,            \* NULL
    BenchmarkCount,  \* BENCHMARK_COUNT
    EvalSamples,     \* FREQMIND_EVAL_SAMPLES_PER_BENCHMARK
    MaxCycles,       \* bound: evaluated cycles
    MaxStarts        \* bound: times the governor is started

Benchmarks == 0 .. BenchmarkCount - 1

ASSUME GovernorConstants ==
    /\ Pretrained \in Params
    /\ Results \subseteq Int
    /\ 0 \in Results
    /\ NegInf \in Int
    /\ MinImprovement \in Nat
    /\ MaxAnswers \in Nat
    /\ None \notin Params
    /\ None \notin {"alive", "dead"}
    /\ None \notin Results
    /\ \A r \in Results : NegInf < r
    /\ BenchmarkCount \in Nat \ {0}
    /\ EvalSamples \in Nat \ {0}
    /\ MaxCycles \in Nat
    /\ MaxStarts \in Nat

VARIABLES
    \* the optimizer, as ArgumentSetSearch sees it
    start, offered, observed, best, done,
    \* freqmind_policy_t
    gaInitialized, activeParams, bestParams, bestMetric, phase, cycleId,
    evalBenchmark, evalSamples, currentBenchmark,
    pid,          \* None, or whether the process behind the pid is alive
    pmuCreated, workerStop,
    \* the threads
    governor,     \* what the cpufreq core made of the policy so far
    control,      \* where the cpufreq core is in start or stop
    worker,       \* where the worker thread is
    target,       \* the benchmark the thread in "exec" is about to start
    \* the world
    applied,      \* the parameters that predicted the frequency in force
    forgotten,    \* live benchmark processes nobody holds a pid of
    resultsFile,  \* rows written to TRAIN_RESULTS_PATH in full
    lineOpen,     \* a write broke off: the file ends in the middle of a line
    savedParams,  \* contents of FREQMIND_TUNED_PARAMS_PATH
    \* history
    starts,
    oldRows,      \* rows of earlier starts that the file still has
    firstCycle,   \* cycleId at the last start
    lost,         \* evaluations since then whose row could not be written
    trained,      \* benchmarks an argument set ended on in this cycle
    unstarted     \* benchmarks this cycle could not start to train on

gaVars      == <<start, offered, observed, best, done>>
paramVars   == <<activeParams, bestParams, bestMetric>>
evalVars    == <<phase, cycleId, evalBenchmark, evalSamples>>
processVars == <<pid, currentBenchmark, forgotten>>
rowVars     == <<resultsFile, lineOpen, oldRows, firstCycle, lost>>
fileVars    == <<rowVars, savedParams>>
controlVars == <<governor, control, starts>>
historyVars == <<trained, unstarted>>

vars == <<gaVars, gaInitialized, paramVars, evalVars, processVars, pmuCreated,
          workerStop, worker, target, applied, fileVars, controlVars, historyVars>>

Search == INSTANCE ArgumentSetSearch

-----------------------------------------------------------------------------
(* Benchmark processes                                                     *)

(* Mutant: the process is not killed and its pid not given up.             *)
KillForgets == UNCHANGED pid

(* freqmind_kill_current_process                                           *)
KillCurrentProcess == pid' = None

(* put_pid on the pid of a process that still runs: nobody can kill it.    *)
Forgotten == IF pid = "alive" THEN forgotten + 1 ELSE forgotten

NotStarted(b) == unstarted' = IF phase = "TRAIN" THEN unstarted \cup {b} ELSE unstarted

(* Mutant: a failed start leaves the pid that helper_init_cb stored.       *)
RunNewProcessKeepsPid(b) ==
    /\ forgotten' = Forgotten
    /\ target' = 0
    /\ \/ pid' = "alive" /\ currentBenchmark' = b /\ UNCHANGED unstarted
       \/ pid' = "dead" /\ NotStarted(b) /\ UNCHANGED currentBenchmark

(* freqmind_run_new_process: the id of the current benchmark changes only  *)
(* when the new one runs.                                                  *)
RunNewProcess(b) ==
    /\ forgotten' = Forgotten
    /\ \/ /\ pid' = "alive"
          /\ currentBenchmark' = b
          /\ UNCHANGED unstarted
       \/ /\ pid' = None
          /\ NotStarted(b)
          /\ UNCHANGED currentBenchmark
    /\ target' = 0

ProcessStarted == pid' = "alive"

-----------------------------------------------------------------------------
(* The optimizer as the governor uses it                                   *)

(* freqmind_ga_init_policy when the allocations succeed.                   *)
GaInit(startParams) ==
    /\ gaInitialized' = TRUE
    /\ start' = startParams
    /\ offered' = None
    /\ observed' = <<>>
    /\ best' = None
    /\ done' = FALSE

(* freqmind_ga_free_policy, and ga_init giving up.                         *)
GaFree ==
    /\ gaInitialized' = FALSE
    /\ start' = Pretrained
    /\ offered' = None
    /\ observed' = <<>>
    /\ best' = None
    /\ done' = FALSE

(* Mutant: the parameters in force are taken for the measured ones.        *)
SelectedParamsInForce == activeParams

(* freqmind_select_best_params_from_ga: the best observed pair or, before  *)
(* a generation closed, the start vector with no result.                   *)
SelectedParams == IF best # None THEN best.param ELSE start
SelectedMetric == IF best # None THEN best.raw ELSE NegInf

(* Mutant: only the first result of a policy is kept.                      *)
FirstMetricOnly == bestMetric = None

BetterMetric == bestMetric = None \/ SelectedMetric > bestMetric

SelectBestParams ==
    /\ activeParams' = SelectedParams
    /\ bestParams' = IF BetterMetric THEN SelectedParams ELSE bestParams
    /\ bestMetric' = IF BetterMetric THEN SelectedMetric ELSE bestMetric

(* freqmind_start_training_cycle up to the start of benchmark 0; the best  *)
(* parameters are valid from init_policy on.                               *)
EnterTraining ==
    /\ phase' = "TRAIN"
    /\ evalBenchmark' = 0
    /\ evalSamples' = 0
    /\ activeParams' = bestParams
    /\ trained' = {}
    /\ unstarted' = {}
    /\ UNCHANGED <<bestParams, bestMetric>>

-----------------------------------------------------------------------------
(* The worker thread: freqmind_thread, freqmind_apply, freqmind_choose_freq*)

WorkerWake ==
    /\ worker = "wait"
    /\ worker' = IF workerStop THEN "exited" ELSE "apply"
    /\ UNCHANGED <<gaVars, gaInitialized, paramVars, evalVars, processVars,
                   pmuCreated, workerStop, target, applied, fileVars,
                   controlVars, historyVars>>

(* A counter cannot be read, or there were no cycles or no energy: nothing *)
(* is told to the optimizer and the frequency stays.                       *)
WorkerNoSample ==
    /\ worker = "apply"
    /\ worker' = "wait"
    /\ UNCHANGED <<gaVars, gaInitialized, paramVars, evalVars, processVars,
                   pmuCreated, workerStop, target, applied, fileVars,
                   controlVars, historyVars>>

(* freqmind_update_mlp_params_from_ga without an optimizer: -EINVAL.       *)
WorkerNoOptimizer ==
    /\ worker = "apply"
    /\ phase = "TRAIN"
    /\ ~gaInitialized
    /\ worker' = "predict"
    /\ UNCHANGED <<gaVars, gaInitialized, paramVars, evalVars, processVars,
                   pmuCreated, workerStop, target, applied, fileVars,
                   controlVars, historyVars>>

(* Mutant: the optimizer is told every sample, in either phase.            *)
TuningAlways == TRUE

(* The sample goes to the optimizer.                                       *)
Tuning == phase = "TRAIN" /\ gaInitialized

(* freqmind_update_mlp_params_from_ga: the argument set goes on.           *)
WorkerTell(r) ==
    /\ worker = "apply"
    /\ Tuning
    /\ Search!Offer(r)
    /\ activeParams' = offered'
    /\ worker' = "predict"
    /\ UNCHANGED <<gaInitialized, bestParams, bestMetric, evalVars, processVars,
                   pmuCreated, workerStop, target, applied, fileVars,
                   controlVars, historyVars>>

(* ... or is done with this answer.  Without a process, nothing was        *)
(* trained on.                                                             *)
WorkerConclude(r) ==
    /\ worker = "apply"
    /\ Tuning
    /\ Search!Conclude(r)
    /\ trained' = IF pid = None THEN trained ELSE trained \cup {currentBenchmark}
    /\ worker' = "select"
    /\ UNCHANGED <<gaInitialized, paramVars, evalVars, processVars, pmuCreated,
                   workerStop, target, applied, fileVars, controlVars, unstarted>>

(* Mutant: the last benchmark is left out.                                 *)
CycleFinishedEarly == currentBenchmark + 2 >= BenchmarkCount

CycleFinished == currentBenchmark + 1 >= BenchmarkCount

WorkerSelect ==
    /\ worker = "select"
    /\ SelectBestParams
    /\ worker' = IF CycleFinished THEN "startEval" ELSE "nextBenchmark"
    /\ UNCHANGED <<gaVars, gaInitialized, evalVars, processVars, pmuCreated,
                   workerStop, target, applied, fileVars, controlVars, historyVars>>

(* The next benchmark: ga_begin_new_argument_set(NULL) ...                 *)
WorkerNextBenchmark ==
    /\ worker = "nextBenchmark"
    /\ KillCurrentProcess
    /\ Search!Restart
    /\ \E i \in DOMAIN observed : start' = observed[i].param
    /\ worker' = "ask"
    /\ UNCHANGED <<gaInitialized, paramVars, evalVars, currentBenchmark, forgotten,
                   pmuCreated, workerStop, target, applied, fileVars, controlVars,
                   historyVars>>

(* Mutant: the same benchmark again.                                       *)
SameBenchmark == currentBenchmark

NextBenchmark == currentBenchmark + 1

(* ... and its first candidate.                                            *)
WorkerAsk ==
    /\ worker = "ask"
    /\ Search!Offer(0)
    /\ activeParams' = offered'
    /\ target' = NextBenchmark
    /\ worker' = "exec"
    /\ UNCHANGED <<gaInitialized, bestParams, bestMetric, evalVars, processVars,
                   pmuCreated, workerStop, applied, fileVars, controlVars, historyVars>>

(* freqmind_start_cycle_evaluation up to the start of benchmark 0          *)
WorkerStartEvaluation ==
    /\ worker = "startEval"
    /\ KillCurrentProcess
    /\ GaFree
    /\ phase' = "EVAL"
    /\ evalBenchmark' = 0
    /\ evalSamples' = 0
    /\ target' = 0
    /\ worker' = "exec"
    /\ UNCHANGED <<paramVars, cycleId, currentBenchmark, forgotten, pmuCreated,
                   workerStop, applied, fileVars, controlVars, historyVars>>

(* freqmind_handle_eval_metric                                             *)
WorkerEvalSample ==
    /\ worker = "apply"
    /\ phase = "EVAL"
    /\ evalSamples + 1 < EvalSamples
    /\ evalSamples' = evalSamples + 1
    /\ worker' = "predict"
    /\ UNCHANGED <<gaVars, gaInitialized, paramVars, phase, cycleId, evalBenchmark,
                   processVars, pmuCreated, workerStop, target, applied, fileVars,
                   controlVars, historyVars>>

(* freqmind_append_cycle_result: the row goes to the end of the file, be   *)
(* that in the middle of a line.  The file cannot be opened or the write   *)
(* breaks off anywhere in the row: that is only logged.                    *)
AppendCycleResult(row) ==
    /\ \/ /\ resultsFile' = Append(resultsFile, row)
          /\ lineOpen' = FALSE
          /\ UNCHANGED lost
       \/ /\ lineOpen' \in {lineOpen, TRUE}
          /\ lost' = lost \cup {<<row.cycle, row.benchmark>>}
          /\ UNCHANGED resultsFile
    /\ UNCHANGED <<savedParams, oldRows, firstCycle>>

(* Mutant: the row names the process that runs, not the one asked for.     *)
EvalRowOfRunning ==
    [cycle |-> cycleId, benchmark |-> currentBenchmark, samples |-> evalSamples + 1,
     intact |-> ~lineOpen]

(* A row that continues a line is part of it.                              *)
EvalRow ==
    [cycle |-> cycleId, benchmark |-> evalBenchmark, samples |-> evalSamples + 1,
     intact |-> ~lineOpen]

LastEvalBenchmark == evalBenchmark + 1 >= BenchmarkCount

(* freqmind_finish_eval_benchmark with another benchmark to evaluate       *)
WorkerFinishEval ==
    /\ worker = "apply"
    /\ phase = "EVAL"
    /\ evalSamples + 1 >= EvalSamples
    /\ ~LastEvalBenchmark
    /\ AppendCycleResult(EvalRow)
    /\ KillCurrentProcess
    /\ evalBenchmark' = evalBenchmark + 1
    /\ evalSamples' = 0
    /\ target' = evalBenchmark + 1
    /\ worker' = "exec"
    /\ UNCHANGED <<gaVars, gaInitialized, paramVars, phase, cycleId, currentBenchmark,
                   forgotten, pmuCreated, workerStop, applied, controlVars, historyVars>>

(* ... and after the last: the next training cycle, whose ga_init may fail *)
(* for lack of memory.  MaxCycles bounds the model.                        *)
WorkerFinishCycle ==
    /\ worker = "apply"
    /\ phase = "EVAL"
    /\ evalSamples + 1 >= EvalSamples
    /\ LastEvalBenchmark
    /\ cycleId < MaxCycles
    /\ AppendCycleResult(EvalRow)
    /\ cycleId' = cycleId + 1
    /\ KillCurrentProcess
    /\ EnterTraining
    /\ \/ GaInit(bestParams) /\ worker' = "exec" /\ target' = 0
       \/ GaFree /\ worker' = "predict" /\ UNCHANGED target
    /\ UNCHANGED <<currentBenchmark, forgotten, pmuCreated, workerStop, applied,
                   controlVars>>

(* Mutant: no prediction in the period that changed the benchmark.         *)
KeepFrequencyAfterStart == "wait"

AfterBenchmarkStart == "predict"

(* freqmind_start_benchmark; a failure is only logged.                     *)
WorkerExec ==
    /\ worker = "exec"
    /\ RunNewProcess(target)
    /\ worker' = AfterBenchmarkStart
    /\ UNCHANGED <<gaVars, gaInitialized, paramVars, evalVars, pmuCreated, workerStop,
                   applied, fileVars, controlVars, trained>>

(* freqmind_predict_freq and __cpufreq_driver_target                       *)
WorkerPredict ==
    /\ worker = "predict"
    /\ applied' = activeParams
    /\ worker' = "wait"
    /\ UNCHANGED <<gaVars, gaInitialized, paramVars, evalVars, processVars, pmuCreated,
                   workerStop, target, fileVars, controlVars, historyVars>>

WorkerStep ==
    \/ WorkerWake \/ WorkerNoSample \/ WorkerNoOptimizer
    \/ \E r \in Results : WorkerTell(r) \/ WorkerConclude(r)
    \/ WorkerSelect \/ WorkerNextBenchmark \/ WorkerAsk \/ WorkerStartEvaluation
    \/ WorkerEvalSample \/ WorkerFinishEval \/ WorkerFinishCycle
    \/ WorkerExec \/ WorkerPredict

-----------------------------------------------------------------------------
(* The cpufreq core                                                        *)

(* freqmind_init_policy                                                    *)
InitPolicy ==
    /\ governor = "none"
    /\ control = "idle"
    /\ governor' = "initialized"
    /\ activeParams' = Pretrained
    /\ bestParams' = Pretrained
    /\ bestMetric' = None
    /\ phase' = "TRAIN"
    /\ cycleId' = 0
    /\ evalBenchmark' = 0
    /\ evalSamples' = 0
    /\ currentBenchmark' = 0
    /\ pid' = None
    /\ UNCHANGED <<gaVars, gaInitialized, forgotten, pmuCreated, workerStop, worker,
                   target, applied, fileVars, control, starts, historyVars>>

(* freqmind_prepare_results_file: the file is emptied and its header       *)
(* written, as far as that succeeds, or it cannot be opened.               *)
PrepareResultsFile ==
    /\ \/ resultsFile' = <<>> /\ oldRows' = 0 /\ lineOpen' \in BOOLEAN
       \/ oldRows' = Len(resultsFile) /\ UNCHANGED <<resultsFile, lineOpen>>
    /\ firstCycle' = cycleId
    /\ lost' = {}
    /\ UNCHANGED savedParams

(* freqmind_start: the counters, the results file (an error of which is    *)
(* ignored) and freqmind_start_training_cycle up to benchmark 0.  A        *)
(* failure to create the PMU counter or to read the energy changes nothing.*)
Start ==
    /\ governor = "initialized"
    /\ control = "idle"
    /\ starts < MaxStarts
    /\ starts' = starts + 1
    /\ PrepareResultsFile
    /\ KillCurrentProcess
    /\ EnterTraining
    /\ \/ /\ GaInit(bestParams)
          /\ pmuCreated' = TRUE
          /\ target' = 0
          /\ control' = "startExec"
       \/ /\ GaFree
          /\ UNCHANGED <<pmuCreated, target, control>>
    /\ UNCHANGED <<cycleId, currentBenchmark, forgotten, workerStop, worker, applied,
                   governor>>

(* freqmind_start: benchmark 0; a failure gives up the counters but leaves *)
(* the optimizer to the next start, stop or exit.                          *)
StartExec ==
    /\ control = "startExec"
    /\ RunNewProcess(target)
    /\ IF ProcessStarted THEN control' = "startWorker" /\ UNCHANGED pmuCreated
                         ELSE control' = "idle" /\ pmuCreated' = FALSE
    /\ UNCHANGED <<gaVars, gaInitialized, paramVars, evalVars, workerStop, worker,
                   applied, fileVars, governor, starts, trained>>

(* freqmind_worker_start                                                   *)
StartWorker ==
    /\ control = "startWorker"
    /\ workerStop' = FALSE
    /\ worker' = "wait"
    /\ governor' = "started"
    /\ control' = "idle"
    /\ UNCHANGED <<gaVars, gaInitialized, paramVars, evalVars, processVars, pmuCreated,
                   target, applied, fileVars, starts, historyVars>>

StartWorkerFails ==
    /\ control = "startWorker"
    /\ workerStop' = FALSE
    /\ KillCurrentProcess
    /\ GaFree
    /\ pmuCreated' = FALSE
    /\ control' = "idle"
    /\ UNCHANGED <<paramVars, evalVars, currentBenchmark, forgotten, worker, target,
                   applied, fileVars, governor, starts, historyVars>>

(* freqmind_stop: freqmind_worker_stop asks the thread to end ...          *)
Stop ==
    /\ governor \in {"initialized", "started"}
    /\ control = "idle"
    /\ workerStop' = IF worker = "none" THEN workerStop ELSE TRUE
    /\ control' = "joining"
    /\ UNCHANGED <<gaVars, gaInitialized, paramVars, evalVars, processVars, pmuCreated,
                   worker, target, applied, fileVars, governor, starts, historyVars>>

(* ... and kthread_stop waits until it has.                                *)
(* Mutant: stop does not wait.                                             *)
NotJoined == TRUE

Joined == worker \in {"none", "exited"}

StopJoin ==
    /\ control = "joining"
    /\ Joined
    /\ worker' = IF worker = "exited" THEN "none" ELSE worker
    /\ control' = "joined"
    /\ UNCHANGED <<gaVars, gaInitialized, paramVars, evalVars, processVars, pmuCreated,
                   workerStop, target, applied, fileVars, governor, starts, historyVars>>

(* freqmind_save_params_header of the best parameters: the file cannot be  *)
(* opened, or it is truncated and the write may break off.                 *)
SaveParamsHeader ==
    savedParams' = bestParams' \/ UNCHANGED savedParams \/ savedParams' = "torn"

(* The rest of freqmind_stop: kill, select, save, free, delete.            *)
StopFinish ==
    /\ control = "joined"
    /\ KillCurrentProcess
    /\ IF gaInitialized THEN SelectBestParams ELSE UNCHANGED paramVars
    /\ SaveParamsHeader
    /\ GaFree
    /\ pmuCreated' = FALSE
    /\ governor' = "initialized"
    /\ control' = "idle"
    /\ UNCHANGED <<evalVars, currentBenchmark, forgotten, workerStop, worker, target,
                   applied, rowVars, starts, historyVars>>

(* freqmind_exit_policy; the core stops a started governor first.          *)
ExitPolicy ==
    /\ governor = "initialized"
    /\ control = "idle"
    /\ KillCurrentProcess
    /\ GaFree
    /\ pmuCreated' = FALSE
    /\ governor' = "none"
    /\ UNCHANGED <<paramVars, evalVars, currentBenchmark, forgotten, workerStop, worker,
                   target, applied, fileVars, control, starts, historyVars>>

(* A benchmark ends by itself; the governor does not notice.               *)
BenchmarkExits ==
    /\ pid = "alive"
    /\ pid' = "dead"
    /\ UNCHANGED <<gaVars, gaInitialized, paramVars, evalVars, currentBenchmark,
                   forgotten, pmuCreated, workerStop, worker, target, applied, fileVars,
                   controlVars, historyVars>>

ControlStep == StartExec \/ StartWorker \/ StartWorkerFails \/ StopJoin \/ StopFinish

CoreCalls == InitPolicy \/ Start \/ Stop \/ ExitPolicy

Init ==
    /\ start = Pretrained /\ offered = None /\ observed = <<>> /\ best = None
    /\ done = FALSE
    /\ gaInitialized = FALSE
    /\ activeParams = Pretrained /\ bestParams = Pretrained /\ bestMetric = None
    /\ phase = "TRAIN" /\ cycleId = 0 /\ evalBenchmark = 0 /\ evalSamples = 0
    /\ currentBenchmark = 0 /\ pid = None /\ forgotten = 0
    /\ pmuCreated = FALSE
    /\ workerStop = FALSE /\ worker = "none" /\ target = 0
    /\ governor = "none" /\ control = "idle"
    /\ applied = None
    /\ resultsFile = <<>> /\ lineOpen = FALSE /\ savedParams = None
    /\ starts = 0 /\ oldRows = 0 /\ firstCycle = 0 /\ lost = {}
    /\ trained = {} /\ unstarted = {}

Next == WorkerStep \/ ControlStep \/ CoreCalls \/ BenchmarkExits

Spec == Init /\ [][Next]_vars

(* Both threads keep being scheduled: the worker wakes up at the latest    *)
(* after PERIOD_MS, and what the core has begun it carries on with.        *)
FairSpec == Spec /\ WF_vars(WorkerStep) /\ WF_vars(ControlStep)

(* In addition, the counters cannot fail or stand still in every period.   *)
SamplingSpec ==
    FairSpec /\ SF_vars(\E r \in Results : WorkerTell(r) \/ WorkerConclude(r))

-----------------------------------------------------------------------------
(* Properties                                                              *)

TypeOK ==
    /\ start \in Params
    /\ offered \in Params \cup {None}
    /\ observed \in Seq(Search!Pair)
    /\ best \in Search!Pair \cup {None}
    /\ done \in BOOLEAN
    /\ gaInitialized \in BOOLEAN
    /\ activeParams \in Params
    /\ bestParams \in Params
    /\ bestMetric \in Results \cup {NegInf, None}
    /\ phase \in {"TRAIN", "EVAL"}
    /\ cycleId \in 0 .. MaxCycles
    /\ evalBenchmark \in Benchmarks
    /\ evalSamples \in 0 .. EvalSamples - 1
    /\ currentBenchmark \in Benchmarks
    /\ target \in Benchmarks
    /\ pid \in {None, "alive", "dead"}
    /\ forgotten \in Nat
    /\ pmuCreated \in BOOLEAN
    /\ workerStop \in BOOLEAN
    /\ governor \in {"none", "initialized", "started"}
    /\ control \in {"idle", "startExec", "startWorker", "joining", "joined"}
    /\ worker \in {"none", "wait", "apply", "select", "nextBenchmark", "ask",
                   "startEval", "exec", "predict", "exited"}
    /\ applied \in Params \cup {None}
    /\ savedParams \in Params \cup {None, "torn"}
    /\ lineOpen \in BOOLEAN
    /\ oldRows \in 0 .. Len(resultsFile)
    /\ firstCycle \in 0 .. MaxCycles
    /\ lost \subseteq (0 .. MaxCycles) \X Benchmarks
    /\ trained \subseteq Benchmarks
    /\ unstarted \subseteq Benchmarks

(* Every live benchmark process is the one the governor holds a pid of:    *)
(* although starting a benchmark drops the old pid without a signal, no    *)
(* path starts one over another, so a measurement has the CPU for itself.  *)
NoForgottenBenchmark == forgotten = 0

(* While no start or stop is under way and the governor is not started,    *)
(* no benchmark runs, no worker exists and no PMU counter is held; after   *)
(* exit the optimizer is freed as well.                                    *)
NothingLeftBehind ==
    control = "idle" /\ governor # "started" =>
        /\ pid = None
        /\ worker = "none"
        /\ ~pmuCreated
        /\ governor = "none" => ~gaInitialized

(* As long as the worker may still take a step, the counters it reads and  *)
(* the optimizer it asks stay there: stop joins the thread before it frees *)
(* or kills anything.                                                      *)
WorkerKeepsItsResources ==
    worker \notin {"none", "exited"} =>
        /\ governor = "started"
        /\ pmuCreated
        /\ control \in {"idle", "joining"}
        /\ worker \in {"select", "nextBenchmark", "ask", "startEval"} => gaInitialized

(* A sample is of the parameters it is credited to: when one is taken, the *)
(* frequency in force since the sample before was predicted by the pending *)
(* candidate while training and by the selected parameters in evaluation.  *)
SampleIsOfOffered ==
    worker = "apply" /\ (phase = "EVAL" \/ offered # None) =>
        /\ applied = activeParams
        /\ phase = "TRAIN" => activeParams = offered

(* No argument set ends with a result above what is kept as best for the   *)
(* header, up to the threshold of the optimizer.                           *)
NoBetterResultDropped ==
    worker \in {"nextBenchmark", "startEval"} =>
        /\ bestMetric # None
        /\ \A i \in DOMAIN observed : observed[i].raw <= bestMetric + MinImprovement

NewRows == oldRows + 1 .. Len(resultsFile)

(* The rows appended since the last start are in order of cycle and        *)
(* benchmark, none twice, each over a full set of samples.                 *)
RowsInOrder ==
    LET Before(a, b) == \/ a.cycle < b.cycle
                        \/ a.cycle = b.cycle /\ a.benchmark < b.benchmark
    IN  /\ \A i, j \in NewRows : i < j => Before(resultsFile[i], resultsFile[j])
        /\ \A i \in NewRows : resultsFile[i].samples = EvalSamples

(* The evaluations that ended since the last start.                        *)
Evaluated(c, b) ==
    /\ firstCycle <= c
    /\ c < cycleId \/ (c = cycleId /\ phase = "EVAL" /\ b < evalBenchmark)

HasRow(c, b) ==
    \E i \in NewRows : resultsFile[i].cycle = c /\ resultsFile[i].benchmark = b

EvaluationsHaveRows ==
    \A c \in 0 .. cycleId, b \in Benchmarks :
        Evaluated(c, b) => HasRow(c, b) \/ <<c, b>> \in lost

(* The evaluation before one of them.                                      *)
Preceding(c, b) == IF b = 0 THEN <<c - 1, BenchmarkCount - 1>> ELSE <<c, b - 1>>

(* The line a row is written to may have been begun already, by the header *)
(* or an earlier start, or by the row before it.                           *)
MayBeBegun(c, b) == <<c, b>> = <<firstCycle, 0>> \/ Preceding(c, b) \in lost

LinesAreIntact ==
    \A i \in NewRows :
        \/ resultsFile[i].intact
        \/ MayBeBegun(resultsFile[i].cycle, resultsFile[i].benchmark)

(* Whichever writes break off, and where: the rows are in order, every     *)
(* evaluation has one unless its own write failed, and a row that was      *)
(* written in full has a line for itself unless the write before it failed.*)
RowsAreComplete == RowsInOrder /\ EvaluationsHaveRows /\ LinesAreIntact

(* A cycle is evaluated after an argument set on each benchmark: one that  *)
(* cannot be started is tried again after an argument set without a        *)
(* process.  Only when benchmark 0 of a cycle cannot be started does the   *)
(* id of the benchmark evaluated before stand for it, and the cycle goes   *)
(* on from there.                                                          *)
CycleTrainsEveryBenchmark ==
    phase = "EVAL" /\ 0 \notin unstarted => trained = Benchmarks

(* The parameters do not change while a cycle is evaluated, so that its    *)
(* rows are comparable.                                                    *)
EvaluationFreezesParams ==
    [][phase = "EVAL" /\ phase' = "EVAL" => activeParams' = activeParams]_vars

(* The best training metric never falls while the policy exists, and the   *)
(* best parameters change only with it.                                    *)
BestMetricOnlyRises ==
    [][ governor # "none" /\ <<bestParams, bestMetric>>' # <<bestParams, bestMetric>> =>
          bestMetric = None \/ bestMetric' > bestMetric ]_vars

(* The best training metric goes with the best parameters: when select_best*)
(* takes over a result, some candidate of the argument set was measured    *)
(* with it, and exactly that candidate becomes the best parameters.        *)
BestParamsWereMeasured ==
    [][ bestMetric' # bestMetric /\ bestMetric' \in Results =>
          \E i \in DOMAIN observed :
              observed[i] = [param |-> bestParams', raw |-> bestMetric'] ]_vars

(* freqmind_stop returns: the worker finishes the period it is in, sees    *)
(* the stop flag and is joined.                                            *)
StopCompletes == control = "joining" ~> control = "idle"

(* A cycle is always trained to its end and evaluated, unless a benchmark  *)
(* could not be started or the governor is stopped, provided samples keep  *)
(* coming.                                                                 *)
TrainingIsEvaluated ==
    worker # "none" /\ phase = "TRAIN" /\ gaInitialized
        ~> phase = "EVAL" \/ unstarted # {} \/ control # "idle"

(* Neither the core nor training waits for ever.                           *)
GovernorGoesOn == StopCompletes /\ TrainingIsEvaluated
=============================================================================
