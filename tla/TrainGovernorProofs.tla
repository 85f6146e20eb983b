------------------------ MODULE TrainGovernorProofs ------------------------
(***************************************************************************)
(* Proofs about the training governor, for any number of benchmarks,       *)
(* samples, starts and cycles and whatever the optimizer answers: first    *)
(* its lifecycle (GovernorInv), then what it produces, each invariant      *)
(* inductive relative to the ones before it: the order in which benchmarks *)
(* are trained and evaluated, the best parameters, and the order and the   *)
(* completeness of the rows of the results file.                           *)
(***************************************************************************)
EXTENDS TrainGovernor, TLAPS

(* Where start, stop and the governor's own idea of its state allow the    *)
(* worker to be.                                                           *)
LifecycleInv ==
    /\ worker \notin {"none", "exited"} =>
          /\ governor = "started"
          /\ pmuCreated
          /\ control \in {"idle", "joining"}
    /\ worker = "exited" => governor = "started" /\ control \in {"idle", "joining"}
    /\ control \in {"startExec", "startWorker"} =>
          /\ governor = "initialized"
          /\ worker = "none"
          /\ pmuCreated
    /\ control = "joined" => worker = "none" /\ governor # "none"
    /\ control = "joining" => governor # "none"
    /\ governor # "started" /\ control \in {"idle", "joining", "joined"} =>
          /\ pid = None
          /\ ~pmuCreated

(* Before a benchmark is started the governor holds no pid.                *)
NoPidBeforeExec ==
    /\ worker \in {"ask", "exec"} => pid = None
    /\ control = "startExec" => pid = None

(* The steps after the end of an argument set are taken with an optimizer. *)
OptimizerInUse ==
    /\ worker \in {"select", "nextBenchmark", "ask", "startEval"} => gaInitialized
    /\ governor = "none" => ~gaInitialized

(* Evaluation runs without an optimizer.                                   *)
EvaluationWithoutOptimizer == phase = "EVAL" => ~gaInitialized

(* From the step that takes a candidate on, the parameters in force are    *)
(* the candidate; from the prediction on, the frequency in force is theirs.*)
CreditInv ==
    /\ control \in {"startExec", "startWorker"} => offered = None /\ phase = "TRAIN"
    /\ phase = "TRAIN" /\ offered # None =>
          (worker \in {"wait", "apply", "exec", "predict"} => activeParams = offered)
    /\ worker \in {"wait", "apply"} /\ (phase = "EVAL" \/ offered # None) =>
          applied = activeParams

(* The inductive invariant of the lifecycle and of credit assignment.      *)
GovernorInv ==
    /\ LifecycleInv
    /\ EvaluationWithoutOptimizer
    /\ CreditInv
    /\ NoPidBeforeExec
    /\ OptimizerInUse
    /\ NoForgottenBenchmark

(* Nothing exists before init_policy.                                      *)
LEMMA GovernorInvInit == Init => GovernorInv
BY DEF Init, GovernorInv, LifecycleInv, NoPidBeforeExec, OptimizerInUse,
       NoForgottenBenchmark, EvaluationWithoutOptimizer, CreditInv

(* Every step of the worker, of start and stop, of the core and of the     *)
(* benchmark keeps the invariant.                                          *)
LEMMA GovernorInvStep == GovernorInv /\ [Next]_vars => GovernorInv'
<1> SUFFICES ASSUME GovernorInv, [Next]_vars PROVE GovernorInv'
    OBVIOUS
<1> USE GovernorConstants
        DEF GovernorInv, LifecycleInv, NoPidBeforeExec, OptimizerInUse,
            NoForgottenBenchmark, EvaluationWithoutOptimizer, CreditInv,
            gaVars, paramVars, evalVars, processVars,
            rowVars, fileVars, controlVars, historyVars
<1>1. CASE WorkerWake
    BY <1>1 DEF WorkerWake
<1>2. CASE WorkerNoSample
    BY <1>2 DEF WorkerNoSample
<1>3. CASE WorkerNoOptimizer
    BY <1>3 DEF WorkerNoOptimizer
<1>4. CASE WorkerSelect
    BY <1>4 DEF WorkerSelect, SelectBestParams
<1>5. CASE WorkerNextBenchmark
    BY <1>5 DEF WorkerNextBenchmark, KillCurrentProcess
<1>6. CASE WorkerAsk
    BY <1>6 DEF WorkerAsk
<1>7. CASE WorkerStartEvaluation
    BY <1>7 DEF WorkerStartEvaluation, KillCurrentProcess, GaFree
<1>8. CASE WorkerEvalSample
    BY <1>8 DEF WorkerEvalSample
<1>9. CASE WorkerFinishEval
    BY <1>9 DEF WorkerFinishEval, KillCurrentProcess, AppendCycleResult
<1>10. CASE WorkerFinishCycle
    BY <1>10 DEF WorkerFinishCycle, KillCurrentProcess, AppendCycleResult,
       EnterTraining, GaInit, GaFree
<1>11. CASE WorkerExec
    BY <1>11 DEF WorkerExec, RunNewProcess, NotStarted, Forgotten, AfterBenchmarkStart
<1>12. CASE WorkerPredict
    BY <1>12 DEF WorkerPredict
<1>13. CASE StartExec
    BY <1>13 DEF StartExec, RunNewProcess, NotStarted, Forgotten, ProcessStarted
<1>14. CASE StartWorker
    BY <1>14 DEF StartWorker
<1>15. CASE StartWorkerFails
    BY <1>15 DEF StartWorkerFails, KillCurrentProcess, GaFree
<1>16. CASE StopJoin
    BY <1>16 DEF StopJoin, Joined
<1>17. CASE StopFinish
    BY <1>17 DEF StopFinish, KillCurrentProcess, SelectBestParams, SaveParamsHeader, GaFree
<1>18. CASE InitPolicy
    BY <1>18 DEF InitPolicy
<1>19. CASE Start
    BY <1>19 DEF Start, PrepareResultsFile, KillCurrentProcess, EnterTraining, GaInit, GaFree
<1>20. CASE Stop
    BY <1>20 DEF Stop
<1>21. CASE ExitPolicy
    BY <1>21 DEF ExitPolicy, KillCurrentProcess, GaFree
<1>22. CASE BenchmarkExits
    BY <1>22 DEF BenchmarkExits
<1>23. ASSUME NEW r \in Results, WorkerTell(r) PROVE GovernorInv'
    BY <1>23 DEF WorkerTell, Tuning
<1>24. ASSUME NEW r \in Results, WorkerConclude(r) PROVE GovernorInv'
    BY <1>24 DEF WorkerConclude, Tuning
<1>25. CASE UNCHANGED vars
    BY <1>25 DEF vars
<1>26. QED
    BY <1>1, <1>2, <1>3, <1>4, <1>5, <1>6, <1>7, <1>8, <1>9, <1>10,
       <1>11, <1>12, <1>13, <1>14, <1>15, <1>16, <1>17, <1>18, <1>19,
       <1>20, <1>21, <1>22, <1>23, <1>24, <1>25 DEF Next, WorkerStep,
       ControlStep, CoreCalls

(* The invariant holds throughout.                                         *)
THEOREM GovernorInvariant == Spec => []GovernorInv
<1>1. Init => GovernorInv
    BY GovernorInvInit
<1>2. GovernorInv /\ [Next]_vars => GovernorInv'
    BY GovernorInvStep
<1>3. QED
    BY <1>1, <1>2, PTL DEF Spec

(* No benchmark process is ever left running without a pid held.           *)
THEOREM NoBenchmarkForgotten == Spec => []NoForgottenBenchmark
<1>1. GovernorInv => NoForgottenBenchmark
    BY DEF GovernorInv
<1>2. QED
    BY <1>1, GovernorInvariant, PTL

(* Counters and optimizer outlive the worker's use of them.                *)
THEOREM ResourcesOutliveWorker == Spec => []WorkerKeepsItsResources
<1>1. GovernorInv => WorkerKeepsItsResources
    BY DEF GovernorInv, LifecycleInv, OptimizerInUse, WorkerKeepsItsResources
<1>2. QED
    BY <1>1, GovernorInvariant, PTL

(* A sample is credited to the parameters that predicted the frequency it  *)
(* was measured with.                                                      *)
THEOREM SamplesCredited == Spec => []SampleIsOfOffered
<1>1. GovernorInv => SampleIsOfOffered
    BY DEF GovernorInv, CreditInv, SampleIsOfOffered
<1>2. QED
    BY <1>1, GovernorInvariant, PTL

(* A governor that is not started holds no process, thread or counter.     *)
THEOREM StoppedGovernorHoldsNothing == Spec => []NothingLeftBehind
<1>1. GovernorInv => NothingLeftBehind
    BY DEF GovernorInv, LifecycleInv, OptimizerInUse, NothingLeftBehind
<1>2. QED
    BY <1>1, GovernorInvariant, PTL

-----------------------------------------------------------------------------
(* The order of benchmarks                                                 *)

(* Benchmark ids exist, and the branch the worker took at the end of an    *)
(* argument set is the one its benchmark asks for.                         *)
CycleInv ==
    /\ currentBenchmark \in Benchmarks
    /\ target \in Benchmarks
    /\ evalBenchmark \in Benchmarks
    /\ worker \in {"nextBenchmark", "ask"} => currentBenchmark + 1 < BenchmarkCount
    /\ worker = "startEval" => currentBenchmark + 1 >= BenchmarkCount

(* Once its benchmark 0 was started, a cycle trains on one benchmark after *)
(* the other: one that cannot be started is tried again, and the argument  *)
(* set that runs without a process meanwhile counts for none.              *)
TrainedInOrder ==
    0 \notin unstarted =>
       /\ worker \in {"select", "nextBenchmark", "ask", "startEval"} =>
             trained = 0 .. currentBenchmark
       /\ phase = "TRAIN" /\ worker = "exec" =>
             /\ trained = 0 .. target - 1
             /\ target # 0 => currentBenchmark = target - 1
       /\ phase = "TRAIN" /\ gaInitialized /\ worker \in {"wait", "apply", "predict"} =>
             trained = IF pid = None THEN 0 .. currentBenchmark
                                     ELSE 0 .. currentBenchmark - 1
       /\ control = "startExec" => trained = {} /\ target = 0
       /\ control = "startWorker" => trained = {} /\ currentBenchmark = 0 /\ pid # None
       /\ phase = "EVAL" => trained = Benchmarks

(* Every step keeps the benchmark ids in range.                            *)
LEMMA CycleStep == GovernorInv /\ CycleInv /\ [Next]_vars => CycleInv'
<1> SUFFICES ASSUME GovernorInv, CycleInv, [Next]_vars PROVE CycleInv'
    OBVIOUS
<1> USE GovernorConstants
        DEF GovernorInv, LifecycleInv, OptimizerInUse,
            EvaluationWithoutOptimizer, Benchmarks, CycleInv, gaVars,
            paramVars, evalVars, processVars, rowVars, fileVars, controlVars,
            historyVars
<1>1. CASE WorkerWake
    BY <1>1 DEF WorkerWake
<1>2. CASE WorkerNoSample
    BY <1>2 DEF WorkerNoSample
<1>3. CASE WorkerNoOptimizer
    BY <1>3 DEF WorkerNoOptimizer
<1>4. CASE WorkerSelect
    BY <1>4 DEF WorkerSelect, CycleFinished, SelectBestParams,
        SelectedParams, SelectedMetric, BetterMetric
<1>5. CASE WorkerNextBenchmark
    BY <1>5 DEF WorkerNextBenchmark, KillCurrentProcess
<1>6. CASE WorkerAsk
    BY <1>6 DEF WorkerAsk, NextBenchmark, Search!Offer
<1>7. CASE WorkerStartEvaluation
    BY <1>7 DEF WorkerStartEvaluation, KillCurrentProcess, GaFree
<1>8. CASE WorkerEvalSample
    BY <1>8 DEF WorkerEvalSample
<1>9. CASE WorkerFinishEval
    BY <1>9 DEF WorkerFinishEval, KillCurrentProcess, AppendCycleResult,
        LastEvalBenchmark
<1>10. CASE WorkerFinishCycle
    BY <1>10 DEF WorkerFinishCycle, KillCurrentProcess,
        AppendCycleResult, EnterTraining, GaInit, GaFree,
        LastEvalBenchmark
<1>11. CASE WorkerExec
    BY <1>11 DEF WorkerExec, RunNewProcess, NotStarted, Forgotten,
        AfterBenchmarkStart
<1>12. CASE WorkerPredict
    BY <1>12 DEF WorkerPredict
<1>13. CASE StartExec
    BY <1>13 DEF StartExec, RunNewProcess, NotStarted, Forgotten, ProcessStarted
<1>14. CASE StartWorker
    BY <1>14 DEF StartWorker
<1>15. CASE StartWorkerFails
    BY <1>15 DEF StartWorkerFails, KillCurrentProcess, GaFree
<1>16. CASE StopJoin
    BY <1>16 DEF StopJoin, Joined
<1>17. CASE StopFinish
    BY <1>17 DEF StopFinish, KillCurrentProcess, SelectBestParams,
        SelectedParams, SelectedMetric, BetterMetric, SaveParamsHeader,
        GaFree
<1>18. CASE InitPolicy
    BY <1>18 DEF InitPolicy
<1>19. CASE Start
    BY <1>19 DEF Start, PrepareResultsFile, KillCurrentProcess,
        EnterTraining, GaInit, GaFree
<1>20. CASE Stop
    BY <1>20 DEF Stop
<1>21. CASE ExitPolicy
    BY <1>21 DEF ExitPolicy, KillCurrentProcess, GaFree
<1>22. CASE BenchmarkExits
    BY <1>22 DEF BenchmarkExits
<1>23. ASSUME NEW r \in Results, WorkerTell(r) PROVE CycleInv'
    BY <1>23 DEF WorkerTell, Tuning, Search!Offer, Search!Told,
        Search!Improves
<1>24. ASSUME NEW r \in Results, WorkerConclude(r) PROVE CycleInv'
    BY <1>24 DEF WorkerConclude, Tuning, Search!Conclude, Search!Told,
        Search!Improves
<1>25. CASE UNCHANGED vars
    BY <1>25 DEF vars
<1>26. QED
    BY <1>1, <1>2, <1>3, <1>4, <1>5, <1>6, <1>7, <1>8, <1>9, <1>10,
       <1>11, <1>12, <1>13, <1>14, <1>15, <1>16, <1>17, <1>18, <1>19,
       <1>20, <1>21, <1>22, <1>23, <1>24, <1>25 DEF Next, WorkerStep,
       ControlStep, CoreCalls

(* Every step keeps the order of training.                                 *)
LEMMA OrderStep ==
    GovernorInv /\ CycleInv /\ TrainedInOrder /\ [Next]_vars => TrainedInOrder'
<1> SUFFICES ASSUME GovernorInv, CycleInv, TrainedInOrder, [Next]_vars
             PROVE  TrainedInOrder'
    OBVIOUS
<1> USE GovernorConstants
        DEF GovernorInv, LifecycleInv, OptimizerInUse,
            EvaluationWithoutOptimizer, CreditInv, Benchmarks, CycleInv,
            TrainedInOrder, gaVars, paramVars, evalVars, processVars,
            rowVars, fileVars, controlVars, historyVars
<1>1. CASE WorkerWake
    BY <1>1 DEF WorkerWake
<1>2. CASE WorkerNoSample
    BY <1>2 DEF WorkerNoSample
<1>3. CASE WorkerNoOptimizer
    BY <1>3 DEF WorkerNoOptimizer
<1>4. CASE WorkerSelect
    BY <1>4 DEF WorkerSelect, CycleFinished, SelectBestParams,
        SelectedParams, SelectedMetric, BetterMetric
<1>5. CASE WorkerNextBenchmark
    BY <1>5 DEF WorkerNextBenchmark, KillCurrentProcess
<1>6. CASE WorkerAsk
    BY <1>6 DEF WorkerAsk, NextBenchmark, Search!Offer
<1>7. CASE WorkerStartEvaluation
    BY <1>7 DEF WorkerStartEvaluation, KillCurrentProcess, GaFree
<1>8. CASE WorkerEvalSample
    BY <1>8 DEF WorkerEvalSample
<1>9. CASE WorkerFinishEval
    BY <1>9 DEF WorkerFinishEval, KillCurrentProcess, AppendCycleResult,
        LastEvalBenchmark
<1>10. CASE WorkerFinishCycle
    BY <1>10 DEF WorkerFinishCycle, KillCurrentProcess,
        AppendCycleResult, EnterTraining, GaInit, GaFree,
        LastEvalBenchmark
<1>11. CASE WorkerExec
    BY <1>11 DEF WorkerExec, RunNewProcess, NotStarted, Forgotten,
        AfterBenchmarkStart
<1>12. CASE WorkerPredict
    BY <1>12 DEF WorkerPredict
<1>13. CASE StartExec
    BY <1>13 DEF StartExec, RunNewProcess, NotStarted, Forgotten, ProcessStarted
<1>14. CASE StartWorker
    BY <1>14 DEF StartWorker
<1>15. CASE StartWorkerFails
    BY <1>15 DEF StartWorkerFails, KillCurrentProcess, GaFree
<1>16. CASE StopJoin
    BY <1>16 DEF StopJoin, Joined
<1>17. CASE StopFinish
    BY <1>17 DEF StopFinish, KillCurrentProcess, SelectBestParams,
        SelectedParams, SelectedMetric, BetterMetric, SaveParamsHeader,
        GaFree
<1>18. CASE InitPolicy
    BY <1>18 DEF InitPolicy
<1>19. CASE Start
    BY <1>19 DEF Start, PrepareResultsFile, KillCurrentProcess,
        EnterTraining, GaInit, GaFree
<1>20. CASE Stop
    BY <1>20 DEF Stop
<1>21. CASE ExitPolicy
    BY <1>21 DEF ExitPolicy, KillCurrentProcess, GaFree
<1>22. CASE BenchmarkExits
    BY <1>22 DEF BenchmarkExits
<1>23. ASSUME NEW r \in Results, WorkerTell(r) PROVE TrainedInOrder'
    BY <1>23 DEF WorkerTell, Tuning, Search!Offer, Search!Told,
        Search!Improves
<1>24. ASSUME NEW r \in Results, WorkerConclude(r) PROVE TrainedInOrder'
    <2>1. /\ worker = "apply" /\ phase = "TRAIN" /\ gaInitialized
          /\ trained' = IF pid = None THEN trained ELSE trained \cup {currentBenchmark}
          /\ worker' = "select"
          /\ control \notin {"startExec", "startWorker"}
          /\ UNCHANGED <<phase, control, currentBenchmark, unstarted>>
        BY <1>24 DEF WorkerConclude, Tuning
    <2>2. (0 .. currentBenchmark - 1) \cup {currentBenchmark} = 0 .. currentBenchmark
        OBVIOUS
    <2>3. 0 \notin unstarted => trained' = 0 .. currentBenchmark
        BY <2>1, <2>2
    <2>4. QED
        BY <2>1, <2>3
<1>25. CASE UNCHANGED vars
    BY <1>25 DEF vars
<1>26. QED
    BY <1>1, <1>2, <1>3, <1>4, <1>5, <1>6, <1>7, <1>8, <1>9, <1>10,
       <1>11, <1>12, <1>13, <1>14, <1>15, <1>16, <1>17, <1>18, <1>19,
       <1>20, <1>21, <1>22, <1>23, <1>24, <1>25 DEF Next, WorkerStep,
       ControlStep, CoreCalls

(* The invariant of benchmark ids.                                         *)
THEOREM CycleInvariant == Spec => []CycleInv
<1>1. Init => CycleInv
    BY GovernorConstants DEF Init, CycleInv, Benchmarks
<1>2. GovernorInv /\ CycleInv /\ [Next]_vars => CycleInv'
    BY CycleStep
<1>3. QED
    BY <1>1, <1>2, GovernorInvariant, PTL DEF Spec

(* The invariant of the order of training.                                 *)
THEOREM OrderInvariant == Spec => []TrainedInOrder
<1>1. Init => TrainedInOrder
    BY GovernorConstants DEF Init, TrainedInOrder, Benchmarks
<1>2. GovernorInv /\ CycleInv /\ TrainedInOrder /\ [Next]_vars => TrainedInOrder'
    BY OrderStep
<1>3. QED
    BY <1>1, <1>2, GovernorInvariant, CycleInvariant, PTL DEF Spec

(* A cycle whose benchmark 0 could be started is evaluated after an        *)
(* argument set on each benchmark, whatever else could not be started.     *)
THEOREM EveryBenchmarkTrained == Spec => []CycleTrainsEveryBenchmark
<1>1. TrainedInOrder => CycleTrainsEveryBenchmark
    BY GovernorConstants DEF TrainedInOrder, CycleTrainsEveryBenchmark
<1>2. QED
    BY <1>1, OrderInvariant, PTL

-----------------------------------------------------------------------------
(* Results and the best parameters                                         *)

(* The optimizer's variables, and what is kept of it, have their types.    *)
ResultTypes ==
    /\ start \in Params
    /\ offered \in Params \cup {None}
    /\ observed \in Seq(Search!Pair)
    /\ best \in Search!Pair \cup {None}
    /\ bestMetric \in Results \cup {NegInf, None}
    /\ bestParams \in Params

(* What the optimizer calls its best was measured in this argument set.    *)
BestMeasured ==
    best # None => \E i \in DOMAIN observed : best = observed[i]

(* The inductive invariant about results.                                  *)
ResultInv == ResultTypes /\ BestMeasured

(* An answer is added to the history, which otherwise stays as it is.      *)
LEMMA ToldTypes ==
    ASSUME ResultTypes, NEW r \in Results
    PROVE  /\ Search!Told(r) \in Seq(Search!Pair)
           /\ \A i \in DOMAIN observed :
                 i \in DOMAIN Search!Told(r) /\ Search!Told(r)[i] = observed[i]
<1> USE DEF ResultTypes, Search!Told
<1>1. CASE offered = None
    BY <1>1
<1>2. CASE offered # None
    <2>1. [param |-> offered, raw |-> r] \in Search!Pair
        BY <1>2 DEF Search!Pair
    <2>2. QED
        BY <1>2, <2>1
<1>3. QED
    BY <1>1, <1>2

(* The best pair after an answer was measured, whether it changed or not.  *)
LEMMA BestAfterAnswer ==
    ASSUME ResultTypes, BestMeasured, NEW r \in Results,
           observed' = Search!Told(r),
           best' = best \/ Search!Improves(best', best, observed')
    PROVE  best' \in Search!Pair \cup {None} /\ BestMeasured'
<1>1. CASE best' = best
    BY <1>1, ToldTypes DEF BestMeasured, ResultTypes
<1>2. CASE Search!Improves(best', best, observed')
    <2>1. PICK i \in DOMAIN observed' : best' = observed'[i]
        BY <1>2 DEF Search!Improves
    <2>2. observed' \in Seq(Search!Pair)
        BY ToldTypes
    <2>3. best' \in Search!Pair
        BY <2>1, <2>2
    <2>4. QED
        BY <2>1, <2>3 DEF BestMeasured
<1>3. QED
    BY <1>1, <1>2

(* Every step keeps types and origin of the results.                       *)
LEMMA ResultStep == GovernorInv /\ ResultInv /\ [Next]_vars => ResultInv'
<1> SUFFICES ASSUME GovernorInv, ResultInv, [Next]_vars PROVE ResultInv'
    OBVIOUS
<1> USE GovernorConstants
        DEF ResultInv, BestMeasured, ResultTypes, Search!Restart,
            gaVars, paramVars, evalVars, processVars, rowVars, fileVars,
            controlVars, historyVars
<1>1. CASE WorkerWake
    BY <1>1 DEF WorkerWake
<1>2. CASE WorkerNoSample
    BY <1>2 DEF WorkerNoSample
<1>3. CASE WorkerNoOptimizer
    BY <1>3 DEF WorkerNoOptimizer
<1>4. CASE WorkerSelect
    <2> USE <1>4 DEF WorkerSelect, SelectBestParams
    <2>1. /\ SelectedParams \in Params
          /\ SelectedMetric \in Results \cup {NegInf}
        BY DEF SelectedParams, SelectedMetric, Search!Pair
    <2>2. /\ bestParams' \in Params
          /\ bestMetric' \in Results \cup {NegInf, None}
        BY <2>1
    <2>3. QED
        BY <2>2 
<1>5. CASE WorkerNextBenchmark
    BY <1>5 DEF WorkerNextBenchmark, KillCurrentProcess
<1>6. CASE WorkerAsk
    <2>1. observed' = Search!Told(0)
        BY <1>6 DEF WorkerAsk, Search!Offer
    <2>2. best' = best \/ Search!Improves(best', best, observed')
        BY <1>6 DEF WorkerAsk, Search!Offer
    <2>3. observed' \in Seq(Search!Pair)
        BY <2>1, ToldTypes
    <2>4. best' \in Search!Pair \cup {None} /\ BestMeasured'
        BY <2>1, <2>2, BestAfterAnswer
    <2>5. QED
        BY <1>6, <2>3, <2>4 DEF WorkerAsk, Search!Offer
<1>7. CASE WorkerStartEvaluation
    BY <1>7 DEF WorkerStartEvaluation, KillCurrentProcess, GaFree
<1>8. CASE WorkerEvalSample
    BY <1>8 DEF WorkerEvalSample
<1>9. CASE WorkerFinishEval
    BY <1>9 DEF WorkerFinishEval, KillCurrentProcess, AppendCycleResult,
        LastEvalBenchmark
<1>10. CASE WorkerFinishCycle
    <2>1. UNCHANGED <<bestParams, bestMetric>>
        BY <1>10 DEF WorkerFinishCycle, EnterTraining
    <2>2. CASE GaInit(bestParams)
        BY <2>1, <2>2 DEF GaInit
    <2>3. CASE GaFree
        BY <2>1, <2>3 DEF GaFree
    <2>4. QED
        BY <1>10, <2>2, <2>3 DEF WorkerFinishCycle
<1>11. CASE WorkerExec
    BY <1>11 DEF WorkerExec, RunNewProcess, NotStarted, Forgotten,
        AfterBenchmarkStart
<1>12. CASE WorkerPredict
    BY <1>12 DEF WorkerPredict
<1>13. CASE StartExec
    BY <1>13 DEF StartExec, RunNewProcess, NotStarted, Forgotten, ProcessStarted
<1>14. CASE StartWorker
    BY <1>14 DEF StartWorker
<1>15. CASE StartWorkerFails
    BY <1>15 DEF StartWorkerFails, KillCurrentProcess, GaFree
<1>16. CASE StopJoin
    BY <1>16 DEF StopJoin, Joined
<1>17. CASE StopFinish
    <2>1. CASE gaInitialized
        <3> USE <1>17, <2>1 DEF StopFinish, SelectBestParams
        <3>1. /\ SelectedParams \in Params
              /\ SelectedMetric \in Results \cup {NegInf}
            BY DEF SelectedParams, SelectedMetric, Search!Pair
        <3>2. /\ bestParams' \in Params
              /\ bestMetric' \in Results \cup {NegInf, None}
            BY <3>1
        <3>3. QED
            BY <3>2 DEF GaFree
    <2>2. CASE ~gaInitialized
        BY <1>17, <2>2 DEF StopFinish, GaFree
    <2>3. QED
        BY <2>1, <2>2
<1>18. CASE InitPolicy
    BY <1>18 DEF InitPolicy
<1>19. CASE Start
    <2>1. UNCHANGED <<bestParams, bestMetric>>
        BY <1>19 DEF Start, EnterTraining
    <2>2. CASE GaInit(bestParams)
        BY <2>1, <2>2 DEF GaInit
    <2>3. CASE GaFree
        BY <2>1, <2>3 DEF GaFree
    <2>4. QED
        BY <1>19, <2>2, <2>3 DEF Start
<1>20. CASE Stop
    BY <1>20 DEF Stop
<1>21. CASE ExitPolicy
    BY <1>21 DEF ExitPolicy, KillCurrentProcess, GaFree
<1>22. CASE BenchmarkExits
    BY <1>22 DEF BenchmarkExits
<1>23. ASSUME NEW r \in Results, WorkerTell(r) PROVE ResultInv'
    <2>1. observed' = Search!Told(r)
        BY <1>23 DEF WorkerTell, Search!Offer
    <2>2. best' = best \/ Search!Improves(best', best, observed')
        BY <1>23 DEF WorkerTell, Search!Offer
    <2>3. observed' \in Seq(Search!Pair)
        BY <2>1, ToldTypes
    <2>4. best' \in Search!Pair \cup {None} /\ BestMeasured'
        BY <2>1, <2>2, BestAfterAnswer
    <2>5. QED
        BY <1>23, <2>3, <2>4 DEF WorkerTell, Search!Offer
<1>24. ASSUME NEW r \in Results, WorkerConclude(r) PROVE ResultInv'
    <2>1. observed' = Search!Told(r)
        BY <1>24 DEF WorkerConclude, Search!Conclude
    <2>2. best' = best \/ Search!Improves(best', best, observed')
        BY <1>24 DEF WorkerConclude, Search!Conclude
    <2>3. observed' \in Seq(Search!Pair)
        BY <2>1, ToldTypes
    <2>4. best' \in Search!Pair \cup {None} /\ BestMeasured'
        BY <2>1, <2>2, BestAfterAnswer
    <2>5. QED
        BY <1>24, <2>3, <2>4 DEF WorkerConclude, Search!Conclude
<1>25. CASE UNCHANGED vars
    BY <1>25 DEF vars
<1>26. QED
    BY <1>1, <1>2, <1>3, <1>4, <1>5, <1>6, <1>7, <1>8, <1>9, <1>10,
       <1>11, <1>12, <1>13, <1>14, <1>15, <1>16, <1>17, <1>18, <1>19,
       <1>20, <1>21, <1>22, <1>23, <1>24, <1>25 DEF Next, WorkerStep,
       ControlStep, CoreCalls

(* The invariant of the results.                                           *)
THEOREM ResultInvariant == Spec => []ResultInv
<1>1. Init => ResultInv
    BY GovernorConstants DEF Init, ResultInv, ResultTypes, BestMeasured
<1>2. GovernorInv /\ ResultInv /\ [Next]_vars => ResultInv'
    BY ResultStep
<1>3. QED
    BY <1>1, <1>2, GovernorInvariant, PTL DEF Spec

(* While the end of an argument set is dealt with, nothing measured in it  *)
(* beats the optimizer's best, and then the governor's, beyond the threshold.*)
ToleranceInv ==
    /\ worker = "select" => best # None /\ Search!WithinTolerance(best, observed)
    /\ NoBetterResultDropped

(* Results are integers.                                                   *)
LEMMA ResultFacts ==
    ResultTypes => /\ best # None => best.raw \in Results
                   /\ \A i \in DOMAIN observed : observed[i].raw \in Int
<1> SUFFICES ASSUME ResultTypes
             PROVE  /\ best # None => best.raw \in Results
                    /\ \A i \in DOMAIN observed : observed[i].raw \in Int
    OBVIOUS
<1>1. \A i \in DOMAIN observed : observed[i] \in Search!Pair
    BY DEF ResultTypes
<1>2. best # None => best \in Search!Pair
    BY DEF ResultTypes
<1>3. QED
    BY <1>1, <1>2, GovernorConstants DEF Search!Pair

(* Every step keeps the best result the best.                              *)
LEMMA ToleranceStep ==
    GovernorInv /\ ResultInv /\ ToleranceInv /\ [Next]_vars => ToleranceInv'
<1> SUFFICES ASSUME GovernorInv, ResultInv, ToleranceInv, [Next]_vars
             PROVE  ToleranceInv'
    OBVIOUS
<1> USE GovernorConstants
        DEF GovernorInv, LifecycleInv, ToleranceInv,
            NoBetterResultDropped, ResultInv, ResultTypes, Search!Pair,
            Search!WithinTolerance, gaVars, paramVars, evalVars,
            processVars, rowVars, fileVars, controlVars, historyVars
<1>1. CASE WorkerWake
    BY <1>1 DEF WorkerWake
<1>2. CASE WorkerNoSample
    BY <1>2 DEF WorkerNoSample
<1>3. CASE WorkerNoOptimizer
    BY <1>3 DEF WorkerNoOptimizer
<1>4. CASE WorkerSelect
    <2>1. /\ SelectedMetric = best.raw
          /\ best.raw \in Results
          /\ \A i \in DOMAIN observed : /\ observed[i].raw \in Int
                                       /\ observed[i].raw <= best.raw + MinImprovement
        <3>1. best # None /\ Search!WithinTolerance(best, observed)
            BY <1>4 DEF WorkerSelect
        <3>2. best.raw \in Results /\ \A i \in DOMAIN observed : observed[i].raw \in Int
            BY <3>1, ResultFacts
        <3>3. QED
            BY <3>1, <3>2 DEF SelectedMetric
    <2>2. /\ bestMetric' # None
          /\ best.raw <= bestMetric'
          /\ bestMetric' \in Int
        BY <1>4, <2>1 DEF WorkerSelect, SelectBestParams, BetterMetric
    <2>3. observed' = observed /\ worker' # "select"
        BY <1>4 DEF WorkerSelect
    <2>4. QED
        BY <2>1, <2>2, <2>3
<1>5. CASE WorkerNextBenchmark
    BY <1>5 DEF WorkerNextBenchmark, KillCurrentProcess
<1>6. CASE WorkerAsk
    BY <1>6 DEF WorkerAsk, NextBenchmark, Search!Offer
<1>7. CASE WorkerStartEvaluation
    BY <1>7 DEF WorkerStartEvaluation, KillCurrentProcess, GaFree
<1>8. CASE WorkerEvalSample
    BY <1>8 DEF WorkerEvalSample
<1>9. CASE WorkerFinishEval
    BY <1>9 DEF WorkerFinishEval, KillCurrentProcess, AppendCycleResult,
        LastEvalBenchmark
<1>10. CASE WorkerFinishCycle
    BY <1>10 DEF WorkerFinishCycle, KillCurrentProcess,
        AppendCycleResult, EnterTraining, GaInit, GaFree,
        LastEvalBenchmark
<1>11. CASE WorkerExec
    BY <1>11 DEF WorkerExec, RunNewProcess, NotStarted, Forgotten,
        AfterBenchmarkStart
<1>12. CASE WorkerPredict
    BY <1>12 DEF WorkerPredict
<1>13. CASE StartExec
    BY <1>13 DEF StartExec, RunNewProcess, NotStarted, Forgotten, ProcessStarted
<1>14. CASE StartWorker
    BY <1>14 DEF StartWorker
<1>15. CASE StartWorkerFails
    BY <1>15 DEF StartWorkerFails, KillCurrentProcess, GaFree
<1>16. CASE StopJoin
    BY <1>16 DEF StopJoin, Joined
<1>17. CASE StopFinish
    BY <1>17 DEF StopFinish, KillCurrentProcess, SelectBestParams,
        SelectedParams, SelectedMetric, BetterMetric, SaveParamsHeader,
        GaFree
<1>18. CASE InitPolicy
    BY <1>18 DEF InitPolicy
<1>19. CASE Start
    BY <1>19 DEF Start, PrepareResultsFile, KillCurrentProcess,
        EnterTraining, GaInit, GaFree
<1>20. CASE Stop
    BY <1>20 DEF Stop
<1>21. CASE ExitPolicy
    BY <1>21 DEF ExitPolicy, KillCurrentProcess, GaFree
<1>22. CASE BenchmarkExits
    BY <1>22 DEF BenchmarkExits
<1>23. ASSUME NEW r \in Results, WorkerTell(r) PROVE ToleranceInv'
    BY <1>23 DEF WorkerTell, Tuning, Search!Offer, Search!Told,
        Search!Improves
<1>24. ASSUME NEW r \in Results, WorkerConclude(r) PROVE ToleranceInv'
    BY <1>24 DEF WorkerConclude, Tuning, Search!Conclude, Search!Told,
        Search!Improves
<1>25. CASE UNCHANGED vars
    BY <1>25 DEF vars
<1>26. QED
    BY <1>1, <1>2, <1>3, <1>4, <1>5, <1>6, <1>7, <1>8, <1>9, <1>10,
       <1>11, <1>12, <1>13, <1>14, <1>15, <1>16, <1>17, <1>18, <1>19,
       <1>20, <1>21, <1>22, <1>23, <1>24, <1>25 DEF Next, WorkerStep,
       ControlStep, CoreCalls

(* The invariant of the best result.                                       *)
THEOREM ToleranceInvariant == Spec => []ToleranceInv
<1>1. Init => ToleranceInv
    BY GovernorConstants DEF Init, ToleranceInv, NoBetterResultDropped
<1>2. GovernorInv /\ ResultInv /\ ToleranceInv /\ [Next]_vars => ToleranceInv'
    BY ToleranceStep
<1>3. QED
    BY <1>1, <1>2, GovernorInvariant, ResultInvariant, PTL DEF Spec

(* No argument set ends with a result beyond the threshold above the one   *)
(* that is kept for the header.                                            *)
THEOREM BestResultKept == Spec => []NoBetterResultDropped
<1>1. ToleranceInv => NoBetterResultDropped
    BY GovernorConstants DEF ToleranceInv
<1>2. QED
    BY <1>1, ToleranceInvariant, PTL

(* Evaluation leaves the parameters alone.                                 *)
Frozen ==
    phase = "EVAL" /\ phase' = "EVAL" => activeParams' = activeParams

(* Every step has the property.                                            *)
LEMMA FrozenStep == GovernorInv /\ [Next]_vars => Frozen
<1> SUFFICES ASSUME GovernorInv, [Next]_vars, phase = "EVAL", phase' = "EVAL"
             PROVE  activeParams' = activeParams
    BY DEF Frozen
<1> USE GovernorConstants
        DEF GovernorInv, LifecycleInv, OptimizerInUse,
            EvaluationWithoutOptimizer, gaVars, paramVars, evalVars,
            processVars, rowVars, fileVars, controlVars, historyVars
<1>1. CASE WorkerWake
    BY <1>1 DEF WorkerWake
<1>2. CASE WorkerNoSample
    BY <1>2 DEF WorkerNoSample
<1>3. CASE WorkerNoOptimizer
    BY <1>3 DEF WorkerNoOptimizer
<1>4. CASE WorkerSelect
    BY <1>4 DEF WorkerSelect, CycleFinished, SelectBestParams,
        SelectedParams, SelectedMetric, BetterMetric
<1>5. CASE WorkerNextBenchmark
    BY <1>5 DEF WorkerNextBenchmark, KillCurrentProcess
<1>6. CASE WorkerAsk
    BY <1>6 DEF WorkerAsk, NextBenchmark, Search!Offer
<1>7. CASE WorkerStartEvaluation
    BY <1>7 DEF WorkerStartEvaluation, KillCurrentProcess, GaFree
<1>8. CASE WorkerEvalSample
    BY <1>8 DEF WorkerEvalSample
<1>9. CASE WorkerFinishEval
    BY <1>9 DEF WorkerFinishEval, KillCurrentProcess, AppendCycleResult,
        LastEvalBenchmark
<1>10. CASE WorkerFinishCycle
    BY <1>10 DEF WorkerFinishCycle, KillCurrentProcess,
        AppendCycleResult, EnterTraining, GaInit, GaFree,
        LastEvalBenchmark
<1>11. CASE WorkerExec
    BY <1>11 DEF WorkerExec, RunNewProcess, NotStarted, Forgotten,
        AfterBenchmarkStart
<1>12. CASE WorkerPredict
    BY <1>12 DEF WorkerPredict
<1>13. CASE StartExec
    BY <1>13 DEF StartExec, RunNewProcess, NotStarted, Forgotten, ProcessStarted
<1>14. CASE StartWorker
    BY <1>14 DEF StartWorker
<1>15. CASE StartWorkerFails
    BY <1>15 DEF StartWorkerFails, KillCurrentProcess, GaFree
<1>16. CASE StopJoin
    BY <1>16 DEF StopJoin, Joined
<1>17. CASE StopFinish
    BY <1>17 DEF StopFinish, KillCurrentProcess, SelectBestParams,
        SelectedParams, SelectedMetric, BetterMetric, SaveParamsHeader,
        GaFree
<1>18. CASE InitPolicy
    BY <1>18 DEF InitPolicy
<1>19. CASE Start
    BY <1>19 DEF Start, PrepareResultsFile, KillCurrentProcess,
        EnterTraining, GaInit, GaFree
<1>20. CASE Stop
    BY <1>20 DEF Stop
<1>21. CASE ExitPolicy
    BY <1>21 DEF ExitPolicy, KillCurrentProcess, GaFree
<1>22. CASE BenchmarkExits
    BY <1>22 DEF BenchmarkExits
<1>23. ASSUME NEW r \in Results, WorkerTell(r) PROVE activeParams' = activeParams
    BY <1>23 DEF WorkerTell, Tuning, Search!Offer, Search!Told,
        Search!Improves
<1>24. ASSUME NEW r \in Results, WorkerConclude(r) PROVE activeParams' = activeParams
    BY <1>24 DEF WorkerConclude, Tuning, Search!Conclude, Search!Told,
        Search!Improves
<1>25. CASE UNCHANGED vars
    BY <1>25 DEF vars
<1>26. QED
    BY <1>1, <1>2, <1>3, <1>4, <1>5, <1>6, <1>7, <1>8, <1>9, <1>10,
       <1>11, <1>12, <1>13, <1>14, <1>15, <1>16, <1>17, <1>18, <1>19,
       <1>20, <1>21, <1>22, <1>23, <1>24, <1>25 DEF Next, WorkerStep,
       ControlStep, CoreCalls

(* The parameters do not change while a cycle is evaluated.                *)
THEOREM ParamsFrozenInEvaluation == Spec => EvaluationFreezesParams
<1>1. GovernorInv /\ [Next]_vars => [Frozen]_vars
    BY FrozenStep
<1>2. QED
    BY <1>1, GovernorInvariant, PTL DEF Spec, EvaluationFreezesParams, Frozen

(* The best pair is replaced only by a better one.                         *)
Rises ==
    governor # "none" /\ <<bestParams, bestMetric>>' # <<bestParams, bestMetric>> =>
        bestMetric = None \/ bestMetric' > bestMetric

(* Every step has the property.                                            *)
LEMMA RisesStep == [Next]_vars => Rises
<1> SUFFICES ASSUME [Next]_vars PROVE Rises
    OBVIOUS
<1> USE DEF Rises, gaVars, paramVars, evalVars, processVars, rowVars, fileVars,
            controlVars, historyVars
<1>1. CASE WorkerWake
    BY <1>1 DEF WorkerWake
<1>2. CASE WorkerNoSample
    BY <1>2 DEF WorkerNoSample
<1>3. CASE WorkerNoOptimizer
    BY <1>3 DEF WorkerNoOptimizer
<1>4. CASE WorkerSelect
    BY <1>4 DEF WorkerSelect, CycleFinished, SelectBestParams,
        SelectedParams, SelectedMetric, BetterMetric
<1>5. CASE WorkerNextBenchmark
    BY <1>5 DEF WorkerNextBenchmark, KillCurrentProcess
<1>6. CASE WorkerAsk
    BY <1>6 DEF WorkerAsk, NextBenchmark, Search!Offer
<1>7. CASE WorkerStartEvaluation
    BY <1>7 DEF WorkerStartEvaluation, KillCurrentProcess, GaFree
<1>8. CASE WorkerEvalSample
    BY <1>8 DEF WorkerEvalSample
<1>9. CASE WorkerFinishEval
    BY <1>9 DEF WorkerFinishEval, KillCurrentProcess, AppendCycleResult,
        LastEvalBenchmark
<1>10. CASE WorkerFinishCycle
    BY <1>10 DEF WorkerFinishCycle, KillCurrentProcess,
        AppendCycleResult, EnterTraining, GaInit, GaFree,
        LastEvalBenchmark
<1>11. CASE WorkerExec
    BY <1>11 DEF WorkerExec, RunNewProcess, NotStarted, Forgotten,
        AfterBenchmarkStart
<1>12. CASE WorkerPredict
    BY <1>12 DEF WorkerPredict
<1>13. CASE StartExec
    BY <1>13 DEF StartExec, RunNewProcess, NotStarted, Forgotten, ProcessStarted
<1>14. CASE StartWorker
    BY <1>14 DEF StartWorker
<1>15. CASE StartWorkerFails
    BY <1>15 DEF StartWorkerFails, KillCurrentProcess, GaFree
<1>16. CASE StopJoin
    BY <1>16 DEF StopJoin, Joined
<1>17. CASE StopFinish
    BY <1>17 DEF StopFinish, KillCurrentProcess, SelectBestParams,
        SelectedParams, SelectedMetric, BetterMetric, SaveParamsHeader,
        GaFree
<1>18. CASE InitPolicy
    BY <1>18 DEF InitPolicy
<1>19. CASE Start
    BY <1>19 DEF Start, PrepareResultsFile, KillCurrentProcess,
        EnterTraining, GaInit, GaFree
<1>20. CASE Stop
    BY <1>20 DEF Stop
<1>21. CASE ExitPolicy
    BY <1>21 DEF ExitPolicy, KillCurrentProcess, GaFree
<1>22. CASE BenchmarkExits
    BY <1>22 DEF BenchmarkExits
<1>23. ASSUME NEW r \in Results, WorkerTell(r) PROVE Rises
    BY <1>23 DEF WorkerTell, Tuning, Search!Offer, Search!Told,
        Search!Improves
<1>24. ASSUME NEW r \in Results, WorkerConclude(r) PROVE Rises
    BY <1>24 DEF WorkerConclude, Tuning, Search!Conclude, Search!Told,
        Search!Improves
<1>25. CASE UNCHANGED vars
    BY <1>25 DEF vars
<1>26. QED
    BY <1>1, <1>2, <1>3, <1>4, <1>5, <1>6, <1>7, <1>8, <1>9, <1>10,
       <1>11, <1>12, <1>13, <1>14, <1>15, <1>16, <1>17, <1>18, <1>19,
       <1>20, <1>21, <1>22, <1>23, <1>24, <1>25 DEF Next, WorkerStep,
       ControlStep, CoreCalls

(* The best metric of a policy never falls.                                *)
THEOREM BestMetricNeverFalls == Spec => BestMetricOnlyRises
<1>1. [Next]_vars => [Rises]_vars
    BY RisesStep
<1>2. QED
    BY <1>1, PTL DEF Spec, BestMetricOnlyRises, Rises

(* A new best pair is one of the pairs measured.                           *)
FromMeasurement ==
    bestMetric' # bestMetric /\ bestMetric' \in Results =>
        \E i \in DOMAIN observed :
            observed[i] = [param |-> bestParams', raw |-> bestMetric']

(* Every step has the property.                                            *)
LEMMA FromMeasurementStep ==
    GovernorInv /\ ResultInv /\ [Next]_vars => FromMeasurement
<1> SUFFICES ASSUME GovernorInv, ResultInv, [Next]_vars PROVE FromMeasurement
    OBVIOUS
<1> USE GovernorConstants
        DEF FromMeasurement, ResultInv, ResultTypes, BestMeasured,
            Search!Pair, GovernorInv, LifecycleInv, gaVars, paramVars,
            evalVars, processVars, rowVars, fileVars, controlVars, historyVars
<1>1. CASE WorkerWake
    BY <1>1 DEF WorkerWake
<1>2. CASE WorkerNoSample
    BY <1>2 DEF WorkerNoSample
<1>3. CASE WorkerNoOptimizer
    BY <1>3 DEF WorkerNoOptimizer
<1>4. CASE WorkerSelect
    BY <1>4 DEF WorkerSelect, CycleFinished, SelectBestParams,
        SelectedParams, SelectedMetric, BetterMetric
<1>5. CASE WorkerNextBenchmark
    BY <1>5 DEF WorkerNextBenchmark, KillCurrentProcess
<1>6. CASE WorkerAsk
    BY <1>6 DEF WorkerAsk, NextBenchmark, Search!Offer
<1>7. CASE WorkerStartEvaluation
    BY <1>7 DEF WorkerStartEvaluation, KillCurrentProcess, GaFree
<1>8. CASE WorkerEvalSample
    BY <1>8 DEF WorkerEvalSample
<1>9. CASE WorkerFinishEval
    BY <1>9 DEF WorkerFinishEval, KillCurrentProcess, AppendCycleResult,
        LastEvalBenchmark
<1>10. CASE WorkerFinishCycle
    BY <1>10 DEF WorkerFinishCycle, KillCurrentProcess,
        AppendCycleResult, EnterTraining, GaInit, GaFree,
        LastEvalBenchmark
<1>11. CASE WorkerExec
    BY <1>11 DEF WorkerExec, RunNewProcess, NotStarted, Forgotten,
        AfterBenchmarkStart
<1>12. CASE WorkerPredict
    BY <1>12 DEF WorkerPredict
<1>13. CASE StartExec
    BY <1>13 DEF StartExec, RunNewProcess, NotStarted, Forgotten, ProcessStarted
<1>14. CASE StartWorker
    BY <1>14 DEF StartWorker
<1>15. CASE StartWorkerFails
    BY <1>15 DEF StartWorkerFails, KillCurrentProcess, GaFree
<1>16. CASE StopJoin
    BY <1>16 DEF StopJoin, Joined
<1>17. CASE StopFinish
    BY <1>17 DEF StopFinish, KillCurrentProcess, SelectBestParams,
        SelectedParams, SelectedMetric, BetterMetric, SaveParamsHeader,
        GaFree
<1>18. CASE InitPolicy
    BY <1>18 DEF InitPolicy
<1>19. CASE Start
    BY <1>19 DEF Start, PrepareResultsFile, KillCurrentProcess,
        EnterTraining, GaInit, GaFree
<1>20. CASE Stop
    BY <1>20 DEF Stop
<1>21. CASE ExitPolicy
    BY <1>21 DEF ExitPolicy, KillCurrentProcess, GaFree
<1>22. CASE BenchmarkExits
    BY <1>22 DEF BenchmarkExits
<1>23. ASSUME NEW r \in Results, WorkerTell(r) PROVE FromMeasurement
    BY <1>23 DEF WorkerTell, Tuning, Search!Offer, Search!Told,
        Search!Improves
<1>24. ASSUME NEW r \in Results, WorkerConclude(r) PROVE FromMeasurement
    BY <1>24 DEF WorkerConclude, Tuning, Search!Conclude, Search!Told,
        Search!Improves
<1>25. CASE UNCHANGED vars
    BY <1>25 DEF vars
<1>26. QED
    BY <1>1, <1>2, <1>3, <1>4, <1>5, <1>6, <1>7, <1>8, <1>9, <1>10,
       <1>11, <1>12, <1>13, <1>14, <1>15, <1>16, <1>17, <1>18, <1>19,
       <1>20, <1>21, <1>22, <1>23, <1>24, <1>25 DEF Next, WorkerStep,
       ControlStep, CoreCalls

(* The best parameters were measured with the best metric.                 *)
THEOREM BestParamsMeasured == Spec => BestParamsWereMeasured
<1>1. GovernorInv /\ ResultInv /\ [Next]_vars => [FromMeasurement]_vars
    BY FromMeasurementStep
<1>2. QED
    BY <1>1, GovernorInvariant, ResultInvariant, PTL
    DEF Spec, BestParamsWereMeasured, FromMeasurement

-----------------------------------------------------------------------------
(* The results file                                                        *)

(* The rows of the results file.                                           *)
Rows == [cycle : Nat, benchmark : Nat, samples : Nat, intact : BOOLEAN]

(* The evaluation counters and the file have their types.                  *)
RowTypes ==
    /\ evalSamples \in Nat
    /\ evalSamples < EvalSamples
    /\ evalBenchmark \in Nat
    /\ cycleId \in Nat
    /\ resultsFile \in Seq(Rows)
    /\ oldRows \in 0 .. Len(resultsFile)

(* The rows of this start come before the one to be written next.          *)
RowsBefore ==
    \A i \in oldRows + 1 .. Len(resultsFile) :
          \/ resultsFile[i].cycle < cycleId
          \/ /\ phase = "EVAL"
             /\ resultsFile[i].cycle = cycleId
             /\ resultsFile[i].benchmark < evalBenchmark

(* RowsInOrder with what makes it inductive; a start that has not launched *)
(* its worker yet has written nothing.                                     *)
RowsInv ==
    /\ RowTypes
    /\ control \in {"startExec", "startWorker"} => oldRows = Len(resultsFile)
    /\ worker # "none" => RowsBefore
    /\ RowsInOrder

(* A step that leaves the file and the counters alone keeps the invariant. *)
LEMMA RowsKept ==
    ASSUME RowsInv,
           UNCHANGED <<resultsFile, oldRows, phase, cycleId, evalBenchmark, evalSamples>>,
           worker' # "none" => worker # "none" \/ control = "startWorker",
           control' \in {"startExec", "startWorker"} =>
               control \in {"startExec", "startWorker"}
    PROVE  RowsInv'
<1>1. RowsInOrder'
    BY DEF RowsInv, RowsInOrder, NewRows
<1>2. RowTypes'
    BY DEF RowsInv, RowTypes
<1>3. ASSUME worker' # "none" PROVE RowsBefore'
    <2>1. CASE worker # "none"
        BY <2>1 DEF RowsInv, RowsBefore
    <2>2. CASE control = "startWorker"
        BY <2>2 DEF RowsInv, RowsBefore, RowTypes
    <2>3. QED
        BY <1>3, <2>1, <2>2
<1>4. QED
    BY <1>1, <1>2, <1>3 DEF RowsInv

(* The fields of rows are naturals.                                        *)
LEMMA RowElements ==
    RowTypes => \A i \in oldRows + 1 .. Len(resultsFile) :
                    /\ resultsFile[i].cycle \in Nat
                    /\ resultsFile[i].benchmark \in Nat
<1> SUFFICES ASSUME RowTypes, NEW i \in oldRows + 1 .. Len(resultsFile)
             PROVE  resultsFile[i].cycle \in Nat /\ resultsFile[i].benchmark \in Nat
    OBVIOUS
<1>1. resultsFile[i] \in Rows
    BY DEF RowTypes
<1>2. QED
    BY <1>1 DEF Rows

(* Appending the row of the benchmark just evaluated keeps the order.      *)
LEMMA RowAppended ==
    ASSUME RowsInv, worker # "none", oldRows' = oldRows,
           evalSamples + 1 = EvalSamples,
           resultsFile' = Append(resultsFile, EvalRow)
  PROVE  /\ RowsInOrder'
         /\ resultsFile' \in Seq(Rows)
         /\ oldRows' \in 0 .. Len(resultsFile')
         /\ \A i \in oldRows' + 1 .. Len(resultsFile') :
               /\ resultsFile'[i].cycle \in Nat
               /\ resultsFile'[i].benchmark \in Nat
         /\ \A i \in oldRows' + 1 .. Len(resultsFile') :
               \/ resultsFile'[i].cycle < cycleId
               \/ /\ resultsFile'[i].cycle = cycleId
                  /\ resultsFile'[i].benchmark < evalBenchmark + 1
<1> USE GovernorConstants
        DEF RowsInv, RowTypes
<1>0. (~lineOpen) \in BOOLEAN
    OBVIOUS
<1>1. /\ EvalRow \in Rows
      /\ EvalRow.cycle = cycleId
      /\ EvalRow.benchmark = evalBenchmark
      /\ EvalRow.samples = EvalSamples
    BY <1>0 DEF EvalRow, Rows
<1>2. /\ resultsFile' \in Seq(Rows)
      /\ Len(resultsFile') = Len(resultsFile) + 1
      /\ \A i \in 1 .. Len(resultsFile) : resultsFile'[i] = resultsFile[i]
      /\ resultsFile'[Len(resultsFile) + 1] = EvalRow
    BY <1>1
<1> HIDE DEF RowsInv
<1>3. \A i \in oldRows + 1 .. Len(resultsFile) :
          \/ resultsFile[i].cycle < cycleId
          \/ /\ resultsFile[i].cycle = cycleId
             /\ resultsFile[i].benchmark < evalBenchmark
    BY DEF RowsInv, RowsBefore
<1>4. \A i \in 1 .. Len(resultsFile) : resultsFile[i] \in Rows
    BY DEF RowsInv
<1>5. RowTypes
    BY DEF RowsInv
<1>6. \A i, j \in oldRows + 1 .. Len(resultsFile) + 1 : i < j =>
         \/ resultsFile'[i].cycle < resultsFile'[j].cycle
         \/ /\ resultsFile'[i].cycle = resultsFile'[j].cycle
            /\ resultsFile'[i].benchmark < resultsFile'[j].benchmark
    <2> SUFFICES ASSUME NEW i \in oldRows + 1 .. Len(resultsFile) + 1,
                        NEW j \in oldRows + 1 .. Len(resultsFile) + 1, i < j
                 PROVE  \/ resultsFile'[i].cycle < resultsFile'[j].cycle
                        \/ /\ resultsFile'[i].cycle = resultsFile'[j].cycle
                           /\ resultsFile'[i].benchmark < resultsFile'[j].benchmark
        OBVIOUS
    <2>1. i \in oldRows + 1 .. Len(resultsFile) /\ resultsFile'[i] = resultsFile[i]
        BY <1>2, <1>5
    <2>2. CASE j = Len(resultsFile) + 1
        BY <1>1, <1>2, <1>3, <2>1, <2>2
    <2>3. CASE j # Len(resultsFile) + 1
        <3>1. j \in oldRows + 1 .. Len(resultsFile) /\ resultsFile'[j] = resultsFile[j]
            BY <1>2, <1>5, <2>3
        <3>2. QED
            BY <2>1, <3>1 DEF RowsInv, RowsInOrder, NewRows
    <2>4. QED
        BY <2>2, <2>3
<1>7. \A i \in oldRows + 1 .. Len(resultsFile) + 1 : resultsFile'[i].samples = EvalSamples
    BY <1>1, <1>2, <1>5 DEF RowsInv, RowsInOrder, NewRows
<1>8. RowsInOrder'
    BY <1>2, <1>6, <1>7 DEF RowsInOrder, NewRows
<1>9. oldRows' \in 0 .. Len(resultsFile')
    BY <1>2, <1>5
<1>10. \A i \in oldRows' + 1 .. Len(resultsFile') :
               \/ resultsFile'[i].cycle < cycleId
               \/ /\ resultsFile'[i].cycle = cycleId
                  /\ resultsFile'[i].benchmark < evalBenchmark + 1
    <2> SUFFICES ASSUME NEW i \in oldRows + 1 .. Len(resultsFile) + 1
                 PROVE  \/ resultsFile'[i].cycle < cycleId
                        \/ /\ resultsFile'[i].cycle = cycleId
                           /\ resultsFile'[i].benchmark < evalBenchmark + 1
        BY <1>2
    <2>1. CASE i = Len(resultsFile) + 1
        BY <1>1, <1>2, <1>5, <2>1
    <2>2. CASE i # Len(resultsFile) + 1
        <3>1. i \in oldRows + 1 .. Len(resultsFile) /\ i \in 1 .. Len(resultsFile)
            BY <1>5, <2>2
        <3>2. resultsFile'[i] = resultsFile[i] /\ resultsFile[i].benchmark \in Nat
            BY <1>2, <1>4, <3>1 DEF Rows
        <3>3. QED
            BY <1>3, <1>5, <3>1, <3>2
    <2>3. QED
        BY <2>1, <2>2
<1>11. \A i \in 1 .. Len(resultsFile) + 1 : resultsFile'[i] \in Rows
    BY <1>2
<1>12. \A i \in oldRows' + 1 .. Len(resultsFile') :
               /\ resultsFile'[i].cycle \in Nat
               /\ resultsFile'[i].benchmark \in Nat
    <2> SUFFICES ASSUME NEW i \in oldRows + 1 .. Len(resultsFile) + 1
                 PROVE  /\ resultsFile'[i].cycle \in Nat
                        /\ resultsFile'[i].benchmark \in Nat
        BY <1>2
    <2>1. resultsFile'[i] \in Rows
        BY <1>5, <1>11
    <2>2. QED
        BY <2>1 DEF Rows
<1>13. QED
    BY <1>2, <1>8, <1>9, <1>10, <1>12

(* Every step keeps the rows in order.                                     *)
LEMMA RowsStep == GovernorInv /\ RowsInv /\ [Next]_vars => RowsInv'
<1> SUFFICES ASSUME GovernorInv, RowsInv, [Next]_vars PROVE RowsInv'
    OBVIOUS
<1> USE GovernorConstants
        DEF GovernorInv, LifecycleInv, OptimizerInUse,
            EvaluationWithoutOptimizer, RowsInv, gaVars, paramVars,
            evalVars, processVars, rowVars, fileVars, controlVars, historyVars
<1>1. CASE WorkerWake
    BY <1>1, RowsKept DEF WorkerWake
<1>2. CASE WorkerNoSample
    BY <1>2, RowsKept DEF WorkerNoSample
<1>3. CASE WorkerNoOptimizer
    BY <1>3, RowsKept DEF WorkerNoOptimizer
<1>4. CASE WorkerSelect
    BY <1>4, RowsKept DEF WorkerSelect
<1>5. CASE WorkerNextBenchmark
    BY <1>5, RowsKept DEF WorkerNextBenchmark
<1>6. CASE WorkerAsk
    BY <1>6, RowsKept DEF WorkerAsk
<1>7. CASE WorkerStartEvaluation
    <2>1. phase # "EVAL" /\ worker # "none"
        BY <1>7 DEF WorkerStartEvaluation
    <2>2. /\ resultsFile' = resultsFile
          /\ oldRows' = oldRows
          /\ cycleId' = cycleId
          /\ control' = control
        BY <1>7 DEF WorkerStartEvaluation
    <2>3. RowsInOrder'
        BY <2>2 DEF RowsInOrder, NewRows
    <2>4. RowTypes'
        BY <1>7, <2>2 DEF WorkerStartEvaluation, RowTypes
    <2>5. RowsBefore'
        BY <2>1, <2>2 DEF RowsBefore
    <2>6. QED
        BY <2>2, <2>3, <2>4, <2>5
<1>8. CASE WorkerEvalSample
    <2>1. /\ resultsFile' = resultsFile
          /\ oldRows' = oldRows
          /\ control' = control
        BY <1>8 DEF WorkerEvalSample
    <2>2. RowsInOrder'
        BY <2>1 DEF RowsInOrder, NewRows
    <2>3. RowTypes'
        BY <1>8, <2>1 DEF WorkerEvalSample, RowTypes
    <2>4. RowsBefore'
        BY <1>8, <2>1 DEF WorkerEvalSample, RowsBefore
    <2>5. QED
        BY <2>1, <2>2, <2>3, <2>4
<1>9. CASE WorkerFinishEval
    <2>1. /\ oldRows' = oldRows
          /\ control' = control
          /\ control \notin {"startExec", "startWorker"}
          /\ phase = "EVAL"
          /\ worker # "none"
          /\ evalSamples + 1 = EvalSamples
        BY <1>9 DEF WorkerFinishEval, AppendCycleResult, RowTypes
    <2>2. /\ phase' = "EVAL"
          /\ cycleId' = cycleId
          /\ evalBenchmark' = evalBenchmark + 1
          /\ evalSamples' = 0
        BY <1>9 DEF WorkerFinishEval, RowTypes
    <2>3. resultsFile' = resultsFile \/ resultsFile' = Append(resultsFile, EvalRow)
        BY <1>9 DEF WorkerFinishEval, AppendCycleResult
    <2>4. CASE resultsFile' = resultsFile
        <3>1. RowsInOrder'
            BY <2>1, <2>4 DEF RowsInOrder, NewRows
        <3>2. RowTypes'
            BY <2>1, <2>2, <2>4 DEF RowTypes
        <3>3. RowsBefore'
            BY <2>1, <2>2, <2>4, RowElements DEF RowsBefore, RowTypes
        <3>4. QED
            BY <2>1, <3>1, <3>2, <3>3
    <2>5. CASE resultsFile' = Append(resultsFile, EvalRow)
        <3>1. /\ RowsInOrder'
              /\ resultsFile' \in Seq(Rows)
              /\ oldRows' \in 0 .. Len(resultsFile')
              /\ \A i \in oldRows' + 1 .. Len(resultsFile') :
                    /\ resultsFile'[i].cycle \in Nat
                    /\ resultsFile'[i].benchmark \in Nat
              /\ \A i \in oldRows' + 1 .. Len(resultsFile') :
                    \/ resultsFile'[i].cycle < cycleId
                    \/ /\ resultsFile'[i].cycle = cycleId
                       /\ resultsFile'[i].benchmark < evalBenchmark + 1
            BY <2>1, <2>5, RowAppended
        <3>2. RowTypes'
            BY <2>2, <3>1 DEF RowTypes
        <3>3. RowsBefore'
            <4> SUFFICES ASSUME NEW i \in oldRows' + 1 .. Len(resultsFile')
                         PROVE  \/ resultsFile'[i].cycle < cycleId'
                                \/ /\ phase' = "EVAL"
                                   /\ resultsFile'[i].cycle = cycleId'
                                   /\ resultsFile'[i].benchmark < evalBenchmark'
                BY DEF RowsBefore
            <4>1. cycleId \in Nat /\ resultsFile'[i].cycle \in Nat
                BY <3>1 DEF RowTypes
            <4>2. \/ resultsFile'[i].cycle < cycleId
                  \/ /\ resultsFile'[i].cycle = cycleId
                     /\ resultsFile'[i].benchmark < evalBenchmark + 1
                BY <3>1
            <4> HIDE DEF RowsInv, GovernorInv
            <4>3. QED
                BY <2>2, <4>1, <4>2
        <3>4. QED
            BY <2>1, <3>1, <3>2, <3>3
    <2>6. QED
        BY <2>3, <2>4, <2>5
<1>10. CASE WorkerFinishCycle
    <2>1. /\ oldRows' = oldRows
          /\ control' = control
          /\ control \notin {"startExec", "startWorker"}
          /\ phase = "EVAL"
          /\ worker # "none"
          /\ evalSamples + 1 = EvalSamples
        BY <1>10 DEF WorkerFinishCycle, AppendCycleResult, RowTypes
    <2>2. /\ phase' = "TRAIN"
          /\ cycleId' = cycleId + 1
          /\ evalBenchmark' = 0
          /\ evalSamples' = 0
        BY <1>10 DEF WorkerFinishCycle, EnterTraining, RowTypes
    <2>3. resultsFile' = resultsFile \/ resultsFile' = Append(resultsFile, EvalRow)
        BY <1>10 DEF WorkerFinishCycle, AppendCycleResult
    <2>4. CASE resultsFile' = resultsFile
        <3>1. RowsInOrder'
            BY <2>1, <2>4 DEF RowsInOrder, NewRows
        <3>2. RowTypes'
            BY <2>1, <2>2, <2>4 DEF RowTypes
        <3>3. RowsBefore'
            BY <2>1, <2>2, <2>4, RowElements DEF RowsBefore, RowTypes
        <3>4. QED
            BY <2>1, <3>1, <3>2, <3>3
    <2>5. CASE resultsFile' = Append(resultsFile, EvalRow)
        <3>1. /\ RowsInOrder'
              /\ resultsFile' \in Seq(Rows)
              /\ oldRows' \in 0 .. Len(resultsFile')
              /\ \A i \in oldRows' + 1 .. Len(resultsFile') :
                    /\ resultsFile'[i].cycle \in Nat
                    /\ resultsFile'[i].benchmark \in Nat
              /\ \A i \in oldRows' + 1 .. Len(resultsFile') :
                    \/ resultsFile'[i].cycle < cycleId
                    \/ /\ resultsFile'[i].cycle = cycleId
                       /\ resultsFile'[i].benchmark < evalBenchmark + 1
            BY <2>1, <2>5, RowAppended
        <3>2. RowTypes'
            BY <2>2, <3>1 DEF RowTypes
        <3>3. RowsBefore'
            <4> SUFFICES ASSUME NEW i \in oldRows' + 1 .. Len(resultsFile')
                         PROVE  \/ resultsFile'[i].cycle < cycleId'
                                \/ /\ phase' = "EVAL"
                                   /\ resultsFile'[i].cycle = cycleId'
                                   /\ resultsFile'[i].benchmark < evalBenchmark'
                BY DEF RowsBefore
            <4>1. cycleId \in Nat /\ resultsFile'[i].cycle \in Nat
                BY <3>1 DEF RowTypes
            <4>2. \/ resultsFile'[i].cycle < cycleId
                  \/ /\ resultsFile'[i].cycle = cycleId
                     /\ resultsFile'[i].benchmark < evalBenchmark + 1
                BY <3>1
            <4> HIDE DEF RowsInv, GovernorInv
            <4>3. QED
                BY <2>2, <4>1, <4>2
        <3>4. QED
            BY <2>1, <3>1, <3>2, <3>3
    <2>6. QED
        BY <2>3, <2>4, <2>5
<1>11. CASE WorkerExec
    BY <1>11, RowsKept DEF WorkerExec
<1>12. CASE WorkerPredict
    BY <1>12, RowsKept DEF WorkerPredict
<1>13. CASE StartExec
    BY <1>13, RowsKept DEF StartExec, RunNewProcess
<1>14. CASE StartWorker
    BY <1>14, RowsKept DEF StartWorker
<1>15. CASE StartWorkerFails
    BY <1>15, RowsKept DEF StartWorkerFails
<1>16. CASE StopJoin
    BY <1>16, RowsKept DEF StopJoin
<1>17. CASE StopFinish
    BY <1>17, RowsKept DEF StopFinish, SaveParamsHeader, KillCurrentProcess
<1>18. CASE InitPolicy
    <2>1. /\ resultsFile' = resultsFile
          /\ oldRows' = oldRows
          /\ worker' = "none"
          /\ control' = "idle"
        BY <1>18 DEF InitPolicy
    <2>2. RowsInOrder'
        BY <2>1 DEF RowsInOrder, NewRows
    <2>3. RowTypes'
        BY <1>18, <2>1 DEF InitPolicy, RowTypes
    <2>4. QED
        BY <2>1, <2>2, <2>3
<1>19. CASE Start
    <2>0. Len(<<>>) = 0 /\ <<>> \in Seq(Rows)
        OBVIOUS
    <2>1. /\ oldRows' = Len(resultsFile')
          /\ resultsFile' \in Seq(Rows)
        BY <1>19, <2>0 DEF Start, PrepareResultsFile, RowTypes
    <2>2. RowsInOrder'
        BY <2>1 DEF RowsInOrder, NewRows, RowTypes
    <2>3. RowTypes'
        BY <1>19, <2>1 DEF Start, PrepareResultsFile, EnterTraining, RowTypes
    <2>4. worker' = "none"
        BY <1>19 DEF Start
    <2>5. QED
        BY <2>1, <2>2, <2>3, <2>4
<1>20. CASE Stop
    BY <1>20, RowsKept DEF Stop
<1>21. CASE ExitPolicy
    BY <1>21, RowsKept DEF ExitPolicy
<1>22. CASE BenchmarkExits
    BY <1>22, RowsKept DEF BenchmarkExits
<1>23. ASSUME NEW r \in Results, WorkerTell(r) PROVE RowsInv'
    BY <1>23, RowsKept DEF WorkerTell
<1>24. ASSUME NEW r \in Results, WorkerConclude(r) PROVE RowsInv'
    BY <1>24, RowsKept DEF WorkerConclude
<1>25. CASE UNCHANGED vars
    BY <1>25, RowsKept DEF vars
<1>26. QED
    BY <1>1, <1>2, <1>3, <1>4, <1>5, <1>6, <1>7, <1>8, <1>9, <1>10,
       <1>11, <1>12, <1>13, <1>14, <1>15, <1>16, <1>17, <1>18, <1>19,
       <1>20, <1>21, <1>22, <1>23, <1>24, <1>25 DEF Next, WorkerStep,
       ControlStep, CoreCalls

(* The invariant of the results file.                                      *)
THEOREM RowsInvariant == Spec => []RowsInv
<1>1. Init => RowsInv
    BY GovernorConstants DEF Init, RowsInv, RowTypes, RowsBefore,
       RowsInOrder, NewRows, Rows
<1>2. GovernorInv /\ RowsInv /\ [Next]_vars => RowsInv'
    BY RowsStep
<1>3. QED
    BY <1>1, <1>2, GovernorInvariant, PTL DEF Spec

(* What the completeness of the file speaks of.                            *)
rowsSeen == <<resultsFile, lineOpen, oldRows, firstCycle, lost, phase, cycleId,
              evalBenchmark>>

Starting == control \in {"startExec", "startWorker"}

(* EvaluationsHaveRows and LinesAreIntact with what makes them inductive:  *)
(* an open line is the one the next row may be written to.                 *)
CompleteInv ==
    /\ phase # "EVAL" => evalBenchmark = 0
    /\ worker # "none" \/ Starting => (lineOpen => MayBeBegun(cycleId, evalBenchmark))
    /\ EvaluationsHaveRows
    /\ LinesAreIntact

(* No other step touches the file or moves the evaluation on.              *)
LEMMA OtherStepsKeepRows ==
    ASSUME [Next]_vars
    PROVE  \/ WorkerStartEvaluation \/ WorkerFinishEval \/ WorkerFinishCycle
           \/ InitPolicy \/ Start
           \/ /\ UNCHANGED rowsSeen
              /\ worker' # "none" \/ Starting' => worker # "none" \/ Starting
<1> USE DEF rowsSeen, Starting, gaVars, paramVars, evalVars, processVars, rowVars,
            fileVars, controlVars, historyVars
<1> DEFINE Kept == /\ UNCHANGED rowsSeen
                   /\ worker' # "none" \/ Starting' => worker # "none" \/ Starting
<1>1. CASE WorkerWake \/ WorkerNoSample \/ WorkerNoOptimizer \/ WorkerSelect
    BY <1>1 DEF WorkerWake, WorkerNoSample, WorkerNoOptimizer, WorkerSelect
<1>2. CASE WorkerNextBenchmark \/ WorkerAsk \/ WorkerEvalSample
    BY <1>2 DEF WorkerNextBenchmark, WorkerAsk, WorkerEvalSample
<1>3. CASE WorkerExec \/ WorkerPredict
    BY <1>3 DEF WorkerExec, WorkerPredict
<1>4. CASE StartExec \/ StartWorker \/ StartWorkerFails
    BY <1>4 DEF StartExec, StartWorker, StartWorkerFails
<1>5. CASE StopJoin \/ StopFinish
    BY <1>5 DEF StopJoin, StopFinish
<1>6. CASE Stop \/ ExitPolicy \/ BenchmarkExits
    BY <1>6 DEF Stop, ExitPolicy, BenchmarkExits
<1>7. CASE \E r \in Results : WorkerTell(r) \/ WorkerConclude(r)
    BY <1>7 DEF WorkerTell, WorkerConclude
<1>8. CASE UNCHANGED vars
    BY <1>8 DEF vars
<1> HIDE DEF Kept
<1>9. QED
    BY <1>1, <1>2, <1>3, <1>4, <1>5, <1>6, <1>7, <1>8
    DEF Kept, Next, WorkerStep, ControlStep, CoreCalls

(* Appending the row of the evaluation that ended, or failing to: either   *)
(* way it is accounted for, and so is a line left open.                    *)
LEMMA RowWritten ==
    ASSUME RowsInv, CompleteInv, worker # "none", AppendCycleResult(EvalRow)
    PROVE  /\ firstCycle' = firstCycle
           /\ \A c \in 0 .. cycleId, b \in Benchmarks :
                 Evaluated(c, b) \/ <<c, b>> = <<cycleId, evalBenchmark>>
                     => HasRow(c, b)' \/ <<c, b>> \in lost'
           /\ LinesAreIntact'
           /\ lineOpen' => <<cycleId, evalBenchmark>> \in lost'
<1>0. EvalRow.intact \/ lineOpen
    BY DEF EvalRow
<1>1. /\ oldRows' = oldRows
      /\ firstCycle' = firstCycle
      /\ oldRows \in Nat
      /\ resultsFile \in Seq(Rows)
      /\ EvalRow.cycle = cycleId
      /\ EvalRow.benchmark = evalBenchmark
    BY DEF AppendCycleResult, EvalRow, RowsInv, RowTypes
<1>2. \A c \in 0 .. cycleId, b \in Benchmarks :
          Evaluated(c, b) => HasRow(c, b) \/ <<c, b>> \in lost
    BY DEF CompleteInv, EvaluationsHaveRows
<1>3. \A i \in NewRows :
          \/ resultsFile[i].intact
          \/ MayBeBegun(resultsFile[i].cycle, resultsFile[i].benchmark)
    BY DEF CompleteInv, LinesAreIntact
<1>4. lineOpen => MayBeBegun(cycleId, evalBenchmark)
    BY DEF CompleteInv
<1>5. CASE resultsFile' = Append(resultsFile, EvalRow) /\ ~lineOpen' /\ lost' = lost
    <2>1. /\ Len(resultsFile') = Len(resultsFile) + 1
          /\ \A i \in 1 .. Len(resultsFile) : resultsFile'[i] = resultsFile[i]
          /\ resultsFile'[Len(resultsFile) + 1] = EvalRow
        BY <1>1, <1>5
    <2>2. oldRows <= Len(resultsFile) /\ Len(resultsFile) \in Nat
        BY DEF RowsInv, RowTypes
    <2>3. /\ NewRows \subseteq NewRows'
          /\ \A i \in NewRows : resultsFile'[i] = resultsFile[i]
          /\ Len(resultsFile) + 1 \in NewRows'
        BY <1>1, <2>1, <2>2 DEF NewRows
    <2>4. \A i \in NewRows' : i \in NewRows \/ i = Len(resultsFile) + 1
        BY <1>1, <2>1, <2>2 DEF NewRows
    <2>5. \A c \in 0 .. cycleId, b \in Benchmarks : HasRow(c, b) => HasRow(c, b)'
        BY <2>3, Zenon DEF HasRow
    <2>6. \A c, b : <<c, b>> = <<cycleId, evalBenchmark>> => HasRow(c, b)'
        BY <1>1, <2>1, <2>3 DEF HasRow
    <2>7. \A c, b : MayBeBegun(c, b) => MayBeBegun(c, b)'
        BY <1>1, <1>5, Zenon DEF MayBeBegun
    <2>8. LinesAreIntact'
        BY <1>0, <1>1, <1>3, <1>4, <2>1, <2>3, <2>4, <2>7 DEF LinesAreIntact
    <2>9. QED
        BY <1>1, <1>2, <1>5, <2>5, <2>6, <2>8
<1>6. CASE /\ resultsFile' = resultsFile
           /\ lost' = lost \cup {<<EvalRow.cycle, EvalRow.benchmark>>}
    <2>1. NewRows' = NewRows /\ \A c, b : HasRow(c, b)' <=> HasRow(c, b)
        BY <1>1, <1>6 DEF NewRows, HasRow
    <2>2. \A c, b : MayBeBegun(c, b) => MayBeBegun(c, b)'
        BY <1>1, <1>6 DEF MayBeBegun
    <2>3. LinesAreIntact'
        BY <1>3, <1>6, <2>1, <2>2 DEF LinesAreIntact
    <2>4. QED
        BY <1>1, <1>2, <1>6, <2>1, <2>3
<1>7. QED
    BY <1>5, <1>6 DEF AppendCycleResult

(* Every step keeps the file complete.                                     *)
LEMMA CompleteStep ==
    GovernorInv /\ CycleInv /\ RowsInv /\ CompleteInv /\ [Next]_vars => CompleteInv'
<1> SUFFICES ASSUME GovernorInv, CycleInv, RowsInv, CompleteInv, [Next]_vars
             PROVE  CompleteInv'
    OBVIOUS
<1>0. evalBenchmark \in 0 .. BenchmarkCount - 1 /\ BenchmarkCount \in Nat /\ cycleId \in Nat
    BY GovernorConstants DEF CycleInv, Benchmarks, RowsInv, RowTypes
<1>1. CASE WorkerStartEvaluation
    <2>1. /\ UNCHANGED <<rowVars, cycleId, control>>
          /\ worker # "none"
          /\ phase # "EVAL"
          /\ phase' = "EVAL"
          /\ evalBenchmark' = 0
          /\ evalBenchmark = 0
        BY <1>1 DEF WorkerStartEvaluation, fileVars, controlVars, GovernorInv,
           LifecycleInv, OptimizerInUse, EvaluationWithoutOptimizer, CompleteInv
    <2>2. LinesAreIntact'
        BY <2>1 DEF CompleteInv, LinesAreIntact, NewRows, MayBeBegun, rowVars
    <2>3. EvaluationsHaveRows'
        BY <1>0, <2>1 DEF CompleteInv, EvaluationsHaveRows, Evaluated, HasRow, NewRows,
           Benchmarks, rowVars
    <2>4. lineOpen' => MayBeBegun(cycleId, evalBenchmark)'
        BY <2>1 DEF CompleteInv, MayBeBegun, rowVars
    <2>5. QED
        BY <2>1, <2>2, <2>3, <2>4 DEF CompleteInv
<1>2. CASE WorkerFinishEval
    <2>1. /\ AppendCycleResult(EvalRow)
          /\ worker # "none"
          /\ cycleId' = cycleId
          /\ phase = "EVAL" /\ phase' = "EVAL"
          /\ evalBenchmark' = evalBenchmark + 1
        BY <1>2 DEF WorkerFinishEval
    <2>2. /\ firstCycle' = firstCycle
          /\ \A c \in 0 .. cycleId, b \in Benchmarks :
                Evaluated(c, b) \/ <<c, b>> = <<cycleId, evalBenchmark>>
                    => HasRow(c, b)' \/ <<c, b>> \in lost'
          /\ LinesAreIntact'
          /\ lineOpen' => <<cycleId, evalBenchmark>> \in lost'
        BY <2>1, RowWritten
    <2>3. \A c \in 0 .. cycleId, b \in Benchmarks :
              Evaluated(c, b)' => Evaluated(c, b) \/ <<c, b>> = <<cycleId, evalBenchmark>>
        BY <1>0, <2>1, <2>2 DEF Evaluated, Benchmarks
    <2>4. EvaluationsHaveRows'
        BY <2>1, <2>2, <2>3 DEF EvaluationsHaveRows
    <2>5. lineOpen' => MayBeBegun(cycleId, evalBenchmark)'
        BY <1>0, <2>1, <2>2 DEF MayBeBegun, Preceding
    <2>6. QED
        BY <2>1, <2>2, <2>4, <2>5 DEF CompleteInv
<1>3. CASE WorkerFinishCycle
    <2>1. /\ AppendCycleResult(EvalRow)
          /\ worker # "none"
          /\ cycleId' = cycleId + 1
          /\ phase = "EVAL" /\ phase' = "TRAIN"
          /\ evalBenchmark' = 0
          /\ evalBenchmark = BenchmarkCount - 1
        BY <1>0, <1>3 DEF WorkerFinishCycle, EnterTraining, LastEvalBenchmark
    <2>2. /\ firstCycle' = firstCycle
          /\ \A c \in 0 .. cycleId, b \in Benchmarks :
                Evaluated(c, b) \/ <<c, b>> = <<cycleId, evalBenchmark>>
                    => HasRow(c, b)' \/ <<c, b>> \in lost'
          /\ LinesAreIntact'
          /\ lineOpen' => <<cycleId, evalBenchmark>> \in lost'
        BY <2>1, RowWritten
    <2>3. \A c \in 0 .. cycleId', b \in Benchmarks :
              Evaluated(c, b)' => /\ c \in 0 .. cycleId
                                  /\ Evaluated(c, b) \/ <<c, b>> = <<cycleId, evalBenchmark>>
        BY <1>0, <2>1, <2>2 DEF Evaluated, Benchmarks
    <2>4. EvaluationsHaveRows'
        BY <2>1, <2>2, <2>3 DEF EvaluationsHaveRows
    <2>5. lineOpen' => MayBeBegun(cycleId, evalBenchmark)'
        BY <1>0, <2>1, <2>2 DEF MayBeBegun, Preceding
    <2>6. QED
        BY <2>1, <2>2, <2>4, <2>5 DEF CompleteInv
<1>4. CASE InitPolicy
    <2>1. /\ UNCHANGED rowVars
          /\ cycleId' = 0 /\ phase' = "TRAIN" /\ evalBenchmark' = 0
          /\ worker' = "none" /\ ~Starting'
        BY <1>4 DEF InitPolicy, fileVars, Starting, GovernorInv, LifecycleInv
    <2>2. LinesAreIntact'
        BY <2>1 DEF CompleteInv, LinesAreIntact, NewRows, MayBeBegun, rowVars
    <2>3. EvaluationsHaveRows'
        BY <2>1 DEF EvaluationsHaveRows, Evaluated
    <2>4. QED
        BY <2>1, <2>2, <2>3 DEF CompleteInv
<1>5. CASE Start
    <2>1. /\ oldRows' = Len(resultsFile')
          /\ Len(resultsFile') \in Nat
          /\ cycleId' = cycleId /\ firstCycle' = cycleId
          /\ phase' = "TRAIN" /\ evalBenchmark' = 0
        BY <1>5 DEF Start, PrepareResultsFile, EnterTraining, RowsInv, RowTypes
    <2>2. LinesAreIntact'
        BY <2>1 DEF LinesAreIntact, NewRows
    <2>3. EvaluationsHaveRows'
        BY <1>0, <2>1 DEF EvaluationsHaveRows, Evaluated
    <2>4. MayBeBegun(cycleId, evalBenchmark)'
        BY <2>1 DEF MayBeBegun
    <2>5. QED
        BY <2>1, <2>2, <2>3, <2>4 DEF CompleteInv
<1>6. CASE /\ UNCHANGED rowsSeen
           /\ worker' # "none" \/ Starting' => worker # "none" \/ Starting
    <2>1. LinesAreIntact'
        BY <1>6 DEF CompleteInv, LinesAreIntact, NewRows, MayBeBegun, rowsSeen
    <2>2. EvaluationsHaveRows'
        BY <1>6 DEF CompleteInv, EvaluationsHaveRows, Evaluated, HasRow, NewRows, rowsSeen
    <2>3. MayBeBegun(cycleId, evalBenchmark)' <=> MayBeBegun(cycleId, evalBenchmark)
        BY <1>6 DEF MayBeBegun, rowsSeen
    <2>4. QED
        BY <1>6, <2>1, <2>2, <2>3 DEF CompleteInv, rowsSeen
<1>7. QED
    BY <1>1, <1>2, <1>3, <1>4, <1>5, <1>6, OtherStepsKeepRows

(* The invariant of what the file has of the evaluations.                  *)
THEOREM CompleteInvariant == Spec => []CompleteInv
<1>1. Init => CompleteInv
    <2> SUFFICES ASSUME Init PROVE CompleteInv
        OBVIOUS
    <2>1. /\ resultsFile = <<>> /\ oldRows = 0 /\ ~lineOpen
          /\ cycleId = 0 /\ phase = "TRAIN" /\ evalBenchmark = 0
        BY DEF Init
    <2>2. EvaluationsHaveRows
        BY <2>1 DEF EvaluationsHaveRows, Evaluated
    <2>3. LinesAreIntact
        BY <2>1 DEF LinesAreIntact, NewRows
    <2>4. QED
        BY <2>1, <2>2, <2>3 DEF CompleteInv
<1>2. GovernorInv /\ CycleInv /\ RowsInv /\ CompleteInv /\ [Next]_vars => CompleteInv'
    BY CompleteStep
<1>3. QED
    BY <1>1, <1>2, GovernorInvariant, CycleInvariant, RowsInvariant, PTL DEF Spec

(* Whichever writes break off, and wherever in a line: the rows of one     *)
(* start are in order, an evaluation without a row is one whose own write  *)
(* failed, and only after a failed write does a row share its line.        *)
THEOREM RowsOrdered == Spec => []RowsAreComplete
<1>1. RowsInv /\ CompleteInv => RowsAreComplete
    BY DEF RowsInv, CompleteInv, RowsAreComplete
<1>2. QED
    BY <1>1, RowsInvariant, CompleteInvariant, PTL

-----------------------------------------------------------------------------
(* Types                                                                   *)

(* The Boolean variables, apart because Zenon proves their types and the   *)
(* SMT solver those of the others.                                         *)
FlagTypes ==
    /\ done \in BOOLEAN
    /\ gaInitialized \in BOOLEAN
    /\ pmuCreated \in BOOLEAN
    /\ workerStop \in BOOLEAN
    /\ lineOpen \in BOOLEAN

(* The variables whose types nothing above implies.                        *)
OtherTypes ==
    /\ activeParams \in Params
    /\ phase \in {"TRAIN", "EVAL"}
    /\ cycleId \in 0 .. MaxCycles
    /\ evalSamples \in 0 .. EvalSamples - 1
    /\ pid \in {None, "alive", "dead"}
    /\ forgotten \in Nat
    /\ governor \in {"none", "initialized", "started"}
    /\ control \in {"idle", "startExec", "startWorker", "joining", "joined"}
    /\ worker \in {"none", "wait", "apply", "select", "nextBenchmark", "ask",
                   "startEval", "exec", "predict", "exited"}
    /\ applied \in Params \cup {None}
    /\ savedParams \in Params \cup {None, "torn"}

(* The history variables.                                                  *)
HistoryTypes ==
    /\ firstCycle \in 0 .. MaxCycles
    /\ lost \subseteq (0 .. MaxCycles) \X Benchmarks
    /\ trained \subseteq Benchmarks
    /\ unstarted \subseteq Benchmarks

(* Flags stay Boolean.                                                     *)
LEMMA FlagStep == FlagTypes /\ [Next]_vars => FlagTypes'
<1> SUFFICES ASSUME FlagTypes, [Next]_vars PROVE FlagTypes'
    OBVIOUS
<1> USE DEF FlagTypes, Search!Restart, gaVars, paramVars, evalVars,
            processVars, rowVars, fileVars, controlVars, historyVars
<1>1. CASE WorkerWake
    BY <1>1, Zenon DEF WorkerWake
<1>2. CASE WorkerNoSample
    BY <1>2, Zenon DEF WorkerNoSample
<1>3. CASE WorkerNoOptimizer
    BY <1>3, Zenon DEF WorkerNoOptimizer
<1>4. CASE WorkerSelect
    BY <1>4, Zenon DEF WorkerSelect, CycleFinished, SelectBestParams,
        SelectedParams, SelectedMetric, BetterMetric
<1>5. CASE WorkerNextBenchmark
    BY <1>5, Zenon DEF WorkerNextBenchmark, KillCurrentProcess
<1>6. CASE WorkerAsk
    BY <1>6, Zenon DEF WorkerAsk, NextBenchmark, Search!Offer
<1>7. CASE WorkerStartEvaluation
    BY <1>7, Zenon DEF WorkerStartEvaluation, KillCurrentProcess, GaFree
<1>8. CASE WorkerEvalSample
    BY <1>8, Zenon DEF WorkerEvalSample
<1>9. CASE WorkerFinishEval
    BY <1>9, Zenon DEF WorkerFinishEval, KillCurrentProcess, AppendCycleResult,
        LastEvalBenchmark
<1>10. CASE WorkerFinishCycle
    BY <1>10, Zenon DEF WorkerFinishCycle, KillCurrentProcess,
        AppendCycleResult, EnterTraining, GaInit, GaFree,
        LastEvalBenchmark
<1>11. CASE WorkerExec
    BY <1>11, Zenon DEF WorkerExec, RunNewProcess, NotStarted, Forgotten,
        AfterBenchmarkStart
<1>12. CASE WorkerPredict
    BY <1>12, Zenon DEF WorkerPredict
<1>13. CASE StartExec
    BY <1>13, Zenon DEF StartExec, RunNewProcess, NotStarted, Forgotten, ProcessStarted
<1>14. CASE StartWorker
    BY <1>14, Zenon DEF StartWorker
<1>15. CASE StartWorkerFails
    BY <1>15, Zenon DEF StartWorkerFails, KillCurrentProcess, GaFree
<1>16. CASE StopJoin
    BY <1>16, Zenon DEF StopJoin, Joined
<1>17. CASE StopFinish
    BY <1>17, Zenon DEF StopFinish, KillCurrentProcess, SelectBestParams,
        SelectedParams, SelectedMetric, BetterMetric, SaveParamsHeader,
        GaFree
<1>18. CASE InitPolicy
    BY <1>18, Zenon DEF InitPolicy
<1>19. CASE Start
    BY <1>19, Zenon DEF Start, PrepareResultsFile, KillCurrentProcess,
        EnterTraining, GaInit, GaFree
<1>20. CASE Stop
    BY <1>20, Zenon DEF Stop
<1>21. CASE ExitPolicy
    BY <1>21, Zenon DEF ExitPolicy, KillCurrentProcess, GaFree
<1>22. CASE BenchmarkExits
    BY <1>22, Zenon DEF BenchmarkExits
<1>23. ASSUME NEW r \in Results, WorkerTell(r) PROVE FlagTypes'
    BY <1>23, Zenon DEF WorkerTell, Tuning, Search!Offer, Search!Told,
        Search!Improves
<1>24. ASSUME NEW r \in Results, WorkerConclude(r) PROVE FlagTypes'
    BY <1>24, Zenon DEF WorkerConclude, Tuning, Search!Conclude, Search!Told,
        Search!Improves
<1>25. CASE UNCHANGED vars
    BY <1>25, Zenon DEF vars
<1>26. QED
    BY <1>1, <1>2, <1>3, <1>4, <1>5, <1>6, <1>7, <1>8, <1>9, <1>10,
       <1>11, <1>12, <1>13, <1>14, <1>15, <1>16, <1>17, <1>18, <1>19,
       <1>20, <1>21, <1>22, <1>23, <1>24, <1>25, Zenon DEF Next, WorkerStep,
       ControlStep, CoreCalls

(* The other variables keep their types.                                   *)
LEMMA OtherStep ==
    CycleInv /\ ResultInv /\ OtherTypes /\ [Next]_vars => OtherTypes'
<1> SUFFICES ASSUME CycleInv, ResultInv, OtherTypes, [Next]_vars PROVE OtherTypes'
    OBVIOUS
<1> USE GovernorConstants
        DEF ResultInv, ResultTypes, CycleInv, OtherTypes, Benchmarks,
            Search!Pair, Search!Restart, gaVars, paramVars, evalVars,
            processVars, rowVars, fileVars, controlVars, historyVars
<1>1. CASE WorkerWake
    BY <1>1 DEF WorkerWake
<1>2. CASE WorkerNoSample
    BY <1>2 DEF WorkerNoSample
<1>3. CASE WorkerNoOptimizer
    BY <1>3 DEF WorkerNoOptimizer
<1>4. CASE WorkerSelect
    BY <1>4 DEF WorkerSelect, CycleFinished, SelectBestParams,
        SelectedParams, SelectedMetric, BetterMetric
<1>5. CASE WorkerNextBenchmark
    BY <1>5 DEF WorkerNextBenchmark, KillCurrentProcess
<1>6. CASE WorkerAsk
    BY <1>6 DEF WorkerAsk, NextBenchmark, Search!Offer
<1>7. CASE WorkerStartEvaluation
    BY <1>7 DEF WorkerStartEvaluation, KillCurrentProcess, GaFree
<1>8. CASE WorkerEvalSample
    BY <1>8 DEF WorkerEvalSample
<1>9. CASE WorkerFinishEval
    BY <1>9 DEF WorkerFinishEval, KillCurrentProcess, AppendCycleResult,
        LastEvalBenchmark
<1>10. CASE WorkerFinishCycle
    BY <1>10 DEF WorkerFinishCycle, KillCurrentProcess,
        AppendCycleResult, EnterTraining, GaInit, GaFree,
        LastEvalBenchmark
<1>11. CASE WorkerExec
    BY <1>11 DEF WorkerExec, RunNewProcess, NotStarted, Forgotten,
        AfterBenchmarkStart
<1>12. CASE WorkerPredict
    BY <1>12 DEF WorkerPredict
<1>13. CASE StartExec
    BY <1>13 DEF StartExec, RunNewProcess, NotStarted, Forgotten, ProcessStarted
<1>14. CASE StartWorker
    BY <1>14 DEF StartWorker
<1>15. CASE StartWorkerFails
    BY <1>15 DEF StartWorkerFails, KillCurrentProcess, GaFree
<1>16. CASE StopJoin
    BY <1>16 DEF StopJoin, Joined
<1>17. CASE StopFinish
    BY <1>17 DEF StopFinish, KillCurrentProcess, SelectBestParams,
        SelectedParams, SelectedMetric, BetterMetric, SaveParamsHeader,
        GaFree
<1>18. CASE InitPolicy
    BY <1>18 DEF InitPolicy
<1>19. CASE Start
    BY <1>19 DEF Start, PrepareResultsFile, KillCurrentProcess,
        EnterTraining, GaInit, GaFree
<1>20. CASE Stop
    BY <1>20 DEF Stop
<1>21. CASE ExitPolicy
    BY <1>21 DEF ExitPolicy, KillCurrentProcess, GaFree
<1>22. CASE BenchmarkExits
    BY <1>22 DEF BenchmarkExits
<1>23. ASSUME NEW r \in Results, WorkerTell(r) PROVE OtherTypes'
    BY <1>23 DEF WorkerTell, Tuning, Search!Offer, Search!Told,
        Search!Improves
<1>24. ASSUME NEW r \in Results, WorkerConclude(r) PROVE OtherTypes'
    BY <1>24 DEF WorkerConclude, Tuning, Search!Conclude, Search!Told,
        Search!Improves
<1>25. CASE UNCHANGED vars
    BY <1>25 DEF vars
<1>26. QED
    BY <1>1, <1>2, <1>3, <1>4, <1>5, <1>6, <1>7, <1>8, <1>9, <1>10,
       <1>11, <1>12, <1>13, <1>14, <1>15, <1>16, <1>17, <1>18, <1>19,
       <1>20, <1>21, <1>22, <1>23, <1>24, <1>25 DEF Next, WorkerStep,
       ControlStep, CoreCalls

(* So do the history variables.                                            *)
LEMMA HistoryStep ==
    CycleInv /\ OtherTypes /\ HistoryTypes /\ [Next]_vars => HistoryTypes'
<1> SUFFICES ASSUME CycleInv, OtherTypes, HistoryTypes, [Next]_vars PROVE HistoryTypes'
    OBVIOUS
<1> USE DEF HistoryTypes, gaVars, paramVars, evalVars, processVars, rowVars, fileVars,
            controlVars, historyVars
<1>1. /\ cycleId \in 0 .. MaxCycles
      /\ evalBenchmark \in Benchmarks
      /\ currentBenchmark \in Benchmarks
      /\ target \in Benchmarks
    BY DEF CycleInv, OtherTypes
<1>2. CASE WorkerExec \/ StartExec
    BY <1>1, <1>2, Zenon DEF WorkerExec, StartExec, RunNewProcess, NotStarted
<1>3. ASSUME NEW r \in Results, WorkerConclude(r) PROVE HistoryTypes'
    BY <1>1, <1>3, Zenon DEF WorkerConclude
<1>4. CASE WorkerFinishEval \/ WorkerFinishCycle
    <2>1. EvalRow.cycle = cycleId /\ EvalRow.benchmark = evalBenchmark
        BY DEF EvalRow
    <2>2. <<EvalRow.cycle, EvalRow.benchmark>> \in (0 .. MaxCycles) \X Benchmarks
        BY <1>1, <2>1
    <2>3. lost' = lost \/ lost' = lost \cup {<<EvalRow.cycle, EvalRow.benchmark>>}
        BY <1>4, Zenon DEF WorkerFinishEval, WorkerFinishCycle, AppendCycleResult
    <2>4. lost' \subseteq (0 .. MaxCycles) \X Benchmarks
        BY <2>2, <2>3, Zenon
    <2>5. /\ firstCycle' = firstCycle
          /\ trained' = trained \/ trained' = {}
          /\ unstarted' = unstarted \/ unstarted' = {}
        BY <1>4, Zenon DEF WorkerFinishEval, WorkerFinishCycle, AppendCycleResult,
           EnterTraining
    <2>6. QED
        BY <2>4, <2>5, Zenon
<1>5. CASE Start
    BY <1>1, <1>5, Zenon DEF Start, PrepareResultsFile, EnterTraining
<1>6. CASE UNCHANGED <<firstCycle, lost, trained, unstarted>>
    BY <1>6
<1>7. QED
    <2>1. CASE WorkerWake \/ WorkerNoSample \/ WorkerNoOptimizer \/ WorkerSelect
        BY <1>6, <2>1 DEF WorkerWake, WorkerNoSample, WorkerNoOptimizer, WorkerSelect
    <2>2. CASE WorkerNextBenchmark \/ WorkerAsk \/ WorkerStartEvaluation
        BY <1>6, <2>2 DEF WorkerNextBenchmark, WorkerAsk, WorkerStartEvaluation
    <2>3. CASE WorkerEvalSample \/ WorkerPredict \/ BenchmarkExits
        BY <1>6, <2>3 DEF WorkerEvalSample, WorkerPredict, BenchmarkExits
    <2>4. CASE StartWorker \/ StartWorkerFails \/ StopJoin \/ StopFinish
        BY <1>6, <2>4 DEF StartWorker, StartWorkerFails, StopJoin, StopFinish
    <2>5. CASE InitPolicy \/ Stop \/ ExitPolicy
        BY <1>6, <2>5 DEF InitPolicy, Stop, ExitPolicy
    <2>6. ASSUME NEW r \in Results, WorkerTell(r) PROVE HistoryTypes'
        BY <1>6, <2>6 DEF WorkerTell
    <2>7. CASE UNCHANGED vars
        BY <1>6, <2>7 DEF vars
    <2>8. QED
        BY <1>2, <1>3, <1>4, <1>5, <2>1, <2>2, <2>3, <2>4, <2>5, <2>6, <2>7, Zenon
        DEF Next, WorkerStep, ControlStep, CoreCalls

(* Flags are Boolean.                                                      *)
THEOREM FlagInvariant == Spec => []FlagTypes
<1>1. Init => FlagTypes
    BY GovernorConstants DEF Init, FlagTypes
<1>2. FlagTypes /\ [Next]_vars => FlagTypes'
    BY FlagStep
<1>3. QED
    BY <1>1, <1>2, PTL DEF Spec

(* The other variables have their types.                                   *)
THEOREM OtherInvariant == Spec => []OtherTypes
<1>1. Init => OtherTypes
    BY GovernorConstants DEF Init, OtherTypes
<1>2. CycleInv /\ ResultInv /\ OtherTypes /\ [Next]_vars => OtherTypes'
    BY OtherStep
<1>3. QED
    BY <1>1, <1>2, CycleInvariant, ResultInvariant, PTL DEF Spec

(* So have the history variables.                                          *)
THEOREM HistoryInvariant == Spec => []HistoryTypes
<1>1. Init => HistoryTypes
    BY GovernorConstants DEF Init, HistoryTypes, Benchmarks
<1>2. CycleInv /\ OtherTypes /\ HistoryTypes /\ [Next]_vars => HistoryTypes'
    BY HistoryStep
<1>3. QED
    BY <1>1, <1>2, CycleInvariant, OtherInvariant, PTL DEF Spec

(* The governor's variables have their types: no counter or benchmark id   *)
(* leaves its range.                                                       *)
THEOREM TrainTypeCorrect == Spec => []TypeOK
<1>1. CycleInv /\ ResultInv /\ RowsInv /\ FlagTypes /\ OtherTypes
          /\ HistoryTypes => TypeOK
    BY Zenon DEF TypeOK, CycleInv, ResultInv, ResultTypes, RowsInv, RowTypes, FlagTypes,
       OtherTypes, HistoryTypes
<1>2. QED
    BY <1>1, CycleInvariant, ResultInvariant, RowsInvariant, FlagInvariant,
       OtherInvariant, HistoryInvariant, PTL
=============================================================================
