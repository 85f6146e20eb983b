------------------------- MODULE InferenceGovernor -------------------------
(***************************************************************************)
(* The inference governor of src/inference.c on one cpufreq policy.  The   *)
(* cpufreq core calls init, start, limits, stop and exit one at a time;    *)
(* the worker thread reads the counters every PERIOD_MS, predicts a        *)
(* frequency and asks the driver for it.  Nothing keeps the core from      *)
(* moving policy->min and policy->max while the worker is between any two  *)
(* of these steps.                                                         *)
(*                                                                         *)
(* What the network predicts is any frequency; how it computes is in       *)
(* MlpForward, with whose parameters in MlpWeights.                        *)
(***************************************************************************)
EXTENDS Integers

CONSTANTS
    Freqs,      \* frequencies, in the driver's table or predicted
    MaxChanges, \* bound: changes of the policy's limits
    MaxStarts,  \* bound: times the governor is started
    None

ASSUME InferenceConstants ==
    /\ Freqs \subseteq Nat \ {0}
    /\ Freqs # {}
    /\ None \notin Freqs
    /\ MaxChanges \in Nat
    /\ MaxStarts \in Nat

VARIABLES
    \* cpufreq_policy
    min, max, cur,
    newMin,      \* None, or the minimum that follows the maximum just set
    \* freqmind_policy_t
    pmuCreated, workerStop,
    predicted,   \* predicted_frequency_khz
    \* the threads
    governor,    \* what the core made of the policy: "none", "ready", "started"
    control,     \* where the core is
    coreGoal,    \* the frequency freqmind_limits asks the driver to set
    worker,      \* where the worker thread is
    target,      \* what the worker asks the driver for, then what it sets
    \* history
    begun,       \* the worker's period began after the limits last changed
    settled,     \* such a period ended
    changes, starts

policyVars == <<min, max, cur, newMin>>
governorVars == <<pmuCreated, workerStop, predicted, governor>>
coreVars == <<control, coreGoal>>
workerVars == <<worker, target>>
history == <<begun, settled, changes, starts>>
vars == <<policyVars, governorVars, coreVars, workerVars, history>>

-----------------------------------------------------------------------------
(* __cpufreq_driver_target resolves the frequency first and sets it later. *)

Resolved(f) ==
    LET atLeast == IF f < min THEN min ELSE f
    IN  IF atLeast > max THEN max ELSE atLeast

(* cpufreq_set_policy: the limits change, one after the other, and then    *)
(* the governor is told.                                                   *)
ChangeMax ==
    /\ control = "idle"
    /\ changes < MaxChanges
    /\ \E lo, hi \in Freqs : lo <= hi /\ newMin' = lo /\ max' = hi
    /\ control' = "halfChanged"
    /\ changes' = changes + 1
    /\ begun' = FALSE /\ settled' = FALSE
    /\ UNCHANGED <<min, cur, governorVars, coreGoal, workerVars, starts>>

ChangeMin ==
    /\ control = "halfChanged"
    /\ min' = newMin
    /\ newMin' = None
    /\ control' = IF governor = "started" THEN "limits" ELSE "idle"
    /\ begun' = FALSE /\ settled' = FALSE
    /\ UNCHANGED <<max, cur, governorVars, coreGoal, workerVars, changes, starts>>

-----------------------------------------------------------------------------
(* freqmind_init_policy, freqmind_exit_policy                              *)

InitPolicy ==
    /\ governor = "none" /\ control = "idle"
    /\ starts < MaxStarts
    /\ governor' = "ready"
    /\ predicted' = cur
    /\ pmuCreated' = FALSE /\ workerStop' = FALSE
    /\ UNCHANGED <<policyVars, coreVars, workerVars, history>>

(* The core exits a policy only after stop or a start that failed.         *)
ExitPolicy ==
    /\ governor = "ready" /\ control = "idle"
    /\ governor' = "none"
    /\ UNCHANGED <<policyVars, pmuCreated, workerStop, predicted, coreVars, workerVars, history>>

-----------------------------------------------------------------------------
(* freqmind_start                                                          *)

CreateCounter ==
    /\ governor = "ready" /\ control = "idle"
    /\ starts < MaxStarts
    /\ starts' = starts + 1
    /\ \/ pmuCreated' = TRUE /\ control' = "spawn"
       \/ UNCHANGED <<pmuCreated, control>>
    /\ UNCHANGED <<policyVars, workerStop, predicted, governor, coreGoal, workerVars, begun,
                   settled, changes>>

(* The core calls limits when start succeeded.                             *)
SpawnWorker ==
    /\ control = "spawn"
    /\ workerStop' = FALSE
    /\ worker' = "asleep"
    /\ governor' = "started"
    /\ control' = "limits"
    /\ begun' = FALSE /\ settled' = FALSE
    /\ UNCHANGED <<policyVars, pmuCreated, predicted, coreGoal, target, changes, starts>>

SpawnFails ==
    /\ control = "spawn"
    /\ workerStop' = FALSE
    /\ pmuCreated' = FALSE
    /\ control' = "idle"
    /\ UNCHANGED <<policyVars, predicted, governor, coreGoal, workerVars, history>>

-----------------------------------------------------------------------------
(* freqmind_stop                                                           *)

StopWorker ==
    /\ governor = "started" /\ control = "idle"
    /\ workerStop' = TRUE
    /\ control' = "joining"
    /\ UNCHANGED <<policyVars, pmuCreated, predicted, governor, coreGoal, workerVars, history>>

(* Mutant: stop does not wait for the thread.                              *)
NotJoined == worker \in {"exited", "reads"}

(* kthread_stop returns                                                    *)
Joined == worker = "exited"

StopFrees ==
    /\ control = "joining"
    /\ Joined
    /\ worker' = IF worker = "exited" THEN "none" ELSE worker
    /\ pmuCreated' = FALSE
    /\ governor' = "ready"
    /\ control' = "idle"
    /\ UNCHANGED <<policyVars, workerStop, predicted, coreGoal, target, history>>

-----------------------------------------------------------------------------
(* freqmind_limits                                                         *)

Outside == cur < min \/ cur > max

Limits ==
    /\ control = "limits"
    /\ IF Outside THEN coreGoal' = Resolved(cur) /\ control' = "coreSets"
                  ELSE control' = "idle" /\ UNCHANGED coreGoal
    /\ UNCHANGED <<policyVars, governorVars, workerVars, history>>

CoreSets ==
    /\ control = "coreSets"
    /\ cur' = coreGoal
    /\ control' = "idle"
    /\ UNCHANGED <<min, max, newMin, governorVars, coreGoal, workerVars, history>>

-----------------------------------------------------------------------------
(* freqmind_thread                                                         *)

Wake ==
    /\ worker = "asleep"
    /\ worker' = IF workerStop THEN "exited" ELSE "reads"
    /\ begun' = TRUE
    /\ UNCHANGED <<policyVars, governorVars, coreVars, target, settled, changes, starts>>

(* Mutant: without counts the driver is left alone.                        *)
ReadFailsIdle ==
    /\ worker = "reads"
    /\ worker' = "asleep"
    /\ settled' = begun
    /\ UNCHANGED <<policyVars, governorVars, coreVars, target, begun, changes, starts>>

(* The counters cannot be read or no cycle was counted: policy->cur.       *)
ReadFails ==
    /\ worker = "reads"
    /\ target' = cur
    /\ worker' = "resolves"
    /\ UNCHANGED <<policyVars, governorVars, coreVars, history>>

(* freqmind_predict_freq, clamped to the limits of this moment             *)
Predict ==
    /\ worker = "reads"
    /\ \E f \in Freqs :
          predicted' = IF f < min THEN min ELSE IF f > max THEN max ELSE f
    /\ target' = predicted'
    /\ worker' = "resolves"
    /\ UNCHANGED <<policyVars, pmuCreated, workerStop, governor, coreVars, history>>

Resolve ==
    /\ worker = "resolves"
    /\ target' = Resolved(target)
    /\ worker' = "sets"
    /\ UNCHANGED <<policyVars, governorVars, coreVars, history>>

WorkerSets ==
    /\ worker = "sets"
    /\ cur' = target
    /\ worker' = "asleep"
    /\ settled' = (settled \/ begun)
    /\ UNCHANGED <<min, max, newMin, governorVars, coreVars, target, begun, changes, starts>>

-----------------------------------------------------------------------------
Init ==
    /\ min \in Freqs /\ max \in Freqs /\ min <= max
    /\ cur \in Freqs
    /\ newMin = None
    /\ pmuCreated = FALSE /\ workerStop = FALSE /\ predicted = cur
    /\ governor = "none" /\ control = "idle" /\ coreGoal = cur
    /\ worker = "none" /\ target = cur
    /\ begun = FALSE /\ settled = FALSE
    /\ changes = 0 /\ starts = 0

CoreStep ==
    \/ ChangeMin \/ SpawnWorker \/ SpawnFails \/ StopFrees \/ Limits \/ CoreSets

WorkerStep == Wake \/ ReadFails \/ Predict \/ Resolve \/ WorkerSets

Next ==
    \/ ChangeMax \/ InitPolicy \/ ExitPolicy \/ CreateCounter \/ StopWorker
    \/ CoreStep \/ WorkerStep

Spec == Init /\ [][Next]_vars

(* The core finishes the call it is in, and the thread is scheduled: its   *)
(* wait ends after PERIOD_MS at the latest.                                *)
FairSpec == Spec /\ WF_vars(CoreStep) /\ WF_vars(WorkerStep)

-----------------------------------------------------------------------------
(* Properties                                                              *)

TypeOK ==
    /\ min \in Freqs /\ max \in Freqs /\ cur \in Freqs
    /\ newMin \in Freqs \cup {None}
    /\ pmuCreated \in BOOLEAN /\ workerStop \in BOOLEAN
    /\ predicted \in Freqs /\ coreGoal \in Freqs /\ target \in Freqs
    /\ governor \in {"none", "ready", "started"}
    /\ control \in {"idle", "halfChanged", "limits", "coreSets", "spawn", "joining"}
    /\ worker \in {"none", "asleep", "reads", "resolves", "sets", "exited"}
    /\ begun \in BOOLEAN /\ settled \in BOOLEAN
    /\ changes \in 0 .. MaxChanges /\ starts \in 0 .. MaxStarts

(* While the worker may take a step, its counters exist; and the policy's  *)
(* memory, which exit frees, does too.  Once the core is done with stop or *)
(* a start that failed, neither thread nor counters are left.              *)
WorkerKeepsItsResources ==
    /\ worker \notin {"none", "exited"} => pmuCreated /\ governor = "started"
    /\ governor # "started" /\ control = "idle" => worker = "none" /\ ~pmuCreated

(* The worker and the core set the frequency without excluding each other, *)
(* so that one of them may undo what the other corrected.  Still the       *)
(* frequency is within the limits once a period of the worker has passed   *)
(* that began after the limits changed, and it stays there until they      *)
(* change again, whether or not the counters could be read.                *)
LimitsHoldAfterOnePeriod ==
    settled /\ control \in {"idle", "joining"} => ~Outside

(* freqmind_stop returns.                                                  *)
StopCompletes == control = "joining" ~> control = "idle"

(* Changed limits take effect, unless they change again or the governor is *)
(* stopped.                                                                *)
LimitsTakeEffect ==
    governor = "started" /\ control = "limits"
        ~> (settled /\ ~Outside) \/ control \in {"halfChanged", "joining"}

(* Neither the core's stop nor its limits wait for ever.                   *)
GovernorGoesOn == StopCompletes /\ LimitsTakeEffect
=============================================================================
