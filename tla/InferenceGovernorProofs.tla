---------------------- MODULE InferenceGovernorProofs ----------------------
(***************************************************************************)
(* Proofs about the inference governor, for any frequencies and any number *)
(* of starts and of changes of the limits.  Two strengthenings are needed. *)
(* Resources says, for every place the core can be in, which of thread and *)
(* counters exist.  LimitsInv follows the limits through the two races of  *)
(* __cpufreq_driver_target: whatever was resolved since the last change    *)
(* and is still to be set lies within them.                                *)
(***************************************************************************)
EXTENDS InferenceGovernor, TLAPS

Within(f) == min <= f /\ f <= max

Resources ==
    /\ governor # "started" =>
          /\ worker = "none"
          /\ control \in {"idle", "halfChanged", "spawn"}
          /\ pmuCreated <=> control = "spawn"
    /\ governor = "started" =>
          pmuCreated /\ worker # "none" /\ control # "spawn"

LimitsInv ==
    /\ IF control = "halfChanged" THEN newMin \in Freqs /\ newMin <= max ELSE min <= max
    /\ control = "coreSets" => Within(coreGoal)
    /\ settled => begun
    /\ control # "halfChanged" /\ begun /\ worker = "sets" => Within(target)
    /\ control # "halfChanged" /\ settled => Within(cur)

IInv == TypeOK /\ Resources /\ LimitsInv

LEMMA InitInv == Init => IInv
  <1> SUFFICES ASSUME Init PROVE IInv
    OBVIOUS
  <1>1. 0 \in 0 .. MaxChanges /\ 0 \in 0 .. MaxStarts
    BY InferenceConstants
  <1>2. TypeOK
    BY <1>1 DEF Init, TypeOK
  <1> QED
    BY <1>2 DEF Init, IInv, Resources, LimitsInv

(* What the driver core resolves is a frequency of the policy, and within  *)
(* the limits once both of them are in place.                              *)
LEMMA ResolvedFreq ==
  ASSUME TypeOK, NEW f \in Freqs
  PROVE  /\ Resolved(f) \in Freqs
         /\ min <= max => Within(Resolved(f))
  BY InferenceConstants DEF TypeOK, Resolved, Within

(* Every step keeps the types: frequencies stay those of the policy.       *)
LEMMA TypeStep == IInv /\ [Next]_vars => TypeOK'
  <1> SUFFICES ASSUME IInv, [Next]_vars PROVE TypeOK'
    OBVIOUS
  <1> USE InferenceConstants
     DEF IInv, TypeOK, policyVars, governorVars, coreVars, workerVars, history
  <1>1. ASSUME ChangeMax PROVE TypeOK'
    <2>1. changes \in Nat /\ changes < MaxChanges
      BY <1>1 DEF ChangeMax
    <2>2. changes + 1 \in 0 .. MaxChanges
      BY <2>1
    <2> QED
      BY <1>1, <2>2 DEF ChangeMax
  <1>2. ASSUME ChangeMin PROVE TypeOK'
    BY <1>2 DEF ChangeMin, LimitsInv
  <1>3. ASSUME InitPolicy PROVE TypeOK'
    BY <1>3 DEF InitPolicy
  <1>4. ASSUME ExitPolicy PROVE TypeOK'
    BY <1>4 DEF ExitPolicy
  <1>5. ASSUME CreateCounter PROVE TypeOK'
    <2>1. starts \in Nat /\ starts < MaxStarts
      BY <1>5 DEF CreateCounter
    <2>2. starts + 1 \in 0 .. MaxStarts
      BY <2>1
    <2> QED
      BY <1>5, <2>2 DEF CreateCounter
  <1>6. ASSUME SpawnWorker PROVE TypeOK'
    BY <1>6 DEF SpawnWorker
  <1>7. ASSUME SpawnFails PROVE TypeOK'
    BY <1>7 DEF SpawnFails
  <1>8. ASSUME StopWorker PROVE TypeOK'
    BY <1>8 DEF StopWorker
  <1>9. ASSUME StopFrees PROVE TypeOK'
    BY <1>9 DEF StopFrees
  <1>10. ASSUME Limits PROVE TypeOK'
    BY <1>10, ResolvedFreq DEF Limits
  <1>11. ASSUME CoreSets PROVE TypeOK'
    BY <1>11 DEF CoreSets
  <1>12. ASSUME Wake PROVE TypeOK'
    BY <1>12 DEF Wake
  <1>13. ASSUME ReadFails PROVE TypeOK'
    BY <1>13 DEF ReadFails
  <1>14. ASSUME Predict PROVE TypeOK'
    BY <1>14 DEF Predict
  <1>15. ASSUME Resolve PROVE TypeOK'
    BY <1>15, ResolvedFreq DEF Resolve
  <1>16. ASSUME WorkerSets PROVE TypeOK'
    BY <1>16 DEF WorkerSets
  <1>17. ASSUME UNCHANGED vars PROVE TypeOK'
    BY <1>17 DEF vars
  <1> QED
    BY <1>1, <1>2, <1>3, <1>4, <1>5, <1>6, <1>7, <1>8, <1>9, <1>10, <1>11,
       <1>12, <1>13, <1>14, <1>15, <1>16, <1>17
       DEF Next, CoreStep, WorkerStep

(* Threads and counters come and go only where the core is done with them. *)
LEMMA ResourcesStep == IInv /\ [Next]_vars => Resources'
  <1> SUFFICES ASSUME IInv, [Next]_vars PROVE Resources'
    OBVIOUS
  <1> USE InferenceConstants
     DEF IInv, TypeOK, policyVars, governorVars, coreVars, workerVars, history
  <1>1. ASSUME ChangeMax PROVE Resources'
    BY <1>1 DEF ChangeMax, Resources
  <1>2. ASSUME ChangeMin PROVE Resources'
    BY <1>2 DEF ChangeMin, Resources
  <1>3. ASSUME InitPolicy PROVE Resources'
    BY <1>3 DEF InitPolicy, Resources
  <1>4. ASSUME ExitPolicy PROVE Resources'
    BY <1>4 DEF ExitPolicy, Resources
  <1>5. ASSUME CreateCounter PROVE Resources'
    BY <1>5 DEF CreateCounter, Resources
  <1>6. ASSUME SpawnWorker PROVE Resources'
    BY <1>6 DEF SpawnWorker, Resources
  <1>7. ASSUME SpawnFails PROVE Resources'
    BY <1>7 DEF SpawnFails, Resources
  <1>8. ASSUME StopWorker PROVE Resources'
    BY <1>8 DEF StopWorker, Resources
  <1>9. ASSUME StopFrees PROVE Resources'
    BY <1>9 DEF StopFrees, Resources, Joined
  <1>10. ASSUME Limits PROVE Resources'
    BY <1>10 DEF Limits, Resources
  <1>11. ASSUME CoreSets PROVE Resources'
    BY <1>11 DEF CoreSets, Resources
  <1>12. ASSUME Wake PROVE Resources'
    BY <1>12 DEF Wake, Resources
  <1>13. ASSUME ReadFails PROVE Resources'
    BY <1>13 DEF ReadFails, Resources
  <1>14. ASSUME Predict PROVE Resources'
    BY <1>14 DEF Predict, Resources
  <1>15. ASSUME Resolve PROVE Resources'
    BY <1>15 DEF Resolve, Resources
  <1>16. ASSUME WorkerSets PROVE Resources'
    BY <1>16 DEF WorkerSets, Resources
  <1>17. ASSUME UNCHANGED vars PROVE Resources'
    BY <1>17 DEF vars, Resources
  <1> QED
    BY <1>1, <1>2, <1>3, <1>4, <1>5, <1>6, <1>7, <1>8, <1>9, <1>10, <1>11,
       <1>12, <1>13, <1>14, <1>15, <1>16, <1>17
       DEF Next, CoreStep, WorkerStep

(* Nothing that was resolved for old limits is set after a new period.     *)
LEMMA LimitsStep == IInv /\ [Next]_vars => LimitsInv'
  <1> SUFFICES ASSUME IInv, [Next]_vars PROVE LimitsInv'
    OBVIOUS
  <1> USE InferenceConstants
     DEF IInv, TypeOK, policyVars, governorVars, coreVars, workerVars, history
  <1>1. ASSUME ChangeMax PROVE LimitsInv'
    BY <1>1 DEF ChangeMax, LimitsInv, Within
  <1>2. ASSUME ChangeMin PROVE LimitsInv'
    BY <1>2 DEF ChangeMin, LimitsInv, Within
  <1>3. ASSUME InitPolicy PROVE LimitsInv'
    BY <1>3 DEF InitPolicy, LimitsInv, Within
  <1>4. ASSUME ExitPolicy PROVE LimitsInv'
    BY <1>4 DEF ExitPolicy, LimitsInv, Within
  <1>5. ASSUME CreateCounter PROVE LimitsInv'
    BY <1>5 DEF CreateCounter, LimitsInv, Within
  <1>6. ASSUME SpawnWorker PROVE LimitsInv'
    BY <1>6 DEF SpawnWorker, LimitsInv, Within, Resources
  <1>7. ASSUME SpawnFails PROVE LimitsInv'
    BY <1>7 DEF SpawnFails, LimitsInv, Within
  <1>8. ASSUME StopWorker PROVE LimitsInv'
    BY <1>8 DEF StopWorker, LimitsInv, Within
  <1>9. ASSUME StopFrees PROVE LimitsInv'
    BY <1>9 DEF StopFrees, LimitsInv, Within
  <1>10. ASSUME Limits PROVE LimitsInv'
    BY <1>10, ResolvedFreq DEF Limits, LimitsInv, Within, Outside
  <1>11. ASSUME CoreSets PROVE LimitsInv'
    BY <1>11 DEF CoreSets, LimitsInv, Within
  <1>12. ASSUME Wake PROVE LimitsInv'
    BY <1>12 DEF Wake, LimitsInv, Within
  <1>13. ASSUME ReadFails PROVE LimitsInv'
    BY <1>13 DEF ReadFails, LimitsInv, Within
  <1>14. ASSUME Predict PROVE LimitsInv'
    BY <1>14 DEF Predict, LimitsInv, Within
  <1>15. ASSUME Resolve PROVE LimitsInv'
    BY <1>15, ResolvedFreq DEF Resolve, LimitsInv, Within
  <1>16. ASSUME WorkerSets PROVE LimitsInv'
    BY <1>16 DEF WorkerSets, LimitsInv, Within
  <1>17. ASSUME UNCHANGED vars PROVE LimitsInv'
    BY <1>17 DEF vars, LimitsInv, Within
  <1> QED
    BY <1>1, <1>2, <1>3, <1>4, <1>5, <1>6, <1>7, <1>8, <1>9, <1>10, <1>11,
       <1>12, <1>13, <1>14, <1>15, <1>16, <1>17
       DEF Next, CoreStep, WorkerStep

LEMMA Invariance == Spec => []IInv
  <1>1. IInv /\ [Next]_vars => IInv'
    BY TypeStep, ResourcesStep, LimitsStep DEF IInv
  <1> QED
    BY <1>1, InitInv, PTL DEF Spec

(* Types of the governor's state, for every table of frequencies.          *)
THEOREM TypeCorrect == Spec => []TypeOK
  <1>1. IInv => TypeOK
    BY DEF IInv
  <1> QED
    BY <1>1, Invariance, PTL

(* The worker never outlives what it uses, and stop and a failed start     *)
(* leave nothing behind.                                                   *)
THEOREM ResourcesKept == Spec => []WorkerKeepsItsResources
  <1>1. IInv => WorkerKeepsItsResources
    BY DEF IInv, TypeOK, Resources, WorkerKeepsItsResources
  <1> QED
    BY <1>1, Invariance, PTL

(* Whatever the core and the worker do to each other's settings, one whole *)
(* period after a change the frequency is within the limits.               *)
THEOREM LimitsHold == Spec => []LimitsHoldAfterOnePeriod
  <1>1. IInv => LimitsHoldAfterOnePeriod
    BY InferenceConstants
       DEF IInv, TypeOK, LimitsInv, Within, Outside, LimitsHoldAfterOnePeriod
  <1> QED
    BY <1>1, Invariance, PTL
=============================================================================
