----------------------------- MODULE MlpWeights -----------------------------
(***************************************************************************)
(* The weights of the network are one array, perf_mlp_params, for all the  *)
(* policies of a module, and every policy predicts with parameters of its  *)
(* own: freqmind_predict_freq copies active_mlp_params of its policy over  *)
(* the array, weight by weight, and runs the network, under                *)
(* freqmind_mlp_lock.  This module models the threads of several policies  *)
(* in that section, of the training governor and of the inference governor *)
(* alike.  What the network computes from its weights is MlpForward.       *)
(***************************************************************************)
EXTENDS Integers

CONSTANTS
    Policies,  \* policies whose governor runs
    Count,     \* PERF_MLP_PARAM_COUNT
    Values,    \* values of a weight
    None

Weights == 1 .. Count
Params == [Weights -> Values]

ASSUME WeightsConstants ==
    /\ Count \in Nat \ {0}
    /\ None \notin Policies

VARIABLES
    weights,  \* perf_mlp_params
    active,   \* active_mlp_params of each policy
    owner,    \* the policy whose thread holds freqmind_mlp_lock, or None
    pc,       \* where the thread of each policy is in freqmind_predict_freq
    index,    \* the weight it copies or uses next
    used      \* the weights its run of the network has read

vars == <<weights, active, owner, pc, index, used>>

-----------------------------------------------------------------------------
(* Between two predictions the thread, or init_policy before it exists,    *)
(* takes other parameters: those the optimizer offers, the best ones, the  *)
(* pretrained or the tuned ones.                                           *)
CopyParams(p) ==
    /\ pc[p] = "outside"
    /\ \E params \in Params : active' = [active EXCEPT ![p] = params]
    /\ UNCHANGED <<weights, owner, pc, index, used>>

(* Mutants: the lock is not waited for; it is not given back.              *)
AcquireAnyway(p) == owner' = p
Forget == UNCHANGED owner

(* mutex_lock, mutex_unlock                                                *)
Acquire(p) ==
    /\ owner = None
    /\ owner' = p

Release == owner' = None

EnterPredict(p) ==
    /\ pc[p] = "outside"
    /\ Acquire(p)
    /\ pc' = [pc EXCEPT ![p] = "set"]
    /\ index' = [index EXCEPT ![p] = 1]
    /\ UNCHANGED <<weights, active, used>>

AtLast(p) == index[p] = Count

(* One iteration of perf_mlp_set_params                                    *)
SetParam(p) ==
    /\ pc[p] = "set"
    /\ weights' = [weights EXCEPT ![index[p]] = active[p][index[p]]]
    /\ pc' = [pc EXCEPT ![p] = IF AtLast(p) THEN "predict" ELSE "set"]
    /\ index' = [index EXCEPT ![p] = IF AtLast(p) THEN 1 ELSE index[p] + 1]
    /\ UNCHANGED <<active, owner, used>>

(* perf_mlp_predict reads each weight once.                                *)
UseParam(p) ==
    /\ pc[p] = "predict"
    /\ used' = [used EXCEPT ![p] = [@ EXCEPT ![index[p]] = weights[index[p]]]]
    /\ pc' = [pc EXCEPT ![p] = IF AtLast(p) THEN "done" ELSE "predict"]
    /\ index' = [index EXCEPT ![p] = IF AtLast(p) THEN 1 ELSE index[p] + 1]
    /\ UNCHANGED <<weights, active, owner>>

LeavePredict(p) ==
    /\ pc[p] = "done"
    /\ Release
    /\ pc' = [pc EXCEPT ![p] = "outside"]
    /\ UNCHANGED <<weights, active, index, used>>

Init ==
    /\ weights \in Params
    /\ active \in [Policies -> Params]
    /\ owner = None
    /\ pc = [p \in Policies |-> "outside"]
    /\ index = [p \in Policies |-> 1]
    /\ used = active

Predict(p) ==
    EnterPredict(p) \/ SetParam(p) \/ UseParam(p) \/ LeavePredict(p)

Next == \E p \in Policies : CopyParams(p) \/ Predict(p)

Spec == Init /\ [][Next]_vars

(* Threads inside go on, and a waiter of the mutex is not passed for ever: *)
(* Linux hands a mutex over to a waiter that has waited too long.          *)
Fairness ==
    \A p \in Policies :
        /\ WF_vars(SetParam(p) \/ UseParam(p) \/ LeavePredict(p))
        /\ SF_vars(EnterPredict(p))

FairSpec == Spec /\ Fairness

-----------------------------------------------------------------------------
(* Properties                                                              *)

(* The state has its type: in particular the loops over the parameters     *)
(* stay inside the array.                                                  *)
TypeOK ==
    /\ weights \in Params
    /\ active \in [Policies -> Params]
    /\ owner \in Policies \cup {None}
    /\ pc \in [Policies -> {"outside", "set", "predict", "done"}]
    /\ index \in [Policies -> Weights]
    /\ used \in [Policies -> Params]

(* A prediction of freqmind_predict_freq is the network's answer with the  *)
(* parameters of its own policy, every one of them, whatever other         *)
(* policies do to the shared weights meanwhile: the result credited to a   *)
(* candidate of the optimizer is the candidate's.                          *)
PredictionUsesOwnParams ==
    \A p \in Policies : pc[p] = "done" => used[p] = active[p]

(* Every policy that keeps sampling completes predictions: the lock is     *)
(* given back on every path, and no policy starves another.                *)
EveryPolicyPredicts ==
    \A p \in Policies : []<>(pc[p] = "done")
=============================================================================
