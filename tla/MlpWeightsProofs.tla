-------------------------- MODULE MlpWeightsProofs --------------------------
(***************************************************************************)
(* Proofs about the shared weights: for any number of policies and any     *)
(* network size, a prediction uses the parameters of its own policy.  The  *)
(* invariant says who is inside (the owner of the lock, and nobody else)   *)
(* and how far its loops have come.                                        *)
(***************************************************************************)
EXTENDS MlpWeights, TLAPS

OwnerIsInside ==
    \A p \in Policies : pc[p] # "outside" => owner = p

SetSoFar ==
    \A p \in Policies : pc[p] = "set" =>
        \A k \in Weights : k < index[p] => weights[k] = active[p][k]

UsedSoFar ==
    \A p \in Policies : pc[p] = "predict" =>
        /\ \A k \in Weights : weights[k] = active[p][k]
        /\ \A k \in Weights : k < index[p] => used[p][k] = active[p][k]

UsedAll ==
    \A p \in Policies : pc[p] = "done" =>
        \A k \in Weights : used[p][k] = active[p][k]

IInv == TypeOK /\ OwnerIsInside /\ SetSoFar /\ UsedSoFar /\ UsedAll

(* The initial states: nobody is inside.                                   *)
LEMMA InitInv == Init => IInv
  <1> SUFFICES ASSUME Init PROVE IInv
    OBVIOUS
  <1>1. 1 \in Weights
    BY WeightsConstants DEF Weights
  <1>2. TypeOK
    BY <1>1 DEF Init, TypeOK
  <1>3. \A p \in Policies : pc[p] = "outside"
    BY DEF Init
  <1> QED
    BY <1>2, <1>3 DEF IInv, OwnerIsInside, SetSoFar, UsedSoFar, UsedAll

(* Every loop runs over the array and stays inside it.                     *)
LEMMA TypeStep == TypeOK /\ [Next]_vars => TypeOK'
  <1> SUFFICES ASSUME TypeOK, [Next]_vars PROVE TypeOK'
    OBVIOUS
  <1> USE DEF TypeOK
  <1>1. ASSUME NEW p \in Policies, CopyParams(p) PROVE TypeOK'
    BY <1>1 DEF CopyParams
  <1>2. ASSUME NEW p \in Policies, EnterPredict(p) PROVE TypeOK'
    <2>1. 1 \in Weights
      BY WeightsConstants DEF Weights
    <2> QED
      BY <1>2, <2>1 DEF EnterPredict, Acquire
  <1>3. ASSUME NEW p \in Policies, index[p] # Count PROVE index[p] + 1 \in Weights
    BY <1>3, WeightsConstants DEF Weights
  <1>4. 1 \in Weights
    BY WeightsConstants DEF Weights
  <1>5. ASSUME NEW p \in Policies, SetParam(p) PROVE TypeOK'
    <2>1. active[p][index[p]] \in Values
      BY DEF Params
    <2>2. weights' \in Params
      BY <1>5, <2>1 DEF SetParam, Params
    <2>3. index' \in [Policies -> Weights]
      BY <1>5, <1>3, <1>4 DEF SetParam, AtLast
    <2> QED
      BY <1>5, <2>2, <2>3 DEF SetParam
  <1>6. ASSUME NEW p \in Policies, UseParam(p) PROVE TypeOK'
    <2>1. weights[index[p]] \in Values
      BY DEF Params
    <2>2. [used[p] EXCEPT ![index[p]] = weights[index[p]]] \in Params
      BY <2>1 DEF Params
    <2>3. used' \in [Policies -> Params]
      BY <1>6, <2>2 DEF UseParam
    <2>4. index' \in [Policies -> Weights]
      BY <1>6, <1>3, <1>4 DEF UseParam, AtLast
    <2> QED
      BY <1>6, <2>3, <2>4 DEF UseParam
  <1>7. ASSUME NEW p \in Policies, LeavePredict(p) PROVE TypeOK'
    BY <1>7 DEF LeavePredict, Release
  <1>8. CASE UNCHANGED vars
    BY <1>8 DEF vars
  <1> QED
    BY <1>1, <1>2, <1>5, <1>6, <1>7, <1>8 DEF Next, Predict

(* The whole invariant is kept by every step of every policy.              *)
LEMMA InvStep == IInv /\ [Next]_vars => IInv'
  <1> SUFFICES ASSUME IInv, [Next]_vars PROVE IInv'
    OBVIOUS
  <1>1. TypeOK /\ TypeOK'
    BY TypeStep DEF IInv
  <1> USE <1>1 DEF TypeOK
  <1> DEFINE Rest == OwnerIsInside /\ SetSoFar /\ UsedSoFar /\ UsedAll
  <1>2. Rest
    BY DEF IInv
  <1>3. ASSUME NEW p \in Policies, CopyParams(p) PROVE Rest'
    <2>1. \A q \in Policies : pc[q] # "outside" => active'[q] = active[q]
      BY <1>3 DEF CopyParams
    <2> QED
      BY <1>2, <1>3, <2>1
         DEF CopyParams, OwnerIsInside, SetSoFar, UsedSoFar, UsedAll
  <1>4. ASSUME NEW p \in Policies, EnterPredict(p) PROVE Rest'
    <2>1. \A q \in Policies : pc[q] = "outside"
      BY <1>2, <1>4, WeightsConstants DEF EnterPredict, Acquire, OwnerIsInside
    <2>2. \A q \in Policies : q # p => pc'[q] = "outside"
      BY <1>4, <2>1 DEF EnterPredict
    <2>3. pc'[p] = "set" /\ index'[p] = 1 /\ owner' = p
      BY <1>4 DEF EnterPredict, Acquire
    <2>4. \A k \in Weights : ~(k < 1)
      BY DEF Weights
    <2> QED
      BY <2>2, <2>3, <2>4 DEF OwnerIsInside, SetSoFar, UsedSoFar, UsedAll
  <1>5. ASSUME NEW p \in Policies, pc[p] # "outside", NEW q \in Policies, q # p
        PROVE  pc[q] = "outside"
    BY <1>2, <1>5 DEF OwnerIsInside
  <1>6. ASSUME NEW p \in Policies, SetParam(p) PROVE Rest'
    <2>1. \A q \in Policies : q # p => pc'[q] = "outside"
      BY <1>5, <1>6 DEF SetParam
    <2>2. owner' = p
      BY <1>2, <1>6 DEF SetParam, OwnerIsInside
    <2>3. \A k \in Weights : k =< index[p] => weights'[k] = active'[p][k]
      BY <1>2, <1>6 DEF SetParam, SetSoFar, Weights, Params
    <2>4. CASE AtLast(p)
      <3>1. pc'[p] = "predict" /\ index'[p] = 1
        BY <1>6, <2>4 DEF SetParam
      <3>2. \A k \in Weights : k =< index[p] /\ ~(k < 1)
        BY <2>4 DEF AtLast, Weights
      <3> QED
        BY <2>1, <2>2, <2>3, <3>1, <3>2
           DEF OwnerIsInside, SetSoFar, UsedSoFar, UsedAll
    <2>5. CASE ~AtLast(p)
      <3>1. pc'[p] = "set" /\ index'[p] = index[p] + 1
        BY <1>6, <2>5 DEF SetParam
      <3>2. \A k \in Weights : k < index[p] + 1 => k =< index[p]
        BY DEF Weights
      <3> QED
        BY <2>1, <2>2, <2>3, <3>1, <3>2
           DEF OwnerIsInside, SetSoFar, UsedSoFar, UsedAll
    <2> QED
      BY <2>4, <2>5
  <1>7. ASSUME NEW p \in Policies, UseParam(p) PROVE Rest'
    <2>1. \A q \in Policies : q # p => pc'[q] = "outside"
      BY <1>5, <1>7 DEF UseParam
    <2>2. owner' = p
      BY <1>2, <1>7 DEF UseParam, OwnerIsInside
    <2>3. \A k \in Weights : weights'[k] = active'[p][k]
      BY <1>2, <1>7 DEF UseParam, UsedSoFar
    <2>4. \A k \in Weights : k =< index[p] => used'[p][k] = active'[p][k]
      <3>1. used'[p] = [used[p] EXCEPT ![index[p]] = weights[index[p]]]
        BY <1>7 DEF UseParam
      <3>2. used[p] \in [Weights -> Values]
        BY DEF Params
      <3>3. \A k \in Weights :
              used'[p][k] = IF k = index[p] THEN weights[k] ELSE used[p][k]
        BY <3>1, <3>2
      <3>4. active' = active
        BY <1>7 DEF UseParam
      <3>5. \A k \in Weights : weights[k] = active[p][k]
        BY <1>2, <1>7 DEF UseParam, UsedSoFar
      <3>6. \A k \in Weights : k < index[p] => used[p][k] = active[p][k]
        BY <1>2, <1>7 DEF UseParam, UsedSoFar
      <3>7. index[p] \in Weights
        OBVIOUS
      <3> HIDE DEF TypeOK
      <3>8. \A k \in Weights : k =< index[p] => k < index[p] \/ k = index[p]
        BY <3>7 DEF Weights
      <3> QED
        BY <3>3, <3>4, <3>5, <3>6, <3>8
    <2>5. CASE AtLast(p)
      <3>1. pc'[p] = "done"
        BY <1>7, <2>5 DEF UseParam
      <3>2. \A k \in Weights : k =< index[p]
        BY <2>5 DEF AtLast, Weights
      <3> QED
        BY <2>1, <2>2, <2>4, <3>1, <3>2
           DEF OwnerIsInside, SetSoFar, UsedSoFar, UsedAll
    <2>6. CASE ~AtLast(p)
      <3>1. pc'[p] = "predict" /\ index'[p] = index[p] + 1
        BY <1>7, <2>6 DEF UseParam
      <3>2. \A k \in Weights : k < index[p] + 1 => k =< index[p]
        BY DEF Weights
      <3> QED
        BY <2>1, <2>2, <2>3, <2>4, <3>1, <3>2
           DEF OwnerIsInside, SetSoFar, UsedSoFar, UsedAll
    <2> QED
      BY <2>5, <2>6
  <1>8. ASSUME NEW p \in Policies, LeavePredict(p) PROVE Rest'
    <2>1. \A q \in Policies : pc'[q] = "outside"
      BY <1>5, <1>8 DEF LeavePredict
    <2> QED
      BY <2>1 DEF OwnerIsInside, SetSoFar, UsedSoFar, UsedAll
  <1>9. ASSUME UNCHANGED vars PROVE Rest'
    BY <1>2, <1>9 DEF vars, OwnerIsInside, SetSoFar, UsedSoFar, UsedAll
  <1>10. Rest'
    BY <1>3, <1>4, <1>6, <1>7, <1>8, <1>9 DEF Next, Predict
  <1> QED
    BY <1>10 DEF IInv

LEMMA Invariance == Spec => []IInv
  BY InitInv, InvStep, PTL DEF Spec

(* The loops over the parameters stay inside the array and the thread      *)
(* inside its section, for any number of policies and parameters.          *)
THEOREM TypeCorrect == Spec => []TypeOK
  <1>1. IInv => TypeOK
    BY DEF IInv
  <1> QED
    BY <1>1, Invariance, PTL

(* freqmind_mlp_lock makes a prediction atomic: it uses all the parameters *)
(* of its own policy and none of another's.                                *)
THEOREM OwnParams == Spec => []PredictionUsesOwnParams
  <1>1. IInv => PredictionUsesOwnParams
    <2> SUFFICES ASSUME IInv, NEW p \in Policies, pc[p] = "done"
                 PROVE  used[p] = active[p]
      BY DEF PredictionUsesOwnParams
    <2>1. used[p] \in Params /\ active[p] \in Params
      BY DEF IInv, TypeOK
    <2>2. \A k \in Weights : used[p][k] = active[p][k]
      BY DEF IInv, UsedAll
    <2> QED
      BY <2>1, <2>2 DEF Params
  <1> QED
    BY <1>1, Invariance, PTL
=============================================================================
