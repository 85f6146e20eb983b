------------------------- MODULE GaOptimizerProofs -------------------------
(***************************************************************************)
(* Theorems about GaOptimizer for every configuration allowed by its       *)
(* assumptions: type correctness, the ask/tell protocol, the accounting of *)
(* answers, what the optimizer reports as best observed, its limits and    *)
(* mutation step, and that it implements ArgumentSetSearch.                *)
(***************************************************************************)
EXTENDS GaOptimizer, SequenceTheorems, TLAPS

-----------------------------------------------------------------------------
(* The helpers the model is built from                                     *)

LEMMA CountFacts ==
    /\ OffspringCount \in Nat \ {0}
    /\ EliteCount \in Nat \ {0}
    /\ EliteCount <= OffspringCount
    /\ 0 \in Slots
BY GaConstants DEF OffspringCount, EliteCount, Smaller, Slots

LEMMA QuotType ==
    ASSUME NEW a \in Int, NEW b \in Nat \ {0}
    PROVE  Quot(a, b) \in Int
BY DEF Quot

LEMMA QuotNat ==
    ASSUME NEW a \in Nat, NEW b \in Nat \ {0}
    PROVE  Quot(a, b) \in Nat
BY DEF Quot

LEMMA FxMulType ==
    ASSUME NEW a \in Int, NEW b \in Int
    PROVE  FxMul(a, b) \in Int
<1>1. a * b \in Int
  OBVIOUS
<1> QED
  BY <1>1, QuotType, GaConstants DEF FxMul

LEMMA FxMulNat ==
    ASSUME NEW a \in Nat, NEW b \in Nat
    PROVE  FxMul(a, b) \in Nat
<1>1. a * b \in Nat
  OBVIOUS
<1> QED
  BY <1>1, QuotNat, GaConstants DEF FxMul

LEMMA FxDivType ==
    ASSUME NEW a \in Int, NEW b \in Nat \ {0}
    PROVE  FxDiv(a, b) \in Int
<1>1. a * One \in Int
  BY GaConstants
<1> QED
  BY <1>1, QuotType DEF FxDiv

LEMMA Norm2Type ==
    ASSUME NEW a \in Int, NEW b \in Int
    PROVE  Norm2(a, b) \in Int
<1> DEFINE d == FxDiv(a - b, Scale)
<1>1. d \in Int
  BY FxDivType, GaConstants
<1> HIDE DEF d
<1>2. FxMul(d, d) \in Int
  BY <1>1, FxMulType
<1> QED
  BY <1>2 DEF Norm2, d

LEMMA ChildrenType == Children \subseteq Params
BY GaConstants DEF Children, Clamp

LEMMA PenaltyType ==
    ASSUME NEW x \in Params, NEW s \in Params
    PROVE  Penalty(x, s) \in Int
<1>1. x \in Int /\ s \in Int /\ Pretrained \in Int
  BY GaConstants
<1>2. /\ LambdaPretrained \in Int /\ LambdaStart \in Int
      /\ LambdaRadius \in Int /\ TrustRadius \in Int
  BY GaConstants
<1>3. /\ FxMul(LambdaPretrained, Norm2(x, Pretrained)) \in Int
      /\ FxMul(LambdaStart, Norm2(x, s)) \in Int
  BY <1>1, <1>2, Norm2Type, FxMulType
<1> DEFINE over == Norm2(x, s) - FxMul(TrustRadius, TrustRadius)
<1>4. over \in Int
  BY <1>1, <1>2, Norm2Type, FxMulType
<1> HIDE DEF over
<1>5. FxMul(LambdaRadius, over) \in Int
  BY <1>2, <1>4, FxMulType
<1>6. (IF TrustRadius > 0 /\ over > 0 THEN FxMul(LambdaRadius, over) ELSE 0) \in Int
  BY <1>5
<1>7. Penalty(x, s) = FxMul(LambdaPretrained, Norm2(x, Pretrained))
          + FxMul(LambdaStart, Norm2(x, s))
          + IF TrustRadius > 0 /\ over > 0 THEN FxMul(LambdaRadius, over) ELSE 0
  BY DEF Penalty, over
<1> QED
  BY <1>3, <1>6, <1>7

LEMMA StepPenaltyType ==
    ASSUME NEW x \in Params, NEW p \in Params
    PROVE  StepPenalty(x, p) \in Int
<1>1. x \in Int /\ p \in Int /\ LambdaStep \in Int
  BY GaConstants
<1> QED
  BY <1>1, Norm2Type, FxMulType DEF StepPenalty

LEMMA InitialOffspringType ==
    ASSUME NEW s \in Params, NEW o \in InitialOffspring(s)
    PROVE  o \in [Slots -> Params]
BY ChildrenType DEF InitialOffspring

-----------------------------------------------------------------------------
(* Closing a generation                                                    *)

LEMMA RecordedType ==
    ASSUME TypeOK, PendingIsOffered, NEW r \in Results
    PROVE  /\ RecordedRaw(r) \in [Slots -> Results]
           /\ RecordedCount \in 0 .. OffspringCount
           /\ RecordedTotal \in Nat
BY CountFacts DEF TypeOK, PendingIsOffered, RecordedRaw, RecordedCount, RecordedTotal

LEMMA PoolType ==
    ASSUME TypeOK, NEW raws \in [Slots -> Results],
           NEW count \in 1 .. OffspringCount
    PROVE  /\ Pool(raws, count) \in Seq(Entry)
           /\ Len(Pool(raws, count)) = Len(elites) + count
           /\ \A j \in 1 .. Len(elites) : Pool(raws, count)[j] = elites[j]
           /\ \A j \in 1 .. count :
                 Pool(raws, count)[Len(elites) + j]
                    = [param   |-> offspring[j - 1],
                       raw     |-> raws[j - 1],
                       penalty |-> offspringPenalty[j - 1]]
<1> DEFINE new == [j \in 1 .. count |-> [param   |-> offspring[j - 1],
                                         raw     |-> raws[j - 1],
                                         penalty |-> offspringPenalty[j - 1]]]
<1>1. \A j \in 1 .. count : j - 1 \in Slots
  BY CountFacts DEF Slots
<1>2. \A j \in 1 .. count : new[j] \in Entry
  BY <1>1 DEF TypeOK, Entry
<1>3. new \in Seq(Entry) /\ Len(new) = count
  <2>1. new \in [1 .. count -> Entry]
    BY <1>2
  <2>2. count \in Nat
    BY CountFacts
  <2> QED
    BY <2>1, <2>2
<1>4. elites \in Seq(Entry)
  BY DEF TypeOK
<1>5. \A j \in 1 .. count :
         new[j] = [param |-> offspring[j - 1], raw |-> raws[j - 1],
                   penalty |-> offspringPenalty[j - 1]]
  OBVIOUS
<1> HIDE DEF new
<1>6. /\ elites \o new \in Seq(Entry)
      /\ Len(elites \o new) = Len(elites) + count
      /\ \A j \in 1 .. Len(elites) : (elites \o new)[j] = elites[j]
      /\ \A j \in 1 .. count : (elites \o new)[Len(elites) + j] = new[j]
  <2>1. /\ elites \o new \in Seq(Entry)
        /\ Len(elites \o new) = Len(elites) + Len(new)
        /\ \A i \in 1 .. Len(elites) + Len(new) :
              (elites \o new)[i] = IF i <= Len(elites) THEN elites[i]
                                   ELSE new[i - Len(elites)]
    BY <1>3, <1>4, ConcatProperties
  <2>2. Len(elites) \in Nat /\ count \in Nat
    BY <1>4, CountFacts
  <2>3. \A j \in 1 .. Len(elites) : (elites \o new)[j] = elites[j]
    BY <2>1, <2>2, <1>3
  <2>4. ASSUME NEW j \in 1 .. count
        PROVE  (elites \o new)[Len(elites) + j] = new[j]
    <3>1. /\ Len(elites) + j \in 1 .. Len(elites) + Len(new)
          /\ ~(Len(elites) + j <= Len(elites))
          /\ (Len(elites) + j) - Len(elites) = j
      BY <2>2, <1>3
    <3> QED
      BY <2>1, <3>1
  <2> QED
    BY <2>1, <2>3, <2>4, <1>3
<1>7. Pool(raws, count) = elites \o new
  BY DEF Pool, new
<1> QED
  BY <1>5, <1>6, <1>7

(* The elites are entries of the pool, the first of them regularized best. *)
LEMMA ElitesFacts ==
    ASSUME NEW pool \in Seq(Entry), Len(pool) > 0, NEW fit,
           NEW pick \in Selections(fit, Len(pool)),
           elites' = [i \in DOMAIN pick |-> pool[pick[i]]]
    PROVE  /\ elites' \in Seq(Entry)
           /\ Len(elites') \in 1 .. EliteCount
           /\ \A i \in DOMAIN elites' :
                 \E j \in 1 .. Len(pool) : elites'[i] = pool[j]
           /\ 1 \in DOMAIN elites'
<1> DEFINE n == Len(pool)
           m == NewElites(n)
<1>1. n \in Nat \ {0}
  OBVIOUS
<1>2. m \in 1 .. EliteCount /\ m \in Nat
  BY <1>1, CountFacts DEF NewElites, Smaller
<1>3. pick \in [1 .. m -> 1 .. n]
  BY DEF Selections
<1>4. \A i \in 1 .. m : pick[i] \in 1 .. n /\ pool[pick[i]] \in Entry
  BY <1>3
<1> HIDE DEF n, m
<1>5. elites' = [i \in 1 .. m |-> pool[pick[i]]]
  BY <1>3
<1>6. elites' \in [1 .. m -> Entry]
  BY <1>4, <1>5
<1>7. elites' \in Seq(Entry) /\ Len(elites') = m /\ DOMAIN elites' = 1 .. m
  BY <1>2, <1>6
<1>8. \A i \in 1 .. m : \E j \in 1 .. n : elites'[i] = pool[j]
  BY <1>4, <1>5
<1> QED
  BY <1>2, <1>7, <1>8 DEF n

(* The scan leaves a pool entry or the former best, and a result that      *)
(* nothing in the pool beats by more than the threshold.                   *)
LEMMA ScanFacts ==
    ASSUME NEW pool \in Seq(Entry), Len(pool) > 0,
           bestObserved \in Pair \cup {None},
           NEW I \in SUBSET (1 .. Len(pool)),
           Taken(I, pool),
           \/ I = {} /\ bestObserved' = bestObserved
           \/ \E last \in I : /\ \A k \in I : k <= last
                              /\ bestObserved' = Asked(pool[last])
    PROVE  /\ bestObserved' \in Pair
           /\ \/ I = {} /\ bestObserved' = bestObserved
              \/ /\ \E j \in 1 .. Len(pool) : bestObserved' = Asked(pool[j])
                 /\ bestObserved # None =>
                       bestObserved'.raw > bestObserved.raw + MinImprovement
           /\ \A j \in 1 .. Len(pool) :
                 pool[j].raw <= bestObserved'.raw + MinImprovement
<1>0. MinImprovement \in Nat /\ Results \subseteq Int /\ None \notin Params
  BY GaConstants
<1>1. \A j \in 1 .. Len(pool) : pool[j] \in Entry /\ pool[j].raw \in Int
  <2>1. \A j \in 1 .. Len(pool) : pool[j] \in Entry
    OBVIOUS
  <2>2. \A e \in Entry : e.raw \in Int
    BY <1>0 DEF Entry
  <2> QED
    BY <2>1, <2>2
<1>2. \A j \in 1 .. Len(pool) :
         Asked(pool[j]) \in Pair /\ Asked(pool[j]).raw = pool[j].raw
  BY <1>1 DEF Asked, Pair, Entry
<1>3. bestObserved # None => bestObserved.raw \in Int
  BY <1>0 DEF Pair
<1>4. CASE I = {} /\ bestObserved' = bestObserved
  <2>1. 1 \in 1 .. Len(pool)
    OBVIOUS
  <2>2. bestObserved # None
    BY <1>4, <2>1 DEF Taken
  <2>3. \A j \in 1 .. Len(pool) : ~(pool[j].raw > bestObserved.raw + MinImprovement)
    BY <1>4, <2>2 DEF Taken
  <2>4. \A j \in 1 .. Len(pool) : pool[j].raw <= bestObserved.raw + MinImprovement
    BY <2>2, <2>3, <1>0, <1>1, <1>3
  <2> QED
    BY <1>4, <2>2, <2>4
<1>5. ASSUME NEW last \in I, \A k \in I : k <= last,
             bestObserved' = Asked(pool[last])
      PROVE  /\ bestObserved' \in Pair
             /\ \E j \in 1 .. Len(pool) : bestObserved' = Asked(pool[j])
             /\ bestObserved # None =>
                   bestObserved'.raw > bestObserved.raw + MinImprovement
             /\ \A j \in 1 .. Len(pool) :
                   pool[j].raw <= bestObserved'.raw + MinImprovement
  <2>1. last \in 1 .. Len(pool) /\ bestObserved'.raw = pool[last].raw
    BY <1>2, <1>5
  <2>2. bestObserved # None =>
           bestObserved'.raw > bestObserved.raw + MinImprovement
    BY <2>1 DEF Taken
  <2>3. ASSUME NEW j \in 1 .. Len(pool)
        PROVE  pool[j].raw <= bestObserved'.raw + MinImprovement
    <3>1. CASE j = last
      BY <3>1, <2>1, <1>0, <1>1
    <3>2. CASE j \in I /\ j # last
      <4>1. j < last
        BY <3>2, <1>5, <2>1
      <4>2. pool[last].raw > pool[j].raw + MinImprovement
        BY <3>2, <4>1, <2>1 DEF Taken
      <4> QED
        BY <4>2, <2>1, <1>0, <1>1
    <3>3. CASE j \notin I
      <4>1. \/ bestObserved # None
                 /\ ~(pool[j].raw > bestObserved.raw + MinImprovement)
            \/ \E k \in I : k < j /\ ~(pool[j].raw > pool[k].raw + MinImprovement)
        BY <3>3 DEF Taken
      <4>2. CASE bestObserved # None
                 /\ ~(pool[j].raw > bestObserved.raw + MinImprovement)
        <5>1. bestObserved'.raw > bestObserved.raw + MinImprovement
          BY <4>2, <2>2
        <5> QED
          BY <4>2, <5>1, <2>1, <1>0, <1>1, <1>3
      <4>3. CASE \E k \in I : k < j /\ ~(pool[j].raw > pool[k].raw + MinImprovement)
        <5>1. PICK k \in I : ~(pool[j].raw > pool[k].raw + MinImprovement)
          BY <4>3
        <5>2. k \in 1 .. Len(pool) /\ (k = last \/ k < last)
          BY <1>5, <2>1
        <5>3. pool[k].raw <= pool[last].raw
          <6>1. CASE k = last
            BY <6>1, <1>1, <5>2
          <6>2. CASE k < last
            <7>1. pool[last].raw > pool[k].raw + MinImprovement
              BY <6>2, <2>1 DEF Taken
            <7> QED
              BY <7>1, <1>0, <1>1, <5>2, <2>1
          <6> QED
            BY <5>2, <6>1, <6>2
        <5> QED
          BY <5>1, <5>2, <5>3, <2>1, <1>0, <1>1, SMTT(30)
      <4> QED
        BY <4>1, <4>2, <4>3
    <3> QED
      BY <3>1, <3>2, <3>3
  <2> QED
    BY <2>1, <2>2, <2>3, <1>2, <1>5
<1> QED
  BY <1>4, <1>5

LEMMA CountersFacts ==
    ASSUME TypeOK, NEW improved \in BOOLEAN, CloseCounters(improved)
    PROVE  /\ noImprove' \in Nat
           /\ sigma' \in Nat
           /\ generation' = generation + 1
           /\ done' = LimitReached(generation', evaluations', noImprove')
           /\ done' \in BOOLEAN
<1>1. noImprove \in Nat /\ sigma \in Nat
  BY DEF TypeOK
<1>2. noImprove' \in Nat
  BY <1>1 DEF CloseCounters, StaleAfter
<1>3. /\ SigmaGrow \in Nat /\ SigmaDecay \in Nat /\ SigmaMin \in Nat
      /\ SigmaMax \in Nat
  BY GaConstants, SigmaConstants DEF SigmaMax, Larger
<1>4. FxMul(sigma, SigmaGrow) \in Nat /\ FxMul(sigma, SigmaDecay) \in Nat
  BY <1>1, <1>3, FxMulNat
<1>5. sigma' \in Nat
  BY <1>3, <1>4 DEF CloseCounters, SigmaAfter, Smaller, Larger
<1>6. /\ generation' = generation + 1
      /\ done' = LimitReached(generation', evaluations', noImprove')
  BY DEF CloseCounters
<1>7. done' \in BOOLEAN
  BY <1>6 DEF LimitReached
<1> QED
  BY <1>2, <1>5, <1>6, <1>7

LEMMA NextOffspringType ==
    ASSUME NEW es \in Seq(Entry), NEW s \in Params, NextOffspring(es, s)
    PROVE  /\ offspring' \in [Slots -> Params]
           /\ offspringPenalty' \in [Slots -> Int]
<1>1. PICK parent \in [Slots -> DOMAIN es] :
         /\ offspring' \in [Slots -> Children]
         /\ offspringPenalty' =
               [j \in Slots |-> Penalty(offspring'[j], s)
                                  + StepPenalty(offspring'[j], es[parent[j]].param)]
  BY DEF NextOffspring
<1>2. offspring' \in [Slots -> Params]
  BY <1>1, ChildrenType
<1>3. ASSUME NEW j \in Slots
      PROVE  Penalty(offspring'[j], s)
               + StepPenalty(offspring'[j], es[parent[j]].param) \in Int
  <2>1. parent[j] \in DOMAIN es
    BY <1>1
  <2>2. es[parent[j]] \in Entry
    BY <2>1
  <2>3. es[parent[j]].param \in Params
    BY <2>2 DEF Entry
  <2>4. offspring'[j] \in Params
    BY <1>2
  <2>5. Penalty(offspring'[j], s) \in Int
    BY <2>4, PenaltyType
  <2>6. StepPenalty(offspring'[j], es[parent[j]].param) \in Int
    BY <2>3, <2>4, StepPenaltyType
  <2> QED
    BY <2>5, <2>6
<1> QED
  BY <1>1, <1>2, <1>3

(* Everything ga_finish_generation leaves behind.                          *)
LEMMA FinishFacts ==
    ASSUME TypeOK, NEW raws \in [Slots -> Results],
           NEW count \in 1 .. OffspringCount,
           FinishGeneration(raws, count)
    PROVE  /\ elites' \in Seq(Entry)
           /\ Len(elites') \in 1 .. EliteCount
           /\ \A i \in DOMAIN elites' : \E j \in 1 .. Len(Pool(raws, count)) :
                 elites'[i] = Pool(raws, count)[j]
           /\ bestRegularized' = Asked(elites'[1])
           /\ 1 \in DOMAIN elites'
           /\ bestObserved' \in Pair
           /\ \/ bestObserved' = bestObserved
              \/ /\ \E j \in 1 .. Len(Pool(raws, count)) :
                       bestObserved' = Asked(Pool(raws, count)[j])
                 /\ bestObserved # None =>
                       bestObserved'.raw > bestObserved.raw + MinImprovement
           /\ \A j \in 1 .. Len(Pool(raws, count)) :
                 Pool(raws, count)[j].raw <= bestObserved'.raw + MinImprovement
           /\ noImprove' \in Nat
           /\ sigma' \in Nat
           /\ generation' = generation + 1
           /\ done' = LimitReached(generation', evaluations', noImprove')
           /\ done' \in BOOLEAN
           /\ offspring' \in [Slots -> Params]
           /\ offspringPenalty' \in [Slots -> Int]
<1> DEFINE pool == Pool(raws, count)
<1>1. pool \in Seq(Entry) /\ Len(pool) > 0
  <2>1. pool \in Seq(Entry) /\ Len(pool) = Len(elites) + count
    BY PoolType
  <2>2. Len(elites) \in Nat /\ count \in Nat \ {0}
    BY CountFacts DEF TypeOK
  <2> QED
    BY <2>1, <2>2
<1> HIDE DEF pool
<1>2. /\ \E pick \in Selections(Fitness(pool), Len(pool)) :
            elites' = [i \in DOMAIN pick |-> pool[pick[i]]]
      /\ bestRegularized' = Asked(elites'[1])
      /\ \E I \in SUBSET (1 .. Len(pool)) :
            /\ Taken(I, pool)
            /\ \/ I = {} /\ bestObserved' = bestObserved
               \/ \E last \in I : /\ \A k \in I : k <= last
                                  /\ bestObserved' = Asked(pool[last])
            /\ CloseCounters(I # {})
      /\ IF done' THEN UNCHANGED <<offspring, offspringPenalty>>
                  ELSE NextOffspring(elites', start)
  BY DEF FinishGeneration, pool
<1>3. /\ elites' \in Seq(Entry)
      /\ Len(elites') \in 1 .. EliteCount
      /\ \A i \in DOMAIN elites' : \E j \in 1 .. Len(pool) : elites'[i] = pool[j]
      /\ 1 \in DOMAIN elites'
  <2>1. PICK pick \in Selections(Fitness(pool), Len(pool)) :
           elites' = [i \in DOMAIN pick |-> pool[pick[i]]]
    BY <1>2
  <2> QED
    BY <1>1, <2>1, ElitesFacts
<1>4. PICK I \in SUBSET (1 .. Len(pool)) :
         /\ Taken(I, pool)
         /\ \/ I = {} /\ bestObserved' = bestObserved
            \/ \E last \in I : /\ \A k \in I : k <= last
                               /\ bestObserved' = Asked(pool[last])
         /\ CloseCounters(I # {})
  BY <1>2
<1>5. bestObserved \in Pair \cup {None} /\ start \in Params
  BY DEF TypeOK
<1>6. /\ bestObserved' \in Pair
      /\ \/ bestObserved' = bestObserved
         \/ /\ \E j \in 1 .. Len(pool) : bestObserved' = Asked(pool[j])
            /\ bestObserved # None =>
                  bestObserved'.raw > bestObserved.raw + MinImprovement
      /\ \A j \in 1 .. Len(pool) :
            pool[j].raw <= bestObserved'.raw + MinImprovement
  BY <1>1, <1>4, <1>5, ScanFacts
<1>7. /\ noImprove' \in Nat
      /\ sigma' \in Nat
      /\ generation' = generation + 1
      /\ done' = LimitReached(generation', evaluations', noImprove')
      /\ done' \in BOOLEAN
  <2>1. (I # {}) \in BOOLEAN
    OBVIOUS
  <2> QED
    BY <1>4, <2>1, CountersFacts
<1>8. offspring' \in [Slots -> Params] /\ offspringPenalty' \in [Slots -> Int]
  <2>1. CASE done'
    BY <1>2, <2>1 DEF TypeOK
  <2>2. CASE ~done'
    BY <1>2, <1>3, <1>5, <2>2, NextOffspringType
  <2> QED
    BY <2>1, <2>2
<1> QED
  BY <1>2, <1>3, <1>6, <1>7, <1>8 DEF pool

-----------------------------------------------------------------------------
(* The ask/tell protocol                                                   *)

(* What keeps the pool of a closing generation from being empty: a set     *)
(* that goes on has evaluations left.                                      *)
BudgetLeft == ~done => ~BudgetSpent(evaluations)

ProtocolInv == TypeOK /\ PendingIsOffered /\ EveryAnswerCounted /\ BudgetLeft

LEMMA NextMultiple == \A g, n \in Int : (g + 1) * n = g * n + n
OBVIOUS

LEMMA ProtocolInit == Init => ProtocolInv
<1> SUFFICES ASSUME Init PROVE ProtocolInv
  OBVIOUS
<1>1. start \in Params
  BY DEF Init
<1>2. offspring \in [Slots -> Params]
  BY <1>1, InitialOffspringType DEF Init
<1>3. offspringPenalty \in [Slots -> Int]
  BY <1>1, <1>2, PenaltyType DEF Init
<1>4. /\ offspringRaw \in [Slots -> Results]
      /\ activeIndex \in Slots
      /\ evaluated \in 0 .. OffspringCount
      /\ hasPending \in BOOLEAN
      /\ done \in BOOLEAN
      /\ generation \in Nat /\ evaluations \in Nat /\ noImprove \in Nat
  BY GaConstants, CountFacts DEF Init
<1>5. elites \in Seq(Entry) /\ Len(elites) <= EliteCount /\ observed \in Seq(Pair)
  BY CountFacts DEF Init
<1>6. /\ bestRegularized \in Pair \cup {None}
      /\ bestObserved \in Pair \cup {None}
      /\ offered \in Params \cup {None}
      /\ sigma \in Nat
  BY SigmaConstants DEF Init
<1>7. TypeOK
  BY <1>1, <1>2, <1>3, <1>4, <1>5, <1>6 DEF TypeOK
<1>8. PendingIsOffered
  BY DEF Init, PendingIsOffered
<1>9. EveryAnswerCounted
  <2>1. 0 * OffspringCount = 0
    BY CountFacts
  <2> QED
    BY <2>1 DEF Init, EveryAnswerCounted
<1>10. BudgetLeft
  BY GaConstants DEF Init, BudgetLeft, BudgetSpent
<1> QED
  BY <1>7, <1>8, <1>9, <1>10 DEF ProtocolInv

(* Recording appends the pair the caller measured and counts it once.      *)
LEMMA RecordFacts ==
    ASSUME ProtocolInv, ~done, NEW r \in Results, RecordResult(r)
    PROVE  /\ offspringRaw' \in [Slots -> Results]
           /\ evaluations' = RecordedTotal
           /\ evaluations' \in Nat
           /\ observed' \in Seq(Pair)
           /\ evaluations' = Len(observed')
           /\ evaluations' = generation * OffspringCount + RecordedCount
           /\ RecordedCount \in 0 .. OffspringCount
<1>1. TypeOK /\ PendingIsOffered /\ EveryAnswerCounted
  BY DEF ProtocolInv
<1>2. /\ offspringRaw' = RecordedRaw(r)
      /\ evaluations' = RecordedTotal
      /\ RecordedRaw(r) \in [Slots -> Results]
      /\ RecordedCount \in 0 .. OffspringCount
      /\ RecordedTotal \in Nat
  BY <1>1, RecordedType DEF RecordResult
<1>3. generation * OffspringCount \in Nat
  BY <1>1, CountFacts DEF TypeOK
<1> DEFINE product == generation * OffspringCount
<1>4. evaluations = product + evaluated /\ evaluations = Len(observed)
  BY <1>1 DEF EveryAnswerCounted
<1>5. product \in Nat /\ evaluated \in Nat
  BY <1>1, <1>3, CountFacts DEF TypeOK
<1> HIDE DEF product
<1>6. evaluations' = product + RecordedCount
  BY <1>2, <1>4, <1>5 DEF RecordedTotal, RecordedCount
<1>7. observed' \in Seq(Pair) /\ evaluations' = Len(observed')
  <2>1. CASE hasPending
    <3>1. [param |-> offered, raw |-> r] \in Pair
      BY <1>1, <2>1, CountFacts DEF PendingIsOffered, TypeOK, Pair
    <3>2. observed' = Append(observed, [param |-> offered, raw |-> r])
      BY <2>1 DEF RecordResult
    <3> QED
      BY <1>1, <1>2, <1>4, <2>1, <3>1, <3>2 DEF TypeOK, RecordedTotal
  <2>2. CASE ~hasPending
    BY <1>1, <1>2, <1>4, <2>2 DEF TypeOK, RecordedTotal, RecordResult
  <2> QED
    BY <2>1, <2>2
<1> QED
  BY <1>2, <1>6, <1>7 DEF product

LEMMA ProtocolOfferNext ==
    ASSUME ProtocolInv, NEW r \in Results, OfferNext(r)
    PROVE  ProtocolInv'
<1>1. TypeOK /\ PendingIsOffered /\ EveryAnswerCounted /\ ~done
  BY DEF ProtocolInv, OfferNext
<1>2. /\ offspringRaw' \in [Slots -> Results]
      /\ evaluations' = RecordedTotal
      /\ evaluations' \in Nat
      /\ observed' \in Seq(Pair)
      /\ evaluations' = Len(observed')
      /\ evaluations' = generation * OffspringCount + RecordedCount
      /\ RecordedCount \in 0 .. OffspringCount
  BY <1>1, RecordFacts DEF OfferNext
<1>3. RecordedCount \in Slots /\ RecordedCount < OffspringCount
  BY <1>2, CountFacts DEF OfferNext, GenerationOver, Slots
<1>4. /\ evaluated' = RecordedCount
      /\ activeIndex' = RecordedCount
      /\ hasPending' = TRUE
      /\ offered' = offspring[RecordedCount]
      /\ UNCHANGED <<start, offspring, offspringPenalty, elites, bestRegularized,
                     bestObserved, generation, noImprove, sigma, done>>
  BY DEF OfferNext, NextIndex, HandOut
<1>5. offspring[RecordedCount] \in Params
  BY <1>1, <1>3 DEF TypeOK
<1>6. TypeOK'
  <2>1. /\ start' \in Params
        /\ offspring' \in [Slots -> Params]
        /\ offspringPenalty' \in [Slots -> Int]
        /\ elites' \in Seq(Entry)
        /\ Len(elites') <= EliteCount
        /\ bestRegularized' \in Pair \cup {None}
        /\ bestObserved' \in Pair \cup {None}
        /\ generation' \in Nat
        /\ noImprove' \in Nat
        /\ sigma' \in Nat
        /\ done' \in BOOLEAN
    BY <1>1, <1>4 DEF TypeOK
  <2>2. /\ activeIndex' \in Slots
        /\ evaluated' \in 0 .. OffspringCount
        /\ hasPending' \in BOOLEAN
        /\ offered' \in Params \cup {None}
    BY <1>2, <1>3, <1>4, <1>5
  <2> QED
    BY <1>2, <2>1, <2>2 DEF TypeOK
<1>7. PendingIsOffered'
  BY <1>1, <1>3, <1>4 DEF PendingIsOffered
<1>8. EveryAnswerCounted'
  BY <1>1, <1>2, <1>4 DEF EveryAnswerCounted
<1>9. BudgetLeft'
  BY <1>2 DEF BudgetLeft, BudgetSpent, OfferNext, GenerationOver
<1> QED
  BY <1>6, <1>7, <1>8, <1>9 DEF ProtocolInv

(* A generation is closed with at least one result.                        *)
LEMMA ClosingCount ==
    ASSUME ProtocolInv, ~done, NEW r \in Results, RecordResult(r), GenerationOver
    PROVE  RecordedCount \in 1 .. OffspringCount
<1>1. RecordedCount \in 0 .. OffspringCount
  BY RecordFacts
<1>2. RecordedCount # 0
  <2>1. SUFFICES ASSUME RecordedCount = 0 PROVE FALSE
    OBVIOUS
  <2>2. evaluated \in Nat
    BY CountFacts DEF ProtocolInv, TypeOK
  <2>3. ~hasPending
    BY <2>1, <2>2 DEF RecordedCount
  <2>4. BudgetSpent(evaluations)
    BY <2>1, <2>3, CountFacts DEF GenerationOver, RecordedTotal
  <2> QED
    BY <2>4 DEF ProtocolInv, BudgetLeft
<1> QED
  BY <1>1, <1>2

LEMMA FinishType ==
    ASSUME ProtocolInv, ~done, NEW r \in Results, RecordResult(r), GenerationOver,
           FinishGeneration(RecordedRaw(r), RecordedCount), start' = start
    PROVE  /\ start' \in Params
           /\ offspring' \in [Slots -> Params]
           /\ offspringPenalty' \in [Slots -> Int]
           /\ offspringRaw' \in [Slots -> Results]
           /\ elites' \in Seq(Entry)
           /\ Len(elites') <= EliteCount
           /\ bestRegularized' \in Pair \cup {None}
           /\ bestObserved' \in Pair \cup {None}
           /\ generation' = generation + 1
           /\ generation' \in Nat
           /\ noImprove' \in Nat
           /\ sigma' \in Nat
           /\ done' \in BOOLEAN
           /\ done' = LimitReached(generation', evaluations', noImprove')
<1>1. TypeOK /\ PendingIsOffered
  BY DEF ProtocolInv
<1>2. RecordedRaw(r) \in [Slots -> Results] /\ offspringRaw' = RecordedRaw(r)
  BY <1>1, RecordedType DEF RecordResult
<1>3. RecordedCount \in 1 .. OffspringCount
  BY ClosingCount
<1>4. /\ elites' \in Seq(Entry)
      /\ Len(elites') \in 1 .. EliteCount
      /\ bestRegularized' = Asked(elites'[1])
      /\ 1 \in DOMAIN elites'
      /\ bestObserved' \in Pair
      /\ noImprove' \in Nat
      /\ sigma' \in Nat
      /\ generation' = generation + 1
      /\ done' = LimitReached(generation', evaluations', noImprove')
      /\ done' \in BOOLEAN
      /\ offspring' \in [Slots -> Params]
      /\ offspringPenalty' \in [Slots -> Int]
  BY <1>1, <1>2, <1>3, FinishFacts
<1>5. bestRegularized' \in Pair
  <2>1. elites'[1] \in Entry
    BY <1>4
  <2> QED
    BY <1>4, <2>1 DEF Asked, Entry, Pair
<1>6. generation \in Nat /\ start \in Params
  BY <1>1 DEF TypeOK
<1>7. Len(elites') <= EliteCount
  BY <1>4, CountFacts
<1> QED
  BY <1>2, <1>4, <1>5, <1>6, <1>7

LEMMA ProtocolOfferFromNextGeneration ==
    ASSUME ProtocolInv, NEW r \in Results, OfferFromNextGeneration(r)
    PROVE  ProtocolInv'
<1>1. /\ ~done /\ GenerationOver /\ RecordResult(r)
      /\ FinishGeneration(RecordedRaw(r), RecordedCount)
      /\ ~done'
      /\ activeIndex' = 0 /\ evaluated' = 0 /\ hasPending' = TRUE
      /\ offered' = offspring'[0]
      /\ start' = start
  BY DEF OfferFromNextGeneration, HandOut
<1>2. /\ evaluations' = RecordedTotal
      /\ evaluations' \in Nat
      /\ observed' \in Seq(Pair)
      /\ evaluations' = Len(observed')
      /\ evaluations' = generation * OffspringCount + RecordedCount
      /\ RecordedCount \in 1 .. OffspringCount
  BY <1>1, RecordFacts, ClosingCount
<1>3. TypeOK'
  <2>1. /\ start' \in Params
        /\ offspring' \in [Slots -> Params]
        /\ offspringPenalty' \in [Slots -> Int]
        /\ offspringRaw' \in [Slots -> Results]
        /\ elites' \in Seq(Entry)
        /\ Len(elites') <= EliteCount
        /\ bestRegularized' \in Pair \cup {None}
        /\ bestObserved' \in Pair \cup {None}
        /\ generation' \in Nat
        /\ noImprove' \in Nat
        /\ sigma' \in Nat
        /\ done' \in BOOLEAN
    BY <1>1, FinishType
  <2>2. /\ activeIndex' \in Slots
        /\ evaluated' \in 0 .. OffspringCount
        /\ hasPending' \in BOOLEAN
        /\ offered' \in Params \cup {None}
    BY <1>1, <2>1, CountFacts
  <2> QED
    BY <1>2, <2>1, <2>2 DEF TypeOK
<1>4. PendingIsOffered'
  BY <1>1, CountFacts DEF PendingIsOffered
<1>5. ~BudgetSpent(evaluations')
  <2>1. done' = LimitReached(generation', evaluations', noImprove')
    BY <1>1, FinishType
  <2> QED
    BY <1>1, <2>1 DEF LimitReached, BudgetSpent
<1>6. RecordedCount = OffspringCount
  BY <1>1, <1>2, <1>5, CountFacts DEF GenerationOver
<1>7. EveryAnswerCounted'
  <2>1. generation' = generation + 1 /\ generation \in Nat
    BY <1>1, FinishType DEF ProtocolInv, TypeOK
  <2>2. generation' * OffspringCount = generation * OffspringCount + OffspringCount
    BY <2>1, CountFacts, NextMultiple
  <2>3. generation' * OffspringCount \in Nat
    BY <2>1, CountFacts
  <2>4. evaluations' = generation' * OffspringCount + evaluated'
    BY <1>1, <1>2, <1>6, <2>2, <2>3
  <2> QED
    BY <1>1, <1>2, <2>4 DEF EveryAnswerCounted
<1>8. BudgetLeft'
  BY <1>5 DEF BudgetLeft, BudgetSpent
<1> QED
  BY <1>3, <1>4, <1>7, <1>8 DEF ProtocolInv

LEMMA ProtocolEndArgumentSet ==
    ASSUME ProtocolInv, NEW r \in Results, EndArgumentSet(r)
    PROVE  ProtocolInv'
<1>1. /\ ~done /\ GenerationOver /\ RecordResult(r)
      /\ FinishGeneration(RecordedRaw(r), RecordedCount)
      /\ done'
      /\ evaluated' = RecordedCount /\ hasPending' = FALSE
      /\ offered' = None
      /\ start' = start /\ activeIndex' = activeIndex
  BY DEF EndArgumentSet
<1>2. /\ evaluations' = RecordedTotal
      /\ evaluations' \in Nat
      /\ observed' \in Seq(Pair)
      /\ evaluations' = Len(observed')
      /\ evaluations' = generation * OffspringCount + RecordedCount
      /\ RecordedCount \in 1 .. OffspringCount
  BY <1>1, RecordFacts, ClosingCount
<1>3. TypeOK'
  <2>1. /\ start' \in Params
        /\ offspring' \in [Slots -> Params]
        /\ offspringPenalty' \in [Slots -> Int]
        /\ offspringRaw' \in [Slots -> Results]
        /\ elites' \in Seq(Entry)
        /\ Len(elites') <= EliteCount
        /\ bestRegularized' \in Pair \cup {None}
        /\ bestObserved' \in Pair \cup {None}
        /\ generation' \in Nat
        /\ noImprove' \in Nat
        /\ sigma' \in Nat
        /\ done' \in BOOLEAN
    BY <1>1, FinishType
  <2>2. /\ activeIndex' \in Slots
        /\ evaluated' \in 0 .. OffspringCount
        /\ hasPending' \in BOOLEAN
        /\ offered' \in Params \cup {None}
    <3>1. activeIndex \in Slots
      BY DEF ProtocolInv, TypeOK
    <3>2. 1 .. OffspringCount \subseteq 0 .. OffspringCount
      BY CountFacts
    <3> QED
      BY <1>1, <1>2, <3>1, <3>2
  <2> QED
    BY <1>2, <2>1, <2>2 DEF TypeOK
<1>4. PendingIsOffered'
  BY <1>1 DEF PendingIsOffered
<1>5. EveryAnswerCounted'
  <2>1. generation' = generation + 1
    BY <1>1, FinishType
  <2>2. generation \in Nat
    BY DEF ProtocolInv, TypeOK
  <2>3. generation' - 1 = generation
    BY <2>1, <2>2
  <2> QED
    BY <1>1, <1>2, <2>3 DEF EveryAnswerCounted
<1>6. BudgetLeft'
  BY <1>1 DEF BudgetLeft
<1> QED
  BY <1>3, <1>4, <1>5, <1>6 DEF ProtocolInv

LEMMA ProtocolBegin ==
    ASSUME ProtocolInv, BeginNewArgumentSet
    PROVE  ProtocolInv'
<1>1. /\ FreshArgumentSet(start')
      /\ offered' = None /\ observed' = <<>>
      /\ offspringRaw' = offspringRaw
  BY DEF BeginNewArgumentSet
<1>2. start' \in Params
  <2>1. start \in Params /\ bestRegularized \in Pair \cup {None}
    BY DEF ProtocolInv, TypeOK
  <2>2. bestRegularized # None => bestRegularized.param \in Params
    BY <2>1 DEF Pair
  <2> QED
    BY <2>1, <2>2 DEF BeginNewArgumentSet
<1>3. offspring' \in [Slots -> Params]
  BY <1>1, <1>2, InitialOffspringType DEF FreshArgumentSet
<1>4. offspringPenalty' \in [Slots -> Int]
  BY <1>1, <1>2, <1>3, PenaltyType DEF FreshArgumentSet
<1>5. /\ activeIndex' = 0 /\ evaluated' = 0 /\ hasPending' = FALSE
      /\ elites' = <<>> /\ bestRegularized' = None /\ bestObserved' = None
      /\ generation' = 0 /\ evaluations' = 0 /\ noImprove' = 0
      /\ sigma' = SigmaInit /\ done' = FALSE
  BY <1>1 DEF FreshArgumentSet
<1>6. TypeOK'
  <2>1. /\ activeIndex' \in Slots
        /\ evaluated' \in 0 .. OffspringCount
        /\ hasPending' \in BOOLEAN
        /\ done' \in BOOLEAN
        /\ generation' \in Nat /\ evaluations' \in Nat /\ noImprove' \in Nat
        /\ sigma' \in Nat
    <3>1. 0 \in Slots /\ 0 \in 0 .. OffspringCount
      BY CountFacts
    <3>2. SigmaInit \in Nat
      BY SigmaConstants
    <3> QED
      BY <1>5, <3>1, <3>2
  <2>2. /\ elites' \in Seq(Entry) /\ Len(elites') <= EliteCount
        /\ observed' \in Seq(Pair)
    <3>1. <<>> \in Seq(Entry) /\ <<>> \in Seq(Pair) /\ Len(<<>>) = 0
      OBVIOUS
    <3>2. 0 <= EliteCount
      BY CountFacts
    <3> QED
      BY <1>1, <1>5, <3>1, <3>2
  <2>3. /\ bestRegularized' \in Pair \cup {None}
        /\ bestObserved' \in Pair \cup {None}
        /\ offered' \in Params \cup {None}
    BY <1>1, <1>5
  <2>4. offspringRaw' \in [Slots -> Results]
    BY <1>1 DEF ProtocolInv, TypeOK
  <2> QED
    BY <1>2, <1>3, <1>4, <2>1, <2>2, <2>3, <2>4 DEF TypeOK
<1>7. PendingIsOffered'
  BY <1>1, <1>5 DEF PendingIsOffered
<1>8. EveryAnswerCounted'
  <2>1. 0 * OffspringCount = 0
    BY CountFacts
  <2> QED
    BY <1>1, <1>5, <2>1 DEF EveryAnswerCounted
<1>9. BudgetLeft'
  BY <1>5, GaConstants DEF BudgetLeft, BudgetSpent
<1> QED
  BY <1>6, <1>7, <1>8, <1>9 DEF ProtocolInv

LEMMA ProtocolStutter ==
    ASSUME ProtocolInv, UNCHANGED gaVars
    PROVE  ProtocolInv'
<1>1. TypeOK'
  BY DEF ProtocolInv, TypeOK, gaVars
<1>2. PendingIsOffered'
  BY DEF ProtocolInv, PendingIsOffered, gaVars
<1>3. EveryAnswerCounted'
  BY DEF ProtocolInv, EveryAnswerCounted, gaVars
<1>4. BudgetLeft'
  BY DEF ProtocolInv, BudgetLeft, BudgetSpent, gaVars
<1> QED
  BY <1>1, <1>2, <1>3, <1>4 DEF ProtocolInv

(* The inductive invariant holds in every state of the specification.      *)
THEOREM ProtocolInvariant == Spec => []ProtocolInv
<1>1. Init => ProtocolInv
  BY ProtocolInit
<1>2. ProtocolInv /\ [Next]_gaVars => ProtocolInv'
  <2> SUFFICES ASSUME ProtocolInv, [Next]_gaVars PROVE ProtocolInv'
    OBVIOUS
  <2>1. CASE \E r \in Results : OfferNext(r)
    BY <2>1, ProtocolOfferNext
  <2>2. CASE \E r \in Results : OfferFromNextGeneration(r)
    BY <2>2, ProtocolOfferFromNextGeneration
  <2>3. CASE \E r \in Results : EndArgumentSet(r)
    BY <2>3, ProtocolEndArgumentSet
  <2>4. CASE BeginNewArgumentSet
    BY <2>4, ProtocolBegin
  <2>5. CASE UNCHANGED gaVars
    BY <2>5, ProtocolStutter
  <2> QED
    BY <2>1, <2>2, <2>3, <2>4, <2>5 DEF Next, GetNewParameters
<1> QED
  BY <1>1, <1>2, PTL DEF Spec

(* struct ga keeps its types for every configuration.                      *)
THEOREM TypeCorrect == Spec => []TypeOK
<1>1. ProtocolInv => TypeOK
  BY DEF ProtocolInv
<1> QED
  BY <1>1, ProtocolInvariant, PTL

(* ga_begin_new_argument_set never finds a finished set with a candidate   *)
(* pending, and a pending candidate is the one its caller holds.           *)
THEOREM PendingCandidateIsOffered == Spec => []PendingIsOffered
<1>1. ProtocolInv => PendingIsOffered
  BY DEF ProtocolInv
<1> QED
  BY <1>1, ProtocolInvariant, PTL

(* No answer of the caller is lost or counted twice by the counters.       *)
THEOREM AnswersCounted == Spec => []EveryAnswerCounted
<1>1. ProtocolInv => EveryAnswerCounted
  BY DEF ProtocolInv
<1> QED
  BY <1>1, ProtocolInvariant, PTL

-----------------------------------------------------------------------------
(* What the optimizer keeps was measured, and its best observed is best    *)

MeasuredInv == KeptPairsWereMeasured /\ BestObservedIsBest

(* Recording extends the history by the pending pair, and the results of   *)
(* the running generation stay at its end.                                 *)
LEMMA RecordedHistory ==
    ASSUME ProtocolInv, KeptPairsWereMeasured, ~done,
           NEW r \in Results, RecordResult(r)
    PROVE  /\ Len(observed') \in Nat
           /\ Len(observed') - RecordedCount = Len(observed) - evaluated
           /\ Len(observed) - evaluated \in 0 .. Len(observed)
           /\ \A i \in 1 .. Len(observed) : observed'[i] = observed[i]
           /\ Len(observed) <= Len(observed')
           /\ \A j \in 0 .. RecordedCount - 1 :
                 observed'[Len(observed') - RecordedCount + j + 1]
                    = [param |-> offspring[j], raw |-> RecordedRaw(r)[j]]
<1> DEFINE L == Len(observed)
<1>1. /\ observed \in Seq(Pair) /\ L \in Nat
      /\ evaluated \in 0 .. OffspringCount /\ activeIndex \in Slots
      /\ offspringRaw \in [Slots -> Results]
  BY DEF ProtocolInv, TypeOK
<1>2. evaluated \in Nat /\ OffspringCount \in Nat
  BY <1>1, CountFacts
<1>3. L - evaluated \in 0 .. L
  <2>1. generation * OffspringCount \in Nat
    BY CountFacts DEF ProtocolInv, TypeOK
  <2>2. L = generation * OffspringCount + evaluated
    BY DEF ProtocolInv, EveryAnswerCounted
  <2> QED
    BY <1>1, <1>2, <2>1, <2>2
<1>4. \A j \in 0 .. evaluated - 1 :
         observed[L - evaluated + j + 1]
           = [param |-> offspring[j], raw |-> offspringRaw[j]]
  BY DEF KeptPairsWereMeasured
<1>5. CASE hasPending
  <2> DEFINE new == [param |-> offered, raw |-> r]
  <2>1. observed' = Append(observed, new) /\ RecordedCount = evaluated + 1
    BY <1>5 DEF RecordResult, RecordedCount
  <2>2. /\ activeIndex = evaluated /\ offered = offspring[evaluated]
        /\ evaluated \in Slots
    BY <1>1, <1>5 DEF ProtocolInv, PendingIsOffered
  <2>3. new \in Pair
    BY <2>2 DEF ProtocolInv, TypeOK, Pair
  <2> HIDE DEF new
  <2>4. /\ Len(observed') = L + 1
        /\ \A i \in 1 .. L : observed'[i] = observed[i]
        /\ observed'[L + 1] = new
    BY <1>1, <2>1, <2>3
  <2>5. RecordedRaw(r) = [offspringRaw EXCEPT ![evaluated] = r]
    BY <1>5, <2>2 DEF RecordedRaw
  <2>6. ASSUME NEW j \in 0 .. RecordedCount - 1
        PROVE  observed'[Len(observed') - RecordedCount + j + 1]
                 = [param |-> offspring[j], raw |-> RecordedRaw(r)[j]]
    <3>1. Len(observed') - RecordedCount + j + 1 = L - evaluated + j + 1
      BY <1>1, <1>2, <2>1, <2>4
    <3>2. CASE j = evaluated
      <4>1. RecordedRaw(r)[j] = r
        BY <1>1, <2>2, <2>5, <3>2
      <4>2. L - evaluated + j + 1 = L + 1
        BY <1>1, <1>2, <3>2
      <4> QED
        BY <2>2, <2>4, <3>1, <3>2, <4>1, <4>2 DEF new
    <3>3. CASE j # evaluated
      <4>1. j \in 0 .. evaluated - 1
        BY <1>2, <2>1, <3>3
      <4>2. L - evaluated + j + 1 \in 1 .. L
        BY <1>2, <1>3, <4>1, <1>1
      <4>3. j \in Slots
        BY <1>1, <1>2, <4>1 DEF Slots
      <4>4. RecordedRaw(r)[j] = offspringRaw[j]
        BY <1>1, <2>5, <3>3, <4>3
      <4> QED
        BY <1>4, <2>4, <3>1, <4>1, <4>2, <4>4
    <3> QED
      BY <3>2, <3>3
  <2>7. /\ Len(observed') \in Nat /\ L <= Len(observed')
        /\ Len(observed') - RecordedCount = L - evaluated
    BY <1>1, <1>2, <2>1, <2>4
  <2> QED
    BY <1>3, <2>4, <2>6, <2>7
<1>6. CASE ~hasPending
  <2>1. /\ observed' = observed /\ RecordedCount = evaluated
        /\ RecordedRaw(r) = offspringRaw
    BY <1>6 DEF RecordResult, RecordedCount, RecordedRaw
  <2> QED
    BY <1>1, <1>3, <1>4, <2>1
<1> QED
  BY <1>5, <1>6

LEMMA MeasuredGrows ==
    ASSUME ProtocolInv, KeptPairsWereMeasured, ~done,
           NEW r \in Results, RecordResult(r)
    PROVE  Measured \subseteq Measured'
<1>1. observed \in Seq(Pair) /\ Len(observed) \in Nat
  BY DEF ProtocolInv, TypeOK
<1>2. observed' \in Seq(Pair)
  BY RecordFacts
<1>3. /\ \A i \in 1 .. Len(observed) : observed'[i] = observed[i]
      /\ Len(observed) <= Len(observed') /\ Len(observed') \in Nat
  BY RecordedHistory
<1>4. \A i \in DOMAIN observed : i \in DOMAIN observed' /\ observed'[i] = observed[i]
  BY <1>1, <1>2, <1>3
<1> QED
  BY <1>4 DEF Measured

(* Every entry of the pool of a closing generation is a measured pair.     *)
LEMMA PoolMeasured ==
    ASSUME ProtocolInv, KeptPairsWereMeasured, ~done, NEW r \in Results,
           RecordResult(r), RecordedCount \in 1 .. OffspringCount
    PROVE  \A j \in 1 .. Len(Pool(RecordedRaw(r), RecordedCount)) :
              Asked(Pool(RecordedRaw(r), RecordedCount)[j]) \in Measured'
<1> DEFINE pool == Pool(RecordedRaw(r), RecordedCount)
<1>1. TypeOK /\ PendingIsOffered
  BY DEF ProtocolInv
<1>2. RecordedRaw(r) \in [Slots -> Results]
  BY <1>1, RecordedType
<1>3. /\ Len(pool) = Len(elites) + RecordedCount
      /\ \A j \in 1 .. Len(elites) : pool[j] = elites[j]
      /\ \A j \in 1 .. RecordedCount :
            pool[Len(elites) + j] = [param   |-> offspring[j - 1],
                                     raw     |-> RecordedRaw(r)[j - 1],
                                     penalty |-> offspringPenalty[j - 1]]
  BY <1>1, <1>2, PoolType
<1> HIDE DEF pool
<1>4. /\ Len(elites) \in Nat /\ RecordedCount \in Nat
      /\ DOMAIN elites = 1 .. Len(elites)
  BY <1>1, CountFacts DEF TypeOK
<1>5. ASSUME NEW j \in 1 .. Len(pool)
      PROVE  Asked(pool[j]) \in Measured'
  <2>1. CASE j \in 1 .. Len(elites)
    <3>1. Asked(elites[j]) \in Measured
      BY <1>4, <2>1 DEF KeptPairsWereMeasured
    <3> QED
      BY <1>3, <2>1, <3>1, MeasuredGrows
  <2>2. CASE j \notin 1 .. Len(elites)
    <3> DEFINE k == j - Len(elites)
    <3>1. k \in 1 .. RecordedCount /\ j = Len(elites) + k
      BY <1>3, <1>4, <2>2
    <3> HIDE DEF k
    <3>2. pool[j] = [param   |-> offspring[k - 1],
                     raw     |-> RecordedRaw(r)[k - 1],
                     penalty |-> offspringPenalty[k - 1]]
      BY <1>3, <3>1
    <3>3. Asked(pool[j]) = [param |-> offspring[k - 1], raw |-> RecordedRaw(r)[k - 1]]
      BY <3>2 DEF Asked
    <3>4. k - 1 \in 0 .. RecordedCount - 1
      BY <3>1, <1>4
    <3> DEFINE at == Len(observed') - RecordedCount + (k - 1) + 1
    <3>5. observed'[at] = Asked(pool[j])
      BY <3>3, <3>4, RecordedHistory
    <3>6. at \in DOMAIN observed'
      <4>1. observed' \in Seq(Pair)
        BY RecordFacts
      <4>2. Len(observed') \in Nat /\ Len(observed') - RecordedCount \in Nat
        BY RecordedHistory
      <4>3. at \in 1 .. Len(observed')
        BY <1>4, <3>1, <4>2
      <4> QED
        BY <4>1, <4>3
    <3> QED
      BY <3>5, <3>6 DEF Measured
  <2> QED
    BY <2>1, <2>2
<1> QED
  BY <1>5 DEF pool

LEMMA MeasuredInit == Init => MeasuredInv
<1> SUFFICES ASSUME Init PROVE MeasuredInv
  OBVIOUS
<1>1. KeptPairsWereMeasured
  BY DEF Init, KeptPairsWereMeasured
<1>2. BestObservedIsBest
  <2>1. ClosedLength = 0
    BY DEF Init, ClosedLength
  <2> QED
    BY <2>1 DEF BestObservedIsBest
<1> QED
  BY <1>1, <1>2 DEF MeasuredInv

LEMMA MeasuredOfferNext ==
    ASSUME ProtocolInv, MeasuredInv, NEW r \in Results, OfferNext(r)
    PROVE  MeasuredInv'
<1>1. /\ ~done /\ ~done' /\ RecordResult(r)
      /\ evaluated' = RecordedCount
      /\ offspringRaw' = RecordedRaw(r)
      /\ UNCHANGED <<offspring, elites, bestRegularized, bestObserved>>
  BY DEF OfferNext, RecordResult
<1>2. KeptPairsWereMeasured /\ BestObservedIsBest
  BY DEF MeasuredInv
<1>3. Measured \subseteq Measured'
  BY <1>1, <1>2, MeasuredGrows
<1>4. \A j \in 0 .. RecordedCount - 1 :
         observed'[Len(observed') - RecordedCount + j + 1]
            = [param |-> offspring[j], raw |-> RecordedRaw(r)[j]]
  BY <1>1, <1>2, RecordedHistory
<1>5. KeptPairsWereMeasured'
  BY <1>1, <1>2, <1>3, <1>4 DEF KeptPairsWereMeasured
<1>6. BestObservedIsBest'
  <2>1. ClosedLength' = Len(observed) - evaluated /\ ClosedLength = Len(observed) - evaluated
    BY <1>1, <1>2, RecordedHistory DEF ClosedLength
  <2>2. Len(observed) - evaluated \in 0 .. Len(observed) /\ Len(observed) \in Nat
    BY <1>1, <1>2, RecordedHistory DEF ProtocolInv, TypeOK
  <2>3. \A i \in 1 .. Len(observed) : observed'[i] = observed[i]
    BY <1>1, <1>2, RecordedHistory
  <2>4. \A i \in 1 .. Len(observed) - evaluated : i \in 1 .. Len(observed)
    BY <2>2
  <2> QED
    BY <1>1, <1>2, <2>1, <2>3, <2>4 DEF BestObservedIsBest
<1> QED
  BY <1>5, <1>6 DEF MeasuredInv

(* Closing a generation, whether or not another one follows.               *)
LEMMA MeasuredFinish ==
    ASSUME ProtocolInv, MeasuredInv, ~done, NEW r \in Results, RecordResult(r),
           GenerationOver, FinishGeneration(RecordedRaw(r), RecordedCount)
    PROVE  /\ \A i \in DOMAIN elites' : Asked(elites'[i]) \in Measured'
           /\ bestRegularized' \in Measured'
           /\ bestObserved' \in Measured'
           /\ bestObserved' # None
           /\ \A i \in 1 .. Len(observed') :
                 observed'[i].raw <= bestObserved'.raw + MinImprovement
<1> DEFINE pool == Pool(RecordedRaw(r), RecordedCount)
<1>1. KeptPairsWereMeasured /\ BestObservedIsBest /\ TypeOK /\ PendingIsOffered
  BY DEF MeasuredInv, ProtocolInv
<1>2. RecordedCount \in 1 .. OffspringCount
  BY ClosingCount
<1>3. RecordedRaw(r) \in [Slots -> Results]
  BY <1>1, RecordedType
<1>4. \A j \in 1 .. Len(pool) : Asked(pool[j]) \in Measured'
  BY <1>1, <1>2, PoolMeasured
<1>5. /\ \A i \in DOMAIN elites' : \E j \in 1 .. Len(pool) : elites'[i] = pool[j]
      /\ bestRegularized' = Asked(elites'[1])
      /\ 1 \in DOMAIN elites'
      /\ bestObserved' \in Pair
      /\ \/ bestObserved' = bestObserved
         \/ /\ \E j \in 1 .. Len(pool) : bestObserved' = Asked(pool[j])
            /\ bestObserved # None =>
                  bestObserved'.raw > bestObserved.raw + MinImprovement
      /\ \A j \in 1 .. Len(pool) : pool[j].raw <= bestObserved'.raw + MinImprovement
  BY <1>1, <1>2, <1>3, FinishFacts
<1>6. /\ Len(pool) = Len(elites) + RecordedCount
      /\ \A j \in 1 .. RecordedCount :
            pool[Len(elites) + j] = [param   |-> offspring[j - 1],
                                     raw     |-> RecordedRaw(r)[j - 1],
                                     penalty |-> offspringPenalty[j - 1]]
  BY <1>1, <1>2, <1>3, PoolType
<1> HIDE DEF pool
<1>7. \A i \in DOMAIN elites' : Asked(elites'[i]) \in Measured'
  BY <1>4, <1>5
<1>8. bestRegularized' \in Measured'
  BY <1>5, <1>7
<1>9. bestObserved' # None
  BY <1>5, GaConstants
<1>10. bestObserved' \in Measured'
  <2>1. CASE \E j \in 1 .. Len(pool) : bestObserved' = Asked(pool[j])
    BY <1>4, <2>1
  <2>2. CASE bestObserved' = bestObserved
    <3>1. bestObserved \in Measured
      BY <1>1, <1>9, <2>2 DEF KeptPairsWereMeasured
    <3> QED
      BY <1>1, <2>2, <3>1, MeasuredGrows
  <2> QED
    BY <1>5, <2>1, <2>2
<1>11. ASSUME NEW i \in 1 .. Len(observed')
       PROVE  observed'[i].raw <= bestObserved'.raw + MinImprovement
  <2> DEFINE closed == Len(observed) - evaluated
  <2>1. /\ Len(observed') \in Nat
        /\ Len(observed') - RecordedCount = closed
        /\ closed \in 0 .. Len(observed)
        /\ \A k \in 1 .. Len(observed) : observed'[k] = observed[k]
        /\ \A j \in 0 .. RecordedCount - 1 :
              observed'[Len(observed') - RecordedCount + j + 1]
                 = [param |-> offspring[j], raw |-> RecordedRaw(r)[j]]
    BY <1>1, RecordedHistory
  <2>2. Len(observed) \in Nat /\ RecordedCount \in Nat
    BY <1>1, <1>2, CountFacts DEF TypeOK
  <2>3. ClosedLength = closed
    BY DEF ClosedLength
  <2> HIDE DEF closed
  <2>4. CASE i <= closed
    <3>1. i \in 1 .. Len(observed) /\ i \in 1 .. closed
      BY <2>1, <2>2, <2>4
    <3>2. /\ bestObserved # None
          /\ observed[i].raw <= bestObserved.raw + MinImprovement
      BY <1>1, <2>3, <3>1 DEF BestObservedIsBest
    <3>3. /\ bestObserved.raw \in Int /\ bestObserved'.raw \in Int
          /\ MinImprovement \in Nat /\ observed[i].raw \in Int
      <4>1. bestObserved \in Pair /\ bestObserved' \in Pair /\ observed[i] \in Pair
        BY <1>1, <1>5, <3>1, <3>2 DEF TypeOK
      <4> QED
        BY <4>1, GaConstants DEF Pair
    <3>4. bestObserved'.raw >= bestObserved.raw
      <4>1. CASE bestObserved' = bestObserved
        BY <3>3, <4>1
      <4>2. CASE bestObserved'.raw > bestObserved.raw + MinImprovement
        BY <3>3, <4>2
      <4> QED
        BY <1>5, <3>2, <4>1, <4>2
    <3> QED
      BY <2>1, <3>1, <3>2, <3>3, <3>4, SMTT(30)
  <2>5. CASE ~(i <= closed)
    <3> DEFINE j == i - closed
    <3>1. j \in 1 .. RecordedCount /\ i = closed + j
      BY <2>1, <2>2, <2>5
    <3> HIDE DEF j
    <3>2. j - 1 \in 0 .. RecordedCount - 1
      BY <2>2, <3>1
    <3>3. observed'[closed + (j - 1) + 1].raw = RecordedRaw(r)[j - 1]
      <4>1. \A k \in 0 .. RecordedCount - 1 :
               observed'[closed + k + 1]
                 = [param |-> offspring[k], raw |-> RecordedRaw(r)[k]]
        BY <2>1
      <4> DEFINE k == j - 1
      <4>2. observed'[closed + k + 1]
               = [param |-> offspring[k], raw |-> RecordedRaw(r)[k]]
        BY <4>1, <3>2
      <4> QED
        BY <4>2
    <3>4. closed + (j - 1) + 1 = i
      <4>1. closed \in Int /\ j \in Int
        <5>1. closed \in Nat
          BY <2>1, <2>2
        <5> QED
          BY <2>2, <3>1, <5>1
      <4> QED
        BY <3>1, <4>1
    <3>5. pool[Len(elites) + j].raw = RecordedRaw(r)[j - 1]
      <4>1. pool[Len(elites) + j] = [param   |-> offspring[j - 1],
                                     raw     |-> RecordedRaw(r)[j - 1],
                                     penalty |-> offspringPenalty[j - 1]]
        BY <1>6, <3>1
      <4> QED
        BY <4>1
    <3>6. Len(elites) + j \in 1 .. Len(pool)
      <4>1. Len(elites) \in Nat
        BY <1>1 DEF TypeOK
      <4> QED
        BY <1>6, <2>2, <3>1, <4>1
    <3>7. pool[Len(elites) + j].raw <= bestObserved'.raw + MinImprovement
      BY <1>5, <3>6
    <3> QED
      BY <3>3, <3>4, <3>5, <3>7
  <2> QED
    BY <2>4, <2>5
<1> QED
  BY <1>7, <1>8, <1>9, <1>10, <1>11

LEMMA MeasuredOfferFromNextGeneration ==
    ASSUME ProtocolInv, MeasuredInv, NEW r \in Results, OfferFromNextGeneration(r)
    PROVE  MeasuredInv'
<1>1. /\ ~done /\ GenerationOver /\ RecordResult(r)
      /\ FinishGeneration(RecordedRaw(r), RecordedCount)
      /\ ~done' /\ evaluated' = 0
  BY DEF OfferFromNextGeneration
<1>2. /\ \A i \in DOMAIN elites' : Asked(elites'[i]) \in Measured'
      /\ bestRegularized' \in Measured'
      /\ bestObserved' \in Measured'
      /\ bestObserved' # None
      /\ \A i \in 1 .. Len(observed') :
            observed'[i].raw <= bestObserved'.raw + MinImprovement
  BY <1>1, MeasuredFinish
<1>3. KeptPairsWereMeasured'
  BY <1>1, <1>2 DEF KeptPairsWereMeasured
<1>4. ClosedLength' = Len(observed')
  <2>1. Len(observed') \in Nat
    BY <1>1, RecordedHistory DEF MeasuredInv
  <2> QED
    BY <1>1, <2>1 DEF ClosedLength
<1>5. BestObservedIsBest'
  BY <1>2, <1>4 DEF BestObservedIsBest
<1> QED
  BY <1>3, <1>5 DEF MeasuredInv

LEMMA MeasuredEndArgumentSet ==
    ASSUME ProtocolInv, MeasuredInv, NEW r \in Results, EndArgumentSet(r)
    PROVE  MeasuredInv'
<1>1. /\ ~done /\ GenerationOver /\ RecordResult(r)
      /\ FinishGeneration(RecordedRaw(r), RecordedCount)
      /\ done'
  BY DEF EndArgumentSet
<1>2. /\ \A i \in DOMAIN elites' : Asked(elites'[i]) \in Measured'
      /\ bestRegularized' \in Measured'
      /\ bestObserved' \in Measured'
      /\ bestObserved' # None
      /\ \A i \in 1 .. Len(observed') :
            observed'[i].raw <= bestObserved'.raw + MinImprovement
  BY <1>1, MeasuredFinish
<1>3. KeptPairsWereMeasured'
  BY <1>1, <1>2 DEF KeptPairsWereMeasured
<1>4. ClosedLength' = Len(observed')
  BY <1>1 DEF ClosedLength
<1>5. BestObservedIsBest'
  BY <1>2, <1>4 DEF BestObservedIsBest
<1> QED
  BY <1>3, <1>5 DEF MeasuredInv

LEMMA MeasuredBegin ==
    ASSUME BeginNewArgumentSet
    PROVE  MeasuredInv'
<1>1. /\ elites' = <<>> /\ bestRegularized' = None /\ bestObserved' = None
      /\ evaluated' = 0 /\ observed' = <<>> /\ ~done'
  BY DEF BeginNewArgumentSet, FreshArgumentSet
<1>2. DOMAIN elites' = {}
  BY <1>1
<1>3. KeptPairsWereMeasured'
  BY <1>1, <1>2 DEF KeptPairsWereMeasured
<1>4. ClosedLength' = 0
  BY <1>1 DEF ClosedLength
<1>5. BestObservedIsBest'
  BY <1>4 DEF BestObservedIsBest
<1> QED
  BY <1>3, <1>5 DEF MeasuredInv

LEMMA MeasuredStutter ==
    ASSUME MeasuredInv, UNCHANGED gaVars
    PROVE  MeasuredInv'
<1>1. KeptPairsWereMeasured'
  BY DEF MeasuredInv, KeptPairsWereMeasured, Measured, gaVars
<1>2. BestObservedIsBest'
  BY DEF MeasuredInv, BestObservedIsBest, ClosedLength, gaVars
<1> QED
  BY <1>1, <1>2 DEF MeasuredInv

(* What the optimizer keeps was measured and its best observed result is   *)
(* best: the two need each other only through the pool they share.         *)
THEOREM MeasuredInvariant == Spec => []MeasuredInv
<1>1. Init => MeasuredInv
  BY MeasuredInit
<1>2. ProtocolInv /\ MeasuredInv /\ [Next]_gaVars => MeasuredInv'
  <2> SUFFICES ASSUME ProtocolInv, MeasuredInv, [Next]_gaVars PROVE MeasuredInv'
    OBVIOUS
  <2>1. CASE \E r \in Results : OfferNext(r)
    BY <2>1, MeasuredOfferNext
  <2>2. CASE \E r \in Results : OfferFromNextGeneration(r)
    BY <2>2, MeasuredOfferFromNextGeneration
  <2>3. CASE \E r \in Results : EndArgumentSet(r)
    BY <2>3, MeasuredEndArgumentSet
  <2>4. CASE BeginNewArgumentSet
    BY <2>4, MeasuredBegin
  <2>5. CASE UNCHANGED gaVars
    BY <2>5, MeasuredStutter
  <2> QED
    BY <2>1, <2>2, <2>3, <2>4, <2>5 DEF Next, GetNewParameters
<1> QED
  BY <1>1, <1>2, ProtocolInvariant, PTL DEF Spec

(* Elites and best results are pairs the caller measured: no result is     *)
(* credited to a candidate it was not measured with.                       *)
THEOREM KeptPairsMeasured == Spec => []KeptPairsWereMeasured
<1>1. MeasuredInv => KeptPairsWereMeasured
  BY DEF MeasuredInv
<1> QED
  BY <1>1, MeasuredInvariant, PTL

(* No result of a closed generation beats the best observed one by more    *)
(* than min_improvement, whatever the pool sizes and the order of results. *)
THEOREM BestObservedBest == Spec => []BestObservedIsBest
<1>1. MeasuredInv => BestObservedIsBest
  BY DEF MeasuredInv
<1> QED
  BY <1>1, MeasuredInvariant, PTL

(* Closing a generation replaces the best observed pair by a better one.   *)
LEMMA FinishImproves ==
    ASSUME ProtocolInv, ~done, NEW r \in Results, RecordResult(r), GenerationOver,
           FinishGeneration(RecordedRaw(r), RecordedCount),
           bestObserved # None, bestObserved' # bestObserved
    PROVE  bestObserved'.raw > bestObserved.raw + MinImprovement
<1>1. TypeOK /\ PendingIsOffered
  BY DEF ProtocolInv
<1>2. RecordedRaw(r) \in [Slots -> Results] /\ RecordedCount \in 1 .. OffspringCount
  BY <1>1, RecordedType, ClosingCount
<1> QED
  BY <1>1, <1>2, FinishFacts

(* Within an argument set the best observed result is only ever replaced   *)
(* by one that beats it by more than min_improvement.                      *)
THEOREM BestObservedImproves == Spec => BestObservedOnlyImproves
<1> DEFINE Better == bestObserved # None /\ bestObserved' # bestObserved =>
                        \/ done /\ ~done'
                        \/ bestObserved'.raw > bestObserved.raw + MinImprovement
<1>1. ProtocolInv /\ [Next]_gaVars => [Better]_gaVars
  <2> SUFFICES ASSUME ProtocolInv, [Next]_gaVars,
                      bestObserved # None, bestObserved' # bestObserved
               PROVE  \/ done /\ ~done'
                      \/ bestObserved'.raw > bestObserved.raw + MinImprovement
    OBVIOUS
  <2>1. CASE \E r \in Results : OfferNext(r)
    BY <2>1 DEF OfferNext
  <2>2. CASE \E r \in Results : OfferFromNextGeneration(r)
    BY <2>2, FinishImproves DEF OfferFromNextGeneration
  <2>3. CASE \E r \in Results : EndArgumentSet(r)
    BY <2>3, FinishImproves DEF EndArgumentSet
  <2>4. CASE BeginNewArgumentSet
    BY <2>4 DEF BeginNewArgumentSet, FreshArgumentSet
  <2>5. CASE UNCHANGED gaVars
    BY <2>5 DEF gaVars
  <2> QED
    BY <2>1, <2>2, <2>3, <2>4, <2>5 DEF Next, GetNewParameters
<1> QED
  BY <1>1, ProtocolInvariant, PTL DEF Spec, BestObservedOnlyImproves

-----------------------------------------------------------------------------
(* The mutation step                                                       *)

LEMMA QuotAtLeast ==
    ASSUME NEW a \in Nat, NEW b \in Nat \ {0}, NEW n \in Nat, a >= n * b
    PROVE  Quot(a, b) >= n
<1> DEFINE q == a \div b
           m == a % b
<1>1. q \in Nat /\ m \in Nat /\ m < b /\ a = b * q + m
  OBVIOUS
<1> HIDE DEF q, m
<1>2. ASSUME q + 1 <= n PROVE FALSE
  <2>1. b * (q + 1) <= b * n
    BY <1>1, <1>2
  <2>2. b * (q + 1) = b * q + b
    BY <1>1
  <2> QED
    BY <1>1, <2>1, <2>2
<1>3. q >= n
  BY <1>1, <1>2
<1> QED
  BY <1>3 DEF Quot, q

LEMMA QuotAtMost ==
    ASSUME NEW a \in Nat, NEW b \in Nat \ {0}, NEW n \in Nat, a <= n * b
    PROVE  Quot(a, b) <= n
<1> DEFINE q == a \div b
           m == a % b
<1>1. q \in Nat /\ m \in Nat /\ m < b /\ a = b * q + m
  OBVIOUS
<1> HIDE DEF q, m
<1>2. ASSUME n + 1 <= q PROVE FALSE
  <2>1. b * (n + 1) <= b * q
    BY <1>1, <1>2
  <2>2. b * (n + 1) = b * n + b
    OBVIOUS
  <2> QED
    BY <1>1, <2>1, <2>2
<1>3. q <= n
  BY <1>1, <1>2
<1> QED
  BY <1>3 DEF Quot, q

(* Growing never makes the step smaller, decaying never makes it larger.   *)
LEMMA SigmaStep ==
    ASSUME NEW s \in Nat
    PROVE  FxMul(s, SigmaGrow) >= s /\ FxMul(s, SigmaDecay) <= s
<1>1. /\ One \in Nat \ {0} /\ SigmaGrow \in Nat /\ SigmaGrow >= One
      /\ SigmaDecay \in Nat /\ SigmaDecay <= One
  BY GaConstants, SigmaConstants
<1>2. s * SigmaGrow \in Nat /\ s * SigmaGrow >= s * One
  BY <1>1
<1>3. s * SigmaDecay \in Nat /\ s * SigmaDecay <= s * One
  BY <1>1
<1> QED
  BY <1>1, <1>2, <1>3, QuotAtLeast, QuotAtMost DEF FxMul

LEMMA SigmaCloses ==
    ASSUME TypeOK, SigmaInBounds, NEW improved \in BOOLEAN
    PROVE  SigmaMin <= SigmaAfter(improved) /\ SigmaAfter(improved) <= SigmaMax
<1>1. /\ sigma \in Nat /\ SigmaMin \in Nat /\ SigmaMax \in Nat
      /\ SigmaMin <= SigmaMax /\ SigmaGrow \in Nat /\ SigmaDecay \in Nat
  BY SigmaConstants DEF TypeOK, SigmaMax, Larger
<1>2. /\ FxMul(sigma, SigmaGrow) >= sigma /\ FxMul(sigma, SigmaDecay) <= sigma
  BY <1>1, SigmaStep
<1>3. FxMul(sigma, SigmaGrow) \in Nat /\ FxMul(sigma, SigmaDecay) \in Nat
  BY <1>1, FxMulNat
<1>4. SigmaMin <= sigma /\ sigma <= SigmaMax
  BY DEF SigmaInBounds
<1> HIDE DEF SigmaMax, FxMul
<1> QED
  BY <1>1, <1>2, <1>3, <1>4 DEF SigmaAfter, Smaller, Larger

(* Closing a generation is the only step that moves the counters of the    *)
(* set: one generation more, one stale generation more or none at all, and *)
(* the best observed result stays only in a generation without improvement.*)
LEMMA FinishCloses ==
    ASSUME ProtocolInv, NEW raws \in [Slots -> Results],
           NEW count \in 1 .. OffspringCount, FinishGeneration(raws, count)
    PROVE  \E improved \in BOOLEAN :
              /\ CloseCounters(improved)
              /\ ~improved => bestObserved' = bestObserved /\ bestObserved # None
<1> DEFINE pool == Pool(raws, count)
<1>1. Len(pool) \in Nat /\ 1 \in 1 .. Len(pool)
  <2>1. Len(pool) = Len(elites) + count
    BY PoolType DEF ProtocolInv
  <2>2. Len(elites) \in Nat /\ count \in Nat \ {0}
    BY CountFacts DEF ProtocolInv, TypeOK
  <2> HIDE DEF pool
  <2> QED
    BY <2>1, <2>2
<1> HIDE DEF pool
<1>2. \E I \in SUBSET (1 .. Len(pool)) :
         /\ Taken(I, pool)
         /\ I = {} => bestObserved' = bestObserved
         /\ CloseCounters(I # {})
  BY DEF FinishGeneration, pool
<1>3. PICK I \in SUBSET (1 .. Len(pool)) :
         /\ Taken(I, pool)
         /\ I = {} => bestObserved' = bestObserved
         /\ CloseCounters(I # {})
  BY <1>2
<1>4. I = {} => bestObserved # None
  BY <1>1, <1>3 DEF Taken
<1>5. CASE I = {}
  <2>1. CloseCounters(FALSE)
    BY <1>3, <1>5
  <2> QED
    BY <1>3, <1>4, <1>5, <2>1
<1>6. CASE I # {}
  <2>1. CloseCounters(TRUE)
    BY <1>3, <1>6
  <2> QED
    BY <2>1
<1> QED
  BY <1>5, <1>6

(* The mutation step stays between sigma_min and sigma_max, whatever the   *)
(* run of improvements and stale generations (ga_adapt_sigma).             *)
THEOREM SigmaBounded == Spec => []SigmaInBounds
<1>1. Init => SigmaInBounds
  BY SigmaConstants DEF Init, SigmaInBounds, SigmaMax, Larger
<1>2. ProtocolInv /\ SigmaInBounds /\ [Next]_gaVars => SigmaInBounds'
  <2> SUFFICES ASSUME ProtocolInv, SigmaInBounds, [Next]_gaVars
               PROVE  SigmaInBounds'
    OBVIOUS
  <2>1. ASSUME NEW r \in Results, RecordResult(r), ~done, GenerationOver,
               FinishGeneration(RecordedRaw(r), RecordedCount)
        PROVE  SigmaInBounds'
    <3>1. TypeOK /\ PendingIsOffered
      BY DEF ProtocolInv
    <3>2. RecordedRaw(r) \in [Slots -> Results] /\ RecordedCount \in 1 .. OffspringCount
      BY <2>1, <3>1, RecordedType, ClosingCount
    <3>3. PICK improved \in BOOLEAN : CloseCounters(improved)
      BY <2>1, <3>2, FinishCloses
    <3> QED
      BY <3>1, <3>3, SigmaCloses DEF CloseCounters, SigmaInBounds
  <2>2. CASE \E r \in Results : OfferNext(r)
    BY <2>2 DEF OfferNext, SigmaInBounds
  <2>3. CASE \E r \in Results : OfferFromNextGeneration(r)
    BY <2>1, <2>3 DEF OfferFromNextGeneration
  <2>4. CASE \E r \in Results : EndArgumentSet(r)
    BY <2>1, <2>4 DEF EndArgumentSet
  <2>5. CASE BeginNewArgumentSet
    BY <2>5, SigmaConstants
       DEF BeginNewArgumentSet, FreshArgumentSet, SigmaInBounds, SigmaMax, Larger
  <2>6. CASE UNCHANGED gaVars
    BY <2>6 DEF gaVars, SigmaInBounds
  <2> QED
    BY <2>2, <2>3, <2>4, <2>5, <2>6 DEF Next, GetNewParameters
<1> QED
  BY <1>1, <1>2, ProtocolInvariant, PTL DEF Spec

-----------------------------------------------------------------------------
(* The limits                                                              *)

LEMMA LimitsClose ==
    ASSUME ProtocolInv, LimitsRespected, ~done, NEW r \in Results,
           RecordResult(r), GenerationOver,
           FinishGeneration(RecordedRaw(r), RecordedCount)
    PROVE  /\ MaxGenerations > 0 => generation' <= MaxGenerations
           /\ MaxEvaluations > 0 => evaluations' <= MaxEvaluations
           /\ Patience > 0 => noImprove' <= Patience
           /\ done' <=> LimitReached(generation', evaluations', noImprove')
<1>1. /\ generation \in Nat /\ evaluations \in Nat /\ noImprove \in Nat
      /\ MaxGenerations \in Nat /\ MaxEvaluations \in Nat /\ Patience \in Nat
  BY GaConstants DEF ProtocolInv, TypeOK
<1>2. RecordedRaw(r) \in [Slots -> Results] /\ RecordedCount \in 1 .. OffspringCount
  BY RecordedType, ClosingCount DEF ProtocolInv
<1>3. PICK improved \in BOOLEAN : CloseCounters(improved)
  BY <1>2, FinishCloses
<1>4. /\ MaxGenerations > 0 => generation < MaxGenerations
      /\ Patience > 0 => noImprove < Patience
  BY <1>1 DEF LimitsRespected, LimitReached
<1>5. MaxEvaluations > 0 => evaluations < MaxEvaluations
  BY <1>1 DEF ProtocolInv, BudgetLeft, BudgetSpent
<1>6. evaluations' \in {evaluations, evaluations + 1}
  BY DEF RecordResult, RecordedTotal
<1>7. noImprove' \in {0, noImprove + 1} /\ generation' = generation + 1
  BY <1>3 DEF CloseCounters, StaleAfter
<1>8. done' <=> LimitReached(generation', evaluations', noImprove')
  BY <1>3 DEF CloseCounters
<1> QED
  BY <1>1, <1>4, <1>5, <1>6, <1>7, <1>8

(* No generation, evaluation or stale generation beyond its limit is ever  *)
(* run, and the set ends with the generation that reaches one of them      *)
(* (ga_finish_generation, ga_get_new_parameters).                          *)
THEOREM LimitsKept == Spec => []LimitsRespected
<1>1. Init => LimitsRespected
  BY GaConstants DEF Init, LimitsRespected, LimitReached
<1>2. ProtocolInv /\ LimitsRespected /\ [Next]_gaVars => LimitsRespected'
  <2> SUFFICES ASSUME ProtocolInv, LimitsRespected, [Next]_gaVars
               PROVE  LimitsRespected'
    OBVIOUS
  <2>1. ASSUME NEW r \in Results, OfferNext(r) PROVE LimitsRespected'
    <3>1. /\ ~done /\ ~done' /\ ~BudgetSpent(RecordedTotal)
          /\ evaluations' = RecordedTotal /\ evaluated' = RecordedCount
          /\ UNCHANGED <<generation, noImprove>>
      BY <2>1 DEF OfferNext, RecordResult, GenerationOver
    <3>2. /\ evaluations \in Nat /\ evaluated \in Nat /\ MaxEvaluations \in Nat
      BY GaConstants, CountFacts DEF ProtocolInv, TypeOK
    <3>3. evaluations' - evaluated' = evaluations - evaluated /\ evaluations' \in Nat
      BY <3>1, <3>2 DEF RecordedTotal, RecordedCount
    <3>4. MaxEvaluations > 0 => evaluations' <= MaxEvaluations
      BY <3>1, <3>2, <3>3 DEF BudgetSpent
    <3> QED
      BY <3>1, <3>3, <3>4 DEF LimitsRespected, LimitReached
  <2>2. ASSUME NEW r \in Results, OfferFromNextGeneration(r) PROVE LimitsRespected'
    <3>1. /\ MaxGenerations > 0 => generation' <= MaxGenerations
          /\ MaxEvaluations > 0 => evaluations' <= MaxEvaluations
          /\ Patience > 0 => noImprove' <= Patience
          /\ done' <=> LimitReached(generation', evaluations', noImprove')
      BY <2>2, LimitsClose DEF OfferFromNextGeneration
    <3>2. ~done' /\ evaluations' - evaluated' = evaluations'
      <4>1. evaluations' \in Nat
        BY <2>2, RecordFacts DEF OfferFromNextGeneration
      <4>2. ~done' /\ evaluated' = 0
        BY <2>2 DEF OfferFromNextGeneration
      <4>3. \A x \in Nat : x - 0 = x
        OBVIOUS
      <4> QED
        BY <4>1, <4>2, <4>3, Zenon
    <3> QED
      BY <3>1, <3>2 DEF LimitsRespected, LimitReached
  <2>3. ASSUME NEW r \in Results, EndArgumentSet(r) PROVE LimitsRespected'
    <3>1. /\ MaxGenerations > 0 => generation' <= MaxGenerations
          /\ MaxEvaluations > 0 => evaluations' <= MaxEvaluations
          /\ Patience > 0 => noImprove' <= Patience
          /\ done' <=> LimitReached(generation', evaluations', noImprove')
      BY <2>3, LimitsClose DEF EndArgumentSet
    <3>2. done'
      BY <2>3 DEF EndArgumentSet
    <3> QED
      BY <3>1, <3>2 DEF LimitsRespected, LimitReached
  <2>4. CASE BeginNewArgumentSet
    BY <2>4, GaConstants
       DEF BeginNewArgumentSet, FreshArgumentSet, LimitsRespected, LimitReached
  <2>5. CASE UNCHANGED gaVars
    BY <2>5 DEF gaVars, LimitsRespected, LimitReached
  <2> QED
    BY <2>1, <2>2, <2>3, <2>4, <2>5 DEF Next, GetNewParameters
<1> QED
  BY <1>1, <1>2, ProtocolInvariant, PTL DEF Spec

-----------------------------------------------------------------------------
(* Stale generations                                                       *)

(* How far back the last improvement lies, in answers of closed            *)
(* generations; the last generation of a finished set may be a short one.  *)
StaleAnswers ==
    IF noImprove = 0 THEN 0
    ELSE (noImprove - 1) * OffspringCount + IF done THEN evaluated ELSE OffspringCount

(* The invariant that carries StaleGenerationsAreStale through generations *)
(* that do improve: the best observed pair is always before the stale ones.*)
StaleInv ==
    /\ noImprove > 0 => noImprove < generation /\ bestObserved # None
    /\ bestObserved # None =>
          /\ generation > 0
          /\ \E i \in 1 .. ClosedLength - StaleAnswers : observed[i] = bestObserved

(* Closing a generation, whether or not another one follows.               *)
LEMMA StaleClose ==
    ASSUME ProtocolInv, MeasuredInv, StaleInv, ~done, NEW r \in Results,
           RecordResult(r), GenerationOver,
           FinishGeneration(RecordedRaw(r), RecordedCount),
           ClosedLength' = Len(observed'),
           evaluated' = IF done' THEN RecordedCount ELSE 0
    PROVE  StaleInv'
<1>1. TypeOK /\ PendingIsOffered /\ KeptPairsWereMeasured
  BY DEF ProtocolInv, MeasuredInv
<1>2. RecordedRaw(r) \in [Slots -> Results] /\ RecordedCount \in 1 .. OffspringCount
  BY <1>1, RecordedType, ClosingCount
<1>3. PICK improved \in BOOLEAN :
         /\ CloseCounters(improved)
         /\ ~improved => bestObserved' = bestObserved /\ bestObserved # None
  BY <1>2, FinishCloses
<1>4. /\ generation \in Nat /\ noImprove \in Nat /\ OffspringCount \in Nat
      /\ RecordedCount \in Nat
  BY <1>1, <1>2, CountFacts DEF TypeOK
<1>5. generation' = generation + 1 /\ noImprove' = StaleAfter(improved)
  BY <1>3 DEF CloseCounters
<1>6. /\ Len(observed') \in Nat
      /\ Len(observed') - RecordedCount = Len(observed) - evaluated
      /\ Len(observed) - evaluated \in 0 .. Len(observed)
      /\ \A i \in 1 .. Len(observed) : observed'[i] = observed[i]
  BY <1>1, RecordedHistory
<1>7. CASE improved
  <2>1. noImprove' = 0 /\ StaleAnswers' = 0
    BY <1>5, <1>7 DEF StaleAfter, StaleAnswers
  <2>2. bestObserved' \in Measured'
    BY MeasuredFinish
  <2>3. DOMAIN observed' = 1 .. Len(observed')
    <3>1. observed' \in Seq(Pair)
      BY RecordFacts
    <3> QED
      BY <3>1
  <2>4. \E i \in 1 .. Len(observed') : observed'[i] = bestObserved'
    BY <2>2, <2>3 DEF Measured
  <2>5. ClosedLength' - StaleAnswers' = Len(observed')
    BY <1>6, <2>1
  <2> QED
    BY <1>4, <1>5, <2>1, <2>4, <2>5 DEF StaleInv
<1>8. CASE ~improved
  <2>1. noImprove' = noImprove + 1 /\ bestObserved' = bestObserved /\ bestObserved # None
    BY <1>3, <1>5, <1>8 DEF StaleAfter
  <2>2. PICK i \in 1 .. ClosedLength - StaleAnswers : observed[i] = bestObserved
    BY <2>1 DEF StaleInv
  <2>3. generation > 0 /\ (noImprove > 0 => noImprove < generation)
    BY <2>1 DEF StaleInv
  <2>4. ClosedLength = Len(observed) - evaluated
    BY DEF ClosedLength
  <2>5. StaleAnswers \in Nat /\ StaleAnswers = noImprove * OffspringCount
    <3>1. CASE noImprove = 0
      BY <3>1, <1>4 DEF StaleAnswers
    <3>2. CASE noImprove # 0
      <4> DEFINE m == noImprove - 1
      <4>1. m \in Nat /\ noImprove = m + 1
        BY <1>4, <3>2
      <4>2. StaleAnswers = m * OffspringCount + OffspringCount
        BY <3>2 DEF StaleAnswers
      <4> HIDE DEF m
      <4>3. (m + 1) * OffspringCount = m * OffspringCount + OffspringCount
        BY <1>4, <4>1, NextMultiple
      <4>4. m * OffspringCount \in Nat
        BY <1>4, <4>1
      <4> QED
        BY <1>4, <4>1, <4>2, <4>3, <4>4
    <3> QED
      BY <3>1, <3>2
  <2>6. StaleAnswers' = noImprove * OffspringCount + RecordedCount
    <3>1. noImprove' # 0 /\ noImprove' - 1 = noImprove
      BY <1>4, <2>1
    <3>2. StaleAnswers' = noImprove * OffspringCount
                            + IF done' THEN evaluated' ELSE OffspringCount
      BY <3>1 DEF StaleAnswers
    <3>3. ~done' => RecordedCount = OffspringCount
      <4> SUFFICES ASSUME ~done' PROVE RecordedCount = OffspringCount
        OBVIOUS
      <4>1. ~LimitReached(generation', evaluations', noImprove')
        BY <1>3 DEF CloseCounters
      <4>2. ~BudgetSpent(RecordedTotal)
        BY <4>1 DEF LimitReached, BudgetSpent, RecordResult
      <4> QED
        BY <1>2, <1>4, <4>2 DEF GenerationOver
    <3> QED
      BY <3>2, <3>3
  <2>7. ClosedLength' - StaleAnswers' = ClosedLength - StaleAnswers
    <3> DEFINE stale == noImprove * OffspringCount
    <3>1. stale \in Nat
      BY <2>5
    <3> HIDE DEF stale
    <3>2. StaleAnswers = stale /\ StaleAnswers' = stale + RecordedCount
      BY <2>5, <2>6 DEF stale
    <3> QED
      BY <1>4, <1>6, <2>4, <3>1, <3>2, SMTT(30)
  <2>8. i \in 1 .. Len(observed)
    <3>1. Len(observed) \in Nat /\ ClosedLength \in 0 .. Len(observed)
      BY <1>1, <1>6, <2>4 DEF TypeOK
    <3> QED
      BY <2>2, <2>5, <3>1
  <2>9. observed'[i] = bestObserved' /\ i \in 1 .. ClosedLength' - StaleAnswers'
    BY <1>6, <2>1, <2>2, <2>7, <2>8
  <2>10. noImprove' < generation' /\ generation' > 0
    BY <1>4, <1>5, <2>1, <2>3
  <2> QED
    BY <2>1, <2>9, <2>10 DEF StaleInv
<1> QED
  BY <1>7, <1>8

LEMMA StaleOfferNext ==
    ASSUME ProtocolInv, MeasuredInv, StaleInv, NEW r \in Results, OfferNext(r)
    PROVE  StaleInv'
<1>1. /\ ~done /\ ~done' /\ RecordResult(r) /\ evaluated' = RecordedCount
      /\ UNCHANGED <<generation, noImprove, bestObserved>>
  BY DEF OfferNext
<1>2. /\ Len(observed') \in Nat
      /\ Len(observed') - RecordedCount = Len(observed) - evaluated
      /\ Len(observed) - evaluated \in 0 .. Len(observed)
      /\ \A i \in 1 .. Len(observed) : observed'[i] = observed[i]
  BY <1>1, RecordedHistory DEF MeasuredInv
<1>3. ClosedLength' = ClosedLength /\ StaleAnswers' = StaleAnswers
  BY <1>1, <1>2 DEF ClosedLength, StaleAnswers
<1>4. StaleAnswers \in Nat
  <2>1. noImprove \in Nat /\ OffspringCount \in Nat
    BY CountFacts DEF ProtocolInv, TypeOK
  <2>2. noImprove # 0 => (noImprove - 1) * OffspringCount \in Nat
    BY <2>1
  <2> QED
    BY <1>1, <2>1, <2>2 DEF StaleAnswers
<1>5. ASSUME bestObserved # None
      PROVE  \E i \in 1 .. ClosedLength - StaleAnswers : observed'[i] = bestObserved
  <2>1. PICK i \in 1 .. ClosedLength - StaleAnswers : observed[i] = bestObserved
    BY <1>5 DEF StaleInv
  <2>2. ClosedLength \in 0 .. Len(observed) /\ Len(observed) \in Nat
    BY <1>1, <1>2 DEF ClosedLength, ProtocolInv, TypeOK
  <2>3. i \in 1 .. Len(observed)
    BY <1>4, <2>1, <2>2
  <2> QED
    BY <1>2, <2>1, <2>3
<1> QED
  BY <1>1, <1>3, <1>5 DEF StaleInv

LEMMA StaleInvariant == Spec => []StaleInv
<1>1. Init => StaleInv
  BY DEF Init, StaleInv
<1>2. ProtocolInv /\ MeasuredInv /\ StaleInv /\ [Next]_gaVars => StaleInv'
  <2> SUFFICES ASSUME ProtocolInv, MeasuredInv, StaleInv, [Next]_gaVars
               PROVE  StaleInv'
    OBVIOUS
  <2>1. CASE \E r \in Results : OfferNext(r)
    BY <2>1, StaleOfferNext
  <2>2. ASSUME NEW r \in Results, OfferFromNextGeneration(r) PROVE StaleInv'
    <3>1. /\ ~done /\ RecordResult(r) /\ GenerationOver /\ ~done' /\ evaluated' = 0
          /\ FinishGeneration(RecordedRaw(r), RecordedCount)
      BY <2>2 DEF OfferFromNextGeneration
    <3>2. ClosedLength' = Len(observed')
      <4>1. Len(observed') \in Nat
        BY <3>1, RecordedHistory DEF MeasuredInv
      <4> QED
        BY <3>1, <4>1 DEF ClosedLength
    <3> QED
      BY <3>1, <3>2, StaleClose
  <2>3. ASSUME NEW r \in Results, EndArgumentSet(r) PROVE StaleInv'
    <3>1. /\ ~done /\ RecordResult(r) /\ GenerationOver /\ done'
          /\ evaluated' = RecordedCount
          /\ FinishGeneration(RecordedRaw(r), RecordedCount)
      BY <2>3 DEF EndArgumentSet
    <3>2. ClosedLength' = Len(observed')
      BY <3>1 DEF ClosedLength
    <3> QED
      BY <3>1, <3>2, StaleClose
  <2>4. CASE BeginNewArgumentSet
    BY <2>4 DEF BeginNewArgumentSet, FreshArgumentSet, StaleInv
  <2>5. CASE UNCHANGED gaVars
    BY <2>5 DEF gaVars, StaleInv, StaleAnswers, ClosedLength
  <2> QED
    BY <2>1, <2>2, <2>3, <2>4, <2>5 DEF Next, GetNewParameters
<1> QED
  BY <1>1, <1>2, ProtocolInvariant, MeasuredInvariant, PTL DEF Spec

(* The generations counted as stale really gave nothing: the best observed *)
(* pair was measured before the first of them, for every size of           *)
(* generation and a last one cut short (no_improve_generations, ga.c).     *)
THEOREM StaleIsStale == Spec => []StaleGenerationsAreStale
<1>1. StaleInv => StaleGenerationsAreStale
  <2> SUFFICES ASSUME StaleInv, noImprove > 0
               PROVE  /\ noImprove < generation
                      /\ \E i \in 1 .. ClosedLength - StaleAnswers :
                            observed[i] = bestObserved
    BY DEF StaleGenerationsAreStale, StaleAnswers
  <2> QED
    BY DEF StaleInv
<1> QED
  BY <1>1, StaleInvariant, PTL

-----------------------------------------------------------------------------
(* The optimizer implements the abstract search                            *)

(* Without a pending candidate a set that goes on has only just begun.     *)
IdleIsFresh == ~done /\ ~hasPending => evaluated = 0

LEMMA IdleInvariant == Spec => []IdleIsFresh
<1>1. Init => IdleIsFresh
  BY DEF Init, IdleIsFresh
<1>2. IdleIsFresh /\ [Next]_gaVars => IdleIsFresh'
  <2> SUFFICES ASSUME IdleIsFresh, [Next]_gaVars PROVE IdleIsFresh'
    OBVIOUS
  <2>1. CASE \E r \in Results : OfferNext(r)
    BY <2>1 DEF OfferNext, HandOut, IdleIsFresh
  <2>2. CASE \E r \in Results : OfferFromNextGeneration(r)
    BY <2>2 DEF OfferFromNextGeneration, HandOut, IdleIsFresh
  <2>3. CASE \E r \in Results : EndArgumentSet(r)
    BY <2>3 DEF EndArgumentSet, IdleIsFresh
  <2>4. CASE BeginNewArgumentSet
    BY <2>4 DEF BeginNewArgumentSet, FreshArgumentSet, IdleIsFresh
  <2>5. CASE UNCHANGED gaVars
    BY <2>5 DEF gaVars, IdleIsFresh
  <2> QED
    BY <2>1, <2>2, <2>3, <2>4, <2>5 DEF Next, GetNewParameters
<1> QED
  BY <1>1, <1>2, PTL DEF Spec

(* A set that goes on is short of both limits, and so of the answers they  *)
(* allow.                                                                  *)
LEMMA BelowBound ==
    ASSUME NEW gen \in Nat, NEW ev \in Nat, NEW len \in Nat,
           len = gen * OffspringCount + ev, ev < OffspringCount,
           MaxGenerations > 0 => gen < MaxGenerations,
           MaxEvaluations > 0 => len < MaxEvaluations
    PROVE  AnswerBound > 0 => len < AnswerBound
<1>1. /\ MaxGenerations \in Nat /\ MaxEvaluations \in Nat
      /\ OffspringCount \in Nat /\ gen * OffspringCount \in Nat
  BY GaConstants, CountFacts
<1>2. MaxGenerations > 0 => len < MaxGenerations * OffspringCount
  <2> SUFFICES ASSUME MaxGenerations > 0
               PROVE  len < MaxGenerations * OffspringCount
    OBVIOUS
  <2>1. (gen + 1) * OffspringCount = gen * OffspringCount + OffspringCount
    BY <1>1, NextMultiple
  <2>2. (gen + 1) * OffspringCount <= MaxGenerations * OffspringCount
    BY <1>1
  <2>3. MaxGenerations * OffspringCount \in Nat
    BY <1>1
  <2> QED
    BY <1>1, <2>1, <2>2, <2>3
<1> QED
  BY <1>1, <1>2 DEF AnswerBound, Smaller

LEMMA SameAnswers ==
    ASSUME ProtocolInv, NEW r \in Results, RecordResult(r)
    PROVE  observed' = Search!Told(r)
<1>1. hasPending <=> offered # None
  BY GaConstants DEF ProtocolInv, PendingIsOffered, TypeOK
<1> QED
  BY <1>1 DEF RecordResult, Search!Told

LEMMA OfferNextImplements ==
    ASSUME ProtocolInv, LimitsRespected, NEW r \in Results, OfferNext(r)
    PROVE  Search!Offer(r)
<1>1. /\ ~done /\ ~GenerationOver /\ RecordResult(r)
      /\ offered' = offspring[NextIndex]
      /\ UNCHANGED <<start, done, bestObserved>>
  BY DEF OfferNext, HandOut
<1>2. /\ evaluations' = RecordedTotal /\ evaluations' \in Nat
      /\ evaluations' = Len(observed')
      /\ evaluations' = generation * OffspringCount + RecordedCount
      /\ RecordedCount \in 0 .. OffspringCount
  BY <1>1, RecordFacts
<1>3. /\ generation \in Nat /\ OffspringCount \in Nat /\ RecordedCount \in Nat
      /\ MaxEvaluations \in Nat /\ MaxGenerations \in Nat
  BY <1>2, GaConstants, CountFacts DEF ProtocolInv, TypeOK
<1>4. RecordedCount < OffspringCount
  BY <1>1, <1>2, <1>3 DEF GenerationOver
<1>5. MaxEvaluations > 0 => evaluations' < MaxEvaluations
  BY <1>1, <1>2, <1>3 DEF GenerationOver, BudgetSpent
<1>6. MaxGenerations > 0 => generation < MaxGenerations
  BY <1>1, <1>3 DEF LimitsRespected, LimitReached
<1>7. AnswerBound > 0 => Len(observed') < AnswerBound
  <2>1. AnswerBound > 0 => evaluations' < AnswerBound
    BY <1>2, <1>3, <1>4, <1>5, <1>6, BelowBound
  <2> QED
    BY <1>2, <2>1
<1>8. offered' \in Params
  <2>1. NextIndex \in Slots
    BY <1>3, <1>4 DEF NextIndex, Slots
  <2> QED
    BY <1>1, <2>1 DEF ProtocolInv, TypeOK
<1> QED
  BY <1>1, <1>7, <1>8, SameAnswers DEF Search!Offer

(* What closing a generation does to the best observed pair.               *)
LEMMA BestImplements ==
    ASSUME ProtocolInv, MeasuredInv, ~done, NEW r \in Results, RecordResult(r),
           GenerationOver, FinishGeneration(RecordedRaw(r), RecordedCount)
    PROVE  /\ \/ bestObserved' = bestObserved
              \/ Search!Improves(bestObserved', bestObserved, observed')
           /\ bestObserved' # None
           /\ Search!WithinTolerance(bestObserved', observed')
<1>1. /\ bestObserved' \in Measured'
      /\ bestObserved' # None
      /\ \A i \in 1 .. Len(observed') :
            observed'[i].raw <= bestObserved'.raw + MinImprovement
  BY MeasuredFinish
<1>2. DOMAIN observed' = 1 .. Len(observed')
  <2>1. observed' \in Seq(Pair)
    BY RecordFacts
  <2> QED
    BY <2>1
<1>3. bestObserved # None /\ bestObserved' # bestObserved =>
         bestObserved'.raw > bestObserved.raw + MinImprovement
  BY FinishImproves
<1> QED
  BY <1>1, <1>2, <1>3 DEF Measured, Search!Improves, Search!WithinTolerance

LEMMA NextGenerationImplements ==
    ASSUME ProtocolInv, MeasuredInv, LimitsRespected, ProtocolInv', LimitsRespected',
           NEW r \in Results, OfferFromNextGeneration(r)
    PROVE  Search!Offer(r)
<1>1. /\ ~done /\ ~done' /\ GenerationOver /\ RecordResult(r)
      /\ FinishGeneration(RecordedRaw(r), RecordedCount)
      /\ evaluated' = 0
      /\ offered' = offspring'[0]
      /\ start' = start
  BY DEF OfferFromNextGeneration, HandOut
<1>2. /\ evaluations' \in Nat /\ generation' \in Nat
      /\ evaluations' = Len(observed')
      /\ evaluations' = generation' * OffspringCount + evaluated'
  BY <1>1 DEF ProtocolInv, TypeOK, EveryAnswerCounted
<1>3. /\ OffspringCount \in Nat \ {0} /\ MaxEvaluations \in Nat
      /\ MaxGenerations \in Nat /\ Patience \in Nat
  BY GaConstants, CountFacts
<1>4. ~LimitReached(generation', evaluations' - evaluated', noImprove')
  BY <1>1 DEF LimitsRespected
<1>5. /\ MaxEvaluations > 0 => evaluations' < MaxEvaluations
      /\ MaxGenerations > 0 => generation' < MaxGenerations
  <2>1. evaluations' - evaluated' = evaluations'
    <3>1. \A x \in Nat : x - 0 = x
      OBVIOUS
    <3> QED
      BY <1>1, <1>2, <3>1, Zenon
  <2>2. /\ ~(MaxEvaluations > 0 /\ evaluations' >= MaxEvaluations)
        /\ ~(MaxGenerations > 0 /\ generation' >= MaxGenerations)
    BY <1>4, <2>1 DEF LimitReached
  <2>3. \A x, y \in Nat : ~(x > 0 /\ y >= x) => (x > 0 => y < x)
    OBVIOUS
  <2> QED
    BY <1>2, <1>3, <2>2, <2>3, Zenon
<1>6. AnswerBound > 0 => Len(observed') < AnswerBound
  <2>1. evaluated' \in Nat /\ evaluated' < OffspringCount
    BY <1>1, <1>3
  <2>2. AnswerBound > 0 => evaluations' < AnswerBound
    BY <1>2, <1>5, <2>1, BelowBound
  <2> QED
    BY <1>2, <2>2
<1>7. offered' \in Params
  BY <1>1, CountFacts DEF ProtocolInv, TypeOK
<1>8. done' = done
  BY <1>1 DEF ProtocolInv, TypeOK
<1>9. \/ bestObserved' = bestObserved
      \/ Search!Improves(bestObserved', bestObserved, observed')
  BY <1>1, BestImplements
<1> QED
  BY <1>1, <1>6, <1>7, <1>8, <1>9, SameAnswers DEF Search!Offer

LEMMA EndImplements ==
    ASSUME ProtocolInv, MeasuredInv, IdleIsFresh,
           NEW r \in Results, EndArgumentSet(r)
    PROVE  Search!Conclude(r)
<1>1. /\ ~done /\ done' /\ GenerationOver /\ RecordResult(r)
      /\ FinishGeneration(RecordedRaw(r), RecordedCount)
      /\ offered' = None
      /\ start' = start
  BY DEF EndArgumentSet
<1>2. offered # None
  <2>1. CASE ~hasPending
    <3>1. RecordedCount = 0
      BY <1>1, <2>1 DEF IdleIsFresh, RecordedCount
    <3> QED
      BY <1>1, <3>1, ClosingCount
  <2>2. CASE hasPending
    <3>1. offered = offspring[activeIndex] /\ offspring[activeIndex] \in Params
      BY <2>2 DEF ProtocolInv, PendingIsOffered, TypeOK
    <3> QED
      BY <3>1, GaConstants
  <2> QED
    BY <2>1, <2>2
<1>3. done' = TRUE
  <2>1. TypeOK /\ PendingIsOffered
    BY DEF ProtocolInv
  <2>2. RecordedRaw(r) \in [Slots -> Results] /\ RecordedCount \in 1 .. OffspringCount
    BY <1>1, <2>1, RecordedType, ClosingCount
  <2>3. done' \in BOOLEAN
    BY <1>1, <2>1, <2>2, FinishFacts
  <2> QED
    BY <1>1, <2>3
<1>4. /\ \/ bestObserved' = bestObserved
         \/ Search!Improves(bestObserved', bestObserved, observed')
      /\ bestObserved' # None
      /\ Search!WithinTolerance(bestObserved', observed')
  BY <1>1, BestImplements
<1> QED
  BY <1>1, <1>2, <1>3, <1>4, SameAnswers DEF Search!Conclude

LEMMA BeginImplements ==
    ASSUME ProtocolInv, BeginNewArgumentSet
    PROVE  Search!Restart
<1>1. /\ done /\ FreshArgumentSet(start')
      /\ offered' = None /\ observed' = <<>>
      /\ \E new \in Params \cup {None} :
            start' = IF new # None THEN new
                     ELSE IF bestRegularized # None THEN bestRegularized.param
                     ELSE start
  BY DEF BeginNewArgumentSet
<1>2. start' \in Params
  <2>1. bestRegularized # None => bestRegularized.param \in Params
    BY DEF ProtocolInv, TypeOK, Pair
  <2>2. start \in Params
    BY DEF ProtocolInv, TypeOK
  <2> HIDE DEF Pair
  <2> QED
    BY <1>1, <2>1, <2>2, Zenon
<1>3. bestObserved' = None /\ done' = FALSE
  BY <1>1 DEF FreshArgumentSet
<1> QED
  BY <1>1, <1>2, <1>3 DEF Search!Restart

(* Every behaviour of the optimizer is one its caller is promised (ga.h):  *)
(* offers and answers alternate, no argument set takes more answers than   *)
(* its limits allow, and it ends with the best of what was measured.       *)
THEOREM Implements == Spec => ImplementsSearch
<1>1. Init => Search!SearchInit
  BY DEF Init, Search!SearchInit
<1>2. /\ ProtocolInv /\ ProtocolInv' /\ MeasuredInv /\ LimitsRespected
      /\ LimitsRespected' /\ IdleIsFresh /\ [Next]_gaVars
      => [Search!SearchNext]_Search!searchVars
  <2> SUFFICES ASSUME ProtocolInv, ProtocolInv', MeasuredInv, LimitsRespected,
                      LimitsRespected', IdleIsFresh, [Next]_gaVars
               PROVE  [Search!SearchNext]_Search!searchVars
    OBVIOUS
  <2>1. CASE \E r \in Results : OfferNext(r)
    BY <2>1, OfferNextImplements DEF Search!SearchNext
  <2>2. CASE \E r \in Results : OfferFromNextGeneration(r)
    BY <2>2, NextGenerationImplements DEF Search!SearchNext
  <2>3. CASE \E r \in Results : EndArgumentSet(r)
    BY <2>3, EndImplements DEF Search!SearchNext
  <2>4. CASE BeginNewArgumentSet
    BY <2>4, BeginImplements DEF Search!SearchNext
  <2>5. CASE UNCHANGED gaVars
    BY <2>5 DEF gaVars, Search!searchVars
  <2> QED
    BY <2>1, <2>2, <2>3, <2>4, <2>5 DEF Next, GetNewParameters
<1> QED
  BY <1>1, <1>2, ProtocolInvariant, MeasuredInvariant, LimitsKept, IdleInvariant, PTL
     DEF Spec, ImplementsSearch, Search!SearchSpec
=============================================================================
