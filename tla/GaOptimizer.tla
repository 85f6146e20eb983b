---------------------------- MODULE GaOptimizer ----------------------------
(***************************************************************************)
(* The ask/tell genetic optimizer of src/genetic/ga.c.  A caller asks for  *)
(* a candidate with ga_get_new_parameters(), reporting in the same call    *)
(* the result of the previous one; generations close when every offspring  *)
(* has a result or the evaluation budget is spent; the argument set is     *)
(* done when a limit is reached and ga_begin_new_argument_set() starts     *)
(* another.                                                                *)
(*                                                                         *)
(* A parameter vector is one raw Q48.16 coordinate.  Random draws are      *)
(* nondeterministic: mutation, blending and anchor pull may produce any    *)
(* value, which is then clamped as in the code.  Saturation of the         *)
(* fixed-point helpers is out of the range of the values used here.        *)
(* elite_fitness and best_regularized_fitness are written and never read   *)
(* by the code, and have no variable.                                      *)
(***************************************************************************)
EXTENDS Integers, Sequences

CONSTANTS
    Params,            \* raw parameter values that can occur
    Results,           \* raw objective values the caller can report
    None,              \* NULL, or "nothing yet"
    Pretrained,        \* the pretrained_params argument of ga_init
    LowerBound,        \* ga_config.lower_bound
    UpperBound,        \* ga_config.upper_bound
    CfgOffspringCount, \* ga_config.offspring_count, 0: the default
    CfgEliteCount,     \* ga_config.elite_count, 0: the default
    MaxGenerations,    \* ga_config.max_generations, 0: no limit
    MaxEvaluations,    \* ga_config.max_evaluations, 0: no limit
    Patience,          \* ga_config.patience_generations, 0: no limit
    MinImprovement,    \* ga_config.min_improvement
    One,               \* FXP48_16_ONE
    Scale,             \* ga_config.param_scale
    SameEps,           \* raw distance under which two vectors are the same
    SigmaInit, SigmaMin, CfgSigmaMax, SigmaDecay, SigmaGrow,
    LambdaPretrained, LambdaStart, LambdaStep, LambdaRadius, TrustRadius

Smaller(a, b) == IF a < b THEN a ELSE b
Larger(a, b)  == IF a > b THEN a ELSE b
AbsVal(a)     == IF a < 0 THEN -a ELSE a

(* ga_init: defaults, and the corrections it applies to the configuration. *)
OffspringCount == IF CfgOffspringCount = 0 THEN 20 ELSE CfgOffspringCount
EliteCount ==
    Smaller(IF CfgEliteCount = 0 THEN 3 ELSE CfgEliteCount, OffspringCount)
SigmaMax == Larger(CfgSigmaMax, SigmaInit)

Pair == [param : Params, raw : Results]

ASSUME GaConstants ==
    /\ Params \subseteq Int
    /\ Results \subseteq Int
    /\ 0 \in Results
    /\ None \notin Params
    /\ None \notin Pair
    /\ Pretrained \in Params
    /\ LowerBound \in Params
    /\ UpperBound \in Params
    /\ LowerBound <= UpperBound
    /\ CfgOffspringCount \in Nat
    /\ CfgEliteCount \in Nat
    /\ MaxGenerations \in Nat
    /\ MaxEvaluations \in Nat
    /\ Patience \in Nat
    /\ MinImprovement \in Nat
    /\ SameEps \in Nat
    /\ One \in Nat \ {0}
    /\ Scale \in Nat \ {0}
    /\ LambdaPretrained \in Nat
    /\ LambdaStart \in Nat
    /\ LambdaStep \in Nat
    /\ LambdaRadius \in Nat
    /\ TrustRadius \in Nat

(* ga_init corrects sigma_max against sigma_init but never against         *)
(* sigma_min; the configurations of the repository keep them ordered.      *)
ASSUME SigmaConstants ==
    /\ SigmaInit \in Nat \ {0}
    /\ SigmaMin \in Nat \ {0}
    /\ CfgSigmaMax \in Nat \ {0}
    /\ SigmaMin <= SigmaInit
    /\ SigmaDecay \in 1 .. One - 1
    /\ SigmaGrow \in Nat
    /\ SigmaGrow > One

Slots == 0 .. OffspringCount - 1

(* C division truncates toward zero; a fixed-point product or quotient is  *)
(* computed on magnitudes and so truncates toward zero as well.            *)
Quot(a, b)  == IF a >= 0 THEN a \div b ELSE -((-a) \div b)
FxMul(a, b) == Quot(a * b, One)
FxDiv(a, b) == Quot(a * One, b)

Clamp(x) == IF x < LowerBound THEN LowerBound
            ELSE IF x > UpperBound THEN UpperBound ELSE x

(* What mutation, blending and anchor pull can leave in a clamped child.   *)
Children == {Clamp(x) : x \in Params}

SameVec(a, b) == AbsVal(a - b) <= SameEps

Norm2(a, b) == LET d == FxDiv(a - b, Scale) IN FxMul(d, d)

(* ga_penalty without its parent term, and the parent term.                *)
Penalty(x, s) ==
    LET over == Norm2(x, s) - FxMul(TrustRadius, TrustRadius)
    IN  FxMul(LambdaPretrained, Norm2(x, Pretrained))
          + FxMul(LambdaStart, Norm2(x, s))
          + IF TrustRadius > 0 /\ over > 0 THEN FxMul(LambdaRadius, over) ELSE 0
StepPenalty(x, parent) == FxMul(LambdaStep, Norm2(x, parent))

VARIABLES
    start, offspring, offspringPenalty, offspringRaw,
    activeIndex, evaluated, hasPending,
    elites,           \* sequence of [param, raw, penalty], best fitness first
    bestRegularized,  \* None, or the first elite of the last generation
    bestObserved,     \* None, or [param, raw]
    generation, evaluations, noImprove, sigma, done,
    offered,          \* what the last ga_get_new_parameters() returned
    observed          \* history: the pairs the caller measured in this set

gaVars == <<start, offspring, offspringPenalty, offspringRaw, activeIndex,
            evaluated, hasPending, elites, bestRegularized, bestObserved,
            generation, evaluations, noImprove, sigma, done, offered, observed>>

Entry == [param : Params, raw : Results, penalty : Int]

-----------------------------------------------------------------------------
(* Generating candidates                                                   *)

(* ga_generate_initial: slot 0 is the start vector as it is, slot 1 the    *)
(* pretrained one unless the two are the same, the rest is noise.          *)
InitialOffspring(s) ==
    {o \in [Slots -> Children \cup {s}] :
        /\ o[0] = s
        /\ \A j \in Slots \ {0} : o[j] \in Children
        /\ 1 \in Slots /\ ~SameVec(s, Pretrained) => o[1] = Clamp(Pretrained)}

(* ga_generate_next_offspring with at least one elite.                     *)
NextOffspring(es, s) ==
    \E parent \in [Slots -> DOMAIN es] :
        /\ offspring' \in [Slots -> Children]
        /\ offspringPenalty' =
              [j \in Slots |-> Penalty(offspring'[j], s)
                                 + StepPenalty(offspring'[j], es[parent[j]].param)]

-----------------------------------------------------------------------------
(* Closing a generation                                                    *)

(* Mutant: the pool is every slot although the generation was cut short.   *)
PoolOfAllSlots(raws, count) ==
    elites \o [j \in 1 .. OffspringCount |-> [param   |-> offspring[j - 1],
                                              raw     |-> raws[j - 1],
                                              penalty |-> offspringPenalty[j - 1]]]

(* The elites kept so far, then the offspring that have a result.          *)
Pool(raws, count) ==
    elites \o [j \in 1 .. count |-> [param   |-> offspring[j - 1],
                                     raw     |-> raws[j - 1],
                                     penalty |-> offspringPenalty[j - 1]]]

MeanOf(f, n) ==
    LET sum[i \in 0 .. n] == IF i = 0 THEN 0 ELSE sum[i - 1] + f[i]
    IN  Quot(sum[n], n)

(* Results relative to their mean, in units of the mean absolute           *)
(* deviation, less the penalty.                                            *)
Fitness(pool) ==
    LET n    == Len(pool)
        mean == MeanOf([j \in 1 .. n |-> pool[j].raw], n)
        mad  == MeanOf([j \in 1 .. n |-> AbsVal(pool[j].raw - mean)], n)
        unit == IF mad <= 0 THEN One ELSE mad
    IN  [j \in 1 .. n |-> FxDiv(pool[j].raw - mean, unit) - pool[j].penalty]

NewElites(n) == Smaller(EliteCount, n)

(* The selection loop: repeatedly the first of the fittest left.           *)
Selections(fit, n) ==
    LET Before(a, b) == fit[a] > fit[b] \/ (fit[a] = fit[b] /\ a < b)
    IN  {pick \in [1 .. NewElites(n) -> 1 .. n] :
            /\ \A i, k \in DOMAIN pick : i < k => Before(pick[i], pick[k])
            /\ \A j \in 1 .. n : \/ \E i \in DOMAIN pick : pick[i] = j
                                 \/ \A i \in DOMAIN pick : Before(pick[i], j)}

(* Mutant: the scan misses the last entry.                                 *)
TakenButLast(I, pool) ==
    \A j \in 1 .. Len(pool) :
        j \in I <=>
            /\ j < Len(pool)
            /\ bestObserved # None =>
                  pool[j].raw > bestObserved.raw + MinImprovement
            /\ \A k \in I : k < j => pool[j].raw > pool[k].raw + MinImprovement

(* The scan for the best observed result: a pool entry is taken when it    *)
(* beats what the scan holds by more than the threshold.  Entries taken    *)
(* earlier are in increasing order, so that beating the last one is        *)
(* beating them all.                                                       *)
Taken(I, pool) ==
    \A j \in 1 .. Len(pool) :
        j \in I <=>
            /\ bestObserved # None =>
                  pool[j].raw > bestObserved.raw + MinImprovement
            /\ \A k \in I : k < j => pool[j].raw > pool[k].raw + MinImprovement

Asked(e) == [param |-> e.param, raw |-> e.raw]

(* Mutant: every limit is noticed one too late.                            *)
LimitPassed(gen, evals, stale) ==
    \/ MaxGenerations > 0 /\ gen > MaxGenerations
    \/ MaxEvaluations > 0 /\ evals > MaxEvaluations
    \/ Patience > 0 /\ stale > Patience

LimitReached(gen, evals, stale) ==
    \/ MaxGenerations > 0 /\ gen >= MaxGenerations
    \/ MaxEvaluations > 0 /\ evals >= MaxEvaluations
    \/ Patience > 0 /\ stale >= Patience

(* Mutants: an improvement does not reset the count; sigma has no cap.     *)
StaleEver(improved) == noImprove + 1
SigmaUncapped(improved) ==
    IF improved THEN FxMul(sigma, SigmaGrow)
    ELSE Larger(FxMul(sigma, SigmaDecay), SigmaMin)

StaleAfter(improved) == IF improved THEN 0 ELSE noImprove + 1

SigmaAfter(improved) ==
    IF improved THEN Smaller(FxMul(sigma, SigmaGrow), SigmaMax)
    ELSE Larger(FxMul(sigma, SigmaDecay), SigmaMin)

(* Bookkeeping of a generation that did, or did not, improve the best.     *)
CloseCounters(improved) ==
    /\ noImprove' = StaleAfter(improved)
    /\ sigma' = SigmaAfter(improved)
    /\ generation' = generation + 1
    /\ done' = LimitReached(generation', evaluations', noImprove')

(* ga_finish_generation over the first count offspring, whose results are  *)
(* raws.  The pool is never empty: both callers come with a result.        *)
FinishGeneration(raws, count) ==
    \E pool \in {Pool(raws, count)} :
        /\ \E fit \in {Fitness(pool)} :
              \E pick \in Selections(fit, Len(pool)) :
                 elites' = [i \in DOMAIN pick |-> pool[pick[i]]]
        /\ bestRegularized' = Asked(elites'[1])
        /\ \E I \in SUBSET (1 .. Len(pool)) :
              /\ Taken(I, pool)
              /\ \/ I = {} /\ bestObserved' = bestObserved
                 \/ \E last \in I :
                       /\ \A k \in I : k <= last
                       /\ bestObserved' = Asked(pool[last])
              /\ CloseCounters(I # {})
        /\ IF done' THEN UNCHANGED <<offspring, offspringPenalty>>
                    ELSE NextOffspring(elites', start)

-----------------------------------------------------------------------------
(* ga_record_result: the answer belongs to the active candidate; without a *)
(* pending candidate the value passed in is ignored.                       *)
RecordedRaw(r) == IF hasPending THEN [offspringRaw EXCEPT ![activeIndex] = r]
                  ELSE offspringRaw
RecordedCount  == IF hasPending THEN evaluated + 1 ELSE evaluated
RecordedTotal  == IF hasPending THEN evaluations + 1 ELSE evaluations

RecordResult(r) ==
    /\ offspringRaw' = RecordedRaw(r)
    /\ evaluations' = RecordedTotal
    /\ observed' = IF hasPending
                   THEN Append(observed, [param |-> offered, raw |-> r])
                   ELSE observed

(* Mutant: the budget is noticed one evaluation too late.                  *)
BudgetOverrun(evals) == MaxEvaluations > 0 /\ evals > MaxEvaluations

BudgetSpent(evals) == MaxEvaluations > 0 /\ evals >= MaxEvaluations

GenerationOver == BudgetSpent(RecordedTotal) \/ RecordedCount >= OffspringCount

(* The offspring asked for next is the first without a result.             *)
NextIndex == RecordedCount

(* Mutant: the candidate is not marked as pending.                         *)
HandOutUnmarked(candidate) ==
    /\ hasPending' = FALSE
    /\ offered' = candidate

HandOut(candidate) ==
    /\ hasPending' = TRUE
    /\ offered' = candidate

(* ga_get_new_parameters(r) inside a generation.                           *)
OfferNext(r) ==
    /\ ~done
    /\ ~GenerationOver
    /\ RecordResult(r)
    /\ evaluated' = RecordedCount
    /\ activeIndex' = NextIndex
    /\ HandOut(offspring[NextIndex])
    /\ UNCHANGED <<start, offspring, offspringPenalty, elites, bestRegularized,
                   bestObserved, generation, noImprove, sigma, done>>

(* ga_get_new_parameters(r) closing a generation, with another to follow.  *)
OfferFromNextGeneration(r) ==
    /\ ~done
    /\ GenerationOver
    /\ RecordResult(r)
    /\ FinishGeneration(RecordedRaw(r), RecordedCount)
    /\ ~done'
    /\ activeIndex' = 0
    /\ evaluated' = 0
    /\ HandOut(offspring'[0])
    /\ UNCHANGED start

(* ga_get_new_parameters(r) ending the argument set: it returns NULL.      *)
EndArgumentSet(r) ==
    /\ ~done
    /\ GenerationOver
    /\ RecordResult(r)
    /\ FinishGeneration(RecordedRaw(r), RecordedCount)
    /\ done'
    /\ evaluated' = RecordedCount
    /\ hasPending' = FALSE
    /\ offered' = None
    /\ UNCHANGED <<start, activeIndex>>

GetNewParameters(r) ==
    OfferNext(r) \/ OfferFromNextGeneration(r) \/ EndArgumentSet(r)

(* The state ga_init and ga_begin_new_argument_set have in common.         *)
FreshArgumentSet(s) ==
    /\ activeIndex' = 0
    /\ evaluated' = 0
    /\ hasPending' = FALSE
    /\ offspring' \in InitialOffspring(s)
    /\ offspringPenalty' = [j \in Slots |-> Penalty(offspring'[j], s)]
    /\ elites' = <<>>
    /\ bestRegularized' = None
    /\ bestObserved' = None
    /\ generation' = 0
    /\ evaluations' = 0
    /\ noImprove' = 0
    /\ sigma' = SigmaInit
    /\ done' = FALSE

(* ga_begin_new_argument_set(NULL) and (new_start_params); it answers      *)
(* -EBUSY, changing nothing, unless the set is done with nothing pending.  *)
BeginNewArgumentSet ==
    /\ done
    /\ ~hasPending
    /\ \E new \in Params \cup {None} :
          start' = IF new # None THEN new
                   ELSE IF bestRegularized # None THEN bestRegularized.param
                   ELSE start
    /\ FreshArgumentSet(start')
    /\ offered' = None
    /\ observed' = <<>>
    /\ UNCHANGED offspringRaw

Init ==
    /\ start \in Params
    /\ offspring \in InitialOffspring(start)
    /\ offspringPenalty = [j \in Slots |-> Penalty(offspring[j], start)]
    /\ offspringRaw = [j \in Slots |-> 0]
    /\ activeIndex = 0
    /\ evaluated = 0
    /\ hasPending = FALSE
    /\ elites = <<>>
    /\ bestRegularized = None
    /\ bestObserved = None
    /\ generation = 0
    /\ evaluations = 0
    /\ noImprove = 0
    /\ sigma = SigmaInit
    /\ done = FALSE
    /\ offered = None
    /\ observed = <<>>

Next == (\E r \in Results : GetNewParameters(r)) \/ BeginNewArgumentSet

Spec == Init /\ [][Next]_gaVars

(* The caller keeps asking: the worker thread calls once per period.       *)
FairSpec == Spec /\ WF_gaVars(\E r \in Results : GetNewParameters(r))

-----------------------------------------------------------------------------
(* Properties                                                              *)

(* Every variable has its type; the counters are naturals and the active   *)
(* slot exists (struct ga, ga.h).                                          *)
TypeOK ==
    /\ start \in Params
    /\ offspring \in [Slots -> Params]
    /\ offspringPenalty \in [Slots -> Int]
    /\ offspringRaw \in [Slots -> Results]
    /\ activeIndex \in Slots
    /\ evaluated \in 0 .. OffspringCount
    /\ hasPending \in BOOLEAN
    /\ elites \in Seq(Entry)
    /\ Len(elites) <= EliteCount
    /\ bestRegularized \in Pair \cup {None}
    /\ bestObserved \in Pair \cup {None}
    /\ generation \in Nat
    /\ evaluations \in Nat
    /\ noImprove \in Nat
    /\ sigma \in Nat
    /\ done \in BOOLEAN
    /\ offered \in Params \cup {None}
    /\ observed \in Seq(Pair)

Measured == {observed[i] : i \in DOMAIN observed}

(* The pairs measured in generations that have been closed.                *)
ClosedLength == IF done THEN Len(observed) ELSE Len(observed) - evaluated

(* A candidate is pending exactly while the caller holds one, it is the    *)
(* one the caller was given, and a finished argument set leaves none       *)
(* pending, so that ga_begin_new_argument_set() cannot answer -EBUSY.      *)
PendingIsOffered ==
    /\ hasPending => /\ ~done
                     /\ activeIndex = evaluated
                     /\ evaluated < OffspringCount
                     /\ offered = offspring[activeIndex]
    /\ ~hasPending => offered = None

(* Every answer the caller gave is counted once, in its generation: the    *)
(* counters of the generation and of the whole set agree with the history. *)
EveryAnswerCounted ==
    /\ evaluations = Len(observed)
    /\ ~done => evaluations = generation * OffspringCount + evaluated
    /\ done => evaluations = (generation - 1) * OffspringCount + evaluated

(* No result is ever credited to another candidate: what the optimizer     *)
(* keeps as elite, as best regularized and as best observed are pairs the  *)
(* caller measured in this argument set, even when the set ends inside a   *)
(* generation and old results are left in offspring_raw.                   *)
KeptPairsWereMeasured ==
    /\ \A i \in DOMAIN elites : Asked(elites[i]) \in Measured
    /\ bestRegularized # None => bestRegularized \in Measured
    /\ bestObserved # None => bestObserved \in Measured
    /\ ~done => \A j \in 0 .. evaluated - 1 :
          observed[Len(observed) - evaluated + j + 1]
             = [param |-> offspring[j], raw |-> offspringRaw[j]]

(* Nothing measured in a closed generation beats the best observed result  *)
(* by more than min_improvement, and there is one once a generation closed.*)
BestObservedIsBest ==
    \A i \in 1 .. ClosedLength :
        /\ bestObserved # None
        /\ observed[i].raw <= bestObserved.raw + MinImprovement

(* The limits of the configuration are never overrun, and the set is done  *)
(* exactly when one of them is reached.                                    *)
LimitsRespected ==
    /\ MaxGenerations > 0 => generation <= MaxGenerations
    /\ MaxEvaluations > 0 => evaluations <= MaxEvaluations
    /\ Patience > 0 => noImprove <= Patience
    /\ done <=> LimitReached(generation, IF done THEN evaluations
                                         ELSE evaluations - evaluated, noImprove)

(* no_improve_generations counts the last generations in a row that gave   *)
(* nothing better: the best observed pair was measured before them.        *)
StaleGenerationsAreStale ==
    LET last  == IF done THEN evaluated ELSE OffspringCount
        stale == IF noImprove = 0 THEN 0
                 ELSE (noImprove - 1) * OffspringCount + last
    IN  noImprove > 0 =>
            /\ noImprove < generation
            /\ \E i \in 1 .. ClosedLength - stale : observed[i] = bestObserved

(* Adaptation keeps the mutation step inside its configured bounds.        *)
SigmaInBounds == SigmaMin <= sigma /\ sigma <= SigmaMax

(* Within an argument set the best observed result only ever gets better,  *)
(* and by more than the threshold.                                         *)
BestObservedOnlyImproves ==
    [][ bestObserved # None /\ bestObserved' # bestObserved =>
          \/ done /\ ~done'
          \/ bestObserved'.raw > bestObserved.raw + MinImprovement ]_gaVars

(* A caller that keeps asking comes to the end of the argument set.        *)
ArgumentSetEnds == ~done ~> done

(* The optimizer keeps the promise of the abstract search.                 *)
AnswerBound ==
    IF MaxGenerations = 0 THEN MaxEvaluations
    ELSE IF MaxEvaluations = 0 THEN MaxGenerations * OffspringCount
    ELSE Smaller(MaxEvaluations, MaxGenerations * OffspringCount)

Search == INSTANCE ArgumentSetSearch
            WITH best <- bestObserved, MaxAnswers <- AnswerBound

ImplementsSearch == Search!SearchSpec
=============================================================================
