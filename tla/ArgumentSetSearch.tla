------------------------- MODULE ArgumentSetSearch -------------------------
(***************************************************************************)
(* What the genetic optimizer promises its caller (ga.h), without saying   *)
(* how it searches: one argument set is a sequence of offers, each offer   *)
(* is answered by one result, and when the set is done the best observed   *)
(* candidate is one the caller measured, with the result it reported, and  *)
(* nothing measured beats it by more than the improvement threshold.       *)
(* GaOptimizer implements this specification; TrainGovernor is built on    *)
(* it.                                                                     *)
(***************************************************************************)
EXTENDS Integers, Sequences

CONSTANTS
    Params,          \* the parameter vectors a search may offer
    Results,         \* the objective values a caller may report (raw Q48.16)
    MinImprovement,  \* ga_config.min_improvement
    MaxAnswers,      \* most results one argument set consumes, 0: no bound
    None             \* the NULL pointer

VARIABLES
    start,      \* the parameters the argument set starts from
    offered,    \* the candidate whose result is awaited, None if there is none
    observed,   \* the <<candidate, result>> pairs of this argument set, in order
    best,       \* the best observed pair, None before one is chosen
    done        \* the argument set is done

searchVars == <<start, offered, observed, best, done>>

Pair == [param : Params, raw : Results]

(* The answers after the caller reports r: a result reported while nothing *)
(* is on offer is dropped.                                                 *)
Told(r) ==
    IF offered = None THEN observed
    ELSE Append(observed, [param |-> offered, raw |-> r])

(* A later best observed pair is one of the measured ones and beats the    *)
(* one it replaces by more than the threshold.                             *)
Improves(new, old, measured) ==
    /\ \E i \in DOMAIN measured : new = measured[i]
    /\ old # None => new.raw > old.raw + MinImprovement

WithinTolerance(b, measured) ==
    \A i \in DOMAIN measured : measured[i].raw <= b.raw + MinImprovement

SearchInit ==
    /\ start \in Params
    /\ offered = None
    /\ observed = <<>>
    /\ best = None
    /\ done = FALSE

(* The caller reports a result and is given the next candidate.            *)
Offer(r) ==
    /\ ~done
    /\ observed' = Told(r)
    /\ MaxAnswers > 0 => Len(observed') < MaxAnswers
    /\ offered' \in Params
    /\ best' = best \/ Improves(best', best, observed')
    /\ UNCHANGED <<start, done>>

(* The caller reports the last result of the argument set.                 *)
Conclude(r) ==
    /\ ~done
    /\ offered # None
    /\ observed' = Told(r)
    /\ offered' = None
    /\ best' = best \/ Improves(best', best, observed')
    /\ best' # None
    /\ WithinTolerance(best', observed')
    /\ done' = TRUE
    /\ UNCHANGED start

(* The next argument set starts from given parameters or from measured     *)
(* ones.                                                                   *)
Restart ==
    /\ done
    /\ start' \in Params
    /\ offered' = None
    /\ observed' = <<>>
    /\ best' = None
    /\ done' = FALSE

SearchNext == (\E r \in Results : Offer(r) \/ Conclude(r)) \/ Restart

SearchSpec == SearchInit /\ [][SearchNext]_searchVars
=============================================================================
