---------------------------- MODULE NumberFacts -----------------------------
(***************************************************************************)
(* Facts about numbers that the proofs about several modules share: sums   *)
(* and powers of two, which the code computes by loops, and quotients and  *)
(* remainders, of counters that run modulo a width, of fixed-point numbers *)
(* and of the cells of a matrix.  The recursive definitions are reasoned   *)
(* about by the least number of which a statement fails.                   *)
(***************************************************************************)
EXTENDS Integers, WellFoundedInduction, TLAPS

(* A set of natural numbers that is not empty has a least element.         *)
LEMMA LeastNumber ==
  ASSUME NEW T \in SUBSET Nat, T # {}
  PROVE  \E x \in T : \A y \in T : ~(y < x)
  <1> DEFINE R == OpToRel(<, Nat)
  <1>1. IsWellFoundedOn(R, Nat)
    BY NatLessThanWellFounded
  <1>2. \A x, y \in Nat : <<y, x>> \in R <=> y < x
    BY DEF OpToRel
  <1> HIDE DEF R
  <1>3. \E x \in T : \A y \in T : ~(<<y, x>> \in R)
    BY <1>1, WFMin
  <1> QED
    BY <1>2, <1>3

(* Induction over the natural numbers, on the set of those of which the    *)
(* statement is true.                                                      *)
LEMMA SetInduction ==
  ASSUME NEW S, 0 \in S, \A n \in Nat : n \in S => n + 1 \in S
  PROVE  Nat \subseteq S
  <1> DEFINE T == Nat \ S
  <1>1. SUFFICES ASSUME T # {} PROVE FALSE
    OBVIOUS
  <1>2. T \in SUBSET Nat
    OBVIOUS
  <1>3. PICK x \in T : \A y \in T : ~(y < x)
    BY <1>1, <1>2, LeastNumber
  <1>4. x - 1 \in Nat
    BY <1>3
  <1>5. x - 1 \notin T
    BY <1>3, <1>4
  <1>6. x \in S
    BY <1>4, <1>5
  <1> QED
    BY <1>6

(***************************************************************************)
(* Sums                                                                    *)
(***************************************************************************)
(* g holds the sums of f from lo on.                                       *)
Running(g, f, lo, hi) ==
    g = [k \in lo .. hi |-> IF k = lo THEN 0 ELSE g[k - 1] + f[k - 1]]

(* f[lo] + ... + f[hi - 1]                                                 *)
Sum(f, lo, hi) ==
    LET upTo[k \in lo .. hi] == IF k = lo THEN 0 ELSE upTo[k - 1] + f[k - 1]
    IN  IF hi <= lo THEN 0 ELSE upTo[hi]

(* What such a function is at each place.                                  *)
LEMMA RunningValues ==
  ASSUME NEW f, NEW g, NEW lo \in Int, NEW hi \in Int, Running(g, f, lo, hi)
  PROVE  /\ DOMAIN g = lo .. hi
         /\ lo <= hi => g[lo] = 0
         /\ \A k \in lo .. hi - 1 : g[k + 1] = g[k] + f[k]
  <1> DEFINE v(k) == IF k = lo THEN 0 ELSE g[k - 1] + f[k - 1]
  <1>1. g = [k \in lo .. hi |-> v(k)]
    BY Zenon DEF Running
  <1> HIDE DEF v
  <1>2. DOMAIN g = lo .. hi /\ \A k \in lo .. hi : g[k] = v(k)
    BY <1>1
  <1>3. ASSUME NEW k \in lo .. hi - 1 PROVE g[k + 1] = g[k] + f[k]
    <2>1. k + 1 \in lo .. hi /\ k + 1 # lo /\ (k + 1) - 1 = k
      OBVIOUS
    <2>2. v(k + 1) = g[(k + 1) - 1] + f[(k + 1) - 1]
      BY <2>1 DEF v
    <2> QED
      BY <1>2, <2>1, <2>2
  <1>4. lo <= hi => g[lo] = 0
    BY <1>2 DEF v
  <1> QED
    BY <1>2, <1>3, <1>4

(* There is one for every range, although its definition is recursive.     *)
LEMMA RunningExists ==
  ASSUME NEW f, NEW lo \in Int, NEW n \in Nat
  PROVE  \E g : Running(g, f, lo, lo + n)
  <1> DEFINE S == {d \in Nat : \E g : Running(g, f, lo, lo + d)}
  <1>1. 0 \in S
    <2> DEFINE g == [k \in lo .. lo |-> 0]
    <2>1. Running(g, f, lo, lo)
      BY DEF Running
    <2> HIDE DEF g
    <2>2. lo + 0 = lo
      OBVIOUS
    <2> QED
      BY <2>1, <2>2
  <1>2. ASSUME NEW d \in Nat, d \in S PROVE d + 1 \in S
    <2>1. PICK g : Running(g, f, lo, lo + d)
      BY <1>2
    <2> DEFINE hi == lo + d
               h == [k \in lo .. hi + 1 |-> IF k = hi + 1 THEN g[hi] + f[hi] ELSE g[k]]
               v(k) == IF k = lo THEN 0 ELSE h[k - 1] + f[k - 1]
    <2>2. /\ lo <= hi => g[lo] = 0
          /\ \A k \in lo .. hi - 1 : g[k + 1] = g[k] + f[k]
      BY <2>1, RunningValues
    <2>3. ASSUME NEW k \in lo .. hi + 1 PROVE h[k] = v(k)
      <3>1. CASE k = lo
        BY <2>2, <3>1
      <3>2. CASE k # lo /\ k # hi + 1
        <4>1. k - 1 \in lo .. hi - 1 /\ (k - 1) + 1 = k /\ k \in lo .. hi
          BY <3>2
        <4>2. g[k] = g[k - 1] + f[k - 1]
          BY <2>2, <4>1
        <4>3. h[k] = g[k] /\ h[k - 1] = g[k - 1]
          BY <4>1, <3>2
        <4> QED
          BY <3>2, <4>2, <4>3
      <3>3. CASE k = hi + 1
        <4>1. k # lo /\ k - 1 = hi /\ hi \in lo .. hi + 1 /\ hi # hi + 1
          BY <3>3
        <4>2. h[k] = g[hi] + f[hi] /\ h[hi] = g[hi]
          BY <4>1, <3>3
        <4> QED
          BY <4>1, <4>2
      <3> QED
        BY <3>1, <3>2, <3>3
    <2>4. h = [k \in lo .. hi + 1 |-> v(k)]
      BY <2>3
    <2>5. Running(h, f, lo, hi + 1)
      BY <2>4 DEF Running
    <2>6. hi + 1 = lo + (d + 1) /\ d + 1 \in Nat
      OBVIOUS
    <2> HIDE DEF h, v
    <2>7. Running(h, f, lo, lo + (d + 1))
      BY <2>5, <2>6
    <2> QED
      BY <2>6, <2>7
  <1> HIDE DEF S
  <1>3. n \in S
    BY <1>1, <1>2, SetInduction
  <1> QED
    BY <1>3 DEF S

(* Two of them agree as far as both go.                                    *)
LEMMA RunningUnique ==
  ASSUME NEW f, NEW lo \in Int, NEW hi \in Int, NEW top \in Int, hi <= top,
         NEW g, Running(g, f, lo, hi), NEW h, Running(h, f, lo, top)
  PROVE  \A k \in lo .. hi : g[k] = h[k]
  <1> DEFINE S == {d \in Nat : lo + d <= hi => g[lo + d] = h[lo + d]}
  <1>1. /\ lo <= hi => g[lo] = 0 /\ h[lo] = 0
        /\ \A k \in lo .. hi - 1 : g[k + 1] = g[k] + f[k] /\ h[k + 1] = h[k] + f[k]
    BY RunningValues
  <1>2. 0 \in S
    BY <1>1
  <1>3. ASSUME NEW d \in Nat, d \in S PROVE d + 1 \in S
    <2>1. SUFFICES ASSUME lo + d + 1 <= hi PROVE g[lo + (d + 1)] = h[lo + (d + 1)]
      OBVIOUS
    <2>2. lo + d \in lo .. hi - 1 /\ (lo + d) + 1 = lo + (d + 1)
      BY <2>1
    <2>3. g[lo + d] = h[lo + d]
      BY <1>3, <2>2
    <2> QED
      BY <1>1, <2>2, <2>3
  <1> HIDE DEF S
  <1>4. \A d \in Nat : d \in S
    BY <1>2, <1>3, SetInduction
  <1>5. ASSUME NEW k \in lo .. hi PROVE g[k] = h[k]
    <2>1. k - lo \in Nat /\ lo + (k - lo) = k
      OBVIOUS
    <2>2. k - lo \in S
      BY <2>1, <1>4
    <2> QED
      BY <2>1, <2>2 DEF S
  <1> QED
    BY <1>5

(* So whichever of them is taken makes the sum.                            *)
LEMMA SumIsRunning ==
  ASSUME NEW f, NEW lo \in Int, NEW hi \in Int, lo <= hi, NEW g, Running(g, f, lo, hi)
  PROVE  Sum(f, lo, hi) = g[hi]
  <1> DEFINE h == CHOOSE h : h = [k \in lo .. hi |-> IF k = lo THEN 0 ELSE h[k - 1] + f[k - 1]]
  <1>1. h = [k \in lo .. hi |-> IF k = lo THEN 0 ELSE h[k - 1] + f[k - 1]]
    BY Zenon DEF Running
  <1>2. Sum(f, lo, hi) = IF hi <= lo THEN 0 ELSE h[hi]
    BY DEF Sum
  <1> HIDE DEF h
  <1>3. Running(h, f, lo, hi)
    BY <1>1, Zenon DEF Running
  <1>4. h[hi] = g[hi]
    BY <1>3, RunningUnique
  <1>5. lo = hi => g[hi] = 0
    BY RunningValues
  <1> QED
    BY <1>2, <1>4, <1>5

(* The two equations of a sum.                                             *)
LEMMA SumEmpty ==
  ASSUME NEW f, NEW lo \in Int, NEW hi \in Int, hi <= lo
  PROVE  Sum(f, lo, hi) = 0
  BY DEF Sum

(* A sum grows by the next number.                                         *)
LEMMA SumOneMore ==
  ASSUME NEW f, NEW lo \in Int, NEW hi \in Int, lo <= hi
  PROVE  Sum(f, lo, hi + 1) = Sum(f, lo, hi) + f[hi]
  <1>1. hi + 1 - lo \in Nat /\ lo + (hi + 1 - lo) = hi + 1 /\ hi - lo \in Nat /\ lo + (hi - lo) = hi
    OBVIOUS
  <1>2. PICK g : Running(g, f, lo, hi + 1)
    BY <1>1, RunningExists
  <1>3. PICK h : Running(h, f, lo, hi)
    BY <1>1, RunningExists
  <1>4. Sum(f, lo, hi + 1) = g[hi + 1] /\ Sum(f, lo, hi) = h[hi]
    BY <1>2, <1>3, SumIsRunning
  <1>5. h[hi] = g[hi]
    BY <1>2, <1>3, RunningUnique
  <1>6. g[hi + 1] = g[hi] + f[hi]
    BY <1>2, RunningValues
  <1> QED
    BY <1>4, <1>5, <1>6

(* The sum of integers is an integer.                                      *)
LEMMA SumType ==
  ASSUME NEW f, NEW lo \in Int, NEW hi \in Int, \A k \in lo .. hi - 1 : f[k] \in Int
  PROVE  Sum(f, lo, hi) \in Int
  <1> DEFINE S == {d \in Nat : lo + d <= hi => Sum(f, lo, lo + d) \in Int}
  <1>1. 0 \in S
    BY SumEmpty
  <1>2. ASSUME NEW d \in Nat, d \in S PROVE d + 1 \in S
    <2>1. SUFFICES ASSUME lo + d + 1 <= hi PROVE Sum(f, lo, lo + (d + 1)) \in Int
      OBVIOUS
    <2>2. lo + d \in lo .. hi - 1 /\ (lo + d) + 1 = lo + (d + 1) /\ lo <= lo + d
      BY <2>1
    <2>3. Sum(f, lo, lo + d) \in Int
      BY <1>2, <2>2
    <2>4. Sum(f, lo, (lo + d) + 1) = Sum(f, lo, lo + d) + f[lo + d]
      BY <2>2, SumOneMore
    <2> QED
      BY <2>2, <2>3, <2>4
  <1> HIDE DEF S
  <1>3. \A d \in Nat : d \in S
    BY <1>1, <1>2, SetInduction
  <1>4. CASE lo <= hi
    <2>1. hi - lo \in Nat /\ lo + (hi - lo) = hi
      BY <1>4
    <2> QED
      BY <1>3, <2>1 DEF S
  <1>5. CASE hi < lo
    BY <1>5, SumEmpty
  <1> QED
    BY <1>4, <1>5

(* A sum depends on the numbers that it adds up and on nothing else.       *)
LEMMA SumSame ==
  ASSUME NEW f, NEW g, NEW lo \in Int, NEW hi \in Int, \A k \in lo .. hi - 1 : f[k] = g[k]
  PROVE  Sum(f, lo, hi) = Sum(g, lo, hi)
  <1> DEFINE S == {d \in Nat : lo + d <= hi => Sum(f, lo, lo + d) = Sum(g, lo, lo + d)}
  <1>1. 0 \in S
    BY SumEmpty
  <1>2. ASSUME NEW d \in Nat, d \in S PROVE d + 1 \in S
    <2>1. SUFFICES ASSUME lo + d + 1 <= hi
                   PROVE  Sum(f, lo, lo + (d + 1)) = Sum(g, lo, lo + (d + 1))
      OBVIOUS
    <2>2. lo + d \in lo .. hi - 1 /\ (lo + d) + 1 = lo + (d + 1) /\ lo <= lo + d
      BY <2>1
    <2>3. Sum(f, lo, lo + d) = Sum(g, lo, lo + d)
      BY <1>2, <2>2
    <2>4. /\ Sum(f, lo, (lo + d) + 1) = Sum(f, lo, lo + d) + f[lo + d]
          /\ Sum(g, lo, (lo + d) + 1) = Sum(g, lo, lo + d) + g[lo + d]
      BY <2>2, SumOneMore
    <2> QED
      BY <2>2, <2>3, <2>4
  <1> HIDE DEF S
  <1>3. \A d \in Nat : d \in S
    BY <1>1, <1>2, SetInduction
  <1>4. CASE lo <= hi
    <2>1. hi - lo \in Nat /\ lo + (hi - lo) = hi
      BY <1>4
    <2> QED
      BY <1>3, <2>1 DEF S
  <1>5. CASE hi < lo
    BY <1>5, SumEmpty
  <1> QED
    BY <1>4, <1>5

(* A sum may be cut anywhere.                                              *)
LEMMA SumSplit ==
  ASSUME NEW f, NEW lo \in Int, NEW mid \in Int, NEW hi \in Int, lo <= mid, mid <= hi,
         \A k \in lo .. hi - 1 : f[k] \in Int
  PROVE  Sum(f, lo, hi) = Sum(f, lo, mid) + Sum(f, mid, hi)
  <1> DEFINE S == {d \in Nat : mid + d <= hi =>
                      Sum(f, lo, mid + d) = Sum(f, lo, mid) + Sum(f, mid, mid + d)}
  <1>0. Sum(f, lo, mid) \in Int
    BY SumType
  <1>1. 0 \in S
    BY <1>0, SumEmpty
  <1>2. ASSUME NEW d \in Nat, d \in S PROVE d + 1 \in S
    <2>1. SUFFICES ASSUME mid + d + 1 <= hi
                   PROVE  Sum(f, lo, mid + (d + 1))
                              = Sum(f, lo, mid) + Sum(f, mid, mid + (d + 1))
      OBVIOUS
    <2> DEFINE at == mid + d
    <2>2. at \in Int /\ at \in lo .. hi - 1 /\ at + 1 = mid + (d + 1) /\ lo <= at /\ mid <= at
      BY <2>1
    <2>3. Sum(f, lo, at) = Sum(f, lo, mid) + Sum(f, mid, at)
      BY <1>2, <2>1
    <2> HIDE DEF at
    <2>4. /\ Sum(f, lo, at + 1) = Sum(f, lo, at) + f[at]
          /\ Sum(f, mid, at + 1) = Sum(f, mid, at) + f[at]
      BY <2>2, SumOneMore
    <2>5. f[at] \in Int /\ Sum(f, mid, at) \in Int
      BY <2>2, SumType
    <2> QED
      BY <1>0, <2>2, <2>3, <2>4, <2>5
  <1> HIDE DEF S
  <1>3. \A d \in Nat : d \in S
    BY <1>1, <1>2, SetInduction
  <1>4. hi - mid \in Nat /\ mid + (hi - mid) = hi
    OBVIOUS
  <1> QED
    BY <1>3, <1>4 DEF S

(* Four accumulators that take every fourth element together have the sum. *)
LEMMA SumOfLanes ==
  ASSUME NEW f, NEW n \in Nat, \A k \in 0 .. 4 * n - 1 : f[k] \in Int
  PROVE  Sum([g \in 0 .. n - 1 |-> f[4 * g + 0]], 0, n)
             + Sum([g \in 0 .. n - 1 |-> f[4 * g + 1]], 0, n)
             + Sum([g \in 0 .. n - 1 |-> f[4 * g + 2]], 0, n)
             + Sum([g \in 0 .. n - 1 |-> f[4 * g + 3]], 0, n)
             = Sum(f, 0, 4 * n)
  <1> DEFINE L(l) == [g \in 0 .. n - 1 |-> f[4 * g + l]]
             S == {d \in Nat : d <= n =>
                      Sum(L(0), 0, d) + Sum(L(1), 0, d) + Sum(L(2), 0, d) + Sum(L(3), 0, d)
                          = Sum(f, 0, 4 * d)}
  <1>1. 0 \in S
    BY SumEmpty
  <1>2. ASSUME NEW d \in Nat, d \in S PROVE d + 1 \in S
    <2>1. SUFFICES ASSUME d + 1 <= n
                   PROVE  Sum(L(0), 0, d + 1) + Sum(L(1), 0, d + 1) + Sum(L(2), 0, d + 1)
                              + Sum(L(3), 0, d + 1) = Sum(f, 0, 4 * (d + 1))
      OBVIOUS
    <2>2. \A l \in 0 .. 3 : /\ 4 * d + l \in 0 .. 4 * n - 1
                            /\ L(l)[d] = f[4 * d + l]
                            /\ \A k \in 0 .. d - 1 : L(l)[k] \in Int
      <3>1. ASSUME NEW l \in 0 .. 3, NEW k \in 0 .. d
            PROVE  4 * k + l \in 0 .. 4 * n - 1 /\ L(l)[k] = f[4 * k + l]
        BY <2>1
      <3>2. ASSUME NEW l \in 0 .. 3
            PROVE  4 * d + l \in 0 .. 4 * n - 1 /\ L(l)[d] = f[4 * d + l]
        <4>1. d \in 0 .. d
          OBVIOUS
        <4> HIDE DEF L
        <4> QED
          BY <3>1, <4>1
      <3>3. ASSUME NEW l \in 0 .. 3, NEW k \in 0 .. d - 1 PROVE L(l)[k] \in Int
        <4>1. k \in 0 .. d
          OBVIOUS
        <4>2. 4 * k + l \in 0 .. 4 * n - 1 /\ L(l)[k] = f[4 * k + l]
          BY <3>1, <4>1
        <4> HIDE DEF L
        <4> QED
          BY <4>2
      <3> HIDE DEF L
      <3> QED
        BY <3>2, <3>3
    <2>3. /\ Sum(L(0), 0, d) \in Int /\ Sum(L(1), 0, d) \in Int
          /\ Sum(L(2), 0, d) \in Int /\ Sum(L(3), 0, d) \in Int
      <3>1. 0 \in 0 .. 3 /\ 1 \in 0 .. 3 /\ 2 \in 0 .. 3 /\ 3 \in 0 .. 3
        OBVIOUS
      <3> HIDE DEF L
      <3> QED
        BY <2>2, <3>1, SumType
    <2>4. Sum(L(0), 0, d) + Sum(L(1), 0, d) + Sum(L(2), 0, d) + Sum(L(3), 0, d)
              = Sum(f, 0, 4 * d)
      BY <1>2, <2>1
    <2>5. /\ Sum(L(0), 0, d + 1) = Sum(L(0), 0, d) + f[4 * d]
          /\ Sum(L(1), 0, d + 1) = Sum(L(1), 0, d) + f[4 * d + 1]
          /\ Sum(L(2), 0, d + 1) = Sum(L(2), 0, d) + f[4 * d + 2]
          /\ Sum(L(3), 0, d + 1) = Sum(L(3), 0, d) + f[4 * d + 3]
      <3>1. 0 \in 0 .. 3 /\ 1 \in 0 .. 3 /\ 2 \in 0 .. 3 /\ 3 \in 0 .. 3 /\ 4 * d + 0 = 4 * d
        OBVIOUS
      <3> HIDE DEF L
      <3>2. \A l \in 0 .. 3 : Sum(L(l), 0, d + 1) = Sum(L(l), 0, d) + L(l)[d]
        BY SumOneMore
      <3> QED
        BY <2>2, <3>1, <3>2
    <2> HIDE DEF L, S
    <2> DEFINE at == 4 * d
    <2>6. /\ at \in Nat /\ 4 * (d + 1) = at + 1 + 1 + 1 + 1
          /\ at + 2 = at + 1 + 1 /\ at + 3 = at + 1 + 1 + 1
      OBVIOUS
    <2>7. f[at] \in Int /\ f[at + 1] \in Int /\ f[at + 2] \in Int /\ f[at + 3] \in Int
      BY <2>1
    <2> HIDE DEF at
    <2>8. /\ Sum(f, 0, at + 1) = Sum(f, 0, at) + f[at]
          /\ Sum(f, 0, at + 1 + 1) = Sum(f, 0, at + 1) + f[at + 1]
          /\ Sum(f, 0, at + 1 + 1 + 1) = Sum(f, 0, at + 1 + 1) + f[at + 1 + 1]
          /\ Sum(f, 0, at + 1 + 1 + 1 + 1) = Sum(f, 0, at + 1 + 1 + 1) + f[at + 1 + 1 + 1]
      <3>1. /\ at \in Int /\ at + 1 \in Int /\ at + 1 + 1 \in Int
            /\ at + 1 + 1 + 1 \in Int /\ 0 \in Int
            /\ 0 <= at /\ 0 <= at + 1 /\ 0 <= at + 1 + 1 /\ 0 <= at + 1 + 1 + 1
        BY <2>6
      <3> QED
        BY <3>1, SumOneMore
    <2>9. Sum(f, 0, 4 * (d + 1)) = Sum(f, 0, at) + f[at] + f[at + 1] + f[at + 2] + f[at + 3]
      BY <2>6, <2>8
    <2> QED
      BY <2>3, <2>4, <2>5, <2>7, <2>9 DEF at
  <1>3. n \in S
    <2> HIDE DEF S
    <2>1. \A d \in Nat : d \in S
      BY <1>1, <1>2, SetInduction
    <2> QED
      BY <2>1
  <1> QED
    BY <1>3

(***************************************************************************)
(* Powers of two                                                           *)
(***************************************************************************)
(* g doubles from 1 on D.                                                  *)
Doubling(g, D) == /\ DOMAIN g = D
                  /\ g[0] = 1
                  /\ \A k \in D \ {0} : g[k] = 2 * g[k - 1]

(* There is such a function as far as one likes.                           *)
LEMMA DoublingExists ==
  ASSUME NEW n \in Nat
  PROVE  \E g : Doubling(g, 0 .. n)
  <1> DEFINE S == {d \in Nat : \E g : Doubling(g, 0 .. d)}
  <1>1. 0 \in S
    <2>1. Doubling([k \in 0 .. 0 |-> 1], 0 .. 0)
      BY DEF Doubling
    <2> QED
      BY <2>1
  <1>2. ASSUME NEW d \in Nat, d \in S PROVE d + 1 \in S
    <2>1. PICK g : Doubling(g, 0 .. d)
      BY <1>2
    <2> DEFINE h == [k \in 0 .. d + 1 |-> IF k = d + 1 THEN 2 * g[d] ELSE g[k]]
    <2>2. ASSUME NEW k \in (0 .. d + 1) \ {0} PROVE h[k] = 2 * h[k - 1]
      <3>1. CASE k = d + 1
        <4>1. k - 1 = d /\ d \in 0 .. d + 1 /\ d # d + 1
          BY <3>1
        <4> QED
          BY <3>1, <4>1
      <3>2. CASE k # d + 1
        <4>1. k \in (0 .. d) \ {0} /\ k - 1 \in 0 .. d + 1 /\ k - 1 # d + 1
          BY <3>2
        <4>2. g[k] = 2 * g[k - 1]
          BY <2>1, <4>1 DEF Doubling
        <4> QED
          BY <3>2, <4>1, <4>2
      <3> QED
        BY <3>1, <3>2
    <2>3. Doubling(h, 0 .. d + 1)
      <3>1. h[0] = 1 /\ DOMAIN h = 0 .. d + 1
        BY <2>1 DEF Doubling
      <3> HIDE DEF h
      <3> QED
        BY <2>2, <3>1 DEF Doubling
    <2> HIDE DEF h
    <2> QED
      BY <2>3
  <1> HIDE DEF S
  <1>3. n \in S
    BY <1>1, <1>2, SetInduction
  <1> QED
    BY <1>3 DEF S

(* Two of them agree where both are defined.                               *)
LEMMA DoublingUnique ==
  ASSUME NEW n \in Nat, NEW m \in Nat, m <= n,
         NEW g, Doubling(g, 0 .. n), NEW h, Doubling(h, 0 .. m)
  PROVE  \A k \in 0 .. m : g[k] = h[k]
  <1> DEFINE S == {d \in Nat : d <= m => g[d] = h[d]}
  <1>1. 0 \in S
    BY DEF Doubling
  <1>2. ASSUME NEW d \in Nat, d \in S PROVE d + 1 \in S
    <2>1. SUFFICES ASSUME d + 1 <= m PROVE g[d + 1] = h[d + 1]
      OBVIOUS
    <2>2. /\ d + 1 \in (0 .. m) \ {0} /\ d + 1 \in (0 .. n) \ {0}
          /\ (d + 1) - 1 = d /\ d <= m
      BY <2>1
    <2>3. g[d + 1] = 2 * g[d] /\ h[d + 1] = 2 * h[d]
      BY <2>2 DEF Doubling
    <2> QED
      BY <1>2, <2>2, <2>3
  <1>3. \A d \in Nat : d \in S
    <2> HIDE DEF S
    <2> QED
      BY <1>1, <1>2, SetInduction
  <1> QED
    BY <1>3

(* The recursive definition of powers of two has its solution.             *)
LEMMA PowersExist ==
  \E g : g = [n \in Nat |-> IF n = 0 THEN 1 ELSE 2 * g[n - 1]]
  <1> DEFINE h(n) == CHOOSE f : Doubling(f, 0 .. n)
             g == [n \in Nat |-> h(n)[n]]
  <1>1. ASSUME NEW n \in Nat PROVE Doubling(h(n), 0 .. n)
    BY DoublingExists, Zenon
  <1> HIDE DEF h
  <1>2. g[0] = 1
    BY <1>1 DEF Doubling
  <1>3. ASSUME NEW n \in Nat, n # 0 PROVE g[n] = 2 * g[n - 1]
    <2>1. n - 1 \in Nat /\ n - 1 <= n /\ n \in (0 .. n) \ {0} /\ n - 1 \in 0 .. n - 1
      BY <1>3
    <2>2. h(n)[n - 1] = h(n - 1)[n - 1]
      BY <1>1, <2>1, DoublingUnique
    <2>3. h(n)[n] = 2 * h(n)[n - 1]
      BY <1>1, <2>1 DEF Doubling
    <2> QED
      BY <2>1, <2>2, <2>3
  <1>4. g = [n \in Nat |-> IF n = 0 THEN 1 ELSE 2 * g[n - 1]]
    <2>1. \A n \in Nat : g[n] = IF n = 0 THEN 1 ELSE 2 * g[n - 1]
      BY <1>2, <1>3
    <2>2. g = [n \in Nat |-> g[n]]
      OBVIOUS
    <2> HIDE DEF g
    <2> QED
      BY <2>1, <2>2
  <1> HIDE DEF g
  <1> QED
    BY <1>4

(* What follows from the definition.                                       *)
LEMMA PowersOfTwo ==
  ASSUME NEW P, P = CHOOSE g : g = [n \in Nat |-> IF n = 0 THEN 1 ELSE 2 * g[n - 1]]
  PROVE  /\ P[0] = 1
         /\ \A n \in Nat : P[n] \in Nat \ {0} /\ P[n + 1] = 2 * P[n]
         /\ \A n, k \in Nat : P[n + k] = P[n] * P[k]
  <1>1. P = [n \in Nat |-> IF n = 0 THEN 1 ELSE 2 * P[n - 1]]
    BY PowersExist, Zenon
  <1>2. \A n \in Nat : P[n] = IF n = 0 THEN 1 ELSE 2 * P[n - 1]
    <2> DEFINE v(n) == IF n = 0 THEN 1 ELSE 2 * P[n - 1]
    <2>1. P = [n \in Nat |-> v(n)]
      BY <1>1
    <2> HIDE DEF v
    <2>2. \A n \in Nat : P[n] = v(n)
      BY <2>1
    <2> QED
      BY <2>2 DEF v
  <1>3. P[0] = 1
    BY <1>2
  <1>4. ASSUME NEW n \in Nat PROVE P[n + 1] = 2 * P[n]
    <2>1. n + 1 \in Nat /\ n + 1 # 0 /\ (n + 1) - 1 = n
      OBVIOUS
    <2> QED
      BY <1>2, <2>1
  <1>5. \A n \in Nat : P[n] \in Nat \ {0}
    <2> DEFINE S == {n \in Nat : P[n] \in Nat \ {0}}
    <2>1. 0 \in S
      BY <1>3
    <2>2. ASSUME NEW n \in Nat, n \in S PROVE n + 1 \in S
      BY <1>4, <2>2
    <2>3. \A n \in Nat : n \in S
      <3> HIDE DEF S
      <3> QED
        BY <2>1, <2>2, SetInduction
    <2> QED
      BY <2>3
  <1>6. ASSUME NEW n \in Nat PROVE \A k \in Nat : P[n + k] = P[n] * P[k]
    <2> DEFINE S == {k \in Nat : P[n + k] = P[n] * P[k]}
    <2>1. 0 \in S
      BY <1>3, <1>5
    <2>2. ASSUME NEW k \in Nat, k \in S PROVE k + 1 \in S
      <3>1. n + (k + 1) = (n + k) + 1 /\ n + k \in Nat
        OBVIOUS
      <3>2. P[n + (k + 1)] = 2 * P[n + k] /\ P[k + 1] = 2 * P[k]
        BY <1>4, <3>1
      <3>3. P[n + k] = P[n] * P[k] /\ P[n] \in Nat /\ P[k] \in Nat
        BY <1>5, <2>2
      <3>4. \A x, y \in Nat : 2 * (x * y) = x * (2 * y)
        OBVIOUS
      <3>5. P[n + (k + 1)] = P[n] * P[k + 1]
        BY <3>2, <3>3, <3>4
      <3> QED
        BY <3>5
    <2>3. \A k \in Nat : k \in S
      <3> HIDE DEF S
      <3> QED
        BY <2>1, <2>2, SetInduction
    <2> QED
      BY <2>3
  <1> QED
    BY <1>3, <1>4, <1>5, <1>6

(***************************************************************************)
(* Counters that run modulo a width                                        *)
(***************************************************************************)
(* Multiples of a width.                                                   *)
LEMMA Multiples ==
  ASSUME NEW W \in Nat, NEW a \in Int, NEW b \in Int
  PROVE  /\ W * (a - b) = W * a - W * b
         /\ W * (a + b) = W * a + W * b
         /\ a >= b => W * a >= W * b
  OBVIOUS

(* A remainder is below the width and stands for the number itself when    *)
(* that is.                                                                *)
LEMMA Remainder ==
  ASSUME NEW W \in Nat, W > 0, NEW x \in Int
  PROVE  /\ x % W \in 0 .. W - 1
         /\ x \div W \in Int
         /\ x = W * (x \div W) + (x % W)
  OBVIOUS

(* A number below the width is its own remainder.                          *)
LEMMA SmallRemainder ==
  ASSUME NEW W \in Nat, W > 0, NEW x \in 0 .. W - 1
  PROVE  x % W = x
  OBVIOUS

(* There is only one remainder.                                            *)
LEMMA UniqueRemainder ==
  ASSUME NEW W \in Nat, W > 0, NEW p \in Int, NEW q \in Int,
         NEW r \in 0 .. W - 1, NEW s \in 0 .. W - 1, W * p + r = W * q + s
  PROVE  r = s
  <1>1. ASSUME NEW a \in Int, NEW b \in Int, a > b PROVE W * a >= W * b + W
    <2>1. W * (b + 1) = W * b + W
      BY Multiples
    <2>2. W * a >= W * (b + 1)
      BY <1>1, Multiples
    <2> QED
      BY <2>1, <2>2
  <1>2. W * p \in Int /\ W * q \in Int
    OBVIOUS
  <1>3. CASE p > q
    <2>1. W * p >= W * q + W
      BY <1>1, <1>3
    <2> QED
      BY <2>1, <1>2
  <1>4. CASE q > p
    <2>1. W * q >= W * p + W
      BY <1>1, <1>4
    <2> QED
      BY <2>1, <1>2
  <1>5. CASE p = q
    BY <1>5, <1>2
  <1> QED
    BY <1>3, <1>4, <1>5

(* Going on from a remainder is going on from the number.                  *)
LEMMA RemainderPlus ==
  ASSUME NEW W \in Nat, W > 0, NEW x \in Int, NEW y \in Int
  PROVE  ((x % W) + y) % W = (x + y) % W
  <1> DEFINE a == (x % W) + y
             b == x + y
             p == (x \div W) + (a \div W)
  <1>1. x = W * (x \div W) + (x % W) /\ x \div W \in Int /\ x % W \in Int
    OBVIOUS
  <1>2. a \in Int /\ b \in Int
    BY <1>1
  <1>3. a = W * (a \div W) + (a % W) /\ a \div W \in Int /\ a % W \in 0 .. W - 1
    BY <1>2
  <1>4. b = W * (b \div W) + (b % W) /\ b \div W \in Int /\ b % W \in 0 .. W - 1
    BY <1>2
  <1>5. W * p = W * (x \div W) + W * (a \div W) /\ p \in Int
    BY <1>1, <1>3, Multiples
  <1>6. b = W * (x \div W) + a
    BY <1>1
  <1> HIDE DEF a, b, p
  <1>7. W * p + (a % W) = W * (b \div W) + (b % W)
    BY <1>1, <1>3, <1>4, <1>5, <1>6
  <1>8. a % W = b % W
    BY <1>3, <1>4, <1>5, <1>7, UniqueRemainder
  <1> QED
    BY <1>8 DEF a, b

(* A counter that ran on by e is e further from its baseline.              *)
LEMMA CounterRunsOn ==
  ASSUME NEW W \in Nat, W > 0, NEW c \in Int, NEW l \in Int, NEW e \in Int
  PROVE  (((c + e) % W) - l) % W = (((c - l) % W) + e) % W
  <1> DEFINE x == c + e
             y == -l
             z == c - l
  <1>0. x \in Int /\ y \in Int /\ z \in Int /\ x + y = z + e
    OBVIOUS
  <1> HIDE DEF x, y, z
  <1>1. ((x % W) + y) % W = (x + y) % W
    BY <1>0, RemainderPlus
  <1>2. ((z % W) + e) % W = (z + e) % W
    BY <1>0, RemainderPlus
  <1>3. (x % W) + y = (x % W) - l
    BY <1>0, Remainder DEF y
  <1> QED
    BY <1>0, <1>1, <1>2, <1>3 DEF x, z

(* As long as the distance stays below the width, it is what was counted.  *)
LEMMA DistanceIsCounted ==
  ASSUME NEW W \in Nat, W > 0, NEW c \in Int, NEW l \in Int,
         NEW d \in Nat, NEW e \in Nat, d + e < W, (c - l) % W = d
  PROVE  (((c + e) % W) - l) % W = d + e
  <1>1. (((c + e) % W) - l) % W = (d + e) % W
    <2>1. e \in Int
      OBVIOUS
    <2>2. (((c + e) % W) - l) % W = (((c - l) % W) + e) % W
      BY <2>1, CounterRunsOn, ZenonT(60)
    <2> QED
      BY <2>2
  <1>2. d + e \in 0 .. W - 1
    OBVIOUS
  <1>3. (d + e) % W = d + e
    BY <1>2, SmallRemainder
  <1> QED
    BY <1>1, <1>3

(* A counter stands at its baseline when that was just taken.              *)
LEMMA NoDistance ==
  ASSUME NEW W \in Nat, W > 0, NEW c \in Int
  PROVE  (c - c) % W = 0
  <1>1. c - c = 0 /\ 0 \in 0 .. W - 1
    OBVIOUS
  <1> QED
    BY <1>1, SmallRemainder

(* Finitely many numbers have a largest one.                               *)
LEMMA LargestExists ==
  ASSUME NEW f, NEW n \in Nat, \A x \in 1 .. n : f[x] \in Nat
  PROVE  \E w \in {0} \cup {f[x] : x \in 1 .. n} : w \in Nat /\ \A x \in 1 .. n : f[x] <= w
  <1> DEFINE S == {d \in Nat : d <= n =>
                      \E w \in {0} \cup {f[x] : x \in 1 .. d} :
                          w \in Nat /\ \A x \in 1 .. d : f[x] <= w}
  <1>1. 0 \in S
    OBVIOUS
  <1>2. ASSUME NEW d \in Nat, d \in S PROVE d + 1 \in S
    <2>1. SUFFICES ASSUME d + 1 <= n
                   PROVE  \E w \in {0} \cup {f[x] : x \in 1 .. d + 1} :
                              w \in Nat /\ \A x \in 1 .. d + 1 : f[x] <= w
      OBVIOUS
    <2>2. PICK w \in {0} \cup {f[x] : x \in 1 .. d} :
                   w \in Nat /\ \A x \in 1 .. d : f[x] <= w
      BY <1>2, <2>1
    <2>3. d + 1 \in 1 .. n /\ f[d + 1] \in Nat
      BY <2>1
    <2>4. CASE f[d + 1] <= w
      <3>1. \A x \in 1 .. d + 1 : f[x] <= w
        BY <2>2, <2>4
      <3>2. w \in {0} \cup {f[x] : x \in 1 .. d + 1}
        OBVIOUS
      <3> QED
        BY <2>2, <3>1, <3>2
    <2>5. CASE ~(f[d + 1] <= w)
      <3>1. \A x \in 1 .. d + 1 : f[x] <= f[d + 1]
        BY <2>2, <2>3, <2>5
      <3>2. f[d + 1] \in {0} \cup {f[x] : x \in 1 .. d + 1}
        OBVIOUS
      <3> QED
        BY <2>3, <3>1, <3>2
    <2> QED
      BY <2>4, <2>5
  <1>3. n \in S
    <2> HIDE DEF S
    <2>1. \A d \in Nat : d \in S
      BY <1>1, <1>2, SetInduction
    <2> QED
      BY <2>1
  <1> QED
    BY <1>3

(* The cells of a matrix, row by row.                                      *)
LEMMA CellInMatrix ==
  ASSUME NEW rows \in Nat, NEW cols \in Nat, NEW p \in 0 .. rows - 1, NEW q \in 0 .. cols - 1
  PROVE  p * cols + q \in 0 .. rows * cols - 1 /\ p * cols \in Nat
  <1>1. \A x, y \in Nat : x * y \in Nat
    OBVIOUS
  <1>2. p \in Nat /\ rows - (p + 1) \in Nat
    OBVIOUS
  <1>3. rows * cols = (rows - (p + 1)) * cols + (p * cols + cols)
    OBVIOUS
  <1>4. (rows - (p + 1)) * cols \in Nat /\ p * cols \in Nat
    BY <1>1, <1>2
  <1> QED
    BY <1>3, <1>4

(* The row and the column of a cell.                                       *)
LEMMA RowAndColumn ==
  ASSUME NEW W \in Nat, W > 0, NEW p \in Int, NEW q \in 0 .. W - 1
  PROVE  (p * W + q) \div W = p /\ (p * W + q) % W = q
  <1> DEFINE x == p * W + q
             d == x \div W
  <1>1. x \in Int /\ p * W = W * p
    OBVIOUS
  <1>2. d \in Int /\ x % W \in 0 .. W - 1 /\ x = W * d + (x % W)
    BY <1>1, Remainder
  <1>3. x = W * p + q
    BY <1>1
  <1> HIDE DEF x, d
  <1>4. W * d + (x % W) = W * p + q
    BY <1>2, <1>3
  <1>5. x % W = q
    BY <1>2, <1>4, UniqueRemainder
  <1>6. W * d = W * p
    <2>1. W * d \in Int /\ W * p \in Int
      BY <1>2
    <2> QED
      BY <1>4, <1>5, <2>1
  <1>7. d = p
    <2>1. \A e \in Int : e >= 1 => W * e >= W
      <3>1. SUFFICES ASSUME NEW e \in Int, e >= 1 PROVE W * e >= W
        OBVIOUS
      <3>2. W * e >= W * 1
        BY <3>1, Multiples
      <3> QED
        BY <3>2
    <2>2. W * (d - p) = 0 /\ W * (p - d) = 0
      BY <1>2, <1>6, Multiples
    <2>3. ~(d - p >= 1) /\ ~(p - d >= 1)
      BY <1>2, <2>1, <2>2
    <2> QED
      BY <1>2, <2>3
  <1> QED
    BY <1>5, <1>7 DEF x, d

(* Cells come row by row.                                                  *)
LEMMA CellOrder ==
  ASSUME NEW W \in Nat, NEW p \in Int, NEW q \in 0 .. W - 1, NEW e \in Int, NEW f \in 0 .. W
  PROVE  p * W + q < e * W + f <=> p < e \/ (p = e /\ q < f)
  <1>1. \A x, y \in Int : x < y => x * W + W <= y * W
    <2>1. SUFFICES ASSUME NEW x \in Int, NEW y \in Int, x < y PROVE x * W + W <= y * W
      OBVIOUS
    <2>2. W * y >= W * (x + 1) /\ W * (x + 1) = W * x + W * 1
      BY <2>1, Multiples
    <2> QED
      BY <2>2
  <1>2. p * W \in Int /\ e * W \in Int
    OBVIOUS
  <1>3. CASE p < e
    <2>1. p * W + W <= e * W
      BY <1>1, <1>3
    <2> QED
      BY <1>2, <1>3, <2>1
  <1>4. CASE e < p
    <2>1. e * W + W <= p * W
      BY <1>1, <1>4
    <2> QED
      BY <1>2, <1>4, <2>1
  <1>5. CASE p = e
    BY <1>2, <1>5
  <1> QED
    BY <1>3, <1>4, <1>5

(***************************************************************************)
(* Quotients                                                               *)
(***************************************************************************)
(* A quotient is known by its remainder.                                   *)
LEMMA QuotientIs ==
  ASSUME NEW W \in Nat, W > 0, NEW q \in Int, NEW s \in 0 .. W - 1,
         NEW x \in Int, x = W * q + s
  PROVE  x \div W = q
  <1>1. x = q * W + s
    OBVIOUS
  <1> QED
    BY <1>1, RowAndColumn

(* A multiple of the divisor passes through a quotient.                    *)
LEMMA QuotientPlus ==
  ASSUME NEW W \in Nat, W > 0, NEW p \in Int, NEW x \in Int
  PROVE  (W * p + x) \div W = p + (x \div W)
  <1> DEFINE d == x \div W
             s == x % W
  <1>1. d \in Int /\ s \in 0 .. W - 1 /\ x = W * d + s
    BY Remainder
  <1> HIDE DEF d, s
  <1>2. W * p + x = W * (p + d) + s /\ p + d \in Int /\ W * p + x \in Int
    BY <1>1, Multiples
  <1> QED
    BY <1>1, <1>2, QuotientIs DEF d

(* Bits are dropped at once or one after another.                          *)
LEMMA QuotientOfQuotient ==
  ASSUME NEW d \in Nat, d > 0, NEW e \in Nat, e > 0, NEW x \in Int
  PROVE  x \div (d * e) = (x \div d) \div e
  <1> DEFINE q == x \div d
             s == x % d
             p == q \div e
             t == q % e
  <1>1. q \in Int /\ s \in 0 .. d - 1 /\ x = d * q + s
    BY Remainder
  <1>2. p \in Int /\ t \in 0 .. e - 1 /\ q = e * p + t
    BY <1>1, Remainder
  <1> HIDE DEF q, s, p, t
  <1>3. d * q = d * (e * p) + d * t
    BY <1>1, <1>2
  <1>4. d * (e * p) = (d * e) * p
    BY <1>1, <1>2
  <1>5. d * t \in 0 .. d * (e - 1)
    BY <1>2
  <1>6. d * (e - 1) = d * e - d
    OBVIOUS
  <1>7. d * e \in Nat /\ d * e > 0
    OBVIOUS
  <1>8. (d * e) * p \in Int
    BY <1>2, <1>7
  <1>9. d * t + s \in 0 .. d * e - 1
    BY <1>1, <1>5, <1>6, <1>7
  <1>10. x = (d * e) * p + (d * t + s)
    BY <1>1, <1>3, <1>4, <1>5, <1>8
  <1>11. x \div (d * e) = p
    BY <1>2, <1>7, <1>9, <1>10, QuotientIs
  <1> QED
    BY <1>11 DEF p, q

(* A common factor cancels.                                                *)
LEMMA QuotientOfScaled ==
  ASSUME NEW d \in Nat, d > 0, NEW e \in Nat, e > 0, NEW x \in Int
  PROVE  (x * e) \div (e * d) = x \div d
  <1>1. e * x = e * x + 0 /\ e * x \in Int /\ x * e = e * x
    OBVIOUS
  <1>2. (e * x) \div e = x
    BY <1>1, QuotientIs
  <1> QED
    BY <1>1, <1>2, QuotientOfQuotient

(* A quotient reaches a number when the dividend reaches its multiple.     *)
LEMMA QuotientAtLeast ==
  ASSUME NEW d \in Nat, d > 0, NEW x \in Int, NEW p \in Int
  PROVE  x \div d >= p <=> x >= d * p
  <1> DEFINE q == x \div d
             s == x % d
  <1>1. q \in Int /\ s \in 0 .. d - 1 /\ x = d * q + s
    BY Remainder
  <1> HIDE DEF q, s
  <1>2. q >= p => d * q >= d * p
    BY <1>1, Multiples
  <1>3. q < p => d * q <= d * p - d
    <2>1. q < p => p - 1 >= q
      BY <1>1
    <2>2. q < p => d * (p - 1) >= d * q
      BY <1>1, <2>1, Multiples
    <2>3. d * (p - 1) = d * p - d
      BY Multiples
    <2> QED
      BY <2>2, <2>3
  <1>4. d * q \in Int /\ d * p \in Int
    BY <1>1
  <1> QED
    BY <1>1, <1>2, <1>3, <1>4 DEF q

(* A quotient rounds down.                                                 *)
LEMMA QuotientRounds ==
  ASSUME NEW d \in Nat, d > 0, NEW x \in Int
  PROVE  (x \div d) * d <= x /\ x < ((x \div d) + 1) * d
  <1> DEFINE q == x \div d
             s == x % d
  <1>1. q \in Int /\ s \in 0 .. d - 1 /\ x = d * q + s
    BY Remainder
  <1> HIDE DEF q, s
  <1>2. q * d = d * q /\ (q + 1) * d = d * q + d /\ d * q \in Int
    BY <1>1
  <1>3. q * d <= x /\ x < (q + 1) * d
    BY <1>1, <1>2
  <1> QED
    BY <1>3 DEF q

(* A larger dividend never makes a smaller quotient.                       *)
LEMMA QuotientGrows ==
  ASSUME NEW x \in Nat, NEW y \in Nat, x <= y, NEW d \in Nat, d > 0
  PROVE  x \div d \in Nat /\ x \div d <= y \div d
  OBVIOUS

(* Products of natural numbers are natural.                                *)
LEMMA ProductIsNatural == \A x, y \in Nat : x * y \in Nat
  OBVIOUS
=============================================================================
