------------------------- MODULE MeasurementProofs -------------------------
(***************************************************************************)
(* Proofs about the measurement of a CPU, for counters of any width, any   *)
(* set of events and bursts of any size.  The invariant adds to the        *)
(* properties where start, the worker and stop can be when the events      *)
(* exist, how far the counters stand from their baselines, and how many    *)
(* PMU readings lie behind the last energy reading at every position.      *)
(***************************************************************************)
EXTENDS Measurement, NumberFacts

Positions ==
    /\ module = "out" => at = "idle"
    /\ created <=> at \notin {"idle", "creating"}
    /\ at = "idle" => events = {}
    /\ created => events = Events
    /\ ~created => work = 0

WorkIsDistance ==
    created => \A ev \in Events : (value[ev] - prevValues[ev]) % PmuWrap = work

(* What the worker holds between its two readings, and what it made of an  *)
(* earlier pair of them.                                                   *)
CountsAreWork ==
    /\ at = "energy" =>
          \A ev \in DOMAIN cycles.counted : cycles.counted[ev] = cycles.done
    /\ SampleIsConsumption

OneReadingBehind ==
    /\ afterError \/ /\ at \in {"wait", "resetPmu"} => behind = 0
                     /\ at \in {"resetEnergy", "energy"} => behind = 1
    /\ SampleCoversOnePeriod

IInv ==
    /\ TypeOK /\ Positions /\ WorkIsDistance
    /\ BaselineIsFresh /\ CountsAreWork /\ OneReadingBehind

(* Readings of counters of the right width.                                *)
LEMMA Widths ==
  /\ \A x \in Int : x % PmuWrap \in 0 .. PmuWrap - 1
  /\ \A x \in Int : x % EnergyWrap \in 0 .. EnergyWrap - 1
  /\ 0 \in 0 .. PmuWrap - 1 /\ 0 \in 0 .. EnergyWrap - 1 /\ 0 \in 0 .. EnergyWrap
  /\ 0 \in 0 .. 2 /\ 1 \in 0 .. 2 /\ 2 \in 0 .. 2
  BY MeasurementConstants, Remainder

(* A counter that does not exist has no values.                            *)
LEMMA NoValues == << >> \in [{} -> 0 .. PmuWrap - 1]
  OBVIOUS

(* As long as it stays below the width, the distance is what was counted.  *)
LEMMA PmuRunsOn ==
  \A c \in Int : \A l \in Int : \A d \in Nat : \A w \in Nat :
     d + w < PmuWrap /\ (c - l) % PmuWrap = d =>
        (((c + w) % PmuWrap) - l) % PmuWrap = d + w
  <1> SUFFICES ASSUME NEW c \in Int, NEW l \in Int, NEW d \in Nat,
     NEW w \in Nat,
                      d + w < PmuWrap, (c - l) % PmuWrap = d
               PROVE  (((c + w) % PmuWrap) - l) % PmuWrap = d + w
    OBVIOUS
  <1>1. PmuWrap \in Nat /\ PmuWrap > 0
    BY MeasurementConstants
  <1>2. w \in Int
    OBVIOUS
  <1>3. (((c + w) % PmuWrap) - l) % PmuWrap = (((c - l) % PmuWrap) + w) % PmuWrap
    BY <1>1, <1>2, CounterRunsOn, ZenonT(60)
  <1>4. (d + w) % PmuWrap = d + w
    <2>1. d + w \in 0 .. PmuWrap - 1
      BY <1>1
    <2> QED
      BY <1>1, <2>1, SmallRemainder
  <1> QED
    BY <1>3, <1>4

LEMMA InitInv == Init => IInv
  <1> SUFFICES ASSUME Init PROVE IInv
    OBVIOUS
  <1>1. value \in [events -> 0 .. PmuWrap - 1] /\ prevValues = value
    BY DEF Init
  <1>2. TypeOK
    BY <1>1, Widths DEF Init, TypeOK
  <1>3. Positions /\ WorkIsDistance /\ BaselineIsFresh
    BY DEF Init, Positions, WorkIsDistance, BaselineIsFresh, Started
  <1>4. CountsAreWork /\ OneReadingBehind
    BY DEF Init, CountsAreWork, OneReadingBehind, SampleIsConsumption,
       SampleCoversOnePeriod
  <1> QED
    BY <1>2, <1>3, <1>4 DEF IInv

(* Every step keeps the types: readings stay within their widths.          *)
LEMMA TypeStep == IInv /\ [Next]_vars => TypeOK'
  <1> SUFFICES ASSUME IInv, [Next]_vars PROVE TypeOK'
    OBVIOUS
  <1> USE DEF IInv, TypeOK, moduleVars, energyVars, pmuVars, worldVars
  <1>1. ASSUME NEW w \in 0 .. MaxBurst, NEW e \in 0 .. MaxBurst, Burn(w, e)
        PROVE  TypeOK'
    <2>1. \A ev \in events : (value[ev] + w) % PmuWrap \in 0 .. PmuWrap - 1
      BY Widths
    <2>2. value' \in [events -> 0 .. PmuWrap - 1]
      BY <2>1, <1>1 DEF Burn
    <2>3. msr' \in 0 .. EnergyWrap - 1
      BY <1>1, Widths DEF Burn
    <2>4. work' \in 0 .. PmuWrap - 1
      BY <1>1, MeasurementConstants DEF Burn
    <2>5. joules' \in 0 .. EnergyWrap
      BY <1>1, MeasurementConstants DEF Burn
    <2> QED
      BY <1>1, <2>2, <2>3, <2>4, <2>5 DEF Burn
  <1>2. ASSUME StartCreate PROVE TypeOK'
    BY <1>2, Widths DEF StartCreate
  <1>3. ASSUME CreateEvent PROVE TypeOK'
    BY <1>3, Widths DEF CreateEvent
  <1>4. ASSUME CreateFails PROVE TypeOK'
    BY <1>4, Widths, NoValues DEF CreateFails, PmuDelete
  <1>5. ASSUME CreateDone PROVE TypeOK'
    <2>1. PICK w \in 0 .. MaxBurst : value' = [ev \in Events |-> w % PmuWrap]
      BY <1>5 DEF CreateDone
    <2>2. value' \in [Events -> 0 .. PmuWrap - 1]
      BY <2>1, Widths
    <2> QED
      BY <1>5, <2>2, Widths DEF CreateDone
  <1>6. ASSUME StartEnergy PROVE TypeOK'
    BY <1>6, Widths DEF StartEnergy, EnergyRead
  <1>7. ASSUME StartEnergyFails PROVE TypeOK'
    BY <1>7, Widths, NoValues DEF StartEnergyFails, EnergyError, PmuDelete
  <1>8. ASSUME ResetPmu PROVE TypeOK'
    BY <1>8, Widths DEF ResetPmu, PmuRead
  <1>9. ASSUME ResetEnergy PROVE TypeOK'
    BY <1>9, Widths DEF ResetEnergy, EnergyRead, EnergyError
  <1>10. ASSUME SamplePmu PROVE TypeOK'
    BY <1>10, Widths DEF SamplePmu, PmuRead
  <1>11. ASSUME SampleEnergy PROVE TypeOK'
    BY <1>11, Widths DEF SampleEnergy, EnergyRead
  <1>12. ASSUME SampleEnergyFails PROVE TypeOK'
    BY <1>12, Widths DEF SampleEnergyFails, EnergyError
  <1>13. ASSUME Stop PROVE TypeOK'
    BY <1>13, Widths, NoValues DEF Stop, PmuDelete
  <1>14. ASSUME Load PROVE TypeOK'
    BY <1>14, Widths DEF Load
  <1>15. ASSUME Unload PROVE TypeOK'
    BY <1>15, Widths DEF Unload
  <1>16. ASSUME UNCHANGED vars PROVE TypeOK'
    BY <1>16 DEF vars
  <1> QED
    BY <1>1, <1>2, <1>3, <1>4, <1>5, <1>6, <1>7, <1>8, <1>9, <1>10, <1>11,
       <1>12, <1>13, <1>14, <1>15, <1>16
       DEF Next

(* Events exist exactly from the end of their creation to their deletion.  *)
LEMMA PositionsStep == IInv /\ [Next]_vars => Positions'
  <1> SUFFICES ASSUME IInv, [Next]_vars PROVE Positions'
    OBVIOUS
  <1> USE DEF IInv, TypeOK, moduleVars, energyVars, pmuVars, worldVars
  <1>1. ASSUME NEW w \in 0 .. MaxBurst, NEW e \in 0 .. MaxBurst, Burn(w, e)
        PROVE  Positions'
    BY <1>1 DEF Burn, Positions
  <1>2. ASSUME StartCreate PROVE Positions'
    BY <1>2 DEF StartCreate, Positions
  <1>3. ASSUME CreateEvent PROVE Positions'
    BY <1>3 DEF CreateEvent, Positions
  <1>4. ASSUME CreateFails PROVE Positions'
    BY <1>4 DEF CreateFails, PmuDelete, Positions
  <1>5. ASSUME CreateDone PROVE Positions'
    BY <1>5 DEF CreateDone, Positions
  <1>6. ASSUME StartEnergy PROVE Positions'
    BY <1>6 DEF StartEnergy, EnergyRead, Positions
  <1>7. ASSUME StartEnergyFails PROVE Positions'
    BY <1>7 DEF StartEnergyFails, EnergyError, PmuDelete, Positions
  <1>8. ASSUME ResetPmu PROVE Positions'
    BY <1>8 DEF ResetPmu, PmuRead, Positions
  <1>9. ASSUME ResetEnergy PROVE Positions'
    BY <1>9 DEF ResetEnergy, EnergyRead, EnergyError, Positions
  <1>10. ASSUME SamplePmu PROVE Positions'
    BY <1>10 DEF SamplePmu, PmuRead, Positions
  <1>11. ASSUME SampleEnergy PROVE Positions'
    BY <1>11 DEF SampleEnergy, EnergyRead, Positions
  <1>12. ASSUME SampleEnergyFails PROVE Positions'
    BY <1>12 DEF SampleEnergyFails, EnergyError, Positions
  <1>13. ASSUME Stop PROVE Positions'
    BY <1>13 DEF Stop, PmuDelete, Positions
  <1>14. ASSUME Load PROVE Positions'
    BY <1>14 DEF Load, Positions
  <1>15. ASSUME Unload PROVE Positions'
    BY <1>15 DEF Unload, Positions
  <1>16. ASSUME UNCHANGED vars PROVE Positions'
    BY <1>16 DEF vars, Positions
  <1> QED
    BY <1>1, <1>2, <1>3, <1>4, <1>5, <1>6, <1>7, <1>8, <1>9, <1>10, <1>11,
       <1>12, <1>13, <1>14, <1>15, <1>16
       DEF Next

(* An event stands as far from its baseline as the CPU has worked.         *)
LEMMA WorkStep == IInv /\ [Next]_vars => WorkIsDistance'
  <1> SUFFICES ASSUME IInv, [Next]_vars PROVE WorkIsDistance'
    OBVIOUS
  <1> USE DEF IInv, TypeOK, moduleVars, energyVars, pmuVars, worldVars
  <1>1. ASSUME NEW w \in 0 .. MaxBurst, NEW e \in 0 .. MaxBurst, Burn(w, e)
        PROVE  WorkIsDistance'
    <2>1. CASE ~created
      BY <1>1, <2>1 DEF Burn, WorkIsDistance
    <2>2. CASE created
      <3> SUFFICES ASSUME NEW ev \in Events
                   PROVE  (value'[ev] - prevValues'[ev]) % PmuWrap = work'
        BY DEF WorkIsDistance
      <3>1. events = Events /\ (value[ev] - prevValues[ev]) % PmuWrap = work
        BY <2>2 DEF Positions, WorkIsDistance
      <3>2. value[ev] \in Int /\ prevValues[ev] \in Int /\ work \in Nat
        BY <3>1
      <3>3. w \in Nat /\ work + w < PmuWrap
        BY <1>1, MeasurementConstants DEF Burn
      <3>4. (((value[ev] + w) % PmuWrap) - prevValues[ev]) % PmuWrap = work + w
        <4> DEFINE v == value[ev]
                   p == prevValues[ev]
        <4> HIDE DEF IInv, TypeOK
        <4>1. /\ v \in Int /\ p \in Int /\ work \in Nat /\ w \in Nat
              /\ work + w < PmuWrap /\ (v - p) % PmuWrap = work
          BY <3>1, <3>2, <3>3
        <4> HIDE DEF v, p
        <4>2. (((v + w) % PmuWrap) - p) % PmuWrap = work + w
          BY <4>1, PmuRunsOn, ZenonT(60)
        <4> QED
          BY <4>2 DEF v, p
      <3>5. value'[ev] = (value[ev] + w) % PmuWrap
        BY <1>1, <3>1 DEF Burn
      <3> QED
        BY <1>1, <3>4, <3>5 DEF Burn
    <2> QED
      BY <2>1, <2>2
  <1>2. ASSUME StartCreate PROVE WorkIsDistance'
    BY <1>2 DEF StartCreate, Positions, WorkIsDistance
  <1>3. ASSUME CreateEvent PROVE WorkIsDistance'
    BY <1>3 DEF CreateEvent, Positions, WorkIsDistance
  <1>4. ASSUME CreateFails PROVE WorkIsDistance'
    BY <1>4 DEF CreateFails, PmuDelete, Positions, WorkIsDistance
  <1>5. ASSUME CreateDone PROVE WorkIsDistance'
    <2>1. PICK w \in 0 .. MaxBurst : value' = [ev \in Events |-> w % PmuWrap]
      BY <1>5 DEF CreateDone
    <2>2. ASSUME NEW ev \in Events
          PROVE  (value'[ev] - prevValues'[ev]) % PmuWrap = 0
      <3>1. w % PmuWrap \in Int
        BY Widths
      <3> QED
        BY <1>5, <2>1, <3>1, MeasurementConstants, NoDistance DEF CreateDone
    <2> QED
      BY <1>5, <2>2 DEF CreateDone, WorkIsDistance
  <1>6. ASSUME StartEnergy PROVE WorkIsDistance'
    BY <1>6 DEF StartEnergy, EnergyRead, Positions, WorkIsDistance
  <1>7. ASSUME StartEnergyFails PROVE WorkIsDistance'
    BY <1>7
       DEF StartEnergyFails, EnergyError, PmuDelete, Positions, WorkIsDistance
  <1>8. ASSUME ResetPmu PROVE WorkIsDistance'
    <2>1. ASSUME NEW ev \in Events, created
          PROVE  (value[ev] - value[ev]) % PmuWrap = 0
      BY <2>1, MeasurementConstants, NoDistance DEF Positions
    <2> QED
      BY <1>8, <2>1 DEF ResetPmu, PmuRead, WorkIsDistance
  <1>9. ASSUME ResetEnergy PROVE WorkIsDistance'
    BY <1>9 DEF ResetEnergy, EnergyRead, EnergyError, Positions, WorkIsDistance
  <1>10. ASSUME SamplePmu PROVE WorkIsDistance'
    <2>1. ASSUME NEW ev \in Events, created
          PROVE  (value[ev] - value[ev]) % PmuWrap = 0
      BY <2>1, MeasurementConstants, NoDistance DEF Positions
    <2> QED
      BY <1>10, <2>1 DEF SamplePmu, PmuRead, WorkIsDistance
  <1>11. ASSUME SampleEnergy PROVE WorkIsDistance'
    BY <1>11 DEF SampleEnergy, EnergyRead, Positions, WorkIsDistance
  <1>12. ASSUME SampleEnergyFails PROVE WorkIsDistance'
    BY <1>12 DEF SampleEnergyFails, EnergyError, Positions, WorkIsDistance
  <1>13. ASSUME Stop PROVE WorkIsDistance'
    BY <1>13 DEF Stop, PmuDelete, Positions, WorkIsDistance
  <1>14. ASSUME Load PROVE WorkIsDistance'
    BY <1>14 DEF Load, Positions, WorkIsDistance
  <1>15. ASSUME Unload PROVE WorkIsDistance'
    BY <1>15 DEF Unload, Positions, WorkIsDistance
  <1>16. ASSUME UNCHANGED vars PROVE WorkIsDistance'
    BY <1>16 DEF vars, Positions, WorkIsDistance
  <1> QED
    BY <1>1, <1>2, <1>3, <1>4, <1>5, <1>6, <1>7, <1>8, <1>9, <1>10, <1>11,
       <1>12, <1>13, <1>14, <1>15, <1>16
       DEF Next

(* The energy counter stands as far from its baseline as energy was        *)
(* burnt since the last reading, from the first one of start on.           *)
LEMMA BaselineStep == IInv /\ [Next]_vars => BaselineIsFresh'
  <1> SUFFICES ASSUME IInv, [Next]_vars PROVE BaselineIsFresh'
    OBVIOUS
  <1> USE DEF IInv, TypeOK, moduleVars, energyVars, pmuVars, worldVars
  <1>1. ASSUME NEW w \in 0 .. MaxBurst, NEW e \in 0 .. MaxBurst, Burn(w, e)
        PROVE  BaselineIsFresh'
    <2> SUFFICES ASSUME Started
                 PROVE  /\ initialized'
                        /\ (msr' - lastRaw') % EnergyWrap = joules'
                        /\ joules' < EnergyWrap
      BY <1>1 DEF Burn, BaselineIsFresh, Started
    <2>1. initialized /\ (msr - lastRaw) % EnergyWrap = joules /\ joules + e < EnergyWrap
      BY <1>1 DEF Burn, BaselineIsFresh
    <2>2. msr \in Int /\ lastRaw \in Int /\ joules \in Nat /\ e \in Nat
      BY MeasurementConstants
    <2>3. (((msr + e) % EnergyWrap) - lastRaw) % EnergyWrap = joules + e
      BY <2>1, <2>2, MeasurementConstants, DistanceIsCounted
    <2> QED
      BY <1>1, <2>1, <2>2, <2>3 DEF Burn
  <1>2. ASSUME StartCreate PROVE BaselineIsFresh'
    BY <1>2 DEF StartCreate, Positions, BaselineIsFresh, Started
  <1>3. ASSUME CreateEvent PROVE BaselineIsFresh'
    BY <1>3 DEF CreateEvent, Positions, BaselineIsFresh, Started
  <1>4. ASSUME CreateFails PROVE BaselineIsFresh'
    BY <1>4 DEF CreateFails, PmuDelete, Positions, BaselineIsFresh, Started
  <1>5. ASSUME CreateDone PROVE BaselineIsFresh'
    BY <1>5 DEF CreateDone, Positions, BaselineIsFresh, Started
  <1>6. ASSUME StartEnergy PROVE BaselineIsFresh'
    <2>1. (msr - msr) % EnergyWrap = 0 /\ 0 < EnergyWrap
      BY MeasurementConstants, NoDistance
    <2> QED
      BY <1>6, <2>1 DEF StartEnergy, EnergyRead, BaselineIsFresh, Started
  <1>7. ASSUME StartEnergyFails PROVE BaselineIsFresh'
    BY <1>7
       DEF StartEnergyFails, EnergyError, PmuDelete, Positions,
           BaselineIsFresh, Started
  <1>8. ASSUME ResetPmu PROVE BaselineIsFresh'
    BY <1>8 DEF ResetPmu, PmuRead, Positions, BaselineIsFresh, Started
  <1>9. ASSUME ResetEnergy PROVE BaselineIsFresh'
    <2>1. (msr - msr) % EnergyWrap = 0 /\ 0 < EnergyWrap
      BY MeasurementConstants, NoDistance
    <2> QED
      BY <1>9, <2>1
         DEF ResetEnergy, EnergyRead, EnergyError, BaselineIsFresh, Started
  <1>10. ASSUME SamplePmu PROVE BaselineIsFresh'
    BY <1>10 DEF SamplePmu, PmuRead, Positions, BaselineIsFresh, Started
  <1>11. ASSUME SampleEnergy PROVE BaselineIsFresh'
    <2>1. (msr - msr) % EnergyWrap = 0 /\ 0 < EnergyWrap
      BY MeasurementConstants, NoDistance
    <2> QED
      BY <1>11, <2>1 DEF SampleEnergy, EnergyRead, BaselineIsFresh, Started
  <1>12. ASSUME SampleEnergyFails PROVE BaselineIsFresh'
    BY <1>12
       DEF SampleEnergyFails, EnergyError, Positions, BaselineIsFresh, Started
  <1>13. ASSUME Stop PROVE BaselineIsFresh'
    BY <1>13 DEF Stop, PmuDelete, Positions, BaselineIsFresh, Started
  <1>14. ASSUME Load PROVE BaselineIsFresh'
    BY <1>14 DEF Load, Positions, BaselineIsFresh, Started
  <1>15. ASSUME Unload PROVE BaselineIsFresh'
    BY <1>15 DEF Unload, Positions, BaselineIsFresh, Started
  <1>16. ASSUME UNCHANGED vars PROVE BaselineIsFresh'
    BY <1>16 DEF vars, Positions, BaselineIsFresh, Started
  <1> QED
    BY <1>1, <1>2, <1>3, <1>4, <1>5, <1>6, <1>7, <1>8, <1>9, <1>10, <1>11,
       <1>12, <1>13, <1>14, <1>15, <1>16
       DEF Next

(* The energy of a sample is rounded down to a microjoule.                 *)
LEMMA MicrojoulesRoundDown ==
  ASSUME IInv
  PROVE  LET uj == (joules * EnergyScale) \div EnergyUnit
         IN  uj * EnergyUnit <= joules * EnergyScale /\ joules * EnergyScale < (uj + 1) * EnergyUnit
  <1>1. EnergyUnit \in Nat /\ EnergyUnit > 0 /\ EnergyScale \in Nat /\ joules \in Nat
    BY MeasurementConstants DEF IInv, TypeOK
  <1>2. joules * EnergyScale \in Int
    BY <1>1
  <1> QED
    BY <1>1, <1>2, QuotientRounds

(* What a reading returns is the distance from the baseline it replaces.   *)
LEMMA CountsStep == IInv /\ [Next]_vars => CountsAreWork'
  <1> SUFFICES ASSUME IInv, [Next]_vars PROVE CountsAreWork'
    OBVIOUS
  <1> USE DEF IInv, TypeOK, moduleVars, energyVars, pmuVars, worldVars
  <1>1. ASSUME NEW w \in 0 .. MaxBurst, NEW e \in 0 .. MaxBurst, Burn(w, e)
        PROVE  CountsAreWork'
    BY <1>1 DEF Burn, CountsAreWork, SampleIsConsumption
  <1>2. ASSUME StartCreate PROVE CountsAreWork'
    BY <1>2 DEF StartCreate, CountsAreWork, SampleIsConsumption
  <1>3. ASSUME CreateEvent PROVE CountsAreWork'
    BY <1>3 DEF CreateEvent, CountsAreWork, SampleIsConsumption
  <1>4. ASSUME CreateFails PROVE CountsAreWork'
    BY <1>4 DEF CreateFails, PmuDelete, CountsAreWork, SampleIsConsumption
  <1>5. ASSUME CreateDone PROVE CountsAreWork'
    BY <1>5 DEF CreateDone, CountsAreWork, SampleIsConsumption
  <1>6. ASSUME StartEnergy PROVE CountsAreWork'
    BY <1>6 DEF StartEnergy, EnergyRead, CountsAreWork, SampleIsConsumption
  <1>7. ASSUME StartEnergyFails PROVE CountsAreWork'
    BY <1>7
       DEF StartEnergyFails, EnergyError, PmuDelete, CountsAreWork,
           SampleIsConsumption
  <1>8. ASSUME ResetPmu PROVE CountsAreWork'
    BY <1>8 DEF ResetPmu, PmuRead, CountsAreWork, SampleIsConsumption
  <1>9. ASSUME ResetEnergy PROVE CountsAreWork'
    BY <1>9
       DEF ResetEnergy, EnergyRead, EnergyError, CountsAreWork,
           SampleIsConsumption
  <1>10. ASSUME SamplePmu PROVE CountsAreWork'
    <2>1. \A ev \in DOMAIN Counted : Counted[ev] = work
      BY <1>10 DEF SamplePmu, Counted, Positions, WorkIsDistance
    <2>2. cycles' = [counted |-> Counted, done |-> work]
      BY <1>10 DEF SamplePmu
    <2>3. \A ev \in DOMAIN cycles'.counted : cycles'.counted[ev] = cycles'.done
      BY <2>1, <2>2
    <2> QED
      BY <1>10, <2>3 DEF SamplePmu, CountsAreWork, SampleIsConsumption
  <1>11. ASSUME SampleEnergy PROVE CountsAreWork'
    <2>1. EnergyDelta = (joules * EnergyScale) \div EnergyUnit
      BY <1>11 DEF SampleEnergy, EnergyDelta, BaselineIsFresh, Started
    <2>5. /\ EnergyDelta * EnergyUnit <= joules * EnergyScale
          /\ joules * EnergyScale < (EnergyDelta + 1) * EnergyUnit
      BY <2>1, MicrojoulesRoundDown
    <2>2. \A ev \in DOMAIN cycles.counted : cycles.counted[ev] = cycles.done
      BY <1>11 DEF SampleEnergy, CountsAreWork
    <2>3. CASE sample' = sample
      BY <1>11, <2>3 DEF SampleEnergy, CountsAreWork, SampleIsConsumption
    <2>4. CASE sample' = [counted |-> cycles.counted, done |-> cycles.done,
                          energy |-> EnergyDelta, burnt |-> joules, periods |-> behind,
                          afterError |-> afterError]
      <3>1. /\ sample'.counted = cycles.counted /\ sample'.done = cycles.done
            /\ sample'.energy = EnergyDelta /\ sample'.burnt = joules
        BY <2>4
      <3> QED
        BY <1>11, <2>2, <2>5, <3>1
           DEF SampleEnergy, CountsAreWork, SampleIsConsumption
    <2> QED
      BY <1>11, <2>3, <2>4 DEF SampleEnergy
  <1>12. ASSUME SampleEnergyFails PROVE CountsAreWork'
    BY <1>12
       DEF SampleEnergyFails, EnergyError, CountsAreWork, SampleIsConsumption
  <1>13. ASSUME Stop PROVE CountsAreWork'
    BY <1>13 DEF Stop, PmuDelete, CountsAreWork, SampleIsConsumption
  <1>14. ASSUME Load PROVE CountsAreWork'
    BY <1>14 DEF Load, CountsAreWork, SampleIsConsumption
  <1>15. ASSUME Unload PROVE CountsAreWork'
    BY <1>15 DEF Unload, CountsAreWork, SampleIsConsumption
  <1>16. ASSUME UNCHANGED vars PROVE CountsAreWork'
    BY <1>16 DEF vars, CountsAreWork, SampleIsConsumption
  <1> QED
    BY <1>1, <1>2, <1>3, <1>4, <1>5, <1>6, <1>7, <1>8, <1>9, <1>10, <1>11,
       <1>12, <1>13, <1>14, <1>15, <1>16
       DEF Next

(* Without a failed energy reading the two kinds of readings alternate.    *)
LEMMA PeriodStep == IInv /\ [Next]_vars => OneReadingBehind'
  <1> SUFFICES ASSUME IInv, [Next]_vars PROVE OneReadingBehind'
    OBVIOUS
  <1> USE DEF IInv, TypeOK, moduleVars, energyVars, pmuVars, worldVars
  <1>1. ASSUME NEW w \in 0 .. MaxBurst, NEW e \in 0 .. MaxBurst, Burn(w, e)
        PROVE  OneReadingBehind'
    BY <1>1 DEF Burn, Positions, OneReadingBehind, SampleCoversOnePeriod
  <1>2. ASSUME StartCreate PROVE OneReadingBehind'
    BY <1>2 DEF StartCreate, Positions, OneReadingBehind, SampleCoversOnePeriod
  <1>3. ASSUME CreateEvent PROVE OneReadingBehind'
    BY <1>3 DEF CreateEvent, Positions, OneReadingBehind, SampleCoversOnePeriod
  <1>4. ASSUME CreateFails PROVE OneReadingBehind'
    BY <1>4
       DEF CreateFails, PmuDelete, Positions, OneReadingBehind,
           SampleCoversOnePeriod
  <1>5. ASSUME CreateDone PROVE OneReadingBehind'
    BY <1>5 DEF CreateDone, Positions, OneReadingBehind, SampleCoversOnePeriod
  <1>6. ASSUME StartEnergy PROVE OneReadingBehind'
    BY <1>6
       DEF StartEnergy, EnergyRead, Positions, OneReadingBehind,
           SampleCoversOnePeriod
  <1>7. ASSUME StartEnergyFails PROVE OneReadingBehind'
    BY <1>7
       DEF StartEnergyFails, EnergyError, PmuDelete, Positions,
           OneReadingBehind, SampleCoversOnePeriod
  <1>8. ASSUME ResetPmu PROVE OneReadingBehind'
    BY <1>8
       DEF ResetPmu, PmuRead, Positions, OneReadingBehind, SampleCoversOnePeriod
  <1>9. ASSUME ResetEnergy PROVE OneReadingBehind'
    BY <1>9
       DEF ResetEnergy, EnergyRead, EnergyError, Positions, OneReadingBehind,
           SampleCoversOnePeriod
  <1>10. ASSUME SamplePmu PROVE OneReadingBehind'
    BY <1>10
       DEF SamplePmu, PmuRead, Positions, OneReadingBehind,
           SampleCoversOnePeriod
  <1>11. ASSUME SampleEnergy PROVE OneReadingBehind'
    <2>1. behind = 1 \/ afterError
      BY <1>11 DEF SampleEnergy, OneReadingBehind
    <2>2. CASE sample' = sample
      BY <1>11, <2>2
         DEF SampleEnergy, EnergyRead, OneReadingBehind, SampleCoversOnePeriod
    <2>3. CASE sample' = [counted |-> cycles.counted, done |-> cycles.done,
                          energy |-> EnergyDelta, burnt |-> joules, periods |-> behind,
                          afterError |-> afterError]
      <3>1. sample'.periods = behind /\ sample'.afterError = afterError
        BY <2>3
      <3> QED
        BY <1>11, <2>1, <3>1
           DEF SampleEnergy, EnergyRead, OneReadingBehind, SampleCoversOnePeriod
    <2> QED
      BY <1>11, <2>2, <2>3 DEF SampleEnergy
  <1>12. ASSUME SampleEnergyFails PROVE OneReadingBehind'
    BY <1>12
       DEF SampleEnergyFails, EnergyError, Positions, OneReadingBehind,
           SampleCoversOnePeriod
  <1>13. ASSUME Stop PROVE OneReadingBehind'
    BY <1>13
       DEF Stop, PmuDelete, Positions, OneReadingBehind, SampleCoversOnePeriod
  <1>14. ASSUME Load PROVE OneReadingBehind'
    BY <1>14 DEF Load, Positions, OneReadingBehind, SampleCoversOnePeriod
  <1>15. ASSUME Unload PROVE OneReadingBehind'
    BY <1>15 DEF Unload, Positions, OneReadingBehind, SampleCoversOnePeriod
  <1>16. ASSUME UNCHANGED vars PROVE OneReadingBehind'
    BY <1>16 DEF vars, Positions, OneReadingBehind, SampleCoversOnePeriod
  <1> QED
    BY <1>1, <1>2, <1>3, <1>4, <1>5, <1>6, <1>7, <1>8, <1>9, <1>10, <1>11,
       <1>12, <1>13, <1>14, <1>15, <1>16
       DEF Next

LEMMA Invariance == Spec => []IInv
  <1>1. IInv /\ [Next]_vars => IInv'
    BY TypeStep, PositionsStep, WorkStep, BaselineStep, CountsStep, PeriodStep
       DEF IInv
  <1> QED
    BY <1>1, InitInv, PTL DEF Spec

(* Types of the measurement's state, for counters of any width.            *)
THEOREM TypeCorrect == Spec => []TypeOK
  <1>1. IInv => TypeOK
    BY DEF IInv
  <1> QED
    BY <1>1, Invariance, PTL

(* No path of start or stop leaves some events behind.                     *)
THEOREM EventsAllOrNone == Spec => []AllEventsOrNone
  <1>1. IInv => AllEventsOrNone
    BY DEF IInv, TypeOK, Positions, AllEventsOrNone
  <1> QED
    BY <1>1, Invariance, PTL

(* Wraparound never shows in a sample, for counters of any width; its      *)
(* energy is what was burnt, rounded down once to a microjoule.            *)
THEOREM SamplesAreConsumption == Spec => []SampleIsConsumption
  <1>1. IInv => SampleIsConsumption
    BY DEF IInv, CountsAreWork
  <1> QED
    BY <1>1, Invariance, PTL

(* Energy burnt while the governor was stopped is in no sample.            *)
THEOREM BaselineFresh == Spec => []BaselineIsFresh
  <1>1. IInv => BaselineIsFresh
    BY DEF IInv
  <1> QED
    BY <1>1, Invariance, PTL

(* Counts and energy of a sample are of one period, but after an error.    *)
THEOREM SamplesCoverOnePeriod == Spec => []SampleCoversOnePeriod
  <1>1. IInv => SampleCoversOnePeriod
    BY DEF IInv, OneReadingBehind
  <1> QED
    BY <1>1, Invariance, PTL

=============================================================================
