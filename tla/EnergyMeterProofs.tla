------------------------- MODULE EnergyMeterProofs -------------------------
(***************************************************************************)
(* Proofs about the energy meter, for any callers and any machines, each   *)
(* with its source and the width and units of its counter.  The invariant  *)
(* says who is inside (Exclusion), what a call may rely on at every place  *)
(* (Backends) and how far the counter stands from the baseline and from    *)
(* the value a reading holds (Distances).  The last part is about the      *)
(* sampler under the meter of the third source, for any bounds on its      *)
(* time: it extends VddCoreSampler, whose specification is SamplerSpec.    *)
(***************************************************************************)
EXTENDS EnergyMeter, VddCoreSampler, NumberFacts

Exclusion ==
    /\ \A c \in Callers : at[c] # "idle" <=> lock = c
    /\ \A c \in Callers :
          raw[c] # None <=> at[c] \in {"initStores", "initDone", "readStores"}

Configured ==
    /\ backend = Backend
    /\ Backend = "amd" => unit = Unit
    /\ Backend = "powercap" => range = MaxRange

Backends ==
    /\ initialized => Configured
    /\ \A c \in Callers :
          /\ at[c] \in {"initReads", "initStores", "initDone", "deinitClears"} => ~initialized
          /\ at[c] = "initStores" /\ Backend = "amd" => unit = Unit
          /\ at[c] = "initDone" => Configured
          /\ at[c] = "readStores" => initialized /\ Backend # "rpi5"
          /\ at[c] \in {"read", "readStores"} => overflows < MaxOverflows
          /\ seen[c] => backend # "none"
    /\ backend # "none" => initialized \/ \E d \in Callers : at[d] \in {"initDone", "deinitClears"}

(* What readings that were refused for -EOVERFLOW may have cost.           *)
Lost == overflows * Wrap

Distances ==
    /\ unread <= owed
    /\ ~Tracked => owed = 0 /\ unread = 0
    /\ Tracked /\ Backend = "rpi5" => owed = counter
    /\ ~initialized => overflows = 0
    /\ overflows # 0 => RangeUnknown
    /\ \A c \in Callers :
          /\ at[c] \in {"initStores", "initDone"} => raw[c].burnt = 0 /\ owed = unread
          /\ at[c] = "initStores" /\ Backend # "rpi5" =>
                (counter - raw[c].value) % Wrap = owed
          /\ at[c] = "initDone" /\ Backend # "rpi5" => (counter - last) % Wrap = owed
          /\ at[c] = "readStores" =>
                /\ owed = unread
                /\ (counter - raw[c].value) % Wrap = owed
                /\ (raw[c].value - last) % Wrap = raw[c].burnt % Wrap
                /\ raw[c].burnt < Lost + Wrap
    /\ initialized /\ Backend # "rpi5" /\ (\A c \in Callers : at[c] # "readStores") =>
          /\ (counter - last) % Wrap = owed % Wrap
          /\ owed - unread <= Lost

IInv ==
    TypeOK /\ Exclusion /\ Backends /\ Distances /\ ReplyIsConsumption /\ ShortfallIsAnnounced

(* What the assumptions say of the machine the meter runs on.              *)
Given ==
    /\ Backend \in {"rpi5", "amd", "powercap"}
    /\ Wrap \in Nat /\ Wrap > 1
    /\ MaxRange \in {0, Wrap - 1, Wrap}
    /\ Scale \in Nat \ {0}
    /\ Unit \in Nat \ {0}
    /\ MaxBurst \in Nat \ {0}
    /\ MaxOverflows \in Nat
    /\ None \notin Callers
    /\ None \notin [value : Nat, burnt : Nat]
    /\ None \notin [delta : Int, uj : Int, burnt : Int, announced : Nat]

(* What the assumptions say of every machine holds for this one.           *)
LEMMA MachineGiven == machine \in Machines => Given
  BY MeterConstants DEF Given, Backend, Wrap, MaxRange, Scale, Unit

(* The machine stays the same.                                             *)
Same ==
    /\ machine' = machine
    /\ Backend' = Backend /\ Wrap' = Wrap /\ MaxRange' = MaxRange
    /\ Scale' = Scale /\ Unit' = Unit

(* No step changes the machine.                                            *)
LEMMA MachineStays == [Next]_vars => Same
  <1> SUFFICES ASSUME [Next]_vars PROVE Same
    OBVIOUS
  <1>1. machine' = machine
    BY DEF Next, vars
  <1> QED
    BY <1>1 DEF Same, Backend, Wrap, MaxRange, Scale, Unit

(* Both, for the proofs about a step.                                      *)
LEMMA GivenAndSame == TypeOK /\ [Next]_vars => Given /\ Same
  BY MachineGiven, MachineStays DEF TypeOK

(* The width of a counter is positive.                                     *)
LEMMA Width == Given => Wrap \in Nat /\ Wrap > 0
  BY DEF Given

(* Remainders modulo the width.                                            *)
LEMMA Facts ==
  Given =>
  /\ Wrap \in Nat /\ Wrap > 0 /\ 0 \in 0 .. Wrap - 1
  /\ \A x \in 0 .. Wrap - 1 : x % Wrap = x
  /\ \A x \in Int : (x - x) % Wrap = 0
  /\ \A x \in Int : x % Wrap \in 0 .. Wrap - 1
  <1> SUFFICES ASSUME Given
               PROVE  /\ Wrap \in Nat /\ Wrap > 0 /\ 0 \in 0 .. Wrap - 1
                      /\ \A x \in 0 .. Wrap - 1 : x % Wrap = x
                      /\ \A x \in Int : (x - x) % Wrap = 0
                      /\ \A x \in Int : x % Wrap \in 0 .. Wrap - 1
    OBVIOUS
  <1>1. Wrap \in Nat /\ Wrap > 0
    BY DEF Given
  <1> QED
    BY <1>1, SmallRemainder, NoDistance, Remainder

(* Nobody is inside and nothing is owed at first.                          *)
LEMMA InitInv == Init => IInv
  <1> SUFFICES ASSUME Init PROVE IInv
    OBVIOUS
  <1>0. Given
    BY MachineGiven DEF Init
  <1>1. TypeOK
    <2>1. last \in 0 .. Wrap - 1 /\ unread \in 0 .. Wrap - 1 /\ counter \in 0 .. Wrap - 1
      BY <1>0, Facts DEF Init
    <2>2. overflows \in 0 .. MaxOverflows
      BY <1>0 DEF Given, Init
    <2> QED
      BY <1>0, <2>1, <2>2 DEF Init, TypeOK, Places
  <1>2. Exclusion
    BY <1>0 DEF Given, Init, Exclusion
  <1>3. Backends
    BY DEF Init, Backends
  <1>4. Distances
    BY DEF Init, Distances, Tracked
  <1> QED
    BY <1>1, <1>2, <1>3, <1>4 DEF Init, IInv, ReplyIsConsumption, ShortfallIsAnnounced

(* A call that returns or goes on leaves a place and gives back its value. *)
LEMMA PlaceTypes ==
  ASSUME TypeOK, Same, NEW c \in Callers
  PROVE  /\ Return(c) =>
                /\ lock' \in Callers \cup {None}
                /\ at' \in [Callers -> Places]
                /\ raw' \in [Callers -> {None} \cup [value : 0 .. Wrap' - 1, burnt : Nat]]
         /\ \A place \in Places : GoOn(c, place) =>
                /\ lock' \in Callers \cup {None}
                /\ at' \in [Callers -> Places]
  <1>1. "idle" \in Places
    BY DEF Places
  <1> QED
    BY <1>1 DEF TypeOK, Same, Return, GoOn

(* Every step keeps the types: values stay within the counter's width.     *)
LEMMA TypeStep == IInv /\ [Next]_vars => TypeOK'
  <1> SUFFICES ASSUME IInv, [Next]_vars PROVE TypeOK'
    OBVIOUS
  <1>0. Given /\ Same
    BY GivenAndSame DEF IInv
  <1>a. 0 \in 0 .. Wrap - 1 /\ 0 \in 0 .. MaxOverflows
    BY <1>0 DEF Given
  <1> USE <1>0 DEF Given, Same, IInv, TypeOK, Exclusion, meterVars, history
  <1>1. ASSUME NEW e \in 1 .. MaxBurst, BurnEnergy(e) PROVE TypeOK'
    <2>1. counter' \in 0 .. Wrap - 1
      BY <1>1, Facts DEF BurnEnergy
    <2>2. unread' \in 0 .. Wrap - 1
      BY <1>1, Facts DEF BurnEnergy
    <2> QED
      BY <1>1, <2>1, <2>2 DEF BurnEnergy, Places
  <1>2. ASSUME NEW c \in Callers, NEW call \in {"init", "deinit", "read"}, Enter(c, call)
        PROVE  TypeOK'
    BY <1>2 DEF Enter, Places
  <1>3. ASSUME NEW c \in Callers, GetBackend(c) PROVE TypeOK'
    BY <1>3 DEF GetBackend, Places
  <1>4. ASSUME NEW c \in Callers, InitAgain(c) PROVE TypeOK'
    BY <1>4, PlaceTypes DEF InitAgain
  <1>5. ASSUME NEW c \in Callers, InitSelects(c) PROVE TypeOK'
    BY <1>5, PlaceTypes DEF InitSelects, Places
  <1>6. ASSUME NEW c \in Callers, InitFails(c) PROVE TypeOK'
    BY <1>6, PlaceTypes DEF InitFails
  <1>7. ASSUME NEW c \in Callers, InitReads(c) PROVE TypeOK'
    <2>1. counter' \in 0 .. Wrap - 1 /\ unread' \in 0 .. Wrap - 1 /\ owed' \in Nat
      BY <1>7, Facts DEF InitReads, SeeCounter
    <2>2. raw' \in [Callers -> {None} \cup [value : 0 .. Wrap - 1, burnt : Nat]]
      BY <1>7, Facts DEF InitReads, SeeCounter, RawValue
    <2> QED
      BY <1>7, <2>1, <2>2 DEF InitReads, GoOn, Places
  <1>8. ASSUME NEW c \in Callers, InitStores(c) PROVE TypeOK'
    <2>1. raw[c] # None
      BY <1>8 DEF InitStores
    <2>2. last' \in 0 .. Wrap - 1 /\ range' \in {0, MaxRange}
      BY <1>8, <2>1 DEF InitStores
    <2> QED
      BY <1>8, <2>2 DEF InitStores, GoOn, Places
  <1>9. ASSUME NEW c \in Callers, InitDone(c) PROVE TypeOK'
    BY <1>9, PlaceTypes DEF InitDone
  <1>10. ASSUME NEW c \in Callers, Deinit(c) PROVE TypeOK'
    BY <1>a, <1>10, PlaceTypes DEF Deinit, Places
  <1>11. ASSUME NEW c \in Callers, DeinitClears(c) PROVE TypeOK'
    BY <1>a, <1>11, PlaceTypes DEF DeinitClears
  <1>12. ASSUME NEW c \in Callers, ReadRefused(c) PROVE TypeOK'
    BY <1>12, PlaceTypes DEF ReadRefused
  <1>13. ASSUME NEW c \in Callers, ReadFails(c) PROVE TypeOK'
    BY <1>13, PlaceTypes DEF ReadFails
  <1>14. ASSUME NEW c \in Callers, ReadRpi5(c) PROVE TypeOK'
    BY <1>a, <1>14, PlaceTypes DEF ReadRpi5
  <1>15. ASSUME NEW c \in Callers, ReadSees(c) PROVE TypeOK'
    <2>1. counter' \in 0 .. Wrap - 1 /\ unread' \in 0 .. Wrap - 1 /\ owed' \in Nat
      BY <1>15, Facts DEF ReadSees, SeeCounter
    <2>2. raw' \in [Callers -> {None} \cup [value : 0 .. Wrap - 1, burnt : Nat]]
      BY <1>15, Facts DEF ReadSees, SeeCounter, RawValue
    <2> QED
      BY <1>15, <2>1, <2>2 DEF ReadSees, GoOn, Places
  <1>16. ASSUME NEW c \in Callers, ReadOverflows(c) PROVE TypeOK'
    <2>1. overflows' = overflows + 1 /\ overflows < MaxOverflows
      BY <1>16 DEF ReadOverflows, Backends
    <2>2. overflows' \in 0 .. MaxOverflows
      BY <2>1
    <2> QED
      BY <1>16, <2>2, PlaceTypes DEF ReadOverflows
  <1>17. ASSUME NEW c \in Callers, ReadStores(c) PROVE TypeOK'
    <2>1. raw[c] # None
      BY <1>17 DEF ReadStores
    <2>2. last' \in 0 .. Wrap - 1
      BY <1>17, <2>1 DEF ReadStores
    <2> QED
      BY <1>a, <1>17, <2>2, PlaceTypes DEF ReadStores
  <1>18. ASSUME UNCHANGED vars PROVE TypeOK'
    BY <1>18 DEF vars, Places
  <1> QED
    BY <1>1, <1>2, <1>3, <1>4, <1>5, <1>6, <1>7, <1>8, <1>9, <1>10, <1>11,
       <1>12, <1>13, <1>14, <1>15, <1>16, <1>17, <1>18
       DEF Next, Call, Step

(* Only the owner of the lock is inside a call, and gives it back.          *)
LEMMA ExclusionStep == IInv /\ [Next]_vars => Exclusion'
  <1> SUFFICES ASSUME IInv, [Next]_vars PROVE Exclusion'
    OBVIOUS
  <1>0. Given /\ Same
    BY GivenAndSame DEF IInv
  <1> USE <1>0 DEF Given, Same, IInv, TypeOK, Exclusion, meterVars, history
  <1>1. ASSUME NEW e \in 1 .. MaxBurst, BurnEnergy(e) PROVE Exclusion'
    BY <1>1 DEF BurnEnergy
  <1>2. ASSUME NEW c \in Callers, NEW call \in {"init", "deinit", "read"}, Enter(c, call)
        PROVE  Exclusion'
    BY <1>2 DEF Enter
  <1>3. ASSUME NEW c \in Callers, GetBackend(c) PROVE Exclusion'
    BY <1>3 DEF GetBackend
  <1>4. ASSUME NEW c \in Callers, InitAgain(c) PROVE Exclusion'
    BY <1>4 DEF InitAgain, Return
  <1>5. ASSUME NEW c \in Callers, InitSelects(c) PROVE Exclusion'
    BY <1>5 DEF InitSelects, GoOn
  <1>6. ASSUME NEW c \in Callers, InitFails(c) PROVE Exclusion'
    BY <1>6 DEF InitFails, Return
  <1>7. ASSUME NEW c \in Callers, InitReads(c) PROVE Exclusion'
    <2>1. raw' = [raw EXCEPT ![c] = [value |-> counter % Wrap, burnt |-> owed]]
      BY <1>7 DEF InitReads, SeeCounter, RawValue
    <2>2. [value |-> counter % Wrap, burnt |-> owed] # None
      BY Facts
    <2> QED
      BY <1>7, <2>1, <2>2 DEF InitReads, GoOn
  <1>8. ASSUME NEW c \in Callers, InitStores(c) PROVE Exclusion'
    BY <1>8 DEF InitStores, GoOn
  <1>9. ASSUME NEW c \in Callers, InitDone(c) PROVE Exclusion'
    BY <1>9 DEF InitDone, Return
  <1>10. ASSUME NEW c \in Callers, Deinit(c) PROVE Exclusion'
    BY <1>10 DEF Deinit, GoOn
  <1>11. ASSUME NEW c \in Callers, DeinitClears(c) PROVE Exclusion'
    BY <1>11 DEF DeinitClears, Return
  <1>12. ASSUME NEW c \in Callers, ReadRefused(c) PROVE Exclusion'
    BY <1>12 DEF ReadRefused, Return
  <1>13. ASSUME NEW c \in Callers, ReadFails(c) PROVE Exclusion'
    BY <1>13 DEF ReadFails, Return
  <1>14. ASSUME NEW c \in Callers, ReadRpi5(c) PROVE Exclusion'
    BY <1>14 DEF ReadRpi5, Return
  <1>15. ASSUME NEW c \in Callers, ReadSees(c) PROVE Exclusion'
    <2>1. raw' = [raw EXCEPT ![c] = [value |-> counter % Wrap, burnt |-> owed]]
      BY <1>15 DEF ReadSees, SeeCounter, RawValue
    <2>2. [value |-> counter % Wrap, burnt |-> owed] # None
      BY Facts
    <2> QED
      BY <1>15, <2>1, <2>2 DEF ReadSees, GoOn
  <1>16. ASSUME NEW c \in Callers, ReadOverflows(c) PROVE Exclusion'
    BY <1>16 DEF ReadOverflows, Return
  <1>17. ASSUME NEW c \in Callers, ReadStores(c) PROVE Exclusion'
    BY <1>17 DEF ReadStores, Return
  <1>18. ASSUME UNCHANGED vars PROVE Exclusion'
    BY <1>18 DEF vars
  <1> QED
    BY <1>1, <1>2, <1>3, <1>4, <1>5, <1>6, <1>7, <1>8, <1>9, <1>10, <1>11,
       <1>12, <1>13, <1>14, <1>15, <1>16, <1>17, <1>18
       DEF Next, Call, Step

(* What a call has checked stays so until it returns.                      *)
LEMMA BackendsStep == IInv /\ [Next]_vars => Backends'
  <1> SUFFICES ASSUME IInv, [Next]_vars PROVE Backends'
    OBVIOUS
  <1>0. Given /\ Same
    BY GivenAndSame DEF IInv
  <1> USE <1>0 DEF Given, Same, IInv, TypeOK, Exclusion, meterVars, history
  <1>1. ASSUME NEW e \in 1 .. MaxBurst, BurnEnergy(e) PROVE Backends'
    BY <1>1 DEF BurnEnergy, Backends, Configured
  <1>2. ASSUME NEW c \in Callers, NEW call \in {"init", "deinit", "read"}, Enter(c, call)
        PROVE  Backends'
    BY <1>2 DEF Enter, Backends, Configured
  <1>3. ASSUME NEW c \in Callers, GetBackend(c) PROVE Backends'
    BY <1>3 DEF GetBackend, Backends, Configured
  <1>4. ASSUME NEW c \in Callers, InitAgain(c) PROVE Backends'
    BY <1>4 DEF InitAgain, Return, Backends, Configured
  <1>5. ASSUME NEW c \in Callers, InitSelects(c) PROVE Backends'
    BY <1>5 DEF InitSelects, GoOn, Backends, Configured
  <1>6. ASSUME NEW c \in Callers, InitFails(c) PROVE Backends'
    BY <1>6 DEF InitFails, Return, Backends, Configured
  <1>7. ASSUME NEW c \in Callers, InitReads(c) PROVE Backends'
    BY <1>7
       DEF InitReads, SeeCounter, RawValue, GoOn, Backends, Configured
  <1>8. ASSUME NEW c \in Callers, InitStores(c) PROVE Backends'
    BY <1>8 DEF InitStores, GoOn, Backends, Configured
  <1>9. ASSUME NEW c \in Callers, InitDone(c) PROVE Backends'
    BY <1>9 DEF InitDone, Return, Backends, Configured
  <1>10. ASSUME NEW c \in Callers, Deinit(c) PROVE Backends'
    BY <1>10 DEF Deinit, GoOn, Backends, Configured
  <1>11. ASSUME NEW c \in Callers, DeinitClears(c) PROVE Backends'
    BY <1>11 DEF DeinitClears, Return, Backends, Configured
  <1>12. ASSUME NEW c \in Callers, ReadRefused(c) PROVE Backends'
    BY <1>12 DEF ReadRefused, Return, Backends, Configured
  <1>13. ASSUME NEW c \in Callers, ReadFails(c) PROVE Backends'
    BY <1>13 DEF ReadFails, Return, Backends, Configured
  <1>14. ASSUME NEW c \in Callers, ReadRpi5(c) PROVE Backends'
    BY <1>14 DEF ReadRpi5, Return, Backends, Configured
  <1>15. ASSUME NEW c \in Callers, ReadSees(c) PROVE Backends'
    BY <1>15
       DEF ReadSees, SeeCounter, RawValue, GoOn, Backends, Configured
  <1>16. ASSUME NEW c \in Callers, ReadOverflows(c) PROVE Backends'
    BY <1>16 DEF ReadOverflows, Return, Backends, Configured
  <1>17. ASSUME NEW c \in Callers, ReadStores(c) PROVE Backends'
    BY <1>17 DEF ReadStores, Return, Backends, Configured
  <1>18. ASSUME UNCHANGED vars PROVE Backends'
    BY <1>18 DEF vars, Backends, Configured
  <1> QED
    BY <1>1, <1>2, <1>3, <1>4, <1>5, <1>6, <1>7, <1>8, <1>9, <1>10, <1>11,
       <1>12, <1>13, <1>14, <1>15, <1>16, <1>17, <1>18
       DEF Next, Call, Step

(* CounterRunsOn, for the counter of the meter.                            *)
LEMMA RunsOn ==
  ASSUME Given, NEW c \in Int, NEW l \in Int, NEW e \in Int
  PROVE  (((c + e) % Wrap) - l) % Wrap = (((c - l) % Wrap) + e) % Wrap
  BY Width, CounterRunsOn

(* RemainderPlus, modulo the width of the counter.                         *)
LEMMA RemaindersAdd ==
  ASSUME Given, NEW x \in Int, NEW y \in Int
  PROVE  (x + y) % Wrap = ((x % Wrap) + y) % Wrap
  BY Width, RemainderPlus

(* A value below another one stands behind it by less than a round.        *)
LEMMA OnceAround ==
  ASSUME Given, NEW v \in 0 .. Wrap - 1, NEW l \in 0 .. Wrap - 1, v < l
  PROVE  (v - l) % Wrap = v - l + Wrap
  <1> DEFINE x == v - l
             s == x % Wrap
             p == x \div Wrap
             r == v - l + Wrap
  <1>1. x \in Int /\ r \in 0 .. Wrap - 1 /\ x = Wrap * (-1) + r /\ -1 \in Int
    BY Width
  <1>2. s \in 0 .. Wrap - 1 /\ p \in Int /\ x = Wrap * p + s
    BY <1>1, Width, Remainder
  <1>3. r = v - l + Wrap /\ s = (v - l) % Wrap
    OBVIOUS
  <1> HIDE DEF x, s, p, r
  <1>4. Wrap * p + s = Wrap * (-1) + r
    BY <1>1, <1>2
  <1>5. s = r
    BY <1>1, <1>2, <1>4, Width, UniqueRemainder
  <1> QED
    BY <1>3, <1>5

(* A counter that ran for b counts is at b % Wrap: what it does not show   *)
(* is whole rounds, and no more of them than b has.                        *)
LEMMA WholeRounds ==
  ASSUME Given, NEW b \in Nat, NEW k \in Nat, b < k * Wrap + Wrap
  PROVE  /\ (b - (b % Wrap)) % Wrap = 0
         /\ b - (b % Wrap) \in 0 .. k * Wrap
  <1> DEFINE q == b \div Wrap
             s == b % Wrap
  <1>0. b \in Int
    OBVIOUS
  <1>1. q \in Int /\ s \in 0 .. Wrap - 1 /\ b = Wrap * q + s
    BY <1>0, Width, Remainder
  <1>2. s = b % Wrap
    OBVIOUS
  <1> HIDE DEF q, s
  <1>3. Wrap * q \in Int /\ b - s = Wrap * q
    BY <1>1, Width
  <1>4. (Wrap * q) % Wrap = 0
    <2>1. q * Wrap + 0 = Wrap * q /\ 0 \in 0 .. Wrap - 1
      BY <1>1, Width
    <2>2. (q * Wrap + 0) % Wrap = 0
      BY <1>1, <2>1, Width, RowAndColumn
    <2> QED
      BY <2>1, <2>2
  <1>5. Wrap * (k + 1) = k * Wrap + Wrap /\ Wrap * k = k * Wrap /\ Wrap * (-1) = -Wrap
        /\ k * Wrap \in Nat
    BY Width
  <1>6. q <= k
    <2>1. SUFFICES ASSUME q >= k + 1 PROVE FALSE
      BY <1>1
    <2>2. Wrap * q >= Wrap * (k + 1)
      BY <1>1, <2>1, Width, Multiples
    <2> QED
      BY <1>1, <1>3, <1>5, <2>2, Width
  <1>7. q >= 0
    <2>1. SUFFICES ASSUME -1 >= q PROVE FALSE
      BY <1>1
    <2>2. Wrap * (-1) >= Wrap * q
      BY <1>1, <2>1, Width, Multiples
    <2> QED
      BY <1>1, <1>3, <1>5, <2>2, Width
  <1>8. Wrap * k >= Wrap * q /\ Wrap * q >= Wrap * 0 /\ Wrap * 0 = 0
    BY <1>1, <1>6, <1>7, Width, Multiples
  <1> QED
    BY <1>2, <1>3, <1>4, <1>5, <1>8

(* A round more for each of them.                                          *)
LEMMA RoundsLost ==
  ASSUME Given, NEW n \in Nat
  PROVE  n * Wrap \in Nat /\ 0 * Wrap = 0 /\ (n + 1) * Wrap = n * Wrap + Wrap
  BY Width

(* The rounding of one reading, to the nearest or down.                    *)
LEMMA MicroRounds ==
  ASSUME Given, NEW n \in Nat
  PROVE  2 * Micro(n) * Scale - 2 * n \in 1 - Scale .. Scale
  <1> DEFINE h == Scale \div 2
             y == n + h
             q == y \div Scale
  <1>1. Scale \in Nat /\ Scale > 0
    BY DEF Given
  <1>2. h \in Nat /\ 2 * h =< Scale /\ Scale =< 2 * h + 1
    BY <1>1
  <1>3. y \in Int /\ y = n + h
    BY <1>2
  <1> HIDE DEF y
  <1>4. q \in Int /\ y = Scale * q + (y % Scale) /\ y % Scale \in 0 .. Scale - 1
    BY <1>1, <1>3, Remainder
  <1>5. Micro(n) = q
    BY DEF Micro, y
  <1> HIDE DEF h, q
  <1>6. 2 * q * Scale = 2 * (Scale * q) /\ Scale * q \in Int
    BY <1>1, <1>4
  <1>7. 2 * (Scale * q) - 2 * n \in 1 - Scale .. Scale
    BY <1>1, <1>2, <1>3, <1>4, <1>6
  <1> QED
    BY <1>5, <1>6, <1>7

(* The quotient by the unit rounds down.                                   *)
LEMMA UnitRounds ==
  ASSUME Given, NEW x \in Nat
  PROVE  (x \div Unit) * Unit <= x /\ x < ((x \div Unit) + 1) * Unit
  <1>1. Unit \in Nat /\ Unit > 0 /\ x \in Int
    BY DEF Given
  <1> QED
    BY <1>1, QuotientRounds

(* Baseline, counter and what is owed move together.                        *)
LEMMA DistancesStep == IInv /\ [Next]_vars => Distances'
  <1> SUFFICES ASSUME IInv, [Next]_vars PROVE Distances'
    OBVIOUS
  <1>0. Given /\ Same
    BY GivenAndSame DEF IInv
  <1>a. /\ RangeUnknown' = RangeUnknown /\ Lost \in Nat
        /\ overflows' = overflows => Lost' = Lost
    BY <1>0, RoundsLost DEF IInv, TypeOK, Same, RangeUnknown, Lost
  <1> USE <1>0 DEF Given, Same, IInv, TypeOK, Exclusion, meterVars, history
  <1>1. ASSUME NEW e \in 1 .. MaxBurst, BurnEnergy(e) PROVE Distances'
    <2> USE DEF Backends, Configured, Distances
    <2>1. counter' = (counter + e) % Wrap /\ e \in Int /\ e > 0
      BY <1>1 DEF BurnEnergy
    <2>2. ASSUME NEW l \in Int
          PROVE  (counter' - l) % Wrap = (((counter - l) % Wrap) + e) % Wrap
      <3> DEFINE k == counter
                 f == e
      <3>1. k \in Int /\ f \in Int
        BY Width
      <3> HIDE DEF k, f, IInv, TypeOK, Exclusion, Backends, Distances, Configured
      <3>2. (((k + f) % Wrap) - l) % Wrap = (((k - l) % Wrap) + f) % Wrap
        BY <3>1, RunsOn
      <3> QED
        BY <2>1, <3>2 DEF k, f
    <2>3. Tracked' = Tracked
      BY <1>1 DEF BurnEnergy, Tracked
    <2>4. CASE ~Tracked
      BY <1>1, <2>3, <2>4 DEF BurnEnergy, Tracked
    <2>5. CASE Tracked
      <3>1. owed' = owed + e /\ unread' = unread + e /\ unread + e < Wrap
        BY <1>1, <2>5 DEF BurnEnergy
      <3>2. UNCHANGED <<lock, at, initialized, last, raw, overflows, Lost>>
        BY <1>1 DEF BurnEnergy, Lost
      <3>3. ASSUME NEW l \in Int, (counter - l) % Wrap = owed, owed = unread
            PROVE  (counter' - l) % Wrap = owed'
        <4>1. owed + e \in 0 .. Wrap - 1
          BY <2>1, <3>1, <3>3, Facts
        <4>2. (owed + e) % Wrap = owed + e
          BY <4>1, Facts
        <4>3. (counter' - l) % Wrap = (owed + e) % Wrap
          BY <2>2, <3>3
        <4> QED
          BY <3>1, <4>2, <4>3
      <3>4. Backend = "rpi5" => owed' = counter'
        <4>1. Backend = "rpi5" => counter + e \in 0 .. Wrap - 1
          BY <1>1, <2>1, Facts DEF BurnEnergy
        <4> QED
          BY <2>1, <2>5, <3>1, <4>1, Facts
      <3>5. owed' - unread' = owed - unread /\ unread' <= owed'
        BY <2>1, <3>1
      <3>6. ASSUME initialized, Backend # "rpi5",
         \A c \in Callers : at[c] # "readStores"
            PROVE  (counter' - last) % Wrap = owed' % Wrap
        <4>3. (counter - last) % Wrap = owed % Wrap
          BY <3>6
        <4>4. (counter' - last) % Wrap = ((owed % Wrap) + e) % Wrap
          <5>1. last \in Int
            BY Width
          <5>2. (counter' - last) % Wrap = (((counter - last) % Wrap) + e) % Wrap
            BY <2>2, <5>1
          <5> QED
            BY <4>3, <5>2
        <4>5. ((owed % Wrap) + e) % Wrap = (owed + e) % Wrap
          <5>1. owed \in Int /\ e \in Int
            BY <2>1
          <5> HIDE DEF Given, Same, IInv, TypeOK, Exclusion, Backends, Configured, Distances
          <5> QED
            BY <1>0, <5>1, RemaindersAdd
        <4> QED
          BY <3>1, <4>4, <4>5
      <3>7. ASSUME NEW c \in Callers, raw[c] # None
            PROVE  raw[c].value \in Int
        BY <3>7
      <3>8. last \in Int
        BY Facts
      <3>9. \A c \in Callers : at[c] \in {"initStores", "initDone", "readStores"} => raw[c] # None
        OBVIOUS
      <3>10. ASSUME NEW c \in Callers
             PROVE  /\ at[c] = "initStores" /\ Backend # "rpi5" =>
                          (counter' - raw[c].value) % Wrap = owed'
                    /\ at[c] = "initDone" /\ Backend # "rpi5" => (counter' - last) % Wrap = owed'
                    /\ at[c] = "readStores" => (counter' - raw[c].value) % Wrap = owed'
        BY <3>3, <3>7, <3>8, <3>9
      <3> QED
        BY <1>a, <2>3, <2>5, <3>1, <3>2, <3>4, <3>5, <3>6, <3>10
    <2> QED
      BY <2>4, <2>5
  <1>2. ASSUME NEW c \in Callers, NEW call \in {"init", "deinit", "read"}, Enter(c, call)
        PROVE  Distances'
    BY <1>a, <1>2, Facts
       DEF Enter, Backends, Configured, Distances, Tracked
  <1>3. ASSUME NEW c \in Callers, GetBackend(c) PROVE Distances'
    BY <1>a, <1>3, Facts
       DEF GetBackend, Backends, Configured, Distances, Tracked
  <1>4. ASSUME NEW c \in Callers, InitAgain(c) PROVE Distances'
    BY <1>a, <1>4, Facts
       DEF InitAgain, Return, Backends, Configured, Distances, Tracked
  <1>5. ASSUME NEW c \in Callers, InitSelects(c) PROVE Distances'
    BY <1>a, <1>5, Facts
       DEF InitSelects, GoOn, Backends, Configured, Distances, Tracked
  <1>6. ASSUME NEW c \in Callers, InitFails(c) PROVE Distances'
    BY <1>a, <1>6, Facts
       DEF InitFails, Return, Backends, Configured, Distances, Tracked
  <1>7. ASSUME NEW c \in Callers, InitReads(c) PROVE Distances'
    BY <1>a, <1>7, Facts
       DEF InitReads, SeeCounter, RawValue, GoOn, Backends, Configured,
           Distances, Tracked
  <1>8. ASSUME NEW c \in Callers, InitStores(c) PROVE Distances'
    BY <1>a, <1>8, Facts
       DEF InitStores, GoOn, Backends, Configured, Distances, Tracked
  <1>9. ASSUME NEW c \in Callers, InitDone(c) PROVE Distances'
    BY <1>a, <1>9, Facts
       DEF InitDone, Return, Backends, Configured, Distances, Tracked
  <1>10. ASSUME NEW c \in Callers, Deinit(c) PROVE Distances'
    BY <1>a, <1>10, Facts
       DEF Deinit, GoOn, Backends, Configured, Distances, Tracked
  <1>11. ASSUME NEW c \in Callers, DeinitClears(c) PROVE Distances'
    BY <1>a, <1>11, Facts
       DEF DeinitClears, Return, Backends, Configured, Distances, Tracked
  <1>12. ASSUME NEW c \in Callers, ReadRefused(c) PROVE Distances'
    BY <1>a, <1>12, Facts
       DEF ReadRefused, Return, Backends, Configured, Distances, Tracked
  <1>13. ASSUME NEW c \in Callers, ReadFails(c) PROVE Distances'
    BY <1>a, <1>13, Facts
       DEF ReadFails, Return, Backends, Configured, Distances, Tracked
  <1>14. ASSUME NEW c \in Callers, ReadRpi5(c) PROVE Distances'
    BY <1>a, <1>14, Facts
       DEF ReadRpi5, Return, Backends, Configured, Distances, Tracked
  <1>15. ASSUME NEW c \in Callers, ReadSees(c) PROVE Distances'
    <2> USE DEF Backends, Configured, Distances
    <2>1. /\ at[c] = "read" /\ initialized /\ Backend # "rpi5"
          /\ \A d \in Callers : at[d] # "readStores"
      BY <1>15 DEF ReadSees
    <2>2. /\ counter' = counter /\ owed' = 0 /\ unread' = 0 /\ Lost' = Lost
          /\ UNCHANGED <<initialized, last, overflows>>
      BY <1>15, <2>1 DEF ReadSees, SeeCounter, Lost
    <2>3. /\ raw'[c].value = counter /\ raw'[c].burnt = owed
          /\ at' = [at EXCEPT ![c] = "readStores"]
      BY <1>15, Facts DEF ReadSees, SeeCounter, RawValue, GoOn
    <2>4. owed < Lost + Wrap /\ (counter - last) % Wrap = owed % Wrap
      <3>1. owed - unread <= Lost /\ (counter - last) % Wrap = owed % Wrap
        BY <2>1
      <3>2. unread \in Nat /\ unread < Wrap /\ owed \in Nat /\ Lost \in Nat
        BY RoundsLost, Width DEF Lost
      <3> QED
        BY <3>1, <3>2
    <2>5. (counter - counter) % Wrap = 0
      BY Facts
    <2>6. \A d \in Callers : d # c => at'[d] = "idle"
      BY <2>1, <2>3
    <2>7. overflows # 0 => RangeUnknown'
      BY DEF RangeUnknown
    <2>8. Tracked'
      BY <2>1, <2>2 DEF Tracked
    <2> QED
      BY <2>1, <2>2, <2>3, <2>4, <2>5, <2>6, <2>7, <2>8
  <1>16. ASSUME NEW c \in Callers, ReadOverflows(c) PROVE Distances'
    <2> USE DEF Backends, Configured, Distances
    <2> DEFINE v == raw[c].value
               b == raw[c].burnt
               x == v - last
               y == counter - v
    <2>1. at[c] = "readStores" /\ raw[c] # None
      BY <1>16 DEF ReadOverflows
    <2>2. /\ x \in Int /\ y \in Int /\ b \in Nat /\ counter - last = x + y
          /\ x % Wrap = b % Wrap /\ y % Wrap = owed
      BY <2>1, Facts
    <2>3. (counter - last) % Wrap = (owed + b) % Wrap
      <3> HIDE DEF Given, Same, IInv, TypeOK, Exclusion, Backends, Configured, Distances,
                   v, b, x, y
      <3>0. x \in Int /\ y \in Int /\ b \in Int
        BY <2>2
      <3>1. (x + y) % Wrap = ((x % Wrap) + y) % Wrap
        BY <1>0, <3>0, RemaindersAdd
      <3>2. ((b % Wrap) + y) % Wrap = (b + y) % Wrap
        BY <1>0, <3>0, RemaindersAdd
      <3>3. ((y % Wrap) + b) % Wrap = (y + b) % Wrap
        BY <1>0, <3>0, RemaindersAdd
      <3>4. b + y = y + b
        BY <2>2
      <3> QED
        BY <2>2, <3>1, <3>2, <3>3, <3>4
    <2>4. owed' = owed + b /\ unread' = unread /\ overflows' = overflows + 1
      BY <1>16 DEF ReadOverflows
    <2>5. RangeUnknown
      BY <1>16, <2>1 DEF ReadOverflows, Overflow, RangeUnknown
    <2>6. owed' - unread' <= Lost' /\ unread' <= owed'
      <3>1. owed = unread /\ b < Lost + Wrap
        BY <2>1
      <3>2. Lost' = Lost + Wrap /\ Lost \in Nat
        <4>1. overflows \in Nat
          OBVIOUS
        <4> QED
          BY <2>4, <4>1, RoundsLost DEF Lost
      <3> QED
        BY <2>2, <2>4, <3>1, <3>2
    <2>7. UNCHANGED <<initialized, last, counter>>
      BY <1>16 DEF ReadOverflows
    <2>8. Tracked' /\ initialized' /\ \A d \in Callers : at'[d] = "idle"
      BY <1>16, <2>1 DEF ReadOverflows, Return, Tracked
    <2>9. (counter' - last') % Wrap' = owed' % Wrap' /\ RangeUnknown'
      BY <2>3, <2>4, <2>5, <2>7 DEF RangeUnknown
    <2>10. Backend' # "rpi5"
      BY <2>5 DEF RangeUnknown
    <2> HIDE DEF Given, Same, IInv, TypeOK, Exclusion, Backends, Configured
    <2> QED
      BY <2>6, <2>8, <2>9, <2>10
  <1>17. ASSUME NEW c \in Callers, ReadStores(c) PROVE Distances'
    <2> USE DEF Backends, Configured, Distances
    <2>1. at[c] = "readStores" /\ raw[c] # None /\ Backend # "rpi5" /\ initialized
      BY <1>17 DEF ReadStores
    <2>2. /\ last' = raw[c].value /\ overflows' = 0
          /\ UNCHANGED <<initialized, counter, owed, unread>>
      BY <1>17 DEF ReadStores
    <2>3. owed \in Nat /\ owed = unread /\ (counter - raw[c].value) % Wrap = owed
      BY <2>1
    <2>4. owed = owed % Wrap /\ owed - unread <= Lost'
      <3>1. counter - raw[c].value \in Int
        BY <2>1
      <3>2. owed \in 0 .. Wrap - 1
        BY <2>3, <3>1, Facts
      <3>3. Lost' = 0
        BY <2>2, RoundsLost DEF Lost
      <3> QED
        BY <2>3, <3>2, <3>3, Facts
    <2>5. Tracked' /\ \A d \in Callers : at'[d] = "idle"
      BY <1>17, <2>1, <2>2 DEF ReadStores, Return, Tracked
    <2>6. (counter' - last') % Wrap' = owed' % Wrap' /\ owed' - unread' <= Lost'
      BY <2>2, <2>3, <2>4
    <2>7. Backend' # "rpi5" /\ initialized' /\ overflows' = 0 /\ unread' <= owed'
      BY <2>1, <2>2, <2>3
    <2> HIDE DEF Given, Same, IInv, TypeOK, Exclusion, Backends, Configured
    <2> QED
      BY <2>5, <2>6, <2>7
  <1>18. ASSUME UNCHANGED vars PROVE Distances'
    <2>1. Lost' = Lost /\ Tracked' = Tracked
      BY <1>18 DEF vars, Lost, Tracked
    <2> QED
      BY <1>18, <2>1 DEF vars, Backends, Configured, Distances, RangeUnknown
  <1> QED
    BY <1>1, <1>2, <1>3, <1>4, <1>5, <1>6, <1>7, <1>8, <1>9, <1>10, <1>11,
       <1>12, <1>13, <1>14, <1>15, <1>16, <1>17, <1>18
       DEF Next, Call, Step

(* What an answer must be on the machine at hand.                          *)
Answers(answer) ==
    /\ RangeUnknown \/ answer.burnt - answer.delta \in 0 .. Slack
    /\ Rounded(answer.uj, answer.delta)
    /\ RangeUnknown =>
           /\ (answer.burnt - answer.delta) % Wrap = 0
           /\ answer.burnt - answer.delta \in 0 .. answer.announced * Wrap

(* It is enough to look at an answer with the machine as it was before.    *)
LEMMA AnsweredWell ==
  ASSUME Same, reply' # None => Answers(reply')
  PROVE  ReplyIsConsumption' /\ ShortfallIsAnnounced'
  BY DEF Same, Answers, Slack, RangeUnknown, Rounded, ReplyIsConsumption, ShortfallIsAnnounced

(* A reading answers with the distance that it cancels; every other step   *)
(* leaves the last answer.                                                 *)
LEMMA ReplyStep == IInv /\ [Next]_vars => ReplyIsConsumption' /\ ShortfallIsAnnounced'
  <1> SUFFICES ASSUME IInv, [Next]_vars PROVE ReplyIsConsumption' /\ ShortfallIsAnnounced'
    OBVIOUS
  <1>0. Given /\ Same
    BY GivenAndSame DEF IInv
  <1> USE <1>0 DEF Given, IInv, TypeOK, Exclusion, meterVars, history
  <1>1. ASSUME reply' = reply PROVE reply' # None => Answers(reply')
    BY <1>1 DEF Answers, ReplyIsConsumption, ShortfallIsAnnounced
  <1>2. ASSUME NEW c \in Callers, ReadRpi5(c) PROVE Answers(reply')
    <2>1. Backend = "rpi5" /\ owed = counter
      BY <1>2 DEF ReadRpi5, Backends, Configured, Distances, Tracked
    <2>2. /\ reply'.delta = counter /\ reply'.burnt = owed
          /\ reply'.uj = Micro(counter)
      BY <1>2 DEF ReadRpi5
    <2>3. counter \in Nat
      BY Facts
    <2>4. Rounded(Micro(counter), counter)
      BY <2>1, <2>3, MicroRounds DEF Rounded
    <2>5. owed - counter \in 0 .. Slack
      BY <2>1, <2>3 DEF Slack
    <2> QED
      BY <2>1, <2>2, <2>4, <2>5 DEF Answers, RangeUnknown
  <1>3. ASSUME NEW c \in Callers, ReadStores(c) PROVE Answers(reply')
    <2> USE DEF Backends, Configured
    <2> DEFINE v == raw[c].value
               b == raw[c].burnt
    <2>1. at[c] = "readStores" /\ raw[c] # None /\ backend = Backend /\ Backend # "rpi5"
      BY <1>3 DEF ReadStores
    <2>2. /\ v \in 0 .. Wrap - 1 /\ b \in Nat /\ last \in 0 .. Wrap - 1
          /\ (v - last) % Wrap = b % Wrap /\ b < Lost + Wrap
          /\ overflows # 0 => RangeUnknown
      BY <2>1, Facts DEF Distances
    <2>3. Backend \in {"amd", "powercap"}
      BY <2>1
    <2>4. /\ reply'.delta = Delta(c) /\ reply'.burnt = b /\ reply'.announced = overflows
          /\ reply'.uj = IF backend = "amd" THEN (Delta(c) * Scale) \div unit ELSE Delta(c)
          /\ ~Overflow(c)
      BY <1>3 DEF ReadStores
    <2>5. ~RangeUnknown => b < Wrap /\ b % Wrap = b
      <3>1. ASSUME ~RangeUnknown PROVE b \in 0 .. Wrap - 1
        <4>1. overflows = 0
          BY <2>2, <3>1
        <4>2. Lost = 0
          BY <4>1, RoundsLost DEF Lost
        <4> QED
          BY <2>2, <4>2, Width
      <3> QED
        BY <3>1, Facts
    <2>7. CASE Backend = "amd"
      <3>1. Delta(c) = b /\ Slack = 0 /\ unit = Unit /\ ~RangeUnknown
        BY <2>1, <2>2, <2>5, <2>7 DEF Delta, Slack, RangeUnknown
      <3>2. b * Scale \in Nat
        BY <2>2
      <3>3. Rounded((b * Scale) \div Unit, b)
        BY <2>7, <3>2, UnitRounds DEF Rounded
      <3>4. b - b = 0 /\ 0 \in 0 .. 0
        BY <2>2
      <3> HIDE DEF b
      <3> QED
        BY <2>1, <2>4, <2>7, <3>1, <3>3, <3>4 DEF Answers
    <2>8. CASE Backend = "powercap"
      <3>1. /\ range = MaxRange /\ MaxRange \in {0, Wrap - 1, Wrap}
            /\ ~RangeUnknown => MaxRange # 0 /\ Slack = Wrap - MaxRange
        BY <2>1, <2>8 DEF Slack, RangeUnknown
      <3>2. CASE v >= last
        <4>1. Delta(c) = v - last /\ v - last \in 0 .. Wrap - 1
          BY <2>1, <2>2, <2>8, <3>2, Facts DEF Delta
        <4>2. b % Wrap = v - last
          BY <2>2, <4>1, Facts
        <4>3. CASE ~RangeUnknown
          <5>1. b - Delta(c) \in 0 .. Slack
            BY <2>2, <2>5, <3>1, <4>1, <4>2, <4>3, Facts
          <5> QED
            BY <2>1, <2>4, <2>8, <4>3, <5>1 DEF Answers, Rounded
        <4>4. CASE RangeUnknown
          <5> DEFINE k == overflows
          <5>1. k \in Nat /\ b \in Nat /\ b < k * Wrap + Wrap
            BY <2>2 DEF Lost
          <5> HIDE DEF b, k
          <5>2. (b - (b % Wrap)) % Wrap = 0 /\ b - (b % Wrap) \in 0 .. k * Wrap
            BY <5>1, <1>0, WholeRounds
          <5>3. (b - Delta(c)) % Wrap = 0 /\ b - Delta(c) \in 0 .. k * Wrap
            BY <4>1, <4>2, <5>2
          <5> QED
            BY <2>1, <2>4, <2>8, <4>4, <5>3 DEF Answers, Rounded, k
        <4> QED
          BY <4>3, <4>4
      <3>3. CASE v < last
        <4>1. MaxRange # 0 /\ ~RangeUnknown /\ b < Wrap
          BY <2>1, <2>2, <2>4, <2>5, <2>8, <3>1, <3>3 DEF Overflow, RangeUnknown
        <4>2. Delta(c) = (MaxRange - last) + v
          BY <2>1, <2>2, <2>8, <3>1, <3>3 DEF Delta
        <4>3. (v - last) % Wrap = v - last + Wrap
          BY <2>2, <3>3, OnceAround
        <4>4. b = v - last + Wrap
          BY <2>2, <2>5, <4>1, <4>3
        <4>5. b - Delta(c) \in 0 .. Slack
          BY <2>2, <3>1, <4>1, <4>2, <4>4, Facts
        <4> QED
          BY <2>1, <2>4, <2>8, <4>1, <4>5 DEF Answers, Rounded
      <3> QED
        BY <2>2, <3>2, <3>3
    <2> QED
      BY <2>3, <2>7, <2>8
  <1>4. \/ reply' = reply
        \/ \E c \in Callers : ReadRpi5(c) \/ ReadStores(c)
    BY DEF Next, Call, Step, vars, BurnEnergy, Enter, GetBackend, InitAgain, InitSelects,
           InitFails, InitReads, InitStores, InitDone, Deinit, DeinitClears, ReadRefused,
           ReadFails, ReadSees, ReadOverflows
  <1>5. reply' # None => Answers(reply')
    BY <1>1, <1>2, <1>3, <1>4
  <1> QED
    BY <1>0, <1>5, AnsweredWell

(* The invariant holds throughout.                                         *)
LEMMA Invariance == Spec => []IInv
  <1>1. IInv /\ [Next]_vars => IInv'
    BY TypeStep, ExclusionStep, BackendsStep, DistancesStep, ReplyStep DEF IInv
  <1> QED
    BY <1>1, InitInv, PTL DEF Spec

(* Types of the meter's state, for every source and width.                 *)
THEOREM TypeCorrect == Spec => []TypeOK
  <1>1. IInv => TypeOK
    BY DEF IInv
  <1> QED
    BY <1>1, Invariance, PTL

(* A call has the meter for itself, whatever the number of callers.        *)
THEOREM CallsExclude == Spec => []CallsAreExclusive
  <1>1. IInv => CallsAreExclusive
    BY DEF IInv, Exclusion, Backends, Configured, CallsAreExclusive
  <1> QED
    BY <1>1, Invariance, PTL

(* A reading returns what was consumed since the last one that succeeded,  *)
(* on every machine, up to one reading's rounding; only a powercap counter *)
(* of unknown range goes short, by whole rounds and by at most one for     *)
(* each -EOVERFLOW before it, however many there were.                     *)
THEOREM RepliesAreConsumption == Spec => []EveryReplyIsConsumption
  <1>1. IInv => EveryReplyIsConsumption
    BY DEF IInv, EveryReplyIsConsumption
  <1> QED
    BY <1>1, Invariance, PTL

(* A backend seen without the lock can be read from.                       *)
THEOREM SeenBackendsWork == Spec => SeenBackendWorks
  <1>1. IInv /\ [Next]_vars => [\A c \in Callers : ReadRefused(c) => ~seen[c]]_vars
    <2> SUFFICES ASSUME IInv, NEW c \in Callers, ReadRefused(c), seen[c]
                 PROVE  FALSE
      BY DEF vars
    <2>1. at[c] = "read" /\ backend # "none" /\ ~initialized
      BY DEF ReadRefused, IInv, Backends
    <2>2. PICK d \in Callers : at[d] \in {"initDone", "deinitClears"}
      BY <2>1 DEF IInv, Backends
    <2>3. lock = c /\ lock = d
      BY <2>1, <2>2 DEF IInv, Exclusion
    <2> QED
      BY <2>1, <2>2, <2>3
  <1> QED
    BY <1>1, Invariance, PTL DEF Spec, SeenBackendWorks

-----------------------------------------------------------------------------
(* The meter implements the account                                        *)

(* What the account owes is what was burnt and not told.                   *)
LEMMA OwedIsOutstanding ==
  ASSUME IInv, initialized
  PROVE  /\ AccountOwed = Outstanding
         /\ Outstanding \in Nat /\ owed \in Nat
         /\ Tracked
  <1>0. Given
    BY MachineGiven DEF IInv, TypeOK
  <1> USE <1>0 DEF Given, IInv, TypeOK, Exclusion, Backends, Configured
  <1>1. Tracked /\ owed \in Nat
    BY DEF Tracked
  <1>2. CASE RangeUnknown
    <2>1. AccountOwed = Outstanding
      BY <1>2 DEF AccountOwed, RangeUnknown
    <2>2. ASSUME lock # None, raw[lock] # None PROVE raw[lock].burnt \in Nat
      BY <2>2
    <2> QED
      BY <1>1, <2>1, <2>2 DEF Outstanding
  <1>3. CASE ~RangeUnknown /\ lock # None /\ at[lock] = "readStores"
    <2>1. /\ lock \in Callers /\ raw[lock] # None /\ Backend # "rpi5"
          /\ overflows = 0 /\ Lost = 0
      BY <1>3, RoundsLost DEF Distances, Lost
    <2>2. /\ (counter - raw[lock].value) % Wrap = owed
          /\ (raw[lock].value - last) % Wrap = raw[lock].burnt % Wrap
          /\ raw[lock].burnt < Wrap /\ raw[lock].burnt \in Nat
      BY <1>1, <1>3, <2>1 DEF Distances
    <2>3. raw[lock].burnt \in 0 .. Wrap - 1
      BY <2>2, Width
    <2>4. raw[lock].burnt % Wrap = raw[lock].burnt
      BY <2>3, Facts
    <2>5. AccountOwed = raw[lock].burnt + owed
      BY <1>3, <2>1, <2>2, <2>4 DEF AccountOwed, Distance
    <2> QED
      BY <1>1, <1>3, <2>1, <2>2, <2>5 DEF Outstanding
  <1>4. CASE ~RangeUnknown /\ ~(lock # None /\ at[lock] = "readStores")
    <2>1. \A c \in Callers : raw[c] = None
      <3>1. ASSUME NEW c \in Callers PROVE raw[c] = None
        <4>1. at[c] # "readStores"
          BY <1>4
        <4>2. at[c] \notin {"initStores", "initDone"}
          OBVIOUS
        <4> QED
          BY <4>1, <4>2
      <3> QED
        BY <3>1
    <2>2. Outstanding = owed
      BY <2>1 DEF Outstanding
    <2>3. Backend = "rpi5" => owed = counter
      BY <1>1 DEF Distances
    <2>4. Backend # "rpi5" => (counter - last) % Wrap = owed
      <3>1. ASSUME Backend # "rpi5" PROVE (counter - last) % Wrap = owed
        <4>1. overflows = 0 /\ Lost = 0 /\ \A c \in Callers : at[c] # "readStores"
          BY <1>4, RoundsLost DEF Distances, Lost
        <4>2. (counter - last) % Wrap = owed % Wrap /\ owed = unread
          BY <1>1, <3>1, <4>1 DEF Distances
        <4>3. owed \in 0 .. Wrap - 1
          BY <4>2
        <4> QED
          BY <4>2, <4>3, Facts
      <3> QED
        BY <3>1
    <2> QED
      BY <1>1, <1>4, <2>2, <2>3, <2>4 DEF AccountOwed, Distance
  <1> QED
    BY <1>2, <1>3, <1>4

OwedIsSettled ==
  /\ AccountOwed = Outstanding
  /\ Outstanding \in Nat /\ owed \in Nat
  /\ Tracked

(* The same, as a formula about one state.                                 *)
LEMMA OwedIsSettledNow == IInv /\ initialized => OwedIsSettled
  BY OwedIsOutstanding DEF OwedIsSettled

(* And about the next one.                                                 *)
LEMMA OwedIsSettledNext == IInv' /\ initialized' => OwedIsSettled'
  BY OwedIsSettledNow, PTL

Told == IF reply = None THEN 0 ELSE reply.delta

(* The answer of a reading is an answer.                                   *)
LEMMA AnswerIsNotNone ==
  ASSUME NEW d \in Int, NEW u \in Int, NEW b \in Int, NEW a \in Nat
  PROVE  [delta |-> d, uj |-> u, burnt |-> b, announced |-> a] # None
  BY MeterConstants

(* Microjoules are integers.                                               *)
LEMMA MicroIsInt ==
  ASSUME Given, NEW n \in Int PROVE Micro(n) \in Int
  <1>1. Scale \in Nat /\ Scale > 0 /\ Scale \div 2 \in Int
    BY DEF Given
  <1>2. n + (Scale \div 2) \in Int
    BY <1>1
  <1> QED
    BY <1>1, <1>2 DEF Micro

(* The difference a reading stores is a natural number.                    *)
LEMMA DeltaIsNat ==
  ASSUME IInv, NEW c \in Callers, ReadStores(c)
  PROVE  Delta(c) \in Nat
  <1>0. Given
    BY MachineGiven DEF IInv, TypeOK
  <1> USE <1>0 DEF Given, IInv, TypeOK, Exclusion, Backends, Configured
  <1> DEFINE v == raw[c].value
  <1>1. /\ raw[c] # None /\ backend = Backend /\ Backend \in {"amd", "powercap"}
        /\ ~Overflow(c)
    BY DEF ReadStores
  <1>2. v \in 0 .. Wrap - 1
    BY <1>1
  <1>3. CASE Backend = "amd"
    <2>1. (v - last) % Wrap \in 0 .. Wrap - 1
      BY <1>2, Facts
    <2> QED
      BY <1>1, <1>3, <2>1 DEF Delta
  <1>4. CASE Backend = "powercap"
    <2>1. range = MaxRange /\ MaxRange \in {0, Wrap - 1, Wrap}
      BY <1>4 DEF ReadStores
    <2>2. v < last => MaxRange # 0
      BY <1>1, <1>4, <2>1 DEF Overflow
    <2> QED
      BY <1>1, <1>2, <1>4, <2>1, <2>2, Width DEF Delta
  <1> QED
    BY <1>1, <1>3, <1>4

Unseen == UNCHANGED <<initialized, AccountOwed, overflows, Told>>

(* The states between which an account does nothing.                       *)
LEMMA NotTold ==
  ASSUME IInv, IInv', UNCHANGED <<initialized, reply, overflows>>,
         initialized => Outstanding' = Outstanding
  PROVE  Unseen
  <1>1. CASE initialized
    <2>1. AccountOwed = Outstanding
      BY <1>1, OwedIsOutstanding
    <2>2. AccountOwed' = Outstanding'
      BY <1>1, OwedIsSettledNext DEF OwedIsSettled
    <2> QED
      BY <1>1, <2>1, <2>2 DEF Told, Unseen
  <1>2. CASE ~initialized
    BY <1>2 DEF AccountOwed, Told, Unseen
  <1> QED
    BY <1>1, <1>2

AccountStep ==
    \/ Account!Burn \/ Account!Open \/ Account!Close \/ Account!Refuse \/ Account!Tell
    \/ Unseen

(* What a call does before it stores, or when it fails, the account does   *)
(* not see.                                                                *)
LEMMA UnseenSteps ==
  ASSUME IInv, IInv', NEW c \in Callers,
         [Next]_vars,
         \/ \E call \in {"init", "deinit", "read"} : Enter(c, call)
         \/ GetBackend(c) \/ InitAgain(c) \/ InitSelects(c) \/ InitFails(c)
         \/ InitReads(c) \/ InitStores(c) \/ DeinitClears(c)
         \/ ReadRefused(c) \/ ReadFails(c) \/ ReadSees(c)
  PROVE  Unseen
  <1>0. Given /\ Same
    BY GivenAndSame DEF IInv
  <1> USE <1>0 DEF Given, Same, IInv, TypeOK, Exclusion, meterVars, history
  <1>1. ASSUME NEW call \in {"init", "deinit", "read"}, Enter(c, call)
        PROVE  Unseen
    <2>1. raw[c] = None
      BY <1>1 DEF Enter
    <2>2. Outstanding' = Outstanding
      BY <1>1, <2>1 DEF Enter, Outstanding
    <2> QED
      BY <1>1, <2>2, NotTold DEF Enter
  <1>2. CASE GetBackend(c)
    BY <1>2, NotTold DEF GetBackend, Outstanding
  <1>3. ASSUME InitAgain(c) \/ ReadRefused(c) \/ ReadFails(c)
        PROVE  Unseen
    <2>1. at[c] \in {"init", "read"} /\ Return(c) /\ UNCHANGED <<initialized, reply, owed, overflows>>
      BY <1>3 DEF InitAgain, ReadRefused, ReadFails
    <2>2. lock = c /\ raw[c] = None /\ lock' = None
      BY <2>1 DEF Return
    <2>3. Outstanding' = Outstanding
      BY <2>1, <2>2 DEF Outstanding
    <2> QED
      BY <2>1, <2>3, NotTold
  <1>4. ASSUME InitSelects(c) \/ InitFails(c) \/ InitReads(c) \/ InitStores(c) \/ DeinitClears(c)
        PROVE  Unseen
    <2>1. ~initialized /\ UNCHANGED <<initialized, reply, overflows>>
      BY <1>4
         DEF InitSelects, InitFails, InitReads, InitStores, DeinitClears,
             Backends
    <2> QED
      BY <2>1, NotTold
  <1>5. CASE ReadSees(c)
    <2>1. lock = c /\ raw[c] = None /\ lock # None
      BY <1>5 DEF ReadSees
    <2>2. /\ raw' = [raw EXCEPT ![c] = [value |-> RawValue, burnt |-> owed]]
          /\ owed' = 0 /\ lock' = lock /\ at'[c] = "readStores"
      BY <1>5 DEF ReadSees, SeeCounter, GoOn
    <2>3. raw'[c].burnt = owed /\ raw'[c] # None
      <3>1. raw'[c] # None
        BY <2>2
      <3> QED
        BY <2>2, <3>1
    <2>4. Outstanding' = 0 + owed /\ Outstanding = owed
      BY <2>1, <2>2, <2>3 DEF Outstanding
    <2>5. Outstanding' = Outstanding
      BY <2>4
    <2> QED
      BY <1>5, <2>5, NotTold DEF ReadSees
  <1> QED
    BY <1>1, <1>2, <1>3, <1>4, <1>5

(* Every step of the meter is a step of the account or none.               *)
LEMMA StepImplements ==
  ASSUME IInv, IInv', [Next]_vars
  PROVE  AccountStep
  <1>0. Given /\ Same
    BY GivenAndSame DEF IInv
  <1> USE <1>0 DEF Given, Same, IInv, TypeOK, Exclusion, meterVars, history
  <1>1. ASSUME NEW e \in 1 .. MaxBurst, BurnEnergy(e) PROVE AccountStep
    <2>1. UNCHANGED <<initialized, reply, lock, raw, overflows>>
      BY <1>1 DEF BurnEnergy
    <2>2. CASE ~initialized
      BY <2>1, <2>2, NotTold DEF AccountStep, Unseen
    <2>3. CASE initialized
      <3>1. Tracked /\ AccountOwed = Outstanding /\ Outstanding \in Nat
        BY <2>3, OwedIsOutstanding
      <3>2. AccountOwed' = Outstanding'
        BY <2>1, <2>3, OwedIsSettledNext DEF OwedIsSettled
      <3>3. owed' = owed + e
        BY <1>1, <3>1 DEF BurnEnergy
      <3>4. Outstanding' = Outstanding + e
        <4>1. CASE lock # None /\ raw[lock] # None
          <5>1. raw[lock].burnt \in Nat
            BY <4>1
          <5> QED
            BY <2>1, <3>3, <4>1, <5>1 DEF Outstanding
        <4>2. CASE ~(lock # None /\ raw[lock] # None)
          BY <2>1, <3>3, <4>2 DEF Outstanding
        <4> QED
          BY <4>1, <4>2
      <3>5. AccountOwed' - AccountOwed \in 1 .. MaxBurst /\ Told' = Told
        BY <2>1, <3>1, <3>2, <3>4 DEF Told
      <3> QED
        BY <2>1, <2>3, <3>5 DEF AccountStep, Account!Burn, Told
    <2> QED
      BY <2>2, <2>3
  <1>2. ASSUME NEW c \in Callers, InitDone(c) PROVE AccountStep
    <2>1. ~initialized /\ initialized' /\ UNCHANGED <<reply, overflows>>
      BY <1>2 DEF InitDone, Backends
    <2>2. AccountOwed' \in Nat
      BY <2>1, OwedIsSettledNext DEF OwedIsSettled
    <2> QED
      BY <2>1, <2>2 DEF AccountStep, Account!Open, Told
  <1>3. ASSUME NEW c \in Callers, Deinit(c) PROVE AccountStep
    <2>1. initialized' = FALSE /\ reply' = reply /\ overflows' = 0
      BY <1>3 DEF Deinit
    <2>2. CASE initialized
      BY <2>1, <2>2 DEF AccountStep, Account!Close, AccountOwed, Told
    <2>3. CASE ~initialized
      <3>1. overflows = 0
        BY <2>3 DEF Distances
      <3> QED
        BY <2>1, <2>3, <3>1, NotTold DEF AccountStep, Unseen
    <2> QED
      BY <2>2, <2>3
  <1>4. ASSUME NEW c \in Callers, ReadRpi5(c) PROVE AccountStep
    <2>1. /\ initialized /\ initialized' /\ Backend = "rpi5" /\ lock = c /\ raw[c] = None
          /\ lock' = None /\ owed' = 0
      BY <1>4 DEF ReadRpi5, Return, Backends, Configured
    <2>2. reply' # None /\ reply'.delta = counter
      <3> DEFINE answer == [delta |-> counter, uj |-> Micro(counter), burnt |-> owed,
                            announced |-> 0]
      <3>1. reply' = answer
        BY <1>4 DEF ReadRpi5
      <3>2. counter \in Int /\ owed \in Int
        BY Width
      <3>3. Micro(counter) \in Int
        BY <3>2, MicroIsInt
      <3>4. answer # None
        <4> DEFINE uj == Micro(counter)
        <4>1. uj \in Int /\ 0 \in Nat
          BY <3>3
        <4> HIDE DEF IInv, TypeOK, Exclusion, meterVars, history, uj
        <4>2. [delta |-> counter, uj |-> uj, burnt |-> owed, announced |-> 0] # None
          BY <3>2, <4>1, AnswerIsNotNone
        <4> QED
          BY <4>2 DEF uj
      <3> QED
        BY <3>1, <3>4
    <2>3. AccountOwed = counter /\ AccountOwed' = counter' /\ counter' = 0
      BY <1>4, <2>1 DEF ReadRpi5, AccountOwed
    <2>4. counter \in Nat
      BY Width
    <2>5. Told' = counter
      BY <2>2 DEF Told
    <2>7. overflows' = 0 /\ Lost = 0
      <3>1. overflows = 0 /\ overflows' = overflows
        BY <1>4, <2>1 DEF ReadRpi5, Distances, RangeUnknown
      <3> QED
        BY <3>1, RoundsLost DEF Lost
    <2>6. /\ Told' \in 0 .. AccountOwed /\ AccountOwed' >= 0
          /\ AccountOwed - Told' - AccountOwed' \in 0 .. Slack + Lost
      BY <2>1, <2>3, <2>4, <2>5, <2>7 DEF Slack, RangeUnknown
    <2> QED
      BY <2>1, <2>6, <2>7 DEF AccountStep, Account!Tell, Told, Lost
  <1>5. ASSUME NEW c \in Callers, ReadStores(c) PROVE AccountStep
    <2>1. /\ initialized /\ initialized' /\ lock = c /\ lock # None /\ raw[c] # None
          /\ lock' = None /\ owed' = owed /\ overflows' = 0
      BY <1>5 DEF ReadStores, Return, Backends
    <2>2. /\ reply' # None /\ reply'.delta = Delta(c) /\ reply'.burnt = raw[c].burnt
          /\ reply'.announced = overflows
      <3> DEFINE uj == IF backend = "amd" THEN (Delta(c) * Scale) \div unit ELSE Delta(c)
                 burnt == raw[c].burnt
                 answer == [delta |-> Delta(c), uj |-> uj, burnt |-> burnt,
                            announced |-> overflows]
      <3>1. reply' = answer
        BY <1>5 DEF ReadStores
      <3>2. Delta(c) \in Nat /\ burnt \in Int /\ unit \in Nat /\ unit > 0 /\ Scale \in Nat
        BY <1>5, <2>1, DeltaIsNat
      <3>3. uj \in Int
        BY <3>2
      <3>4. answer # None
        <4> HIDE DEF uj, burnt
        <4> QED
          BY <3>2, <3>3, AnswerIsNotNone DEF answer
      <3> QED
        BY <3>1, <3>4
    <2>3. reply'.burnt - reply'.delta \in 0 .. Slack + Lost
      <3>1. Slack \in Nat /\ Lost \in Nat
        BY RoundsLost DEF Slack, Lost, RangeUnknown
      <3>2. RangeUnknown' = RangeUnknown /\ Slack' = Slack
        BY DEF RangeUnknown, Slack
      <3>3. CASE ~RangeUnknown
        <4>1. reply'.burnt - reply'.delta \in 0 .. Slack
          BY <2>2, <3>2, <3>3 DEF ReplyIsConsumption
        <4> QED
          BY <3>1, <4>1
      <3>4. CASE RangeUnknown
        <4>1. reply'.burnt - reply'.delta \in 0 .. Lost
          BY <2>2, <3>2, <3>4 DEF ShortfallIsAnnounced, Lost
        <4> QED
          BY <3>1, <4>1
      <3> QED
        BY <3>3, <3>4
    <2>4. AccountOwed = Outstanding /\ AccountOwed' = Outstanding' /\ owed \in Nat
      BY <2>1, OwedIsOutstanding, OwedIsSettledNext DEF OwedIsSettled
    <2>5. Outstanding = owed + raw[c].burnt /\ Outstanding' = owed /\ raw[c].burnt \in Nat
      BY <2>1 DEF Outstanding
    <2>6. Told' = Delta(c)
      BY <2>2 DEF Told
    <2>7. Delta(c) \in Nat
      BY <1>5, <2>1, DeltaIsNat
    <2>8. Slack \in Nat /\ Lost \in Nat
      BY RoundsLost DEF Slack, Lost, RangeUnknown
    <2>9. /\ Told' \in 0 .. AccountOwed /\ AccountOwed' >= 0
          /\ AccountOwed - Told' - AccountOwed' \in 0 .. Slack + Lost
      BY <2>2, <2>3, <2>4, <2>5, <2>6, <2>7, <2>8
    <2> QED
      BY <2>1, <2>9 DEF AccountStep, Account!Tell, Told, Lost
  <1>6. ASSUME UNCHANGED vars PROVE AccountStep
    BY <1>6, NotTold DEF vars, AccountStep, Outstanding, Unseen
  <1>8. ASSUME NEW c \in Callers, ReadOverflows(c) PROVE AccountStep
    <2>1. /\ lock = c /\ lock # None /\ raw[c] # None /\ lock' = None /\ initialized
          /\ owed' = owed + raw[c].burnt /\ UNCHANGED <<initialized, reply>>
          /\ overflows' = overflows + 1
      BY <1>8 DEF ReadOverflows, Return, Backends
    <2>2. Outstanding' = Outstanding
      BY <2>1 DEF Outstanding
    <2>3. AccountOwed' = AccountOwed
      BY <2>1, <2>2, OwedIsOutstanding, OwedIsSettledNext DEF OwedIsSettled
    <2> QED
      BY <2>1, <2>3 DEF AccountStep, Account!Refuse, Told
  <1>7. ASSUME NEW c \in Callers, Call(c) \/ Step(c) PROVE AccountStep
    BY <1>2, <1>3, <1>4, <1>5, <1>7, <1>8, UnseenSteps
       DEF Call, Step, AccountStep
  <1> QED
    BY <1>1, <1>6, <1>7 DEF Next

(* The meter implements the account, whatever counter is behind it.        *)
THEOREM MeterImplementsAccount == Spec => ImplementsAccount
  <1>1. Init => Account!AccountInit
    <2> SUFFICES ASSUME Init PROVE Account!AccountInit
      OBVIOUS
    <2>1. Given
      BY MachineGiven DEF Init
    <2>2. Slack \in Nat /\ Wrap \in Nat
      BY <2>1 DEF Given, Slack, RangeUnknown
    <2> QED
      BY <2>2 DEF Init, Account!AccountInit, AccountOwed
  <1>2. IInv /\ IInv' /\ [Next]_vars => [Account!AccountNext]_(Account!accountVars)
    <2> SUFFICES ASSUME IInv, IInv', [Next]_vars
                 PROVE  [Account!AccountNext]_(Account!accountVars)
      OBVIOUS
    <2>1. AccountStep
      BY StepImplements
    <2>2. Slack' = Slack /\ Wrap' = Wrap
      BY MachineStays DEF Same, Slack, RangeUnknown
    <2> QED
      BY <2>1, <2>2
         DEF AccountStep, Unseen, Account!AccountNext, Account!accountVars, Account!kind, Told
  <1> QED
    BY <1>1, <1>2, Invariance, PTL
       DEF Spec, ImplementsAccount, Account!AccountSpec

(***************************************************************************)
(* The sampler, for any set of takers, any limit on pending ticks and any  *)
(* number of ticks and starts                                              *)
(***************************************************************************)

(* The firmware handle is held exactly while there is a thread, an ended   *)
(* one that nobody joined yet included.                                    *)
HandleWithThread == fw <=> thread # "none"

(* The inductive invariant.                                                *)
SamplerInv ==
    /\ SamplerTypeOK
    /\ HandleWithThread
    /\ EnergyWithinElapsedTime

(* Nothing is held or counted before the first start.                      *)
LEMMA SamplerInvInit == SamplerInit => SamplerInv
  <1> SUFFICES ASSUME SamplerInit PROVE SamplerInv
    OBVIOUS
  <1> USE SamplerConstants DEF SamplerInit
  <1>1. SamplerTypeOK
    <2>1. taking \in [Takers -> Nat \cup {Nothing}]
      OBVIOUS
    <2>2. result \in [summed : Nat, samples : Nat] \cup {Nothing}
      OBVIOUS
    <2>3. pendingTicks \in 0 .. MaxPendingTicks /\ ticks \in 0 .. MaxTicks
      OBVIOUS
    <2>4. starts \in 0 .. MaxStarts
      OBVIOUS
    <2> QED
      BY <2>1, <2>2, <2>3, <2>4, Zenon DEF SamplerTypeOK
  <1>2. HandleWithThread
    BY DEF HandleWithThread
  <1>3. EnergyWithinElapsedTime
    BY DEF EnergyWithinElapsedTime
  <1> QED
    BY <1>1, <1>2, <1>3 DEF SamplerInv

(* Every atomic operation of timer, thread, owner and takers keeps the     *)
(* invariant: a tick moves from the pending ones to the thread's hands, to *)
(* the sum and to a taker, or is lost, and is never copied.                *)
LEMMA SamplerInvStep == SamplerInv /\ [SamplerNext]_samplerVars => SamplerInv'
  <1> SUFFICES ASSUME SamplerInv, [SamplerNext]_samplerVars PROVE SamplerInv'
    OBVIOUS
  <1> USE SamplerConstants
      DEF SamplerInv, SamplerTypeOK, HandleWithThread, EnergyWithinElapsedTime,
          threadVars, sumVars, takeVars
  <1>1. CASE TimerFires
    BY <1>1 DEF TimerFires, PendingAfterTick
  <1>2. CASE ThreadWakes
    BY <1>2 DEF ThreadWakes
  <1>3. CASE ThreadClaims
    BY <1>3 DEF ThreadClaims
  <1>4. CASE ThreadReads
    BY <1>4 DEF ThreadReads
  <1>5. CASE ThreadAdds
    BY <1>5 DEF ThreadAdds
  <1>6. CASE ThreadCounts
    BY <1>6 DEF ThreadCounts
  <1>7. CASE Start
    <2>1. CASE UNCHANGED <<fw, threadVars, armed>>
      BY <1>7, <2>1 DEF Start
    <2>2. CASE fw' = TRUE /\ thread' = "wait" /\ stopAsked' = FALSE /\ armed' = TRUE
      <3> USE <1>7, <2>2 DEF Start
      <3>1. pendingTicks' \in 0 .. MaxPendingTicks /\ powerSum' \in Nat
        OBVIOUS
      <3>2. sampleCount' \in Nat /\ starts' \in 0 .. MaxStarts
        OBVIOUS
      <3>3. SamplerTypeOK'
        BY <3>1, <3>2, Zenon
      <3>4. HandleWithThread'
        BY Zenon
      <3>5. EnergyWithinElapsedTime'
        OBVIOUS
      <3> QED
        BY <3>3, <3>4, <3>5
    <2> QED
      BY <1>7, <2>1, <2>2 DEF Start
  <1>8. CASE StopCancels
    BY <1>8 DEF StopCancels
  <1>9. CASE StopJoins
    <2> USE <1>9 DEF StopJoins, Joined
    <2>1. thread = "exited" /\ thread' = "none"
      OBVIOUS
    <2>2. SamplerTypeOK'
      <3>1. pendingTicks' \in 0 .. MaxPendingTicks
        OBVIOUS
      <3> QED
        BY <2>1, <3>1, Zenon
    <2>3. HandleWithThread'
      BY <2>1
    <2>4. EnergyWithinElapsedTime'
      BY <2>1
    <2> QED
      BY <2>2, <2>3, <2>4
  <1>10. ASSUME NEW t \in Takers, Take(t) PROVE SamplerInv'
    BY <1>10 DEF Take, SumAfterTake
  <1>11. ASSUME NEW t \in Takers, TakeSum(t) PROVE SamplerInv'
    BY <1>11 DEF TakeSum, SumAfterTake
  <1>12. ASSUME NEW t \in Takers, TakeCount(t) PROVE SamplerInv'
    BY <1>12 DEF TakeCount
  <1>13. CASE UNCHANGED samplerVars
    BY <1>13 DEF samplerVars
  <1> QED
    BY <1>1, <1>2, <1>3, <1>4, <1>5, <1>6, <1>7, <1>8, <1>9, <1>10, <1>11,
       <1>12, <1>13 DEF SamplerNext, ThreadStep

(* The invariant holds throughout.                                         *)
THEOREM SamplerInvariant == SamplerSpec => []SamplerInv
  <1>1. SamplerInit => SamplerInv
    BY SamplerInvInit
  <1>2. SamplerInv /\ [SamplerNext]_samplerVars => SamplerInv'
    BY SamplerInvStep
  <1> QED
    BY <1>1, <1>2, PTL DEF SamplerSpec

(* The sampler's variables keep their types; no more than                  *)
(* VDD_CORE_MAX_PENDING_TICKS ticks are ever pending.                      *)
THEOREM SamplerTypeCorrect == SamplerSpec => []SamplerTypeOK
  <1>1. SamplerInv => SamplerTypeOK
    BY DEF SamplerInv
  <1> QED
    BY <1>1, SamplerInvariant, PTL

(* The thread never uses a firmware handle that vdd_core_sampler_stop gave *)
(* back.                                                                   *)
THEOREM FirmwareHandleOutlivesThread == SamplerSpec => []FirmwareOutlivesThread
  <1>1. SamplerInv => FirmwareOutlivesThread
    BY DEF SamplerInv, HandleWithThread, FirmwareOutlivesThread
  <1> QED
    BY <1>1, SamplerInvariant, PTL

(* However many callers take the accumulator, their samples and those not  *)
(* yet taken never stand for more ticks than the timer gave.               *)
THEOREM EnergyNeverExceedsTime == SamplerSpec => []EnergyWithinElapsedTime
  <1>1. SamplerInv => EnergyWithinElapsedTime
    BY DEF SamplerInv
  <1> QED
    BY <1>1, SamplerInvariant, PTL
=============================================================================
