---------------------------- MODULE Measurement ----------------------------
(***************************************************************************)
(* How src/train.c measures one CPU: the perf events of src/pmu/pmu.c, the *)
(* core energy counter of src/power/amd_core_energy.c, the samples that    *)
(* freqmind_choose_freq takes of both, and the module's own life.          *)
(*                                                                         *)
(* start, the worker and stop run one after the other (TrainGovernor shows *)
(* it), so that one thread position is enough; between any two of its      *)
(* steps the CPU works and its core burns energy.  Counter values wrap at  *)
(* PmuWrap and EnergyWrap instead of 2^64 and 2^32.  The events all count  *)
(* the same work.                                                          *)
(***************************************************************************)
EXTENDS Integers, FiniteSets

CONSTANTS
    Events,      \* PMU_EVENT_LIST
    PmuWrap,     \* 2^64, the width of a perf event
    EnergyWrap,  \* 2^32, the width of AMD_MSR_CORE_ENERGY
    EnergyScale, \* 10^6, the microjoules of a joule
    EnergyUnit,  \* 2^amd_energy_esu, the counts of a joule
    MaxBurst,    \* bound: work done, or energy burnt, in one step
    None

ASSUME MeasurementConstants ==
    /\ IsFiniteSet(Events)
    /\ PmuWrap \in Nat /\ PmuWrap > 1
    /\ EnergyWrap \in Nat /\ EnergyWrap > 1
    /\ EnergyScale \in Nat \ {0}
    /\ EnergyUnit \in Nat \ {0}
    /\ MaxBurst \in Nat \ {0}

VARIABLES
    module,       \* "out" or "in"
    energyState,  \* amd_energy_state: "null" or "allocated"
    initialized,  \* amd_energy_state[cpu].initialized
    lastRaw,      \* amd_energy_state[cpu].last_raw
    events,       \* the perf events that exist
    value,        \* their hardware values
    prevValues,   \* counter->_prev_values
    created,      \* counter->_created
    msr,          \* AMD_MSR_CORE_ENERGY of the core
    at,           \* where start or the worker is
    cycles,       \* the counts the worker read in this wake-up
    sample,       \* None, or the sample taken last
    \* history
    work,         \* work done since the last PMU reading
    joules,       \* counts of energy burnt since the last successful reading of it
    behind,       \* PMU readings since that reading, capped at 2
    afterError    \* whether an energy reading failed since

moduleVars == <<module, energyState>>
energyVars == <<initialized, lastRaw>>
pmuVars    == <<events, value, prevValues, created>>
worldVars  == <<msr, work, joules>>
vars == <<moduleVars, energyVars, pmuVars, worldVars, at, cycles, sample, behind,
          afterError>>

-----------------------------------------------------------------------------
(* The hardware                                                            *)

Started == at \in {"resetPmu", "resetEnergy", "wait", "energy"}

(* Work and energy between two steps.  While the governor runs, a period   *)
(* is far too short for a counter to wrap more than once; while it is      *)
(* stopped the energy counter may wrap as often as it likes.               *)
Burn(w, e) ==
    /\ w + e > 0
    /\ ~created => w = 0
    /\ work + w < PmuWrap
    /\ joules + e < EnergyWrap \/ ~Started
    /\ value' = [ev \in DOMAIN value |-> (value[ev] + w) % PmuWrap]
    /\ msr' = (msr + e) % EnergyWrap
    /\ work' = work + w
    /\ joules' = IF joules + e < EnergyWrap THEN joules + e ELSE EnergyWrap
    /\ UNCHANGED <<moduleVars, energyVars, events, prevValues, created, at, cycles,
                   sample, behind, afterError>>

-----------------------------------------------------------------------------
(* src/power/amd_core_energy.c                                             *)

(* Mutant: the difference of the two readings in signed arithmetic.        *)
SignedEnergyDelta ==
    IF initialized THEN ((msr - lastRaw) * EnergyScale) \div EnergyUnit ELSE 0

(* amd_core_energy_delta_uj: the difference modulo the width of the        *)
(* counter, in whole microjoules; the first reading of a CPU only          *)
(* remembers the value.                                                    *)
EnergyDelta ==
    IF initialized
    THEN (((msr - lastRaw) % EnergyWrap) * EnergyScale) \div EnergyUnit
    ELSE 0

(* Mutant: an error is noticed only after the baseline was taken.          *)
EnergyErrorTakesBaseline ==
    /\ initialized' = TRUE
    /\ lastRaw' = msr
    /\ afterError' = TRUE
    /\ UNCHANGED <<joules, behind>>

EnergyRead ==
    /\ energyState = "allocated"
    /\ initialized' = TRUE
    /\ lastRaw' = msr
    /\ joules' = 0
    /\ behind' = 0
    /\ afterError' = FALSE

(* No state, CPU offline or the MSR cannot be read: nothing changes.       *)
EnergyError ==
    /\ afterError' = TRUE
    /\ UNCHANGED <<initialized, lastRaw, joules, behind>>

-----------------------------------------------------------------------------
(* src/pmu/pmu.c                                                           *)

Counted == [ev \in events |-> (value[ev] - prevValues[ev]) % PmuWrap]

(* pmu_read_events and pmu_reset_counter: all values become the baseline.  *)
PmuRead ==
    /\ prevValues' = value
    /\ work' = 0
    /\ behind' = IF behind = 0 THEN 1 ELSE 2

(* Mutant: the events created before the one that failed are kept.         *)
PmuDeleteNothing ==
    /\ created' = FALSE
    /\ work' = 0
    /\ UNCHANGED <<events, value, prevValues>>

(* pmu_delete_counter: every event released, the fields reset.             *)
PmuDelete ==
    /\ events' = {}
    /\ value' = << >>
    /\ prevValues' = << >>
    /\ created' = FALSE
    /\ work' = 0

-----------------------------------------------------------------------------
(* freqmind_start: pmu_create_counter creates the events one by one ...    *)

StartCreate ==
    /\ module = "in"
    /\ at = "idle"
    /\ at' = "creating"
    /\ sample' = None
    /\ UNCHANGED <<moduleVars, energyVars, pmuVars, worldVars, cycles, behind,
                   afterError>>

CreateEvent ==
    /\ at = "creating"
    /\ \E ev \in Events \ events :
          /\ events' = events \cup {ev}
          /\ value' = [e \in events \cup {ev} |-> IF e = ev THEN 0 ELSE value[e]]
          /\ prevValues' = [e \in events \cup {ev} |-> 0]
    /\ UNCHANGED <<moduleVars, energyVars, created, worldVars, at, cycles, sample, behind,
                   afterError>>

(* ... and releases them all when one cannot be created.                   *)
CreateFails ==
    /\ at = "creating"
    /\ events # Events
    /\ PmuDelete
    /\ at' = "idle"
    /\ UNCHANGED <<moduleVars, energyVars, msr, joules, cycles, sample, behind, afterError>>

(* ... enables them and takes the baseline.                                *)
CreateDone ==
    /\ at = "creating"
    /\ events = Events
    /\ created' = TRUE
    /\ \E w \in 0 .. MaxBurst : value' = [ev \in Events |-> w % PmuWrap]
    /\ prevValues' = value'
    /\ work' = 0
    /\ behind' = IF behind = 0 THEN 1 ELSE 2
    /\ at' = "startEnergy"
    /\ UNCHANGED <<moduleVars, energyVars, events, msr, joules, cycles, sample,
                   afterError>>

(* freqmind_start: the first energy reading, discarded; an error gives the *)
(* events back.                                                            *)
StartEnergy ==
    /\ at = "startEnergy"
    /\ EnergyRead
    /\ at' = "resetPmu"
    /\ UNCHANGED <<moduleVars, pmuVars, msr, work, cycles, sample>>

StartEnergyFails ==
    /\ at = "startEnergy"
    /\ EnergyError
    /\ PmuDelete
    /\ at' = "idle"
    /\ UNCHANGED <<moduleVars, msr, cycles, sample>>

-----------------------------------------------------------------------------
(* freqmind_reset_measurement_baseline, when a benchmark was started: both *)
(* readings are discarded and errors ignored.                              *)

ResetPmu ==
    /\ at = "resetPmu"
    /\ PmuRead
    /\ at' = "resetEnergy"
    /\ UNCHANGED <<moduleVars, energyVars, events, value, created, msr, joules, cycles,
                   sample, afterError>>

(* Mutant: the energy reading is left out.                                 *)
ResetPmuOnly ==
    /\ at = "resetEnergy"
    /\ at' = "wait"
    /\ UNCHANGED <<moduleVars, energyVars, pmuVars, worldVars, cycles, sample, behind,
                   afterError>>

ResetEnergy ==
    /\ at = "resetEnergy"
    /\ EnergyRead \/ EnergyError
    /\ at' = "wait"
    /\ UNCHANGED <<moduleVars, pmuVars, msr, work, cycles, sample>>

(* freqmind_choose_freq: the PMU ...                                       *)
SamplePmu ==
    /\ at = "wait"
    /\ created
    /\ cycles' = [counted |-> Counted, done |-> work]
    /\ PmuRead
    /\ at' = "energy"
    /\ UNCHANGED <<moduleVars, energyVars, events, value, created, msr, joules, sample,
                   afterError>>

(* ... the energy, and a sample unless there were no cycles or not one     *)
(* whole microjoule; it may lead to another benchmark.                     *)
SampleEnergy ==
    /\ at = "energy"
    /\ EnergyRead
    /\ sample' = IF EnergyDelta = 0 \/ \E ev \in events : cycles.counted[ev] = 0
                 THEN sample
                 ELSE [counted |-> cycles.counted, done |-> cycles.done,
                       energy |-> EnergyDelta, burnt |-> joules, periods |-> behind,
                       afterError |-> afterError]
    /\ at' \in {"wait", "resetPmu"}
    /\ cycles' = None
    /\ UNCHANGED <<moduleVars, pmuVars, msr, work>>

(* The counts read are lost when the energy cannot be read.                *)
SampleEnergyFails ==
    /\ at = "energy"
    /\ EnergyError
    /\ at' = "wait"
    /\ cycles' = None
    /\ UNCHANGED <<moduleVars, pmuVars, msr, work, sample>>

(* freqmind_stop, and the failures of freqmind_start after the events were *)
(* created: pmu_delete_counter.                                            *)
Stop ==
    /\ at \in {"wait", "resetPmu"}
    /\ PmuDelete
    /\ at' = "idle"
    /\ UNCHANGED <<moduleVars, energyVars, msr, joules, cycles, sample, behind, afterError>>

-----------------------------------------------------------------------------
(* freqmind_module_init and freqmind_module_exit                           *)

(* amd_energy_init_state worked; registering the governor may not.         *)
Load ==
    /\ module = "out"
    /\ energyState' = "allocated"
    /\ initialized' = FALSE
    /\ lastRaw' = 0
    /\ joules' = 0
    /\ module' \in {"in", "out"}
    /\ UNCHANGED <<pmuVars, msr, work, at, cycles, sample, behind, afterError>>

(* No policy uses the governor any more.                                   *)
Unload ==
    /\ module = "in"
    /\ at = "idle"
    /\ module' = "out"
    /\ UNCHANGED <<energyState, energyVars, pmuVars, worldVars, at, cycles, sample,
                   behind, afterError>>

Init ==
    /\ module = "out"
    /\ energyState = "null"
    /\ initialized = FALSE
    /\ lastRaw = 0
    /\ events = {} /\ value = << >> /\ prevValues = << >> /\ created = FALSE
    /\ msr \in 0 .. EnergyWrap - 1
    /\ at = "idle"
    /\ cycles = None
    /\ sample = None
    /\ work = 0 /\ joules = 0 /\ behind = 0 /\ afterError = FALSE

Next ==
    \/ \E w, e \in 0 .. MaxBurst : Burn(w, e)
    \/ StartCreate \/ CreateEvent \/ CreateFails \/ CreateDone
    \/ StartEnergy \/ StartEnergyFails
    \/ ResetPmu \/ ResetEnergy \/ SamplePmu \/ SampleEnergy \/ SampleEnergyFails
    \/ Stop \/ Load \/ Unload

Spec == Init /\ [][Next]_vars

-----------------------------------------------------------------------------
(* Properties                                                              *)

TypeOK ==
    /\ module \in {"in", "out"}
    /\ energyState \in {"null", "allocated"}
    /\ initialized \in BOOLEAN
    /\ lastRaw \in 0 .. EnergyWrap - 1
    /\ events \subseteq Events
    /\ value \in [events -> 0 .. PmuWrap - 1]
    /\ prevValues \in [events -> 0 .. PmuWrap - 1]
    /\ created \in BOOLEAN
    /\ msr \in 0 .. EnergyWrap - 1
    /\ at \in {"idle", "creating", "startEnergy"} \cup
              {"resetPmu", "resetEnergy", "wait", "energy"}
    /\ work \in 0 .. PmuWrap - 1
    /\ joules \in 0 .. EnergyWrap
    /\ behind \in 0 .. 2
    /\ afterError \in BOOLEAN

(* pmu_create_counter is all or nothing, and no path of start or stop      *)
(* leaves a perf event behind that pmu_delete_counter could not find.      *)
AllEventsOrNone ==
    /\ at = "idle" => events = {}
    /\ created => events = Events
    /\ at \notin {"idle", "creating"} => created

(* A sample holds exactly the work done since the readings before, and the *)
(* energy burnt since then rounded down to a microjoule, wherever the      *)
(* counters stood: their wraparound never shows.                           *)
SampleIsConsumption ==
    sample # None =>
        /\ \A ev \in DOMAIN sample.counted : sample.counted[ev] = sample.done
        /\ sample.energy * EnergyUnit <= sample.burnt * EnergyScale
        /\ sample.burnt * EnergyScale < (sample.energy + 1) * EnergyUnit

(* Whatever was burnt while the governor was stopped, or before the module *)
(* was loaded, is in no sample: once started, the energy not yet reported  *)
(* is what was burnt since the last reading.                               *)
BaselineIsFresh ==
    Started => /\ initialized
               /\ (msr - lastRaw) % EnergyWrap = joules
               /\ joules < EnergyWrap

(* Counts and energy of a sample cover the same period: between the energy *)
(* readings of two samples lies one PMU reading.  It takes a failed energy *)
(* reading, which loses the counts of its period but not the energy, to    *)
(* charge one period's work with the energy of several.                    *)
SampleCoversOnePeriod ==
    sample # None => sample.periods = 1 \/ sample.afterError
=============================================================================
