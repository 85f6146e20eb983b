---------------------------- MODULE EnergyMeter ----------------------------
(***************************************************************************)
(* src/power/energy_meter.c: energy_meter_init, _deinit, _read_delta_uj    *)
(* and _get_backend called by several threads of the kernel, in any order, *)
(* on a machine with one of the three sources of energy.                   *)
(*                                                                         *)
(* The three calls that take energy_meter_lock are modelled step by step:  *)
(* the counter runs on between any two of them, and energy_meter_get_      *)
(* backend looks at current_backend without the lock.  Callers read often  *)
(* enough that the counter passes its own value at most once between two   *)
(* readings that got to see it; nothing can be said of other uses.         *)
(***************************************************************************)
EXTENDS Integers

CONSTANTS
    Callers,   \* the threads that use the meter
    Machines,  \* the machines the module may be loaded on
    MaxBurst,  \* bound: counts burnt in one step
    MaxOverflows,  \* bound: -EOVERFLOW since the last reading that succeeded
    None

ASSUME MeterConstants ==
    /\ \A m \in Machines :
           /\ m.backend \in {"rpi5", "amd", "powercap"}
           /\ m.wrap \in Nat /\ m.wrap > 1
           /\ m.maxRange \in {0, m.wrap - 1, m.wrap}
           /\ m.scale \in Nat \ {0}
           /\ m.unit \in Nat \ {0}
    /\ MaxBurst \in Nat \ {0}
    /\ MaxOverflows \in Nat
    /\ None \notin Callers
    /\ None \notin [value : Nat, burnt : Nat]
    /\ None \notin [delta : Int, uj : Int, burnt : Int, announced : Nat]

VARIABLES
    machine,      \* the one it is loaded on
    lock,         \* energy_meter_lock: None or its owner
    at,           \* where each caller is
    initialized,  \* energy_meter_initialized
    backend,      \* current_backend
    unit,         \* amd_zen2_energy_unit as a divisor, 1 when it is zeroed
    last,         \* amd_zen2_last_raw or linux_std_last_uj
    range,        \* linux_std_max_range_uj
    raw,          \* what a caller read from the counter
    counter,      \* the hardware's counter, or the sampler's sum of nJ
    reply,        \* None, or the last answer of a reading
    seen,         \* the caller saw a backend, and no deinit came since
    \* history
    owed,         \* counts burnt since the counter's value that is `last`
    unread,       \* counts burnt since the counter was last seen
    overflows     \* readings since then that returned -EOVERFLOW

meterVars == <<initialized, backend, unit, last, range>>
history == <<owed, unread, overflows>>
vars == <<machine, lock, at, meterVars, raw, counter, reply, seen, history>>

-----------------------------------------------------------------------------
(* The hardware                                                            *)

(* The source this machine has: "rpi5", "amd" or "powercap"                *)
Backend == machine.backend

(* Its counter runs modulo Wrap: 2^32, or the powercap range.              *)
Wrap == machine.wrap

(* max_energy_range_uj, 0 if the file cannot be read                       *)
MaxRange == machine.maxRange

(* 10^6 uJ per joule (amd), 1000 nJ per uJ (rpi5)                          *)
Scale == machine.scale

(* 2^amd_zen2_energy_unit, the counts per joule                            *)
Unit == machine.unit

Tracked == initialized \/ \E c \in Callers : at[c] \in {"initStores", "initDone"}

Outstanding == IF lock # None /\ raw[lock] # None THEN owed + raw[lock].burnt ELSE owed

BurnEnergy(e) ==
    /\ Tracked => unread + e < Wrap
    /\ counter + e < Wrap \/ Backend # "rpi5"
    /\ counter' = (counter + e) % Wrap
    /\ IF Tracked THEN owed' = owed + e /\ unread' = unread + e
                  ELSE UNCHANGED <<owed, unread>>
    /\ UNCHANGED <<lock, at, meterVars, raw, reply, seen, overflows>>

RawValue == counter % Wrap

(* The value of the counter; vdd_core_take_energy_nj also empties it.      *)
SeeCounter(c) ==
    /\ raw' = [raw EXCEPT ![c] = [value |-> RawValue, burnt |-> owed]]
    /\ counter' = IF Backend = "rpi5" THEN 0 ELSE counter
    /\ owed' = 0
    /\ unread' = 0

-----------------------------------------------------------------------------
(* The lock                                                                *)

Enter(c, call) ==
    /\ at[c] = "idle"
    /\ lock = None
    /\ call = "read" => overflows < MaxOverflows
    /\ lock' = c
    /\ at' = [at EXCEPT ![c] = call]
    /\ UNCHANGED <<meterVars, raw, counter, reply, seen, history>>

Return(c) ==
    /\ lock' = None
    /\ at' = [at EXCEPT ![c] = "idle"]
    /\ raw' = [raw EXCEPT ![c] = None]

GoOn(c, place) == at' = [at EXCEPT ![c] = place] /\ UNCHANGED lock

-----------------------------------------------------------------------------
(* energy_meter_init                                                       *)

(* Mutant: the early return keeps the lock.                                *)
InitAgainLocked(c) ==
    /\ at[c] = "init"
    /\ initialized
    /\ at' = [at EXCEPT ![c] = "idle"]
    /\ UNCHANGED <<lock, meterVars, raw, counter, reply, seen, history>>

InitAgain(c) ==
    /\ at[c] = "init"
    /\ initialized
    /\ Return(c)
    /\ UNCHANGED <<meterVars, counter, reply, seen, history>>

(* Mutant: the backend shows before its first reading was taken.           *)
InitSelectsEarly(c) ==
    /\ at[c] = "init"
    /\ ~initialized
    /\ backend' = Backend
    /\ unit' \in {unit, IF Backend = "amd" THEN Unit ELSE unit}
    /\ GoOn(c, "initReads")
    /\ UNCHANGED <<initialized, last, range, raw, counter, reply, seen, history>>

(* The AMD backend stores its unit before the first reading, which may     *)
(* never come about.                                                       *)
InitSelects(c) ==
    /\ at[c] = "init"
    /\ ~initialized
    /\ backend' = "none"
    /\ unit' \in {unit, IF Backend = "amd" THEN Unit ELSE unit}
    /\ GoOn(c, "initReads")
    /\ UNCHANGED <<initialized, last, range, raw, counter, reply, seen, history>>

(* The counter cannot be read: no CPU, no MSR, no powercap file.           *)
InitFails(c) ==
    /\ at[c] = "initReads"
    /\ Backend # "rpi5"
    /\ backend' = "none"
    /\ Return(c)
    /\ UNCHANGED <<initialized, unit, last, range, counter, reply, seen, history>>

InitReads(c) ==
    /\ at[c] = "initReads"
    /\ Backend = "amd" => unit = Unit
    /\ SeeCounter(c)
    /\ GoOn(c, "initStores")
    /\ UNCHANGED <<meterVars, reply, seen, overflows>>

InitStores(c) ==
    /\ at[c] = "initStores"
    /\ last' = IF Backend = "rpi5" THEN last ELSE raw[c].value
    /\ range' = IF Backend = "powercap" THEN MaxRange ELSE range
    /\ backend' = Backend
    /\ GoOn(c, "initDone")
    /\ UNCHANGED <<initialized, unit, raw, counter, reply, seen, history>>

InitDone(c) ==
    /\ at[c] = "initDone"
    /\ initialized' = TRUE
    /\ Return(c)
    /\ UNCHANGED <<backend, unit, last, range, counter, reply, seen, history>>

-----------------------------------------------------------------------------
(* energy_meter_deinit                                                     *)

Deinit(c) ==
    /\ at[c] = "deinit"
    /\ initialized' = FALSE
    /\ owed' = 0 /\ unread' = 0 /\ overflows' = 0
    /\ GoOn(c, "deinitClears")
    /\ UNCHANGED <<backend, unit, last, range, raw, counter, reply, seen>>

DeinitClears(c) ==
    /\ at[c] = "deinitClears"
    /\ backend' = "none"
    /\ unit' = 1
    /\ last' = 0
    /\ range' = 0
    /\ seen' = [d \in Callers |-> FALSE]
    /\ Return(c)
    /\ UNCHANGED <<initialized, counter, reply, history>>

-----------------------------------------------------------------------------
(* energy_meter_read_delta_uj                                              *)

(* -ENODEV                                                                 *)
ReadRefused(c) ==
    /\ at[c] = "read"
    /\ ~initialized \/ backend = "none"
    /\ Return(c)
    /\ UNCHANGED <<meterVars, counter, reply, seen, history>>

ReadFails(c) ==
    /\ at[c] = "read"
    /\ initialized
    /\ backend \in {"amd", "powercap"}
    /\ Return(c)
    /\ UNCHANGED <<meterVars, counter, reply, seen, history>>

(* nJ to uJ, to the nearest                                                *)
Micro(nj) == (nj + (Scale \div 2)) \div Scale

(* Mutant: the helper returns its running total.                           *)
ReadRpi5Total(c) ==
    /\ at[c] = "read"
    /\ initialized
    /\ backend = "rpi5"
    /\ reply' = [delta |-> counter, uj |-> Micro(counter), burnt |-> owed, announced |-> 0]
    /\ owed' = 0 /\ unread' = 0
    /\ Return(c)
    /\ UNCHANGED <<meterVars, counter, seen, overflows>>

(* rpi5_energy_read_delta_uj: the sum is taken.                            *)
ReadRpi5(c) ==
    /\ at[c] = "read"
    /\ initialized
    /\ backend = "rpi5"
    /\ reply' = [delta |-> counter, uj |-> Micro(counter), burnt |-> owed, announced |-> 0]
    /\ counter' = 0
    /\ owed' = 0 /\ unread' = 0
    /\ Return(c)
    /\ UNCHANGED <<meterVars, seen, overflows>>

ReadSees(c) ==
    /\ at[c] = "read"
    /\ initialized
    /\ backend \in {"amd", "powercap"}
    /\ SeeCounter(c)
    /\ GoOn(c, "readStores")
    /\ UNCHANGED <<meterVars, reply, seen, overflows>>

(* linux_std_energy_read_delta_uj: the counter ran past its range, which   *)
(* is not known: -EOVERFLOW.                                               *)
Overflow(c) == backend = "powercap" /\ raw[c].value < last /\ range = 0

ReadOverflows(c) ==
    /\ at[c] = "readStores"
    /\ Overflow(c)
    /\ owed' = owed + raw[c].burnt
    /\ Return(c)
    /\ overflows' = overflows + 1
    /\ UNCHANGED <<meterVars, counter, reply, seen, unread>>

(* Mutant: a counter that wrapped counts from 0.                           *)
DeltaFromZero(c) == IF raw[c].value >= last THEN raw[c].value - last ELSE raw[c].value

(* AMD: u32 subtraction; powercap: by way of the range.                    *)
Delta(c) ==
    IF backend = "amd" THEN (raw[c].value - last) % Wrap
    ELSE IF raw[c].value >= last THEN raw[c].value - last
    ELSE (range - last) + raw[c].value

ReadStores(c) ==
    /\ at[c] = "readStores"
    /\ ~Overflow(c)
    /\ last' = raw[c].value
    /\ reply' = [delta |-> Delta(c),
                 uj    |-> IF backend = "amd" THEN (Delta(c) * Scale) \div unit ELSE Delta(c),
                 burnt |-> raw[c].burnt, announced |-> overflows]
    /\ overflows' = 0
    /\ Return(c)
    /\ UNCHANGED <<initialized, backend, unit, range, counter, seen, owed, unread>>

-----------------------------------------------------------------------------
(* energy_meter_get_backend takes no lock.                                 *)

GetBackend(c) ==
    /\ at[c] = "idle"
    /\ seen' = [seen EXCEPT ![c] = backend # "none"]
    /\ UNCHANGED <<lock, at, meterVars, raw, counter, reply, history>>

Init ==
    /\ machine \in Machines
    /\ lock = None
    /\ at = [c \in Callers |-> "idle"]
    /\ initialized = FALSE /\ backend = "none"
    /\ unit = 1 /\ last = 0 /\ range = 0
    /\ raw = [c \in Callers |-> None]
    /\ counter \in 0 .. Wrap - 1
    /\ reply = None
    /\ seen = [c \in Callers |-> FALSE]
    /\ owed = 0 /\ unread = 0 /\ overflows = 0

Call(c) ==
    \/ \E call \in {"init", "deinit", "read"} : Enter(c, call)
    \/ GetBackend(c)

Step(c) ==
    \/ InitAgain(c) \/ InitSelects(c) \/ InitFails(c) \/ InitReads(c) \/ InitStores(c)
    \/ InitDone(c) \/ Deinit(c) \/ DeinitClears(c)
    \/ ReadRefused(c) \/ ReadFails(c) \/ ReadRpi5(c) \/ ReadSees(c) \/ ReadOverflows(c)
    \/ ReadStores(c)

Next ==
    /\ \/ \E e \in 1 .. MaxBurst : BurnEnergy(e)
       \/ \E c \in Callers : Call(c) \/ Step(c)
    /\ UNCHANGED machine

Spec == Init /\ [][Next]_vars

(* A thread that holds the mutex runs on: its reads of the counter block   *)
(* for a bounded time.                                                     *)
FairSpec == Spec /\ \A c \in Callers : WF_vars(Step(c) /\ UNCHANGED machine)

-----------------------------------------------------------------------------
(* Properties                                                              *)

Places ==
    {"idle", "init", "initReads", "initStores", "initDone", "deinit", "deinitClears",
     "read", "readStores"}

TypeOK ==
    /\ machine \in Machines
    /\ lock \in Callers \cup {None}
    /\ at \in [Callers -> Places]
    /\ initialized \in BOOLEAN
    /\ backend \in {"none", Backend}
    /\ unit \in {1, Unit}
    /\ last \in 0 .. Wrap - 1
    /\ range \in {0, MaxRange}
    /\ raw \in [Callers -> {None} \cup [value : 0 .. Wrap - 1, burnt : Nat]]
    /\ counter \in 0 .. Wrap - 1
    /\ seen \in [Callers -> BOOLEAN]
    /\ owed \in Nat
    /\ overflows \in 0 .. MaxOverflows
    /\ unread \in 0 .. Wrap - 1

(* Between its first look at initialized and its last store, a call has    *)
(* the meter for itself: what it checked still holds when it acts on it.   *)
CallsAreExclusive ==
    /\ \A c \in Callers : at[c] # "idle" => lock = c
    /\ \A c \in Callers : at[c] = "readStores" => initialized /\ backend = Backend
    /\ initialized => backend = Backend /\ (Backend = "amd" => unit = Unit)

RangeUnknown == Backend = "powercap" /\ MaxRange = 0

(* A powercap counter's range may be one count short of what it runs       *)
(* through.                                                                *)
Slack == IF Backend = "powercap" /\ ~RangeUnknown THEN Wrap - MaxRange ELSE 0

Rounded(uj, counts) ==
    CASE Backend = "amd"      -> uj * Unit <= counts * Scale /\ counts * Scale < (uj + 1) * Unit
      [] Backend = "rpi5"     -> 2 * uj * Scale - 2 * counts \in 1 - Scale .. Scale
      [] Backend = "powercap" -> uj = counts

(* Where the range is known, a reading told what was burnt, but for the    *)
(* slack.                                                                  *)
ReplyIsConsumption ==
    reply # None =>
        /\ RangeUnknown \/ reply.burnt - reply.delta \in 0 .. Slack
        /\ Rounded(reply.uj, reply.delta)

(* Where it is not, whole rounds may be missing: at most one for each      *)
(* reading that was refused with -EOVERFLOW since the last that succeeded. *)
ShortfallIsAnnounced ==
    reply # None /\ RangeUnknown =>
        /\ (reply.burnt - reply.delta) % Wrap = 0
        /\ reply.burnt - reply.delta \in 0 .. reply.announced * Wrap

(* energy_meter.h: a reading returns the energy consumed since the last    *)
(* reading that succeeded or since init, whichever caller did it, wherever *)
(* the counter wrapped and whatever readings failed in between; rounding   *)
(* is that of one reading.  Without the range, a counter that climbs past  *)
(* the old baseline between two readings hides a round from the next one   *)
(* that succeeds: nothing else goes missing, and no round without an       *)
(* -EOVERFLOW of its own.                                                  *)
EveryReplyIsConsumption == ReplyIsConsumption /\ ShortfallIsAnnounced

(* A caller that saw a backend, and that nobody deinitialised the meter    *)
(* for since, is never refused with -ENODEV, although it looked without    *)
(* the lock, possibly in the middle of energy_meter_init.                  *)
SeenBackendWorks == [][\A c \in Callers : ReadRefused(c) => ~seen[c]]_vars

(* Every path of every call gives energy_meter_lock back.                  *)
LockIsReturned == \A c \in Callers : lock = c ~> lock = None

(* The counter's distance from the baseline, by way of the value a reading *)
(* has seen and not stored yet.                                            *)
Distance ==
    IF lock # None /\ at[lock] = "readStores"
    THEN ((raw[lock].value - last) % Wrap) + ((counter - raw[lock].value) % Wrap)
    ELSE (counter - last) % Wrap

(* What the meter owes its callers: the sum of the sampler, or the         *)
(* counter's distance; without the range only the history knows how often  *)
(* the counter went round.                                                 *)
AccountOwed ==
    IF ~initialized THEN 0
    ELSE IF Backend = "rpi5" THEN counter
    ELSE IF RangeUnknown THEN Outstanding
    ELSE Distance

Account == INSTANCE EnergyAccount WITH
    slack <- Slack,
    round <- Wrap,
    refused <- overflows,
    open <- initialized,
    owed <- AccountOwed,
    told <- IF reply = None THEN 0 ELSE reply.delta

(* Seen from outside, the meter is an account that tells every count once, *)
(* whatever counter is behind it.                                          *)
ImplementsAccount == Account!AccountSpec
=============================================================================
