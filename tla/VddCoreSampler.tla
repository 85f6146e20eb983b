--------------------------- MODULE VddCoreSampler ---------------------------
(***************************************************************************)
(* The Raspberry Pi 5 power sampler, src/power/rpi5/vdd_core_sampler.c.  A *)
(* timer posts a tick every 10 ms, a thread answers it by reading the      *)
(* power from the firmware and adding it to an accumulator, and callers on *)
(* any CPU take what has accumulated.  No lock is used: each action is one *)
(* atomic operation of the code.  One owner calls start and stop.          *)
(*                                                                         *)
(* Power is abstracted to the number of samples a sum is made of: the      *)
(* properties are about which samples are in it.                           *)
(***************************************************************************)
EXTENDS Integers

CONSTANTS
    Takers,           \* callers of vdd_core_take_energy_nj...
    MaxPendingTicks,  \* VDD_CORE_MAX_PENDING_TICKS
    MaxTicks,         \* bound: timer callbacks
    MaxStarts,        \* bound: successful starts
    Nothing

ASSUME SamplerConstants ==
    /\ MaxPendingTicks \in Nat \ {0}
    /\ MaxTicks \in Nat
    /\ MaxStarts \in Nat

VARIABLES
    fw,           \* vdd_core_fw is held
    thread,       \* vdd_core_thread: "none" or where it is
    stopAsked,    \* kthread_should_stop()
    armed,        \* vdd_core_timer is running
    pendingTicks, \* vdd_core_pending_ticks
    powerSum,     \* samples summed up in vdd_core_power_sum_uw
    sampleCount,  \* vdd_core_sample_count
    control,      \* where the owner is in stop
    taking,       \* per taker: Nothing, or the samples in the sum it exchanged
    result,       \* what vdd_core_take_energy_nj_and_samples returned last
    \* history
    ticks,        \* timer callbacks
    taken,        \* samples in all the sums that were taken
    starts

samplerVars == <<fw, thread, stopAsked, armed, pendingTicks, powerSum, sampleCount,
                 control, taking, result, ticks, taken, starts>>
threadVars == <<thread, stopAsked>>
sumVars    == <<powerSum, sampleCount>>
takeVars   == <<taking, result, taken>>

-----------------------------------------------------------------------------

PendingAfterTick ==
    IF pendingTicks < MaxPendingTicks THEN pendingTicks + 1 ELSE pendingTicks

(* vdd_core_timer_cb: a tick the thread is too slow for is dropped.        *)
TimerFires ==
    /\ armed
    /\ ticks < MaxTicks
    /\ ticks' = ticks + 1
    /\ pendingTicks' = PendingAfterTick
    /\ UNCHANGED <<fw, threadVars, armed, sumVars, control, takeVars, starts>>

-----------------------------------------------------------------------------
(* vdd_core_sampler_thread_fn                                              *)

(* Mutants: the thread sleeps on through a stop, or a tick does not wake it*)
TickWakes == pendingTicks > 0
StopWakes == stopAsked

Awake == stopAsked \/ pendingTicks > 0

ThreadWakes ==
    /\ thread = "wait"
    /\ Awake
    /\ thread' = IF stopAsked THEN "exited" ELSE "claim"
    /\ UNCHANGED <<fw, stopAsked, armed, pendingTicks, sumVars, control, takeVars,
                   ticks, starts>>

ThreadClaims ==
    /\ thread = "claim"
    /\ IF pendingTicks > 0
       THEN thread' = "read" /\ pendingTicks' = pendingTicks - 1
       ELSE thread' = "wait" /\ UNCHANGED pendingTicks
    /\ UNCHANGED <<fw, stopAsked, armed, sumVars, control, takeVars, ticks, starts>>

(* rpi_read_vdd_core_power_uw, which may fail                              *)
ThreadReads ==
    /\ thread = "read"
    /\ thread' \in {"add", "wait"}
    /\ UNCHANGED <<fw, stopAsked, armed, pendingTicks, sumVars, control, takeVars,
                   ticks, starts>>

ThreadAdds ==
    /\ thread = "add"
    /\ powerSum' = powerSum + 1
    /\ thread' = "count"
    /\ UNCHANGED <<fw, stopAsked, armed, pendingTicks, sampleCount, control, takeVars,
                   ticks, starts>>

ThreadCounts ==
    /\ thread = "count"
    /\ sampleCount' = sampleCount + 1
    /\ thread' = "wait"
    /\ UNCHANGED <<fw, stopAsked, armed, pendingTicks, powerSum, control, takeVars,
                   ticks, starts>>

ThreadStep == ThreadWakes \/ ThreadClaims \/ ThreadReads \/ ThreadAdds \/ ThreadCounts

-----------------------------------------------------------------------------
(* vdd_core_sampler_start, unless it answers -EBUSY: the accumulators are  *)
(* cleared before anything can fail.                                       *)
Start ==
    /\ control = "idle"
    /\ starts < MaxStarts
    /\ ~fw /\ thread = "none"
    /\ pendingTicks' = 0
    /\ powerSum' = 0
    /\ sampleCount' = 0
    /\ \/ /\ fw' = TRUE
          /\ thread' = "wait"
          /\ stopAsked' = FALSE
          /\ armed' = TRUE
       \/ UNCHANGED <<fw, threadVars, armed>>
    /\ starts' = starts + 1
    /\ UNCHANGED <<control, takeVars, ticks>>

(* vdd_core_sampler_stop: hrtimer_cancel and the request to the thread ... *)
StopCancels ==
    /\ control = "idle"
    /\ armed
    /\ armed' = FALSE
    /\ stopAsked' = TRUE
    /\ control' = "joining"
    /\ UNCHANGED <<fw, thread, pendingTicks, sumVars, takeVars, ticks, starts>>

(* Mutant: the firmware handle is given back without waiting.              *)
NotJoined == TRUE

Joined == thread = "exited"

(* ... and, when it is gone, rpi_firmware_put.                             *)
StopJoins ==
    /\ control = "joining"
    /\ Joined
    /\ thread' = IF thread = "exited" THEN "none" ELSE thread
    /\ fw' = FALSE
    /\ pendingTicks' = 0
    /\ control' = "idle"
    /\ UNCHANGED <<stopAsked, armed, sumVars, takeVars, ticks, starts>>

-----------------------------------------------------------------------------
(* Mutant: the sum is read, not exchanged for zero.                        *)
SumLeft == powerSum

SumAfterTake == 0

(* vdd_core_take_energy_nj                                                 *)
Take(t) ==
    /\ taking[t] = Nothing
    /\ taken' = taken + powerSum
    /\ powerSum' = SumAfterTake
    /\ UNCHANGED <<fw, threadVars, armed, pendingTicks, sampleCount, control, taking,
                   result, ticks, starts>>

(* vdd_core_take_energy_nj_and_samples: the sum ...                        *)
TakeSum(t) ==
    /\ taking[t] = Nothing
    /\ taken' = taken + powerSum
    /\ powerSum' = SumAfterTake
    /\ taking' = [taking EXCEPT ![t] = powerSum]
    /\ UNCHANGED <<fw, threadVars, armed, pendingTicks, sampleCount, control, result,
                   ticks, starts>>

(* ... and then the count.                                                 *)
TakeCount(t) ==
    /\ taking[t] # Nothing
    /\ result' = [summed |-> taking[t], samples |-> sampleCount]
    /\ sampleCount' = 0
    /\ taking' = [taking EXCEPT ![t] = Nothing]
    /\ UNCHANGED <<fw, threadVars, armed, pendingTicks, powerSum, control, taken,
                   ticks, starts>>

SamplerInit ==
    /\ fw = FALSE /\ thread = "none" /\ stopAsked = FALSE /\ armed = FALSE
    /\ pendingTicks = 0 /\ powerSum = 0 /\ sampleCount = 0
    /\ control = "idle"
    /\ taking = [t \in Takers |-> Nothing]
    /\ result = Nothing
    /\ ticks = 0 /\ taken = 0 /\ starts = 0

SamplerNext ==
    \/ TimerFires \/ ThreadStep \/ Start \/ StopCancels \/ StopJoins
    \/ \E t \in Takers : Take(t) \/ TakeSum(t) \/ TakeCount(t)

SamplerSpec == SamplerInit /\ [][SamplerNext]_samplerVars

(* The thread has real-time priority and the firmware answers; the owner   *)
(* that began to stop goes on.                                             *)
FairSamplerSpec == SamplerSpec /\ WF_samplerVars(ThreadStep) /\ WF_samplerVars(StopJoins)

-----------------------------------------------------------------------------
(* Properties                                                              *)

SamplerTypeOK ==
    /\ fw \in BOOLEAN
    /\ thread \in {"none", "wait", "claim", "read", "add", "count", "exited"}
    /\ stopAsked \in BOOLEAN
    /\ armed \in BOOLEAN
    /\ pendingTicks \in 0 .. MaxPendingTicks
    /\ powerSum \in Nat
    /\ sampleCount \in Nat
    /\ control \in {"idle", "joining"}
    /\ taking \in [Takers -> Nat \cup {Nothing}]
    /\ result \in [summed : Nat, samples : Nat] \cup {Nothing}
    /\ ticks \in 0 .. MaxTicks
    /\ taken \in Nat
    /\ starts \in 0 .. MaxStarts

(* The thread never talks to a firmware handle that was given back.        *)
FirmwareOutlivesThread == thread \notin {"none", "exited"} => fw

(* E = accumulated * dt never claims more time than has passed: every      *)
(* sample stands for one tick of its own, whoever takes the accumulator    *)
(* and whenever, and however stop and start cut in.                        *)
EnergyWithinElapsedTime ==
    taken + powerSum + pendingTicks
        + (IF thread \in {"read", "add"} THEN 1 ELSE 0) <= ticks

(* vdd_core_sampler_stop returns.                                          *)
StopReturns == control = "joining" ~> control = "idle"

(* A tick does not stay pending.                                           *)
TickIsAnswered == pendingTicks > 0 ~> pendingTicks = 0

(* vdd_core_take_energy_nj_and_samples returns the number of the samples   *)
(* its energy is made of.                                                  *)
SamplesMatchEnergy == result # Nothing => result.summed = result.samples
=============================================================================
