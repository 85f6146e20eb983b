--------------------------- MODULE EnergyAccount ---------------------------
(***************************************************************************)
(* What src/power/energy_meter.h promises of the meter, whatever counter   *)
(* is behind it: once it is open, the energy burnt is owed to the callers, *)
(* and a reading tells them some of it and owes only the rest.  Nothing is *)
(* told twice; a reading loses at most slack counts, and a round more for  *)
(* each reading before it that was refused because the counter had wrapped.*)
(***************************************************************************)
EXTENDS Integers

CONSTANTS
    MaxBurst  \* bound: counts burnt in one step

VARIABLES
    slack,    \* counts a reading may lose, by the kind of the counter
    round,    \* what the counter runs through before it wraps
    open,     \* energy_meter_init succeeded
    owed,     \* counts burnt since the baseline, and not told
    refused,  \* readings since the last one that told something
    told      \* counts of the last reading

kind == <<slack, round>>
accountVars == <<kind, open, owed, refused, told>>

AccountInit ==
    /\ slack \in Nat /\ round \in Nat
    /\ open = FALSE /\ owed = 0 /\ refused = 0 /\ told = 0

Burn == open /\ owed' - owed \in 1 .. MaxBurst /\ UNCHANGED <<open, refused, told>>

(* What was burnt while the meter was being opened is owed already.        *)
Open == ~open /\ open' /\ owed' \in Nat /\ UNCHANGED <<refused, told>>

Close == open /\ ~open' /\ owed' = 0 /\ refused' = 0 /\ UNCHANGED told

(* -EOVERFLOW                                                              *)
Refuse == open /\ refused' = refused + 1 /\ UNCHANGED <<open, owed, told>>

Tell ==
    /\ open
    /\ told' \in 0 .. owed
    /\ owed' >= 0
    /\ owed - told' - owed' \in 0 .. slack + refused * round
    /\ refused' = 0
    /\ UNCHANGED open

AccountNext == (Burn \/ Open \/ Close \/ Refuse \/ Tell) /\ UNCHANGED kind

AccountSpec == AccountInit /\ [][AccountNext]_accountVars
=============================================================================
