--------------------------- MODULE MCEnergyMeter ---------------------------
(***************************************************************************)
(* The meter on five machines: a powercap counter whose range is one short *)
(* of its modulus, one whose range is exact, one whose range file cannot   *)
(* be read, an AMD and a Raspberry Pi 5.                                   *)
(***************************************************************************)
EXTENDS EnergyMeter

Machine(source, modulus, top, factor, divisor) ==
    [backend |-> source, wrap |-> modulus, maxRange |-> top, scale |-> factor,
     unit |-> divisor]

MCMachines ==
    { Machine("powercap", 4, 3, 1, 1), Machine("powercap", 4, 4, 1, 1),
      Machine("powercap", 4, 0, 1, 1),
      Machine("amd", 4, 0, 10, 4), Machine("rpi5", 8, 0, 4, 1) }
=============================================================================
