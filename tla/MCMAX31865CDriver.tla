------------------------- MODULE MCMAX31865CDriver -------------------------
(***************************************************************************)
(* Instances of the C driver for TLC.                                      *)
(***************************************************************************)
EXTENDS MAX31865CDriver

Narrow ==
    [wires |-> 3, filter |-> 50, reference |-> 430, low |-> 80, high |-> 150]
Open ==
    [wires |-> 2, filter |-> 60, reference |-> 400, low |-> Unset, high |-> Unset]

MCConfigs == {Narrow, Open}

\* No fault, and every fault bit at once: none and six diagnostics to store.
Healthy == [code |-> 8192, faults |-> {}]
Broken == [code |-> 32767, faults |-> FaultBits]

MCSensors == {Healthy, Broken}

\* One item short of the largest fault state, and just enough for it.
MCCapacities == {5, 6}
=============================================================================
