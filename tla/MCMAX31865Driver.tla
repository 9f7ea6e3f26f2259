-------------------------- MODULE MCMAX31865Driver --------------------------
(***************************************************************************)
(* Instances of the Python driver for TLC.                                 *)
(***************************************************************************)
EXTENDS MAX31865Driver

\* A 3-wire, 50 Hz installation with both thresholds, and a 2-wire, 60 Hz one
\* without any: they differ in every register the driver owns.
Narrow ==
    [wires |-> 3, filter |-> 50, reference |-> 430, low |-> 80, high |-> 150]
Open ==
    [wires |-> 2, filter |-> 60, reference |-> 400, low |-> Unset, high |-> Unset]

MCConfigs == {Narrow, Open}

\* A healthy sensor, one above its high threshold (a warning), and one with
\* an input-voltage fault as well (no resistance).
Healthy == [code |-> 8192, faults |-> {}]
Warm == [code |-> 32767, faults |-> {"D7"}]
Broken == [code |-> 32767, faults |-> {"D7", "D2"}]

MCSensors == {Healthy, Warm, Broken}
=============================================================================
