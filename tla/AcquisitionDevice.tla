------------------------- MODULE AcquisitionDevice -------------------------
(***************************************************************************)
(* What a fault-checked one-shot acquisition promises its caller, whatever *)
(* the implementation: a read() either delivers a measurement of what the  *)
(* sensor presented during that very read, and leaves the excitation of    *)
(* the sensor (VBIAS) off, or it fails and delivers nothing.               *)
(***************************************************************************)
EXTENDS MAX31865Decode

CONSTANTS
    Configs,
    Sensors,
    Failures   \* the ways in which a read can end without a measurement

VARIABLES
    phase,      \* "idle" or "reading"
    config,     \* the configuration of the last read
    sensor,     \* what the sensor presents now
    seen,       \* everything it has presented since the last read began
    biased,     \* the sensor is excited
    delivered,  \* the last measurement handed to the caller
    outcome     \* how the last call ended ("none" while a read is in progress)

vars == <<phase, config, sensor, seen, biased, delivered, outcome>>

Measurements == [resistance : Int, diagnostics : SUBSET FaultBits]

\* The measurement of a resistance that was converted while the sensor
\* presented `conversion', with the faults that a fault cycle found while it
\* presented `cycle'.
Reading(conversion, cycle) ==
    [resistance  |-> IF cycle.faults \subseteq WarningBits
                     THEN conversion.code * config.reference ELSE NoResistance,
     diagnostics |-> cycle.faults]

Init ==
    /\ phase = "idle"
    /\ config \in Configs
    /\ sensor \in Sensors
    /\ seen = {}
    /\ biased \in BOOLEAN
    /\ delivered \in Measurements
    /\ outcome = "none"

Begin ==
    /\ phase = "idle"
    /\ phase' = "reading"
    /\ config' \in Configs
    /\ seen' = {sensor}
    /\ outcome' = "none"
    /\ UNCHANGED <<sensor, biased, delivered>>

SensorChanges ==
    /\ sensor' \in Sensors
    /\ seen' = IF phase = "reading" THEN seen \cup {sensor'} ELSE seen
    /\ UNCHANGED <<phase, config, biased, delivered, outcome>>

\* Only a read in progress may switch the excitation.
SwitchBias ==
    /\ phase = "reading"
    /\ biased' \in BOOLEAN
    /\ UNCHANGED <<phase, config, sensor, seen, delivered, outcome>>

Deliver ==
    /\ phase = "reading"
    /\ ~biased
    /\ phase' = "idle"
    /\ \E conversion, cycle \in seen : delivered' = Reading(conversion, cycle)
    /\ outcome' = "measurement"
    /\ seen' = {}
    /\ UNCHANGED <<config, sensor, biased>>

Fail ==
    /\ phase = "reading"
    /\ phase' = "idle"
    /\ outcome' \in Failures
    /\ seen' = {}
    /\ UNCHANGED <<config, sensor, biased, delivered>>

\* A call that is refused for its arguments does not become a read.
Refuse ==
    /\ phase = "idle"
    /\ outcome' \in Failures
    /\ UNCHANGED <<phase, config, sensor, seen, biased, delivered>>

Next == Begin \/ SensorChanges \/ SwitchBias \/ Deliver \/ Fail \/ Refuse

Spec == Init /\ [][Next]_vars
=============================================================================
