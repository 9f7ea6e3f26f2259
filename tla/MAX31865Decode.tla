--------------------------- MODULE MAX31865Decode ---------------------------
(***************************************************************************)
(* Decoding of captured MAX31865 registers into a Measurement, and the     *)
(* measurement contract the result has to meet.                            *)
(*                                                                         *)
(* A resistance is counted in units of 1/32768 ohm, so that the ratio      *)
(* code / 32768 * reference is a whole number.  A diagnostic is named by   *)
(* the native fault bit it comes from: the mapping is one to one.          *)
(***************************************************************************)
EXTENDS Integers

\* Every defined bit of the Fault Status register, and the two of them whose
\* diagnostics are warnings; the other four make the measurement a fault.
FaultBits == {"D7", "D6", "D5", "D4", "D3", "D2"}
WarningBits == {"D7", "D6"}

HasFault(diagnostics) == diagnostics \ WarningBits # {}

\* resistance_ohms is None (has_resistance is false).
NoResistance == -1

\* The fault-indicator bit of the RTD register, and the code above it.
RtdFlag(rtd) == rtd % 2
RtdCode(rtd) == rtd \div 2

\* measurement_from_registers: every reported bit becomes a diagnostic, and a
\* diagnostic of severity FAULT withholds the resistance.
Decode(config, rtd, status) ==
    [resistance  |-> IF HasFault(status) THEN NoResistance
                                         ELSE RtdCode(rtd) * config.reference,
     diagnostics |-> status]

\* What Measurement.__post_init__ (measurement_is_valid in C) accepts.
\* Diagnostic codes are distinct because they form a set.
MeasurementIsValid(m) ==
    /\ m.resistance # NoResistance => m.resistance >= 0
    /\ HasFault(m.diagnostics) <=> m.resistance = NoResistance
=============================================================================
