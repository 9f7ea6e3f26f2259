--------------------------- MODULE MAX31865Config ---------------------------
(***************************************************************************)
(* The electrical configuration of a MAX31865 converter and what the       *)
(* drivers derive from it: its validation, the static wire/filter bits of  *)
(* the configuration byte, and the two threshold registers.                *)
(*                                                                         *)
(* Resistances are whole numbers of ohms and the arithmetic is exact; the  *)
(* rounding of the implementations is modelled in ThresholdEncoding.       *)
(***************************************************************************)
EXTENDS Integers

\* A threshold the application omitted (None, has_..._threshold = false).
Unset == -1

AdcScale == 32768
MaxAdcCode == AdcScale - 1

\* The reference resistors that are accepted.
MinReference == 350
MaxReference == 10000

CeilDiv(a, b) == (a + b - 1) \div b

\* The native code of a high threshold: rounded upward.
HighThresholdCode(config) == CeilDiv(config.high * AdcScale, config.reference)

\* The native code of a low threshold: rounded downward.
LowThresholdCode(config) == (config.low * AdcScale) \div config.reference

\* The high-threshold register: the code shifted left, or the full-range
\* default when the threshold is omitted.
HighThresholdRegister(config) ==
    IF config.high = Unset THEN 65535 ELSE 2 * HighThresholdCode(config)

LowThresholdRegister(config) ==
    IF config.low = Unset THEN 0 ELSE 2 * LowThresholdCode(config)

\* What MAX31865Config.__post_init__ (config_is_valid in C) accepts.
ConfigIsValid(config) ==
    /\ config.reference \in MinReference .. MaxReference
    /\ config.wires \in {2, 3, 4}
    /\ config.filter \in {50, 60}
    /\ config.low # Unset => config.low \in 0 .. config.reference - 1
    /\ config.high # Unset => /\ config.high \in 1 .. config.reference - 1
                              /\ HighThresholdCode(config) <= MaxAdcCode
    /\ (config.low # Unset /\ config.high # Unset) => config.low < config.high

\* The static bits of the configuration byte, as the set of bits that are 1.
StaticBits == {"THREE_WIRE", "FILTER_50HZ"}

BaseConfigByte(config) ==
    {bit \in StaticBits : \/ bit = "THREE_WIRE" /\ config.wires = 3
                          \/ bit = "FILTER_50HZ" /\ config.filter = 50}
=============================================================================
