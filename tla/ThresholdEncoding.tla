-------------------------- MODULE ThresholdEncoding --------------------------
(***************************************************************************)
(* The thresholds of one request on their way into the native codes of     *)
(* both implementations, in the floating-point arithmetic they use: the    *)
(* quotient of threshold and reference is rounded to the significand of    *)
(* the type before the code is rounded up or down.  Python computes in     *)
(* binary64 and C in binary32.                                             *)
(*                                                                         *)
(* A resistance is a whole number of units that both types represent.      *)
(***************************************************************************)
EXTENDS Integers

CONSTANTS
    References, Thresholds,      \* the resistances that are asked for
    AdcBits,                     \* 15
    PythonPrecision, CPrecision, \* 53 and 24
    MaxExponent                  \* covers every quotient: a bound of the model

ASSUME ThresholdAssumption ==
    /\ References \subseteq Nat \ {0} /\ Thresholds \subseteq Nat
    /\ {AdcBits, PythonPrecision, CPrecision, MaxExponent} \subseteq Nat
    /\ AdcBits < CPrecision /\ CPrecision <= PythonPrecision
    /\ PythonPrecision <= MaxExponent
    /\ \A ref \in References : ref <= 2 ^ (MaxExponent - PythonPrecision)

VARIABLES
    reference, low, high,  \* reference_resistance_ohms, low_ and high_fault_threshold_ohms
    python, c              \* what each implementation made of them

requestVars == <<reference, low, high, python, c>>

Unset == -1

AdcScale == 2 ^ AdcBits
MaxAdcCode == AdcScale - 1

(***************************************************************************)
(* Arithmetic.  A scaled value is a fraction whose denominator is a power  *)
(* of two, because multiplying by 2^15 is exact.                           *)
(***************************************************************************)
CeilDiv(a, b) == (a + b - 1) \div b

\* A division rounds to the nearest significand, ties to the even one.
NearestQuotient(a, b) ==
    LET q == a \div b
        r == a % b
    IN  IF 2 * r < b \/ (2 * r = b /\ q % 2 = 0) THEN q ELSE q + 1

Scaled(ohms, ref, precision) ==
    IF ohms = 0 THEN [num |-> 0, den |-> 1]
    ELSE LET e == CHOOSE e \in 0 .. MaxExponent :
                     (ohms * 2 ^ e) \div ref \in 2 ^ (precision - 1) .. 2 ^ precision - 1
         IN  [num |-> NearestQuotient(ohms * 2 ^ e, ref) * AdcScale, den |-> 2 ^ e]

\* Slip: the code above the truncated one is taken in every case.
PythonHighCodeAbove(x) == (x.num \div x.den) + 1

PythonHighCode(x) == CeilDiv(x.num, x.den)   \* math.ceil
LowCode(x) == x.num \div x.den               \* math.floor; the cast in C

\* Slip: the comparison also holds for equality.
CHighCodeOfEqual(x) ==
    LET code == x.num \div x.den IN IF code * x.den <= x.num THEN code + 1 ELSE code

\* The cast truncates; the code is incremented when it is below the value.
CHighCode(x) ==
    LET code == x.num \div x.den IN IF code * x.den < x.num THEN code + 1 ELSE code

(***************************************************************************)
(* Requests and the two implementations                                    *)
(***************************************************************************)
\* A low threshold may be zero, a high one may not; both are below the reference.
ThresholdIsValid(ohms, least) == ohms = Unset \/ ohms \in least .. reference - 1

RequestIsValid ==
    /\ ThresholdIsValid(low, 0)
    /\ ThresholdIsValid(high, 1)
    /\ Unset \in {low, high} \/ low < high

IsRepresentable(code) == code <= MaxAdcCode

Pending == [accepted |-> FALSE, high |-> Unset, low |-> Unset]

\* What a configuration of the given codes is: Unset stands for the register
\* values 0xFFFF and 0 of an omitted threshold.
Outcome(highCode, lowCode) ==
    IF RequestIsValid /\ IsRepresentable(highCode)
    THEN [accepted |-> TRUE, high |-> highCode, low |-> lowCode]
    ELSE Pending

RequestInit ==
    /\ reference \in References
    /\ low \in Thresholds \cup {Unset}
    /\ high \in Thresholds \cup {Unset}
    /\ python = Pending
    /\ c = Pending

ConfigurePython ==
    /\ python' = Outcome(
           IF high = Unset THEN Unset ELSE PythonHighCode(Scaled(high, reference, PythonPrecision)),
           IF low = Unset THEN Unset ELSE LowCode(Scaled(low, reference, PythonPrecision)))
    /\ UNCHANGED <<reference, low, high, c>>

ConfigureC ==
    /\ c' = Outcome(
           IF high = Unset THEN Unset ELSE CHighCode(Scaled(high, reference, CPrecision)),
           IF low = Unset THEN Unset ELSE LowCode(Scaled(low, reference, CPrecision)))
    /\ UNCHANGED <<reference, low, high, python>>

Configure == ConfigurePython \/ ConfigureC

(***************************************************************************)
(* Properties                                                              *)
(***************************************************************************)
ExactHigh == CeilDiv(high * AdcScale, reference)
ExactLow == (low * AdcScale) \div reference

\* However the quotient is rounded, a threshold is at most one code away from the
\* one that exact arithmetic gives, and never farther out: a high threshold is
\* exact or one lower, a low threshold exact or one higher.  The one is the limit
\* of "High thresholds round upward so quantization cannot make the native
\* threshold lower than the caller's request" (_thresholds.py): the code can be
\* the one below when the quotient was rounded down to it.
WithinOneCode ==
    \A o \in {python, c} :
        o.accepted => /\ high # Unset => o.high \in ExactHigh - 1 .. ExactHigh
                      /\ low # Unset => o.low \in ExactLow .. ExactLow + 1

\* The shorter type errs on one side only: where Python and C differ, for values
\* that both represent exactly, the window that C configures lies inside the one
\* of Python, by one code.
CWindowIsInside ==
    python.accepted /\ c.accepted => /\ c.high \in {python.high - 1, python.high}
                                     /\ c.low \in {python.low, python.low + 1}
=============================================================================
