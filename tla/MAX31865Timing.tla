--------------------------- MODULE MAX31865Timing ---------------------------
(***************************************************************************)
(* The waits of the C driver, in whole microseconds of an unsigned integer *)
(* type whose largest value is UintMax (uint32_t in the code), and the way *)
(* the Arduino AVR adapter spends them.                                    *)
(*                                                                         *)
(* The state is one acquisition's two computed waits on their way through  *)
(* the delay HAL: from the input-filter time constant to the time that has *)
(* really elapsed when the driver goes on.                                 *)
(***************************************************************************)
EXTENDS Integers

CONSTANTS
    UintMax,        \* UINT32_MAX
    MillisecondUs,  \* 1000: the constant term of both waits, and a millisecond
    AvrUintMax      \* the largest `unsigned int' of the AVR

ASSUME TimingAssumption ==
    /\ UintMax \in Nat /\ MillisecondUs \in Nat \ {0} /\ AvrUintMax \in Nat
    /\ MillisecondUs <= UintMax
    /\ MillisecondUs - 1 <= AvrUintMax

VARIABLES
    tau,      \* timing->input_filter_time_constant_us
    pc,       \* the step that comes next
    waits,    \* bias_settle_us and post_fault_settle_us
    elapsed,  \* the time the adapter has spent in each of them
    result

vars == <<tau, pc, waits, elapsed, result>>

\* Unsigned arithmetic wraps around.
Wrap(n) == n % (UintMax + 1)

HalfTauRoundedUp(t) == Wrap((t \div 2) + (t % 2))

\* Slip: the half time constant is left out of the overflow test.
RefusedWithoutHalf(t) ==
    \/ t > (UintMax - MillisecondUs) \div 10
    \/ t > (UintMax - MillisecondUs) \div 5

\* Slip: the overflow test is twice as strict as it needs to be.
RefusedTooEarly(t) ==
    t > (UintMax - MillisecondUs - HalfTauRoundedUp(t)) \div 20

\* The overflow test of timing_delays, made before the products are formed.
Refused(t) ==
    \/ HalfTauRoundedUp(t) > UintMax - MillisecondUs
    \/ t > (UintMax - MillisecondUs - HalfTauRoundedUp(t)) \div 10
    \/ t > (UintMax - MillisecondUs) \div 5

BiasSettle(t) == Wrap(Wrap(Wrap(10 * t) + HalfTauRoundedUp(t)) + MillisecondUs)
PostFaultSettle(t) == Wrap(Wrap(5 * t) + MillisecondUs)

\* delay() for the whole milliseconds, delayMicroseconds() for the rest, whose
\* argument is an `unsigned int'.
AvrDelay(duration) ==
    (duration \div MillisecondUs) * MillisecondUs
        + ((duration % MillisecondUs) % (AvrUintMax + 1))

Init ==
    /\ tau \in 0 .. UintMax
    /\ pc = "compute"
    /\ waits = [bias |-> 0, post_fault |-> 0]
    /\ elapsed = [bias |-> 0, post_fault |-> 0]
    /\ result = "none"

\* Before any I/O.
ComputeDelays ==
    /\ pc = "compute"
    /\ IF Refused(tau)
       THEN /\ result' = "CONFIGURATION_ERROR"
            /\ pc' = "done"
            /\ UNCHANGED waits
       ELSE /\ waits' = [bias |-> BiasSettle(tau), post_fault |-> PostFaultSettle(tau)]
            /\ pc' = "settle_bias"
            /\ UNCHANGED result
    /\ UNCHANGED <<tau, elapsed>>

SettleBias ==
    /\ pc = "settle_bias"
    /\ elapsed' = [elapsed EXCEPT !.bias = AvrDelay(waits.bias)]
    /\ pc' = "settle_post_fault"
    /\ UNCHANGED <<tau, waits, result>>

SettlePostFault ==
    /\ pc = "settle_post_fault"
    /\ elapsed' = [elapsed EXCEPT !.post_fault = AvrDelay(waits.post_fault)]
    /\ pc' = "done"
    /\ result' = "OK"
    /\ UNCHANGED <<tau, waits>>

Next == ComputeDelays \/ SettleBias \/ SettlePostFault

Spec == Init /\ [][Next]_vars

(***************************************************************************)
(* Properties                                                              *)
(***************************************************************************)
Durations == [bias : 0 .. UintMax, post_fault : 0 .. UintMax]

\* Every variable has its type; in particular no wait exceeds the HAL's range.
TypeOK ==
    /\ tau \in 0 .. UintMax
    /\ pc \in {"compute", "settle_bias", "settle_post_fault", "done"}
    /\ waits \in Durations
    /\ elapsed \in Durations
    /\ result \in {"none", "OK", "CONFIGURATION_ERROR"}

\* DESIGN 6.6: for every accepted time constant the fault cycle starts 10.5
\* time constants plus 1 ms after the bias was enabled, rounded up to a
\* microsecond and never beyond, and the conversion five time constants plus
\* 1 ms after the fault cycle, whatever the widths of the integers in between.
WaitsAreExact ==
    /\ pc \in {"settle_post_fault", "done"} /\ result # "CONFIGURATION_ERROR" =>
          2 * elapsed.bias \in {21 * tau + 2 * MillisecondUs,
                                21 * tau + 2 * MillisecondUs + 1}
    /\ result = "OK" => elapsed.post_fault = 5 * tau + MillisecondUs

\* DESIGN 6.6: a time constant is refused exactly when a wait it requires,
\* rounded up to a microsecond, cannot be represented.
OnlyUnrepresentableIsRefused ==
    pc # "compute" =>
        (result = "CONFIGURATION_ERROR"
            <=> 10 * tau + (tau + 1) \div 2 + MillisecondUs > UintMax)
=============================================================================
