----------------------------- MODULE RegisterBus -----------------------------
(***************************************************************************)
(* The converter that the models of the drivers talk to, as one SPI master *)
(* sees it: each transaction that is understood is an operator of          *)
(* MAX31865Device, every other is refused.  Nothing has to settle here.    *)
(***************************************************************************)
EXTENDS MAX31865Device, FiniteSetsExt, Sequences

VARIABLES
    dev,      \* the registers
    sensor,   \* what the sensing element presents, once and for all
    answer    \* the response to the last transaction

vars == <<dev, sensor, answer>>

FaultMask == [D7 |-> 128, D6 |-> 64, D5 |-> 32, D4 |-> 16, D3 |-> 8, D2 |-> 4]

ByteOf(bits) == MapThenSumSet(LAMBDA bit : FaultMask[bit], bits)

\* The largest value of a threshold register, 0xFFFF.
WordMax == 256 * 256 - 1

Refusal == [raised |-> TRUE, bytes |-> <<>>]
Response(bytes) == [raised |-> FALSE, bytes |-> bytes]

Init ==
    /\ sensor \in Sensors
    /\ dev = [config |-> {}, latched |-> {}, ready |-> FALSE, data |-> sensor.code,
              high |-> WordMax, low |-> 0, settling |-> {}]
    /\ answer = Refusal

WriteConfig ==
    \E bits \in ConfigByte :
        /\ dev' = [AfterConfigWrite(dev, sensor, bits) EXCEPT !.settling = {}]
        /\ answer' = IF ConfigWriteIsAccepted(bits) THEN Response(<<0, 0>>) ELSE Refusal

WriteThresholds ==
    /\ {dev'.high, dev'.low} \subseteq 0 .. WordMax
    /\ dev' = AfterThresholdWrite(dev, dev'.high, dev'.low)
    /\ answer' = Response(<<0, 0, 0, 0, 0>>)

ReadRtd ==
    /\ RtdReadIsAccepted(dev)
    /\ dev' = AfterRtdRead(dev)
    /\ answer' = Response(<<0, RtdRegister(dev) \div 256, RtdRegister(dev) % 256>>)

ReadFaultStatus ==
    /\ answer' = Response(<<0, ByteOf(FaultStatusRegister(dev))>>)
    /\ UNCHANGED dev

\* An RTD read before a conversion, or a transaction nobody defined.
Refuse == answer' = Refusal /\ UNCHANGED dev

Next ==
    /\ WriteConfig \/ WriteThresholds \/ ReadRtd \/ ReadFaultStatus \/ Refuse
    /\ UNCHANGED sensor

Spec == Init /\ [][Next]_vars
=============================================================================
