--------------------------- MODULE MAX31865Driver ---------------------------
(***************************************************************************)
(* The Python driver: MAX31865.read() as a sequential program that drives  *)
(* a MAX31865 through an injected SpiDevice and an injected sleep.         *)
(*                                                                         *)
(* Reads follow one another (callers serialize them) but may belong to     *)
(* different driver objects, hence to different configurations.  Any       *)
(* transfer and any sleep may raise.  A transfer that raises may or may    *)
(* not have been executed by the device: the transport can fail before it, *)
(* or return a malformed response after it.  Between any two steps a       *)
(* BaseException (KeyboardInterrupt) may abandon the read.                 *)
(***************************************************************************)
EXTENDS MAX31865Device

VARIABLES
    dev,      \* the device's registers
    sensor,   \* what the sensing element presents
    pc,       \* the statement of read() that comes next
    config,   \* self._config of the driver object whose read() it is
    rtd,      \* rtd_register
    status,   \* fault_status
    failure,  \* the statement that raised the exception in flight
    result,   \* how the last read ended, and the last measurement returned
    seen      \* history: what the sensor presented since the read began

vars == <<dev, sensor, pc, config, rtd, status, failure, result, seen>>

None == "none"

Statements ==
    {"thresholds", "enable_bias", "settle_bias", "fault_cycle", "wait_cycle",
     "settle_post_fault", "one_shot", "wait_conversion", "read_rtd",
     "read_status", "bias_off", "decode", "cleanup", "raise"}

\* The statements that are executed with the bias on: what the try block of
\* read() does after its first write, and the write that ends the section.
BiasedStatements ==
    {"settle_bias", "fault_cycle", "wait_cycle", "settle_post_fault", "one_shot",
     "wait_conversion", "read_rtd", "read_status", "bias_off"}

Outcomes == {"none", "measurement", "error", "interrupted"}

Base == BaseConfigByte(config)

Init ==
    /\ dev \in InitialDevices
    /\ sensor \in Sensors
    /\ pc = "idle"
    /\ config \in Configs
    /\ rtd = 0
    /\ status = {}
    /\ failure = None
    /\ result = [outcome |-> "none", error |-> None,
                 measurement |-> [resistance |-> NoResistance, diagnostics |-> {}]]
    /\ seen = {}

(***************************************************************************)
(* Building blocks                                                         *)
(***************************************************************************)
\* Leaving read(): its local variables die with it.
Leave(outcome, error, measurement) ==
    /\ pc' = "idle"
    /\ rtd' = 0
    /\ status' = {}
    /\ failure' = None
    /\ seen' = {}
    /\ result' = [outcome |-> outcome, error |-> error, measurement |-> measurement]

\* One SPI transfer.  It succeeds when the device accepts it; when it raises,
\* control goes to `handler', and the device may have executed it or not.
Transfer(at, accepted, after, next, handler) ==
    /\ pc = at
    /\ \/ /\ accepted
          /\ dev' = after
          /\ pc' = next
          /\ UNCHANGED failure
       \/ /\ dev' \in {dev, after}
          /\ pc' = handler
          /\ failure' = at

WriteConfig(at, bits, next, handler) ==
    /\ Transfer(at, ConfigWriteIsAccepted(bits),
                AfterConfigWrite(dev, sensor, bits), next, handler)
    /\ UNCHANGED <<sensor, config, rtd, status, result, seen>>

Sleep(at, wait, next) ==
    /\ pc = at
    /\ \/ /\ dev' = AfterWait(dev, wait)
          /\ pc' = next
          /\ UNCHANGED failure
       \/ /\ pc' = "cleanup"
          /\ failure' = at
          /\ UNCHANGED dev
    /\ UNCHANGED <<sensor, config, rtd, status, result, seen>>

(***************************************************************************)
(* read()                                                                  *)
(***************************************************************************)
Begin ==
    /\ pc = "idle"
    /\ pc' = "thresholds"
    /\ config' \in Configs
    /\ seen' = {sensor}
    /\ result' = [outcome |-> "none", error |-> None, measurement |-> result.measurement]
    /\ UNCHANGED <<dev, sensor, rtd, status, failure>>

\* Slip: without thresholds to configure, the registers are left as found.
WriteThresholdsWhenConfigured ==
    /\ IF config.low = Unset /\ config.high = Unset
       THEN /\ pc = "thresholds"
            /\ pc' = "enable_bias"
            /\ UNCHANGED <<dev, failure>>
       ELSE Transfer("thresholds", TRUE,
                     AfterThresholdWrite(dev, HighThresholdRegister(config),
                                              LowThresholdRegister(config)),
                     "enable_bias", "raise")
    /\ UNCHANGED <<sensor, config, rtd, status, result, seen>>

\* Outside the try block: a failure here is raised without any cleanup.
WriteThresholds ==
    /\ Transfer("thresholds", TRUE,
                AfterThresholdWrite(dev, HighThresholdRegister(config),
                                         LowThresholdRegister(config)),
                "enable_bias", "raise")
    /\ UNCHANGED <<sensor, config, rtd, status, result, seen>>

EnableBias ==
    WriteConfig("enable_bias", Base \cup {"BIAS", "CLEAR_FAULTS"}, "settle_bias", "cleanup")

\* Slip: the fault cycle follows the bias write without a wait.
SettleBiasSkipped ==
    /\ pc = "settle_bias"
    /\ pc' = "fault_cycle"
    /\ UNCHANGED <<dev, sensor, config, rtd, status, failure, result, seen>>

SettleBias == Sleep("settle_bias", "bias", "fault_cycle")

\* Slip: the fault cycle is not requested, as if a previous one were enough.
StartFaultCycleOmitted ==
    WriteConfig("fault_cycle", Base \cup {"BIAS"}, "wait_cycle", "cleanup")

StartFaultCycle ==
    WriteConfig("fault_cycle", Base \cup {"BIAS", "AUTO_FAULT_CYCLE"}, "wait_cycle", "cleanup")

WaitFaultCycle == Sleep("wait_cycle", "fault_cycle", "settle_post_fault")

SettlePostFault == Sleep("settle_post_fault", "post_fault", "one_shot")

\* Slip: the one-shot byte is composed without the bias bit.
StartConversionUnbiased ==
    WriteConfig("one_shot", Base \cup {"ONE_SHOT"}, "wait_conversion", "cleanup")

StartConversion ==
    WriteConfig("one_shot", Base \cup {"BIAS", "ONE_SHOT"}, "wait_conversion", "cleanup")

\* Slip: the last sleep is outside the try block.
WaitConversionUnguarded ==
    /\ pc = "wait_conversion"
    /\ \/ dev' = AfterWait(dev, "conversion") /\ pc' = "read_rtd" /\ UNCHANGED failure
       \/ pc' = "raise" /\ failure' = "wait_conversion" /\ UNCHANGED dev
    /\ UNCHANGED <<sensor, config, rtd, status, result, seen>>

WaitConversion == Sleep("wait_conversion", "conversion", "read_rtd")

\* Slip: the fault status is never read.
ReadRtdWithoutStatus ==
    /\ Transfer("read_rtd", RtdReadIsAccepted(dev), AfterRtdRead(dev), "bias_off", "cleanup")
    /\ rtd' = IF pc' = "cleanup" THEN rtd ELSE RtdRegister(dev)
    /\ status' = {}
    /\ UNCHANGED <<sensor, config, result, seen>>

\* The fault status is read only when the RTD register carries the fault flag.
ReadRtd ==
    /\ Transfer("read_rtd", RtdReadIsAccepted(dev), AfterRtdRead(dev),
                IF RtdFlag(RtdRegister(dev)) = 1 THEN "read_status" ELSE "bias_off",
                "cleanup")
    /\ rtd' = IF pc' = "cleanup" THEN rtd ELSE RtdRegister(dev)
    /\ status' = {}
    /\ UNCHANGED <<sensor, config, result, seen>>

ReadFaultStatus ==
    /\ Transfer("read_status", TRUE, dev, "bias_off", "cleanup")
    /\ status' = IF pc' = "cleanup" THEN status ELSE FaultStatusRegister(dev)
    /\ UNCHANGED <<sensor, config, rtd, result, seen>>

\* Slips: when the bias-off write fails the acquisition is made once more; the
\* final write leaves the bias bit in.
FinalBiasOffRetried == WriteConfig("bias_off", Base, "decode", "enable_bias")
FinalBiasOffKeepsBias == WriteConfig("bias_off", Base \cup {"BIAS"}, "decode", "raise")

\* The normal end of the biased section; its failure is raised as it is.
FinalBiasOff == WriteConfig("bias_off", Base, "decode", "raise")

DecodeRegisters ==
    LET m == Decode(config, rtd, status) IN
    /\ pc = "decode"
    /\ IF MeasurementIsValid(m)
       THEN Leave("measurement", None, m)
       ELSE Leave("error", "decode", result.measurement)
    /\ UNCHANGED <<dev, sensor, config>>

\* Slip: an exception of the cleanup replaces the original one.
BestEffortBiasOffUnsuppressed ==
    /\ pc = "cleanup"
    /\ pc' = "raise"
    /\ \/ dev' = AfterConfigWrite(dev, sensor, Base) /\ UNCHANGED failure
       \/ UNCHANGED dev /\ failure' = "cleanup"
    /\ UNCHANGED <<sensor, config, rtd, status, result, seen>>

\* except Exception: an exception of the cleanup itself is suppressed.
BestEffortBiasOff ==
    /\ pc = "cleanup"
    /\ pc' = "raise"
    /\ dev' \in {dev, AfterConfigWrite(dev, sensor, Base)}
    /\ UNCHANGED <<sensor, config, rtd, status, failure, result, seen>>

Raise ==
    /\ pc = "raise"
    /\ Leave("error", failure, result.measurement)
    /\ UNCHANGED <<dev, sensor, config>>

\* A BaseException is not caught by `except Exception'.
Interrupt ==
    /\ pc # "idle"
    /\ Leave("interrupted", None, result.measurement)
    /\ UNCHANGED <<dev, sensor, config>>

(***************************************************************************)
(* The environment                                                         *)
(***************************************************************************)
SensorChanges ==
    /\ sensor' \in Sensors
    /\ seen' = IF pc = "idle" THEN seen ELSE seen \cup {sensor'}
    /\ UNCHANGED <<dev, pc, config, rtd, status, failure, result>>

ReadStep ==
    \/ WriteThresholds
    \/ EnableBias
    \/ SettleBias
    \/ StartFaultCycle
    \/ WaitFaultCycle
    \/ SettlePostFault
    \/ StartConversion
    \/ WaitConversion
    \/ ReadRtd
    \/ ReadFaultStatus
    \/ FinalBiasOff
    \/ DecodeRegisters
    \/ BestEffortBiasOff
    \/ Raise

Next == Begin \/ ReadStep \/ Interrupt \/ SensorChanges

Spec == Init /\ [][Next]_vars

\* Every transfer and every sleep returns or raises: a read that has begun
\* keeps executing.  Nothing obliges the caller to begin another one.
FairSpec == Spec /\ WF_vars(ReadStep)

(***************************************************************************)
(* Properties                                                              *)
(***************************************************************************)
\* Every variable has its type.
TypeOK ==
    /\ dev \in Device
    /\ sensor \in Sensors
    /\ pc \in Statements \cup {"idle"}
    /\ config \in Configs
    /\ rtd \in 0 .. 2 * MaxAdcCode + 1
    /\ status \subseteq FaultBits
    /\ failure \in Statements \cup {None}
    /\ result \in [outcome : Outcomes, error : Statements \cup {None},
                   measurement : [resistance : Int, diagnostics : SUBSET FaultBits]]
    /\ seen \subseteq Sensors

\* DESIGN 5.4: a read does not rely on what a previous process, an aborted
\* read or another driver object left in the registers.  From the fault cycle
\* to the end of the conversion the thresholds and the wire/filter bits in the
\* device are those of the configuration whose read() is executing.
DriverOwnedRegisters ==
    pc \in BiasedStatements \cup {"decode"} =>
        /\ dev.high = HighThresholdRegister(config)
        /\ dev.low = LowThresholdRegister(config)
        /\ dev.config \cap StaticBits = Base
        /\ "BIAS" \in dev.config <=> pc # "decode"

\* The device never refuses a transaction of read(): the fault cycle and the
\* conversion are requested with the bias on, and when the RTD register is
\* read a conversion made by this driver is waiting in it.
ProtocolIsAccepted ==
    /\ pc = "read_rtd" => RtdReadIsAccepted(dev)
    /\ dev.config \cap {"AUTO_FAULT_CYCLE", "ONE_SHOT"} # {} => "BIAS" \in dev.config

\* The fault flag and the fault status come from two transactions; they still
\* tell the same story when they are decoded, so that a latched fault is never
\* decoded as a trustworthy resistance without diagnostics.
FlagMatchesStatus ==
    pc \in {"bias_off", "decode"} => (RtdFlag(rtd) = 1 <=> status # {})

\* No operation of the converter starts before what it depends on has settled:
\* the fault cycle needs a settled bias, the conversion needs a finished fault
\* cycle and a settled input, and the data are read from a finished conversion.
NothingIsPremature ==
    [][/\ "fault_cycle" \in dev'.settling \ dev.settling => dev.settling = {}
       /\ "conversion" \in dev'.settling \ dev.settling => dev.settling = {}
       /\ (pc = "read_rtd" /\ dev' # dev) => dev.settling = {}]_vars

\* When a read is over, or only has its exception left to raise, the bias is
\* off, unless the read was interrupted, or its bias-off write never reached
\* the device, or it had not touched the bias and had found it on.
ReadLeavesBiasOff ==
    [][(pc' \in {"raise", "idle"} /\ pc' # pc /\ "BIAS" \in dev'.config) =>
          \/ Interrupt
          \/ pc \in {"cleanup", "bias_off"} /\ dev' = dev
          \/ pc = "thresholds" /\ "BIAS" \in dev.config
          \/ pc = "raise"]_vars

\* The caller receives the exception that made the read fail, whatever happens
\* to the bias-off write that follows it.
OriginalErrorSurvives ==
    [][failure # None =>
          \/ failure' = failure
          \/ Interrupt
          \/ pc' = "idle" /\ result'.outcome = "error" /\ result'.error = failure]_vars

\* Every read returns, raises or is interrupted.
ReadTerminates == (pc # "idle") ~> (pc = "idle")

\* A step in which something goes wrong.
Disturbance ==
    \/ Interrupt
    \/ failure = None /\ failure' # None

\* The driver recovers by itself: if the caller keeps reading and, from some
\* time on, nothing goes wrong any more, then from some time on the bias is off
\* whenever no read is executing, whatever earlier failures had left behind.
BiasRecovers ==
    (<>[][~Disturbance]_vars /\ []<><<Begin>>_vars)
        => <>[](pc = "idle" => "BIAS" \notin dev.config)

\* The driver implements the acquisition contract.
Promise ==
    INSTANCE AcquisitionDevice
        WITH phase     <- IF pc = "idle" THEN "idle" ELSE "reading",
             biased    <- "BIAS" \in dev.config,
             delivered <- result.measurement,
             outcome   <- result.outcome,
             Failures  <- {"error", "interrupted"}

ImplementsAcquisitionDevice == Promise!Spec
=============================================================================
