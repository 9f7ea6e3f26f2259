-------------------------- MODULE MAX31865CDriver --------------------------
(***************************************************************************)
(* The portable C driver: rtd_acquire_max31865_read() over a caller-owned  *)
(* SPI and delay HAL, decoding into a caller-owned measurement.            *)
(*                                                                         *)
(* Each transfer and each delay may report an error; a transfer that does  *)
(* may or may not have reached the device.  There are no exceptions: every *)
(* failure is a result code, and the function always runs to its return.   *)
(* The same storage is passed to successive reads, so that what one read   *)
(* leaves in it is what the next one finds.                                *)
(***************************************************************************)
EXTENDS MAX31865Device, FiniteSets

CONSTANT Capacities  \* the array capacities a caller may declare

ASSUME CapacitiesAssumption == Capacities \subseteq Nat

VARIABLES
    dev,       \* the device's registers
    sensor,    \* what the sensing element presents
    pc,        \* the step of rtd_acquire_max31865_read() that comes next
    config,    \* *config of the call
    rtd,       \* rtd_register
    status,    \* fault_status_register
    code,      \* the local variable `result'
    returned,  \* what the last read returned ("none" while one executes)
    refusal,   \* what the call returned that was refused since, if any
    storage,   \* *measurement
    cause,     \* history: the step of the last read that failed
    seen       \* history: what the sensor presented since the read began

vars == <<dev, sensor, pc, config, rtd, status, code, returned, refusal, storage, cause, seen>>

None == "none"

Results ==
    {"OK", "INVALID_ARGUMENT", "CONFIGURATION_ERROR", "SPI_IO_ERROR", "DELAY_ERROR",
     "INSUFFICIENT_STORAGE", "INTERNAL_ERROR"}

Steps ==
    {"thresholds", "enable_bias", "settle_bias", "fault_cycle", "wait_cycle",
     "settle_post_fault", "one_shot", "wait_conversion", "read_rtd",
     "read_status", "bias_off", "decode", "cleanup", "return"}

Base == BaseConfigByte(config)

(***************************************************************************)
(* The caller's measurement: the capacities of its two arrays, the         *)
(* diagnostics counted in it, the resistance and whether it carries a      *)
(* standard uncertainty.  Each MAX31865 diagnostic has one evidence item.  *)
(***************************************************************************)
Storage ==
    [diagnosticCapacity : Capacities, evidenceCapacity : Capacities,
     resistance : Int, uncertain : BOOLEAN, diagnostics : SUBSET FaultBits]

StorageSuffices(m, required) ==
    /\ m.diagnosticCapacity >= required
    /\ m.evidenceCapacity >= required

\* Slip: the standard uncertainty survives the reset.
ResetKeepingUncertainty(m) ==
    [m EXCEPT !.resistance = NoResistance, !.diagnostics = {}]

\* rtd_acquire_measurement_reset
Reset(m) ==
    [m EXCEPT !.resistance = NoResistance, !.uncertain = FALSE, !.diagnostics = {}]

\* Reset, the loop over the fault mappings, then the resistance.
Fill(m, registers, faults) ==
    LET decoded == Decode(config, registers, faults)
    IN  [Reset(m) EXCEPT !.diagnostics = decoded.diagnostics,
                         !.resistance  = decoded.resistance]

\* rtd_acquire_measurement_is_valid
StorageIsValid(m) ==
    /\ StorageSuffices(m, Cardinality(m.diagnostics))
    /\ m.resistance # NoResistance => m.resistance >= 0
    /\ IF HasFault(m.diagnostics) THEN m.resistance = NoResistance /\ ~m.uncertain
                                  ELSE m.resistance # NoResistance

(***************************************************************************)
(* Argument checks, in the order of the code, before any I/O.              *)
(***************************************************************************)
Defects == {"null_argument", "spi_settings", "null_array", "config", "timing"}

ArgumentResult(defects) ==
    IF "null_argument" \in defects THEN "INVALID_ARGUMENT"
    ELSE IF "spi_settings" \in defects THEN "CONFIGURATION_ERROR"
    ELSE IF "null_array" \in defects THEN "INVALID_ARGUMENT"
    ELSE IF defects # {} THEN "CONFIGURATION_ERROR"
    ELSE "OK"

Init ==
    /\ dev \in InitialDevices
    /\ sensor \in Sensors
    /\ pc = "idle"
    /\ config \in Configs
    /\ rtd = 0
    /\ status = {}
    /\ code = "OK"
    /\ returned = "none"
    /\ refusal = None
    /\ cause = None
    /\ storage \in [diagnosticCapacity : Capacities, evidenceCapacity : Capacities,
                    resistance : {NoResistance}, uncertain : BOOLEAN,
                    diagnostics : {{}}]
    /\ seen = {}

(***************************************************************************)
(* Building blocks                                                         *)
(***************************************************************************)
\* The function returns: its local variables die.
Return(result) ==
    /\ pc' = "idle"
    /\ returned' = result
    /\ rtd' = 0
    /\ status' = {}
    /\ code' = "OK"
    /\ seen' = {}

Transfer(at, accepted, after, next, handler) ==
    /\ pc = at
    /\ \/ /\ accepted
          /\ dev' = after
          /\ pc' = next
          /\ UNCHANGED <<code, cause>>
       \/ /\ dev' \in {dev, after}
          /\ pc' = handler
          /\ code' = "SPI_IO_ERROR"
          /\ cause' = at

WriteConfig(at, bits, next, handler) ==
    /\ Transfer(at, ConfigWriteIsAccepted(bits),
                AfterConfigWrite(dev, sensor, bits), next, handler)
    /\ UNCHANGED <<sensor, config, rtd, status, returned, refusal, storage, seen>>

Delay(at, wait, next) ==
    /\ pc = at
    /\ \/ /\ dev' = AfterWait(dev, wait)
          /\ pc' = next
          /\ UNCHANGED <<code, cause>>
       \/ /\ pc' = "cleanup"
          /\ code' = "DELAY_ERROR"
          /\ cause' = at
          /\ UNCHANGED dev
    /\ UNCHANGED <<sensor, config, rtd, status, returned, refusal, storage, seen>>

(***************************************************************************)
(* rtd_acquire_max31865_read()                                             *)
(***************************************************************************)
RefuseArguments ==
    /\ pc = "idle"
    /\ \E defects \in (SUBSET Defects) \ {{}} : refusal' = ArgumentResult(defects)
    /\ UNCHANGED <<dev, sensor, pc, config, rtd, status, code, returned, storage, cause, seen>>

Begin ==
    /\ pc = "idle"
    /\ ArgumentResult({}) = "OK"
    /\ pc' = "thresholds"
    /\ config' \in Configs
    /\ returned' = "none"
    /\ refusal' = None
    /\ cause' = None
    /\ seen' = {sensor}
    /\ UNCHANGED <<dev, sensor, rtd, status, code, storage>>

\* A failure before the biased section returns without a bias-off write.
WriteThresholds ==
    /\ Transfer("thresholds", TRUE,
                AfterThresholdWrite(dev, HighThresholdRegister(config),
                                         LowThresholdRegister(config)),
                "enable_bias", "return")
    /\ UNCHANGED <<sensor, config, rtd, status, returned, refusal, storage, seen>>

EnableBias ==
    WriteConfig("enable_bias", Base \cup {"BIAS", "CLEAR_FAULTS"}, "settle_bias", "cleanup")

SettleBias == Delay("settle_bias", "bias", "fault_cycle")

StartFaultCycle ==
    WriteConfig("fault_cycle", Base \cup {"BIAS", "AUTO_FAULT_CYCLE"}, "wait_cycle", "cleanup")

WaitFaultCycle == Delay("wait_cycle", "fault_cycle", "settle_post_fault")

SettlePostFault == Delay("settle_post_fault", "post_fault", "one_shot")

StartConversion ==
    WriteConfig("one_shot", Base \cup {"BIAS", "ONE_SHOT"}, "wait_conversion", "cleanup")

WaitConversion == Delay("wait_conversion", "conversion", "read_rtd")

ReadRtd ==
    /\ Transfer("read_rtd", RtdReadIsAccepted(dev), AfterRtdRead(dev),
                IF RtdFlag(RtdRegister(dev)) = 1 THEN "read_status" ELSE "bias_off",
                "cleanup")
    /\ rtd' = IF pc' = "cleanup" THEN rtd ELSE RtdRegister(dev)
    /\ UNCHANGED <<sensor, config, status, returned, refusal, storage, seen>>

ReadFaultStatus ==
    /\ Transfer("read_status", TRUE, dev, "bias_off", "cleanup")
    /\ status' = IF pc' = "cleanup" THEN status ELSE FaultStatusRegister(dev)
    /\ UNCHANGED <<sensor, config, rtd, returned, refusal, storage, seen>>

\* Slip: the final write leaves the bias bit in.
FinalBiasOffKeepsBias == WriteConfig("bias_off", Base \cup {"BIAS"}, "decode", "return")

FinalBiasOff == WriteConfig("bias_off", Base, "decode", "return")

\* Slip: the result of the cleanup write is assigned to `result'.
BestEffortBiasOffAssigned ==
    /\ pc = "cleanup"
    /\ pc' = "return"
    /\ \/ dev' = AfterConfigWrite(dev, sensor, Base) /\ code' = "OK"
       \/ UNCHANGED dev /\ code' = "SPI_IO_ERROR"
    /\ UNCHANGED <<sensor, config, rtd, status, returned, refusal, storage, cause, seen>>

BestEffortBiasOff ==
    /\ pc = "cleanup"
    /\ pc' = "return"
    /\ dev' \in {dev, AfterConfigWrite(dev, sensor, Base)}
    /\ UNCHANGED <<sensor, config, rtd, status, code, returned, refusal, storage, cause, seen>>

ReturnError ==
    /\ pc = "return"
    /\ Return(code)
    /\ UNCHANGED <<dev, sensor, config, refusal, storage, cause>>

\* Slip: the storage is reset before its capacity is checked.
DecodeRegistersResetFirst ==
    LET filled == Fill(storage, rtd, status) IN
    /\ pc = "decode"
    /\ \/ /\ ~StorageSuffices(storage, Cardinality(status))
          /\ storage' = Reset(storage)
          /\ Return("INSUFFICIENT_STORAGE")
       \/ /\ StorageSuffices(storage, Cardinality(status))
          /\ storage' = filled
          /\ Return(IF StorageIsValid(filled) THEN "OK" ELSE "INTERNAL_ERROR")
    /\ UNCHANGED <<dev, sensor, config, refusal, cause>>

\* measurement_from_registers: storage that cannot hold every diagnostic is
\* refused before it is touched.
DecodeRegisters ==
    LET filled == Fill(storage, rtd, status) IN
    /\ pc = "decode"
    /\ \/ /\ ~StorageSuffices(storage, Cardinality(status))
          /\ UNCHANGED storage
          /\ Return("INSUFFICIENT_STORAGE")
       \/ /\ StorageSuffices(storage, Cardinality(status))
          /\ storage' = filled
          /\ Return(IF StorageIsValid(filled) THEN "OK" ELSE "INTERNAL_ERROR")
    /\ UNCHANGED <<dev, sensor, config, refusal, cause>>

(***************************************************************************)
(* The environment                                                         *)
(***************************************************************************)
SensorChanges ==
    /\ sensor' \in Sensors
    /\ seen' = IF pc = "idle" THEN seen ELSE seen \cup {sensor'}
    /\ UNCHANGED <<dev, pc, config, rtd, status, code, returned, refusal, storage, cause>>

ReadStep ==
    \/ WriteThresholds
    \/ EnableBias
    \/ SettleBias
    \/ StartFaultCycle
    \/ WaitFaultCycle
    \/ SettlePostFault
    \/ StartConversion
    \/ WaitConversion
    \/ ReadRtd
    \/ ReadFaultStatus
    \/ FinalBiasOff
    \/ BestEffortBiasOff
    \/ ReturnError
    \/ DecodeRegisters

Next == RefuseArguments \/ Begin \/ ReadStep \/ SensorChanges

Spec == Init /\ [][Next]_vars

\* The HAL callbacks return, so a call that has begun keeps executing.
FairSpec == Spec /\ WF_vars(ReadStep)

(***************************************************************************)
(* Properties                                                              *)
(***************************************************************************)
\* Every variable has its type.
TypeOK ==
    /\ dev \in Device
    /\ sensor \in Sensors
    /\ pc \in Steps \cup {"idle"}
    /\ config \in Configs
    /\ rtd \in 0 .. 2 * MaxAdcCode + 1
    /\ status \subseteq FaultBits
    /\ code \in {"OK", "SPI_IO_ERROR", "DELAY_ERROR"}
    /\ returned \in Results \cup {None}
    /\ refusal \in {None, "INVALID_ARGUMENT", "CONFIGURATION_ERROR"}
    /\ storage \in Storage
    /\ cause \in Steps \cup {None}
    /\ seen \subseteq Sensors

\* The measurement a successful call returns meets the contract of core.h: it
\* has exactly the parts its diagnostics allow, it fits the caller's arrays,
\* and no standard uncertainty of an earlier use of the storage is left in it.
\* And a caller who reserves six diagnostics and six evidence items (DESIGN.md,
\* 809-813) never sees INSUFFICIENT_STORAGE, whatever the fault state.
StorageContract ==
    /\ returned = "OK" => StorageIsValid(storage) /\ ~storage.uncertain
    /\ returned = "INSUFFICIENT_STORAGE"
          => storage.diagnosticCapacity < 6 \/ storage.evidenceCapacity < 6

\* max31865.h: the result storage is modified only by a call that succeeds,
\* after the device I/O and with the bias shut down.
StorageIsModifiedLast ==
    [][storage' # storage => returned' = "OK" /\ "BIAS" \notin dev.config]_vars

\* If the caller keeps calling and, from some time on, every transfer and
\* delay succeeds, then from some time on the bias is off between calls.
BiasRecovers ==
    (<>[][~(code = "OK" /\ code' # "OK")]_vars /\ []<><<Begin>>_vars)
        => <>[](pc = "idle" => "BIAS" \notin dev.config)

(***************************************************************************)
(* The C driver implements the Python driver: the same transactions with   *)
(* the same bytes and waits in the same order, the same ways out of every  *)
(* failure, and the same measurements.  A call refused for its arguments   *)
(* is no read; one refused for its storage is a read that is abandoned     *)
(* when all that is left is to decode.  A result code stands for the       *)
(* failure of a statement when it is the one for statements of its kind.   *)
(***************************************************************************)
DelaySteps == {"settle_bias", "wait_cycle", "settle_post_fault", "wait_conversion"}

ErrorOf(step) == IF step \in DelaySteps THEN "DELAY_ERROR" ELSE "SPI_IO_ERROR"

FailureBehind(result) ==
    IF result = "OK" THEN None ELSE IF result = ErrorOf(cause) THEN cause ELSE result

ReadOutcome ==
    CASE returned = None -> "none"
      [] returned = "OK" -> "measurement"
      [] returned = "INSUFFICIENT_STORAGE" -> "interrupted"
      [] OTHER -> "error"

PythonDriver ==
    INSTANCE MAX31865Driver WITH
        pc      <- IF pc = "return" THEN "raise" ELSE pc,
        failure <- FailureBehind(code),
        result  <- [outcome     |-> ReadOutcome,
                    error       |-> IF ReadOutcome = "error" THEN FailureBehind(returned) ELSE None,
                    measurement |-> [resistance  |-> storage.resistance,
                                     diagnostics |-> storage.diagnostics]]

\* Everything that is shown of the Python driver's reads, the acquisition
\* contract included, holds of the C driver's: it has no behaviour of its own
\* (DESIGN 7: one conceptual behaviour in every language).
ImplementsPythonDriver == PythonDriver!Spec
=============================================================================
