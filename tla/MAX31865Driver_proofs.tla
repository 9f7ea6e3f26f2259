----------------------- MODULE MAX31865Driver_proofs -----------------------
(***************************************************************************)
(* Theorems about the Python driver, for every set of configurations and   *)
(* sensors.                                                                *)
(***************************************************************************)
EXTENDS MAX31865Driver, MAX31865Device_proofs, TLAPS

(***************************************************************************)
(* Type correctness                                                        *)
(***************************************************************************)
LEMMA WriteConfigType ==
    ASSUME TypeOK,
           NEW at \in Statements, NEW bits \in ConfigByte,
           NEW next \in Statements, NEW handler \in Statements,
           WriteConfig(at, bits, next, handler)
    PROVE  TypeOK'
<1>1. dev' \in Device
  BY ConfigWriteType DEF TypeOK, WriteConfig, Transfer
<1>2. pc' \in Statements /\ failure' \in Statements \cup {None}
  BY DEF TypeOK, WriteConfig, Transfer
<1> QED
  BY <1>1, <1>2 DEF TypeOK, WriteConfig

LEMMA SleepType ==
    ASSUME TypeOK,
           NEW at \in Statements, NEW wait, NEW next \in Statements,
           Sleep(at, wait, next)
    PROVE  TypeOK'
<1>1. dev' \in Device
  BY DEF TypeOK, Sleep, AfterWait, Device
<1>2. pc' \in Statements /\ failure' \in Statements \cup {None}
  BY DEF TypeOK, Sleep, Statements
<1> QED
  BY <1>1, <1>2 DEF TypeOK, Sleep

LEMMA LeaveType ==
    ASSUME TypeOK, NEW outcome \in Outcomes, NEW error \in Statements \cup {None},
           NEW m \in [resistance : Int, diagnostics : SUBSET FaultBits],
           Leave(outcome, error, m), UNCHANGED <<dev, sensor, config>>
    PROVE  TypeOK'
<1>1. rtd' \in 0 .. 2 * MaxAdcCode + 1
  BY DEF Leave, MaxAdcCode, AdcScale
<1> QED
  BY <1>1 DEF TypeOK, Leave

\* Every byte that read() writes is a configuration byte.
LEMMA BytesType ==
    /\ Base \in ConfigByte
    /\ Base \cup {"BIAS", "CLEAR_FAULTS"} \in ConfigByte
    /\ Base \cup {"BIAS", "AUTO_FAULT_CYCLE"} \in ConfigByte
    /\ Base \cup {"BIAS", "ONE_SHOT"} \in ConfigByte
  BY BaseType DEF Base, ConfigByte, OperationBits

LEMMA TypeInit == Init => TypeOK
<1> SUFFICES ASSUME Init PROVE TypeOK
  OBVIOUS
<1>1. dev \in Device
  BY InitialDevicesType DEF Init
<1>2. rtd \in 0 .. 2 * MaxAdcCode + 1
  BY DEF Init, MaxAdcCode, AdcScale
<1>3. result \in [outcome : Outcomes, error : Statements \cup {None},
                  measurement : [resistance : Int, diagnostics : SUBSET FaultBits]]
  BY DEF Init, Outcomes, NoResistance
<1> QED
  BY <1>1, <1>2, <1>3 DEF Init, TypeOK

LEMMA TypeNext == TypeOK /\ [Next]_vars => TypeOK'
<1> SUFFICES ASSUME TypeOK, [Next]_vars PROVE TypeOK'
  OBVIOUS
<1> USE BytesType
<1>1. CASE Begin
  BY <1>1 DEF TypeOK, Begin, Statements, Outcomes
<1>2. CASE WriteThresholds
  <2>1. HighThresholdRegister(config) \in Int /\ LowThresholdRegister(config) \in Int
    BY ThresholdRegistersType DEF TypeOK
  <2>2. dev' \in Device
    BY <1>2, <2>1 DEF TypeOK, WriteThresholds, Transfer, AfterThresholdWrite, Device
  <2> QED
    BY <1>2, <2>2 DEF TypeOK, WriteThresholds, Transfer, Statements
<1>3. CASE EnableBias
  BY <1>3, WriteConfigType DEF EnableBias, Statements
<1>4. CASE SettleBias
  BY <1>4, SleepType DEF SettleBias, Statements
<1>5. CASE StartFaultCycle
  BY <1>5, WriteConfigType DEF StartFaultCycle, Statements
<1>6. CASE WaitFaultCycle
  BY <1>6, SleepType DEF WaitFaultCycle, Statements
<1>7. CASE SettlePostFault
  BY <1>7, SleepType DEF SettlePostFault, Statements
<1>8. CASE StartConversion
  BY <1>8, WriteConfigType DEF StartConversion, Statements
<1>9. CASE WaitConversion
  BY <1>9, SleepType DEF WaitConversion, Statements
<1>10. CASE ReadRtd
  <2>1. dev' \in Device
    BY <1>10 DEF TypeOK, ReadRtd, Transfer, AfterRtdRead, Device
  <2>2. rtd' \in 0 .. 2 * MaxAdcCode + 1
    BY <1>10, RtdRegisterParts DEF TypeOK, ReadRtd
  <2>3. pc' \in Statements /\ failure' \in Statements \cup {None}
    BY <1>10 DEF TypeOK, ReadRtd, Transfer, Statements
  <2> QED
    BY <1>10, <2>1, <2>2, <2>3 DEF TypeOK, ReadRtd
<1>11. CASE ReadFaultStatus
  <2>1. dev' \in Device /\ FaultStatusRegister(dev) \in SUBSET FaultBits
    BY <1>11 DEF TypeOK, ReadFaultStatus, Transfer, FaultStatusRegister, Device
  <2> QED
    BY <1>11, <2>1 DEF TypeOK, ReadFaultStatus, Transfer, Statements
<1>12. CASE FinalBiasOff
  BY <1>12, WriteConfigType DEF FinalBiasOff, Statements
<1>13. CASE DecodeRegisters
  <2>1. rtd \in Nat
    <3>1. rtd \in 0 .. 2 * MaxAdcCode + 1
      BY DEF TypeOK
    <3> QED
      BY <3>1 DEF MaxAdcCode, AdcScale
  <2>2. Decode(config, rtd, status) \in [resistance : Int, diagnostics : SUBSET FaultBits]
    BY <2>1, DecodeType DEF TypeOK
  <2> QED
    BY <1>13, <2>2, LeaveType DEF DecodeRegisters, TypeOK, Outcomes, Statements
<1>14. CASE BestEffortBiasOff
  <2>1. dev' \in Device
    BY <1>14, ConfigWriteType DEF TypeOK, BestEffortBiasOff
  <2> QED
    BY <1>14, <2>1 DEF TypeOK, BestEffortBiasOff, Statements
<1>15. CASE Raise
  BY <1>15, LeaveType DEF Raise, TypeOK, Outcomes
<1>16. CASE Interrupt
  BY <1>16, LeaveType DEF Interrupt, TypeOK, Outcomes
<1>17. CASE SensorChanges
  BY <1>17 DEF TypeOK, SensorChanges
<1>18. CASE UNCHANGED vars
  BY <1>18 DEF TypeOK, vars
<1> QED
  BY <1>1, <1>2, <1>3, <1>4, <1>5, <1>6, <1>7, <1>8, <1>9, <1>10, <1>11, <1>12, <1>13,
     <1>14, <1>15, <1>16, <1>17, <1>18 DEF Next, ReadStep

\* The state of the driver and of the device stays well-typed: in particular
\* no transfer, failed or not, leaves a byte or a register out of its range.
THEOREM TypeCorrect == Spec => []TypeOK
  BY TypeInit, TypeNext, PTL DEF Spec


(***************************************************************************)
(* The inductive invariant: what each control point owes to the statements *)
(* executed before it.                                                     *)
(***************************************************************************)
\* The registers the driver owns, from the threshold write on.
RegistersInv ==
    /\ pc \in BiasedStatements \cup {"enable_bias", "decode"} =>
          /\ dev.high = HighThresholdRegister(config)
          /\ dev.low = LowThresholdRegister(config)
    /\ pc \in BiasedStatements \cup {"decode"} => dev.config \cap StaticBits = Base
    /\ pc \in BiasedStatements => "BIAS" \in dev.config
    /\ pc = "decode" => "BIAS" \notin dev.config

\* A conversion that was started is still there to be read.
ConversionInv == pc \in {"wait_conversion", "read_rtd"} => dev.ready

\* The byte in the device is one that it accepts.
ByteInv == ConfigWriteIsAccepted(dev.config)

\* The flag that was read, the status that was or will be read.
FlagInv ==
    /\ pc = "read_status" => dev.latched # {} /\ RtdFlag(rtd) = 1
    /\ FlagMatchesStatus

\* What is still settling at each control point of the biased section.
SettlingInv ==
    /\ pc \in {"fault_cycle", "one_shot", "read_rtd"} => dev.settling = {}
    /\ pc = "settle_bias" => dev.settling \subseteq {"bias"}
    /\ pc = "wait_cycle" => dev.settling \subseteq {"fault_cycle", "post_fault"}
    /\ pc = "settle_post_fault" => dev.settling \subseteq {"post_fault"}
    /\ pc = "wait_conversion" => dev.settling \subseteq {"conversion"}

\* An exception is in flight exactly between the failure and the return.
FailureInv == failure # None <=> pc \in {"cleanup", "raise"}

ControlInv == RegistersInv /\ ConversionInv /\ FlagInv /\ SettlingInv /\ FailureInv

IInv == TypeOK /\ ByteInv /\ ControlInv

\* Writing a byte composed of the static bits and an operation leaves exactly
\* those static bits in the device.
LEMMA BaseWithOperation ==
    ASSUME NEW operation \in SUBSET OperationBits
    PROVE  (Base \cup operation) \cap StaticBits = Base
  BY BaseType DEF Base, StaticBits, OperationBits

\* A step that fails owes nothing to the control point it goes to.
LEMMA FailedStep ==
    ASSUME pc' \in {"cleanup", "raise"}, failure' # None
    PROVE  ControlInv'
  BY DEF ControlInv, RegistersInv, ConversionInv, FlagInv, FlagMatchesStatus, SettlingInv,
         FailureInv, BiasedStatements

\* Neither does one that leaves read().
LEMMA LeavingStep ==
    ASSUME pc' = "idle", failure' = None
    PROVE  ControlInv'
  BY DEF ControlInv, RegistersInv, ConversionInv, FlagInv, FlagMatchesStatus, SettlingInv,
         FailureInv, BiasedStatements

\* A step raises, and the handler comes next.
StepFails(at, handler) == pc = at /\ pc' = handler /\ failure' # None

\* A sleep that returns ends one wait and touches no register.
SleepSucceeds(at, wait, next) ==
    /\ pc = at /\ pc' = next
    /\ UNCHANGED <<sensor, config, rtd, status, failure, seen>>
    /\ dev'.config = dev.config /\ dev'.high = dev.high /\ dev'.low = dev.low
    /\ dev'.latched = dev.latched /\ dev'.ready = dev.ready /\ dev'.data = dev.data
    /\ dev'.settling = dev.settling \ {wait}

\* A configuration write succeeds: the device holds the byte, its thresholds
\* are as they were.
WriteSucceeds(at, operation, next) ==
    /\ pc = at /\ pc' = next
    /\ UNCHANGED <<sensor, config, rtd, status, failure, seen>>
    /\ dev' = AfterConfigWrite(dev, sensor, Base \cup operation)
    /\ dev'.config = Base \cup operation
    /\ dev'.config \cap StaticBits = Base
    /\ dev'.high = dev.high /\ dev'.low = dev.low
    /\ dev'.settling = SettlingAfter(dev, Base \cup operation)

LEMMA SleepEffect ==
    ASSUME TypeOK, NEW at \in Statements, NEW wait, NEW next, Sleep(at, wait, next)
    PROVE  SleepSucceeds(at, wait, next) \/ (StepFails(at, "cleanup") /\ dev' = dev)
<1>1. at # None
  BY DEF Statements, None
<1> QED
  BY <1>1 DEF TypeOK, Sleep, AfterWait, Device, SleepSucceeds, StepFails

LEMMA WriteConfigEffect ==
    ASSUME TypeOK, NEW at \in Statements, NEW operation \in SUBSET OperationBits,
           NEW next, NEW handler, WriteConfig(at, Base \cup operation, next, handler)
    PROVE  \/ WriteSucceeds(at, operation, next)
           \/ /\ StepFails(at, handler)
              /\ dev' \in {dev, AfterConfigWrite(dev, sensor, Base \cup operation)}
<1>1. dev \in Device /\ at # None
  BY DEF TypeOK, Statements, None
<1>2. (Base \cup operation) \cap StaticBits = Base
  BY BaseWithOperation
<1> QED
  BY <1>1, <1>2, ConfigWriteFields DEF WriteConfig, Transfer, WriteSucceeds, StepFails

\* The bytes of read() are acceptable, and the device keeps what it is sent.
LEMMA ByteAfterWrite ==
    ASSUME TypeOK, ByteInv,
           NEW operation \in {{}, {"BIAS", "CLEAR_FAULTS"}, {"BIAS", "AUTO_FAULT_CYCLE"},
                              {"BIAS", "ONE_SHOT"}},
           dev' \in {dev, AfterConfigWrite(dev, sensor, Base \cup operation)}
    PROVE  ByteInv'
<1>1. Base \cap {"AUTO_FAULT_CYCLE", "ONE_SHOT"} = {}
  BY BaseType DEF Base, StaticBits
<1>2. ConfigWriteIsAccepted(Base \cup operation)
  BY <1>1 DEF ConfigWriteIsAccepted
<1>3. AfterConfigWrite(dev, sensor, Base \cup operation).config = Base \cup operation
  BY ConfigWriteFields DEF TypeOK
<1> QED
  BY <1>2, <1>3 DEF ByteInv

LEMMA InvInit == Init => IInv
<1> SUFFICES ASSUME Init PROVE IInv
  OBVIOUS
<1>1. ByteInv
  <2>1. dev.config \in LeftoverConfigBytes
    BY DEF Init, InitialDevices
  <2>2. PICK c \in Configs,
             operation \in {{}, {"BIAS", "CLEAR_FAULTS"},
                            {"BIAS", "AUTO_FAULT_CYCLE"}, {"BIAS", "ONE_SHOT"}} :
           dev.config = BaseConfigByte(c) \cup operation
    BY <2>1 DEF LeftoverConfigBytes
  <2>3. BaseConfigByte(c) \cap {"AUTO_FAULT_CYCLE", "ONE_SHOT"} = {}
    BY BaseType DEF StaticBits
  <2> QED
    BY <2>2, <2>3 DEF ByteInv, ConfigWriteIsAccepted
<1> QED
  BY <1>1, TypeInit DEF Init, IInv, ControlInv, RegistersInv, ConversionInv, FlagInv,
                        FlagMatchesStatus, SettlingInv, FailureInv, BiasedStatements, None

LEMMA ByteNext == IInv /\ [Next]_vars => ByteInv'
<1> SUFFICES ASSUME TypeOK, ByteInv, [Next]_vars PROVE ByteInv'
  BY DEF IInv
<1>1. ASSUME dev'.config = dev.config PROVE ByteInv'
  BY <1>1 DEF ByteInv
<1>2. CASE EnableBias
  BY <1>2, ByteAfterWrite DEF EnableBias, WriteConfig, Transfer
<1>3. CASE StartFaultCycle
  BY <1>3, ByteAfterWrite DEF StartFaultCycle, WriteConfig, Transfer
<1>4. CASE StartConversion
  BY <1>4, ByteAfterWrite DEF StartConversion, WriteConfig, Transfer
<1>5. CASE FinalBiasOff \/ BestEffortBiasOff
  <2>1. dev' \in {dev, AfterConfigWrite(dev, sensor, Base \cup {})}
    BY <1>5 DEF FinalBiasOff, BestEffortBiasOff, WriteConfig, Transfer
  <2> QED
    BY <2>1, ByteAfterWrite
<1>6. CASE SettleBias \/ WaitFaultCycle \/ SettlePostFault \/ WaitConversion
  BY <1>1, <1>6, SleepEffect
     DEF SettleBias, WaitFaultCycle, SettlePostFault, WaitConversion, Statements, SleepSucceeds
<1>7. CASE WriteThresholds \/ ReadRtd
  BY <1>1, <1>7 DEF WriteThresholds, ReadRtd, Transfer, AfterThresholdWrite, AfterRtdRead,
                    TypeOK, Device
<1>8. CASE \/ Begin \/ ReadFaultStatus \/ DecodeRegisters \/ Raise \/ Interrupt
           \/ SensorChanges \/ UNCHANGED vars
  BY <1>1, <1>8 DEF Begin, ReadFaultStatus, Transfer, DecodeRegisters, Raise, Interrupt,
                    SensorChanges, vars
<1> QED
  BY <1>2, <1>3, <1>4, <1>5, <1>6, <1>7, <1>8 DEF Next, ReadStep

LEMMA ControlNext == IInv /\ [Next]_vars => ControlInv'
<1> SUFFICES ASSUME TypeOK, ControlInv, [Next]_vars PROVE ControlInv'
  BY DEF IInv
<1>0. dev \in Device /\ Base \cap OperationBits = {}
  BY BaseType DEF TypeOK, Base, StaticBits, OperationBits
<1> USE DEF ControlInv, RegistersInv, ConversionInv, FlagInv, FlagMatchesStatus, SettlingInv,
            FailureInv, BiasedStatements
<1>1. CASE Begin
  BY <1>1 DEF Begin
<1>2. CASE WriteThresholds
  <2>1. CASE pc' = "raise"
    BY <1>2, <2>1, FailedStep DEF WriteThresholds, Transfer, None
  <2>2. CASE pc' # "raise"
    <3>1. /\ pc = "thresholds" /\ pc' = "enable_bias"
          /\ UNCHANGED <<config, rtd, status, failure>>
          /\ dev' = AfterThresholdWrite(dev, HighThresholdRegister(config),
                                             LowThresholdRegister(config))
      BY <1>2, <2>2 DEF WriteThresholds, Transfer
    <3>2. /\ dev'.high = HighThresholdRegister(config)
          /\ dev'.low = LowThresholdRegister(config)
      BY <1>0, <3>1 DEF AfterThresholdWrite, Device
    <3> QED
      BY <3>1, <3>2
  <2> QED
    BY <2>1, <2>2
<1>3. CASE EnableBias
  <2> DEFINE operation == {"BIAS", "CLEAR_FAULTS"}
  <2>1. \/ WriteSucceeds("enable_bias", operation, "settle_bias")
        \/ StepFails("enable_bias", "cleanup")
    <3>1. "enable_bias" \in Statements /\ operation \in SUBSET OperationBits
      BY DEF Statements, OperationBits
    <3> QED
      BY <1>3, <3>1, WriteConfigEffect DEF EnableBias
  <2>2. CASE StepFails("enable_bias", "cleanup")
    BY <2>2, FailedStep DEF StepFails
  <2>3. CASE WriteSucceeds("enable_bias", operation, "settle_bias")
    <3>1. SettlingAfter(dev, Base \cup operation) \subseteq {"bias"}
      BY <1>0, <2>3 DEF SettlingAfter, OperationBits, WriteSucceeds
    <3> QED
      BY <2>3, <3>1 DEF WriteSucceeds, Base
  <2> QED
    BY <2>1, <2>2, <2>3
<1>4. CASE SettleBias
  <2>1. SleepSucceeds("settle_bias", "bias", "fault_cycle") \/ StepFails("settle_bias", "cleanup")
    BY <1>4, SleepEffect DEF SettleBias, Statements
  <2>2. CASE StepFails("settle_bias", "cleanup")
    BY <2>2, FailedStep DEF StepFails
  <2>3. CASE SleepSucceeds("settle_bias", "bias", "fault_cycle")
    BY <2>3 DEF SleepSucceeds, Base
  <2> QED
    BY <2>1, <2>2, <2>3
<1>5. CASE StartFaultCycle
  <2> DEFINE operation == {"BIAS", "AUTO_FAULT_CYCLE"}
  <2>1. \/ WriteSucceeds("fault_cycle", operation, "wait_cycle")
        \/ StepFails("fault_cycle", "cleanup")
    <3>1. "fault_cycle" \in Statements /\ operation \in SUBSET OperationBits
      BY DEF Statements, OperationBits
    <3> QED
      BY <1>5, <3>1, WriteConfigEffect DEF StartFaultCycle
  <2>2. CASE StepFails("fault_cycle", "cleanup")
    BY <2>2, FailedStep DEF StepFails
  <2>3. CASE WriteSucceeds("fault_cycle", operation, "wait_cycle")
    <3>1. SettlingAfter(dev, Base \cup operation) \subseteq {"fault_cycle", "post_fault"}
      BY <1>0, <2>3 DEF SettlingAfter, OperationBits, WriteSucceeds
    <3> QED
      BY <2>3, <3>1 DEF WriteSucceeds, Base
  <2> QED
    BY <2>1, <2>2, <2>3
<1>6. CASE WaitFaultCycle
  <2>1. SleepSucceeds("wait_cycle", "fault_cycle", "settle_post_fault") \/ StepFails("wait_cycle", "cleanup")
    BY <1>6, SleepEffect DEF WaitFaultCycle, Statements
  <2>2. CASE StepFails("wait_cycle", "cleanup")
    BY <2>2, FailedStep DEF StepFails
  <2>3. CASE SleepSucceeds("wait_cycle", "fault_cycle", "settle_post_fault")
    BY <2>3 DEF SleepSucceeds, Base
  <2> QED
    BY <2>1, <2>2, <2>3
<1>7. CASE SettlePostFault
  <2>1. SleepSucceeds("settle_post_fault", "post_fault", "one_shot") \/ StepFails("settle_post_fault", "cleanup")
    BY <1>7, SleepEffect DEF SettlePostFault, Statements
  <2>2. CASE StepFails("settle_post_fault", "cleanup")
    BY <2>2, FailedStep DEF StepFails
  <2>3. CASE SleepSucceeds("settle_post_fault", "post_fault", "one_shot")
    BY <2>3 DEF SleepSucceeds, Base
  <2> QED
    BY <2>1, <2>2, <2>3
<1>8. CASE StartConversion
  <2> DEFINE operation == {"BIAS", "ONE_SHOT"}
  <2>1. \/ WriteSucceeds("one_shot", operation, "wait_conversion")
        \/ StepFails("one_shot", "cleanup")
    <3>1. "one_shot" \in Statements /\ operation \in SUBSET OperationBits
      BY DEF Statements, OperationBits
    <3> QED
      BY <1>8, <3>1, WriteConfigEffect DEF StartConversion
  <2>2. CASE StepFails("one_shot", "cleanup")
    BY <2>2, FailedStep DEF StepFails
  <2>3. CASE WriteSucceeds("one_shot", operation, "wait_conversion")
    <3>1. SettlingAfter(dev, Base \cup operation) \subseteq {"conversion"}
      BY <1>0, <2>3 DEF SettlingAfter, OperationBits, WriteSucceeds
    <3>2. dev'.ready
      BY <1>0, <2>3, ConfigWriteFields DEF WriteSucceeds
    <3> QED
      BY <2>3, <3>1, <3>2 DEF WriteSucceeds, Base
  <2> QED
    BY <2>1, <2>2, <2>3
<1>9. CASE WaitConversion
  <2>1. SleepSucceeds("wait_conversion", "conversion", "read_rtd") \/ StepFails("wait_conversion", "cleanup")
    BY <1>9, SleepEffect DEF WaitConversion, Statements
  <2>2. CASE StepFails("wait_conversion", "cleanup")
    BY <2>2, FailedStep DEF StepFails
  <2>3. CASE SleepSucceeds("wait_conversion", "conversion", "read_rtd")
    BY <2>3 DEF SleepSucceeds, Base
  <2> QED
    BY <2>1, <2>2, <2>3
<1>10. CASE ReadRtd
  <2>1. RtdFlag(RtdRegister(dev)) = 1 <=> dev.latched # {}
    BY <1>0, RtdRegisterParts
  <2>2. CASE pc' = "cleanup"
    BY <1>10, <2>2, FailedStep DEF ReadRtd, Transfer, None
  <2>3. CASE pc' # "cleanup"
    <3>1. /\ pc = "read_rtd" /\ dev' = AfterRtdRead(dev)
          /\ pc' = IF RtdFlag(RtdRegister(dev)) = 1 THEN "read_status" ELSE "bias_off"
          /\ rtd' = RtdRegister(dev) /\ status' = {}
          /\ UNCHANGED <<config, failure>>
      BY <1>10, <2>3 DEF ReadRtd, Transfer
    <3>2. /\ dev'.config = dev.config /\ dev'.high = dev.high /\ dev'.low = dev.low
          /\ dev'.latched = dev.latched
      BY <1>0, <3>1 DEF AfterRtdRead, Device
    <3> QED
      BY <2>1, <3>1, <3>2 DEF Base
  <2> QED
    BY <2>2, <2>3
<1>11. CASE ReadFaultStatus
  <2>1. CASE pc' = "cleanup"
    BY <1>11, <2>1, FailedStep DEF ReadFaultStatus, Transfer, None
  <2>2. CASE pc' # "cleanup"
    BY <1>11, <2>2 DEF ReadFaultStatus, Transfer, FaultStatusRegister, Base
  <2> QED
    BY <2>1, <2>2
<1>12. CASE FinalBiasOff
  <2>1. WriteConfig("bias_off", Base \cup {}, "decode", "raise")
    BY <1>12 DEF FinalBiasOff
  <2>2. WriteSucceeds("bias_off", {}, "decode") \/ StepFails("bias_off", "raise")
    <3>1. "bias_off" \in Statements /\ {} \in SUBSET OperationBits
      BY DEF Statements
    <3> QED
      BY <2>1, <3>1, WriteConfigEffect
  <2>3. CASE StepFails("bias_off", "raise")
    BY <2>3, FailedStep DEF StepFails
  <2>4. CASE WriteSucceeds("bias_off", {}, "decode")
    BY <1>0, <2>4 DEF WriteSucceeds, Base, OperationBits
  <2> QED
    BY <2>2, <2>3, <2>4
<1>13. CASE DecodeRegisters
  BY <1>13, LeavingStep DEF DecodeRegisters, Leave
<1>14. CASE BestEffortBiasOff
  BY <1>14, FailedStep DEF BestEffortBiasOff
<1>15. CASE Raise
  BY <1>15, LeavingStep DEF Raise, Leave
<1>16. CASE Interrupt
  BY <1>16, LeavingStep DEF Interrupt, Leave
<1>17. CASE SensorChanges
  BY <1>17 DEF SensorChanges, Base
<1>18. CASE UNCHANGED vars
  BY <1>18 DEF vars, Base
<1> QED
  BY <1>1, <1>2, <1>3, <1>4, <1>5, <1>6, <1>7, <1>8, <1>9, <1>10, <1>11, <1>12, <1>13,
     <1>14, <1>15, <1>16, <1>17, <1>18 DEF Next, ReadStep


LEMMA Invariant == Spec => []IInv
<1>1. Init => IInv
  BY InvInit
<1>2. IInv /\ [Next]_vars => IInv'
  BY TypeNext, ByteNext, ControlNext DEF IInv
<1> QED
  BY <1>1, <1>2, PTL DEF Spec

(***************************************************************************)
(* The safety properties                                                   *)
(***************************************************************************)
\* Whatever configurations share the device and whatever state a previous
\* process left it in, each acquisition runs with its own thresholds and
\* wire/filter bits, and with the bias on until the final write.
THEOREM OwnedRegisters == Spec => []DriverOwnedRegisters
<1>1. IInv => DriverOwnedRegisters
  BY DEF IInv, ControlInv, RegistersInv, DriverOwnedRegisters, BiasedStatements
<1> QED
  BY <1>1, Invariant, PTL

\* The device accepts every transaction of read(), in every interleaving of
\* failures, interrupts and earlier aborted reads.
THEOREM ProtocolAccepted == Spec => []ProtocolIsAccepted
<1>1. IInv => ProtocolIsAccepted
  BY DEF IInv, ByteInv, ConfigWriteIsAccepted, ControlInv, ConversionInv,
         ProtocolIsAccepted, RtdReadIsAccepted
<1> QED
  BY <1>1, Invariant, PTL

\* The fault flag of the RTD register and the fault status agree when decoded.
THEOREM FlagAgreesWithStatus == Spec => []FlagMatchesStatus
<1>1. IInv => FlagMatchesStatus
  BY DEF IInv, ControlInv, FlagInv
<1> QED
  BY <1>1, Invariant, PTL

\* A bias-off write that left the bias on did not reach the device.
LEMMA BaseSwitchesBiasOff ==
    ASSUME TypeOK, dev' \in {dev, AfterConfigWrite(dev, sensor, Base)},
           "BIAS" \in dev'.config
    PROVE  dev' = dev
<1>1. "BIAS" \notin Base
  BY BaseType DEF Base, StaticBits
<1>2. AfterConfigWrite(dev, sensor, Base).config = Base
  BY ConfigWriteFields DEF TypeOK
<1> QED
  BY <1>1, <1>2

\* A read gives up its biased section only through a bias-off write: on every
\* path out of read() the bias is off, or that write never reached the device.
THEOREM BiasOff == Spec => ReadLeavesBiasOff
<1> DEFINE Leaving ==
        (pc' \in {"raise", "idle"} /\ pc' # pc /\ "BIAS" \in dev'.config) =>
          \/ Interrupt
          \/ pc \in {"cleanup", "bias_off"} /\ dev' = dev
          \/ pc = "thresholds" /\ "BIAS" \in dev.config
          \/ pc = "raise"
<1>1. IInv /\ [Next]_vars => [Leaving]_vars
  <2> SUFFICES ASSUME IInv, Next, pc' \in {"raise", "idle"}, pc' # pc, "BIAS" \in dev'.config
               PROVE  \/ Interrupt
                      \/ pc \in {"cleanup", "bias_off"} /\ dev' = dev
                      \/ pc = "thresholds" /\ "BIAS" \in dev.config
                      \/ pc = "raise"
    OBVIOUS
  <2>1. CASE WriteThresholds
    <3>1. pc = "thresholds" /\ dev'.config = dev.config
      BY <2>1 DEF WriteThresholds, Transfer, AfterThresholdWrite, IInv, TypeOK, Device
    <3> QED
      BY <3>1
  <2>2. CASE FinalBiasOff
    BY <2>2, BaseSwitchesBiasOff DEF FinalBiasOff, WriteConfig, Transfer, IInv
  <2>3. CASE BestEffortBiasOff
    BY <2>3, BaseSwitchesBiasOff DEF BestEffortBiasOff, IInv
  <2>4. CASE DecodeRegisters
    BY <2>4 DEF DecodeRegisters, IInv, ControlInv, RegistersInv
  <2>5. CASE Raise \/ Interrupt
    BY <2>5 DEF Raise
  <2>6. CASE EnableBias \/ StartFaultCycle \/ StartConversion
    BY <2>6 DEF EnableBias, StartFaultCycle, StartConversion, WriteConfig, Transfer
  <2>7. CASE SettleBias \/ WaitFaultCycle \/ SettlePostFault \/ WaitConversion
    BY <2>7 DEF SettleBias, WaitFaultCycle, SettlePostFault, WaitConversion, Sleep
  <2>8. CASE ReadRtd \/ ReadFaultStatus
    <3>1. pc' \in {"read_status", "bias_off", "cleanup"}
      BY <2>8 DEF ReadRtd, ReadFaultStatus, Transfer
    <3> QED
      BY <3>1
  <2>9. CASE Begin \/ SensorChanges
    BY <2>9 DEF Begin, SensorChanges
  <2> QED
    BY <2>1, <2>2, <2>3, <2>4, <2>5, <2>6, <2>7, <2>8, <2>9 DEF Next, ReadStep
<1> QED
  BY <1>1, Invariant, PTL DEF Spec, ReadLeavesBiasOff

\* The exception in flight is the one the caller receives.
THEOREM ErrorSurvives == Spec => OriginalErrorSurvives
<1> DEFINE Surviving ==
        failure # None =>
          \/ failure' = failure
          \/ Interrupt
          \/ pc' = "idle" /\ result'.outcome = "error" /\ result'.error = failure
<1>1. IInv /\ [Next]_vars => [Surviving]_vars
  <2> SUFFICES ASSUME IInv, Next, pc \in {"cleanup", "raise"}
               PROVE  Surviving
    BY DEF IInv, ControlInv, FailureInv
  <2>1. CASE BestEffortBiasOff
    BY <2>1 DEF BestEffortBiasOff
  <2>2. CASE Raise
    BY <2>2 DEF Raise, Leave
  <2>3. CASE Interrupt
    BY <2>3
  <2>4. CASE SensorChanges
    BY <2>4 DEF SensorChanges
  <2>5. CASE \/ WriteThresholds \/ EnableBias \/ SettleBias \/ StartFaultCycle
             \/ WaitFaultCycle \/ SettlePostFault \/ StartConversion \/ WaitConversion
             \/ ReadRtd \/ ReadFaultStatus \/ FinalBiasOff \/ DecodeRegisters \/ Begin
    BY <2>5 DEF WriteThresholds, EnableBias, SettleBias, StartFaultCycle, WaitFaultCycle,
                SettlePostFault, StartConversion, WaitConversion, ReadRtd, ReadFaultStatus,
                FinalBiasOff, DecodeRegisters, Begin, WriteConfig, Transfer, Sleep
  <2> QED
    BY <2>1, <2>2, <2>3, <2>4, <2>5 DEF Next, ReadStep
<1> QED
  BY <1>1, Invariant, PTL DEF Spec, OriginalErrorSurvives

\* Only a byte that requests an operation makes its wait necessary.
LEMMA SettlingAdded ==
    ASSUME NEW d, NEW bits
    PROVE  /\ "fault_cycle" \in SettlingAfter(d, bits) => "AUTO_FAULT_CYCLE" \in bits
           /\ "conversion" \in SettlingAfter(d, bits) => "ONE_SHOT" \in bits
  BY DEF SettlingAfter

\* A configuration write that raises or succeeds adds the waits of its byte.
LEMMA WriteAddsWaits ==
    ASSUME TypeOK, NEW operation \in SUBSET OperationBits,
           dev' \in {dev, AfterConfigWrite(dev, sensor, Base \cup operation)}
    PROVE  /\ "fault_cycle" \in dev'.settling \ dev.settling
                => "AUTO_FAULT_CYCLE" \in operation
           /\ "conversion" \in dev'.settling \ dev.settling => "ONE_SHOT" \in operation
<1>1. AfterConfigWrite(dev, sensor, Base \cup operation).settling
        = SettlingAfter(dev, Base \cup operation)
  BY ConfigWriteFields DEF TypeOK
<1>2. "AUTO_FAULT_CYCLE" \notin Base /\ "ONE_SHOT" \notin Base
  BY BaseType DEF Base, StaticBits
<1> QED
  BY <1>1, <1>2, SettlingAdded

\* The fault cycle, the conversion and the reading of its data each find
\* everything they depend on settled, for every history of failed sleeps,
\* aborted reads and foreign configurations.
THEOREM NothingPremature == Spec => NothingIsPremature
<1> DEFINE Settled ==
        /\ "fault_cycle" \in dev'.settling \ dev.settling => dev.settling = {}
        /\ "conversion" \in dev'.settling \ dev.settling => dev.settling = {}
        /\ (pc = "read_rtd" /\ dev' # dev) => dev.settling = {}
<1>1. IInv /\ [Next]_vars => [Settled]_vars
  <2> SUFFICES ASSUME IInv, Next PROVE Settled
    OBVIOUS
  <2>0. pc \in {"fault_cycle", "one_shot", "read_rtd"} => dev.settling = {}
    BY DEF IInv, ControlInv, SettlingInv
  <2>1. ASSUME dev'.settling \subseteq dev.settling PROVE Settled
    BY <2>0, <2>1
  <2>2. CASE StartFaultCycle \/ StartConversion
    BY <2>0, <2>2 DEF StartFaultCycle, StartConversion, WriteConfig, Transfer
  <2>3. CASE EnableBias
    <3>1. dev' \in {dev, AfterConfigWrite(dev, sensor, Base \cup {"BIAS", "CLEAR_FAULTS"})}
      BY <2>3 DEF EnableBias, WriteConfig, Transfer
    <3>2. {"BIAS", "CLEAR_FAULTS"} \in SUBSET OperationBits
      BY DEF OperationBits
    <3>3. /\ "fault_cycle" \notin dev'.settling \ dev.settling
          /\ "conversion" \notin dev'.settling \ dev.settling
      BY <3>1, <3>2, WriteAddsWaits DEF IInv
    <3> QED
      BY <2>0, <3>3
  <2>4. CASE FinalBiasOff \/ BestEffortBiasOff
    <3>1. dev' \in {dev, AfterConfigWrite(dev, sensor, Base \cup {})}
      BY <2>4 DEF FinalBiasOff, BestEffortBiasOff, WriteConfig, Transfer
    <3>2. {} \in SUBSET OperationBits
      OBVIOUS
    <3>3. /\ "fault_cycle" \notin dev'.settling \ dev.settling
          /\ "conversion" \notin dev'.settling \ dev.settling
      BY <3>1, <3>2, WriteAddsWaits DEF IInv
    <3> QED
      BY <2>0, <3>3
  <2>5. CASE SettleBias \/ WaitFaultCycle \/ SettlePostFault \/ WaitConversion
    <3>1. dev'.settling \subseteq dev.settling
      BY <2>5 DEF SettleBias, WaitFaultCycle, SettlePostFault, WaitConversion, Sleep,
                  AfterWait, IInv, TypeOK, Device
    <3> QED
      BY <2>1, <3>1
  <2>6. CASE WriteThresholds \/ ReadRtd
    <3>1. dev'.settling = dev.settling
      BY <2>6 DEF WriteThresholds, ReadRtd, Transfer, AfterThresholdWrite, AfterRtdRead,
                  IInv, TypeOK, Device
    <3> QED
      BY <2>1, <3>1
  <2>7. CASE \/ Begin \/ ReadFaultStatus \/ DecodeRegisters \/ Raise \/ Interrupt
             \/ SensorChanges
    <3>1. dev' = dev
      BY <2>7 DEF Begin, ReadFaultStatus, Transfer, DecodeRegisters, Raise, Interrupt,
                  SensorChanges
    <3> QED
      BY <2>1, <3>1
  <2> QED
    BY <2>2, <2>3, <2>4, <2>5, <2>6, <2>7 DEF Next, ReadStep
<1> QED
  BY <1>1, Invariant, PTL DEF Spec, NothingIsPremature

(***************************************************************************)
(* The driver implements the acquisition contract                          *)
(***************************************************************************)
\* Where the registers and the local variables come from: the current read's
\* own fault cycle and conversion, made while the sensor presented something
\* it has presented since the read began.
CycleIsOwn(faults) == \E s \in seen : faults = s.faults
ConversionIsOwn(converted) == \E s \in seen : converted = s.code

HistoryInv ==
    /\ pc = "idle" => seen = {}
    /\ pc # "idle" => sensor \in seen
    /\ pc \in {"wait_cycle", "settle_post_fault", "one_shot", "wait_conversion",
               "read_rtd", "read_status"} => CycleIsOwn(dev.latched)
    /\ pc \in {"wait_conversion", "read_rtd"} => ConversionIsOwn(dev.data)
    /\ pc \in {"read_status", "bias_off", "decode"} => ConversionIsOwn(RtdCode(rtd))
    /\ pc \in {"bias_off", "decode"} => CycleIsOwn(status)

LEMMA HistoryInit == Init => HistoryInv
  BY DEF Init, HistoryInv

LEMMA HistoryNext == IInv /\ HistoryInv /\ [Next]_vars => HistoryInv'
<1> SUFFICES ASSUME IInv, HistoryInv, [Next]_vars PROVE HistoryInv'
  OBVIOUS
<1>0. TypeOK /\ dev \in Device
  BY DEF IInv, TypeOK
<1>a. ASSUME pc # "idle", pc' \in {"enable_bias", "settle_bias", "fault_cycle", "cleanup", "raise"},
             UNCHANGED <<sensor, seen>>
      PROVE  HistoryInv'
  BY <1>a DEF HistoryInv
<1>b. ASSUME pc' = "idle", seen' = {} PROVE HistoryInv'
  BY <1>b DEF HistoryInv
<1> USE DEF CycleIsOwn, ConversionIsOwn
<1>1. CASE Begin
  BY <1>1 DEF Begin, HistoryInv
<1>2. CASE WriteThresholds
  BY <1>2, <1>a DEF WriteThresholds, Transfer
<1>3. CASE EnableBias
  BY <1>3, <1>a DEF EnableBias, WriteConfig, Transfer
<1>4. CASE SettleBias
  BY <1>4, <1>a DEF SettleBias, Sleep
<1>5. CASE StartFaultCycle
  <2> DEFINE operation == {"BIAS", "AUTO_FAULT_CYCLE"}
  <2>1. CASE pc' = "cleanup"
    BY <1>5, <2>1, <1>a DEF StartFaultCycle, WriteConfig, Transfer
  <2>2. CASE pc' # "cleanup"
    <3>1. /\ pc = "fault_cycle" /\ pc' = "wait_cycle"
          /\ dev' = AfterConfigWrite(dev, sensor, Base \cup operation)
          /\ UNCHANGED <<sensor, seen>>
      BY <1>5, <2>2 DEF StartFaultCycle, WriteConfig, Transfer
    <3>2. dev'.latched = sensor.faults
      BY <1>0, <3>1, ConfigWriteFields
    <3> QED
      BY <3>1, <3>2 DEF HistoryInv
  <2> QED
    BY <2>1, <2>2
<1>6. CASE WaitFaultCycle \/ SettlePostFault
  <2>1. \/ SleepSucceeds("wait_cycle", "fault_cycle", "settle_post_fault")
        \/ SleepSucceeds("settle_post_fault", "post_fault", "one_shot")
        \/ pc # "idle" /\ pc' = "cleanup" /\ UNCHANGED <<sensor, seen>>
    BY <1>0, <1>6, SleepEffect
       DEF WaitFaultCycle, SettlePostFault, Statements, Sleep, StepFails
  <2> QED
    BY <2>1, <1>a DEF SleepSucceeds, HistoryInv
<1>7. CASE StartConversion
  <2> DEFINE operation == {"BIAS", "ONE_SHOT"}
  <2>1. CASE pc' = "cleanup"
    BY <1>7, <2>1, <1>a DEF StartConversion, WriteConfig, Transfer
  <2>2. CASE pc' # "cleanup"
    <3>1. /\ pc = "one_shot" /\ pc' = "wait_conversion"
          /\ dev' = AfterConfigWrite(dev, sensor, Base \cup operation)
          /\ UNCHANGED <<sensor, seen>>
      BY <1>7, <2>2 DEF StartConversion, WriteConfig, Transfer
    <3>2. "AUTO_FAULT_CYCLE" \notin Base \cup operation /\ "CLEAR_FAULTS" \notin Base \cup operation
      BY BaseType DEF Base, StaticBits
    <3>3. dev'.data = sensor.code /\ dev'.latched = dev.latched
      BY <1>0, <3>1, <3>2, ConfigWriteFields
    <3> QED
      BY <3>1, <3>3 DEF HistoryInv
  <2> QED
    BY <2>1, <2>2
<1>8. CASE WaitConversion
  <2>1. \/ SleepSucceeds("wait_conversion", "conversion", "read_rtd")
        \/ pc # "idle" /\ pc' = "cleanup" /\ UNCHANGED <<sensor, seen>>
    BY <1>0, <1>8, SleepEffect DEF WaitConversion, Statements, Sleep, StepFails
  <2> QED
    BY <2>1, <1>a DEF SleepSucceeds, HistoryInv
<1>9. CASE ReadRtd
  <2>1. CASE pc' = "cleanup"
    BY <1>9, <2>1, <1>a DEF ReadRtd, Transfer
  <2>2. CASE pc' # "cleanup"
    <3>1. /\ pc = "read_rtd" /\ dev' = AfterRtdRead(dev)
          /\ pc' = IF RtdFlag(RtdRegister(dev)) = 1 THEN "read_status" ELSE "bias_off"
          /\ rtd' = RtdRegister(dev) /\ status' = {}
          /\ UNCHANGED <<sensor, seen>>
      BY <1>9, <2>2 DEF ReadRtd, Transfer
    <3>2. dev'.latched = dev.latched
      BY <1>0, <3>1 DEF AfterRtdRead, Device
    <3>3. RtdCode(rtd') = dev.data
      BY <1>0, <3>1, RtdRegisterParts
    <3>4. pc' = "bias_off" => dev.latched = {}
      BY <1>0, <3>1, RtdRegisterParts
    <3> QED
      BY <3>1, <3>2, <3>3, <3>4 DEF HistoryInv
  <2> QED
    BY <2>1, <2>2
<1>10. CASE ReadFaultStatus
  <2>1. CASE pc' = "cleanup"
    BY <1>10, <2>1, <1>a DEF ReadFaultStatus, Transfer
  <2>2. CASE pc' # "cleanup"
    BY <1>10, <2>2 DEF ReadFaultStatus, Transfer, FaultStatusRegister, HistoryInv
  <2> QED
    BY <2>1, <2>2
<1>11. CASE FinalBiasOff
  <2>1. CASE pc' = "raise"
    BY <1>11, <2>1, <1>a DEF FinalBiasOff, WriteConfig, Transfer
  <2>2. CASE pc' # "raise"
    <3>1. pc = "bias_off" /\ pc' = "decode" /\ UNCHANGED <<sensor, seen, rtd, status>>
      BY <1>11, <2>2 DEF FinalBiasOff, WriteConfig, Transfer
    <3> QED
      BY <3>1 DEF HistoryInv
  <2> QED
    BY <2>1, <2>2
<1>12. CASE DecodeRegisters \/ Raise \/ Interrupt
  BY <1>12, <1>b DEF DecodeRegisters, Raise, Interrupt, Leave
<1>13. CASE BestEffortBiasOff
  BY <1>13, <1>a DEF BestEffortBiasOff
<1>14. CASE SensorChanges
  BY <1>14 DEF SensorChanges, HistoryInv
<1>15. CASE UNCHANGED vars
  BY <1>15 DEF vars, HistoryInv
<1> QED
  BY <1>1, <1>2, <1>3, <1>4, <1>5, <1>6, <1>7, <1>8, <1>9, <1>10, <1>11, <1>12, <1>13,
     <1>14, <1>15 DEF Next, ReadStep

LEMMA History == Spec => []HistoryInv
<1>1. IInv /\ HistoryInv /\ [Next]_vars => HistoryInv'
  BY HistoryNext
<1> QED
  BY <1>1, HistoryInit, Invariant, PTL DEF Spec

\* Between its beginning and its end, a read does nothing to the contract but
\* switch the excitation.
LEMMA InteriorStep ==
    ASSUME pc # "idle", pc' # "idle", UNCHANGED <<sensor, config, result, seen>>
    PROVE  Promise!SwitchBias
<1>1. ("BIAS" \in dev'.config) \in BOOLEAN
  OBVIOUS
<1> QED
  BY <1>1 DEF Promise!SwitchBias

\* What the driver decodes is a reading in the sense of the contract.
LEMMA DecodedReading ==
    ASSUME HistoryInv, pc = "decode"
    PROVE  \E conversion, cycle \in seen :
             Decode(config, rtd, status) = Promise!Reading(conversion, cycle)
<1>1. PICK conversion \in seen : RtdCode(rtd) = conversion.code
  BY DEF HistoryInv, ConversionIsOwn
<1>2. PICK cycle \in seen : status = cycle.faults
  BY DEF HistoryInv, CycleIsOwn
<1>3. HasFault(status) <=> ~(cycle.faults \subseteq WarningBits)
  BY <1>2 DEF HasFault
<1> QED
  BY <1>1, <1>2, <1>3 DEF Decode, NoResistance, WarningBits,
                          Promise!Reading, Promise!NoResistance, Promise!WarningBits

\* Every behaviour of the driver is one the acquisition contract allows: a
\* measurement is delivered only with the excitation off, and describes what
\* the sensor presented during that very read.
THEOREM Implements == Spec => ImplementsAcquisitionDevice
<1>1. Init => Promise!Init
  <2> SUFFICES ASSUME Init PROVE Promise!Init
    OBVIOUS
  <2>1. result.measurement \in [resistance : Int, diagnostics : SUBSET FaultBits]
    BY TypeInit DEF TypeOK
  <2>2. ("BIAS" \in dev.config) \in BOOLEAN
    OBVIOUS
  <2> QED
    BY <2>1, <2>2 DEF Init, Promise!Init, Promise!Measurements
<1>2. IInv /\ HistoryInv /\ [Next]_vars => [Promise!Next]_(Promise!vars)
  <2> SUFFICES ASSUME IInv, HistoryInv, [Next]_vars
               PROVE  Promise!Next \/ UNCHANGED Promise!vars
    OBVIOUS
  <2>0. result \in [outcome : Outcomes, error : Statements \cup {None},
                    measurement : [resistance : Int, diagnostics : SUBSET FaultBits]]
    BY DEF IInv, TypeOK
  <2>1. CASE Begin
    BY <2>0, <2>1 DEF Begin, Promise!Begin, Promise!Next
  <2>2. CASE \/ WriteThresholds \/ EnableBias \/ SettleBias \/ StartFaultCycle
             \/ WaitFaultCycle \/ SettlePostFault \/ StartConversion \/ WaitConversion
             \/ FinalBiasOff \/ BestEffortBiasOff
    <3>1. pc # "idle" /\ pc' # "idle" /\ UNCHANGED <<sensor, config, result, seen>>
      BY <2>2 DEF WriteThresholds, EnableBias, SettleBias, StartFaultCycle, WaitFaultCycle,
                  SettlePostFault, StartConversion, WaitConversion, FinalBiasOff,
                  BestEffortBiasOff, WriteConfig, Transfer, Sleep
    <3> QED
      BY <3>1, InteriorStep DEF Promise!Next
  <2>3. CASE ReadRtd \/ ReadFaultStatus
    <3>1. pc # "idle" /\ UNCHANGED <<sensor, config, result, seen>>
      BY <2>3 DEF ReadRtd, ReadFaultStatus, Transfer
    <3>2. pc' \in {"read_status", "bias_off", "cleanup"}
      BY <2>3 DEF ReadRtd, ReadFaultStatus, Transfer
    <3> QED
      BY <3>1, <3>2, InteriorStep DEF Promise!Next
  <2>4. CASE DecodeRegisters
    <3> DEFINE m == Decode(config, rtd, status)
    <3>1. pc = "decode" /\ pc' = "idle" /\ seen' = {} /\ UNCHANGED <<dev, sensor, config>>
      BY <2>4 DEF DecodeRegisters, Leave
    <3>2. CASE MeasurementIsValid(m)
      <4>1. result'.measurement = m /\ result'.outcome = "measurement"
        BY <2>4, <3>2 DEF DecodeRegisters, Leave
      <4>2. "BIAS" \notin dev.config
        BY <3>1 DEF IInv, ControlInv, RegistersInv
      <4>3. \E conversion, cycle \in seen : m = Promise!Reading(conversion, cycle)
        BY <3>1, DecodedReading
      <4> QED
        BY <3>1, <4>1, <4>2, <4>3 DEF Promise!Deliver, Promise!Next
    <3>3. CASE ~MeasurementIsValid(m)
      <4>1. result'.measurement = result.measurement /\ result'.outcome = "error"
        BY <2>4, <3>3 DEF DecodeRegisters, Leave
      <4> QED
        BY <3>1, <4>1 DEF Promise!Fail, Promise!Next
    <3> QED
      BY <3>2, <3>3
  <2>5. CASE Raise \/ Interrupt
    <3>1. /\ pc # "idle" /\ pc' = "idle" /\ seen' = {} /\ UNCHANGED <<dev, sensor, config>>
          /\ result'.measurement = result.measurement
          /\ result'.outcome \in {"error", "interrupted"}
      BY <2>5 DEF Raise, Interrupt, Leave
    <3> QED
      BY <3>1 DEF Promise!Fail, Promise!Next
  <2>6. CASE SensorChanges
    BY <2>6 DEF SensorChanges, Promise!SensorChanges, Promise!Next
  <2>7. CASE UNCHANGED vars
    BY <2>7 DEF vars, Promise!vars
  <2> QED
    BY <2>1, <2>2, <2>3, <2>4, <2>5, <2>6, <2>7 DEF Next, ReadStep
<1> QED
  BY <1>1, <1>2, Invariant, History, PTL
     DEF Spec, ImplementsAcquisitionDevice, Promise!Spec
=============================================================================
