----------------------- MODULE MAX31865CDriver_proofs -----------------------
(***************************************************************************)
(* Theorems about the C driver, for every set of configurations, sensors   *)
(* and capacities.  The important one is that it implements the Python     *)
(* driver: with it, what is proved of that driver holds of this one.       *)
(***************************************************************************)
EXTENDS MAX31865CDriver, MAX31865Device_proofs, FiniteSetTheorems, TLAPS

(***************************************************************************)
(* Type correctness                                                        *)
(***************************************************************************)
\* Every byte that the function writes is a configuration byte.
LEMMA BytesType ==
    /\ Base \in ConfigByte
    /\ Base \cup {"BIAS", "CLEAR_FAULTS"} \in ConfigByte
    /\ Base \cup {"BIAS", "AUTO_FAULT_CYCLE"} \in ConfigByte
    /\ Base \cup {"BIAS", "ONE_SHOT"} \in ConfigByte
  BY BaseType DEF Base, ConfigByte, OperationBits

LEMMA WriteConfigType ==
    ASSUME TypeOK,
           NEW at \in Steps, NEW bits \in ConfigByte,
           NEW next \in Steps, NEW handler \in Steps,
           WriteConfig(at, bits, next, handler)
    PROVE  TypeOK'
<1>1. dev' \in Device
  BY ConfigWriteType DEF TypeOK, WriteConfig, Transfer
<1>2. pc' \in Steps /\ cause' \in Steps \cup {None} /\ code' \in {"OK", "SPI_IO_ERROR", "DELAY_ERROR"}
  BY DEF TypeOK, WriteConfig, Transfer
<1> QED
  BY <1>1, <1>2 DEF TypeOK, WriteConfig

LEMMA DelayType ==
    ASSUME TypeOK,
           NEW at \in Steps, NEW wait, NEW next \in Steps,
           Delay(at, wait, next)
    PROVE  TypeOK'
<1>1. dev' \in Device
  BY DEF TypeOK, Delay, AfterWait, Device
<1>2. pc' \in Steps /\ cause' \in Steps \cup {None} /\ code' \in {"OK", "SPI_IO_ERROR", "DELAY_ERROR"}
  BY DEF TypeOK, Delay, Steps
<1> QED
  BY <1>1, <1>2 DEF TypeOK, Delay

LEMMA ReturnType ==
    ASSUME TypeOK, NEW r \in Results, Return(r), storage' \in Storage,
           UNCHANGED <<dev, sensor, config, refusal, cause>>
    PROVE  TypeOK'
<1>1. rtd' \in 0 .. 2 * MaxAdcCode + 1
  BY DEF Return, MaxAdcCode, AdcScale
<1> QED
  BY <1>1 DEF TypeOK, Return

\* What the decoder makes of the caller's storage: the capacities stay, the
\* rest is the decoded measurement.
LEMMA FillFields ==
    ASSUME NEW m \in Storage, NEW r, NEW faults
    PROVE  /\ Fill(m, r, faults).diagnosticCapacity = m.diagnosticCapacity
           /\ Fill(m, r, faults).evidenceCapacity = m.evidenceCapacity
           /\ ~Fill(m, r, faults).uncertain
           /\ Fill(m, r, faults).resistance = Decode(config, r, faults).resistance
           /\ Fill(m, r, faults).diagnostics = faults
  BY DEF Fill, Reset, Storage, Decode

LEMMA FillType ==
    ASSUME TypeOK
    PROVE  Fill(storage, rtd, status) \in Storage
<1>1. rtd \in Nat
  <2>1. rtd \in 0 .. 2 * MaxAdcCode + 1
    BY DEF TypeOK
  <2> QED
    BY <2>1 DEF MaxAdcCode, AdcScale
<1>2. Decode(config, rtd, status) \in [resistance : Int, diagnostics : SUBSET FaultBits]
  BY <1>1, DecodeType DEF TypeOK
<1> QED
  BY <1>2 DEF TypeOK, Storage, Fill, Reset

LEMMA TypeInit == Init => TypeOK
<1> SUFFICES ASSUME Init PROVE TypeOK
  OBVIOUS
<1>1. dev \in Device
  BY InitialDevicesType DEF Init
<1>2. rtd \in 0 .. 2 * MaxAdcCode + 1
  BY DEF Init, MaxAdcCode, AdcScale
<1>3. storage \in Storage
  BY DEF Init, Storage, NoResistance
<1> QED
  BY <1>1, <1>2, <1>3 DEF Init, TypeOK, None

LEMMA TypeNext == TypeOK /\ [Next]_vars => TypeOK'
<1> SUFFICES ASSUME TypeOK, [Next]_vars PROVE TypeOK'
  OBVIOUS
<1> USE BytesType
<1>1. CASE RefuseArguments
  <2>1. \A defects \in (SUBSET Defects) \ {{}} :
            ArgumentResult(defects) \in {"INVALID_ARGUMENT", "CONFIGURATION_ERROR"}
    BY DEF ArgumentResult
  <2>2. refusal' \in {"INVALID_ARGUMENT", "CONFIGURATION_ERROR"}
    BY <1>1, <2>1 DEF RefuseArguments
  <2> QED
    BY <1>1, <2>2 DEF TypeOK, RefuseArguments
<1>2. CASE Begin
  BY <1>2 DEF TypeOK, Begin, Steps, None
<1>3. CASE WriteThresholds
  <2>1. HighThresholdRegister(config) \in Int /\ LowThresholdRegister(config) \in Int
    BY ThresholdRegistersType DEF TypeOK
  <2>2. dev' \in Device
    BY <1>3, <2>1 DEF TypeOK, WriteThresholds, Transfer, AfterThresholdWrite, Device
  <2> QED
    BY <1>3, <2>2 DEF TypeOK, WriteThresholds, Transfer, Steps
<1>4. CASE EnableBias
  BY <1>4, WriteConfigType DEF EnableBias, Steps
<1>5. CASE SettleBias
  BY <1>5, DelayType DEF SettleBias, Steps
<1>6. CASE StartFaultCycle
  BY <1>6, WriteConfigType DEF StartFaultCycle, Steps
<1>7. CASE WaitFaultCycle
  BY <1>7, DelayType DEF WaitFaultCycle, Steps
<1>8. CASE SettlePostFault
  BY <1>8, DelayType DEF SettlePostFault, Steps
<1>9. CASE StartConversion
  BY <1>9, WriteConfigType DEF StartConversion, Steps
<1>10. CASE WaitConversion
  BY <1>10, DelayType DEF WaitConversion, Steps
<1>11. CASE ReadRtd
  <2>1. dev' \in Device
    BY <1>11 DEF TypeOK, ReadRtd, Transfer, AfterRtdRead, Device
  <2>2. rtd' \in 0 .. 2 * MaxAdcCode + 1
    BY <1>11, RtdRegisterParts DEF TypeOK, ReadRtd
  <2>3. /\ pc' \in Steps /\ cause' \in Steps \cup {None}
        /\ code' \in {"OK", "SPI_IO_ERROR", "DELAY_ERROR"}
    BY <1>11 DEF TypeOK, ReadRtd, Transfer, Steps
  <2> QED
    BY <1>11, <2>1, <2>2, <2>3 DEF TypeOK, ReadRtd
<1>12. CASE ReadFaultStatus
  <2>1. dev' \in Device /\ FaultStatusRegister(dev) \in SUBSET FaultBits
    BY <1>12 DEF TypeOK, ReadFaultStatus, Transfer, FaultStatusRegister, Device
  <2> QED
    BY <1>12, <2>1 DEF TypeOK, ReadFaultStatus, Transfer, Steps
<1>13. CASE FinalBiasOff
  BY <1>13, WriteConfigType DEF FinalBiasOff, Steps
<1>14. CASE BestEffortBiasOff
  <2>1. dev' \in Device
    BY <1>14, ConfigWriteType DEF TypeOK, BestEffortBiasOff
  <2> QED
    BY <1>14, <2>1 DEF TypeOK, BestEffortBiasOff, Steps
<1>15. CASE ReturnError
  BY <1>15, ReturnType DEF ReturnError, TypeOK, Results
<1>16. CASE DecodeRegisters
  BY <1>16, FillType, ReturnType DEF DecodeRegisters, TypeOK, Results
<1>17. CASE SensorChanges
  BY <1>17 DEF TypeOK, SensorChanges
<1>18. CASE UNCHANGED vars
  BY <1>18 DEF TypeOK, vars
<1> QED
  BY <1>1, <1>2, <1>3, <1>4, <1>5, <1>6, <1>7, <1>8, <1>9, <1>10, <1>11, <1>12, <1>13,
     <1>14, <1>15, <1>16, <1>17, <1>18 DEF Next, ReadStep

\* The state of the function, of the device and of the caller's storage stays
\* well-typed, whatever fails.
THEOREM TypeCorrect == Spec => []TypeOK
  BY TypeInit, TypeNext, PTL DEF Spec

(***************************************************************************)
(* The inductive invariant: which local variables carry something at which *)
(* step, and what the caller was last told.                                *)
(***************************************************************************)
\* The fault status is read once, and an error code is the one of the step
\* that failed, from the failure to the return.
LocalsInv ==
    /\ status # {} => pc \in {"bias_off", "decode", "return"}
    /\ IF pc \in {"cleanup", "return"} THEN cause \in Steps /\ code = ErrorOf(cause)
                                       ELSE code = "OK"
    /\ pc # "idle" => returned = None

\* When there is nothing left but to decode, the bias is off.
BiasInv == pc = "decode" => "BIAS" \notin dev.config

IInv == TypeOK /\ LocalsInv /\ BiasInv

\* A transfer succeeds and owes nothing to its failure path, or fails with
\* its error code.
LEMMA TransferLocals ==
    ASSUME LocalsInv, NEW at \in Steps \ {"cleanup", "return"}, NEW accepted, NEW after,
           NEW next \in Steps \ {"cleanup", "return"}, NEW handler \in {"cleanup", "return"},
           ErrorOf(at) = "SPI_IO_ERROR", Transfer(at, accepted, after, next, handler)
    PROVE  /\ pc = at /\ pc' \in {next, handler}
           /\ pc' = next => code' = "OK"
           /\ pc' = handler => cause' = at /\ code' = ErrorOf(cause')
  BY DEF Transfer, LocalsInv

LEMMA WriteConfigLocals ==
    ASSUME LocalsInv, NEW at \in Steps \ {"cleanup", "return"}, NEW bits,
           NEW next \in Steps \ {"cleanup", "return"}, NEW handler \in {"cleanup", "return"},
           ErrorOf(at) = "SPI_IO_ERROR", WriteConfig(at, bits, next, handler),
           status # {} => next \in {"bias_off", "decode"} /\ handler = "return"
    PROVE  LocalsInv'
<1>1. /\ pc = at /\ pc' \in {next, handler}
      /\ pc' = next => code' = "OK"
      /\ pc' = handler => cause' = at /\ code' = ErrorOf(cause')
  BY TransferLocals DEF WriteConfig
<1>2. pc # "idle" /\ pc' # "idle" /\ UNCHANGED <<status, returned>>
  BY <1>1 DEF WriteConfig, Steps
<1> QED
  BY <1>1, <1>2 DEF LocalsInv

LEMMA DelayLocals ==
    ASSUME LocalsInv, NEW at \in DelaySteps, NEW wait,
           NEW next \in Steps \ {"cleanup", "return"}, Delay(at, wait, next)
    PROVE  LocalsInv'
<1>1. at \in Steps /\ at \notin {"cleanup", "return", "bias_off", "decode", "idle"}
  BY DEF DelaySteps, Steps
<1>2. pc = at /\ pc' \in {next, "cleanup"} /\ UNCHANGED <<status, returned>>
  BY DEF Delay
<1>3. pc # "idle" /\ pc' # "idle"
  BY <1>1, <1>2 DEF Steps
<1>4. status = {} /\ code = "OK" /\ returned = None
  BY <1>1, <1>2, <1>3 DEF LocalsInv
<1>5. CASE pc' = next
  BY <1>1, <1>2, <1>3, <1>4, <1>5 DEF LocalsInv, Delay
<1>6. CASE pc' # next
  BY <1>1, <1>2, <1>3, <1>4, <1>6 DEF LocalsInv, Delay, ErrorOf
<1> QED
  BY <1>5, <1>6

\* Returning leaves no local variable behind.
LEMMA ReturnLocals ==
    ASSUME NEW r, Return(r)
    PROVE  LocalsInv'
  BY DEF Return, LocalsInv

LEMMA LocalsNext == TypeOK /\ LocalsInv /\ [Next]_vars => LocalsInv'
<1> SUFFICES ASSUME TypeOK, LocalsInv, [Next]_vars PROVE LocalsInv'
  OBVIOUS
<1> USE DEF Steps, DelaySteps, ErrorOf
<1>1. CASE RefuseArguments
  BY <1>1 DEF RefuseArguments, LocalsInv
<1>2. CASE Begin
  BY <1>2 DEF Begin, LocalsInv, None
<1>3. CASE WriteThresholds
  <2>1. /\ pc = "thresholds" /\ pc' \in {"enable_bias", "return"}
        /\ pc' = "enable_bias" => code' = "OK"
        /\ pc' = "return" => cause' = "thresholds" /\ code' = ErrorOf(cause')
    BY <1>3, TransferLocals DEF WriteThresholds
  <2> QED
    BY <1>3, <2>1 DEF WriteThresholds, LocalsInv
<1>4. CASE EnableBias
  <2>1. status = {}
    BY <1>4 DEF EnableBias, WriteConfig, Transfer, LocalsInv
  <2> QED
    BY <1>4, <2>1, WriteConfigLocals DEF EnableBias
<1>5. CASE SettleBias
  BY <1>5, DelayLocals DEF SettleBias
<1>6. CASE StartFaultCycle
  <2>1. status = {}
    BY <1>6 DEF StartFaultCycle, WriteConfig, Transfer, LocalsInv
  <2> QED
    BY <1>6, <2>1, WriteConfigLocals DEF StartFaultCycle
<1>7. CASE WaitFaultCycle
  BY <1>7, DelayLocals DEF WaitFaultCycle
<1>8. CASE SettlePostFault
  BY <1>8, DelayLocals DEF SettlePostFault
<1>9. CASE StartConversion
  <2>1. status = {}
    BY <1>9 DEF StartConversion, WriteConfig, Transfer, LocalsInv
  <2> QED
    BY <1>9, <2>1, WriteConfigLocals DEF StartConversion
<1>10. CASE WaitConversion
  BY <1>10, DelayLocals DEF WaitConversion
<1>11. CASE ReadRtd
  <2>1. /\ pc = "read_rtd" /\ pc' \in {"read_status", "bias_off", "cleanup"}
        /\ pc' # "cleanup" => code' = "OK"
        /\ pc' = "cleanup" => cause' = "read_rtd" /\ code' = "SPI_IO_ERROR"
    BY <1>11 DEF ReadRtd, Transfer, LocalsInv
  <2> QED
    BY <1>11, <2>1 DEF ReadRtd, LocalsInv
<1>12. CASE ReadFaultStatus
  <2>1. /\ pc = "read_status" /\ pc' \in {"bias_off", "cleanup"}
        /\ pc' # "cleanup" => code' = "OK"
        /\ pc' = "cleanup" => cause' = "read_status" /\ code' = "SPI_IO_ERROR"
    BY <1>12 DEF ReadFaultStatus, Transfer, LocalsInv
  <2>2. pc' = "cleanup" => status' = {}
    BY <1>12, <2>1 DEF ReadFaultStatus, LocalsInv
  <2> QED
    BY <1>12, <2>1, <2>2 DEF ReadFaultStatus, LocalsInv
<1>13. CASE FinalBiasOff
  BY <1>13, WriteConfigLocals DEF FinalBiasOff
<1>14. CASE BestEffortBiasOff
  BY <1>14 DEF BestEffortBiasOff, LocalsInv
<1>15. CASE ReturnError \/ DecodeRegisters
  BY <1>15, ReturnLocals DEF ReturnError, DecodeRegisters
<1>16. CASE SensorChanges
  BY <1>16 DEF SensorChanges, LocalsInv
<1>17. CASE UNCHANGED vars
  BY <1>17 DEF vars, LocalsInv
<1> QED
  BY <1>1, <1>2, <1>3, <1>4, <1>5, <1>6, <1>7, <1>8, <1>9, <1>10, <1>11, <1>12, <1>13,
     <1>14, <1>15, <1>16, <1>17 DEF Next, ReadStep

LEMMA BiasNext == TypeOK /\ BiasInv /\ [Next]_vars => BiasInv'
<1> SUFFICES ASSUME TypeOK, BiasInv, [Next]_vars, pc' = "decode"
             PROVE  "BIAS" \notin dev'.config
  BY DEF BiasInv
<1>1. CASE FinalBiasOff
  <2>1. dev' = AfterConfigWrite(dev, sensor, Base)
    BY <1>1 DEF FinalBiasOff, WriteConfig, Transfer
  <2>2. dev'.config = Base
    BY <2>1, ConfigWriteFields DEF TypeOK
  <2> QED
    BY <2>2, BaseType DEF Base, StaticBits
<1>2. CASE RefuseArguments \/ SensorChanges \/ UNCHANGED vars
  BY <1>2 DEF RefuseArguments, SensorChanges, vars, BiasInv
<1>3. CASE \/ Begin \/ WriteThresholds \/ EnableBias \/ SettleBias \/ StartFaultCycle
           \/ WaitFaultCycle \/ SettlePostFault \/ StartConversion \/ WaitConversion
           \/ ReadRtd \/ ReadFaultStatus \/ BestEffortBiasOff \/ ReturnError \/ DecodeRegisters
  <2>1. pc' # "decode"
    BY <1>3 DEF Begin, WriteThresholds, EnableBias, SettleBias, StartFaultCycle,
                WaitFaultCycle, SettlePostFault, StartConversion, WaitConversion, ReadRtd,
                ReadFaultStatus, BestEffortBiasOff, ReturnError, DecodeRegisters,
                WriteConfig, Transfer, Delay, Return
  <2> QED
    BY <2>1
<1> QED
  BY <1>1, <1>2, <1>3 DEF Next, ReadStep

LEMMA Invariant == Spec => []IInv
<1>1. Init => IInv
  BY TypeInit DEF Init, IInv, LocalsInv, BiasInv
<1>2. IInv /\ [Next]_vars => IInv'
  BY TypeNext, LocalsNext, BiasNext DEF IInv
<1> QED
  BY <1>1, <1>2, PTL DEF Spec

(***************************************************************************)
(* The caller's storage                                                    *)
(***************************************************************************)
LEMMA OneMore ==
    ASSUME NEW S, IsFiniteSet(S), NEW n \in Nat, Cardinality(S) <= n, NEW x
    PROVE  IsFiniteSet(S \cup {x}) /\ Cardinality(S \cup {x}) <= n + 1
<1> DEFINE before == Cardinality(S)
           after  == Cardinality(S \cup {x})
<1>1. before \in Nat
  BY FS_CardinalityType
<1>2. IsFiniteSet(S \cup {x}) /\ (after = before \/ after = before + 1)
  BY FS_AddElement
<1>3. before <= n
  OBVIOUS
<1> HIDE DEF before, after
<1>4. after <= n + 1
  BY <1>1, <1>2, <1>3
<1> QED
  BY <1>2, <1>4 DEF after

\* There are six fault bits.
LEMMA SixDiagnostics ==
    ASSUME NEW faults \in SUBSET FaultBits
    PROVE  Cardinality(faults) \in 0 .. 6
<1> DEFINE Few(S, n) == IsFiniteSet(S) /\ Cardinality(S) <= n
<1>1. Few({"D7"}, 1)
  BY FS_Singleton
<1>2. \A S : \A n \in Nat : \A x : Few(S, n) => Few(S \cup {x}, n + 1)
  BY OneMore
<1> HIDE DEF Few
<1>3. Few(FaultBits, 6)
  <2> DEFINE S2 == {"D7"} \cup {"D6"}
             S3 == S2 \cup {"D5"}
             S4 == S3 \cup {"D4"}
             S5 == S4 \cup {"D3"}
             S6 == S5 \cup {"D2"}
  <2>1. S6 = FaultBits
    BY DEF FaultBits
  <2> HIDE DEF S6
  <2>2. Few(S5, 5) => Few(S6, 5 + 1)
    BY <1>2 DEF S6
  <2> HIDE DEF S5
  <2>3. Few(S4, 4) => Few(S5, 4 + 1)
    BY <1>2 DEF S5
  <2> HIDE DEF S4
  <2>4. Few(S3, 3) => Few(S4, 3 + 1)
    BY <1>2 DEF S4
  <2> HIDE DEF S3
  <2>5. Few(S2, 2) => Few(S3, 2 + 1)
    BY <1>2 DEF S3
  <2>6. Few(S2, 1 + 1)
    BY <1>1, <1>2
  <2> HIDE DEF S2
  <2> QED
    BY <2>1, <2>2, <2>3, <2>4, <2>5, <2>6
<1> DEFINE size == Cardinality(faults)
           all  == Cardinality(FaultBits)
<1>4. IsFiniteSet(faults) /\ size <= all
  BY <1>3, FS_Subset DEF Few
<1>5. all <= 6
  BY <1>3 DEF Few
<1>6. size \in Nat /\ all \in Nat
  BY <1>3, <1>4, FS_CardinalityType DEF Few
<1> HIDE DEF size, all
<1>7. size \in 0 .. 6
  BY <1>4, <1>5, <1>6
<1> QED
  BY <1>7 DEF size

\* What is decoded into storage that suffices is what validation accepts: the
\* function never reports an internal error.
LEMMA DecodedIsValid ==
    ASSUME TypeOK, StorageSuffices(storage, Cardinality(status))
    PROVE  StorageIsValid(Fill(storage, rtd, status)) /\ ~Fill(storage, rtd, status).uncertain
<1> DEFINE filled == Fill(storage, rtd, status)
<1>1. /\ filled.diagnosticCapacity = storage.diagnosticCapacity
      /\ filled.evidenceCapacity = storage.evidenceCapacity
      /\ ~filled.uncertain /\ filled.diagnostics = status
      /\ filled.resistance = Decode(config, rtd, status).resistance
  <2>1. storage \in Storage
    BY DEF TypeOK
  <2> QED
    BY <2>1, FillFields
<1>2. RtdCode(rtd) * config.reference \in Nat
  <2>1. rtd \in Nat
    <3>1. rtd \in 0 .. 2 * MaxAdcCode + 1
      BY DEF TypeOK
    <3> QED
      BY <3>1 DEF MaxAdcCode, AdcScale
  <2>2. RtdCode(rtd) \in Nat
    BY <2>1 DEF RtdCode
  <2>3. config.reference \in Nat
    BY ConfigType DEF TypeOK
  <2> QED
    BY <2>2, <2>3
<1> HIDE DEF filled
<1>3. StorageSuffices(filled, Cardinality(filled.diagnostics))
  <2> DEFINE required == Cardinality(status)
  <2>1. StorageSuffices(storage, required)
    OBVIOUS
  <2>2. Cardinality(filled.diagnostics) = required
    BY <1>1
  <2> HIDE DEF required
  <2>3. StorageSuffices(filled, required)
    BY <1>1, <2>1 DEF StorageSuffices
  <2> QED
    BY <2>2, <2>3
<1>4. /\ filled.resistance # NoResistance => filled.resistance >= 0
      /\ IF HasFault(filled.diagnostics) THEN filled.resistance = NoResistance /\ ~filled.uncertain
                                         ELSE filled.resistance # NoResistance
  <2>1. CASE HasFault(status)
    BY <1>1, <2>1 DEF Decode
  <2>2. CASE ~HasFault(status)
    BY <1>1, <1>2, <2>2 DEF Decode, NoResistance
  <2> QED
    BY <2>1, <2>2
<1>5. StorageIsValid(filled) /\ ~filled.uncertain
  BY <1>1, <1>3, <1>4, Zenon DEF StorageIsValid
<1> QED
  BY <1>5 DEF filled

\* A successful call returns a measurement that meets the contract of core.h,
\* with nothing left of an earlier use of the storage, and six diagnostics and
\* six evidence items always suffice.
THEOREM StorageIsKept == Spec => []StorageContract
<1>1. Init => StorageContract
  BY DEF Init, StorageContract, None
<1>2. IInv /\ StorageContract /\ [Next]_vars => StorageContract'
  <2> SUFFICES ASSUME IInv, StorageContract, [Next]_vars PROVE StorageContract'
    OBVIOUS
  <2>0. TypeOK
    BY DEF IInv
  <2>1. CASE DecodeRegisters
    <3>1. CASE ~StorageSuffices(storage, Cardinality(status))
      <4>1. storage' = storage /\ returned' = "INSUFFICIENT_STORAGE"
        BY <2>1, <3>1 DEF DecodeRegisters, Return
      <4>2. Cardinality(status) \in 0 .. 6
        BY <2>0, SixDiagnostics DEF TypeOK
      <4>3. storage.diagnosticCapacity \in Nat /\ storage.evidenceCapacity \in Nat
        BY <2>0, CapacitiesAssumption DEF TypeOK, Storage
      <4>4. storage.diagnosticCapacity < 6 \/ storage.evidenceCapacity < 6
        BY <3>1, <4>2, <4>3 DEF StorageSuffices
      <4> QED
        BY <4>1, <4>4 DEF StorageContract
    <3>2. CASE StorageSuffices(storage, Cardinality(status))
      <4>1. storage' = Fill(storage, rtd, status) /\ returned' = "OK"
        BY <2>0, <2>1, <3>2, DecodedIsValid DEF DecodeRegisters, Return
      <4>2. StorageIsValid(storage') /\ ~storage'.uncertain
        BY <2>0, <3>2, <4>1, DecodedIsValid
      <4> QED
        BY <4>1, <4>2 DEF StorageContract, StorageIsValid, StorageSuffices, HasFault
    <3> QED
      BY <3>1, <3>2
  <2>2. CASE ReturnError
    <3>1. storage' = storage /\ returned' \notin {"OK", "INSUFFICIENT_STORAGE"}
      BY <2>2 DEF ReturnError, Return, IInv, LocalsInv, ErrorOf
    <3> QED
      BY <3>1 DEF StorageContract
  <2>3. CASE Begin
    BY <2>3 DEF Begin, StorageContract, None
  <2>4. CASE \/ RefuseArguments \/ WriteThresholds \/ EnableBias \/ SettleBias
             \/ StartFaultCycle \/ WaitFaultCycle \/ SettlePostFault \/ StartConversion
             \/ WaitConversion \/ ReadRtd \/ ReadFaultStatus \/ FinalBiasOff
             \/ BestEffortBiasOff \/ SensorChanges \/ UNCHANGED vars
    <3>1. UNCHANGED <<storage, returned>>
      BY <2>4 DEF RefuseArguments, WriteThresholds, EnableBias, SettleBias, StartFaultCycle,
                  WaitFaultCycle, SettlePostFault, StartConversion, WaitConversion, ReadRtd,
                  ReadFaultStatus, FinalBiasOff, BestEffortBiasOff, SensorChanges, vars,
                  WriteConfig, Delay
    <3> QED
      BY <3>1 DEF StorageContract, StorageIsValid, StorageSuffices
  <2> QED
    BY <2>1, <2>2, <2>3, <2>4 DEF Next, ReadStep
<1> QED
  BY <1>1, <1>2, Invariant, PTL DEF Spec

\* The caller's storage is modified by successful calls only, when the device
\* has been left alone and its bias is off.
THEOREM ModifiedLast == Spec => StorageIsModifiedLast
<1>1. IInv /\ [Next]_vars
        => [storage' # storage => returned' = "OK" /\ "BIAS" \notin dev.config]_vars
  <2> SUFFICES ASSUME IInv, [Next]_vars, storage' # storage
               PROVE  returned' = "OK" /\ "BIAS" \notin dev.config
    BY DEF vars
  <2>1. DecodeRegisters
    BY DEF Next, ReadStep, RefuseArguments, Begin, WriteThresholds, EnableBias, SettleBias,
           StartFaultCycle, WaitFaultCycle, SettlePostFault, StartConversion, WaitConversion,
           ReadRtd, ReadFaultStatus, FinalBiasOff, BestEffortBiasOff, ReturnError,
           SensorChanges, vars, WriteConfig, Delay
  <2>2. StorageSuffices(storage, Cardinality(status))
    BY <2>1 DEF DecodeRegisters
  <2>3. returned' = "OK"
    BY <2>1, <2>2, DecodedIsValid DEF DecodeRegisters, Return, IInv
  <2> QED
    BY <2>1, <2>3 DEF DecodeRegisters, IInv, BiasInv
<1> QED
  BY <1>1, Invariant, PTL DEF Spec, StorageIsModifiedLast

(***************************************************************************)
(* The Python driver                                                       *)
(***************************************************************************)
\* Both drivers are built from the same operators.
LEMMA SameRegisters ==
    ASSUME NEW c
    PROVE  /\ PythonDriver!HighThresholdRegister(c) = HighThresholdRegister(c)
           /\ PythonDriver!LowThresholdRegister(c) = LowThresholdRegister(c)
           /\ PythonDriver!BaseConfigByte(c) = BaseConfigByte(c)
  BY DEF PythonDriver!HighThresholdRegister, PythonDriver!HighThresholdCode,
         PythonDriver!CeilDiv, PythonDriver!AdcScale, PythonDriver!Unset,
         PythonDriver!LowThresholdRegister, PythonDriver!LowThresholdCode,
         PythonDriver!BaseConfigByte, PythonDriver!StaticBits,
         HighThresholdRegister, HighThresholdCode, CeilDiv, AdcScale, Unset,
         LowThresholdRegister, LowThresholdCode, BaseConfigByte, StaticBits

LEMMA SameTransactions ==
    ASSUME NEW d, NEW s, NEW bits, NEW wait, NEW high, NEW low
    PROVE  /\ PythonDriver!ConfigWriteIsAccepted(bits) = ConfigWriteIsAccepted(bits)
           /\ PythonDriver!AfterConfigWrite(d, s, bits) = AfterConfigWrite(d, s, bits)
           /\ PythonDriver!AfterThresholdWrite(d, high, low) = AfterThresholdWrite(d, high, low)
           /\ PythonDriver!AfterWait(d, wait) = AfterWait(d, wait)
           /\ PythonDriver!RtdReadIsAccepted(d) = RtdReadIsAccepted(d)
           /\ PythonDriver!RtdRegister(d) = RtdRegister(d)
           /\ PythonDriver!AfterRtdRead(d) = AfterRtdRead(d)
           /\ PythonDriver!FaultStatusRegister(d) = FaultStatusRegister(d)
  BY DEF PythonDriver!ConfigWriteIsAccepted, PythonDriver!AfterConfigWrite,
         PythonDriver!SettlingAfter, PythonDriver!AfterThresholdWrite, PythonDriver!AfterWait,
         PythonDriver!RtdReadIsAccepted, PythonDriver!RtdRegister, PythonDriver!AfterRtdRead,
         PythonDriver!FaultStatusRegister,
         ConfigWriteIsAccepted, AfterConfigWrite, SettlingAfter, AfterThresholdWrite, AfterWait,
         RtdReadIsAccepted, RtdRegister, AfterRtdRead, FaultStatusRegister

LEMMA SameDecoding ==
    ASSUME NEW c, NEW r, NEW faults, NEW m
    PROVE  /\ PythonDriver!RtdFlag(r) = RtdFlag(r)
           /\ PythonDriver!Decode(c, r, faults) = Decode(c, r, faults)
           /\ PythonDriver!MeasurementIsValid(m) = MeasurementIsValid(m)
  BY DEF PythonDriver!RtdFlag, PythonDriver!RtdCode, PythonDriver!Decode,
         PythonDriver!HasFault, PythonDriver!WarningBits, PythonDriver!NoResistance,
         PythonDriver!MeasurementIsValid,
         RtdFlag, RtdCode, Decode, HasFault, WarningBits, NoResistance, MeasurementIsValid

LEMMA SameInitialDevices == PythonDriver!InitialDevices = InitialDevices
  BY SameRegisters
     DEF PythonDriver!InitialDevices, PythonDriver!LeftoverConfigBytes,
         PythonDriver!LeftoverThresholds,
         InitialDevices, LeftoverConfigBytes, LeftoverThresholds

\* What the Python driver's result and exception are at a state of the function.
ResultBar ==
    [outcome     |-> ReadOutcome,
     error       |-> IF ReadOutcome = "error" THEN FailureBehind(returned) ELSE None,
     measurement |-> [resistance  |-> storage.resistance,
                      diagnostics |-> storage.diagnostics]]

PcBar(step) == IF step = "return" THEN "raise" ELSE step

\* While the function executes, its caller has been told nothing.
LEMMA InteriorResult ==
    ASSUME returned = None, UNCHANGED <<returned, storage>>
    PROVE  ResultBar' = ResultBar
  BY DEF ResultBar, ReadOutcome, None

\* No exception is in flight before a failure, and afterwards it is the one of
\* the step that failed.
LEMMA FailureInFlight ==
    ASSUME LocalsInv
    PROVE  FailureBehind(code) = IF pc \in {"cleanup", "return"} THEN cause ELSE None
  BY DEF LocalsInv, FailureBehind, ErrorOf

LEMMA TransferRefines ==
    ASSUME LocalsInv, LocalsInv',
           NEW at \in Steps \ {"cleanup", "return"}, NEW accepted, NEW after,
           NEW next \in Steps \ {"cleanup", "return"}, NEW handler \in {"cleanup", "return"},
           Transfer(at, accepted, after, next, handler)
    PROVE  PythonDriver!Transfer(at, accepted, after, next, PcBar(handler))
<1>1. pc = at /\ PcBar(pc) = at
  BY DEF Transfer, PcBar
<1>2. FailureBehind(code) = None
  BY <1>1, FailureInFlight
<1>3. CASE accepted /\ dev' = after /\ pc' = next
  <2>1. FailureBehind(code)' = None
    BY <1>3 DEF LocalsInv, FailureBehind
  <2> QED
    BY <1>1, <1>2, <1>3, <2>1 DEF PythonDriver!Transfer, PcBar
<1>4. CASE dev' \in {dev, after} /\ pc' = handler /\ cause' = at
  <2>1. FailureBehind(code)' = at
    BY <1>4 DEF LocalsInv, FailureBehind, ErrorOf
  <2>2. PcBar(pc)' = PcBar(handler)
    BY <1>4 DEF PcBar
  <2> QED
    BY <1>1, <1>4, <2>1, <2>2 DEF PythonDriver!Transfer, PcBar
<1> QED
  BY <1>3, <1>4 DEF Transfer

LEMMA WriteConfigRefines ==
    ASSUME LocalsInv, LocalsInv',
           NEW at \in Steps \ {"cleanup", "return"}, NEW bits,
           NEW next \in Steps \ {"cleanup", "return"}, NEW handler \in {"cleanup", "return"},
           WriteConfig(at, bits, next, handler)
    PROVE  PythonDriver!WriteConfig(at, bits, next, PcBar(handler))
<1>1. PythonDriver!Transfer(at, ConfigWriteIsAccepted(bits), AfterConfigWrite(dev, sensor, bits),
                            next, PcBar(handler))
  BY TransferRefines DEF WriteConfig
<1>2. returned = None /\ UNCHANGED <<sensor, config, rtd, status, returned, storage, seen>>
  <2>1. pc = at /\ pc # "idle"
    BY DEF WriteConfig, Transfer, Steps
  <2> QED
    BY <2>1 DEF WriteConfig, LocalsInv
<1>3. ResultBar' = ResultBar
  BY <1>2, InteriorResult
<1> QED
  BY <1>1, <1>2, <1>3, SameTransactions DEF PythonDriver!WriteConfig, ResultBar

LEMMA DelayRefines ==
    ASSUME LocalsInv, LocalsInv',
           NEW at \in DelaySteps, NEW wait, NEW next \in Steps \ {"cleanup", "return"},
           Delay(at, wait, next)
    PROVE  PythonDriver!Sleep(at, wait, next)
<1>1. pc = at /\ pc \notin {"idle", "cleanup", "return"}
  BY DEF Delay, DelaySteps
<1>2. returned = None /\ UNCHANGED <<sensor, config, rtd, status, returned, storage, seen>>
  BY <1>1 DEF Delay, LocalsInv
<1>3. ResultBar' = ResultBar
  BY <1>2, InteriorResult
<1>4. FailureBehind(code) = None
  BY <1>1, FailureInFlight
<1>5. CASE dev' = AfterWait(dev, wait) /\ pc' = next
  <2>1. FailureBehind(code)' = None
    BY <1>5 DEF LocalsInv, FailureBehind
  <2> QED
    BY <1>1, <1>2, <1>3, <1>4, <1>5, <2>1, SameTransactions DEF PythonDriver!Sleep, ResultBar
<1>6. CASE pc' = "cleanup" /\ cause' = at /\ UNCHANGED dev
  <2>1. FailureBehind(code)' = at
    BY <1>6 DEF LocalsInv, FailureBehind, ErrorOf
  <2> QED
    BY <1>1, <1>2, <1>3, <1>6, <2>1 DEF PythonDriver!Sleep, ResultBar
<1> QED
  BY <1>5, <1>6 DEF Delay

\* The function returns: the Python driver's read() is left with the outcome
\* that stands for the result code.
LEMMA ReturnRefines ==
    ASSUME NEW r, Return(r), NEW outcome, NEW error, NEW m,
           ResultBar' = [outcome |-> outcome, error |-> error, measurement |-> m]
    PROVE  PythonDriver!Leave(outcome, error, m)
<1>1. PcBar(pc)' = "idle" /\ rtd' = 0 /\ status' = {} /\ seen' = {}
  BY DEF Return, PcBar
<1>2. FailureBehind(code)' = None
  BY DEF Return, FailureBehind
<1> QED
  BY <1>1, <1>2 DEF PythonDriver!Leave, PythonDriver!None, ResultBar, PcBar, None

LEMMA DecodeRefines ==
    ASSUME IInv, DecodeRegisters
    PROVE  PythonDriver!DecodeRegisters \/ PythonDriver!Interrupt
<1>1. pc = "decode" /\ PcBar(pc) = "decode" /\ UNCHANGED <<dev, sensor, config>>
  BY DEF DecodeRegisters, PcBar
<1>2. CASE ~StorageSuffices(storage, Cardinality(status))
  <2>1. Return("INSUFFICIENT_STORAGE") /\ storage' = storage
    BY <1>2 DEF DecodeRegisters
  <2>2. ResultBar' = [outcome |-> "interrupted", error |-> None,
                      measurement |-> ResultBar.measurement]
    BY <2>1 DEF Return, ResultBar, ReadOutcome, None
  <2>3. PythonDriver!Leave("interrupted", None, ResultBar.measurement)
    BY <2>1, <2>2, ReturnRefines
  <2>4. PythonDriver!Interrupt
    BY <1>1, <2>3 DEF PythonDriver!Interrupt, PythonDriver!None, ResultBar, PcBar, None
  <2> QED
    BY <2>4
<1>3. CASE StorageSuffices(storage, Cardinality(status))
  <2> DEFINE m == Decode(config, rtd, status)
             filled == Fill(storage, rtd, status)
  <2>1. storage \in Storage
    BY DEF IInv, TypeOK
  <2>2. m.resistance = filled.resistance /\ m.diagnostics = filled.diagnostics
    BY <2>1, FillFields DEF Decode
  <2>3. StorageIsValid(filled)
    BY <1>3, DecodedIsValid DEF IInv
  <2>4. MeasurementIsValid(m)
    BY <2>2, <2>3 DEF StorageIsValid, MeasurementIsValid
  <2>5. Return("OK") /\ storage' = filled
    BY <1>3, <2>3 DEF DecodeRegisters
  <2>6. m = [resistance |-> m.resistance, diagnostics |-> m.diagnostics]
    BY DEF Decode
  <2> HIDE DEF m, filled
  <2>7. ResultBar' = [outcome |-> "measurement", error |-> None, measurement |-> m]
    <3>1. returned' = "OK"
      BY <2>5 DEF Return
    <3>2. [resistance |-> storage.resistance, diagnostics |-> storage.diagnostics]' = m
      BY <2>2, <2>5, <2>6
    <3>3. ReadOutcome' = "measurement"
      BY <3>1 DEF ReadOutcome, None
    <3> QED
      BY <3>2, <3>3 DEF ResultBar
  <2>8. PythonDriver!Leave("measurement", None, m)
    BY <2>5, <2>7, ReturnRefines
  <2>9. PythonDriver!Decode(config, rtd, status) = m /\ PythonDriver!MeasurementIsValid(m)
    BY <2>4, SameDecoding DEF m
  <2>10. PythonDriver!DecodeRegisters
    BY <1>1, <2>8, <2>9 DEF PythonDriver!DecodeRegisters, PythonDriver!None, PcBar, None
  <2> QED
    BY <2>10
<1> QED
  BY <1>2, <1>3

\* Every step of the function is a step of read(), or none.
LEMMA StepRefines ==
    IInv /\ IInv' /\ [Next]_vars => [PythonDriver!Next]_(PythonDriver!vars)
<1> SUFFICES ASSUME IInv, IInv', [Next]_vars
             PROVE  PythonDriver!Next \/ UNCHANGED PythonDriver!vars
  OBVIOUS
<1>0. TypeOK /\ LocalsInv /\ LocalsInv'
  BY DEF IInv
<1> USE DEF Steps, DelaySteps
<1> HIDE DEF PcBar
<1>b. PythonDriver!Base = Base
  BY SameRegisters DEF PythonDriver!Base, Base
<1>h. PcBar("return") = "raise" /\ PcBar("cleanup") = "cleanup"
  BY DEF PcBar
<1>1. CASE RefuseArguments
  BY <1>1 DEF RefuseArguments, PythonDriver!vars, FailureBehind, ReadOutcome
<1>2. CASE Begin
  <2>1. FailureBehind(code) = None /\ FailureBehind(code)' = None
    BY <1>0, <1>2 DEF Begin, LocalsInv, FailureBehind
  <2>2. ResultBar' = [outcome |-> "none", error |-> None, measurement |-> ResultBar.measurement]
    <3>1. ReadOutcome' = "none" /\ storage' = storage
      BY <1>2 DEF Begin, ReadOutcome, None
    <3> QED
      BY <3>1 DEF ResultBar
  <2>3. PythonDriver!Begin
    BY <1>2, <2>1, <2>2 DEF Begin, PythonDriver!Begin, PythonDriver!None, ResultBar, None
  <2> QED
    BY <2>3 DEF PythonDriver!Next
<1>3. CASE WriteThresholds
  <2>1. PythonDriver!Transfer("thresholds", TRUE,
            AfterThresholdWrite(dev, HighThresholdRegister(config),
                                     LowThresholdRegister(config)), "enable_bias", "raise")
    BY <1>0, <1>3, <1>h, TransferRefines DEF WriteThresholds
  <2>2. returned = None /\ UNCHANGED <<sensor, config, rtd, status, returned, storage, seen>>
    BY <1>0, <1>3 DEF WriteThresholds, Transfer, LocalsInv
  <2>3. PythonDriver!WriteThresholds
    BY <2>1, <2>2, InteriorResult, SameRegisters, SameTransactions
       DEF PythonDriver!WriteThresholds, ResultBar
  <2> QED
    BY <2>3 DEF PythonDriver!Next, PythonDriver!ReadStep
<1>4. CASE EnableBias
  <2>1. PythonDriver!EnableBias
    BY <1>0, <1>4, <1>b, <1>h, WriteConfigRefines DEF EnableBias, PythonDriver!EnableBias
  <2> QED
    BY <2>1 DEF PythonDriver!Next, PythonDriver!ReadStep
<1>5. CASE SettleBias
  <2>1. PythonDriver!SettleBias
    BY <1>0, <1>5, DelayRefines DEF SettleBias, PythonDriver!SettleBias
  <2> QED
    BY <2>1 DEF PythonDriver!Next, PythonDriver!ReadStep
<1>6. CASE StartFaultCycle
  <2>1. PythonDriver!StartFaultCycle
    BY <1>0, <1>6, <1>b, <1>h, WriteConfigRefines DEF StartFaultCycle, PythonDriver!StartFaultCycle
  <2> QED
    BY <2>1 DEF PythonDriver!Next, PythonDriver!ReadStep
<1>7. CASE WaitFaultCycle
  <2>1. PythonDriver!WaitFaultCycle
    BY <1>0, <1>7, DelayRefines DEF WaitFaultCycle, PythonDriver!WaitFaultCycle
  <2> QED
    BY <2>1 DEF PythonDriver!Next, PythonDriver!ReadStep
<1>8. CASE SettlePostFault
  <2>1. PythonDriver!SettlePostFault
    BY <1>0, <1>8, DelayRefines DEF SettlePostFault, PythonDriver!SettlePostFault
  <2> QED
    BY <2>1 DEF PythonDriver!Next, PythonDriver!ReadStep
<1>9. CASE StartConversion
  <2>1. PythonDriver!StartConversion
    BY <1>0, <1>9, <1>b, <1>h, WriteConfigRefines DEF StartConversion, PythonDriver!StartConversion
  <2> QED
    BY <2>1 DEF PythonDriver!Next, PythonDriver!ReadStep
<1>10. CASE WaitConversion
  <2>1. PythonDriver!WaitConversion
    BY <1>0, <1>10, DelayRefines DEF WaitConversion, PythonDriver!WaitConversion
  <2> QED
    BY <2>1 DEF PythonDriver!Next, PythonDriver!ReadStep
<1>11. CASE ReadRtd
  <2> DEFINE next == IF RtdFlag(RtdRegister(dev)) = 1 THEN "read_status" ELSE "bias_off"
  <2>1. next \in Steps \ {"cleanup", "return"}
    OBVIOUS
  <2>2. PythonDriver!Transfer("read_rtd", RtdReadIsAccepted(dev), AfterRtdRead(dev), next, "cleanup")
    BY <1>0, <1>11, <1>h, <2>1, TransferRefines DEF ReadRtd
  <2>3. /\ returned = None /\ status = {}
        /\ UNCHANGED <<sensor, config, status, returned, storage, seen>>
    BY <1>0, <1>11 DEF ReadRtd, Transfer, LocalsInv
  <2>4. pc' = "cleanup" <=> PcBar(pc)' = "cleanup"
    BY DEF PcBar
  <2>5. PythonDriver!ReadRtd
    BY <1>11, <2>2, <2>3, <2>4, InteriorResult, SameTransactions, SameDecoding
       DEF ReadRtd, PythonDriver!ReadRtd, ResultBar, PcBar
  <2> QED
    BY <2>5 DEF PythonDriver!Next, PythonDriver!ReadStep
<1>12. CASE ReadFaultStatus
  <2>1. PythonDriver!Transfer("read_status", TRUE, dev, "bias_off", "cleanup")
    BY <1>0, <1>12, <1>h, TransferRefines DEF ReadFaultStatus
  <2>2. returned = None /\ UNCHANGED <<sensor, config, rtd, returned, storage, seen>>
    BY <1>0, <1>12 DEF ReadFaultStatus, Transfer, LocalsInv
  <2>3. pc' = "cleanup" <=> PcBar(pc)' = "cleanup"
    BY DEF PcBar
  <2>4. PythonDriver!ReadFaultStatus
    BY <1>12, <2>1, <2>2, <2>3, InteriorResult, SameTransactions
       DEF ReadFaultStatus, PythonDriver!ReadFaultStatus, ResultBar, PcBar
  <2> QED
    BY <2>4 DEF PythonDriver!Next, PythonDriver!ReadStep
<1>13. CASE FinalBiasOff
  <2>1. PythonDriver!FinalBiasOff
    BY <1>0, <1>13, <1>b, <1>h, WriteConfigRefines DEF FinalBiasOff, PythonDriver!FinalBiasOff
  <2> QED
    BY <2>1 DEF PythonDriver!Next, PythonDriver!ReadStep
<1>14. CASE BestEffortBiasOff
  <2>1. /\ pc = "cleanup" /\ pc' = "return" /\ returned = None
        /\ UNCHANGED <<sensor, config, rtd, status, code, returned, storage, cause, seen>>
    BY <1>0, <1>14 DEF BestEffortBiasOff, LocalsInv
  <2>2. FailureBehind(code)' = FailureBehind(code)
    BY <2>1 DEF FailureBehind, ErrorOf
  <2>3. PythonDriver!BestEffortBiasOff
    BY <1>14, <1>b, <2>1, <2>2, InteriorResult, SameTransactions
       DEF BestEffortBiasOff, PythonDriver!BestEffortBiasOff, ResultBar
  <2> QED
    BY <2>3 DEF PythonDriver!Next, PythonDriver!ReadStep
<1>15. CASE ReturnError
  <2>1. /\ pc = "return" /\ Return(code) /\ code = ErrorOf(cause) /\ cause # None
        /\ UNCHANGED <<dev, sensor, config, storage, cause>>
    BY <1>0, <1>15 DEF ReturnError, LocalsInv, None
  <2>2. FailureBehind(code) = cause
    BY <2>1 DEF FailureBehind, ErrorOf
  <2>3. ResultBar' = [outcome |-> "error", error |-> cause, measurement |-> ResultBar.measurement]
    <3>1. returned' = code /\ FailureBehind(returned)' = cause
      BY <2>1 DEF Return, FailureBehind, ErrorOf
    <3>2. ReadOutcome' = "error"
      BY <2>1, <3>1 DEF ReadOutcome, ErrorOf, None
    <3> QED
      BY <2>1, <3>1, <3>2 DEF ResultBar
  <2>4. PythonDriver!Leave("error", cause, ResultBar.measurement)
    BY <2>1, <2>3, ReturnRefines
  <2>5. PythonDriver!Raise
    BY <2>1, <2>2, <2>4 DEF PythonDriver!Raise, ResultBar
  <2> QED
    BY <2>5 DEF PythonDriver!Next, PythonDriver!ReadStep
<1>16. CASE DecodeRegisters
  BY <1>16, DecodeRefines DEF PythonDriver!Next, PythonDriver!ReadStep
<1>17. CASE SensorChanges
  <2>1. PcBar(pc) = "idle" <=> pc = "idle"
    BY DEF PcBar
  <2>2. PythonDriver!SensorChanges
    BY <1>17, <2>1 DEF SensorChanges, PythonDriver!SensorChanges, FailureBehind, ReadOutcome, PcBar
  <2> QED
    BY <2>2 DEF PythonDriver!Next
<1>18. CASE UNCHANGED vars
  BY <1>18 DEF vars, PythonDriver!vars, FailureBehind, ReadOutcome
<1> QED
  BY <1>1, <1>2, <1>3, <1>4, <1>5, <1>6, <1>7, <1>8, <1>9, <1>10, <1>11, <1>12, <1>13,
     <1>14, <1>15, <1>16, <1>17, <1>18 DEF Next, ReadStep

\* The C driver has no behaviour that the Python driver does not have: each of
\* its calls makes the transactions of a read() in their order, with the same
\* bytes, and ends like one.
THEOREM Implements == Spec => ImplementsPythonDriver
<1>1. Init => PythonDriver!Init
  <2> SUFFICES ASSUME Init PROVE PythonDriver!Init
    OBVIOUS
  <2> QED
    BY SameInitialDevices
       DEF Init, PythonDriver!Init, PythonDriver!NoResistance, PythonDriver!None,
           NoResistance, FailureBehind, ReadOutcome, None
<1> QED
  BY <1>1, StepRefines, Invariant, PTL DEF Spec, ImplementsPythonDriver, PythonDriver!Spec
=============================================================================
