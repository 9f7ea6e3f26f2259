----------------------- MODULE MAX31865Device_proofs -----------------------
(***************************************************************************)
(* Facts about the operators that both drivers are built from: the         *)
(* configuration and its registers, the transactions of the device, and    *)
(* the decoding of what was read.                                          *)
(***************************************************************************)
EXTENDS MAX31865Device, TLAPS

LEMMA ConfigType ==
    ASSUME NEW c \in Configs
    PROVE  /\ c \in [wires : Int, filter : Int, reference : Int, low : Int, high : Int]
           /\ c.reference \in Nat \ {0}
<1>1. c \in [wires : Int, filter : Int, reference : Int, low : Int, high : Int]
  BY ConfigsAssumption
<1>2. c.reference \in MinReference .. MaxReference
  BY ConfigsAssumption DEF ConfigIsValid
<1> QED
  BY <1>1, <1>2 DEF MinReference

\* The threshold registers are numbers.
LEMMA ThresholdRegistersType ==
    ASSUME NEW c \in Configs
    PROVE  HighThresholdRegister(c) \in Int /\ LowThresholdRegister(c) \in Int
<1>1. c.high * AdcScale + c.reference - 1 \in Int /\ c.low * AdcScale \in Int
  BY ConfigType DEF AdcScale
<1>2. \A n \in Int, d \in Nat \ {0} : n \div d \in Int
  OBVIOUS
<1>3. HighThresholdCode(c) \in Int /\ LowThresholdCode(c) \in Int
  BY <1>1, <1>2, ConfigType DEF HighThresholdCode, LowThresholdCode, CeilDiv
<1> QED
  BY <1>3 DEF HighThresholdRegister, LowThresholdRegister

\* The static bits are part of a configuration byte.
LEMMA BaseType ==
    ASSUME NEW c
    PROVE  BaseConfigByte(c) \subseteq StaticBits
  BY DEF BaseConfigByte

\* A configuration write maps devices to devices.
LEMMA ConfigWriteType ==
    ASSUME NEW d \in Device, NEW s \in Sensors, NEW bits \in ConfigByte
    PROVE  AfterConfigWrite(d, s, bits) \in Device
<1>1. s.code \in 0 .. MaxAdcCode /\ s.faults \in SUBSET FaultBits
  BY SensorsAssumption
<1>2. SettlingAfter(d, bits) \in SUBSET Waits
  BY DEF SettlingAfter, Device, Waits
<1> QED
  BY <1>1, <1>2 DEF AfterConfigWrite, Device

LEMMA InitialDevicesType == InitialDevices \subseteq Device
<1>1. LeftoverConfigBytes \subseteq ConfigByte
  BY BaseType DEF LeftoverConfigBytes, ConfigByte, OperationBits
<1>2. \A t \in LeftoverThresholds : t[1] \in Int /\ t[2] \in Int
  BY ThresholdRegistersType DEF LeftoverThresholds
<1>3. \A s \in Sensors : s.code \in 0 .. MaxAdcCode /\ s.faults \in SUBSET FaultBits
  BY SensorsAssumption
<1> QED
  BY <1>1, <1>2, <1>3 DEF InitialDevices, Device, Waits

\* The RTD register is a 16-bit number whose parts are the conversion result
\* and the fault flag.
LEMMA RtdRegisterParts ==
    ASSUME NEW d \in Device
    PROVE  /\ RtdRegister(d) \in 0 .. 2 * MaxAdcCode + 1
           /\ RtdCode(RtdRegister(d)) = d.data
           /\ RtdFlag(RtdRegister(d)) = 1 <=> d.latched # {}
<1>1. MaxAdcCode \in Nat /\ d.data \in 0 .. MaxAdcCode
  <2>1. MaxAdcCode \in Nat
    BY DEF MaxAdcCode, AdcScale
  <2> QED
    BY <2>1 DEF Device
<1>2. CASE d.latched = {}
  BY <1>1, <1>2 DEF RtdRegister, RtdCode, RtdFlag
<1>3. CASE d.latched # {}
  BY <1>1, <1>3 DEF RtdRegister, RtdCode, RtdFlag
<1> QED
  BY <1>2, <1>3

\* The fields of the device after a configuration write.
LEMMA ConfigWriteFields ==
    ASSUME NEW d \in Device, NEW s, NEW bits
    PROVE  LET e == AfterConfigWrite(d, s, bits) IN
           /\ e.config = bits
           /\ e.high = d.high /\ e.low = d.low
           /\ {"AUTO_FAULT_CYCLE", "BIAS"} \subseteq bits => e.latched = s.faults
           /\ ("AUTO_FAULT_CYCLE" \notin bits /\ "CLEAR_FAULTS" \notin bits)
                 => e.latched = d.latched
           /\ d.ready => e.ready
           /\ {"ONE_SHOT", "BIAS"} \subseteq bits => e.ready /\ e.data = s.code
           /\ "ONE_SHOT" \notin bits => e.data = d.data
           /\ e.settling = SettlingAfter(d, bits)
  BY DEF AfterConfigWrite, Device

\* What is decoded from well-typed registers is a measurement.
LEMMA DecodeType ==
    ASSUME NEW c \in Configs, NEW r \in Nat, NEW faults \in SUBSET FaultBits
    PROVE  Decode(c, r, faults) \in [resistance : Int, diagnostics : SUBSET FaultBits]
<1>1. RtdCode(r) \in Int
  BY DEF RtdCode
<1>2. RtdCode(r) * c.reference \in Int
  BY <1>1, ConfigType
<1> QED
  BY <1>2 DEF Decode, NoResistance
=============================================================================
