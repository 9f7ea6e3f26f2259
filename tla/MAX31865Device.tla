--------------------------- MODULE MAX31865Device ---------------------------
(***************************************************************************)
(* The register state of a MAX31865 as an SPI master can observe it, with  *)
(* the semantics MAX31865SpiEmulator gives each transaction.               *)
(*                                                                         *)
(* The emulator keeps one RTD code and one fault condition for its whole   *)
(* life; here both come from a `sensor' that the environment may change,   *)
(* sampled when the conversion, respectively the fault cycle, is started.  *)
(* The field `settling' is the analog part, which the emulator leaves out: *)
(* the waits that the last configuration writes have made necessary.       *)
(***************************************************************************)
EXTENDS MAX31865Config, MAX31865Decode

CONSTANTS
    Configs,  \* the configurations of the driver objects that use the device
    Sensors   \* the (code, faults) pairs the sensing element may present

ASSUME ConfigsAssumption ==
    \A config \in Configs :
        /\ config \in [wires : Int, filter : Int, reference : Int, low : Int, high : Int]
        /\ ConfigIsValid(config)

ASSUME SensorsAssumption ==
    Sensors \subseteq [code : 0 .. MaxAdcCode, faults : SUBSET FaultBits]

OperationBits == {"BIAS", "ONE_SHOT", "AUTO_FAULT_CYCLE", "CLEAR_FAULTS"}
ConfigByte == SUBSET (OperationBits \cup StaticBits)

Waits == {"bias", "fault_cycle", "post_fault", "conversion"}

Device ==
    [config   : ConfigByte,           \* _last_config_write
     latched  : SUBSET FaultBits,     \* _latched_fault_status
     ready    : BOOLEAN,              \* _conversion_ready
     data     : 0 .. MaxAdcCode,      \* result of the last conversion
     high     : Int,                  \* _high_threshold_register
     low      : Int,                  \* _low_threshold_register
     settling : SUBSET Waits]

\* The configuration bytes a driver may have left in the device: the static
\* bits of some configuration, alone or with one of the biased operations.
LeftoverConfigBytes ==
    {BaseConfigByte(config) \cup operation :
        config \in Configs,
        operation \in {{}, {"BIAS", "CLEAR_FAULTS"},
                       {"BIAS", "AUTO_FAULT_CYCLE"}, {"BIAS", "ONE_SHOT"}}}

\* The threshold registers as some driver wrote them, or as they power up.
LeftoverThresholds ==
    {<<HighThresholdRegister(config), LowThresholdRegister(config)>> : config \in Configs}
        \cup {<<65535, 0>>}

\* The device as a previous process may have left it, or as it powers up.
\* Which codes and faults its registers then hold is arbitrary among those
\* its sensors can have produced.
InitialDevices ==
    {d \in [config   : LeftoverConfigBytes,
            latched  : {s.faults : s \in Sensors} \cup {{}},
            ready    : BOOLEAN,
            data     : {s.code : s \in Sensors},
            high     : {thresholds[1] : thresholds \in LeftoverThresholds},
            low      : {thresholds[2] : thresholds \in LeftoverThresholds},
            settling : {{}, {"bias"}}] :
        /\ <<d.high, d.low>> \in LeftoverThresholds
        /\ "BIAS" \notin d.config => d.settling = {}}

(***************************************************************************)
(* Configuration write.  The emulator stores the byte before it looks at   *)
(* it, so a rejected byte has still been stored and has still cleared the  *)
(* faults when it asks for that.                                           *)
(***************************************************************************)
ConfigWriteIsAccepted(bits) ==
    bits \cap {"AUTO_FAULT_CYCLE", "ONE_SHOT"} # {} => "BIAS" \in bits

\* The waits a configuration write makes necessary: switching the bias on
\* starts its settling, a fault cycle or a conversion starts its own wait and
\* replaces the operation that was under way.
SettlingAfter(d, bits) ==
    IF "BIAS" \notin bits THEN {}
    ELSE (IF "BIAS" \in d.config THEN d.settling \cap {"bias"} ELSE {"bias"})
         \cup (IF "AUTO_FAULT_CYCLE" \in bits THEN {"fault_cycle", "post_fault"} ELSE {})
         \cup (IF "ONE_SHOT" \in bits THEN {"conversion"} ELSE {})

AfterConfigWrite(d, sensor, bits) ==
    LET cycles   == {"AUTO_FAULT_CYCLE", "BIAS"} \subseteq bits
        converts == {"ONE_SHOT", "BIAS"} \subseteq bits
    IN  [d EXCEPT
            !.config   = bits,
            !.latched  = IF cycles THEN sensor.faults
                         ELSE IF "CLEAR_FAULTS" \in bits THEN {} ELSE @,
            !.ready    = @ \/ converts,
            !.data     = IF converts THEN sensor.code ELSE @,
            !.settling = SettlingAfter(d, bits)]

AfterThresholdWrite(d, high, low) == [d EXCEPT !.high = high, !.low = low]

(***************************************************************************)
(* Reads.  The RTD data registers can be read once per conversion; their   *)
(* lowest bit says whether any fault is latched at that moment.            *)
(***************************************************************************)
RtdReadIsAccepted(d) == d.ready

\* Slip: the code is shifted twice before the fault flag is added.
RtdRegisterShiftedTwice(d) == 2 * (2 * d.data) + (IF d.latched = {} THEN 0 ELSE 1)

RtdRegister(d) == 2 * d.data + (IF d.latched = {} THEN 0 ELSE 1)

AfterRtdRead(d) == [d EXCEPT !.ready = FALSE]

FaultStatusRegister(d) == d.latched

\* A wait of the length that `wait' needs has elapsed.
AfterWait(d, wait) == [d EXCEPT !.settling = @ \ {wait}]
=============================================================================
