-------------------------- MODULE MAX31865Emulator --------------------------
(***************************************************************************)
(* MAX31865SpiEmulator byte by byte, under a client that sends what it     *)
(* likes: the bit tests on the bytes it receives, the registers behind     *)
(* them, and its log of transactions.                                      *)
(***************************************************************************)
EXTENDS Integers, Sequences

CONSTANTS
    RawCodes,      \* the values of rtd_code that constructions are asked for
    RawStatuses,   \* and those of fault_status_register
    Transmissions, \* what clients transfer
    MaxLog         \* the longest log: a bound of the model

Byte == 0 .. 255

ASSUME EmulatorAssumption ==
    /\ RawCodes \cup RawStatuses \subseteq Int
    /\ \A tx \in Transmissions : tx \in Seq(Byte)
    /\ MaxLog \in Nat

VARIABLES
    rtd_code,           \* _rtd_code
    configured_faults,  \* _configured_fault_status
    latched_faults,     \* _latched_fault_status
    high_threshold,     \* _high_threshold_register
    low_threshold,      \* _low_threshold_register
    last_config,        \* _last_config_write
    ready,              \* _conversion_ready
    transactions,       \* _transactions
    answer              \* what the last transfer returned or raised

registers == <<latched_faults, high_threshold, low_threshold, last_config, ready>>
emulatorVars == <<rtd_code, configured_faults, registers, transactions, answer>>

\* The largest value of a threshold register, 0xFFFF.
WordMax == 256 * 256 - 1

BIAS == 128
ONE_SHOT == 32
AUTO_FAULT_CYCLE == 4
CLEAR_FAULTS == 2

Bit(value, mask) == (value \div mask) % 2 = 1

\* Only the bits D7 to D2 are defined.
IsFaultStatus(value) == value \in Byte /\ value % 4 = 0

IsRtdCode(value) == value \in 0 .. 32767

Raised == [raised |-> TRUE, bytes |-> <<>>]
Returned(bytes) == [raised |-> FALSE, bytes |-> bytes]

\* A construction that raises makes no emulator.
EmulatorInit ==
    /\ rtd_code \in {code \in RawCodes : IsRtdCode(code)}
    /\ configured_faults \in {status \in RawStatuses : IsFaultStatus(status)}
    /\ latched_faults = 0
    /\ high_threshold = WordMax
    /\ low_threshold = 0
    /\ last_config = 0
    /\ ready = FALSE
    /\ transactions = <<>>
    /\ answer = Raised

(***************************************************************************)
(* transfer(): a request that is not bytes, or empty, is not logged; every *)
(* other is, whether or not it is understood.                              *)
(***************************************************************************)
Receive(tx) ==
    /\ Len(transactions) < MaxLog
    /\ transactions' = Append(transactions, tx)
    /\ UNCHANGED <<rtd_code, configured_faults>>

RefuseInput == answer' = Raised /\ UNCHANGED <<rtd_code, configured_faults, registers, transactions>>

IsConfigWrite(tx) == Len(tx) = 2 /\ tx[1] = 128
IsThresholdWrite(tx) == Len(tx) = 5 /\ tx[1] = 131
IsRtdRead(tx) == Len(tx) = 3 /\ tx[1] = 1
IsFaultRead(tx) == Len(tx) = 2 /\ tx[1] = 7

\* An operation in the byte needs the bias in the same byte.
Lacks(value, operation) == Bit(value, operation) /\ ~Bit(value, BIAS)

\* The byte is stored and its clear bit served before an operation without
\* bias is refused.
WriteConfig(tx) ==
    LET value == tx[2] IN
    /\ IsConfigWrite(tx)
    /\ last_config' = value
    /\ latched_faults' = IF Bit(value, AUTO_FAULT_CYCLE) /\ Bit(value, BIAS) THEN configured_faults
                         ELSE IF Bit(value, CLEAR_FAULTS) THEN 0
                         ELSE latched_faults
    /\ ready' = (ready \/ (Bit(value, ONE_SHOT) /\ Bit(value, BIAS)))
    /\ answer' = IF Lacks(value, AUTO_FAULT_CYCLE) \/ Lacks(value, ONE_SHOT) THEN Raised
                 ELSE Returned(<<0, 0>>)
    /\ UNCHANGED <<high_threshold, low_threshold>>

\* One transaction writes both threshold registers, the high one first.
WriteThresholds(tx) ==
    /\ IsThresholdWrite(tx)
    /\ high_threshold' = 256 * tx[2] + tx[3]
    /\ low_threshold' = 256 * tx[4] + tx[5]
    /\ answer' = Returned(<<0, 0, 0, 0, 0>>)
    /\ UNCHANGED <<latched_faults, last_config, ready>>

\* Slip: the flag shows the faults the next cycle will find.
WireValueOfNextCycle == 2 * rtd_code + (IF configured_faults = 0 THEN 0 ELSE 1)

WireValue == 2 * rtd_code + (IF latched_faults = 0 THEN 0 ELSE 1)

\* A conversion can be read once.
ReadRtd(tx) ==
    /\ IsRtdRead(tx)
    /\ answer' = IF ready THEN Returned(<<0, WireValue \div 256, WireValue % 256>>) ELSE Raised
    /\ ready' = FALSE
    /\ UNCHANGED <<latched_faults, high_threshold, low_threshold, last_config>>

ReadFaultStatus(tx) ==
    /\ IsFaultRead(tx)
    /\ answer' = Returned(<<0, latched_faults>>)
    /\ UNCHANGED registers

RefuseRequest(tx) ==
    /\ ~(IsConfigWrite(tx) \/ IsThresholdWrite(tx) \/ IsRtdRead(tx) \/ IsFaultRead(tx))
    /\ answer' = Raised
    /\ UNCHANGED registers

EmulatorTransfer(tx) ==
    /\ Receive(tx)
    /\ \/ WriteConfig(tx)
       \/ WriteThresholds(tx)
       \/ ReadRtd(tx)
       \/ ReadFaultStatus(tx)
       \/ RefuseRequest(tx)

EmulatorNext == RefuseInput \/ \E tx \in Transmissions : EmulatorTransfer(tx)

EmulatorSpec == EmulatorInit /\ [][EmulatorNext]_emulatorVars

(***************************************************************************)
(* Properties                                                              *)
(***************************************************************************)
ConfigMask ==
    [BIAS |-> 128, ONE_SHOT |-> 32, THREE_WIRE |-> 16, AUTO_FAULT_CYCLE |-> 4,
     CLEAR_FAULTS |-> 2, FILTER_50HZ |-> 1]
FaultMask == [D7 |-> 128, D6 |-> 64, D5 |-> 32, D4 |-> 16, D3 |-> 8, D2 |-> 4]

BitsOf(value, masks) == {bit \in DOMAIN masks : Bit(value, masks[bit])}

SensorOf(code, status) == [code |-> code, faults |-> BitsOf(status, FaultMask)]

\* The emulator is the converter that the drivers are verified against: what
\* the models of the two drivers rely on is what its bytes mean.
Bus ==
    INSTANCE RegisterBus WITH
        Configs <- {},
        Sensors <- {SensorOf(code, status) : code \in {c \in RawCodes : IsRtdCode(c)},
                                             status \in {s \in RawStatuses : IsFaultStatus(s)}},
        sensor  <- SensorOf(rtd_code, configured_faults),
        dev     <- [config   |-> BitsOf(last_config, ConfigMask),
                    latched  |-> BitsOf(latched_faults, FaultMask),
                    ready    |-> ready,
                    data     |-> rtd_code,
                    high     |-> high_threshold,
                    low      |-> low_threshold,
                    settling |-> {}]

ImplementsRegisterBus == Bus!Spec
=============================================================================
