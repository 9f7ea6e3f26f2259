---------------------------- MODULE ArduinoAvrSpi ----------------------------
(***************************************************************************)
(* The SPI adapter of the Arduino AVR: several contexts on one SPIClass    *)
(* bus, each with a chip-select pin of its own.  A sketch is one thread:   *)
(* nothing else runs between the steps of an operation, but the devices    *)
(* see every level.  A HAL object goes on referring to a context that was  *)
(* ended, and a context may be initialized again.                          *)
(***************************************************************************)
EXTENDS Integers, FiniteSets

CONSTANTS
    Contexts,      \* each stands for its pin, too
    CpuFrequency,  \* F_CPU
    Requested,     \* the clock frequencies that initializers ask for
    MaxBegun,      \* references to the bus at a time: a bound of the model
    MaxLength      \* of a transfer: a bound of the model

ASSUME AvrAssumption ==
    /\ CpuFrequency \in Nat /\ CpuFrequency >= 128
    /\ Requested \subseteq Nat \ {0}
    /\ {MaxBegun, MaxLength} \subseteq Nat

VARIABLES
    active_low, \* chip_select_active_low: as the device is wired
    bound,      \* context->bus is not NULL
    clock,      \* context->requested_clock_frequency_hz
    reported,   \* spi->settings.clock_frequency_hz of the HAL object
    high,       \* the level written to each pin is HIGH
    output,     \* the pin drives its line
    begun,      \* SPI.begin() calls that no SPI.end() has taken back
    step,       \* the operation under way, its context, the bytes to go
    result      \* of the last transfer

avrVars == <<active_low, bound, clock, reported, high, output, begun, step, result>>

At(name, c, bytes) == step = [name |-> name, context |-> c, bytes |-> bytes]
StepTo(name, c, bytes) == step' = [name |-> name, context |-> c, bytes |-> bytes]
IsIdle == step.name = "idle"

Deasserted(c) == active_low[c]

Dividers == {2, 4, 8, 16, 32, 64, 128}

\* Slip: a clock that is exactly the requested one is divided once more.
EffectiveClockBelow(hz) ==
    LET enough == {d \in Dividers : CpuFrequency \div d < hz} \cup {128}
    IN  CpuFrequency \div (CHOOSE d \in enough : \A other \in enough : d <= other)

\* The loop stops at the first divider that is enough, or at the last.
EffectiveClock(hz) ==
    LET enough == {d \in Dividers : CpuFrequency \div d <= hz} \cup {128}
    IN  CpuFrequency \div (CHOOSE d \in enough : \A other \in enough : d <= other)

AvrInit ==
    /\ active_low \in [Contexts -> BOOLEAN]
    /\ bound = [c \in Contexts |-> FALSE]
    /\ clock = [c \in Contexts |-> 0]
    /\ reported = [c \in Contexts |-> 0]
    /\ high \in [Contexts -> BOOLEAN]
    /\ output = [c \in Contexts |-> FALSE]
    /\ begun = 0
    /\ step = [name |-> "idle", context |-> CHOOSE c \in Contexts : TRUE, bytes |-> 0]
    /\ result = "none"

\* spi_init fills the context and begins the bus, whether or not it was bound;
\* settings that are refused leave everything as it is.
Bind(c) ==
    /\ IsIdle /\ begun < MaxBegun
    /\ bound' = [bound EXCEPT ![c] = TRUE]
    /\ \E hz \in Requested :
           /\ clock' = [clock EXCEPT ![c] = hz]
           /\ reported' = [reported EXCEPT ![c] = EffectiveClock(hz)]
    /\ begun' = begun + 1
    /\ StepTo("bound", c, 0)
    /\ UNCHANGED <<active_low, high, output, result>>

\* Slip: the pin drives its line before it has its level.
WriteLevelLate(c) ==
    /\ At("bound", c, 0)
    /\ output' = [output EXCEPT ![c] = TRUE]
    /\ StepTo("level", c, 0)
    /\ UNCHANGED <<active_low, bound, clock, reported, high, begun, result>>

\* The level comes first, so that the device is not selected for a moment.
WriteLevel(c) ==
    /\ At("bound", c, 0)
    /\ high' = [high EXCEPT ![c] = Deasserted(c)]
    /\ StepTo("level", c, 0)
    /\ UNCHANGED <<active_low, bound, clock, reported, output, begun, result>>

DrivePin(c) ==
    /\ At("level", c, 0)
    /\ output' = [output EXCEPT ![c] = TRUE]
    /\ StepTo("idle", c, 0)
    /\ UNCHANGED <<active_low, bound, clock, reported, high, begun, result>>

\* A transfer of an ended context, or of nothing.
NoTransfer(c) ==
    /\ IsIdle
    /\ result' \in (IF bound[c] THEN {"ok"} ELSE {"io_error"})
    /\ UNCHANGED <<active_low, bound, clock, reported, high, output, begun, step>>

Select(c) ==
    /\ IsIdle /\ bound[c]
    /\ high' = [high EXCEPT ![c] = ~Deasserted(c)]
    /\ \E length \in 1 .. MaxLength : StepTo("bytes", c, length)
    /\ UNCHANGED <<active_low, bound, clock, reported, output, begun, result>>

SendByte(c) ==
    /\ step.name = "bytes" /\ step.context = c /\ step.bytes > 0
    /\ StepTo("bytes", c, step.bytes - 1)
    /\ UNCHANGED <<active_low, bound, clock, reported, high, output, begun, result>>

Deselect(c) ==
    /\ At("bytes", c, 0)
    /\ high' = [high EXCEPT ![c] = Deasserted(c)]
    /\ StepTo("idle", c, 0)
    /\ result' = "ok"
    /\ UNCHANGED <<active_low, bound, clock, reported, output, begun>>

\* Slip: the context keeps its bus.
EndKeepingBus(c) ==
    /\ IsIdle /\ bound[c]
    /\ high' = [high EXCEPT ![c] = Deasserted(c)]
    /\ begun' = begun - 1
    /\ UNCHANGED <<active_low, bound, clock, reported, output, step, result>>

\* spi_end takes one reference back; ending an ended context does nothing.
End(c) ==
    /\ IsIdle /\ bound[c]
    /\ high' = [high EXCEPT ![c] = Deasserted(c)]
    /\ begun' = begun - 1
    /\ bound' = [bound EXCEPT ![c] = FALSE]
    /\ UNCHANGED <<active_low, clock, reported, output, step, result>>

AvrNext ==
    \E c \in Contexts :
        \/ Bind(c) \/ WriteLevel(c) \/ DrivePin(c)
        \/ NoTransfer(c) \/ Select(c) \/ SendByte(c) \/ Deselect(c)
        \/ End(c)

AvrSpec == AvrInit /\ [][AvrNext]_avrVars

(***************************************************************************)
(* Properties                                                              *)
(***************************************************************************)
\* A device is selected exactly while its own bytes are sent: initializing or
\* ending a context selects none, not even for a moment, and no two contexts
\* have the bus at once.
SelectedToTransfer ==
    \A c \in Contexts :
        output[c] => (high[c] # Deasserted(c) <=> step.name = "bytes" /\ step.context = c)

\* Every context that can transfer holds the bus: however initializations, ends
\* and transfers follow each other, no byte goes to a bus that was given back.
BoundBusIsBegun == Cardinality({c \in Contexts : bound[c]}) <= begun

\* The clock that drivers check is the one the device will see: the fastest that
\* is no faster than the request, or the slowest there is.
ReportedClockIsReal ==
    \A c \in Contexts : bound[c] =>
        LET served == {CpuFrequency \div d : d \in Dividers}
        IN  /\ reported[c] \in served
            /\ \A hz \in served : hz <= clock[c] => hz <= reported[c]
            /\ reported[c] > clock[c] => \A hz \in served : reported[c] <= hz
=============================================================================
