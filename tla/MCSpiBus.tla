------------------------------ MODULE MCSpiBus ------------------------------
(***************************************************************************)
(* The two ends of an SPI bus for TLC: the emulator under its clients, and *)
(* the AVR adapter under a sketch.  They are never connected to each other,*)
(* so every behaviour is one of either end, with the other at rest in one  *)
(* of its initial states.                                                  *)
(***************************************************************************)
EXTENDS MCMAX31865Emulator, MCArduinoAvrSpi

VARIABLE end

spiVars == <<end, emulatorVars, avrVars>>

Init ==
    /\ end \in {"emulator", "adapter"}
    /\ EmulatorInit
    /\ AvrInit
    /\ end = "emulator" => \A c \in Contexts : active_low[c] /\ high[c]
    /\ end = "adapter" => configured_faults = 0 /\ rtd_code = 8193

StepEmulator == end = "emulator" /\ EmulatorNext /\ UNCHANGED <<end, avrVars>>
StepAdapter == end = "adapter" /\ AvrNext /\ UNCHANGED <<end, emulatorVars>>

Next == StepEmulator \/ StepAdapter

Spec == Init /\ [][Next]_spiVars
=============================================================================
