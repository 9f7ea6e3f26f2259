--------------------------- MODULE MCArduinoAvrSpi ---------------------------
(***************************************************************************)
(* An instance of the AVR adapter for TLC: a CPU clock that not every      *)
(* divider divides, and requests around each of its clocks.                *)
(***************************************************************************)
EXTENDS ArduinoAvrSpi

\* The ends, a clock exactly, one below it, and one between two clocks.
MCRequested == {1, 7, 500, 499, 300}
=============================================================================
