------------------------- MODULE MCMAX31865Emulator -------------------------
(***************************************************************************)
(* Instances of the emulator and its clients for TLC.                      *)
(***************************************************************************)
EXTENDS MAX31865Emulator

\* Values within, at and beyond the limits of the arguments.
MCRawCodes == {-1, 8193, 32767, 32768}
MCRawStatuses == {-4, 0, 3, 168, 256}

\* Each operation with and without the bias, pairs of operations in one byte,
\* static and undefined bits, thresholds, both reads, and requests that differ
\* from those in an address or in a length.
MCTransmissions ==
    {<<128, value>> : value \in {0, 2, 4, 6, 17, 32, 36, 72, 128, 130, 132, 134, 160, 167, 255}}
        \cup {<<131, 255, 254, 0, 2>>, <<131, 1, 0, 128, 1>>, <<1, 0, 0>>, <<7, 0>>,
              <<128>>, <<131, 0, 0>>, <<1, 0>>, <<3, 0>>, <<192, 128>>}
=============================================================================
