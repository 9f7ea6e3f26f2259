------------------------- MODULE MCLinuxSpidevDevice -------------------------
(***************************************************************************)
(* Instances of the Linux adapter for TLC.                                 *)
(***************************************************************************)
EXTENDS LinuxSpidevDevice

MCConnections == {"first", "second"}

Converter == [polarity |-> 0, phase |-> 1, clock |-> 5, order |-> "msb_first",
              bits |-> 8, csActiveLow |-> TRUE]

\* What the users ask for: what the converter needs, in either of its modes, a
\* longer word, everything else, and something invalid.
MCRequests ==
    {Converter,
     [Converter EXCEPT !.polarity = 1],
     [Converter EXCEPT !.bits = 16],
     [Converter EXCEPT !.phase = 0, !.clock = 6, !.order = "lsb_first", !.csActiveLow = FALSE],
     [Converter EXCEPT !.clock = 0]}
=============================================================================
