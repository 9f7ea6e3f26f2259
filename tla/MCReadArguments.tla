--------------------------- MODULE MCReadArguments ---------------------------
(***************************************************************************)
(* An instance of the arguments of a read for TLC: 16-bit durations        *)
(* instead of 32-bit ones and an AVR integer just wide enough; a 4-bit     *)
(* converter and significands of 5 and 7 bits in place of 15, 24 and 53.   *)
(* Every time constant comes with one request, and every request with one  *)
(* time constant.                                                          *)
(***************************************************************************)
EXTENDS ReadArguments

\* Whole multiples of a significand of at most CPrecision bits.
RepresentableInC == {m * 2 ^ e : m \in 0 .. 2 ^ CPrecision - 1, e \in 0 .. 2}

MCReferences == RepresentableInC \cap 27 .. 76
MCThresholds == RepresentableInC \cap 0 .. 80

MCInit ==
    \/ reference = 40 /\ low = Unset /\ high = 25 /\ ArgumentsInit
    \/ tau = 10 /\ ArgumentsInit

MCSpec == MCInit /\ [][ArgumentsNext]_<<vars, requestVars>>
=============================================================================
