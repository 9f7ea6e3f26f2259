---------------------------- MODULE ReadArguments ----------------------------
(***************************************************************************)
(* The numbers of a read before its first transfer: the thresholds, which  *)
(* Python encodes when the configuration is made and C at the beginning of *)
(* the call, and after them the waits that C computes from the time        *)
(* constant of the input filter and its delay HAL then spends.             *)
(***************************************************************************)
EXTENDS MAX31865Timing, ThresholdEncoding

ArgumentsInit == Init /\ RequestInit

\* The configuration is checked first; a call that it refuses ends there.
ArgumentsNext ==
    \/ pc = "compute" /\ Configure /\ UNCHANGED vars
    \/ c.accepted /\ Next /\ UNCHANGED requestVars

ArgumentsSpec == ArgumentsInit /\ [][ArgumentsNext]_<<vars, requestVars>>
=============================================================================
