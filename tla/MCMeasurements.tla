--------------------------- MODULE MCMeasurements ---------------------------
(***************************************************************************)
(* What becomes of measurements, for TLC: those of a simulated device that *)
(* are captured and summarized, or one that a caller assembles and both    *)
(* languages judge.  Every behaviour is one of either, with the other at   *)
(* rest in one of its initial states.                                      *)
(***************************************************************************)
EXTENDS MCCaptureRows, MCMeasurementContract

VARIABLE made

measurementVars == <<made, vars, contractVars>>

MeasurementsInit ==
    /\ made \in {"captured", "assembled"}
    /\ Init
    /\ ContractInit
    /\ made = "assembled" => steps = <<Failure>> /\ repeat

CaptureStep == made = "captured" /\ Next /\ UNCHANGED <<made, contractVars>>
AssembleStep == made = "assembled" /\ ContractNext /\ UNCHANGED <<made, vars>>

MeasurementsNext == CaptureStep \/ AssembleStep

MeasurementsSpec == MeasurementsInit /\ [][MeasurementsNext]_measurementVars
=============================================================================
