---------------------------- MODULE MCCaptureRows ----------------------------
(***************************************************************************)
(* Instances of the capture loop over a simulated device for TLC.          *)
(***************************************************************************)
EXTENDS CaptureRows

Good(ohms) == [resistance |-> ohms, diagnostics |-> {}]
Warned(ohms) == [resistance |-> ohms, diagnostics |-> {"D7"}]
Faulty == [resistance |-> NoResistance, diagnostics |-> {"D7", "D2"}]

\* Every kind of entry, at both ends of a script and within it.
MCScripts ==
    {<<Good(100), Failure, Faulty, Warned(104)>>,
     <<Failure, Good(3), Good(0)>>,
     <<Warned(7), Faulty>>,
     <<Failure>>,
     <<Good(5)>>}
=============================================================================
