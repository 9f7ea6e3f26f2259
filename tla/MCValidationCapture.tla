------------------------- MODULE MCValidationCapture -------------------------
(***************************************************************************)
(* Instances of the capture helper for TLC.                                *)
(***************************************************************************)
EXTENDS ValidationCapture

\* A capture, its retry, and one more that finds the label complete.
MCThree == {"first", "retry", "late"}
MCTwo == {"first", "second"}
=============================================================================
