------------------------- MODULE MCValidationRecord -------------------------
(***************************************************************************)
(* Instances of the record initializer for TLC.                            *)
(***************************************************************************)
EXTENDS ValidationRecord

MCCreators == {"first", "second"}
MCCaptures == {"capture"}
=============================================================================
