------------------------ MODULE MCMeasurementContract ------------------------
(***************************************************************************)
(* Instances of the measurement contract for TLC.                          *)
(***************************************************************************)
EXTENDS MeasurementContract

\* Evidence ranges that are empty, whole, adjacent, beyond the end, or so long
\* that their end wraps around.
Ranges == {<<0, 0>>, <<0, 1>>, <<1, 1>>, <<0, 2>>, <<2, 1>>, <<1, SizeMax>>}

\* Two codes, both severities, and an integer outside each enumeration.
Kinds == {<<"open", "FAULT">>, <<"open", "WARNING">>, <<"low", "WARNING">>,
          <<"undefined", "WARNING">>, <<"low", "undefined">>}

MCDiagnostics ==
    {[code |-> k[1], severity |-> k[2], offset |-> r[1], count |-> r[2]] : k \in Kinds, r \in Ranges}

MCEvidence ==
    {<<"blank", "absent">>, <<"text", "absent">>, <<"blank", "text">>, <<"separator", "blank">>}
=============================================================================
