------------------------- MODULE MeasurementContract -------------------------
(***************************************************************************)
(* What a measurement is, in both implementations.  A caller assembles one *)
(* in the storage of the C core, in any order; at every moment the C core  *)
(* judges the storage, and the Python constructors would judge the objects *)
(* that it describes.                                                      *)
(*                                                                         *)
(* A text is absent, blank (white space, or empty), a text, or "separator":*)
(* characters that str.strip() removes and the C core does not, which are  *)
(* U+001C to U+001F and the white space beyond ASCII.                      *)
(***************************************************************************)
EXTENDS Naturals, Sequences

CONSTANTS
    DiagnosticCodes,  \* the vocabulary of both languages
    Diagnostics,      \* the diagnostics a caller appends, well formed or not
    Evidence,         \* the <<identifier, message>> pairs a caller appends
    Capacity,         \* of both arrays
    SizeMax           \* SIZE_MAX

ASSUME MeasurementAssumption ==
    /\ Capacity \in Nat /\ SizeMax \in Nat /\ Capacity <= SizeMax
    /\ \A d \in Diagnostics : {d.offset, d.count} \subseteq 0 .. SizeMax

VARIABLES
    resistance, uncertainty,  \* numbers; Absent when the flag is false
    diagnostics,              \* the first diagnostic_count entries
    evidence                  \* the first native_evidence_count entries

contractVars == <<resistance, uncertainty, diagnostics, evidence>>

Absent == "absent"
Numbers == {Absent, "good", "negative", "not_finite"}
Severities == {"WARNING", "FAULT"}

(***************************************************************************)
(* Assembling                                                              *)
(***************************************************************************)
ContractInit ==
    /\ resistance = Absent
    /\ uncertainty = Absent
    /\ diagnostics = <<>>
    /\ evidence = <<>>

\* rtd_acquire_measurement_reset: the storage stays bound.
MeasurementReset ==
    /\ resistance' = Absent
    /\ uncertainty' = Absent
    /\ diagnostics' = <<>>
    /\ evidence' = <<>>

SetNumbers ==
    /\ resistance' \in Numbers
    /\ uncertainty' \in Numbers
    /\ UNCHANGED <<diagnostics, evidence>>

AppendDiagnostic ==
    /\ Len(diagnostics) < Capacity
    /\ \E d \in Diagnostics : diagnostics' = Append(diagnostics, d)
    /\ UNCHANGED <<resistance, uncertainty, evidence>>

AppendEvidence ==
    /\ Len(evidence) < Capacity
    /\ \E e \in Evidence : evidence' = Append(evidence, e)
    /\ UNCHANGED <<resistance, uncertainty, diagnostics>>

ContractNext == MeasurementReset \/ SetNumbers \/ AppendDiagnostic \/ AppendEvidence

ContractSpec == ContractInit /\ [][ContractNext]_contractVars

(***************************************************************************)
(* What both constructors and the C core test                              *)
(***************************************************************************)
NumberIsValid(number) == number \in {Absent, "good"}

CodesAreDistinct == \A i, j \in DOMAIN diagnostics : diagnostics[i].code = diagnostics[j].code => i = j

HoldsFault == \E i \in DOMAIN diagnostics : diagnostics[i].severity = "FAULT"

\* Slip: the uncertainty of a fault is not looked at.
ResultIsConsistentButForUncertainty == HoldsFault <=> resistance = Absent

ResultIsConsistent ==
    IF HoldsFault THEN resistance = Absent /\ uncertainty = Absent ELSE resistance # Absent

(***************************************************************************)
(* The C core                                                              *)
(***************************************************************************)
\* The subtraction is one of unsigned integers, made when it cannot wrap.
EvidenceFits(d) ==
    /\ d.offset <= Len(evidence)
    /\ d.count <= (Len(evidence) + SizeMax + 1 - d.offset) % (SizeMax + 1)

EvidenceOf(d) == d.offset + 1 .. d.offset + d.count

\* The entries that the validation reads.
EvidenceRead == UNION {EvidenceOf(d) : d \in {e \in {diagnostics[i] : i \in DOMAIN diagnostics} : EvidenceFits(e)}}

CHasContent(text) == text \in {"separator", "text"}

\* The enumerations of C are integers, any of which a caller may have stored.
InVocabulary(d) == d.code \in DiagnosticCodes /\ d.severity \in Severities

CAccepts ==
    /\ Len(diagnostics) <= Capacity /\ Len(evidence) <= Capacity
    /\ NumberIsValid(resistance) /\ NumberIsValid(uncertainty)
    /\ \A i \in DOMAIN diagnostics :
           LET d == diagnostics[i] IN
           /\ InVocabulary(d)
           /\ EvidenceFits(d)
           /\ \A n \in EvidenceOf(d) : CHasContent(evidence[n][1]) \/ CHasContent(evidence[n][2])
    /\ CodesAreDistinct
    /\ ResultIsConsistent

CStatus ==
    IF HoldsFault THEN "FAULT" ELSE IF diagnostics # <<>> THEN "WARNING" ELSE "OK"

(***************************************************************************)
(* Python                                                                  *)
(***************************************************************************)
\* What NativeEvidence accepts.
NativeEvidenceIsValid(e) == "text" \in {e[1], e[2]}

\* The storage describes a tuple of Diagnostic objects, each with evidence of its
\* own.  Diagnostic tests neither its code nor its severity.
DescribesDiagnostics ==
    \A i \in DOMAIN diagnostics :
        LET d == diagnostics[i] IN
        EvidenceOf(d) \subseteq DOMAIN evidence /\ d.offset <= Len(evidence)

\* What Measurement.__post_init__ accepts of them.
PythonAccepts ==
    /\ DescribesDiagnostics
    /\ \A i \in DOMAIN diagnostics :
           \A n \in EvidenceOf(diagnostics[i]) : NativeEvidenceIsValid(evidence[n])
    /\ CodesAreDistinct
    /\ NumberIsValid(resistance) /\ NumberIsValid(uncertainty)
    /\ IF HoldsFault THEN resistance = Absent /\ uncertainty = Absent ELSE resistance # Absent

PythonStatus ==
    IF HoldsFault THEN "FAULT" ELSE IF Len(diagnostics) > 0 THEN "WARNING" ELSE "OK"

(***************************************************************************)
(* Properties                                                              *)
(***************************************************************************)
\* A text that the C core takes for content, although Python strips all of it.
Separates(e) == "text" \notin {e[1], e[2]} /\ "separator" \in {e[1], e[2]}

\* Only two things that a measurement can hold divide the languages: a code or a
\* severity outside the vocabulary, which Python does not notice, and evidence of
\* separator characters, which C does not.  Without them each accepts what the
\* other does, wherever the ranges of evidence lie; and what either accepts has the
\* same status in both, a fault exactly when there is no resistance.
LanguagesJudgeAlike ==
    /\ PythonAccepts /\ (\A i \in DOMAIN diagnostics : InVocabulary(diagnostics[i]))
           <=> CAccepts /\ (\A n \in EvidenceRead : ~Separates(evidence[n]))
    /\ PythonAccepts \/ CAccepts => /\ CStatus = PythonStatus
                                    /\ CStatus = "FAULT" <=> resistance = Absent

\* "The C validation helper enforces the same core invariants as Python ...
\* non-empty native evidence" (design document): neither language accepts a
\* measurement that the other refuses.
LanguagesAcceptAlike == PythonAccepts <=> CAccepts
=============================================================================
