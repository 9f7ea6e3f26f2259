----------------------------- MODULE CaptureRows -----------------------------
(***************************************************************************)
(* capture_measurements() over a simulated device, and the summary that    *)
(* summarize_rows() makes of the rows.  The device is also read and reset  *)
(* between captures; a capture goes on from where the script is.           *)
(***************************************************************************)
EXTENDS SimulatedDevice, FiniteSetsExt, SequencesExt

CONSTANT MaxCount   \* the largest --count: a bound of the model

ASSUME CountAssumption == MaxCount \in Nat

VARIABLES
    requested,   \* the rows that the capture in progress still takes
    rows,        \* the rows of the last capture
    count,       \* the --count of the last capture
    start        \* history: the entries given before it

vars == <<deviceVars, requested, rows, count, start>>

Init ==
    /\ DeviceInit
    /\ requested = 0
    /\ rows = <<>>
    /\ count = 0
    /\ start = 0

(***************************************************************************)
(* capture_measurements()                                                  *)
(***************************************************************************)
\* A count that is not positive is refused.
BeginCapture ==
    /\ requested = 0
    /\ read_count < MaxReads
    /\ count' \in 1 .. MaxCount
    /\ requested' = count'
    /\ rows' = <<>>
    /\ start' = read_count
    /\ UNCHANGED deviceVars

Row(sequence, outcome) ==
    [sequence |-> sequence,
     outcome  |-> IF outcome.kind = "returned" THEN "measurement" ELSE "acquisition_error",
     measurement |-> outcome.entry]

\* Slip: an attempt that fails leaves no row.
CaptureRowOfSuccess ==
    /\ requested > 0
    /\ Read
    /\ rows' = IF last'.kind = "returned" THEN Append(rows, Row(Len(rows) + 1, last')) ELSE rows
    /\ requested' = requested - 1
    /\ UNCHANGED <<count, start>>

\* One attempt makes one row, whether it gives a measurement or an error.
CaptureRow ==
    /\ requested > 0
    /\ Read
    /\ rows' = Append(rows, Row(Len(rows) + 1, last'))
    /\ requested' = requested - 1
    /\ UNCHANGED <<count, start>>

UserReads ==
    /\ requested = 0
    /\ read_count < MaxReads
    /\ Read
    /\ UNCHANGED <<requested, rows, count, start>>

UserResets == requested = 0 /\ Reset /\ UNCHANGED <<requested, rows, count, start>>

Next == BeginCapture \/ CaptureRow \/ UserReads \/ UserResets

Spec == Init /\ [][Next]_vars

(***************************************************************************)
(* summarize_rows()                                                        *)
(***************************************************************************)
Statuses == {"ok", "warning", "fault"}

\* Measurement.status
Status(m) ==
    IF HasFault(m.diagnostics) THEN "fault" ELSE IF m.diagnostics # {} THEN "warning" ELSE "ok"

NoCounts ==
    [errors |-> 0, measurements |-> 0, statuses |-> [status \in Statuses |-> 0],
     codes |-> [bit \in FaultBits |-> 0], resistances |-> <<>>]

\* Slip: the resistance is kept whenever there is no diagnostic.
CountRowOfOk(counts, row) ==
    LET m == row.measurement IN
    IF row.outcome = "acquisition_error"
    THEN [counts EXCEPT !.errors = @ + 1]
    ELSE [counts EXCEPT
            !.measurements = @ + 1,
            !.statuses[Status(m)] = @ + 1,
            !.codes = [bit \in FaultBits |-> @[bit] + (IF bit \in m.diagnostics THEN 1 ELSE 0)],
            !.resistances = IF m.diagnostics = {} THEN Append(@, m.resistance) ELSE @]

\* The body of the loop over the rows.
CountRow(counts, row) ==
    LET m == row.measurement IN
    IF row.outcome = "acquisition_error"
    THEN [counts EXCEPT !.errors = @ + 1]
    ELSE [counts EXCEPT
            !.measurements = @ + 1,
            !.statuses[Status(m)] = @ + 1,
            !.codes = [bit \in FaultBits |-> @[bit] + (IF bit \in m.diagnostics THEN 1 ELSE 0)],
            !.resistances = IF m.resistance = NoResistance THEN @ ELSE Append(@, m.resistance)]

\* The numbers of the summary.  The mean is the fraction total / count; which
\* statistics are null is told, the value of the deviation is not.
SummaryOf(captured) ==
    LET counts == FoldLeft(CountRow, NoCounts, captured)
        values == counts.resistances
    IN  [capture_count         |-> Len(captured),
         measurement_count     |-> counts.measurements,
         operation_error_count |-> Len(captured) - counts.measurements,
         status_counts         |-> counts.statuses,
         diagnostic_code_counts |-> counts.codes,
         count                 |-> Len(values),
         total                 |-> FoldLeft(LAMBDA sum, v : sum + v, 0, values),
         minimum |-> IF values = <<>> THEN NoResistance ELSE Min(ToSet(values)),
         maximum |-> IF values = <<>> THEN NoResistance ELSE Max(ToSet(values)),
         has_deviation |-> Len(values) >= 2]

(***************************************************************************)
(* Properties                                                              *)
(***************************************************************************)
\* What the i-th attempt of a capture that began after n entries has to give.
Scripted(n, i) == Promise!EntryAfter(n + i - 1)
Succeeds(n, i) == ~Promise!IsOver(n + i - 1) /\ Scripted(n, i) # Failure

\* Every attempt that was requested has its row, in order, the failed ones
\* included, and the rows are what the script says from where it was: the
\* device and the loop around it lose and repeat nothing, over its end too.
RowsAreTheScript ==
    /\ Len(rows) = count - requested
    /\ \A i \in DOMAIN rows :
          /\ rows[i].sequence = i
          /\ rows[i].outcome = IF Succeeds(start, i) THEN "measurement" ELSE "acquisition_error"
          /\ Succeeds(start, i) => rows[i].measurement = Scripted(start, i)

\* The summary agrees with the script: each attempt is counted once, as an
\* error or under its status; exactly the measurements that are not faults have
\* a resistance, and every reported statistic is of those.
SummaryIsOfTheScript ==
    (requested = 0 /\ rows # <<>>) =>
        LET summary == SummaryOf(rows)
            good    == {i \in 1 .. count : Succeeds(start, i)}
            valued  == {i \in good : ~HasFault(Scripted(start, i).diagnostics)}
        IN  /\ summary.capture_count = count
            /\ summary.measurement_count = Cardinality(good)
            /\ summary.operation_error_count = count - Cardinality(good)
            /\ \A status \in Statuses :
                  summary.status_counts[status]
                      = Cardinality({i \in good : Status(Scripted(start, i)) = status})
            /\ \A bit \in FaultBits :
                  summary.diagnostic_code_counts[bit]
                      = Cardinality({i \in good : bit \in Scripted(start, i).diagnostics})
            /\ summary.count = Cardinality(valued)
            /\ summary.has_deviation <=> Cardinality(valued) >= 2
            /\ summary.minimum * summary.count <= summary.total \/ valued = {}
            /\ summary.total <= summary.maximum * summary.count \/ valued = {}
            /\ \A i \in valued :
                  Scripted(start, i).resistance \in summary.minimum .. summary.maximum
=============================================================================
