-------------------------- MODULE ValidationCapture --------------------------
(***************************************************************************)
(* The hardware-validation capture helper: executions of                   *)
(* validation.capture_max31865 that write one label of one record.         *)
(*                                                                         *)
(* An execution opens the SPI device, takes RowCount rows, closes the      *)
(* device, checks that none of its three outputs exists, and writes them   *)
(* one after the other.  Opening, reading, closing, writing and unlinking  *)
(* may each raise; at any point a KeyboardInterrupt may end the execution. *)
(* Nothing but the file system relates one execution to the others.        *)
(***************************************************************************)
EXTENDS Naturals

CONSTANTS
    Commands,    \* the executions
    RowCount,    \* the --count of every execution
    Concurrent   \* executions may overlap in time

ASSUME CaptureAssumption ==
    /\ RowCount \in Nat \ {0}
    /\ Concurrent \in BOOLEAN
    /\ "nobody" \notin Commands

VARIABLES
    pc,        \* where each execution is
    file,      \* the output each execution is at, 1 to 3 (0: the record check)
    rows,      \* the number of rows it has captured
    spi,       \* its connection to the SPI device
    outcome,   \* how it ended
    disk       \* the outputs of the label

vars == <<pc, file, rows, spi, outcome, disk>>

Nobody == "nobody"

Outputs == {"raw", "summary", "manifest"}

\* Slip: the manifest is written before what it describes.
ManifestFirst(i) == <<"manifest", "raw", "summary">>[i]

\* The order in which the outputs are checked, written and removed.
OutputAt(i) == <<"raw", "summary", "manifest">>[i]

\* An output is absent, or has an author (whose truncation or write came
\* last), a content, and the executions that hold it open for writing.
Absent == [author |-> Nobody, content |-> "none", open |-> {}]

Exists(output) == disk[output].author # Nobody

Outcomes == {"none", "written", "refused", "failed", "stranded", "interrupted"}

Init ==
    /\ pc = [c \in Commands |-> "ready"]
    /\ file = [c \in Commands |-> 0]
    /\ rows = [c \in Commands |-> 0]
    /\ spi = [c \in Commands |-> "unopened"]
    /\ outcome = [c \in Commands |-> "none"]
    /\ disk = [output \in Outputs |-> Absent]

Running(c) == pc[c] \notin {"ready", "ended"}

(***************************************************************************)
(* Building blocks                                                         *)
(***************************************************************************)
Goto(c, point) == pc' = [pc EXCEPT ![c] = point]

\* The execution ends.  An earlier reason for its end takes precedence.
End(c, how) ==
    /\ Goto(c, "ended")
    /\ outcome' = [outcome EXCEPT ![c] = IF @ = "none" THEN how ELSE @]
    /\ disk' = [output \in Outputs |-> [disk[output] EXCEPT !.open = @ \ {c}]]
    /\ file' = [file EXCEPT ![c] = 0]

(***************************************************************************)
(* main(): the part in the `with' statement                                *)
(***************************************************************************)
Start(c) ==
    /\ pc[c] = "ready"
    /\ Concurrent \/ \A other \in Commands : ~Running(other)
    /\ Goto(c, "open")
    /\ UNCHANGED <<file, rows, spi, outcome, disk>>

\* A failed open closes the backend, and ignores a failure to do so.
OpenDevice(c) ==
    /\ pc[c] = "open"
    /\ \/ /\ spi' = [spi EXCEPT ![c] = "open"]
          /\ Goto(c, "capture")
          /\ UNCHANGED <<file, outcome, disk>>
       \/ /\ \E state \in {"closed", "leaked"} : spi' = [spi EXCEPT ![c] = state]
          /\ End(c, "failed")
    /\ UNCHANGED rows

\* One attempt: a measurement, or an RtdAcquireError, makes a row.
CaptureRow(c) ==
    /\ pc[c] = "capture"
    /\ rows' = [rows EXCEPT ![c] = @ + 1]
    /\ Goto(c, IF rows[c] + 1 = RowCount THEN "close" ELSE "capture")
    /\ UNCHANGED <<file, spi, outcome, disk>>

\* Slip: any exception ends the loop and keeps the rows captured so far.
CaptureFailsQuietly(c) ==
    /\ pc[c] = "capture"
    /\ Goto(c, "close")
    /\ UNCHANGED <<file, rows, spi, outcome, disk>>

\* Any other exception leaves the loop and loses its rows.
CaptureFails(c) ==
    /\ pc[c] = "capture"
    /\ Goto(c, "close_failing")
    /\ UNCHANGED <<file, rows, spi, outcome, disk>>

\* Slip: the device is closed on the normal path only.
CloseWhenSuccessful(c) ==
    /\ pc[c] \in {"close", "close_failing"}
    /\ \/ /\ spi' = IF pc[c] = "close" THEN [spi EXCEPT ![c] = "closed"] ELSE spi
          /\ IF pc[c] = "close"
             THEN Goto(c, "check") /\ UNCHANGED <<file, outcome, disk>>
             ELSE End(c, "failed")
       \/ /\ spi' = [spi EXCEPT ![c] = "leaked"]
          /\ End(c, "failed")
    /\ UNCHANGED rows

\* LinuxSpidevDevice.__exit__: a close that raises takes the place of
\* whatever was in flight, and no row is written.
CloseDevice(c) ==
    /\ pc[c] \in {"close", "close_failing"}
    /\ \/ /\ spi' = [spi EXCEPT ![c] = "closed"]
          /\ IF pc[c] = "close"
             THEN Goto(c, "check") /\ UNCHANGED <<file, outcome, disk>>
             ELSE End(c, "failed")
       \/ /\ spi' = [spi EXCEPT ![c] = "leaked"]
          /\ End(c, "failed")
    /\ UNCHANGED rows

(***************************************************************************)
(* write_capture()                                                         *)
(***************************************************************************)
\* The record may turn out not to be an initialized one.
CheckRecord(c) ==
    /\ pc[c] = "check"
    /\ file[c] = 0
    /\ \/ /\ file' = [file EXCEPT ![c] = 1]
          /\ UNCHANGED <<pc, outcome, disk>>
       \/ End(c, "refused")
    /\ UNCHANGED <<rows, spi>>

\* Slip: the outputs are not looked for.
CheckOutputOmitted(c) ==
    /\ pc[c] = "check"
    /\ file[c] > 0
    /\ Goto(c, "create")
    /\ UNCHANGED <<file, rows, spi, outcome, disk>>

\* None of the outputs may exist; each is looked for in turn.
CheckOutput(c) ==
    /\ pc[c] = "check"
    /\ file[c] > 0
    /\ IF Exists(OutputAt(file[c]))
       THEN End(c, "refused")
       ELSE /\ Goto(c, IF file[c] = 3 THEN "create" ELSE "check")
            /\ file' = [file EXCEPT ![c] = (@ % 3) + 1]
            /\ UNCHANGED <<outcome, disk>>
    /\ UNCHANGED <<rows, spi>>

Cleanup(c) ==
    /\ Goto(c, "unlink")
    /\ file' = [file EXCEPT ![c] = 1]

\* Slip: an output that cannot be created is reported without cleaning up.
CreateOutputUnguarded(c) ==
    LET output == OutputAt(file[c]) IN
    /\ pc[c] = "create"
    /\ \/ /\ Goto(c, "write")
          /\ disk' = [disk EXCEPT ![output].author = c, ![output].content = "empty",
                                  ![output].open = @ \cup {c}]
          /\ UNCHANGED <<file, outcome>>
       \/ End(c, "failed")
    /\ UNCHANGED <<rows, spi>>

\* write_bytes opens for writing, which truncates what is there ...
CreateOutput(c) ==
    LET output == OutputAt(file[c]) IN
    /\ pc[c] = "create"
    /\ \/ /\ Goto(c, "write")
          /\ disk' = [disk EXCEPT ![output].author = c, ![output].content = "empty",
                                  ![output].open = @ \cup {c}]
          /\ UNCHANGED file
       \/ /\ Cleanup(c)
          /\ UNCHANGED disk
    /\ UNCHANGED <<rows, spi, outcome>>

\* ... then writes and closes.  What was opened and unlinked meanwhile is lost;
\* over the content of another execution the result may be a mixture.
Written(c, output, contents) ==
    IF c \in disk[output].open
    THEN \E content \in contents :
            disk' = [disk EXCEPT ![output].author = c, ![output].content = content,
                                 ![output].open = @ \ {c}]
    ELSE UNCHANGED disk

WriteOutput(c) ==
    LET output == OutputAt(file[c]) IN
    /\ pc[c] = "write"
    /\ Written(c, output, IF disk[output].content = "empty" THEN {"whole"}
                                                            ELSE {"whole", "partial"})
    /\ IF file[c] = 3
       THEN /\ Goto(c, "ended")
            /\ outcome' = [outcome EXCEPT ![c] = "written"]
            /\ file' = [file EXCEPT ![c] = 0]
       ELSE /\ Goto(c, "create")
            /\ file' = [file EXCEPT ![c] = @ + 1]
            /\ UNCHANGED outcome
    /\ UNCHANGED <<rows, spi>>

\* The write may fail at once, on the way, or at the final close.
WriteFails(c) ==
    /\ pc[c] = "write"
    /\ Written(c, OutputAt(file[c]), {"empty", "partial", "whole"})
    /\ Cleanup(c)
    /\ UNCHANGED <<rows, spi, outcome>>

\* Slip: an unlink that fails begins the cleanup again.
UnlinkRestarted(c) ==
    /\ pc[c] = "unlink"
    /\ \/ /\ disk' = [disk EXCEPT ![OutputAt(file[c])] = Absent]
          /\ file' = [file EXCEPT ![c] = (@ + 1) % 4]
          /\ Goto(c, IF file[c] = 3 THEN "ended" ELSE "unlink")
          /\ outcome' = [outcome EXCEPT ![c] = IF file[c] = 3 THEN "failed" ELSE @]
       \/ /\ file' = [file EXCEPT ![c] = 1]
          /\ UNCHANGED <<disk, pc, outcome>>
    /\ UNCHANGED <<rows, spi>>

\* The three outputs are removed, whoever wrote them; an OSError is ignored.
Unlink(c) ==
    /\ pc[c] = "unlink"
    /\ \/ /\ disk' = [disk EXCEPT ![OutputAt(file[c])] = Absent]
          /\ outcome' = [outcome EXCEPT
                            ![c] = IF @ = "none" /\ file[c] = 3 THEN "failed" ELSE @]
       \/ /\ UNCHANGED disk
          /\ outcome' = [outcome EXCEPT ![c] = "stranded"]
    /\ file' = [file EXCEPT ![c] = (@ + 1) % 4]
    /\ Goto(c, IF file[c] = 3 THEN "ended" ELSE "unlink")
    /\ UNCHANGED <<rows, spi>>

\* What an interrupt in the constructor or in the close leaves of the connection.
Abandoned(connection) ==
    CASE connection = "unopened" -> {"unopened", "leaked"}
      [] connection = "open" -> {"closed", "leaked"}
      [] OTHER -> {connection}

\* A KeyboardInterrupt is not an Exception: `with' still closes the device, a write
\* stops where it is, and the cleanup of write_capture() is skipped, or abandoned
\* with outputs left.
Interrupt(c) ==
    /\ Running(c)
    /\ IF pc[c] = "capture"
       THEN /\ Goto(c, "close_failing")
            /\ outcome' = [outcome EXCEPT ![c] = "interrupted"]
            /\ UNCHANGED <<file, disk, spi>>
       ELSE /\ Goto(c, "ended")
            /\ outcome' = [outcome EXCEPT
                              ![c] = IF pc[c] = "unlink" THEN "stranded" ELSE "interrupted"]
            /\ IF pc[c] = "write"
               THEN Written(c, OutputAt(file[c]), {"empty", "partial", "whole"})
               ELSE UNCHANGED disk
            /\ file' = [file EXCEPT ![c] = 0]
            /\ \E left \in Abandoned(spi[c]) : spi' = [spi EXCEPT ![c] = left]
    /\ UNCHANGED rows

Step(c) ==
    \/ OpenDevice(c)
    \/ CaptureRow(c)
    \/ CaptureFails(c)
    \/ CloseDevice(c)
    \/ CheckRecord(c)
    \/ CheckOutput(c)
    \/ CreateOutput(c)
    \/ WriteOutput(c)
    \/ WriteFails(c)
    \/ Unlink(c)

Next == \E c \in Commands : Start(c) \/ Step(c) \/ Interrupt(c)

Spec == Init /\ [][Next]_vars

\* The operating system keeps executing an execution that has been started.
FairSpec == Spec /\ \A c \in Commands : WF_vars(Step(c))

(***************************************************************************)
(* Properties                                                              *)
(***************************************************************************)
\* The label holds the capture of c, in full.
IsCaptureOf(c) ==
    \A output \in Outputs : disk[output].author = c /\ disk[output].content = "whole"

\* The manifest is the commit point: a label whose manifest is whole has its
\* other two outputs, whole and of the same execution, whatever interrupted or
\* failed executions preceded it.  The exception is a cleanup under way or cut
\* short: it removes the manifest last.
ManifestCommitsCapture ==
    LET author == disk["manifest"].author IN
    disk["manifest"].content = "whole" =>
        IsCaptureOf(author) \/ pc[author] = "unlink" \/ outcome[author] = "stranded"

\* "An existing completed label is still never overwritten": what write_capture
\* has reported as written stays as it was written.
WrittenIsKept ==
    \A c \in Commands : outcome[c] = "written" => IsCaptureOf(c)

\* When nothing is executing, a label is either free or complete, unless an
\* execution was interrupted or could not remove what it had written.
NothingIsStranded ==
    (/\ \A c \in Commands : ~Running(c)
     /\ \A c \in Commands : outcome[c] \notin {"interrupted", "stranded"})
        => \/ \A output \in Outputs : ~Exists(output)
           \/ \E c \in Commands : outcome[c] = "written" /\ IsCaptureOf(c)

\* "The helper removes the partial outputs so the same label can be retried":
\* when every execution has come to an end without a completed capture, and no
\* unlink failed, no output is left to refuse the retry.
LabelCanBeRetried ==
    (/\ \A c \in Commands : ~Running(c)
     /\ \A c \in Commands : outcome[c] \notin {"written", "stranded"})
        => \A output \in Outputs : ~Exists(output)

\* What is on disk was captured in full: every requested attempt has its row,
\* the failed ones included.
OutputsHoldEveryRow ==
    \A output \in Outputs :
        Exists(output) => rows[disk[output].author] = RowCount

\* The SPI device is closed while outputs are looked for, written and removed.  An
\* execution that is over does not go on using it; it has leaked it only when
\* opening or closing it raised or was interrupted, and then ends as failed or
\* interrupted, never as refused or written.
DeviceIsReleased ==
    \A c \in Commands :
        /\ pc[c] \in {"check", "create", "write", "unlink"} => spi[c] = "closed"
        /\ pc[c] = "ended" => spi[c] # "open"
        /\ spi[c] = "leaked" => pc[c] = "ended" /\ outcome[c] \in {"failed", "interrupted"}

\* Every execution that is started comes to its end.
ExecutionsEnd == \A c \in Commands : (pc[c] = "open") ~> (pc[c] = "ended")
=============================================================================
