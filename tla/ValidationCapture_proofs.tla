----------------------- MODULE ValidationCapture_proofs -----------------------
(***************************************************************************)
(* Theorems about the capture helper, for any number of executions and     *)
(* rows.  What concerns the device and the rows holds however executions   *)
(* overlap; what concerns the label as a whole holds when they follow one  *)
(* another.                                                                *)
(***************************************************************************)
EXTENDS ValidationCapture, TLAPS

Writing == {"create", "write", "unlink"}
Points == {"ready", "open", "capture", "close", "close_failing", "check", "ended"} \cup Writing
Connections == {"unopened", "open", "closed", "leaked"}
Contents == {"none", "empty", "partial", "whole"}
Files == [author : Commands \cup {Nobody}, content : Contents, open : SUBSET Commands]

TypeInv ==
    /\ pc \in [Commands -> Points]
    /\ file \in [Commands -> 0 .. 3]
    /\ rows \in [Commands -> Nat]
    /\ spi \in [Commands -> Connections]
    /\ outcome \in [Commands -> Outcomes]
    /\ disk \in [Outputs -> Files]
    /\ \A c \in Commands : pc[c] \in Writing => file[c] \in 1 .. 3

\* The outputs are three, each at its place.
LEMMA OutputAtFacts ==
    /\ \A i \in 1 .. 3 : OutputAt(i) \in Outputs
    /\ \A i, j \in 1 .. 3 : OutputAt(i) = OutputAt(j) => i = j
    /\ \A output \in Outputs : \E i \in 1 .. 3 : output = OutputAt(i)
    /\ OutputAt(3) = "manifest"
<1>1. OutputAt(1) = "raw" /\ OutputAt(2) = "summary" /\ OutputAt(3) = "manifest"
  BY DEF OutputAt
<1>2. 1 .. 3 = {1, 2, 3}
  OBVIOUS
<1> HIDE DEF OutputAt
<1> QED
  BY <1>1, <1>2 DEF Outputs

(***************************************************************************)
(* What a step does to the outputs                                         *)
(***************************************************************************)
\* The execution c closes its files.
CloseAll(c) == disk' = [output \in Outputs |-> [disk[output] EXCEPT !.open = @ \ {c}]]

LEMMA CloseAllFacts ==
    ASSUME TypeInv, NEW c \in Commands, CloseAll(c)
    PROVE  /\ disk' \in [Outputs -> Files]
           /\ \A output \in Outputs :
                 /\ disk'[output].author = disk[output].author
                 /\ disk'[output].content = disk[output].content
                 /\ disk'[output].open = disk[output].open \ {c}
  BY DEF CloseAll, TypeInv, Files

LEMMA CreateOutputFacts ==
    ASSUME TypeInv, NEW c \in Commands, NEW output \in Outputs,
           disk' = [disk EXCEPT ![output].author = c, ![output].content = "empty",
                                ![output].open = @ \cup {c}]
    PROVE  /\ disk' \in [Outputs -> Files]
           /\ disk'[output].author = c
           /\ disk'[output].content = "empty"
           /\ disk'[output].open = disk[output].open \cup {c}
           /\ \A other \in Outputs \ {output} : disk'[other] = disk[other]
  BY DEF TypeInv, Files, Contents

LEMMA WrittenFacts ==
    ASSUME TypeInv, NEW c \in Commands, NEW output \in Outputs,
           NEW contents \in SUBSET Contents, Written(c, output, contents)
    PROVE  /\ disk' \in [Outputs -> Files]
           /\ IF c \in disk[output].open
              THEN /\ disk'[output].author = c
                   /\ disk'[output].content \in contents
                   /\ disk'[output].open = disk[output].open \ {c}
              ELSE disk'[output] = disk[output]
           /\ \A other \in Outputs \ {output} : disk'[other] = disk[other]
<1>1. CASE c \in disk[output].open
  <2>1. PICK content \in contents :
            disk' = [disk EXCEPT ![output].author = c, ![output].content = content,
                                 ![output].open = @ \ {c}]
    BY <1>1 DEF Written
  <2>2. content \in Contents
    OBVIOUS
  <2> QED
    BY <1>1, <2>1, <2>2 DEF TypeInv, Files
<1>2. CASE c \notin disk[output].open
  BY <1>2 DEF Written, TypeInv
<1> QED
  BY <1>1, <1>2

LEMMA AbsentFacts ==
    /\ Absent \in Files
    /\ Absent.author = Nobody
    /\ Absent.content = "none"
    /\ Absent.open = {}
<1>1. Nobody \in Commands \cup {Nobody} /\ "none" \in Contents /\ {} \in SUBSET Commands
  BY DEF Contents
<1>2. Absent \in Files
  BY <1>1 DEF Absent, Files
<1> QED
  BY <1>2, Zenon DEF Absent

LEMMA UnlinkFacts ==
    ASSUME TypeInv, NEW output \in Outputs, disk' = [disk EXCEPT ![output] = Absent]
    PROVE  /\ disk' \in [Outputs -> Files]
           /\ disk'[output] = Absent
           /\ \A other \in Outputs \ {output} : disk'[other] = disk[other]
  BY AbsentFacts DEF TypeInv

(***************************************************************************)
(* What a step does to the executions                                      *)
(***************************************************************************)
Act(c) == Start(c) \/ Step(c) \/ Interrupt(c)

\* A step of c is about c only, except for what it does to the outputs.
Frame(c) ==
    \A d \in Commands \ {c} :
        /\ pc'[d] = pc[d]
        /\ file'[d] = file[d]
        /\ rows'[d] = rows[d]
        /\ spi'[d] = spi[d]
        /\ outcome'[d] = outcome[d]

Typed(c) ==
    /\ pc' \in [Commands -> Points]
    /\ file' \in [Commands -> 0 .. 3]
    /\ rows' \in [Commands -> Nat]
    /\ spi' \in [Commands -> Connections]
    /\ outcome' \in [Commands -> Outcomes]
    /\ disk' \in [Outputs -> Files]
    /\ pc'[c] \in Writing => file'[c] \in 1 .. 3

LEMMA EndFacts ==
    ASSUME TypeInv, NEW c \in Commands, NEW how \in Outcomes, End(c, how)
    PROVE  /\ pc' \in [Commands -> Points] /\ pc'[c] = "ended"
           /\ file' \in [Commands -> 0 .. 3] /\ file'[c] = 0
           /\ outcome' \in [Commands -> Outcomes]
           /\ outcome'[c] = IF outcome[c] = "none" THEN how ELSE outcome[c]
           /\ \A d \in Commands \ {c} :
                 pc'[d] = pc[d] /\ file'[d] = file[d] /\ outcome'[d] = outcome[d]
           /\ CloseAll(c)
  BY DEF TypeInv, End, Goto, CloseAll, Points

\* An interrupt changes the output that is being written, and nothing else on disk.
LEMMA InterruptFacts ==
    ASSUME TypeInv, NEW c \in Commands, Interrupt(c)
    PROVE  /\ disk' \in [Outputs -> Files]
           /\ pc[c] # "write" => disk' = disk
           /\ pc[c] = "write" =>
                 /\ OutputAt(file[c]) \in Outputs
                 /\ Written(c, OutputAt(file[c]), {"empty", "partial", "whole"})
           /\ spi' \in [Commands -> Connections]
           /\ \A d \in Commands \ {c} : spi'[d] = spi[d]
           /\ pc[c] # "capture" => spi'[c] \in Abandoned(spi[c])
<1>1. /\ disk' \in [Outputs -> Files]
      /\ pc[c] # "write" => disk' = disk
      /\ pc[c] = "write" =>
            /\ OutputAt(file[c]) \in Outputs
            /\ Written(c, OutputAt(file[c]), {"empty", "partial", "whole"})
  <2>1. CASE pc[c] = "write"
    <3>1. OutputAt(file[c]) \in Outputs
      BY <2>1, OutputAtFacts DEF TypeInv, Writing
    <3>2. Written(c, OutputAt(file[c]), {"empty", "partial", "whole"})
      BY <2>1 DEF Interrupt
    <3>3. {"empty", "partial", "whole"} \in SUBSET Contents
      BY DEF Contents
    <3>4. disk' \in [Outputs -> Files]
      BY <3>1, <3>2, <3>3, WrittenFacts
    <3> QED
      BY <2>1, <3>1, <3>2, <3>4
  <2>2. CASE pc[c] # "write"
    <3>1. disk' = disk
      BY <2>2 DEF Interrupt
    <3> QED
      BY <2>2, <3>1 DEF TypeInv
  <2> QED
    BY <2>1, <2>2
<1>2. CASE pc[c] = "capture"
  <2>1. spi' = spi
    BY <1>2 DEF Interrupt
  <2> QED
    BY <1>1, <1>2, <2>1 DEF TypeInv
<1>3. CASE pc[c] # "capture"
  <2>1. PICK left \in Abandoned(spi[c]) : spi' = [spi EXCEPT ![c] = left]
    BY <1>3 DEF Interrupt
  <2>2. left \in Connections
    BY <2>1 DEF Abandoned, Connections, TypeInv
  <2> QED
    BY <1>1, <2>1, <2>2 DEF TypeInv
<1> QED
  BY <1>2, <1>3

LEMMA ActionType ==
    ASSUME TypeInv, NEW c \in Commands, Act(c)
    PROVE  Typed(c) /\ Frame(c)
<1>1. CASE Start(c)
  BY <1>1 DEF Start, TypeInv, Typed, Frame, Goto, Points, Writing
<1>2. CASE OpenDevice(c)
  <2>1. CASE /\ spi' = [spi EXCEPT ![c] = "open"]
             /\ Goto(c, "capture")
             /\ UNCHANGED <<file, rows, outcome, disk>>
    BY <2>1 DEF TypeInv, Typed, Frame, Goto, Points, Writing, Connections
  <2>2. CASE /\ \E state \in {"closed", "leaked"} : spi' = [spi EXCEPT ![c] = state]
             /\ End(c, "failed") /\ UNCHANGED rows
    <3>1. spi' \in [Commands -> Connections] /\ \A d \in Commands \ {c} : spi'[d] = spi[d]
      BY <2>2 DEF TypeInv, Connections
    <3> QED
      BY <2>2, <3>1, EndFacts, CloseAllFacts DEF TypeInv, Typed, Frame, Writing, Outcomes
  <2> QED
    BY <1>2, <2>1, <2>2 DEF OpenDevice
<1>3. CASE CaptureRow(c)
  BY <1>3 DEF CaptureRow, TypeInv, Typed, Frame, Goto, Points, Writing
<1>4. CASE CaptureFails(c)
  BY <1>4 DEF CaptureFails, TypeInv, Typed, Frame, Goto, Points, Writing
<1>5. CASE CloseDevice(c)
  <2>1. /\ spi' \in [Commands -> Connections] /\ \A d \in Commands \ {c} : spi'[d] = spi[d]
        /\ UNCHANGED rows
    BY <1>5 DEF CloseDevice, TypeInv, Connections
  <2>2. CASE Goto(c, "check") /\ UNCHANGED <<file, outcome, disk>>
    BY <2>1, <2>2 DEF TypeInv, Typed, Frame, Goto, Points, Writing
  <2>3. CASE End(c, "failed")
    BY <2>1, <2>3, EndFacts, CloseAllFacts DEF TypeInv, Typed, Frame, Writing, Outcomes
  <2> QED
    BY <1>5, <2>2, <2>3 DEF CloseDevice
<1>6. CASE CheckRecord(c)
  <2>1. CASE file' = [file EXCEPT ![c] = 1] /\ UNCHANGED <<pc, outcome, disk, rows, spi>>
    BY <2>1 DEF TypeInv, Typed, Frame
  <2>2. CASE End(c, "refused") /\ UNCHANGED <<rows, spi>>
    BY <2>2, EndFacts, CloseAllFacts DEF TypeInv, Typed, Frame, Writing, Outcomes
  <2> QED
    BY <1>6, <2>1, <2>2 DEF CheckRecord
<1>7. CASE CheckOutput(c)
  <2>1. CASE End(c, "refused") /\ UNCHANGED <<rows, spi>>
    BY <2>1, EndFacts, CloseAllFacts DEF TypeInv, Typed, Frame, Writing, Outcomes
  <2>2. CASE /\ Goto(c, IF file[c] = 3 THEN "create" ELSE "check")
             /\ file' = [file EXCEPT ![c] = (@ % 3) + 1]
             /\ UNCHANGED <<outcome, disk, rows, spi>>
    <3>1. (file[c] % 3) + 1 \in 1 .. 3
      BY DEF TypeInv
    <3> QED
      BY <2>2, <3>1 DEF TypeInv, Typed, Frame, Goto, Points, Writing
  <2> QED
    BY <1>7, <2>1, <2>2 DEF CheckOutput
<1>8. CASE CreateOutput(c)
  <2>1. file[c] \in 1 .. 3 /\ OutputAt(file[c]) \in Outputs
    BY <1>8, OutputAtFacts DEF CreateOutput, TypeInv, Writing
  <2>2. disk' \in [Outputs -> Files]
    BY <1>8, <2>1, CreateOutputFacts DEF CreateOutput, TypeInv
  <2> QED
    BY <1>8, <2>1, <2>2 DEF CreateOutput, Cleanup, TypeInv, Typed, Frame, Goto, Points, Writing
<1>9. CASE WriteOutput(c)
  <2>1. file[c] \in 1 .. 3 /\ OutputAt(file[c]) \in Outputs
    BY <1>9, OutputAtFacts DEF WriteOutput, TypeInv, Writing
  <2>2. disk' \in [Outputs -> Files]
    BY <1>9, <2>1, WrittenFacts DEF WriteOutput, Contents
  <2> QED
    BY <1>9, <2>1, <2>2 DEF WriteOutput, TypeInv, Typed, Frame, Goto, Points, Writing, Outcomes
<1>10. CASE WriteFails(c)
  <2>1. file[c] \in 1 .. 3 /\ OutputAt(file[c]) \in Outputs
    BY <1>10, OutputAtFacts DEF WriteFails, TypeInv, Writing
  <2>2. disk' \in [Outputs -> Files]
    BY <1>10, <2>1, WrittenFacts DEF WriteFails, Contents
  <2> QED
    BY <1>10, <2>1, <2>2 DEF WriteFails, Cleanup, TypeInv, Typed, Frame, Goto, Points, Writing
<1>11. CASE Unlink(c)
  <2>1. file[c] \in 1 .. 3 /\ OutputAt(file[c]) \in Outputs
    BY <1>11, OutputAtFacts DEF Unlink, TypeInv, Writing
  <2>2. disk' \in [Outputs -> Files]
    BY <1>11, <2>1, UnlinkFacts DEF Unlink, TypeInv
  <2>3. (file[c] + 1) % 4 \in 0 .. 3 /\ (file[c] # 3 => (file[c] + 1) % 4 \in 1 .. 3)
    BY <2>1
  <2> QED
    BY <1>11, <2>1, <2>2, <2>3 DEF Unlink, TypeInv, Typed, Frame, Goto, Points, Writing, Outcomes
<1>12. CASE Interrupt(c)
  <2>1. CASE pc[c] = "capture"
    BY <1>12, <2>1 DEF Interrupt, TypeInv, Typed, Frame, Goto, Points, Writing, Outcomes
  <2>2. CASE pc[c] # "capture"
    <3>1. disk' \in [Outputs -> Files]
      BY <1>12, InterruptFacts
    <3>2. spi' \in [Commands -> Connections] /\ \A d \in Commands \ {c} : spi'[d] = spi[d]
      BY <1>12, InterruptFacts
    <3>3. /\ pc' = [pc EXCEPT ![c] = "ended"] /\ file' = [file EXCEPT ![c] = 0]
          /\ outcome' = [outcome EXCEPT
                            ![c] = IF pc[c] = "unlink" THEN "stranded" ELSE "interrupted"]
          /\ rows' = rows
      BY <1>12, <2>2 DEF Interrupt, Goto
    <3> QED
      BY <3>1, <3>2, <3>3 DEF TypeInv, Typed, Frame, Points, Writing, Outcomes
  <2> QED
    BY <2>1, <2>2
<1> QED
  BY <1>1, <1>2, <1>3, <1>4, <1>5, <1>6, <1>7, <1>8, <1>9, <1>10, <1>11, <1>12 DEF Act, Step

LEMMA TypeInit == Init => TypeInv
<1> SUFFICES ASSUME Init PROVE TypeInv
  OBVIOUS
<1>1. disk \in [Outputs -> Files]
  BY AbsentFacts DEF Init
<1> QED
  BY <1>1 DEF Init, TypeInv, Points, Writing, Connections, Outcomes

LEMMA TypeNext == TypeInv /\ [Next]_vars => TypeInv'
<1> SUFFICES ASSUME TypeInv, [Next]_vars PROVE TypeInv'
  OBVIOUS
<1>1. ASSUME NEW c \in Commands, Act(c) PROVE TypeInv'
  BY <1>1, ActionType DEF Typed, Frame, TypeInv
<1>2. CASE UNCHANGED vars
  BY <1>2 DEF vars, TypeInv
<1> QED
  BY <1>1, <1>2 DEF Next, Act

(***************************************************************************)
(* Each execution by itself                                                *)
(***************************************************************************)
\* What an execution holds and has captured at each point, and when it is known
\* how it ends.
Local(c) ==
    /\ pc[c] \in {"ready", "open"} => spi[c] = "unopened"
    /\ pc[c] \in {"capture", "close", "close_failing"} => spi[c] = "open"
    /\ pc[c] \in {"check"} \cup Writing => spi[c] = "closed"
    /\ pc[c] \in {"close", "check"} \cup Writing => rows[c] = RowCount
    /\ pc[c] = "ended" => spi[c] # "open"
    /\ outcome[c] = "written" => pc[c] = "ended" /\ spi[c] = "closed"
    /\ pc[c] \notin {"close_failing", "unlink", "ended"} => outcome[c] = "none"
    /\ pc[c] = "unlink" => outcome[c] \in {"none", "stranded"}
    /\ pc[c] = "close_failing" => outcome[c] \in {"none", "interrupted"}
    /\ spi[c] = "leaked" => pc[c] = "ended" /\ outcome[c] \in {"failed", "interrupted"}
    /\ pc[c] \notin {"check"} \cup Writing => file[c] = 0

LocalInv == \A c \in Commands : Local(c)

LEMMA LocalEnd ==
    ASSUME TypeInv, NEW c \in Commands, Local(c), pc[c] # "ended",
           NEW how \in {"failed", "refused"}, End(c, how), spi'[c] # "open",
           spi'[c] = "leaked" => how = "failed" /\ outcome[c] \in {"none", "interrupted"}
    PROVE  Local(c)'
<1>1. /\ pc'[c] = "ended" /\ file'[c] = 0
      /\ outcome'[c] = IF outcome[c] = "none" THEN how ELSE outcome[c]
  BY EndFacts DEF Outcomes
<1> QED
  BY <1>1 DEF Local, Writing

LEMMA LocalAct ==
    ASSUME TypeInv, NEW c \in Commands, Local(c), Act(c)
    PROVE  Local(c)'
<1> USE DEF TypeInv, Local, Writing, Goto
<1>1. CASE Start(c)
  BY <1>1 DEF Start
<1>2. CASE OpenDevice(c)
  <2>1. CASE spi' = [spi EXCEPT ![c] = "open"] /\ Goto(c, "capture") /\ UNCHANGED outcome
    BY <1>2, <2>1 DEF OpenDevice
  <2>2. CASE /\ \E state \in {"closed", "leaked"} : spi' = [spi EXCEPT ![c] = state]
             /\ End(c, "failed")
    <3>1. spi'[c] # "open"
      BY <2>2
    <3>2. pc[c] # "ended" /\ outcome[c] = "none"
      BY <1>2 DEF OpenDevice
    <3> QED
      BY <2>2, <3>1, <3>2, LocalEnd
  <2> QED
    BY <1>2, <2>1, <2>2 DEF OpenDevice
<1>3. CASE CaptureRow(c)
  BY <1>3 DEF CaptureRow
<1>4. CASE CaptureFails(c)
  BY <1>4 DEF CaptureFails
<1>5. CASE CloseDevice(c)
  <2>1. CASE pc[c] = "close" /\ Goto(c, "check") /\ spi' = [spi EXCEPT ![c] = "closed"]
    BY <1>5, <2>1 DEF CloseDevice
  <2>2. CASE End(c, "failed")
    <3>1. spi'[c] # "open" /\ pc[c] # "ended" /\ outcome[c] \in {"none", "interrupted"}
      BY <1>5 DEF CloseDevice
    <3> QED
      BY <2>2, <3>1, LocalEnd
  <2> QED
    BY <1>5, <2>1, <2>2 DEF CloseDevice
<1>6. CASE CheckRecord(c)
  <2>1. CASE UNCHANGED <<pc, outcome, rows, spi>>
    BY <1>6, <2>1 DEF CheckRecord
  <2>2. CASE End(c, "refused") /\ UNCHANGED <<rows, spi>>
    <3>1. spi'[c] = "closed" /\ pc[c] # "ended"
      BY <1>6, <2>2 DEF CheckRecord
    <3> QED
      BY <2>2, <3>1, LocalEnd
  <2> QED
    BY <1>6, <2>1, <2>2 DEF CheckRecord
<1>7. CASE CheckOutput(c)
  <2>1. CASE End(c, "refused") /\ UNCHANGED <<rows, spi>>
    <3>1. spi'[c] = "closed" /\ pc[c] # "ended"
      BY <1>7, <2>1 DEF CheckOutput
    <3> QED
      BY <2>1, <3>1, LocalEnd
  <2>2. CASE /\ Goto(c, IF file[c] = 3 THEN "create" ELSE "check")
             /\ UNCHANGED <<outcome, rows, spi>>
    BY <1>7, <2>2 DEF CheckOutput
  <2> QED
    BY <1>7, <2>1, <2>2 DEF CheckOutput
<1>8. CASE CreateOutput(c)
  BY <1>8 DEF CreateOutput, Cleanup
<1>9. CASE WriteOutput(c)
  BY <1>9 DEF WriteOutput
<1>10. CASE WriteFails(c)
  BY <1>10 DEF WriteFails, Cleanup
<1>11. CASE Unlink(c)
  <2>1. (file[c] + 1) % 4 = 0 <=> file[c] = 3
    BY <1>11 DEF Unlink
  <2> QED
    BY <1>11, <2>1 DEF Unlink
<1>12. CASE Interrupt(c)
  <2>1. CASE pc[c] = "capture"
    BY <1>12, <2>1 DEF Interrupt
  <2>2. CASE pc[c] # "capture"
    <3>1. spi'[c] \in Abandoned(spi[c])
      BY <1>12, <2>2, InterruptFacts
    <3>2. /\ pc'[c] = "ended" /\ file'[c] = 0
          /\ outcome'[c] = IF pc[c] = "unlink" THEN "stranded" ELSE "interrupted"
      BY <1>12, <2>2 DEF Interrupt
    <3>3. spi'[c] # "open" /\ (pc[c] = "unlink" => spi'[c] = "closed")
      BY <3>1 DEF Abandoned
    <3> QED
      BY <3>2, <3>3
  <2> QED
    BY <2>1, <2>2
<1> QED
  BY <1>1, <1>2, <1>3, <1>4, <1>5, <1>6, <1>7, <1>8, <1>9, <1>10, <1>11, <1>12 DEF Act, Step

LEMMA LocalNext == TypeInv /\ LocalInv /\ [Next]_vars => LocalInv'
<1> SUFFICES ASSUME TypeInv, LocalInv, [Next]_vars, NEW d \in Commands
             PROVE  Local(d)'
  BY DEF LocalInv
<1>1. CASE UNCHANGED vars
  BY <1>1 DEF vars, LocalInv, Local
<1>2. ASSUME NEW c \in Commands, Act(c) PROVE Local(d)'
  <2>1. CASE d = c
    BY <1>2, <2>1, LocalAct DEF LocalInv
  <2>2. CASE d # c
    BY <1>2, <2>2, ActionType DEF Frame, LocalInv, Local
  <2> QED
    BY <2>1, <2>2
<1> QED
  BY <1>1, <1>2 DEF Next, Act

LEMMA Locals == Spec => [](TypeInv /\ LocalInv)
<1>1. Init => LocalInv
  <2> SUFFICES ASSUME Init, NEW c \in Commands PROVE Local(c)
    BY DEF LocalInv
  <2>1. pc[c] = "ready" /\ file[c] = 0 /\ spi[c] = "unopened" /\ outcome[c] = "none"
    BY DEF Init
  <2> QED
    BY <2>1 DEF Local, Writing
<1> QED
  BY <1>1, TypeInit, TypeNext, LocalNext, PTL DEF Spec

\* The SPI device is closed while outputs are looked for, written and removed, and
\* what is over has leaked it only by a constructor or close that raised or was
\* interrupted, and has then written nothing, however executions overlap.
THEOREM DeviceReleased == Spec => []DeviceIsReleased
<1>1. LocalInv => DeviceIsReleased
  BY DEF LocalInv, Local, DeviceIsReleased, Writing
<1> QED
  BY <1>1, Locals, PTL

(***************************************************************************)
(* The authors of the outputs                                              *)
(***************************************************************************)
AuthorIsPastCapture(output) ==
    Exists(output) =>
        LET author == disk[output].author
        IN  pc[author] \in Writing \cup {"ended"} /\ rows[author] = RowCount

AuthorsInv == \A output \in Outputs : AuthorIsPastCapture(output)

\* Only an execution that writes becomes an author.
LEMMA ActAuthors ==
    ASSUME TypeInv, NEW c \in Commands, Act(c), NEW output \in Outputs
    PROVE  \/ disk'[output].author \in {disk[output].author, Nobody}
           \/ disk'[output].author = c /\ pc[c] \in Writing
<1>1. CASE CloseAll(c) \/ UNCHANGED disk
  BY <1>1, CloseAllFacts
<1>2. CASE CreateOutput(c) \/ WriteOutput(c) \/ WriteFails(c) \/ Unlink(c)
  <2>1. pc[c] \in Writing /\ OutputAt(file[c]) \in Outputs
    BY <1>2, OutputAtFacts DEF CreateOutput, WriteOutput, WriteFails, Unlink, TypeInv, Writing
  <2>2. CASE CreateOutput(c)
    <3> DEFINE created == OutputAt(file[c])
    <3>1. created \in Outputs
      BY <2>1
    <3>2. \/ UNCHANGED disk
          \/ disk' = [disk EXCEPT ![created].author = c, ![created].content = "empty",
                                  ![created].open = @ \cup {c}]
      BY <2>2, Zenon DEF CreateOutput
    <3> HIDE DEF created
    <3>3. CASE UNCHANGED disk
      BY <3>3
    <3>4. CASE disk' = [disk EXCEPT ![created].author = c, ![created].content = "empty",
                                    ![created].open = @ \cup {c}]
      <4>1. disk'[created].author = c
            /\ \A other \in Outputs \ {created} : disk'[other] = disk[other]
        BY <3>1, <3>4, CreateOutputFacts
      <4> QED
        BY <2>1, <4>1
    <3> QED
      BY <3>2, <3>3, <3>4
  <2>3. CASE WriteOutput(c)
    BY <2>1, <2>3, WrittenFacts DEF WriteOutput, Contents
  <2>4. CASE WriteFails(c)
    BY <2>1, <2>4, WrittenFacts DEF WriteFails, Contents
  <2>5. CASE Unlink(c)
    BY <2>1, <2>5, UnlinkFacts, AbsentFacts DEF Unlink
  <2> QED
    BY <1>2, <2>2, <2>3, <2>4, <2>5
<1>3. CASE Start(c) \/ CaptureRow(c) \/ CaptureFails(c)
  BY <1>1, <1>3 DEF Start, CaptureRow, CaptureFails
<1>4. CASE OpenDevice(c) \/ CloseDevice(c) \/ CheckRecord(c) \/ CheckOutput(c)
  BY <1>1, <1>4 DEF OpenDevice, CloseDevice, CheckRecord, CheckOutput, End, CloseAll
<1>5. CASE Interrupt(c)
  <2>1. CASE pc[c] = "write"
    <3>1. {"empty", "partial", "whole"} \in SUBSET Contents
      BY DEF Contents
    <3>2. /\ OutputAt(file[c]) \in Outputs
          /\ Written(c, OutputAt(file[c]), {"empty", "partial", "whole"})
      BY <1>5, <2>1, InterruptFacts
    <3> QED
      BY <2>1, <3>1, <3>2, WrittenFacts DEF Writing
  <2>2. CASE pc[c] # "write"
    BY <1>5, <2>2, InterruptFacts
  <2> QED
    BY <2>1, <2>2
<1> QED
  BY <1>2, <1>3, <1>4, <1>5 DEF Act, Step

\* An execution that writes goes on writing or ends; its rows are taken.
LEMMA ActPastCapture ==
    ASSUME TypeInv, NEW c \in Commands, Act(c), pc[c] \in Writing \cup {"ended"}
    PROVE  pc'[c] \in Writing \cup {"ended"} /\ rows'[c] = rows[c]
  BY DEF Act, Step, Start, OpenDevice, CaptureRow, CaptureFails, CloseDevice, CheckRecord,
         CheckOutput, CreateOutput, WriteOutput, WriteFails, Unlink, Interrupt, Running, End,
         Cleanup, Goto, TypeInv, Writing

LEMMA AuthorsNext ==
    TypeInv /\ LocalInv /\ AuthorsInv /\ [Next]_vars => AuthorsInv'
<1> SUFFICES ASSUME TypeInv, LocalInv, AuthorsInv, [Next]_vars, NEW output \in Outputs
             PROVE  AuthorIsPastCapture(output)'
  BY DEF AuthorsInv
<1>1. CASE UNCHANGED vars
  BY <1>1 DEF vars, AuthorsInv, AuthorIsPastCapture, Exists
<1>2. ASSUME NEW c \in Commands, Act(c), disk'[output].author # Nobody
      PROVE  LET author == disk'[output].author
             IN  pc'[author] \in Writing \cup {"ended"} /\ rows'[author] = RowCount
  <2> DEFINE a == disk'[output].author
  <2>1. a \in Commands
    BY <1>2, ActionType DEF Typed, Files
  <2>2. pc[a] \in Writing \cup {"ended"} /\ rows[a] = RowCount
    <3>1. CASE a = disk[output].author
      BY <1>2, <3>1 DEF AuthorsInv, AuthorIsPastCapture, Exists
    <3>2. CASE a = c /\ pc[c] \in Writing
      BY <3>2 DEF LocalInv, Local
    <3> QED
      BY <1>2, <3>1, <3>2, ActAuthors
  <2>3. CASE a = c
    BY <1>2, <2>2, <2>3, ActPastCapture
  <2>4. CASE a # c
    <3>1. pc'[a] = pc[a] /\ rows'[a] = rows[a]
      BY <1>2, <2>1, <2>4, ActionType DEF Frame
    <3> QED
      BY <2>2, <3>1
  <2> QED
    BY <2>3, <2>4
<1> QED
  BY <1>1, <1>2 DEF Next, Act, AuthorIsPastCapture, Exists

LEMMA Authors == Spec => []AuthorsInv
<1>1. Init => AuthorsInv
  BY AbsentFacts DEF Init, AuthorsInv, AuthorIsPastCapture, Exists
<1> QED
  BY <1>1, Locals, AuthorsNext, PTL DEF Spec

\* Whatever is on disk was captured in full, however executions overlap.
THEOREM EveryRowIsHeld == Spec => []OutputsHoldEveryRow
<1>1. AuthorsInv => OutputsHoldEveryRow
  BY DEF AuthorsInv, AuthorIsPastCapture, OutputsHoldEveryRow
<1> QED
  BY <1>1, Authors, PTL

(***************************************************************************)
(* The label, when executions follow one another                           *)
(***************************************************************************)
OneRuns == \A c, d \in Commands : Running(c) /\ Running(d) => c = d

\* Only the execution that writes an output holds it open.
OpenInv ==
    \A output \in Outputs, c \in Commands :
        c \in disk[output].open => pc[c] = "write" /\ output = OutputAt(file[c])

AbsentInv == \A output \in Outputs : ~Exists(output) => disk[output].content = "none"

\* An execution writes a label that was free.
OnlyAuthor(c) == pc[c] \in Writing => \A output \in Outputs : disk[output].author \in {c, Nobody}

\* How far an execution has come with the i-th output.
Progress(c, i) ==
    LET output == OutputAt(i) IN
    /\ pc[c] = "check" /\ i < file[c] => ~Exists(output)
    /\ pc[c] \in {"create", "write"} /\ i < file[c] =>
          disk[output].author = c /\ disk[output].content = "whole"
    /\ pc[c] \in {"create", "write"} /\ i > file[c] => ~Exists(output)
    /\ pc[c] = "create" /\ i = file[c] => ~Exists(output)
    /\ pc[c] = "write" /\ i = file[c] =>
          /\ disk[output].author = c
          /\ disk[output].content = "empty"
          /\ c \in disk[output].open
    /\ pc[c] = "unlink" /\ i < file[c] => ~Exists(output) \/ outcome[c] = "stranded"

\* An execution that has left outputs and is over completed them, or was kept
\* from removing them.
LeftInv ==
    \A output \in Outputs :
        Exists(output) =>
            LET author == disk[output].author
            IN  pc[author] = "ended" => outcome[author] \in {"written", "interrupted", "stranded"}

LabelInv ==
    /\ OneRuns
    /\ OpenInv
    /\ AbsentInv
    /\ \A c \in Commands : OnlyAuthor(c) /\ \A i \in 1 .. 3 : Progress(c, i)
    /\ LeftInv
    /\ WrittenIsKept
    /\ ManifestCommitsCapture

IInv == TypeInv /\ LocalInv /\ AuthorsInv /\ LabelInv

\* While an execution takes a step, the others have not begun or are over.
LEMMA OthersAreQuiet ==
    ASSUME ~Concurrent, IInv, NEW c \in Commands, Act(c)
    PROVE  /\ \A d \in Commands \ {c} : pc[d] \in {"ready", "ended"} /\ pc'[d] = pc[d]
           /\ pc'[c] # "ready" /\ pc[c] # "ended"
<1>1. CASE Start(c)
  <2>1. \A d \in Commands : pc[d] \in {"ready", "ended"}
    BY <1>1 DEF Start, Running
  <2>2. pc'[c] = "open" /\ pc[c] = "ready"
    BY <1>1 DEF Start, Goto, IInv, TypeInv
  <2> QED
    BY <2>1, <2>2, ActionType DEF Frame, IInv
<1>2. CASE Step(c) \/ Interrupt(c)
  <2>1. Running(c)
    BY <1>2 DEF Step, OpenDevice, CaptureRow, CaptureFails, CloseDevice, CheckRecord,
           CheckOutput, CreateOutput, WriteOutput, WriteFails, Unlink, Interrupt, Running
  <2>2. \A d \in Commands \ {c} : pc[d] \in {"ready", "ended"}
    BY <2>1 DEF IInv, LabelInv, OneRuns, Running
  <2>3. pc'[c] # "ready"
    BY <1>2 DEF Step, OpenDevice, CaptureRow, CaptureFails, CloseDevice, CheckRecord, End,
           CheckOutput, CreateOutput, WriteOutput, WriteFails, Unlink, Interrupt, Running,
           Cleanup, Goto, IInv, TypeInv
  <2> QED
    BY <2>1, <2>2, <2>3, ActionType DEF Frame, IInv, Running
<1> QED
  BY <1>1, <1>2 DEF Act

\* What is on disk has not changed, but may have been closed.
Looks ==
    \A output \in Outputs :
        /\ disk'[output].author = disk[output].author
        /\ disk'[output].content = disk[output].content
        /\ disk'[output].open \subseteq disk[output].open

\* Before it writes, an execution only looks for the outputs.
LEMMA ActBeforeWriting ==
    ASSUME TypeInv, LocalInv, NEW c \in Commands, Act(c), pc[c] \notin Writing
    PROVE  /\ Looks
           /\ pc'[c] \notin {"write", "unlink"}
           /\ outcome'[c] # "written"
           /\ pc'[c] = "create" =>
                 pc[c] = "check" /\ file[c] = 3 /\ ~Exists(OutputAt(3)) /\ file'[c] = 1
           /\ pc'[c] = "check" =>
                 \/ file'[c] \in {0, 1}
                 \/ pc[c] = "check" /\ file'[c] = file[c] + 1 /\ ~Exists(OutputAt(file[c]))
<1>1. CloseAll(c) \/ UNCHANGED disk => Looks
  BY CloseAllFacts DEF Looks
<1>2. outcome[c] # "written" \/ pc[c] = "ended"
  BY DEF LocalInv, Local
<1>3. ASSUME NEW how \in {"failed", "refused"}, End(c, how), pc[c] # "ended"
      PROVE  Looks /\ pc'[c] = "ended" /\ outcome'[c] # "written"
  BY <1>1, <1>2, <1>3, EndFacts DEF Outcomes
<1> USE DEF TypeInv
<1>4. CASE Start(c)
  BY <1>1, <1>2, <1>4 DEF Start, Goto
<1>5. CASE OpenDevice(c)
  BY <1>1, <1>2, <1>3, <1>5 DEF OpenDevice, Goto
<1>6. CASE CaptureRow(c) \/ CaptureFails(c)
  BY <1>1, <1>2, <1>6 DEF CaptureRow, CaptureFails, Goto
<1>7. CASE CloseDevice(c)
  <2>1. CASE Goto(c, "check") /\ UNCHANGED <<file, outcome, disk>>
    <3>1. file[c] = 0
      BY <1>7 DEF CloseDevice, LocalInv, Local, Writing
    <3> QED
      BY <1>1, <1>2, <1>7, <2>1, <3>1 DEF CloseDevice, Goto
  <2> QED
    BY <1>3, <1>7, <2>1 DEF CloseDevice
<1>8. CASE CheckRecord(c)
  BY <1>1, <1>2, <1>3, <1>8 DEF CheckRecord, Goto
<1>9. CASE CheckOutput(c)
  <2>1. CASE /\ Goto(c, IF file[c] = 3 THEN "create" ELSE "check")
             /\ file' = [file EXCEPT ![c] = (@ % 3) + 1]
             /\ ~Exists(OutputAt(file[c]))
             /\ UNCHANGED <<outcome, disk>>
    <3>1. file[c] \in 1 .. 3 /\ pc[c] = "check"
      BY <1>9 DEF CheckOutput
    <3>2. file'[c] = IF file[c] = 3 THEN 1 ELSE file[c] + 1
      BY <2>1, <3>1
    <3> QED
      BY <1>1, <1>2, <2>1, <3>1, <3>2 DEF Goto
  <2> QED
    BY <1>3, <1>9, <2>1 DEF CheckOutput
<1>10. CASE CreateOutput(c) \/ WriteOutput(c) \/ WriteFails(c) \/ Unlink(c)
  BY <1>10 DEF CreateOutput, WriteOutput, WriteFails, Unlink, Writing
<1>11. CASE Interrupt(c)
  <2>1. Looks
    BY <1>1, <1>11, InterruptFacts DEF Writing
  <2> QED
    BY <1>2, <1>11, <2>1 DEF Interrupt, Goto, Running
<1> QED
  BY <1>4, <1>5, <1>6, <1>7, <1>8, <1>9, <1>10, <1>11 DEF Act, Step

\* An execution that is not writing finds the outputs as they were left.
LEMMA LabelBeforeWriting ==
    ASSUME ~Concurrent, IInv, NEW c \in Commands, Act(c), pc[c] \notin Writing
    PROVE  LabelInv'
<1> USE DEF IInv, LabelInv
<1>1. /\ Looks
      /\ \A d \in Commands \ {c} : /\ pc[d] \in {"ready", "ended"} /\ pc'[d] = pc[d]
                                    /\ outcome'[d] = outcome[d]
      /\ pc[c] \notin Writing \cup {"ended"}
      /\ outcome'[c] # "written"
  BY OthersAreQuiet, ActBeforeWriting, ActionType DEF Frame
<1>2. \A output \in Outputs : Exists(output)' = Exists(output)
  BY <1>1 DEF Looks, Exists
<1>3. \A output \in Outputs : Exists(output) => disk[output].author \in Commands \ {c}
  <2> SUFFICES ASSUME NEW output \in Outputs, Exists(output)
               PROVE  disk[output].author \in Commands \ {c}
    OBVIOUS
  <2>1. disk[output].author \in Commands
    BY DEF TypeInv, Files, Exists
  <2> QED
    BY <1>1, <2>1 DEF AuthorsInv, AuthorIsPastCapture
<1>4. OneRuns'
  BY <1>1 DEF OneRuns, Running
<1>5. OpenInv'
  BY <1>1 DEF OpenInv, Looks, Writing
<1>6. AbsentInv'
  BY <1>1, <1>2 DEF AbsentInv, Looks
<1>7. ASSUME pc'[c] \in Writing
      PROVE  /\ pc'[c] = "create" /\ file'[c] = 1
             /\ \A output \in Outputs : ~Exists(output)
  <2>1. /\ pc'[c] = "create" /\ pc[c] = "check" /\ file[c] = 3
        /\ ~Exists(OutputAt(3)) /\ file'[c] = 1
    BY <1>7, ActBeforeWriting DEF Writing
  <2>2. \A i \in 1 .. 3 : ~Exists(OutputAt(i))
    BY <2>1 DEF Progress
  <2> QED
    BY <2>1, <2>2, OutputAtFacts
<1>8. ASSUME NEW d \in Commands PROVE OnlyAuthor(d)'
  BY <1>1, <1>2, <1>7 DEF OnlyAuthor, Exists, Writing
<1>9. ASSUME NEW d \in Commands, NEW i \in 1 .. 3 PROVE Progress(d, i)'
  <2>1. CASE d # c
    BY <1>1, <2>1 DEF Progress
  <2>2. CASE d = c /\ pc'[c] \in Writing
    BY <1>2, <1>7, <2>2, OutputAtFacts DEF Progress, Writing
  <2>3. CASE d = c /\ pc'[c] = "check"
    <3>1. i < file'[c] => ~Exists(OutputAt(i))
      <4>1. file[c] \in 0 .. 3
        BY DEF TypeInv
      <4> QED
        BY <2>3, <4>1, ActBeforeWriting DEF Progress
    <3> QED
      BY <1>2, <2>3, <3>1, OutputAtFacts DEF Progress
  <2>4. CASE d = c /\ pc'[c] \notin {"check"} \cup Writing
    BY <2>4 DEF Progress, Writing
  <2> QED
    BY <2>1, <2>2, <2>3, <2>4
<1>10. LeftInv'
  BY <1>1, <1>2, <1>3 DEF LeftInv, Looks
<1>11. WrittenIsKept'
  BY <1>1 DEF WrittenIsKept, IsCaptureOf, Looks
<1>12. ManifestCommitsCapture'
  <2>1. "manifest" \in Outputs
    BY DEF Outputs
  <2>2. /\ disk'["manifest"].author = disk["manifest"].author
        /\ disk'["manifest"].content = disk["manifest"].content
    BY <1>1, <2>1 DEF Looks
  <2>3. CASE disk["manifest"].content = "whole"
    <3>1. PICK a \in Commands \ {c} : a = disk["manifest"].author
      BY <1>3, <2>1, <2>3 DEF AbsentInv
    <3>2. IsCaptureOf(a) => IsCaptureOf(a)'
      BY <1>1 DEF Looks, IsCaptureOf
    <3>3. IsCaptureOf(a)' \/ pc'[a] = "unlink" \/ outcome'[a] = "stranded"
      BY <1>1, <2>3, <3>1, <3>2 DEF ManifestCommitsCapture
    <3> QED
      BY <2>2, <3>1, <3>3 DEF ManifestCommitsCapture, IsCaptureOf
  <2> QED
    BY <2>2, <2>3 DEF ManifestCommitsCapture
<1> HIDE DEF IInv
<1> QED
  BY <1>4, <1>5, <1>6, <1>8, <1>9, <1>10, <1>11, <1>12 DEF LabelInv

\* What a step of an execution that writes has to leave behind.
LabelOf(c) ==
    /\ OpenInv
    /\ AbsentInv
    /\ \A i \in 1 .. 3 : Progress(c, i)
    /\ pc[c] = "ended" /\ outcome[c] \notin {"written", "interrupted", "stranded"} =>
          \A output \in Outputs : ~Exists(output)
    /\ outcome[c] = "written" => IsCaptureOf(c)
    /\ disk["manifest"].content = "whole" =>
          IsCaptureOf(c) \/ pc[c] = "unlink" \/ outcome[c] = "stranded"

LEMMA LabelWhileWriting ==
    ASSUME ~Concurrent, IInv, NEW c \in Commands, Act(c), pc[c] \in Writing, LabelOf(c)'
    PROVE  LabelInv'
<1> USE DEF IInv, LabelInv
<1>1. /\ \A d \in Commands \ {c} : /\ pc[d] \in {"ready", "ended"} /\ pc'[d] = pc[d]
                                    /\ outcome'[d] = outcome[d]
  BY OthersAreQuiet, ActionType DEF Frame
<1>2. \A output \in Outputs : disk[output].author \in {c, Nobody}
  BY DEF OnlyAuthor
<1>3. \A output \in Outputs : disk'[output].author \in {c, Nobody}
  BY <1>2, ActAuthors
<1>4. OneRuns'
  BY <1>1 DEF OneRuns, Running
<1>5. ASSUME NEW d \in Commands PROVE OnlyAuthor(d)'
  BY <1>1, <1>3 DEF OnlyAuthor, Writing
<1>6. ASSUME NEW d \in Commands, NEW i \in 1 .. 3 PROVE Progress(d, i)'
  BY <1>1 DEF Progress, LabelOf
<1>7. LeftInv'
  BY <1>3 DEF LeftInv, LabelOf, Exists
<1>8. ASSUME NEW d \in Commands, outcome'[d] = "written" PROVE IsCaptureOf(d)'
  <2>1. CASE d = c
    BY <1>8, <2>1 DEF LabelOf
  <2>2. CASE d # c
    <3>1. IsCaptureOf(d) /\ "manifest" \in Outputs
      BY <1>1, <1>8, <2>2 DEF WrittenIsKept, Outputs
    <3>2. disk["manifest"].author = d
      BY <3>1 DEF IsCaptureOf
    <3> QED
      BY <1>2, <2>2, <3>1, <3>2, CaptureAssumption DEF Nobody
  <2> QED
    BY <2>1, <2>2
<1>9. ManifestCommitsCapture'
  <2>1. "manifest" \in Outputs
    BY DEF Outputs
  <2>2. disk'["manifest"].content = "whole" => disk'["manifest"].author = c
    BY <1>3, <2>1 DEF LabelOf, AbsentInv, Exists
  <2> QED
    BY <2>2 DEF ManifestCommitsCapture, LabelOf
<1>10. OpenInv' /\ AbsentInv'
  BY DEF LabelOf
<1> HIDE DEF IInv
<1> QED
  BY <1>4, <1>5, <1>6, <1>7, <1>8, <1>9, <1>10 DEF LabelInv, WrittenIsKept

\* While an execution writes, the label is its own, and only the output it is at
\* is open.
LEMMA LabelIsItsOwn ==
    ASSUME IInv, NEW c \in Commands, pc[c] \in Writing
    PROVE  /\ file[c] \in 1 .. 3
           /\ OutputAt(file[c]) \in Outputs
           /\ outcome[c] # "written"
           /\ \A output \in Outputs :
                 /\ disk[output].author \in {c, Nobody}
                 /\ \A d \in Commands :
                       d \in disk[output].open =>
                           d = c /\ pc[c] = "write" /\ output = OutputAt(file[c])
<1> USE DEF IInv, LabelInv
<1>1. file[c] \in 1 .. 3 /\ OutputAt(file[c]) \in Outputs
  BY OutputAtFacts DEF TypeInv
<1>2. outcome[c] # "written"
  BY DEF LocalInv, Local, Writing
<1>3. ASSUME NEW output \in Outputs, NEW d \in Commands, d \in disk[output].open
      PROVE  d = c /\ pc[c] = "write" /\ output = OutputAt(file[c])
  <2>1. pc[d] = "write" /\ output = OutputAt(file[d])
    BY <1>3 DEF OpenInv
  <2>2. Running(c) /\ Running(d)
    BY <2>1 DEF Running, Writing
  <2> QED
    BY <2>1, <2>2 DEF OneRuns
<1> QED
  BY <1>1, <1>2, <1>3 DEF OnlyAuthor

\* The label has what an execution at its i-th output has made of it.
LEMMA LabelIsInOrder ==
    ASSUME IInv, NEW c \in Commands
    PROVE  /\ \A i \in 1 .. 3 : Progress(c, i)
           /\ AbsentInv
           /\ c # Nobody
           /\ TypeInv
  BY CaptureAssumption DEF IInv, LabelInv, Nobody

LEMMA LabelCreate ==
    ASSUME IInv, NEW c \in Commands, CreateOutput(c)
    PROVE  LabelOf(c)'
<1> DEFINE here == OutputAt(file[c])
<1>1. pc[c] = "create" /\ pc[c] \in Writing
  BY DEF CreateOutput, Writing
<1>2. \A output \in Outputs, d \in Commands : d \notin disk[output].open
  BY <1>1, LabelIsItsOwn
<1>3. CASE /\ Goto(c, "write") /\ UNCHANGED <<file, outcome>>
           /\ disk' = [disk EXCEPT ![here].author = c, ![here].content = "empty",
                                   ![here].open = @ \cup {c}]
  <2>1. /\ here \in Outputs
        /\ disk'[here].author = c
        /\ disk'[here].content = "empty"
        /\ disk'[here].open = disk[here].open \cup {c}
        /\ \A other \in Outputs \ {here} : disk'[other] = disk[other]
    <3>1. here \in Outputs /\ TypeInv
      BY <1>1, LabelIsItsOwn, LabelIsInOrder
    <3> HIDE DEF here
    <3> QED
      BY <1>3, <3>1, CreateOutputFacts
  <2>2. pc'[c] = "write" /\ file'[c] = file[c] /\ outcome'[c] = outcome[c]
    BY <1>3, LabelIsInOrder DEF Goto, TypeInv
  <2> HIDE DEF here
  <2>3. OpenInv'
    BY <1>2, <2>1, <2>2 DEF OpenInv, here
  <2>4. AbsentInv'
    BY <2>1, LabelIsInOrder DEF AbsentInv, Exists
  <2>5. ASSUME NEW i \in 1 .. 3 PROVE Progress(c, i)'
    <3>1. CASE i = file[c]
      BY <2>1, <2>2, <3>1 DEF Progress, here
    <3>2. CASE i # file[c]
      <4>1. disk'[OutputAt(i)] = disk[OutputAt(i)]
        BY <1>1, <2>1, <3>2, LabelIsItsOwn, OutputAtFacts DEF here
      <4> QED
        BY <1>1, <2>2, <3>2, <4>1, LabelIsItsOwn, LabelIsInOrder DEF Progress, Exists
    <3> QED
      BY <3>1, <3>2
  <2>6. disk'["manifest"].content # "whole"
    <3>1. CASE file[c] = 3
      BY <2>1, <3>1, OutputAtFacts DEF here
    <3>2. CASE file[c] # 3
      <4>1. 3 > file[c] /\ "manifest" # here /\ "manifest" \in Outputs
        BY <1>1, <3>2, LabelIsItsOwn, OutputAtFacts DEF here
      <4> QED
        BY <1>1, <2>1, <4>1, LabelIsInOrder, OutputAtFacts DEF Progress, AbsentInv
    <3> QED
      BY <3>1, <3>2
  <2> QED
    BY <1>1, <2>2, <2>3, <2>4, <2>5, <2>6, LabelIsItsOwn DEF LabelOf
<1>4. CASE Cleanup(c) /\ UNCHANGED <<disk, outcome>>
  <2>1. pc'[c] = "unlink" /\ file'[c] = 1 /\ outcome'[c] = outcome[c] /\ disk' = disk
    BY <1>4, LabelIsInOrder DEF Cleanup, Goto, TypeInv
  <2>2. OpenInv' /\ AbsentInv'
    BY <1>2, <2>1, LabelIsInOrder DEF OpenInv, AbsentInv, Exists
  <2>3. \A i \in 1 .. 3 : Progress(c, i)'
    BY <2>1 DEF Progress
  <2> QED
    BY <1>1, <2>1, <2>2, <2>3, LabelIsItsOwn DEF LabelOf
<1> QED
  BY <1>3, <1>4 DEF CreateOutput

LEMMA LabelWrite ==
    ASSUME IInv, NEW c \in Commands, WriteOutput(c)
    PROVE  LabelOf(c)'
<1> DEFINE here == OutputAt(file[c])
<1>1. pc[c] = "write" /\ pc[c] \in Writing
  BY DEF WriteOutput, Writing
<1>2. file[c] \in 1 .. 3 /\ here \in Outputs
  BY <1>1, LabelIsItsOwn
<1>3. disk[here].content = "empty" /\ c \in disk[here].open
  BY <1>1, <1>2, LabelIsInOrder DEF Progress
<1>4. Written(c, here, {"whole"})
  BY <1>3 DEF WriteOutput
<1>5. /\ disk'[here].author = c
      /\ disk'[here].content = "whole"
      /\ disk'[here].open = disk[here].open \ {c}
      /\ \A other \in Outputs \ {here} : disk'[other] = disk[other]
  <2>1. {"whole"} \in SUBSET Contents
    BY DEF Contents
  <2> QED
    BY <1>2, <1>3, <1>4, <2>1, LabelIsInOrder, WrittenFacts
<1> HIDE DEF here
<1>6. OpenInv'
  <2> SUFFICES ASSUME NEW output \in Outputs, NEW d \in Commands, d \in disk'[output].open
               PROVE  FALSE
    BY DEF OpenInv
  <2> QED
    BY <1>1, <1>5, LabelIsItsOwn DEF here
<1>7. AbsentInv'
  BY <1>5, LabelIsInOrder DEF AbsentInv, Exists
<1>8. \A i \in 1 .. 3 : i # file[c] => disk'[OutputAt(i)] = disk[OutputAt(i)]
  BY <1>2, <1>5, OutputAtFacts DEF here
<1>9. \A i \in 1 .. file[c] : /\ disk'[OutputAt(i)].author = c
                             /\ disk'[OutputAt(i)].content = "whole"
  <2> TAKE i \in 1 .. file[c]
  <2>1. CASE i = file[c]
    BY <1>5, <2>1 DEF here
  <2>2. CASE i # file[c]
    BY <1>1, <1>2, <1>8, <2>2, LabelIsInOrder DEF Progress
  <2> QED
    BY <2>1, <2>2
<1>10. CASE file[c] = 3
  <2>1. pc'[c] = "ended" /\ outcome'[c] = "written" /\ file'[c] = 0
    BY <1>10, LabelIsInOrder DEF WriteOutput, Goto, TypeInv, Outcomes
  <2>2. IsCaptureOf(c)'
    BY <1>9, <1>10, OutputAtFacts DEF IsCaptureOf
  <2>3. \A i \in 1 .. 3 : Progress(c, i)'
    BY <2>1 DEF Progress
  <2> QED
    BY <1>6, <1>7, <2>1, <2>2, <2>3 DEF LabelOf
<1>11. CASE file[c] # 3
  <2>1. pc'[c] = "create" /\ outcome'[c] = outcome[c] /\ file'[c] = file[c] + 1
    BY <1>11, LabelIsInOrder DEF WriteOutput, Goto, TypeInv
  <2>2. \A i \in 1 .. 3 : i > file[c] => disk[OutputAt(i)].author = Nobody
    BY <1>1, LabelIsInOrder DEF Progress, Exists
  <2>3. \A i \in 1 .. 3 : i > file[c] => disk'[OutputAt(i)].author = Nobody
    BY <1>2, <1>8, <2>2
  <2>4. \A i \in 1 .. 3 : Progress(c, i)'
    BY <1>2, <1>9, <2>1, <2>3 DEF Progress, Exists
  <2>5. disk'["manifest"].content # "whole"
    BY <1>2, <1>7, <1>11, <2>3, OutputAtFacts DEF AbsentInv, Exists
  <2> QED
    BY <1>1, <1>6, <1>7, <2>1, <2>4, <2>5, LabelIsItsOwn DEF LabelOf
<1> QED
  BY <1>10, <1>11

LEMMA LabelWriteFails ==
    ASSUME IInv, NEW c \in Commands, WriteFails(c)
    PROVE  LabelOf(c)'
<1> DEFINE here == OutputAt(file[c])
<1>1. pc[c] = "write" /\ pc[c] \in Writing
  BY DEF WriteFails, Writing
<1>2. here \in Outputs /\ c \in disk[here].open
  BY <1>1, LabelIsItsOwn, LabelIsInOrder DEF Progress
<1>3. /\ disk'[here].author = c
      /\ disk'[here].open = disk[here].open \ {c}
      /\ \A other \in Outputs \ {here} : disk'[other] = disk[other]
  <2>1. {"empty", "partial", "whole"} \in SUBSET Contents
    BY DEF Contents
  <2> QED
    BY <1>2, <2>1, LabelIsInOrder, WrittenFacts DEF WriteFails
<1> HIDE DEF here
<1>4. OpenInv'
  <2> SUFFICES ASSUME NEW output \in Outputs, NEW d \in Commands, d \in disk'[output].open
               PROVE  FALSE
    BY DEF OpenInv
  <2> QED
    BY <1>1, <1>3, LabelIsItsOwn DEF here
<1>5. AbsentInv'
  BY <1>3, LabelIsInOrder DEF AbsentInv, Exists
<1>6. pc'[c] = "unlink" /\ file'[c] = 1 /\ outcome'[c] = outcome[c]
  BY LabelIsInOrder DEF WriteFails, Cleanup, Goto, TypeInv
<1>7. \A i \in 1 .. 3 : Progress(c, i)'
  BY <1>6 DEF Progress
<1> QED
  BY <1>1, <1>4, <1>5, <1>6, <1>7, LabelIsItsOwn DEF LabelOf

LEMMA LabelUnlink ==
    ASSUME IInv, NEW c \in Commands, Unlink(c)
    PROVE  LabelOf(c)'
<1> DEFINE here == OutputAt(file[c])
<1>1. pc[c] = "unlink" /\ pc[c] \in Writing
  BY DEF Unlink, Writing
<1>2. file[c] \in 1 .. 3 /\ here \in Outputs
  BY <1>1, LabelIsItsOwn
<1>3. \A output \in Outputs, d \in Commands : d \notin disk[output].open
  BY <1>1, LabelIsItsOwn
<1>4. /\ pc'[c] = IF file[c] = 3 THEN "ended" ELSE "unlink"
      /\ file'[c] = IF file[c] = 3 THEN 0 ELSE file[c] + 1
  <2>1. pc'[c] = (IF file[c] = 3 THEN "ended" ELSE "unlink") /\ file'[c] = (file[c] + 1) % 4
    BY LabelIsInOrder DEF Unlink, Goto, TypeInv
  <2>2. (file[c] + 1) % 4 = IF file[c] = 3 THEN 0 ELSE file[c] + 1
    BY <1>2
  <2> QED
    BY <2>1, <2>2
<1>5. CASE /\ disk' = [disk EXCEPT ![here] = Absent]
           /\ outcome' = [outcome EXCEPT
                             ![c] = IF @ = "none" /\ file[c] = 3 THEN "failed" ELSE @]
  <2>1. /\ disk'[here] = Absent
        /\ \A other \in Outputs \ {here} : disk'[other] = disk[other]
    BY <1>2, <1>5, LabelIsInOrder, UnlinkFacts
  <2> HIDE DEF here
  <2>2. OpenInv'
    BY <1>3, <2>1, AbsentFacts DEF OpenInv
  <2>3. AbsentInv'
    BY <2>1, AbsentFacts, LabelIsInOrder DEF AbsentInv, Exists
  <2>4. \A i \in 1 .. 3 : i <= file[c] => disk'[OutputAt(i)].author = Nobody
                                       \/ outcome[c] = "stranded"
    <3> TAKE i \in 1 .. 3
    <3>1. CASE i = file[c]
      BY <2>1, <3>1, AbsentFacts DEF here
    <3>2. CASE i < file[c]
      <4>1. disk'[OutputAt(i)] = disk[OutputAt(i)]
        BY <1>2, <2>1, <3>2, OutputAtFacts DEF here
      <4> QED
        BY <1>1, <3>2, <4>1, LabelIsInOrder DEF Progress, Exists
    <3> QED
      BY <1>2, <3>1, <3>2
  <2>5. /\ outcome[c] = "stranded" => outcome'[c] = "stranded"
        /\ outcome'[c] # "written"
    BY <1>1, <1>5, LabelIsItsOwn, LabelIsInOrder DEF TypeInv
  <2>6. \A i \in 1 .. 3 : Progress(c, i)'
    BY <1>2, <1>4, <2>4, <2>5 DEF Progress, Exists
  <2>7. file[c] = 3 /\ outcome'[c] # "stranded" =>
            \A output \in Outputs : disk'[output].author = Nobody
    BY <2>4, <2>5, OutputAtFacts
  <2>8. file[c] = 3 => disk'["manifest"].content = "none"
    BY <2>1, AbsentFacts, OutputAtFacts DEF here
  <2> QED
    BY <1>4, <2>2, <2>3, <2>5, <2>6, <2>7, <2>8 DEF LabelOf, Exists
<1>6. CASE disk' = disk /\ outcome' = [outcome EXCEPT ![c] = "stranded"]
  <2>1. outcome'[c] = "stranded"
    BY <1>6, LabelIsInOrder DEF TypeInv
  <2>2. OpenInv' /\ AbsentInv'
    BY <1>3, <1>6, LabelIsInOrder DEF OpenInv, AbsentInv, Exists
  <2>3. \A i \in 1 .. 3 : Progress(c, i)'
    BY <1>4, <2>1 DEF Progress
  <2> QED
    BY <2>1, <2>2, <2>3 DEF LabelOf
<1> QED
  BY <1>5, <1>6 DEF Unlink

LEMMA LabelInterrupt ==
    ASSUME IInv, NEW c \in Commands, Interrupt(c), pc[c] \in Writing
    PROVE  LabelOf(c)'
<1> DEFINE here == OutputAt(file[c])
<1>1. /\ pc'[c] = "ended"
      /\ outcome'[c] = IF pc[c] = "unlink" THEN "stranded" ELSE "interrupted"
  BY LabelIsInOrder DEF Interrupt, Goto, Writing, TypeInv
<1>2. \A i \in 1 .. 3 : Progress(c, i)'
  BY <1>1 DEF Progress
<1>3. file[c] \in 1 .. 3 /\ here \in Outputs
  BY LabelIsItsOwn
<1>4. "manifest" \in Outputs /\ OutputAt(3) = "manifest"
  BY OutputAtFacts DEF Outputs
<1> HIDE DEF here
<1>5. CASE pc[c] = "write"
  <2>1. c \in disk[here].open
    BY <1>3, <1>5, LabelIsInOrder DEF Progress, here
  <2>2. Written(c, here, {"empty", "partial", "whole"})
    BY <1>5, LabelIsInOrder, InterruptFacts DEF here
  <2>3. /\ disk'[here].author = c
        /\ disk'[here].open = disk[here].open \ {c}
        /\ \A other \in Outputs \ {here} : disk'[other] = disk[other]
    <3>1. {"empty", "partial", "whole"} \in SUBSET Contents
      BY DEF Contents
    <3> QED
      BY <1>3, <2>1, <2>2, <3>1, LabelIsInOrder, WrittenFacts
  <2>4. OpenInv'
    <3> SUFFICES ASSUME NEW output \in Outputs, NEW d \in Commands, d \in disk'[output].open
                 PROVE  FALSE
      BY DEF OpenInv
    <3> QED
      BY <2>3, LabelIsItsOwn DEF here
  <2>5. AbsentInv'
    BY <2>3, LabelIsInOrder DEF AbsentInv, Exists
  <2>6. CASE file[c] = 3
    <3>1. \A i \in 1 .. 2 : /\ disk[OutputAt(i)].author = c
                            /\ disk[OutputAt(i)].content = "whole"
      BY <1>5, <2>6, LabelIsInOrder DEF Progress
    <3>2. \A i \in 1 .. 2 : OutputAt(i) \in Outputs \ {here}
      BY <2>6, OutputAtFacts DEF here
    <3>3. here = "manifest"
      BY <1>4, <2>6 DEF here
    <3>4. \A output \in Outputs \ {here} : disk'[output].author = c
                                           /\ disk'[output].content = "whole"
      <4> SUFFICES ASSUME NEW output \in Outputs \ {here}
                   PROVE  disk[output].author = c /\ disk[output].content = "whole"
        BY <2>3
      <4>1. PICK i \in 1 .. 3 : output = OutputAt(i)
        BY OutputAtFacts
      <4>2. i \in 1 .. 2
        BY <1>4, <3>3, <4>1
      <4> QED
        BY <3>1, <4>1, <4>2
    <3>5. disk'["manifest"].content = "whole" => IsCaptureOf(c)'
      BY <2>3, <3>3, <3>4 DEF IsCaptureOf
    <3> QED
      BY <1>1, <1>2, <1>5, <2>4, <2>5, <3>5 DEF LabelOf
  <2>7. CASE file[c] # 3
    <3>1. ~Exists("manifest")
      BY <1>3, <1>4, <1>5, <2>7, LabelIsInOrder DEF Progress
    <3>2. here # "manifest"
      BY <1>3, <1>4, <2>7, OutputAtFacts DEF here
    <3>3. disk'["manifest"].content = "none"
      BY <1>4, <2>3, <3>1, <3>2, LabelIsInOrder DEF AbsentInv
    <3> QED
      BY <1>1, <1>2, <1>5, <2>4, <2>5, <3>3 DEF LabelOf
  <2> QED
    BY <2>6, <2>7
<1>6. CASE pc[c] # "write"
  <2>1. disk' = disk
    BY <1>6, LabelIsInOrder, InterruptFacts
  <2>2. OpenInv'
    BY <1>6, <2>1, LabelIsItsOwn DEF OpenInv
  <2>3. AbsentInv'
    BY <2>1, LabelIsInOrder DEF AbsentInv, Exists
  <2>4. pc[c] # "unlink" => disk'["manifest"].content # "whole"
    <3>1. Progress(c, 3)
      BY LabelIsInOrder
    <3> QED
      BY <1>3, <1>4, <1>6, <2>1, <3>1, LabelIsInOrder DEF Progress, AbsentInv, Writing
  <2> QED
    BY <1>1, <1>2, <2>2, <2>3, <2>4 DEF LabelOf
<1> QED
  BY <1>5, <1>6

(***************************************************************************)
(* The theorems                                                            *)
(***************************************************************************)
LEMMA LabelNext == ~Concurrent /\ IInv /\ [Next]_vars => LabelInv'
<1> SUFFICES ASSUME ~Concurrent, IInv, [Next]_vars PROVE LabelInv'
  OBVIOUS
<1>1. CASE UNCHANGED vars
  BY <1>1 DEF vars, IInv, LabelInv, OneRuns, Running, OpenInv, AbsentInv, Exists, OnlyAuthor,
              Progress, LeftInv, WrittenIsKept, ManifestCommitsCapture, IsCaptureOf
<1>2. ASSUME NEW c \in Commands, Act(c) PROVE LabelInv'
  <2>1. CASE pc[c] \notin Writing
    BY <1>2, <2>1, LabelBeforeWriting
  <2>2. CASE pc[c] \in Writing
    <3>1. LabelOf(c)'
      <4>1. \/ CreateOutput(c) \/ WriteOutput(c) \/ WriteFails(c) \/ Unlink(c)
            \/ Interrupt(c)
        BY <1>2, <2>2 DEF Act, Step, Start, OpenDevice, CaptureRow, CaptureFails, CloseDevice,
                          CheckRecord, CheckOutput, Writing
      <4> QED
        BY <2>2, <4>1, LabelCreate, LabelWrite, LabelWriteFails, LabelUnlink, LabelInterrupt
    <3> QED
      BY <1>2, <2>2, <3>1, LabelWhileWriting
  <2> QED
    BY <2>1, <2>2
<1> QED
  BY <1>1, <1>2 DEF Next, Act

LEMMA LabelInit == Init => LabelInv
<1> SUFFICES ASSUME Init PROVE LabelInv
  OBVIOUS
<1>1. \A output \in Outputs : disk[output] = Absent /\ ~Exists(output)
  BY AbsentFacts DEF Init, Exists
<1>2. "manifest" \in Outputs
  BY DEF Outputs
<1> QED
  BY <1>1, <1>2, AbsentFacts DEF Init, LabelInv, OneRuns, Running, OpenInv, AbsentInv,
      OnlyAuthor, Progress, LeftInv, WrittenIsKept, ManifestCommitsCapture, Writing

LEMMA Labels == ~Concurrent => (Spec => []IInv)
<1> SUFFICES ASSUME ~Concurrent PROVE Spec => []IInv
  OBVIOUS
<1>1. Init => TypeInv /\ LocalInv /\ AuthorsInv
  BY TypeInit, AbsentFacts
     DEF Init, LocalInv, Local, Writing, AuthorsInv, AuthorIsPastCapture, Exists
<1>2. Init => IInv
  BY <1>1, LabelInit DEF IInv
<1>3. IInv /\ [Next]_vars => IInv'
  BY TypeNext, LocalNext, AuthorsNext, LabelNext DEF IInv
<1> QED
  BY <1>2, <1>3, PTL DEF Spec

\* The manifest is the commit point: when executions follow one another, a whole
\* manifest has its other two outputs, except for a cleanup under way or cut short.
THEOREM ManifestCommits == ~Concurrent => (Spec => []ManifestCommitsCapture)
<1>1. IInv => ManifestCommitsCapture
  BY DEF IInv, LabelInv
<1> QED
  BY <1>1, Labels, PTL

\* When executions follow one another, what write_capture has reported as written
\* stays as it was written, whatever later executions with the same label do.
THEOREM WrittenKept == ~Concurrent => (Spec => []WrittenIsKept)
<1>1. IInv => WrittenIsKept
  BY DEF IInv, LabelInv
<1> QED
  BY <1>1, Labels, PTL

\* When executions follow one another and nothing is executing, a label is free
\* or complete, unless one was interrupted or could not remove its outputs.
THEOREM NothingStranded == ~Concurrent => (Spec => []NothingIsStranded)
<1>1. IInv => NothingIsStranded
  <2> SUFFICES ASSUME IInv, \A c \in Commands : ~Running(c),
                      \A c \in Commands : outcome[c] \notin {"interrupted", "stranded"},
                      NEW output \in Outputs, Exists(output)
               PROVE  \E c \in Commands : outcome[c] = "written" /\ IsCaptureOf(c)
    BY DEF NothingIsStranded
  <2>1. PICK c \in Commands : c = disk[output].author
    BY DEF IInv, TypeInv, Files, Exists
  <2>2. pc[c] = "ended"
    BY <2>1 DEF IInv, AuthorsInv, AuthorIsPastCapture, Running, Writing
  <2>3. outcome[c] = "written"
    BY <2>1, <2>2 DEF IInv, LabelInv, LeftInv
  <2> QED
    BY <2>3 DEF IInv, LabelInv, WrittenIsKept
<1> QED
  BY <1>1, Labels, PTL
=============================================================================
