------------------------ MODULE ValidationRecord_proofs ------------------------
(***************************************************************************)
(* Theorems about the record initializer, for any number of creators and   *)
(* captures that overlap in any way.                                       *)
(***************************************************************************)
EXTENDS ValidationRecord, TLAPS

\* Past mkdir, in the try block or in its cleanup.
Filling == {"copy", "copying", "commit", "status", "create", "write"}
Inside == Filling \cup {"remove"}
Points == {"ready", "mkdir", "ended"} \cup Inside
Outcomes == {"none", "refused", "created", "failed", "stranded", "interrupted"}
Texts == {"none", "empty", "partial", "whole"}
Readers == {"ready", "read", "accepted", "refused"}

TypeInv ==
    /\ pc \in [Creators -> Points]
    /\ outcome \in [Creators -> Outcomes]
    /\ meta \in [Creators -> [commit : Nat, clean : {"null", "yes", "no"}]]
    /\ author \in Creators \cup {Nobody}
    /\ content \in [Files -> Texts]
    /\ reader \in [Captures -> Readers]
    /\ head \in Nat
    /\ dirty \in BOOLEAN

\* How far a creator has come with the record.
Progress(c) ==
    /\ pc[c] \in Inside => author = c
    /\ pc[c] = "copy" => content["record.md"] = "none"
    /\ pc[c] \in {"commit", "status", "create", "write"} => content["record.md"] = "whole"
    /\ pc[c] \in Filling \ {"write"} => content["environment.json"] = "none"
    /\ pc[c] = "write" => content["environment.json"] = "empty"
    /\ outcome[c] = "created" =>
          /\ pc[c] = "ended" /\ author = c
          /\ content["record.md"] = "whole" /\ content["environment.json"] = "whole"

\* The directory belongs to a creator that is at work in it, has completed it, or
\* was kept from removing it; only the template of an interrupted one is certain to
\* be there when the environment is.
AuthorInv ==
    IF author = Nobody
    THEN content["record.md"] = "none" /\ content["environment.json"] = "none"
    ELSE \/ pc[author] \in Inside
         \/ pc[author] = "ended" /\ outcome[author] \in {"created", "stranded"}
         \/ /\ pc[author] = "ended" /\ outcome[author] = "interrupted"
            /\ content["environment.json"] = "whole" => content["record.md"] = "whole"

RecordInv == (\A c \in Creators : Progress(c)) /\ AuthorInv

(***************************************************************************)
(* What a step changes                                                     *)
(***************************************************************************)
Act(c) == Look(c) \/ Step(c) \/ Interrupt(c)

Frame(c) ==
    /\ \A d \in Creators \ {c} : pc'[d] = pc[d] /\ outcome'[d] = outcome[d] /\ meta'[d] = meta[d]
    /\ UNCHANGED <<reader, head, dirty>>

\* A creator writes one of its files and goes on, or ends.
Fills(c) ==
    /\ pc[c] \in {"copy", "copying", "create", "write"}
    /\ CopyTemplate(c) \/ WriteEnvironment(c) \/ Fail(c)

FillsTo(c, file, texts) ==
    /\ \E text \in texts : content' = [content EXCEPT ![file] = text]
    /\ UNCHANGED <<meta, author, reader, head, dirty>>

LEMMA FillFacts ==
    ASSUME TypeInv, NEW file \in Files, NEW texts \in SUBSET Texts,
           NEW c, FillsTo(c, file, texts)
    PROVE  /\ content' \in [Files -> Texts]
           /\ content'[file] \in texts
           /\ \A other \in Files \ {file} : content'[other] = content[other]
  BY DEF TypeInv, FillsTo

\* The ways a creator writes one of its files and goes on.
LEMMA FillCases ==
    ASSUME TypeInv, NEW c \in Creators, Fills(c)
    PROVE  /\ content' \in [Files -> Texts]
           /\ UNCHANGED <<meta, author, reader, head, dirty>>
           /\ \/ /\ pc[c] = "copy" /\ Goto(c, "copying")
                 /\ content'["environment.json"] = content["environment.json"]
              \/ /\ pc[c] = "copying" /\ Goto(c, "commit")
                 /\ content'["record.md"] = "whole"
                 /\ content'["environment.json"] = content["environment.json"]
              \/ /\ pc[c] = "create" /\ Goto(c, "write")
                 /\ content'["record.md"] = content["record.md"]
                 /\ content'["environment.json"] = "empty"
              \/ /\ pc[c] = "write" /\ End(c, "created")
                 /\ content'["record.md"] = content["record.md"]
                 /\ content'["environment.json"] = "whole"
              \/ Goto(c, "remove") /\ pc[c] \in Filling
<1>1. /\ "record.md" \in Files /\ "environment.json" \in Files
      /\ "record.md" # "environment.json"
      /\ {"none"} \in SUBSET Texts /\ {"empty"} \in SUBSET Texts /\ {"whole"} \in SUBSET Texts
      /\ {"empty", "partial", "whole"} \in SUBSET Texts
  BY DEF Files, Texts
<1>2. CASE pc[c] = "copy"
  <2>1. \/ FillsTo(c, "record.md", {"empty"}) /\ Goto(c, "copying")
        \/ FillsTo(c, "record.md", {"none"}) /\ Goto(c, "remove")
    BY <1>2 DEF Fills, CopyTemplate, WriteEnvironment, Fail, Fill, FillsTo, Repository
  <2> QED
    BY <1>1, <1>2, <2>1, FillFacts DEF FillsTo, Filling
<1>3. CASE pc[c] = "copying"
  <2>1. \/ FillsTo(c, "record.md", {"whole"}) /\ Goto(c, "commit")
        \/ FillsTo(c, "record.md", {"empty", "partial", "whole"}) /\ Goto(c, "remove")
    BY <1>3 DEF Fills, CopyTemplate, WriteEnvironment, Fail, Fill, FillsTo, Repository
  <2> QED
    BY <1>1, <1>3, <2>1, FillFacts DEF FillsTo, Filling
<1>4. CASE pc[c] = "create"
  <2>1. \/ FillsTo(c, "environment.json", {"empty"}) /\ Goto(c, "write")
        \/ FillsTo(c, "environment.json", {"none"}) /\ Goto(c, "remove")
    BY <1>4 DEF Fills, CopyTemplate, WriteEnvironment, Fail, Fill, FillsTo, Repository
  <2> QED
    BY <1>1, <1>4, <2>1, FillFacts DEF FillsTo, Filling
<1>5. CASE pc[c] = "write"
  <2>1. \/ FillsTo(c, "environment.json", {"whole"}) /\ End(c, "created")
        \/ FillsTo(c, "environment.json", {"empty", "partial", "whole"}) /\ Goto(c, "remove")
    BY <1>5 DEF Fills, CopyTemplate, WriteEnvironment, Fail, Fill, FillsTo, Repository
  <2> QED
    BY <1>1, <1>5, <2>1, FillFacts DEF FillsTo, Filling
<1> QED
  BY <1>2, <1>3, <1>4, <1>5 DEF Fills

\* An interrupt of a write leaves what was written so far.
LEMMA InterruptCases ==
    ASSUME TypeInv, NEW c \in Creators, Interrupt(c)
    PROVE  /\ Running(c) /\ content' \in [Files -> Texts]
           /\ UNCHANGED <<meta, author, reader, head, dirty>>
           /\ \E how \in {"interrupted", "stranded"} :
                 End(c, how) /\ (how = "stranded" <=> pc[c] = "remove")
           /\ \/ pc[c] \notin {"copying", "write"} /\ content' = content
              \/ /\ pc[c] = "copying"
                 /\ content'["environment.json"] = content["environment.json"]
              \/ pc[c] = "write" /\ content'["record.md"] = content["record.md"]
<1>1. /\ "record.md" \in Files /\ "environment.json" \in Files
      /\ "record.md" # "environment.json"
      /\ {"empty", "partial", "whole"} \in SUBSET Texts
  BY DEF Files, Texts
<1>2. CASE pc[c] = "copying"
  <2>1. FillsTo(c, "record.md", {"empty", "partial", "whole"}) /\ End(c, "interrupted")
    BY <1>2 DEF Interrupt, Fill, FillsTo, Repository
  <2> QED
    BY <1>1, <1>2, <2>1, FillFacts DEF FillsTo, Running
<1>3. CASE pc[c] = "write"
  <2>1. FillsTo(c, "environment.json", {"empty", "partial", "whole"}) /\ End(c, "interrupted")
    BY <1>3 DEF Interrupt, Fill, FillsTo, Repository
  <2> QED
    BY <1>1, <1>3, <2>1, FillFacts DEF FillsTo, Running
<1>4. CASE pc[c] \notin {"copying", "write"}
  BY <1>4 DEF Interrupt, Fill, Repository, TypeInv
<1> QED
  BY <1>2, <1>3, <1>4

\* The steps that leave the files alone, and Remove.
LEMMA ActCases ==
    ASSUME NEW c \in Creators, Act(c)
    PROVE  \/ Look(c) \/ Mkdir(c) \/ ReadCommit(c) \/ ReadStatus(c) \/ Remove(c)
           \/ Interrupt(c) \/ Fills(c)
           \/ /\ pc[c] \in {"commit", "status"}
              /\ Goto(c, "remove")
              /\ UNCHANGED <<meta, author, content, reader, head, dirty>>
  BY DEF Act, Step, CopyTemplate, WriteEnvironment, Fail, Fill, Fills, Repository

LEMMA ActFrame ==
    ASSUME TypeInv, NEW c \in Creators, Act(c)
    PROVE  TypeInv' /\ Frame(c)
<1> USE DEF TypeInv, Frame, Goto, End, Repository
<1>1. CASE Look(c)
  BY <1>1 DEF Look, Points, Inside, Outcomes
<1>2. CASE Mkdir(c)
  BY <1>2 DEF Mkdir, Points, Inside, Filling, Outcomes
<1>3. CASE ReadCommit(c)
  <2>1. PICK known \in {Unknown, head} : meta' = [meta EXCEPT ![c].commit = known]
    BY <1>3 DEF ReadCommit
  <2>2. known \in Nat
    BY <2>1 DEF Unknown
  <2>3. /\ meta' \in [Creators -> [commit : Nat, clean : {"null", "yes", "no"}]]
        /\ \A d \in Creators \ {c} : meta'[d] = meta[d]
    BY <2>1, <2>2
  <2> QED
    BY <1>3, <2>3 DEF ReadCommit, Points, Inside, Filling
<1>4. CASE ReadStatus(c)
  <2>1. PICK known \in {"null", "yes", "no"} : meta' = [meta EXCEPT ![c].clean = known]
    BY <1>4 DEF ReadStatus
  <2>2. /\ meta' \in [Creators -> [commit : Nat, clean : {"null", "yes", "no"}]]
        /\ \A d \in Creators \ {c} : meta'[d] = meta[d]
    BY <2>1
  <2> QED
    BY <1>4, <2>2 DEF ReadStatus, Points, Inside, Filling
<1>5. CASE Remove(c)
  BY <1>5 DEF Remove, Points, Inside, Outcomes, Texts
<1>6. CASE Interrupt(c)
  <2>1. content' \in [Files -> Texts] /\ UNCHANGED <<meta, author, reader, head, dirty>>
    BY <1>6, InterruptCases
  <2>2. PICK how \in {"interrupted", "stranded"} : End(c, how)
    BY <1>6, InterruptCases
  <2>3. pc' \in [Creators -> Points] /\ outcome' \in [Creators -> Outcomes]
    BY <2>2 DEF Points, Outcomes
  <2>4. \A d \in Creators \ {c} : pc'[d] = pc[d] /\ outcome'[d] = outcome[d]
    BY <2>2
  <2> QED
    BY <2>1, <2>3, <2>4
<1>7. CASE Fills(c)
  <2>1. content' \in [Files -> Texts] /\ UNCHANGED <<meta, author, reader, head, dirty>>
    BY <1>7, FillCases
  <2>2. \/ \E point \in Points : Goto(c, point)
        \/ End(c, "created")
    BY <1>7, FillCases DEF Points, Inside, Filling
  <2>3. /\ pc' \in [Creators -> Points] /\ outcome' \in [Creators -> Outcomes]
        /\ \A d \in Creators \ {c} : pc'[d] = pc[d] /\ outcome'[d] = outcome[d]
    BY <2>2 DEF Points, Outcomes
  <2> QED
    BY <2>1, <2>3
<1>8. CASE Goto(c, "remove") /\ UNCHANGED <<meta, author, content, reader, head, dirty>>
  BY <1>8 DEF Points, Inside
<1> QED
  BY <1>1, <1>2, <1>3, <1>4, <1>5, <1>6, <1>7, <1>8, ActCases

(***************************************************************************)
(* The record                                                              *)
(***************************************************************************)
\* A creator that has not made the directory touches nothing in it.
LEMMA OutsideFacts ==
    ASSUME TypeInv, NEW c \in Creators, Act(c), pc[c] \notin Inside
    PROVE  /\ content' = content
           /\ \/ author' = author /\ pc'[c] \notin Inside
              \/ author = Nobody /\ author' = c /\ pc'[c] = "copy" /\ outcome'[c] = outcome[c]
           /\ outcome'[c] # "created" \/ outcome'[c] = outcome[c]
           /\ pc[c] # "ended"
<1> USE DEF TypeInv, Goto, End
<1>1. CASE Look(c)
  BY <1>1 DEF Look, Inside, Filling
<1>2. CASE Mkdir(c)
  BY <1>2 DEF Mkdir, Inside, Filling
<1>3. CASE ReadCommit(c) \/ ReadStatus(c) \/ Remove(c) \/ Fills(c) \/ pc[c] \in {"commit", "status"}
  BY <1>3 DEF ReadCommit, ReadStatus, Remove, Fills, Inside, Filling
<1>4. CASE Interrupt(c)
  BY <1>4, InterruptCases DEF Running, Inside, Filling
<1> QED
  BY <1>1, <1>2, <1>3, <1>4, ActCases

LEMMA InsideFacts ==
    ASSUME TypeInv, RecordInv, NEW c \in Creators, Act(c), pc[c] \in Inside
    PROVE  Progress(c)' /\ AuthorInv'
<1> USE DEF TypeInv, Goto, End
<1>1. /\ author = c /\ c # Nobody /\ outcome[c] # "created"
      /\ Progress(c)
  BY RecordAssumption DEF RecordInv, Progress, Nobody, Inside, Filling
<1>2. CASE ReadCommit(c)
  BY <1>1, <1>2 DEF ReadCommit, Progress, AuthorInv, Inside, Filling
<1>3. CASE ReadStatus(c)
  BY <1>1, <1>3 DEF ReadStatus, Progress, AuthorInv, Inside, Filling
<1>4. CASE Remove(c)
  BY <1>1, <1>4 DEF Remove, Progress, AuthorInv, Inside, Filling, Files
<1>5. CASE Interrupt(c)
  BY <1>1, <1>5, InterruptCases DEF Running, Progress, AuthorInv, Inside, Filling, Texts
<1>6. CASE Fills(c)
  BY <1>1, <1>6, FillCases DEF Fills, Progress, AuthorInv, Inside, Filling
<1>7. CASE Goto(c, "remove") /\ UNCHANGED <<meta, author, content, reader, head, dirty>>
  BY <1>1, <1>7 DEF Progress, AuthorInv, Inside, Filling
<1>8. CASE Look(c) \/ Mkdir(c)
  BY <1>8 DEF Look, Mkdir, Inside, Filling
<1> QED
  BY <1>2, <1>3, <1>4, <1>5, <1>6, <1>7, <1>8, ActCases

LEMMA RecordAct ==
    ASSUME TypeInv, RecordInv, NEW c \in Creators, Act(c)
    PROVE  RecordInv'
<1>1. TypeInv' /\ Frame(c)
  BY ActFrame
<1>2. CASE pc[c] \in Inside
  <2>1. author = c /\ Progress(c)' /\ AuthorInv'
    BY <1>2, InsideFacts DEF RecordInv, Progress
  <2>2. ASSUME NEW d \in Creators \ {c} PROVE Progress(d)'
    <3>1. Progress(d)
      BY DEF RecordInv
    <3>2. pc[d] \notin Inside /\ outcome[d] # "created"
      BY <2>1, <3>1 DEF Progress
    <3> QED
      BY <1>1, <3>2 DEF Frame, Progress, Inside, Filling
  <2> QED
    BY <2>1, <2>2 DEF RecordInv
<1>3. CASE pc[c] \notin Inside
  <2>1. /\ content' = content
        /\ \/ author' = author /\ pc'[c] \notin Inside
           \/ author = Nobody /\ author' = c /\ pc'[c] = "copy" /\ outcome'[c] = outcome[c]
        /\ outcome'[c] # "created" /\ pc[c] # "ended"
    BY <1>3, OutsideFacts DEF RecordInv, Progress
  <2>2. c # Nobody /\ \A d \in Creators : d # Nobody
    BY RecordAssumption DEF Nobody
  <2>3. ASSUME NEW d \in Creators \ {c} PROVE Progress(d)'
    BY <1>1, <2>1, <2>2 DEF Frame, RecordInv, Progress, Inside, Filling
  <2>4. Progress(c)'
    BY <2>1, <2>2 DEF RecordInv, AuthorInv, Progress, Inside, Filling
  <2>5. AuthorInv'
    <3>1. CASE author' = author
      <4>1. author # Nobody => author \in Creators \ {c}
        BY <1>3, <2>1 DEF RecordInv, AuthorInv, TypeInv
      <4> QED
        BY <1>1, <2>1, <3>1, <4>1 DEF Frame, RecordInv, AuthorInv
    <3>2. CASE author' = c /\ pc'[c] = "copy"
      BY <2>2, <3>2 DEF AuthorInv, Inside, Filling
    <3> QED
      BY <2>1, <3>1, <3>2
  <2> QED
    BY <2>3, <2>4, <2>5 DEF RecordInv
<1> QED
  BY <1>2, <1>3

LEMMA RecordNext == TypeInv /\ RecordInv /\ [Next]_vars => TypeInv' /\ RecordInv'
<1> SUFFICES ASSUME TypeInv, RecordInv, [Next]_vars PROVE TypeInv' /\ RecordInv'
  OBVIOUS
<1>1. ASSUME NEW c \in Creators, Act(c) PROVE TypeInv' /\ RecordInv'
  BY <1>1, ActFrame, RecordAct
<1>2. ASSUME NEW k \in Captures, LookForFiles(k) \/ ReadEnvironment(k)
      PROVE  TypeInv' /\ RecordInv'
  <2>1. UNCHANGED <<creatorVars, author, content, head, dirty>>
    BY <1>2 DEF LookForFiles, ReadEnvironment, Repository
  <2>2. reader' \in [Captures -> Readers]
    BY <1>2 DEF LookForFiles, ReadEnvironment, TypeInv, Readers
  <2> QED
    BY <2>1, <2>2 DEF TypeInv, RecordInv, Progress, AuthorInv, creatorVars
<1>3. CASE Work
  <2>1. UNCHANGED <<creatorVars, author, content, reader>>
    BY <1>3 DEF Work
  <2>2. head' \in Nat /\ dirty' \in BOOLEAN
    <3>1. head \in Nat /\ dirty \in BOOLEAN
      BY DEF TypeInv
    <3>2. head' \in {head, head + 1}
      BY <1>3 DEF Work
    <3>3. dirty' \in BOOLEAN
      BY <1>3, <3>1, Zenon DEF Work
    <3> QED
      BY <3>1, <3>2, <3>3
  <2> QED
    BY <2>1, <2>2 DEF TypeInv, RecordInv, Progress, AuthorInv, creatorVars
<1>4. CASE UNCHANGED vars
  BY <1>4 DEF vars, creatorVars, TypeInv, RecordInv, Progress, AuthorInv
<1> QED
  BY <1>1, <1>2, <1>3, <1>4 DEF Next, Act

LEMMA Records == Spec => [](TypeInv /\ RecordInv)
<1>1. Init => TypeInv
  BY DEF Init, TypeInv, Points, Outcomes, Texts, Readers, Unknown
<1>2. Init => RecordInv
  BY DEF Init, RecordInv, Progress, AuthorInv, Inside, Filling, Files
<1> QED
  BY <1>1, <1>2, RecordNext, PTL DEF Spec

\* What create_record has reported as created stays, whole, whatever other
\* creators of the same record do and however they fail.
THEOREM CreatedKept == Spec => []CreatedIsKept
<1>1. RecordInv => CreatedIsKept
  BY DEF RecordInv, Progress, CreatedIsKept, Files
<1> QED
  BY <1>1, Records, PTL

\* When no creator is executing there is a whole record or none, unless one was
\* interrupted or its removal failed.
THEOREM NothingStranded == Spec => []NothingIsStranded
<1>1. TypeInv /\ RecordInv => NothingIsStranded
  <2> SUFFICES ASSUME TypeInv, AuthorInv, author # Nobody,
                      \A c \in Creators : ~Running(c)
                                          /\ outcome[c] \notin {"interrupted", "stranded"}
               PROVE  \E c \in Creators : outcome[c] = "created" /\ author = c
    BY DEF RecordInv, AuthorInv, NothingIsStranded, Files
  <2>1. author \in Creators /\ pc[author] = "ended"
    BY DEF TypeInv, AuthorInv, Running, Inside, Filling
  <2> QED
    BY <2>1 DEF AuthorInv, Inside, Filling
<1> QED
  BY <1>1, Records, PTL

\* A capture is accepted only on a record with both files in full, however
\* creators fail, are interrupted or overlap, but for a record that is being
\* removed or could not be.
THEOREM AcceptedInitialized == Spec => AcceptedIsInitialized
<1>1. ASSUME TypeInv, RecordInv, [Next]_vars, NEW k \in Captures,
             reader[k] = "read", reader'[k] = "accepted"
      PROVE  \/ \A file \in Files : content[file] = "whole"
             \/ \E c \in Creators :
                   author = c /\ (pc[c] = "remove" \/ outcome[c] = "stranded")
  <2>1. content["environment.json"] = "whole"
    <3>1. reader' # reader
      BY <1>1
    <3>2. PICK j \in Captures : LookForFiles(j) \/ ReadEnvironment(j)
      BY <1>1, <3>1, ActFrame DEF Next, Act, Frame, Work, vars
    <3> QED
      BY <1>1, <3>2 DEF LookForFiles, ReadEnvironment, TypeInv
  <2>2. author \in Creators
    BY <1>1, <2>1 DEF TypeInv, RecordInv, AuthorInv
  <2>3. pc[author] \notin Filling
    BY <1>1, <2>1, <2>2 DEF RecordInv, Progress, Filling
  <2>4. content["record.md"] = "whole" \/ pc[author] = "remove" \/ outcome[author] = "stranded"
    BY <1>1, <2>1, <2>2, <2>3 DEF RecordInv, AuthorInv, Progress, Inside
  <2> QED
    BY <2>1, <2>2, <2>4 DEF Files
<1>2. TypeInv /\ RecordInv /\ [Next]_vars =>
          [\A k \in Captures : (reader[k] = "read" /\ reader'[k] = "accepted") =>
              \/ \A file \in Files : content[file] = "whole"
              \/ \E c \in Creators :
                    author = c /\ (pc[c] = "remove" \/ outcome[c] = "stranded")]_vars
  BY <1>1
<1> QED
  BY <1>2, Records, PTL DEF Spec, AcceptedIsInitialized
=============================================================================
