--------------------------- MODULE ValidationRecord ---------------------------
(***************************************************************************)
(* The record of a hardware validation: executions of                      *)
(* validation.create_record that create one record directory, the          *)
(* repository whose state they write down, and executions of the capture   *)
(* helper that look whether the record has been initialized.               *)
(*                                                                         *)
(* A creator makes the directory, copies the template into record.md,      *)
(* asks git for the commit and then for the state of the worktree, and     *)
(* writes environment.json.  Every step may raise, and the removal of the  *)
(* directory that follows goes entry by entry and may raise as well.  The  *)
(* records are in a place that git ignores.                                *)
(***************************************************************************)
EXTENDS Naturals

CONSTANTS
    Creators,    \* the executions of create_record
    Captures,    \* the executions of the capture helper
    MaxCommits   \* how many commits are made: a bound of the model

ASSUME RecordAssumption ==
    /\ MaxCommits \in Nat
    /\ "nobody" \notin Creators

VARIABLES
    pc,        \* where each creator is
    outcome,   \* how it ended
    meta,      \* what it knows of the repository
    author,    \* who made the directory, "nobody" when there is none
    content,   \* what is in its two files
    reader,    \* where each capture is
    head,      \* the commit that is checked out
    dirty      \* the worktree differs from it

creatorVars == <<pc, outcome, meta>>
vars == <<pc, outcome, meta, author, content, reader, head, dirty>>

Nobody == "nobody"
Unknown == 0     \* null: git could not tell

Files == {"record.md", "environment.json"}

Running(c) == pc[c] \notin {"ready", "ended"}

Init ==
    /\ pc = [c \in Creators |-> "ready"]
    /\ outcome = [c \in Creators |-> "none"]
    /\ meta = [c \in Creators |-> [commit |-> Unknown, clean |-> "null"]]
    /\ author = Nobody
    /\ content = [file \in Files |-> "none"]
    /\ reader = [k \in Captures |-> "ready"]
    /\ head = 1
    /\ dirty \in BOOLEAN

Goto(c, point) == pc' = [pc EXCEPT ![c] = point] /\ UNCHANGED outcome

End(c, how) ==
    /\ pc' = [pc EXCEPT ![c] = "ended"]
    /\ outcome' = [outcome EXCEPT ![c] = how]

Repository == UNCHANGED <<head, dirty>>

(***************************************************************************)
(* create_record()                                                         *)
(***************************************************************************)
\* The name may be unusable, or taken.
Look(c) ==
    /\ pc[c] = "ready"
    /\ \/ author = Nobody /\ Goto(c, "mkdir")
       \/ End(c, "refused")
    /\ UNCHANGED <<meta, author, content, reader>> /\ Repository

\* Slip: mkdir is in the try block, so that its failure cleans up as well.
MkdirGuarded(c) ==
    /\ pc[c] = "mkdir"
    /\ \/ author = Nobody /\ author' = c /\ Goto(c, "copy")
       \/ UNCHANGED author /\ Goto(c, "remove")
    /\ UNCHANGED <<meta, content, reader>> /\ Repository

\* mkdir either makes the directory or raises: another creator may have made
\* it meanwhile.  It is not in the try block.
Mkdir(c) ==
    /\ pc[c] = "mkdir"
    /\ \/ author = Nobody /\ author' = c /\ Goto(c, "copy")
       \/ UNCHANGED author /\ End(c, "refused")
    /\ UNCHANGED <<meta, content, reader>> /\ Repository

\* A file is opened, which creates it, and then written and closed.
Fill(c, at, file, texts, next) ==
    /\ pc[c] = at
    /\ \E text \in texts : content' = [content EXCEPT ![file] = text]
    /\ next
    /\ UNCHANGED <<meta, author, reader>> /\ Repository

\* copyfile()
CopyTemplate(c) ==
    \/ Fill(c, "copy", "record.md", {"empty"}, Goto(c, "copying"))
    \/ Fill(c, "copying", "record.md", {"whole"}, Goto(c, "commit"))

\* git rev-parse HEAD; a git that fails is recorded as null.
ReadCommit(c) ==
    /\ pc[c] = "commit"
    /\ \E known \in {Unknown, head} : meta' = [meta EXCEPT ![c].commit = known]
    /\ Goto(c, "status")
    /\ UNCHANGED <<author, content, reader>> /\ Repository

\* git status, a process of its own.  The version of the package follows.
ReadStatus(c) ==
    /\ pc[c] = "status"
    /\ \E known \in {"null", IF dirty THEN "no" ELSE "yes"} :
            meta' = [meta EXCEPT ![c].clean = known]
    /\ Goto(c, "create")
    /\ UNCHANGED <<author, content, reader>> /\ Repository

WriteEnvironment(c) ==
    \/ Fill(c, "create", "environment.json", {"empty"}, Goto(c, "write"))
    \/ Fill(c, "write", "environment.json", {"whole"}, End(c, "created"))

\* Slip: the environment is written after the try block.
FailExceptWriting(c) ==
    \/ Fill(c, "copy", "record.md", {"none"}, Goto(c, "remove"))
    \/ Fill(c, "copying", "record.md", {"empty", "partial", "whole"}, Goto(c, "remove"))
    \/ /\ pc[c] \in {"commit", "status"}
       /\ Goto(c, "remove")
       /\ UNCHANGED <<meta, author, content, reader>> /\ Repository
    \/ Fill(c, "create", "environment.json", {"none"}, End(c, "failed"))
    \/ Fill(c, "write", "environment.json", {"empty", "partial", "whole"}, End(c, "failed"))

\* An exception in the try block; a write may fail on its way or at its close.
Fail(c) ==
    \/ Fill(c, "copy", "record.md", {"none"}, Goto(c, "remove"))
    \/ Fill(c, "copying", "record.md", {"empty", "partial", "whole"}, Goto(c, "remove"))
    \/ /\ pc[c] \in {"commit", "status"}
       /\ Goto(c, "remove")
       /\ UNCHANGED <<meta, author, content, reader>> /\ Repository
    \/ Fill(c, "create", "environment.json", {"none"}, Goto(c, "remove"))
    \/ Fill(c, "write", "environment.json", {"empty", "partial", "whole"}, Goto(c, "remove"))

\* rmtree: the entries in any order, then the directory.  It stops with an
\* OSError of its own at the first that cannot be removed.
Remove(c) ==
    /\ pc[c] = "remove"
    /\ \/ /\ \E file \in Files :
                /\ content[file] # "none"
                /\ content' = [content EXCEPT ![file] = "none"]
          /\ Goto(c, "remove")
          /\ UNCHANGED author
       \/ /\ \A file \in Files : content[file] = "none"
          /\ author' = Nobody
          /\ End(c, "failed")
          /\ UNCHANGED content
       \/ /\ End(c, "stranded")
          /\ UNCHANGED <<author, content>>
    /\ UNCHANGED <<meta, reader>> /\ Repository

\* A KeyboardInterrupt is not an Exception: nothing is removed any more, what was
\* being written is cut short, and so is a removal.
Interrupt(c) ==
    \/ Fill(c, "copying", "record.md", {"empty", "partial", "whole"}, End(c, "interrupted"))
    \/ Fill(c, "write", "environment.json", {"empty", "partial", "whole"}, End(c, "interrupted"))
    \/ /\ Running(c) /\ pc[c] \notin {"copying", "write"}
       /\ End(c, IF pc[c] = "remove" THEN "stranded" ELSE "interrupted")
       /\ UNCHANGED <<meta, author, content, reader>> /\ Repository

(***************************************************************************)
(* _require_initialized_record()                                           *)
(***************************************************************************)
LookForFiles(k) ==
    /\ reader[k] = "ready"
    /\ reader' = [reader EXCEPT
            ![k] = IF \A file \in Files : content[file] # "none" THEN "read" ELSE "refused"]
    /\ UNCHANGED <<creatorVars, author, content>> /\ Repository

\* Slip: a file that exists is taken for what it should be.
ReadEnvironmentUnparsed(k) ==
    /\ reader[k] = "read"
    /\ reader' = [reader EXCEPT
            ![k] = IF content["environment.json"] # "none" THEN "accepted" ELSE "refused"]
    /\ UNCHANGED <<creatorVars, author, content>> /\ Repository

\* Only the whole environment.json parses and has its schema version.
ReadEnvironment(k) ==
    /\ reader[k] = "read"
    /\ reader' = [reader EXCEPT
            ![k] = IF content["environment.json"] = "whole" THEN "accepted" ELSE "refused"]
    /\ UNCHANGED <<creatorVars, author, content>> /\ Repository

(***************************************************************************)
(* The repository                                                          *)
(***************************************************************************)
Work ==
    /\ \/ dirty' = ~dirty /\ UNCHANGED head
       \/ head <= MaxCommits /\ head' = head + 1 /\ dirty' \in BOOLEAN
    /\ UNCHANGED <<creatorVars, author, content, reader>>

Step(c) ==
    \/ Mkdir(c)
    \/ CopyTemplate(c)
    \/ ReadCommit(c)
    \/ ReadStatus(c)
    \/ WriteEnvironment(c)
    \/ Fail(c)
    \/ Remove(c)

Next ==
    \/ \E c \in Creators : Look(c) \/ Step(c) \/ Interrupt(c)
    \/ \E k \in Captures : LookForFiles(k) \/ ReadEnvironment(k)
    \/ Work

Spec == Init /\ [][Next]_vars

(***************************************************************************)
(* Properties                                                              *)
(***************************************************************************)
\* What create_record has reported as created stays, whole, whatever other
\* creators of the same record do and however they fail.
CreatedIsKept ==
    \A c \in Creators : outcome[c] = "created" =>
        author = c /\ \A file \in Files : content[file] = "whole"

\* environment.json, written last and parsed by the capture, commits the record: a
\* capture is accepted only on a record with both files in full.  A record whose
\* creation was interrupted half way is not taken for an initialized one, nor is
\* one that is still being made.  The exception is a removal under way or cut
\* short, which may have begun with the template.
AcceptedIsInitialized ==
    [][\A k \in Captures : (reader[k] = "read" /\ reader'[k] = "accepted") =>
          \/ \A file \in Files : content[file] = "whole"
          \/ \E c \in Creators : author = c /\ (pc[c] = "remove" \/ outcome[c] = "stranded")]_vars

\* When no creator is executing, there is a whole record or none, unless one
\* was interrupted or its removal failed: the name can be used again.
NothingIsStranded ==
    (\A c \in Creators : ~Running(c) /\ outcome[c] \notin {"interrupted", "stranded"})
        => \/ author = Nobody /\ \A file \in Files : content[file] = "none"
           \/ \E c \in Creators : outcome[c] = "created" /\ author = c

\* Validation "should be run from a clean checkout so the recorded commit
\* identifies the exact source under test" (validation/README.md): when the
\* worktree is recorded as clean, the recorded commit is what is checked out.
CleanCommitIsTheSource ==
    [][\A c \in Creators : (pc[c] = "status" /\ meta'[c].clean = "yes") =>
          meta'[c].commit \in {Unknown, head}]_vars
=============================================================================
