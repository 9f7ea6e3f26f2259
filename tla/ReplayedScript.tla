---------------------------- MODULE ReplayedScript ----------------------------
(***************************************************************************)
(* What a simulated acquisition device promises: the n-th read since its   *)
(* construction or its last reset gives the n-th entry of the script,      *)
(* which begins again when it is repeated; otherwise every read past its   *)
(* end fails and counts for nothing.                                       *)
(***************************************************************************)
EXTENDS Naturals, Sequences

CONSTANTS
    Scripts,
    Outcome(_, _),  \* what a read that comes upon an entry, or on none, gives
    Nothing         \* the user has not read yet

VARIABLES
    steps,      \* the script
    repeat,     \* it is played in a loop
    consumed,   \* the number of its entries that were given since the start
    last        \* what the last call gave

vars == <<steps, repeat, consumed, last>>

IsOver(n) == ~repeat /\ n >= Len(steps)
EntryAfter(n) == steps[(n % Len(steps)) + 1]

Init ==
    /\ steps \in Scripts
    /\ repeat \in BOOLEAN
    /\ consumed = 0
    /\ last = Nothing

Read ==
    /\ last' = Outcome(IsOver(consumed), EntryAfter(consumed))
    /\ consumed' = IF IsOver(consumed) THEN consumed ELSE consumed + 1
    /\ UNCHANGED <<steps, repeat>>

Reset == consumed' = 0 /\ UNCHANGED <<steps, repeat, last>>

Next == Read \/ Reset

Spec == Init /\ [][Next]_vars
=============================================================================
