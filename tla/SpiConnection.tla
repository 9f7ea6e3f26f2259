---------------------------- MODULE SpiConnection ----------------------------
(***************************************************************************)
(* What a configured SPI device connection promises the driver that uses   *)
(* it (the SpiDevice protocol, and close() of the Linux adapter): every    *)
(* transaction is executed with exactly the settings of the connection,    *)
(* and none is executed before it is open or after it was closed.          *)
(***************************************************************************)
CONSTANTS
    Connections,
    Wires    \* the settings a transaction can be executed with

VARIABLES
    phase,      \* "absent", "opening", "open" or "closed"
    promised,   \* the settings of the connection
    onwire      \* the settings its transactions were executed with

vars == <<phase, promised, onwire>>

Init ==
    /\ phase = [c \in Connections |-> "absent"]
    /\ promised \in [Connections -> Wires]
    /\ onwire = [c \in Connections |-> {}]

Move(c, from, to) == phase[c] \in from /\ phase' = [phase EXCEPT ![c] = to]

Begin(c) ==
    /\ Move(c, {"absent"}, "opening")
    /\ \E wire \in Wires : promised' = [promised EXCEPT ![c] = wire]
    /\ UNCHANGED onwire

Open(c) == Move(c, {"opening"}, "open") /\ UNCHANGED <<promised, onwire>>

Transact(c) ==
    /\ Move(c, {"open"}, "open")
    /\ onwire' = [onwire EXCEPT ![c] = @ \cup {promised[c]}]
    /\ UNCHANGED promised

\* An open that fails, a close, or a caller that forgets the connection.
Close(c) == Move(c, {"absent", "opening", "open"}, "closed") /\ UNCHANGED <<promised, onwire>>

Next == \E c \in Connections : Begin(c) \/ Open(c) \/ Transact(c) \/ Close(c)

Spec == Init /\ [][Next]_vars
=============================================================================
