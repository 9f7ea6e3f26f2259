-------------------------- MODULE LinuxSpidevDevice --------------------------
(***************************************************************************)
(* The life of LinuxSpidevDevice objects on one spidev device node: the    *)
(* settings are validated, the node is opened and configured attribute by  *)
(* attribute, a MAX31865 driver checks the settings and transfers, and the *)
(* connection is closed, perhaps after several attempts.                   *)
(*                                                                         *)
(* The node keeps the settings of whoever configured it last, so that each *)
(* connection starts from what others have left.  Connections to the node  *)
(* follow one another.  Every call of the backend may raise, having had    *)
(* its effect or not, and construction may be interrupted.                 *)
(***************************************************************************)
EXTENDS Integers, Sequences

CONSTANTS
    Connections,   \* the adapter objects
    Requests,      \* what the users of the adapter give to SpiSettings
    MaxClock       \* _MAX_SPI_CLOCK_HZ of the driver

ASSUME SettingsAssumption ==
    /\ MaxClock \in Nat \ {0}
    /\ Requests \subseteq [polarity : Nat, phase : Nat, clock : Nat,
                           order : {"msb_first", "lsb_first"}, bits : Nat,
                           csActiveLow : BOOLEAN]

VARIABLES
    node,       \* the settings of the device node
    pc,         \* where the life of each object is
    next,       \* the attribute its constructor sets next
    settings,   \* _settings
    handle,     \* its backend holds the node open
    closed,     \* _closed
    driver,     \* a MAX31865 driver uses it
    closing,    \* its user calls close() until it returns
    outcome,    \* how the last call of its user ended
    onwire,     \* history: the settings its transactions were executed with
    unclosed    \* history: the close of its constructor raised

vars == <<node, pc, next, settings, handle, closed, driver, closing, outcome, onwire, unclosed>>

(***************************************************************************)
(* Settings                                                                *)
(***************************************************************************)
\* SpiSettings.__post_init__
SettingsAreValid(s) ==
    /\ s.polarity \in {0, 1}
    /\ s.phase \in {0, 1}
    /\ s.clock > 0
    /\ s.bits > 0

\* MAX31865._validate_spi_settings
DriverAccepts(s) ==
    /\ s.phase = 1
    /\ s.clock <= MaxClock
    /\ s.order = "msb_first"
    /\ s.bits = 8
    /\ s.csActiveLow

\* rtd_acquire_max31865_spi_settings_are_compatible, which gets its settings
\* without a constructor before it.
CDriverAccepts(s) ==
    /\ s.polarity <= 1 /\ s.phase = 1
    /\ s.clock > 0 /\ s.clock <= MaxClock
    /\ s.order = "msb_first" /\ s.bits = 8
    /\ s.csActiveLow

\* Slip: the chip select is left as another program may have disabled it.
AttributesWithoutNoCs == <<"mode", "max_speed_hz", "lsbfirst", "bits_per_word", "cshigh">>

\* The attributes of the backend, in the order they are assigned.
Attributes == <<"mode", "max_speed_hz", "lsbfirst", "bits_per_word", "cshigh", "no_cs">>

Wire(s) ==
    [mode          |-> 2 * s.polarity + s.phase,
     max_speed_hz  |-> s.clock,
     lsbfirst      |-> s.order = "lsb_first",
     bits_per_word |-> s.bits,
     cshigh        |-> ~s.csActiveLow,
     no_cs         |-> FALSE]

ValidSettings == {s \in Requests : SettingsAreValid(s)}

Wires ==
    [mode : 0 .. 3, max_speed_hz : {s.clock : s \in ValidSettings}, lsbfirst : BOOLEAN,
     bits_per_word : {s.bits : s \in ValidSettings}, cshigh : BOOLEAN, no_cs : BOOLEAN]

\* A program of another kind may also have disabled the chip select.
Leftovers == {[Wire(s) EXCEPT !.no_cs = disabled] : s \in ValidSettings, disabled \in BOOLEAN}

Init ==
    /\ node \in Leftovers
    /\ pc = [c \in Connections |-> "absent"]
    /\ next = [c \in Connections |-> 1]
    /\ settings = [c \in Connections |-> CHOOSE s \in ValidSettings : TRUE]
    /\ handle = [c \in Connections |-> FALSE]
    /\ closed = [c \in Connections |-> FALSE]
    /\ driver = [c \in Connections |-> FALSE]
    /\ closing = [c \in Connections |-> FALSE]
    /\ outcome = [c \in Connections |-> "none"]
    /\ onwire = [c \in Connections |-> {}]
    /\ unclosed = [c \in Connections |-> FALSE]

Goto(c, point) == pc' = [pc EXCEPT ![c] = point]

Ends(c, how) == outcome' = [outcome EXCEPT ![c] = how]

\* What a call of the backend that raises may have left of the handle.
HandleMayBe(c, values) == \E held \in values : handle' = [handle EXCEPT ![c] = held]

Live == {"opening", "configuring", "failing", "usable"}

(***************************************************************************)
(* Construction                                                            *)
(***************************************************************************)
\* SpiSettings, then the constructor up to the first call of the backend: the
\* settings or the path may be refused, the backend missing or unusable.
Construct(c) ==
    /\ pc[c] = "absent"
    /\ \A other \in Connections : pc[other] \notin Live
    /\ \/ /\ \E s \in ValidSettings : settings' = [settings EXCEPT ![c] = s]
          /\ Goto(c, "opening")
          /\ UNCHANGED outcome
       \/ /\ Goto(c, "gone")
          /\ \E how \in {"ConfigurationError", "AcquisitionError", "ImportError"} : Ends(c, how)
          /\ UNCHANGED settings
    /\ UNCHANGED <<node, next, handle, closed, driver, closing, onwire, unclosed>>

OpenPath(c) ==
    /\ pc[c] = "opening"
    /\ \/ HandleMayBe(c, {TRUE}) /\ Goto(c, "configuring")
       \/ HandleMayBe(c, BOOLEAN) /\ Goto(c, "failing")
    /\ UNCHANGED <<node, next, settings, closed, driver, closing, outcome, onwire, unclosed>>

Configure(c) ==
    LET attribute == Attributes[next[c]]
        assigned  == [node EXCEPT ![attribute] = Wire(settings[c])[attribute]]
        last      == next[c] = Len(Attributes)
    IN
    /\ pc[c] = "configuring"
    /\ \/ /\ node' = assigned
          /\ Goto(c, IF last THEN "usable" ELSE "configuring")
          /\ next' = [next EXCEPT ![c] = IF last THEN 1 ELSE @ + 1]
       \/ /\ node' \in {node, assigned}
          /\ Goto(c, "failing")
          /\ UNCHANGED next
    /\ UNCHANGED <<settings, handle, closed, driver, closing, outcome, onwire, unclosed>>

\* Slip: the object is marked as closed, and the backend left as it is.
CloseAfterFailedOpenMarked(c) ==
    /\ pc[c] = "failing"
    /\ closed' = [closed EXCEPT ![c] = TRUE]
    /\ Goto(c, "gone")
    /\ Ends(c, "AcquisitionError")
    /\ UNCHANGED <<node, next, settings, handle, driver, closing, onwire, unclosed>>

\* The backend is closed, or its close raises, with the handle released or not.
\* That exception is suppressed: the object counts as closed either way.
CloseAfterFailedOpen(c) ==
    /\ pc[c] = "failing"
    /\ \/ HandleMayBe(c, {FALSE}) /\ UNCHANGED unclosed
       \/ HandleMayBe(c, {FALSE, handle[c]}) /\ unclosed' = [unclosed EXCEPT ![c] = TRUE]
    /\ closed' = [closed EXCEPT ![c] = TRUE]
    /\ Goto(c, "gone")
    /\ Ends(c, "AcquisitionError")
    /\ UNCHANGED <<node, next, settings, driver, closing, onwire>>

\* A BaseException is not caught by `except Exception', nor suppressed.
InterruptConstruction(c) ==
    /\ pc[c] \in {"opening", "configuring", "failing"}
    /\ IF pc[c] = "failing" THEN HandleMayBe(c, {FALSE, handle[c]}) ELSE UNCHANGED handle
    /\ Goto(c, "gone")
    /\ Ends(c, "interrupted")
    /\ UNCHANGED <<node, next, settings, closed, driver, closing, onwire, unclosed>>

(***************************************************************************)
(* Use                                                                     *)
(***************************************************************************)
\* MAX31865.__init__ accepts the connection, or refuses it as it is.
CreateDriver(c) ==
    /\ pc[c] = "usable"
    /\ driver' = [driver EXCEPT ![c] = @ \/ DriverAccepts(settings[c])]
    /\ Ends(c, IF DriverAccepts(settings[c]) THEN "returned" ELSE "ConfigurationError")
    /\ UNCHANGED <<node, next, pc, settings, handle, closed, closing, onwire, unclosed>>

Executed(c) == onwire' = [onwire EXCEPT ![c] = @ \cup {node}]

\* Slip: the backend is used whether or not the object was closed.
TransferUnchecked(c) ==
    /\ pc[c] = "usable"
    /\ \/ /\ Executed(c)
          /\ Ends(c, "returned")
       \/ /\ Ends(c, "AcquisitionError")
          /\ UNCHANGED onwire
    /\ UNCHANGED <<node, next, pc, settings, handle, closed, driver, closing, unclosed>>

\* One transaction.  When it raises, or its response has a wrong length or
\* invalid bytes, it may have been executed.
Transfer(c) ==
    /\ pc[c] = "usable"
    /\ \/ /\ ~closed[c] /\ handle[c]
          /\ Executed(c)
          /\ \E how \in {"returned", "AcquisitionError"} : Ends(c, how)
       \/ /\ Ends(c, "AcquisitionError")
          /\ UNCHANGED onwire
    /\ UNCHANGED <<node, next, pc, settings, handle, closed, driver, closing, unclosed>>

\* Slip: the object is marked as closed before the backend is.
CloseMarkedFirst(c) ==
    /\ pc[c] = "usable"
    /\ closed' = [closed EXCEPT ![c] = TRUE]
    /\ \/ /\ HandleMayBe(c, {IF closed[c] THEN handle[c] ELSE FALSE})
          /\ Ends(c, "returned")
          /\ closing' = [closing EXCEPT ![c] = FALSE]
       \/ /\ ~closed[c]
          /\ HandleMayBe(c, {FALSE, handle[c]})
          /\ \E how \in {"AcquisitionError", "interrupted"} : Ends(c, how)
          /\ \E again \in BOOLEAN : closing' = [closing EXCEPT ![c] = @ \/ again]
    /\ UNCHANGED <<node, next, pc, settings, driver, onwire, unclosed>>

\* close(), or __exit__.  The backend may raise, with the handle released or
\* not; the object is then not marked as closed, and its user may call again.
Close(c) ==
    /\ pc[c] = "usable"
    /\ \/ /\ closed' = [closed EXCEPT ![c] = TRUE]
          /\ HandleMayBe(c, {IF closed[c] THEN handle[c] ELSE FALSE})
          /\ Ends(c, "returned")
          /\ closing' = [closing EXCEPT ![c] = FALSE]
       \/ /\ ~closed[c]
          /\ HandleMayBe(c, {FALSE, handle[c]})
          /\ \E how \in {"AcquisitionError", "interrupted"} : Ends(c, how)
          /\ \E again \in BOOLEAN : closing' = [closing EXCEPT ![c] = @ \/ again]
          /\ UNCHANGED closed
    /\ UNCHANGED <<node, next, pc, settings, driver, onwire, unclosed>>

\* The user forgets the object.
Discard(c) ==
    /\ pc[c] = "usable" /\ ~closing[c]
    /\ Goto(c, "gone")
    /\ UNCHANGED <<node, next, settings, handle, closed, driver, closing, outcome, onwire, unclosed>>

Next ==
    \E c \in Connections :
        \/ Construct(c)
        \/ OpenPath(c)
        \/ Configure(c)
        \/ CloseAfterFailedOpen(c)
        \/ InterruptConstruction(c)
        \/ CreateDriver(c)
        \/ Transfer(c)
        \/ Close(c)
        \/ Discard(c)

Spec == Init /\ [][Next]_vars

\* A user who insists on closing calls again, and the backend does not refuse
\* for ever.
FairSpec ==
    Spec /\ \A c \in Connections :
                WF_vars(closing[c] /\ Close(c) /\ outcome'[c] = "returned")

(***************************************************************************)
(* Properties                                                              *)
(***************************************************************************)
\* Whatever an earlier user left in the node, every transaction of a driver is
\* executed as the converter requires it: mode 1 or 3, at most MaxClock, most
\* significant bit first, bytes, with the chip select active low and in use.  The
\* settings that the Python driver accepts are those that the C driver does.
DriverTransactionsAreCompatible ==
    \A c \in Connections : driver[c] =>
        /\ CDriverAccepts(settings[c])
        /\ \A wire \in onwire[c] :
            /\ wire.mode \in {1, 3}
            /\ wire.max_speed_hz \in 1 .. MaxClock
            /\ wire.bits_per_word = 8
            /\ ~wire.lsbfirst /\ ~wire.cshigh /\ ~wire.no_cs

\* An object that reports itself closed has released the node, as long as
\* anybody can still reach it: a close that failed is not taken for done.
ClosedIsReleased ==
    \A c \in Connections : pc[c] = "usable" /\ closed[c] => ~handle[c]

\* A constructor that raises after a call of the backend has released the node,
\* whichever attribute was refused and whether or not the open that raised took
\* effect: the node stays open only when the backend's own close raised as well,
\* or the construction was interrupted.
FailedOpenReleases ==
    [][\A c \in Connections :
          (pc[c] \in {"opening", "configuring", "failing"} /\ pc'[c] = "gone" /\ handle'[c])
              => outcome'[c] = "interrupted" \/ unclosed'[c]]_vars

\* A user who keeps closing gets the node released.
InsistingReleases == \A c \in Connections : closing[c] ~> ~handle[c]

\* The adapter implements the connection contract.
Phase(c) ==
    CASE pc[c] = "absent" -> "absent"
      [] pc[c] \in {"opening", "configuring", "failing"} -> "opening"
      [] pc[c] = "usable" /\ ~closed[c] -> "open"
      [] OTHER -> "closed"

Contract ==
    INSTANCE SpiConnection
        WITH phase    <- [c \in Connections |-> Phase(c)],
             promised <- [c \in Connections |-> Wire(settings[c])]

ImplementsSpiConnection == Contract!Spec
=============================================================================
