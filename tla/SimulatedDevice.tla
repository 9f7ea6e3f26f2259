--------------------------- MODULE SimulatedDevice ---------------------------
(***************************************************************************)
(* SimulatedAcquisitionDevice: a player of scripted measurements and       *)
(* failures, with an index that the read after the last entry wraps, and a *)
(* counter of the entries it has given.                                    *)
(***************************************************************************)
EXTENDS MAX31865Decode, Sequences

CONSTANTS
    Scripts,   \* the scripts that devices are constructed with
    MaxReads   \* when nobody reads any more without a reset: a bound of the model

VARIABLES
    steps,       \* _steps
    repeat,      \* _repeat
    index,       \* _index
    read_count,  \* _read_count
    last         \* what the last read returned or raised

deviceVars == <<steps, repeat, index, read_count, last>>

Measurements == [resistance : Int, diagnostics : SUBSET FaultBits]

\* An entry is a measurement, or a failure: a resistance that is missing
\* without a fault is what no measurement can be.
Failure == [resistance |-> NoResistance, diagnostics |-> {}]
IsEntry(m) == m \in Measurements /\ (MeasurementIsValid(m) \/ m = Failure)

ASSUME ScriptsAssumption ==
    /\ \A script \in Scripts : /\ script \in Seq(Measurements) /\ script # <<>>
                               /\ \A i \in DOMAIN script : IsEntry(script[i])
    /\ MaxReads \in Nat

\* A read returns a measurement, raises what the script says, or raises because
\* there is nothing left.
Outcome(over, entry) ==
    [kind  |-> IF over THEN "exhausted" ELSE IF entry = Failure THEN "raised" ELSE "returned",
     entry |-> IF over THEN Failure ELSE entry]

Nothing == [kind |-> "none", entry |-> Failure]

DeviceInit ==
    /\ steps \in Scripts
    /\ repeat \in BOOLEAN
    /\ index = 0
    /\ read_count = 0
    /\ last = Nothing

\* read(): a read past the end changes nothing, unless the script is repeated;
\* the index moves on before a scripted failure is raised.
Read ==
    LET over == index >= Len(steps) /\ ~repeat
        at   == IF index >= Len(steps) THEN 1 ELSE index + 1
    IN  /\ last' = Outcome(over, steps[at])
        /\ index' = IF over THEN index ELSE at
        /\ read_count' = IF over THEN read_count ELSE read_count + 1
        /\ UNCHANGED <<steps, repeat>>

Reset == index' = 0 /\ read_count' = 0 /\ UNCHANGED <<steps, repeat, last>>

(***************************************************************************)
(* Properties of the device                                                *)
(***************************************************************************)
\* The counter tells where in the script the device is: the index is behind
\* the last entry given, and reaches beyond the end only there.
IndexFollowsCount ==
    IF read_count = 0 THEN index = 0
    ELSE index = ((read_count - 1) % Len(steps)) + 1

\* The device replays its script deterministically.
Promise == INSTANCE ReplayedScript WITH consumed <- read_count

ReplaysScript == Promise!Spec
=============================================================================
