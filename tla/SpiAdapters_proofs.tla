-------------------------- MODULE SpiAdapters_proofs --------------------------
(***************************************************************************)
(* Theorems about what can be behind the SPI contract: the Linux adapter,  *)
(* for any number of objects that follow one another on a device node, any *)
(* settings asked of them and any settings left in the node; the Arduino   *)
(* AVR adapter, for any number of contexts on the bus, any CPU frequency   *)
(* and any clocks asked for; and the emulator, for any code, fault status  *)
(* and requests.                                                           *)
(***************************************************************************)
EXTENDS LinuxSpidevDevice, ArduinoAvrSpi, MAX31865Emulator, FiniteSetTheorems,
        WellFoundedInduction, TLAPS

(***************************************************************************)
(* The Linux adapter                                                       *)
(***************************************************************************)
Points == {"absent", "opening", "configuring", "failing", "usable", "gone"}
Outcomes == {"none", "returned", "ConfigurationError", "AcquisitionError", "ImportError",
             "interrupted"}

TypeInv ==
    /\ node \in Wires
    /\ pc \in [Connections -> Points]
    /\ next \in [Connections -> 1 .. 6]
    /\ settings \in [Connections -> ValidSettings]
    /\ handle \in [Connections -> BOOLEAN]
    /\ closed \in [Connections -> BOOLEAN]
    /\ driver \in [Connections -> BOOLEAN]
    /\ closing \in [Connections -> BOOLEAN]
    /\ outcome \in [Connections -> Outcomes]
    /\ onwire \in [Connections -> SUBSET Wires]
    /\ unclosed \in [Connections -> BOOLEAN]

(***************************************************************************)
(* The settings of a device node                                           *)
(***************************************************************************)
Names == {"mode", "max_speed_hz", "lsbfirst", "bits_per_word", "cshigh", "no_cs"}

LEMMA AttributesFacts ==
    /\ Len(Attributes) = 6
    /\ \A i \in 1 .. 6 : Attributes[i] \in Names
    /\ \A i, j \in 1 .. 6 : Attributes[i] = Attributes[j] => i = j
    /\ \A name \in Names : \E i \in 1 .. 6 : Attributes[i] = name
<1>1. /\ Len(Attributes) = 6
      /\ Attributes[1] = "mode" /\ Attributes[2] = "max_speed_hz" /\ Attributes[3] = "lsbfirst"
      /\ Attributes[4] = "bits_per_word" /\ Attributes[5] = "cshigh" /\ Attributes[6] = "no_cs"
  BY DEF Attributes
<1>2. 1 .. 6 = {1, 2, 3, 4, 5, 6}
  OBVIOUS
<1> HIDE DEF Attributes
<1>3. \A i \in 1 .. 6 : Attributes[i] \in Names
  BY <1>1, <1>2 DEF Names
<1>4. \A i, j \in 1 .. 6 : Attributes[i] = Attributes[j] => i = j
  BY <1>1, <1>2
<1>5. \A name \in Names : \E i \in 1 .. 6 : Attributes[i] = name
  BY <1>1, <1>2 DEF Names
<1> QED
  BY <1>1, <1>3, <1>4, <1>5

LEMMA ValidSettingsFacts ==
    ASSUME NEW s \in ValidSettings
    PROVE  /\ s.polarity \in {0, 1} /\ s.phase \in {0, 1}
           /\ s.clock \in Nat \ {0} /\ s.bits \in Nat \ {0}
           /\ s.order \in {"msb_first", "lsb_first"} /\ s.csActiveLow \in BOOLEAN
<1>1. s \in [polarity : Nat, phase : Nat, clock : Nat, order : {"msb_first", "lsb_first"},
             bits : Nat, csActiveLow : BOOLEAN]
  BY SettingsAssumption DEF ValidSettings
<1>2. SettingsAreValid(s)
  BY DEF ValidSettings
<1> QED
  BY <1>1, <1>2 DEF SettingsAreValid

LEMMA WireFacts ==
    ASSUME NEW s \in ValidSettings
    PROVE  Wire(s) \in Wires
<1>1. 2 * s.polarity + s.phase \in 0 .. 3
  BY ValidSettingsFacts
<1>2. /\ s.clock \in {t.clock : t \in ValidSettings}
      /\ s.bits \in {t.bits : t \in ValidSettings}
  OBVIOUS
<1>3. (s.order = "lsb_first") \in BOOLEAN /\ (~s.csActiveLow) \in BOOLEAN /\ FALSE \in BOOLEAN
  OBVIOUS
<1> QED
  BY <1>1, <1>2, <1>3 DEF Wire, Wires

\* Settings that agree in every attribute are the same.
LEMMA WiresAgree ==
    ASSUME NEW v \in Wires, NEW w \in Wires,
           \A i \in 1 .. 6 : v[Attributes[i]] = w[Attributes[i]]
    PROVE  v = w
<1>1. \A name \in Names : v[name] = w[name]
  BY AttributesFacts
<1> QED
  BY <1>1 DEF Wires, Names

\* An attribute that is assigned keeps the others as they are.
LEMMA AssignFacts ==
    ASSUME NEW v \in Wires, NEW w \in Wires, NEW i \in 1 .. 6, NEW assigned,
           assigned = [v EXCEPT ![Attributes[i]] = w[Attributes[i]]]
    PROVE  /\ assigned \in Wires
           /\ assigned[Attributes[i]] = w[Attributes[i]]
           /\ \A j \in 1 .. 6 : j # i => assigned[Attributes[j]] = v[Attributes[j]]
<1> DEFINE name == Attributes[i]
<1>1. name \in Names
  BY AttributesFacts
<1> HIDE DEF name
<1>2. [v EXCEPT ![name] = w[name]] \in Wires
  BY <1>1 DEF Wires, Names
<1>3. [v EXCEPT ![name] = w[name]][name] = w[name]
  BY <1>1 DEF Wires, Names
<1>4. \A other \in Names : other # name => [v EXCEPT ![name] = w[name]][other] = v[other]
  BY <1>1 DEF Wires, Names
<1> QED
  BY <1>2, <1>3, <1>4, AttributesFacts DEF name

(***************************************************************************)
(* What a step changes                                                     *)
(***************************************************************************)
Act(c) ==
    \/ Construct(c) \/ OpenPath(c) \/ Configure(c)
    \/ CloseAfterFailedOpen(c) \/ InterruptConstruction(c)
    \/ CreateDriver(c) \/ Transfer(c) \/ Close(c) \/ Discard(c)

\* A step of c is about c only, except that it may configure the node.
Frame(c) ==
    /\ \A d \in Connections \ {c} :
          /\ pc'[d] = pc[d]
          /\ next'[d] = next[d]
          /\ settings'[d] = settings[d]
          /\ handle'[d] = handle[d]
          /\ closed'[d] = closed[d]
          /\ driver'[d] = driver[d]
          /\ onwire'[d] = onwire[d]
    /\ pc[c] # "configuring" => node' = node

LEMMA ConfigureFacts ==
    ASSUME TypeInv, NEW c \in Connections, Configure(c)
    PROVE  /\ pc[c] = "configuring" /\ node' \in Wires
           /\ \/ /\ pc' = [pc EXCEPT ![c] = IF next[c] = 6 THEN "usable" ELSE "configuring"]
                 /\ next' = [next EXCEPT ![c] = IF next[c] = 6 THEN 1 ELSE next[c] + 1]
                 /\ node'[Attributes[next[c]]] = Wire(settings[c])[Attributes[next[c]]]
                 /\ \A j \in 1 .. 6 :
                       j # next[c] => node'[Attributes[j]] = node[Attributes[j]]
              \/ pc' = [pc EXCEPT ![c] = "failing"] /\ next' = next
           /\ UNCHANGED <<settings, handle, closed, driver, closing, outcome, onwire, unclosed>>
<1>1. node \in Wires /\ Wire(settings[c]) \in Wires /\ next[c] \in 1 .. 6
  BY WireFacts DEF TypeInv
<1> DEFINE assigned == [node EXCEPT ![Attributes[next[c]]] =
                                        Wire(settings[c])[Attributes[next[c]]]]
<1>2. /\ assigned \in Wires
      /\ assigned[Attributes[next[c]]] = Wire(settings[c])[Attributes[next[c]]]
      /\ \A j \in 1 .. 6 : j # next[c] => assigned[Attributes[j]] = node[Attributes[j]]
  BY <1>1, AssignFacts
<1>3. /\ pc[c] = "configuring"
      /\ \/ /\ node' = assigned
            /\ pc' = [pc EXCEPT ![c] = IF next[c] = 6 THEN "usable" ELSE "configuring"]
            /\ next' = [next EXCEPT ![c] = IF next[c] = 6 THEN 1 ELSE next[c] + 1]
         \/ /\ node' \in {node, assigned}
            /\ pc' = [pc EXCEPT ![c] = "failing"]
            /\ next' = next
      /\ UNCHANGED <<settings, handle, closed, driver, closing, outcome, onwire, unclosed>>
  BY AttributesFacts DEF Configure, Goto, TypeInv
<1> HIDE DEF assigned
<1> QED
  BY <1>1, <1>2, <1>3

LEMMA ActFrame ==
    ASSUME TypeInv, NEW c \in Connections, Act(c)
    PROVE  TypeInv' /\ Frame(c)
<1> USE DEF TypeInv, Frame, Goto, Ends, HandleMayBe
<1>1. CASE Construct(c)
  BY <1>1 DEF Construct, Points, Outcomes
<1>2. CASE OpenPath(c)
  BY <1>2 DEF OpenPath, Points
<1>3. CASE Configure(c)
  BY <1>3, ConfigureFacts DEF Points
<1>4. CASE CloseAfterFailedOpen(c)
  <2>1. handle' \in [Connections -> BOOLEAN]
        /\ \A d \in Connections \ {c} : handle'[d] = handle[d]
    BY <1>4 DEF CloseAfterFailedOpen
  <2> QED
    BY <1>4, <2>1 DEF CloseAfterFailedOpen, Points, Outcomes
<1>5. CASE InterruptConstruction(c)
  BY <1>5 DEF InterruptConstruction, Points, Outcomes
<1>6. CASE CreateDriver(c)
  BY <1>6 DEF CreateDriver, Outcomes
<1>7. CASE Transfer(c)
  BY <1>7 DEF Transfer, Executed, Outcomes
<1>8. CASE Close(c)
  <2>1. \E held \in BOOLEAN : handle' = [handle EXCEPT ![c] = held]
    BY <1>8, Zenon DEF Close
  <2>2. handle' \in [Connections -> BOOLEAN] /\ \A d \in Connections \ {c} : handle'[d] = handle[d]
    BY <2>1
  <2>3. closed' \in [Connections -> BOOLEAN] /\ \A d \in Connections \ {c} : closed'[d] = closed[d]
    BY <1>8 DEF Close
  <2>4. closing' \in [Connections -> BOOLEAN]
    BY <1>8 DEF Close
  <2>5. outcome' \in [Connections -> Outcomes]
    BY <1>8 DEF Close, Outcomes
  <2> QED
    BY <1>8, <2>2, <2>3, <2>4, <2>5 DEF Close
<1>9. CASE Discard(c)
  BY <1>9 DEF Discard, Points
<1> QED
  BY <1>1, <1>2, <1>3, <1>4, <1>5, <1>6, <1>7, <1>8, <1>9 DEF Act

(***************************************************************************)
(* The invariant                                                           *)
(***************************************************************************)
OneLives == \A c, d \in Connections : pc[c] \in Live /\ pc[d] \in Live => c = d

\* The node has the attributes that its connection has assigned, and a usable
\* connection has assigned them all; it executes its transactions with them.
Life(c) ==
    /\ pc[c] \in {"absent", "opening"} => next[c] = 1
    /\ pc[c] = "configuring" =>
          \A i \in 1 .. 6 :
              i < next[c] => node[Attributes[i]] = Wire(settings[c])[Attributes[i]]
    /\ pc[c] = "usable" => node = Wire(settings[c])
    /\ pc[c] \in {"absent", "opening", "configuring", "failing"} =>
          ~closed[c] /\ ~driver[c] /\ onwire[c] = {}
    /\ pc[c] = "usable" /\ closed[c] => ~handle[c]
    /\ driver[c] => DriverAccepts(settings[c])
    /\ onwire[c] \subseteq {Wire(settings[c])}

IInv == TypeInv /\ OneLives /\ \A c \in Connections : Life(c)

LEMMA OneLivesNext ==
    ASSUME TypeInv, OneLives, NEW c \in Connections, Act(c)
    PROVE  OneLives'
<1>1. CASE Construct(c)
  <2>1. \A d \in Connections \ {c} : pc'[d] \notin Live
    BY <1>1, ActFrame DEF Construct, Frame
  <2> QED
    BY <2>1 DEF OneLives
<1>2. CASE ~Construct(c)
  <2>1. pc'[c] \in Live => pc[c] \in Live
    BY <1>2 DEF Act, OpenPath, Configure, CloseAfterFailedOpen, InterruptConstruction,
                CreateDriver, Transfer, Close, Discard, Goto, TypeInv, Live
  <2> QED
    BY <2>1, ActFrame DEF OneLives, Frame
<1> QED
  BY <1>1, <1>2

LEMMA LifeNext ==
    ASSUME IInv, NEW c \in Connections, Act(c)
    PROVE  Life(c)'
<1> USE DEF IInv, TypeInv, Life, Goto, Ends, HandleMayBe
<1>1. CASE Construct(c)
  BY <1>1 DEF Construct
<1>2. CASE OpenPath(c)
  BY <1>2 DEF OpenPath
<1>3. CASE Configure(c)
  <2>1. pc[c] = "configuring"
    BY <1>3, ConfigureFacts
  <2>2. ASSUME pc'[c] = "configuring", NEW i \in 1 .. 6, i < next'[c]
        PROVE  node'[Attributes[i]] = Wire(settings[c])[Attributes[i]]
    <3>1. i <= next[c] /\ next[c] # 6
      BY <1>3, <2>2, ConfigureFacts
    <3> QED
      BY <1>3, <2>1, <2>2, <3>1, ConfigureFacts
  <2>3. ASSUME pc'[c] = "usable" PROVE node' = Wire(settings[c])
    <3>1. next[c] = 6
      BY <1>3, <2>3, ConfigureFacts
    <3>2. \A i \in 1 .. 6 : node'[Attributes[i]] = Wire(settings[c])[Attributes[i]]
      BY <1>3, <2>1, <2>3, <3>1, ConfigureFacts
    <3>3. node' \in Wires /\ Wire(settings[c]) \in Wires
      BY <1>3, ConfigureFacts, WireFacts
    <3> QED
      BY <3>2, <3>3, WiresAgree
  <2>4. pc'[c] \in {"configuring", "usable", "failing"}
    BY <1>3, ConfigureFacts
  <2>5. UNCHANGED <<settings, handle, closed, driver, onwire>>
    BY <1>3, ConfigureFacts
  <2> QED
    BY <2>1, <2>2, <2>3, <2>4, <2>5
<1>4. CASE CloseAfterFailedOpen(c)
  BY <1>4 DEF CloseAfterFailedOpen
<1>5. CASE InterruptConstruction(c)
  BY <1>5 DEF InterruptConstruction
<1>6. CASE CreateDriver(c)
  BY <1>6 DEF CreateDriver
<1>7. CASE Transfer(c)
  <2>1. onwire'[c] \subseteq {Wire(settings[c])}
    BY <1>7 DEF Transfer, Executed
  <2> QED
    BY <1>7, <2>1 DEF Transfer
<1>8. CASE Close(c)
  <2>1. UNCHANGED <<node, next, pc, settings, driver, onwire>> /\ pc[c] = "usable"
    BY <1>8 DEF Close
  <2>2. CASE closed' = [closed EXCEPT ![c] = TRUE]
             /\ HandleMayBe(c, {IF closed[c] THEN handle[c] ELSE FALSE})
    <3>1. ~handle'[c]
      BY <2>1, <2>2
    <3> QED
      BY <2>1, <3>1
  <2>3. CASE ~closed[c] /\ UNCHANGED closed
    BY <2>1, <2>3
  <2> QED
    BY <1>8, <2>2, <2>3 DEF Close
<1>9. CASE Discard(c)
  BY <1>9 DEF Discard
<1> QED
  BY <1>1, <1>2, <1>3, <1>4, <1>5, <1>6, <1>7, <1>8, <1>9 DEF Act

LEMMA InvariantNext == IInv /\ [Next]_vars => IInv'
<1> SUFFICES ASSUME IInv, [Next]_vars PROVE IInv'
  OBVIOUS
<1>1. CASE UNCHANGED vars
  BY <1>1 DEF vars, IInv, TypeInv, OneLives, Life
<1>2. ASSUME NEW c \in Connections, Act(c) PROVE IInv'
  <2>1. TypeInv' /\ Frame(c) /\ OneLives'
    BY <1>2, ActFrame, OneLivesNext DEF IInv
  <2>2. ASSUME NEW d \in Connections \ {c} PROVE Life(d)'
    <3>1. Life(d)
      BY DEF IInv
    <3>2. node' = node \/ pc[d] \notin Live
      BY <2>1, <2>2 DEF Frame, IInv, OneLives, Live
    <3>3. pc[d] \in {"configuring", "usable"} => node' = node
      BY <3>2 DEF Live
    <3> QED
      BY <2>1, <3>1, <3>3 DEF Frame, Life
  <2> QED
    BY <1>2, <2>1, <2>2, LifeNext DEF IInv
<1> QED
  BY <1>1, <1>2 DEF Next, Act

LEMMA InvariantInit == Init => IInv
<1> SUFFICES ASSUME Init PROVE IInv
  OBVIOUS
<1>1. PICK s \in ValidSettings, disabled \in BOOLEAN :
          node = [Wire(s) EXCEPT !.no_cs = disabled]
  BY DEF Init, Leftovers
<1>2. node \in Wires
  BY <1>1, WireFacts DEF Wires
<1>3. (CHOOSE t \in ValidSettings : TRUE) \in ValidSettings
  BY <1>1
<1> HIDE DEF Wires, ValidSettings
<1>4. TypeInv
  BY <1>2, <1>3 DEF Init, TypeInv, Points, Outcomes
<1>5. OneLives /\ \A c \in Connections : Life(c)
  BY DEF Init, OneLives, Live, Life
<1> QED
  BY <1>4, <1>5 DEF IInv

LEMMA Invariant == Spec => []IInv
  BY InvariantInit, InvariantNext, PTL DEF Spec

(***************************************************************************)
(* The theorems                                                            *)
(***************************************************************************)
\* Whatever an earlier user left in the node, every transaction of a driver is
\* executed as the converter requires it.
THEOREM TransactionsAreCompatible == Spec => []DriverTransactionsAreCompatible
<1>1. ASSUME IInv, NEW c \in Connections, driver[c]
      PROVE  /\ CDriverAccepts(settings[c])
             /\ \A wire \in onwire[c] :
                   /\ wire.mode \in {1, 3}
                   /\ wire.max_speed_hz \in 1 .. MaxClock
                   /\ wire.bits_per_word = 8
                   /\ ~wire.lsbfirst /\ ~wire.cshigh /\ ~wire.no_cs
  <2> DEFINE s == settings[c]
  <2>1. s \in ValidSettings /\ DriverAccepts(s)
    BY <1>1 DEF IInv, TypeInv, Life
  <2> HIDE DEF s
  <2>2. CDriverAccepts(s) /\ s.clock \in 1 .. MaxClock
    BY <2>1, ValidSettingsFacts, SettingsAssumption DEF DriverAccepts, CDriverAccepts
  <2>3. /\ Wire(s).mode \in {1, 3}
        /\ Wire(s).max_speed_hz \in 1 .. MaxClock
        /\ Wire(s).bits_per_word = 8
        /\ ~Wire(s).lsbfirst /\ ~Wire(s).cshigh /\ ~Wire(s).no_cs
    <3>1. Wire(s).mode \in {1, 3} /\ Wire(s).max_speed_hz = s.clock /\ Wire(s).bits_per_word = 8
      BY <2>1, ValidSettingsFacts DEF DriverAccepts, Wire
    <3>2. s.order # "lsb_first" /\ s.csActiveLow
      BY <2>1 DEF DriverAccepts
    <3>3. ~Wire(s).lsbfirst /\ ~Wire(s).cshigh /\ ~Wire(s).no_cs
      BY <3>2, Zenon DEF Wire
    <3> QED
      BY <2>2, <3>1, <3>3
  <2>4. \A wire \in onwire[c] : wire = Wire(s)
    BY <1>1 DEF IInv, Life, s
  <2> QED
    BY <2>2, <2>3, <2>4 DEF s
<1>2. IInv => DriverTransactionsAreCompatible
  BY <1>1 DEF DriverTransactionsAreCompatible
<1> QED
  BY <1>2, Invariant, PTL

\* An object that reports itself closed has released the node: a close that
\* failed is not taken for done.
THEOREM ClosedReleases == Spec => []ClosedIsReleased
<1>1. IInv => ClosedIsReleased
  BY DEF IInv, Life, ClosedIsReleased
<1> QED
  BY <1>1, Invariant, PTL

\* A constructor that raises after a call of the backend has released the node,
\* unless the close of the backend raised as well or it was interrupted.
THEOREM FailedOpenCloses == Spec => FailedOpenReleases
<1> DEFINE Fails(c) == pc[c] \in {"opening", "configuring", "failing"} /\ pc'[c] = "gone"
<1>1. ASSUME IInv, [Next]_vars, NEW c \in Connections, Fails(c), handle'[c]
      PROVE  outcome'[c] = "interrupted" \/ unclosed'[c]
  <2>1. ~UNCHANGED vars
    BY <1>1 DEF vars
  <2>2. PICK d \in Connections : Act(d)
    BY <1>1, <2>1 DEF Next, Act
  <2>3. d = c
    BY <1>1, <2>2, ActFrame DEF IInv, Frame
  <2>4. CloseAfterFailedOpen(c) \/ InterruptConstruction(c)
    BY <1>1, <2>2, <2>3 DEF Act, Construct, OpenPath, Configure, CreateDriver, Transfer, Close,
                            Discard, Goto, IInv, TypeInv
  <2>5. CASE CloseAfterFailedOpen(c)
    <3>1. ~HandleMayBe(c, {FALSE})
      BY <1>1 DEF HandleMayBe, IInv, TypeInv
    <3>2. unclosed' = [unclosed EXCEPT ![c] = TRUE]
      BY <2>5, <3>1 DEF CloseAfterFailedOpen
    <3> QED
      BY <1>1, <3>2 DEF IInv, TypeInv
  <2>6. CASE InterruptConstruction(c)
    BY <1>1, <2>6 DEF InterruptConstruction, Ends, IInv, TypeInv
  <2> QED
    BY <2>4, <2>5, <2>6
<1>2. IInv /\ [Next]_vars =>
          [\A c \in Connections :
              (pc[c] \in {"opening", "configuring", "failing"} /\ pc'[c] = "gone" /\ handle'[c])
                  => outcome'[c] = "interrupted" \/ unclosed'[c]]_vars
  BY <1>1
<1> QED
  BY <1>2, Invariant, PTL DEF Spec, FailedOpenReleases

(***************************************************************************)
(* The connection contract                                                 *)
(***************************************************************************)
phases == [c \in Connections |-> Phase(c)]
promises == [c \in Connections |-> Wire(settings[c])]

\* Only the phase of the connection that takes a step changes, and only a new
\* connection gets its settings.
LEMMA MappedFrame ==
    ASSUME TypeInv, NEW c \in Connections, Act(c)
    PROVE  /\ phases' = [phases EXCEPT ![c] = Phase(c)']
           /\ settings'[c] = settings[c] => promises' = promises
<1>1. ASSUME NEW d \in Connections \ {c} PROVE Phase(d)' = Phase(d)
  BY ActFrame DEF Frame, Phase
<1>2. ASSUME NEW d \in Connections \ {c} PROVE settings'[d] = settings[d]
  BY ActFrame DEF Frame
<1>3. phases' = [d \in Connections |-> Phase(d)']
  BY DEF phases
<1>4. promises' = [d \in Connections |-> Wire(settings'[d])]
  BY DEF promises, Wire
<1>5. phases' = [phases EXCEPT ![c] = Phase(c)']
  <2> HIDE DEF phases
  <2>1. phases = [d \in Connections |-> Phase(d)]
    BY DEF phases
  <2> QED
    BY <1>1, <1>3, <2>1, Zenon
<1>6. settings'[c] = settings[c] => promises' = promises
  BY <1>2, <1>4 DEF promises
<1> QED
  BY <1>5, <1>6

\* The phase does not change: nothing the contract speaks of does.
LEMMA MappedStutter ==
    ASSUME TypeInv, NEW c \in Connections, Act(c), Phase(c)' = Phase(c),
           settings'[c] = settings[c], onwire' = onwire
    PROVE  UNCHANGED Contract!vars
<1>1. phases' = phases /\ promises' = promises
  BY MappedFrame DEF phases
<1> QED
  BY <1>1 DEF Contract!vars, phases, promises

\* A move of the connection.
LEMMA MappedMove ==
    ASSUME TypeInv, NEW c \in Connections, Act(c), NEW from, NEW to,
           Phase(c) \in from, Phase(c)' = to
    PROVE  Contract!Move(c, from, to)
  BY MappedFrame DEF Contract!Move, phases

\* A transaction of a usable connection is one with the promised settings.
LEMMA MappedTransfer ==
    ASSUME IInv, NEW c \in Connections, Transfer(c)
    PROVE  Contract!Transact(c) \/ UNCHANGED Contract!vars
<1> USE DEF IInv, TypeInv
<1>1. pc' = pc /\ closed' = closed /\ settings' = settings
  BY DEF Transfer
<1>2. Phase(c)' = Phase(c)
  BY <1>1 DEF Phase
<1>3. CASE ~closed[c] /\ Executed(c)
  <2>1. pc[c] = "usable" /\ node = Wire(settings[c])
    BY DEF Transfer, Life
  <2>2. Phase(c) = "open"
    BY <1>3, <2>1 DEF Phase
  <2>3. Contract!Move(c, {"open"}, "open")
    BY <1>2, <2>2, MappedMove DEF Act
  <2>4. onwire' = [onwire EXCEPT ![c] = @ \cup {promises[c]}]
    BY <1>3, <2>1 DEF Executed, promises
  <2>5. promises' = promises
    BY <1>1 DEF promises, Wire
  <2> QED
    BY <2>3, <2>4, <2>5 DEF Contract!Transact, promises
<1>4. CASE onwire' = onwire
  BY <1>1, <1>2, <1>4, MappedStutter DEF Act
<1> QED
  BY <1>3, <1>4 DEF Transfer

LEMMA MappedConstruct ==
    ASSUME IInv, NEW c \in Connections, Construct(c)
    PROVE  Contract!Begin(c) \/ Contract!Close(c)
<1> USE DEF IInv, TypeInv, Goto
<1>1. Act(c) /\ Phase(c) = "absent" /\ onwire' = onwire
  BY DEF Act, Construct, Phase
<1>2. CASE Goto(c, "opening") /\ \E s \in ValidSettings : settings' = [settings EXCEPT ![c] = s]
  <2>1. PICK s \in ValidSettings : settings' = [settings EXCEPT ![c] = s]
    BY <1>2
  <2>2. Phase(c)' = "opening"
    BY <1>2 DEF Phase
  <2>3. Contract!Move(c, {"absent"}, "opening")
    BY <1>1, <2>2, MappedMove
  <2>4. promises' = [promises EXCEPT ![c] = Wire(s)]
    <3>1. promises' = [d \in Connections |-> Wire(settings'[d])]
      BY DEF promises, Wire
    <3> QED
      BY <2>1, <3>1 DEF promises
  <2>5. Wire(s) \in Wires
    BY WireFacts
  <2> QED
    BY <1>1, <2>3, <2>4, <2>5 DEF Contract!Begin, promises
<1>3. CASE Goto(c, "gone") /\ UNCHANGED settings
  <2>1. Phase(c)' = "closed"
    BY <1>3 DEF Phase
  <2>2. Contract!Move(c, {"absent", "opening", "open"}, "closed")
    BY <1>1, <2>1, MappedMove
  <2>3. promises' = promises
    BY <1>3 DEF promises, Wire
  <2> QED
    BY <1>1, <2>2, <2>3 DEF Contract!Close, promises
<1> QED
  BY <1>2, <1>3 DEF Construct

\* What ends the connection, or finds it ended.
LEMMA MappedEnd ==
    ASSUME IInv, NEW c \in Connections, Act(c), UNCHANGED <<settings, onwire>>,
           pc[c] # "absent", Phase(c)' \in {Phase(c), "closed"}
    PROVE  Contract!Close(c) \/ UNCHANGED Contract!vars
<1> USE DEF IInv
<1>1. CASE Phase(c)' = Phase(c)
  BY <1>1, MappedStutter
<1>2. CASE Phase(c)' # Phase(c)
  <2>1. Phase(c) \in {"absent", "opening", "open"} /\ Phase(c)' = "closed"
    BY <1>2 DEF Phase
  <2>2. Contract!Move(c, {"absent", "opening", "open"}, "closed")
    BY <2>1, MappedMove
  <2>3. promises' = promises
    BY DEF promises, Wire
  <2> QED
    BY <2>2, <2>3 DEF Contract!Close, promises
<1> QED
  BY <1>1, <1>2

LEMMA MappedConfigure ==
    ASSUME IInv, NEW c \in Connections, Configure(c)
    PROVE  Contract!Open(c) \/ UNCHANGED Contract!vars
<1> USE DEF IInv
<1>1. /\ Act(c) /\ pc[c] = "configuring" /\ ~closed[c]
      /\ pc'[c] \in {"configuring", "failing", "usable"}
      /\ UNCHANGED <<settings, closed, onwire>>
  BY ConfigureFacts DEF Act, TypeInv, Life
<1>2. CASE pc'[c] = "usable"
  <2>1. Phase(c) = "opening" /\ Phase(c)' = "open"
    BY <1>1, <1>2 DEF Phase
  <2>2. Contract!Move(c, {"opening"}, "open")
    BY <1>1, <2>1, MappedMove
  <2>3. promises' = promises
    BY <1>1 DEF promises, Wire
  <2> QED
    BY <1>1, <2>2, <2>3 DEF Contract!Open, promises
<1>3. CASE pc'[c] # "usable"
  <2>1. Phase(c)' = Phase(c)
    BY <1>1, <1>3 DEF Phase
  <2> QED
    BY <1>1, <2>1, MappedStutter
<1> QED
  BY <1>2, <1>3

LEMMA MappedNext == IInv /\ [Next]_vars => [Contract!Next]_(Contract!vars)
<1> SUFFICES ASSUME IInv, [Next]_vars PROVE [Contract!Next]_(Contract!vars)
  OBVIOUS
<1>1. CASE UNCHANGED vars
  BY <1>1 DEF vars, Contract!vars, Phase, Wire
<1>2. ASSUME NEW c \in Connections, Act(c)
      PROVE  \/ Contract!Begin(c) \/ Contract!Open(c) \/ Contract!Transact(c) \/ Contract!Close(c)
             \/ UNCHANGED Contract!vars
  <2> USE DEF IInv, TypeInv, Goto
  <2>1. CASE Construct(c)
    BY <2>1, MappedConstruct
  <2>2. CASE Configure(c)
    BY <2>2, MappedConfigure
  <2>3. CASE Transfer(c)
    BY <2>3, MappedTransfer
  <2>4. CASE \/ OpenPath(c) \/ CloseAfterFailedOpen(c) \/ InterruptConstruction(c)
             \/ CreateDriver(c) \/ Close(c) \/ Discard(c)
    <3>1. UNCHANGED <<settings, onwire>> /\ pc[c] # "absent"
      BY <2>4 DEF OpenPath, CloseAfterFailedOpen, InterruptConstruction, CreateDriver, Close,
                  Discard
    <3>2. Phase(c)' \in {Phase(c), "closed"}
      <4>1. CASE OpenPath(c)
        BY <4>1 DEF OpenPath, Phase
      <4>2. CASE CloseAfterFailedOpen(c) \/ InterruptConstruction(c) \/ Discard(c)
        BY <4>2 DEF CloseAfterFailedOpen, InterruptConstruction, Discard, Phase
      <4>3. CASE CreateDriver(c)
        BY <4>3 DEF CreateDriver, Phase
      <4>4. CASE Close(c)
        <5>1. closed'[c] = closed[c] \/ closed'[c]
          BY <4>4 DEF Close
        <5>2. pc[c] = "usable" /\ pc'[c] = "usable"
          BY <4>4 DEF Close
        <5> QED
          BY <5>1, <5>2 DEF Phase
      <4> QED
        BY <2>4, <4>1, <4>2, <4>3, <4>4
    <3> QED
      BY <1>2, <3>1, <3>2, MappedEnd
  <2> QED
    BY <1>2, <2>1, <2>2, <2>3, <2>4 DEF Act
<1> QED
  BY <1>1, <1>2 DEF Next, Act, Contract!Next

\* The adapter implements the connection contract: every transaction is executed
\* with exactly the settings of its connection, whatever the node held before,
\* and none before it is configured or after it was closed.
THEOREM Implementation == Spec => ImplementsSpiConnection
<1>1. Init => Contract!Init
  <2> SUFFICES ASSUME Init PROVE Contract!Init
    OBVIOUS
  <2>1. IInv
    BY InvariantInit
  <2>2. phases = [c \in Connections |-> "absent"]
    BY DEF Init, Phase, phases
  <2>3. promises \in [Connections -> Wires]
    BY <2>1, WireFacts DEF IInv, TypeInv, promises
  <2> QED
    BY <2>2, <2>3 DEF Init, Contract!Init, phases, promises
<1> QED
  BY <1>1, Invariant, MappedNext, PTL DEF Spec, Contract!Spec, ImplementsSpiConnection

(***************************************************************************)
(* The Arduino AVR adapter                                                 *)
(***************************************************************************)
\* A larger divider makes no faster clock.
LEMMA ClocksDecrease ==
    ASSUME CpuFrequency \in Nat, NEW d \in Dividers, NEW e \in Dividers
    PROVE  /\ CpuFrequency \div d \in Nat
           /\ d <= e => CpuFrequency \div e <= CpuFrequency \div d
<1>1. Dividers = {2, 4, 8, 16, 32, 64, 128}
  BY DEF Dividers
<1>2. d \in {2, 4, 8, 16, 32, 64, 128} /\ e \in {2, 4, 8, 16, 32, 64, 128}
  BY <1>1
<1> HIDE <1>1
<1>3. CpuFrequency \div d \in Nat
  BY <1>2
<1>4. ASSUME d <= e PROVE CpuFrequency \div e <= CpuFrequency \div d
  <2>1. CASE d = 2
    BY <1>2, <2>1
  <2>2. CASE d = 4
    BY <1>2, <1>4, <2>2
  <2>3. CASE d = 8
    BY <1>2, <1>4, <2>3
  <2>4. CASE d \in {16, 32}
    BY <1>2, <1>4, <2>4
  <2>5. CASE d \in {64, 128}
    BY <1>2, <1>4, <2>5
  <2> QED
    BY <1>2, <2>1, <2>2, <2>3, <2>4, <2>5
<1> QED
  BY <1>3, <1>4

\* The clock that a context gets.
IsServed(clockOf, asked) ==
    LET served == {CpuFrequency \div d : d \in Dividers}
    IN  /\ clockOf \in served
        /\ \A hz \in served : hz <= asked => hz <= clockOf
        /\ clockOf > asked => \A hz \in served : clockOf <= hz

LEMMA EffectiveIsServed ==
    ASSUME AvrAssumption, NEW asked \in Requested
    PROVE  IsServed(EffectiveClock(asked), asked)
<1> DEFINE enough == {d \in Dividers : CpuFrequency \div d <= asked} \cup {128}
           least == CHOOSE d \in enough : \A other \in enough : d <= other
<1>1. CpuFrequency \in Nat /\ asked \in Nat /\ 128 \in Dividers
      /\ \A d \in Dividers : d \in Nat /\ d <= 128
  BY DEF AvrAssumption, Dividers
<1>2. least \in enough /\ \A other \in enough : least <= other
  <2>1. \E d \in enough : \A other \in enough : d <= other
    <3>1. enough \subseteq {2, 4, 8, 16, 32, 64, 128} /\ 128 \in enough
      BY DEF Dividers
    <3> HIDE DEF enough
    <3> QED
      BY <3>1
  <2> HIDE DEF enough
  <2> QED
    BY <2>1
<1>3. EffectiveClock(asked) = CpuFrequency \div least
  BY DEF EffectiveClock
<1> HIDE DEF least
<1>4. least \in Dividers
  BY <1>1, <1>2
<1>5. ASSUME NEW d \in Dividers, CpuFrequency \div d <= asked
      PROVE  CpuFrequency \div d <= CpuFrequency \div least
  BY <1>1, <1>2, <1>4, <1>5, ClocksDecrease
<1>6. ASSUME NEW d \in Dividers, CpuFrequency \div least > asked
      PROVE  CpuFrequency \div least <= CpuFrequency \div d
  <2>1. CpuFrequency \div least \in Nat
    BY <1>1, <1>4, ClocksDecrease
  <2>2. ~(CpuFrequency \div least <= asked)
    BY <1>1, <1>6, <2>1
  <2>3. least = 128
    BY <1>2, <2>2
  <2> QED
    BY <1>1, <1>4, <2>3, ClocksDecrease
<1> QED
  BY <1>3, <1>4, <1>5, <1>6 DEF IsServed

\* The level that is written before a pin drives its line is the deasserted one.
PinInv ==
    /\ active_low \in [Contexts -> BOOLEAN]
    /\ high \in [Contexts -> BOOLEAN]
    /\ output \in [Contexts -> BOOLEAN]
    /\ \A c \in Contexts : At("level", c, 0) => high[c] = Deasserted(c)
    /\ SelectedToTransfer

BusInv ==
    /\ bound \in [Contexts -> BOOLEAN]
    /\ begun \in Int
    /\ IsFiniteSet({c \in Contexts : bound[c]})
    /\ BoundBusIsBegun

ClockInv ==
    /\ bound \in [Contexts -> BOOLEAN]
    /\ DOMAIN clock = Contexts /\ DOMAIN reported = Contexts
    /\ \A c \in Contexts : bound[c] => IsServed(reported[c], clock[c])

LEMMA PinNext == PinInv /\ [AvrNext]_avrVars => PinInv'
<1> SUFFICES ASSUME PinInv, [AvrNext]_avrVars PROVE PinInv'
  OBVIOUS
<1> USE DEF PinInv, SelectedToTransfer, Deasserted, At, StepTo, IsIdle
<1>1. ASSUME NEW c \in Contexts, Bind(c) PROVE PinInv'
  BY <1>1 DEF Bind
<1>2. ASSUME NEW c \in Contexts, WriteLevel(c) PROVE PinInv'
  BY <1>2 DEF WriteLevel
<1>3. ASSUME NEW c \in Contexts, DrivePin(c) PROVE PinInv'
  BY <1>3 DEF DrivePin
<1>4. ASSUME NEW c \in Contexts, NoTransfer(c) PROVE PinInv'
  BY <1>4 DEF NoTransfer
<1>5. ASSUME NEW c \in Contexts, Select(c) PROVE PinInv'
  BY <1>5 DEF Select
<1>6. ASSUME NEW c \in Contexts, SendByte(c) PROVE PinInv'
  BY <1>6 DEF SendByte
<1>7. ASSUME NEW c \in Contexts, Deselect(c) PROVE PinInv'
  BY <1>7 DEF Deselect
<1>8. ASSUME NEW c \in Contexts, End(c) PROVE PinInv'
  BY <1>8 DEF End
<1>9. CASE UNCHANGED avrVars
  BY <1>9 DEF avrVars
<1> QED
  BY <1>1, <1>2, <1>3, <1>4, <1>5, <1>6, <1>7, <1>8, <1>9 DEF AvrNext

LEMMA BusNext == BusInv /\ [AvrNext]_avrVars => BusInv'
<1> SUFFICES ASSUME BusInv, [AvrNext]_avrVars PROVE BusInv'
  OBVIOUS
<1> DEFINE B == {c \in Contexts : bound[c]}
<1>0. /\ IsFiniteSet(B) /\ Cardinality(B) \in Nat /\ Cardinality(B) <= begun /\ begun \in Int
      /\ bound \in [Contexts -> BOOLEAN]
  <2>1. IsFiniteSet(B) /\ begun \in Int /\ bound \in [Contexts -> BOOLEAN]
    BY DEF BusInv
  <2>2. Cardinality(B) <= begun
    BY Zenon DEF BusInv, BoundBusIsBegun
  <2> QED
    BY <2>1, <2>2, FS_CardinalityType
<1>1. ASSUME NEW c \in Contexts, Bind(c) PROVE BusInv'
  <2>1. bound' = [bound EXCEPT ![c] = TRUE] /\ begun' = begun + 1
    BY <1>1 DEF Bind
  <2>2. B' = B \cup {c} /\ bound' \in [Contexts -> BOOLEAN]
    BY <1>0, <2>1
  <2>3. IsFiniteSet(B \cup {c}) /\ Cardinality(B \cup {c}) \in {Cardinality(B), Cardinality(B) + 1}
    BY <1>0, FS_AddElement
  <2> HIDE DEF B
  <2>4. Cardinality(B \cup {c}) <= begun'
    BY <1>0, <2>1, <2>3
  <2>5. IsFiniteSet(B') /\ Cardinality(B') <= begun'
    BY <2>2, <2>3, <2>4
  <2>6. begun' \in Int
    BY <1>0, <2>1
  <2> QED
    BY <2>2, <2>5, <2>6, Zenon DEF BusInv, BoundBusIsBegun, B
<1>2. ASSUME NEW c \in Contexts, End(c) PROVE BusInv'
  <2>1. bound[c] /\ bound' = [bound EXCEPT ![c] = FALSE] /\ begun' = begun - 1
    BY <1>2 DEF End
  <2>2. B' = B \ {c} /\ bound' \in [Contexts -> BOOLEAN] /\ c \in B
    BY <1>0, <2>1
  <2>3. IsFiniteSet(B \ {c}) /\ Cardinality(B \ {c}) = Cardinality(B) - 1
    BY <1>0, <2>2, FS_RemoveElement
  <2> HIDE DEF B
  <2>4. Cardinality(B \ {c}) <= begun'
    BY <1>0, <2>1, <2>3
  <2>5. IsFiniteSet(B') /\ Cardinality(B') <= begun'
    BY <2>2, <2>3, <2>4
  <2>6. begun' \in Int
    BY <1>0, <2>1
  <2> QED
    BY <2>2, <2>5, <2>6, Zenon DEF BusInv, BoundBusIsBegun, B
<1>3. CASE UNCHANGED <<bound, begun>>
  BY <1>3 DEF BusInv, BoundBusIsBegun
<1> QED
  BY <1>1, <1>2, <1>3 DEF AvrNext, avrVars, WriteLevel, DrivePin, NoTransfer,
                          Select, SendByte, Deselect

LEMMA ClockNext ==
    ASSUME AvrAssumption
    PROVE  ClockInv /\ [AvrNext]_avrVars => ClockInv'
<1> SUFFICES ASSUME ClockInv, [AvrNext]_avrVars PROVE ClockInv'
  OBVIOUS
<1>1. ASSUME NEW c \in Contexts, Bind(c) PROVE ClockInv'
  <2>1. PICK hz \in Requested : /\ clock' = [clock EXCEPT ![c] = hz]
                                /\ reported' = [reported EXCEPT ![c] = EffectiveClock(hz)]
    BY <1>1 DEF Bind
  <2>2. bound' = [bound EXCEPT ![c] = TRUE]
    BY <1>1 DEF Bind
  <2>3. IsServed(EffectiveClock(hz), hz)
    BY EffectiveIsServed
  <2>4. reported'[c] = EffectiveClock(hz) /\ clock'[c] = hz
    BY <2>1 DEF ClockInv
  <2>5. \A d \in Contexts \ {c} : reported'[d] = reported[d] /\ clock'[d] = clock[d]
                                  /\ bound'[d] = bound[d]
    BY <2>1, <2>2 DEF ClockInv
  <2>6. \A d \in Contexts : bound'[d] => IsServed(reported'[d], clock'[d])
    BY <2>3, <2>4, <2>5 DEF ClockInv
  <2> QED
    BY <2>1, <2>2, <2>6 DEF ClockInv, IsServed
<1>2. ASSUME NEW c \in Contexts, End(c) PROVE ClockInv'
  BY <1>2 DEF End, ClockInv, IsServed
<1>3. CASE UNCHANGED <<bound, clock, reported>>
  BY <1>3 DEF ClockInv, IsServed
<1> QED
  BY <1>1, <1>2, <1>3 DEF AvrNext, avrVars, WriteLevel, DrivePin, NoTransfer,
                          Select, SendByte, Deselect

LEMMA InitsEstablish == AvrInit => PinInv /\ BusInv /\ ClockInv
<1> SUFFICES ASSUME AvrInit PROVE PinInv /\ BusInv /\ ClockInv
  OBVIOUS
<1>1. PinInv
  BY DEF AvrInit, PinInv, SelectedToTransfer, At, Deasserted
<1>2. BusInv
  <2>1. {c \in Contexts : bound[c]} = {}
    BY DEF AvrInit
  <2>2. bound \in [Contexts -> BOOLEAN] /\ begun = 0
    BY DEF AvrInit
  <2>3. IsFiniteSet({}) /\ Cardinality({}) = 0
    BY FS_EmptySet
  <2>4. Cardinality({}) <= begun /\ begun \in Int
    BY <2>2, <2>3
  <2> QED
    BY <2>1, <2>2, <2>3, <2>4, Zenon DEF BusInv, BoundBusIsBegun
<1>3. ClockInv
  BY DEF AvrInit, ClockInv
<1> QED
  BY <1>1, <1>2, <1>3

\* A device is selected exactly while its own bytes are sent, however many contexts
\* share the bus, and however rtd_acquire_arduino_avr_spi_init, _transfer and _end
\* of them follow each other.
THEOREM OnlyTransfersSelect == AvrSpec => []SelectedToTransfer
<1>1. PinInv => SelectedToTransfer
  BY DEF PinInv
<1> QED
  BY <1>1, InitsEstablish, PinNext, PTL DEF AvrSpec

\* No context that can transfer refers to a bus that was given back.
THEOREM BoundIsBegun == AvrSpec => []BoundBusIsBegun
<1>1. BusInv => BoundBusIsBegun
  BY DEF BusInv
<1> QED
  BY <1>1, InitsEstablish, BusNext, PTL DEF AvrSpec

\* The clock in the HAL object is the fastest that is no faster than the request,
\* or the slowest there is, for every CPU frequency.
THEOREM ClockIsReal ==
    ASSUME AvrAssumption
    PROVE  AvrSpec => []ReportedClockIsReal
<1>1. ClockInv => ReportedClockIsReal
  BY DEF ClockInv, IsServed, ReportedClockIsReal
<1>2. ClockInv /\ [AvrNext]_avrVars => ClockInv'
  BY ClockNext
<1> QED
  BY <1>1, <1>2, InitsEstablish, PTL DEF AvrSpec
(***************************************************************************)
(* The SPI emulator                                                        *)
(***************************************************************************)
\* The bits of a configuration byte, and of a fault status.
ConfigOf(value) == BitsOf(value, ConfigMask)
FaultsOf(value) == BitsOf(value, FaultMask)

LEMMA ConfigBits ==
    ASSUME NEW value \in 0 .. 255
    PROVE  /\ ConfigOf(value) \in Bus!ConfigByte
           /\ "BIAS" \in ConfigOf(value) <=> Bit(value, BIAS)
           /\ "ONE_SHOT" \in ConfigOf(value) <=> Bit(value, ONE_SHOT)
           /\ "AUTO_FAULT_CYCLE" \in ConfigOf(value)
                  <=> Bit(value, AUTO_FAULT_CYCLE)
           /\ "CLEAR_FAULTS" \in ConfigOf(value) <=> Bit(value, CLEAR_FAULTS)
BY DEF ConfigOf, BitsOf, ConfigMask, Bus!ConfigByte,
       Bus!OperationBits, Bus!StaticBits, BIAS, ONE_SHOT,
       AUTO_FAULT_CYCLE, CLEAR_FAULTS

\* The sum of the bits in a set of faults.
Weight(bits) ==
    (IF "D7" \in bits THEN 128 ELSE 0) + (IF "D6" \in bits THEN 64 ELSE 0)
    + (IF "D5" \in bits THEN 32 ELSE 0) + (IF "D4" \in bits THEN 16 ELSE 0)
    + (IF "D3" \in bits THEN 8 ELSE 0) + (IF "D2" \in bits THEN 4 ELSE 0)

FaultNames == {"D7", "D6", "D5", "D4", "D3", "D2"}

LEMMA WeightFacts ==
    ASSUME NEW s \in SUBSET FaultNames
    PROVE  /\ Weight(s) \in Nat
           /\ Weight({}) = 0
           /\ \A x \in s : /\ Weight(s) = Bus!FaultMask[x] + Weight(s \ {x})
                           /\ Weight(s \ {x}) \in Nat
                           /\ Weight(s \ {x}) < Weight(s)
<1>1. Weight(s) \in Nat /\ Weight({}) = 0
  BY DEF Weight
<1>2. ASSUME NEW x \in s
      PROVE  /\ Weight(s) = Bus!FaultMask[x] + Weight(s \ {x})
             /\ Weight(s \ {x}) \in Nat
             /\ Weight(s \ {x}) < Weight(s)
  <2>1. CASE x = "D7"
    BY <2>1 DEF Weight, Bus!FaultMask
  <2>2. CASE x = "D6"
    BY <2>2 DEF Weight, Bus!FaultMask
  <2>3. CASE x = "D5"
    BY <2>3 DEF Weight, Bus!FaultMask
  <2>4. CASE x = "D4"
    BY <2>4 DEF Weight, Bus!FaultMask
  <2>5. CASE x = "D3"
    BY <2>5 DEF Weight, Bus!FaultMask
  <2>6. CASE x = "D2"
    BY <2>6 DEF Weight, Bus!FaultMask
  <2> QED
    BY <2>1, <2>2, <2>3, <2>4, <2>5, <2>6 DEF FaultNames
<1> QED
  BY <1>1, <1>2

\* The sum of MapThenSumSet, in whatever order it takes the bits.
IsSumOfBits(f, bits) ==
    f = [s \in SUBSET bits |->
            IF s = {} THEN 0
            ELSE LET x == CHOOSE x \in s : TRUE IN Bus!FaultMask[x] + f[s \ {x}]]

LEMMA ByteIsWeight ==
    ASSUME NEW bits \in SUBSET FaultNames
    PROVE  Bus!ByteOf(bits) = Weight(bits)
<1> DEFINE f == CHOOSE f : IsSumOfBits(f, bits)
<1>1. Bus!ByteOf(bits) = f[bits]
  BY Zenon DEF Bus!ByteOf, Bus!MapThenSumSet, Bus!MapThenFoldSet,
               IsSumOfBits
<1>2. IsSumOfBits(f, bits)
  <2> DEFINE g == [s \in SUBSET bits |-> Weight(s)]
  <2>1. ASSUME NEW s \in SUBSET bits
        PROVE  g[s] = IF s = {} THEN 0
                      ELSE LET x == CHOOSE x \in s : TRUE IN Bus!FaultMask[x] + g[s \ {x}]
    <3>1. CASE s = {}
      BY <3>1, WeightFacts
    <3>2. CASE s # {}
      <4> DEFINE x == CHOOSE x \in s : TRUE
      <4>1. x \in s
        BY <3>2
      <4> HIDE DEF x
      <4>2. Weight(s) = Bus!FaultMask[x] + Weight(s \ {x})
        BY <4>1, WeightFacts
      <4>3. g[s] = Weight(s) /\ g[s \ {x}] = Weight(s \ {x})
        OBVIOUS
      <4> HIDE DEF g
      <4> QED
        BY <3>2, <4>2, <4>3 DEF x
    <3> QED
      BY <3>1, <3>2
  <2>2. g = [s \in SUBSET bits |-> g[s]]
    OBVIOUS
  <2> HIDE DEF g
  <2>3. IsSumOfBits(g, bits)
    BY <2>1, <2>2 DEF IsSumOfBits
  <2> QED
    BY <2>3
<1> HIDE DEF f
<1> DEFINE Wrong == {s \in SUBSET bits : f[s] # Weight(s)}
<1>3. Wrong = {}
  <2> SUFFICES ASSUME Wrong # {} PROVE FALSE
    OBVIOUS
  <2> DEFINE weights == {Weight(s) : s \in Wrong}
  <2>1. weights # {} /\ weights \subseteq Nat
    BY WeightFacts
  <2> HIDE DEF weights
  <2>2. PICK w \in weights : \A y \in weights : ~(<<y, w>> \in OpToRel(<, Nat))
    BY <2>1, NatLessThanWellFounded, WFMin
  <2>3. PICK s \in Wrong : w = Weight(s)
    BY DEF weights
  <2> DEFINE x == CHOOSE x \in s : TRUE
  <2>4. s \in SUBSET bits /\ f[s] = IF s = {} THEN 0 ELSE Bus!FaultMask[x] + f[s \ {x}]
    BY <1>2 DEF IsSumOfBits
  <2>5. s # {}
    BY <2>4, WeightFacts
  <2>6. x \in s /\ s \ {x} \in SUBSET bits
    BY <2>5
  <2> HIDE DEF x
  <2>7. /\ Weight(s) = Bus!FaultMask[x] + Weight(s \ {x})
        /\ Weight(s \ {x}) \in Nat /\ Weight(s) \in Nat
        /\ Weight(s \ {x}) < Weight(s)
    BY <2>4, <2>6, WeightFacts
  <2>8. <<Weight(s \ {x}), w>> \in OpToRel(<, Nat)
    BY <2>3, <2>7 DEF OpToRel
  <2>9. Weight(s \ {x}) \notin weights
    BY <2>2, <2>8
  <2>10. f[s \ {x}] = Weight(s \ {x})
    BY <2>6, <2>9 DEF weights
  <2> QED
    BY <2>4, <2>5, <2>7, <2>10
<1> QED
  BY <1>1, <1>3

\* A fault status is the sum of its bits.
LEMMA FaultBytes ==
    ASSUME NEW value, IsFaultStatus(value)
    PROVE  /\ FaultsOf(value) \in SUBSET FaultNames
           /\ Bus!ByteOf(FaultsOf(value)) = value
           /\ FaultsOf(value) = {} <=> value = 0
<1>1. value \in 0 .. 255 /\ value % 4 = 0
  BY DEF IsFaultStatus, Byte
<1>2. /\ FaultsOf(value) \in SUBSET FaultNames
      /\ "D7" \in FaultsOf(value) <=> (value \div 128) % 2 = 1
      /\ "D6" \in FaultsOf(value) <=> (value \div 64) % 2 = 1
      /\ "D5" \in FaultsOf(value) <=> (value \div 32) % 2 = 1
      /\ "D4" \in FaultsOf(value) <=> (value \div 16) % 2 = 1
      /\ "D3" \in FaultsOf(value) <=> (value \div 8) % 2 = 1
      /\ "D2" \in FaultsOf(value) <=> (value \div 4) % 2 = 1
  BY DEF FaultsOf, BitsOf, FaultMask, Bit, FaultNames
<1> DEFINE bits == FaultsOf(value)
<1> HIDE DEF bits
<1>3. Weight(bits) = value
  BY <1>1, <1>2 DEF Weight, bits
<1>4. bits = {} <=> value = 0
  <2>1. bits = {} => value = 0
    BY <1>3, WeightFacts
  <2>2. ASSUME NEW x \in bits PROVE value # 0
    <3>1. bits \in SUBSET FaultNames
      BY <1>2 DEF bits
    <3>2. Weight(bits \ {x}) \in Nat /\ Weight(bits \ {x}) < Weight(bits)
      BY <3>1, WeightFacts
    <3> QED
      BY <1>1, <1>3, <3>2
  <2> QED
    BY <2>1, <2>2
<1>5. Bus!ByteOf(bits) = Weight(bits)
  BY <1>2, ByteIsWeight DEF bits
<1> QED
  BY <1>2, <1>3, <1>4, <1>5 DEF bits

\* The registers that the bytes stand for.
Registers(config, latched, isReady, code, high_value, low_value, waits) ==
    [config |-> config, latched |-> latched, ready |-> isReady, data |-> code,
     high |-> high_value, low |-> low_value, settling |-> waits]

MappedDevice == Registers(ConfigOf(last_config), FaultsOf(latched_faults), ready, rtd_code,
                          high_threshold, low_threshold, {})
MappedSensor == [code |-> rtd_code, faults |-> FaultsOf(configured_faults)]

EmulatorInv ==
    /\ IsRtdCode(rtd_code)
    /\ IsFaultStatus(configured_faults)
    /\ latched_faults \in {0, configured_faults}
    /\ ready \in BOOLEAN

\* What a configuration byte makes of the registers, once everything has settled.
LEMMA ConfigWritten ==
    ASSUME NEW bits
    PROVE  [Bus!AfterConfigWrite(MappedDevice, MappedSensor, bits) EXCEPT !.settling = {}]
               = Registers(bits,
                           IF {"AUTO_FAULT_CYCLE", "BIAS"} \subseteq bits
                           THEN FaultsOf(configured_faults)
                           ELSE IF "CLEAR_FAULTS" \in bits THEN {} ELSE FaultsOf(latched_faults),
                           ready \/ {"ONE_SHOT", "BIAS"} \subseteq bits,
                           rtd_code, high_threshold, low_threshold, {})
<1> DEFINE config == ConfigOf(last_config)
           latched == FaultsOf(latched_faults)
           faults == FaultsOf(configured_faults)
           isReady == ready
           code == rtd_code
           high_value == high_threshold
           low_value == low_threshold
<1> HIDE DEF config, latched, faults, isReady, code, high_value, low_value
<1> DEFINE d == Registers(config, latched, isReady, code, high_value, low_value, {})
           sensor == [code |-> code, faults |-> faults]
           cycles == {"AUTO_FAULT_CYCLE", "BIAS"} \subseteq bits
           converts == {"ONE_SHOT", "BIAS"} \subseteq bits
           latchedNext == IF cycles THEN sensor.faults
                          ELSE IF "CLEAR_FAULTS" \in bits THEN {} ELSE d.latched
           readyNext == d.ready \/ converts
           dataNext == IF converts THEN sensor.code ELSE d.data
           waitsNext == Bus!SettlingAfter(d, bits)
<1>1. Bus!AfterConfigWrite(d, sensor, bits)
          = [d EXCEPT !.config = bits, !.latched = latchedNext, !.ready = readyNext,
                      !.data = dataNext, !.settling = waitsNext]
  BY Zenon DEF Bus!AfterConfigWrite
<1>2. d.latched = latched /\ d.ready = isReady /\ d.data = code
  BY DEF Registers
<1>3. dataNext = code
  BY <1>2
<1>4. latchedNext = IF cycles THEN faults ELSE IF "CLEAR_FAULTS" \in bits THEN {} ELSE latched
  BY <1>2
<1>5. readyNext = (isReady \/ converts)
  BY <1>2, Zenon
<1> HIDE DEF latchedNext, readyNext, dataNext, waitsNext, cycles, converts, sensor
<1>6. [d EXCEPT !.config = bits, !.latched = latchedNext, !.ready = readyNext,
                !.data = dataNext, !.settling = waitsNext]
          = Registers(bits, latchedNext, readyNext, dataNext, high_value, low_value, waitsNext)
  <2> DEFINE d1 == Registers(bits, latched, isReady, code, high_value, low_value, {})
             d2 == Registers(bits, latchedNext, isReady, code, high_value, low_value, {})
             d3 == Registers(bits, latchedNext, readyNext, code, high_value, low_value, {})
             d4 == Registers(bits, latchedNext, readyNext, dataNext, high_value, low_value, {})
             d5 == Registers(bits, latchedNext, readyNext, dataNext, high_value, low_value,
                             waitsNext)
  <2>1. [d EXCEPT !.config = bits] = d1
    BY DEF Registers
  <2>2. [d1 EXCEPT !.latched = latchedNext] = d2
    BY DEF Registers
  <2>3. [d2 EXCEPT !.ready = readyNext] = d3
    BY DEF Registers
  <2>4. [d3 EXCEPT !.data = dataNext] = d4
    BY DEF Registers
  <2>5. [d4 EXCEPT !.settling = waitsNext] = d5
    BY DEF Registers
  <2> HIDE DEF d, d1, d2, d3, d4, d5
  <2>6. [d EXCEPT !.config = bits, !.latched = latchedNext] = d2
    <3>1. [d EXCEPT !.config = bits, !.latched = latchedNext]
              = [[d EXCEPT !.config = bits] EXCEPT !.latched = latchedNext]
      BY Zenon
    <3> QED
      BY <2>1, <2>2, <3>1, Zenon
  <2>7. [d EXCEPT !.config = bits, !.latched = latchedNext, !.ready = readyNext] = d3
    <3>1. [d EXCEPT !.config = bits, !.latched = latchedNext, !.ready = readyNext]
              = [[d EXCEPT !.config = bits, !.latched = latchedNext] EXCEPT !.ready = readyNext]
      BY Zenon
    <3> QED
      BY <2>3, <2>6, <3>1, Zenon
  <2>8. [d EXCEPT !.config = bits, !.latched = latchedNext, !.ready = readyNext,
                  !.data = dataNext] = d4
    <3>1. [d EXCEPT !.config = bits, !.latched = latchedNext, !.ready = readyNext,
                    !.data = dataNext]
              = [[d EXCEPT !.config = bits, !.latched = latchedNext, !.ready = readyNext]
                    EXCEPT !.data = dataNext]
      BY Zenon
    <3> QED
      BY <2>4, <2>7, <3>1, Zenon
  <2>9. [d EXCEPT !.config = bits, !.latched = latchedNext, !.ready = readyNext,
                  !.data = dataNext, !.settling = waitsNext] = d5
    <3>1. [d EXCEPT !.config = bits, !.latched = latchedNext, !.ready = readyNext,
                    !.data = dataNext, !.settling = waitsNext]
              = [[d EXCEPT !.config = bits, !.latched = latchedNext, !.ready = readyNext,
                           !.data = dataNext] EXCEPT !.settling = waitsNext]
      BY Zenon
    <3> QED
      BY <2>5, <2>8, <3>1, Zenon
  <2> QED
    BY <2>9, Zenon DEF d5
<1>7. [Registers(bits, latchedNext, readyNext, dataNext, high_value, low_value, waitsNext)
          EXCEPT !.settling = {}]
          = Registers(bits, latchedNext, readyNext, dataNext, high_value, low_value, {})
  BY DEF Registers
<1>8. [Bus!AfterConfigWrite(d, sensor, bits) EXCEPT !.settling = {}]
          = Registers(bits, latchedNext, readyNext, dataNext, high_value, low_value, {})
  <2> HIDE DEF d
  <2> QED
    BY <1>1, <1>6, <1>7, Zenon
<1>9. MappedDevice = d /\ MappedSensor = sensor
  BY Zenon DEF MappedDevice, MappedSensor, sensor, config, latched, faults, isReady, code,
               high_value, low_value
<1>10. [Bus!AfterConfigWrite(d, sensor, bits) EXCEPT !.settling = {}]
           = Registers(bits, IF cycles THEN faults
                             ELSE IF "CLEAR_FAULTS" \in bits THEN {} ELSE latched,
                       isReady \/ converts, code, high_value, low_value, {})
  <2> HIDE DEF d
  <2> QED
    BY <1>3, <1>4, <1>5, <1>8, Zenon
<1> QED
  <2> HIDE DEF d
  <2> QED
    BY <1>9, <1>10, Zenon DEF cycles, converts, latched, faults, isReady, code, high_value,
                          low_value

LEMMA ThresholdsWritten ==
    ASSUME NEW newHigh, NEW newLow
    PROVE  Bus!AfterThresholdWrite(MappedDevice, newHigh, newLow)
               = Registers(ConfigOf(last_config), FaultsOf(latched_faults), ready, rtd_code,
                           newHigh, newLow, {})
<1> DEFINE config == ConfigOf(last_config)
           latched == FaultsOf(latched_faults)
           isReady == ready
           code == rtd_code
           high_value == high_threshold
           low_value == low_threshold
<1> HIDE DEF config, latched, isReady, code, high_value, low_value
<1> DEFINE d == Registers(config, latched, isReady, code, high_value, low_value, {})
<1>1. Bus!AfterThresholdWrite(d, newHigh, newLow) = [d EXCEPT !.high = newHigh, !.low = newLow]
  BY Zenon DEF Bus!AfterThresholdWrite
<1>2. [d EXCEPT !.high = newHigh, !.low = newLow]
          = [[d EXCEPT !.high = newHigh] EXCEPT !.low = newLow]
  BY Zenon
<1>3. [d EXCEPT !.high = newHigh]
          = Registers(config, latched, isReady, code, newHigh, low_value, {})
  BY DEF Registers
<1>4. [Registers(config, latched, isReady, code, newHigh, low_value, {}) EXCEPT !.low = newLow]
          = Registers(config, latched, isReady, code, newHigh, newLow, {})
  BY DEF Registers
<1>5. MappedDevice = d
  BY Zenon DEF MappedDevice, config, latched, isReady, code, high_value, low_value
<1> HIDE DEF d
<1>6. Bus!AfterThresholdWrite(d, newHigh, newLow)
          = Registers(config, latched, isReady, code, newHigh, newLow, {})
  BY <1>1, <1>2, <1>3, <1>4, Zenon
<1> QED
  BY <1>5, <1>6, Zenon DEF config, latched, isReady, code

LEMMA ConversionRead ==
    Bus!AfterRtdRead(MappedDevice)
        = Registers(ConfigOf(last_config), FaultsOf(latched_faults), FALSE, rtd_code,
                    high_threshold, low_threshold, {})
<1> DEFINE config == ConfigOf(last_config)
           latched == FaultsOf(latched_faults)
           isReady == ready
           code == rtd_code
           high_value == high_threshold
           low_value == low_threshold
<1> HIDE DEF config, latched, isReady, code, high_value, low_value
<1> DEFINE d == Registers(config, latched, isReady, code, high_value, low_value, {})
<1>1. Bus!AfterRtdRead(d) = [d EXCEPT !.ready = FALSE]
  BY Zenon DEF Bus!AfterRtdRead
<1>2. [d EXCEPT !.ready = FALSE]
          = Registers(config, latched, FALSE, code, high_value, low_value, {})
  <2>1. ASSUME NEW flag
        PROVE  [d EXCEPT !.ready = flag]
                   = Registers(config, latched, flag, code, high_value, low_value, {})
    BY DEF Registers
  <2> HIDE DEF d
  <2> QED
    BY <2>1, Zenon
<1>3. MappedDevice = d
  BY Zenon DEF MappedDevice, config, latched, isReady, code, high_value, low_value
<1> HIDE DEF d
<1>4. Bus!AfterRtdRead(d) = Registers(config, latched, FALSE, code, high_value, low_value, {})
  BY <1>1, <1>2, Zenon
<1> QED
  BY <1>3, <1>4, Zenon DEF config, latched, code, high_value, low_value

LEMMA SameWord == Bus!WordMax = WordMax
BY Zenon DEF Bus!WordMax, WordMax

LEMMA NoFaults == FaultsOf(0) = {} /\ ConfigOf(0) = {}
<1>1. \A mask \in {128, 64, 32, 16, 8, 4, 2, 1} : ~Bit(0, mask)
  BY DEF Bit
<1> QED
  BY <1>1 DEF FaultsOf, ConfigOf, BitsOf, FaultMask, ConfigMask

LEMMA EmulatorInvNext ==
    EmulatorInv /\ [EmulatorNext]_emulatorVars => EmulatorInv'
<1> SUFFICES ASSUME EmulatorInv, [EmulatorNext]_emulatorVars PROVE EmulatorInv'
  OBVIOUS
<1>1. rtd_code' = rtd_code /\ configured_faults' = configured_faults
  BY Zenon DEF EmulatorNext, emulatorVars, RefuseInput, EmulatorTransfer,
               Receive
<1>2. latched_faults' \in {0, configured_faults, latched_faults}
  BY Zenon DEF EmulatorNext, emulatorVars, registers, RefuseInput,
       EmulatorTransfer, WriteConfig, WriteThresholds, ReadRtd,
       ReadFaultStatus, RefuseRequest
<1>3. ready' \in BOOLEAN
  <2>1. ASSUME NEW tx, WriteConfig(tx) PROVE ready' \in BOOLEAN
    BY <2>1, Zenon DEF WriteConfig
  <2>2. ASSUME NEW tx, ReadRtd(tx) PROVE ready' \in BOOLEAN
    BY <2>2, Zenon DEF ReadRtd
  <2>3. ready' = ready \/ \E tx : WriteConfig(tx) \/ ReadRtd(tx)
    BY Zenon DEF EmulatorNext, emulatorVars, registers, RefuseInput,
         EmulatorTransfer, WriteThresholds, ReadFaultStatus,
         RefuseRequest
  <2>4. ready \in BOOLEAN
    BY DEF EmulatorInv
  <2> QED
    BY <2>1, <2>2, <2>3, <2>4, Zenon
<1>4. IsRtdCode(rtd_code) /\ IsFaultStatus(configured_faults)
      /\ latched_faults \in {0, configured_faults}
  BY Zenon DEF EmulatorInv
<1> QED
  BY <1>1, <1>2, <1>3, <1>4, Zenon DEF EmulatorInv

\* Only the bytes of a client reach the emulator.
LEMMA TransferBytes ==
    ASSUME EmulatorAssumption, NEW tx \in Transmissions
    PROVE  Len(tx) \in Nat /\ \A i \in 1 .. Len(tx) : tx[i] \in 0 .. 255
<1>1. tx \in Seq(Byte)
  BY Zenon DEF EmulatorAssumption
<1>2. Len(tx) \in Nat /\ \A i \in 1 .. Len(tx) : tx[i] \in Byte
  BY <1>1
<1> QED
  BY <1>2 DEF Byte

LEMMA MapsConfigWrite ==
    ASSUME EmulatorAssumption, EmulatorInv,
           NEW tx \in Transmissions, Receive(tx), WriteConfig(tx)
    PROVE  Bus!WriteConfig
<1> DEFINE value == tx[2]
           bits == ConfigOf(value)
<1>1. value \in 0 .. 255
  <2>1. Len(tx) = 2
    BY Zenon DEF WriteConfig, IsConfigWrite
  <2>2. \A i \in 1 .. Len(tx) : tx[i] \in 0 .. 255
    BY TransferBytes
  <2> QED
    BY <2>1, <2>2
<1>2. /\ last_config' = value
      /\ latched_faults' = IF Bit(value, AUTO_FAULT_CYCLE)
                              /\ Bit(value, BIAS) THEN configured_faults
                           ELSE IF Bit(value, CLEAR_FAULTS) THEN 0
                           ELSE latched_faults
      /\ ready' = (ready \/ (Bit(value, ONE_SHOT)
                               /\ Bit(value, BIAS)))
      /\ answer' = IF Lacks(value, AUTO_FAULT_CYCLE)
                      \/ Lacks(value, ONE_SHOT) THEN Raised
                   ELSE Returned(<<0, 0>>)
      /\ UNCHANGED <<high_threshold, low_threshold, rtd_code, configured_faults>>
  BY DEF WriteConfig, Receive
<1> HIDE DEF value
<1>3. /\ bits \in Bus!ConfigByte
      /\ "BIAS" \in bits <=> Bit(value, BIAS)
      /\ "ONE_SHOT" \in bits <=> Bit(value, ONE_SHOT)
      /\ "AUTO_FAULT_CYCLE" \in bits <=> Bit(value, AUTO_FAULT_CYCLE)
      /\ "CLEAR_FAULTS" \in bits <=> Bit(value, CLEAR_FAULTS)
  BY <1>1, ConfigBits
<1>4. FaultsOf(latched_faults')
          = IF {"AUTO_FAULT_CYCLE", "BIAS"} \subseteq bits THEN FaultsOf(configured_faults)
            ELSE IF "CLEAR_FAULTS" \in bits THEN {} ELSE FaultsOf(latched_faults)
  BY <1>2, <1>3, NoFaults
<1>5. ready' = (ready \/ {"ONE_SHOT", "BIAS"} \subseteq bits)
  BY <1>2, <1>3
<1>6. ConfigOf(last_config') = bits
  BY <1>2
<1> HIDE DEF bits
<1>7. MappedDevice' = [Bus!AfterConfigWrite(MappedDevice, MappedSensor, bits)
                          EXCEPT !.settling = {}]
  <2>1. [Bus!AfterConfigWrite(MappedDevice, MappedSensor, bits) EXCEPT !.settling = {}]
            = Registers(bits,
                        IF {"AUTO_FAULT_CYCLE", "BIAS"} \subseteq bits THEN FaultsOf(configured_faults)
                        ELSE IF "CLEAR_FAULTS" \in bits THEN {} ELSE FaultsOf(latched_faults),
                        ready \/ {"ONE_SHOT", "BIAS"} \subseteq bits,
                        rtd_code, high_threshold, low_threshold, {})
    BY ConfigWritten
  <2>2. MappedDevice' = Registers(ConfigOf(last_config'), FaultsOf(latched_faults'), ready',
                                  rtd_code', high_threshold', low_threshold', {})
    BY DEF MappedDevice, Registers, ConfigOf, FaultsOf, BitsOf, Bit,
           ConfigMask, FaultMask
  <2> QED
    BY <1>2, <1>4, <1>5, <1>6, <2>1, <2>2
<1>8. answer' = IF Bus!ConfigWriteIsAccepted(bits) THEN Bus!Response(<<0, 0>>)
                ELSE Bus!Refusal
  BY <1>2, <1>3 DEF Bus!ConfigWriteIsAccepted, Lacks, Raised,
                    Returned, Bus!Response, Bus!Refusal
<1> QED
  BY <1>3, <1>7, <1>8, Zenon DEF Bus!WriteConfig, MappedDevice, MappedSensor, Registers,
                   ConfigOf, FaultsOf, SensorOf

LEMMA WordFacts ==
    ASSUME NEW a \in 0 .. 255, NEW b \in 0 .. 255
    PROVE  256 * a + b \in 0 .. WordMax
<1>1. 256 * a + b \in Int /\ 0 <= 256 * a + b
  OBVIOUS
<1>2. 256 * a + b <= WordMax /\ WordMax \in Int
  BY DEF WordMax
<1> QED
  BY <1>1, <1>2

LEMMA MapsThresholdWrite ==
    ASSUME EmulatorAssumption, EmulatorInv,
           NEW tx \in Transmissions, Receive(tx), WriteThresholds(tx)
    PROVE  Bus!WriteThresholds
<1>1. tx[2] \in 0 .. 255 /\ tx[3] \in 0 .. 255 /\ tx[4] \in 0 .. 255 /\ tx[5] \in 0 .. 255
  <2>1. Len(tx) = 5
    BY Zenon DEF WriteThresholds, IsThresholdWrite
  <2>2. \A i \in 1 .. Len(tx) : tx[i] \in 0 .. 255
    BY TransferBytes
  <2> QED
    BY <2>1, <2>2
<1>2. /\ high_threshold' = 256 * tx[2] + tx[3]
      /\ low_threshold' = 256 * tx[4] + tx[5]
      /\ answer' = Returned(<<0, 0, 0, 0, 0>>)
      /\ UNCHANGED <<latched_faults, last_config, ready, rtd_code, configured_faults>>
  BY DEF WriteThresholds, Receive
<1>3. high_threshold' \in 0 .. WordMax /\ low_threshold' \in 0 .. WordMax
  <2>1. 256 * tx[2] + tx[3] \in 0 .. WordMax /\ 256 * tx[4] + tx[5] \in 0 .. WordMax
    <3> DEFINE a == tx[2]
               b == tx[3]
               c == tx[4]
               d == tx[5]
    <3>1. a \in 0 .. 255 /\ b \in 0 .. 255 /\ c \in 0 .. 255 /\ d \in 0 .. 255
      BY <1>1
    <3> HIDE DEF a, b, c, d
    <3>2. 256 * a + b \in 0 .. WordMax
      BY <3>1, WordFacts, Zenon
    <3>3. 256 * c + d \in 0 .. WordMax
      BY <3>1, WordFacts, Zenon
    <3> QED
      BY <3>2, <3>3, Zenon DEF a, b, c, d
  <2> QED
    BY <1>2, <2>1
<1>4. /\ MappedDevice' = Bus!AfterThresholdWrite(MappedDevice, high_threshold',
                                                         low_threshold')
      /\ MappedDevice'.high = high_threshold' /\ MappedDevice'.low = low_threshold'
  <2>1. MappedDevice' = Registers(ConfigOf(last_config), FaultsOf(latched_faults), ready,
                                  rtd_code, high_threshold', low_threshold', {})
    BY <1>2, Zenon DEF MappedDevice, Registers, ConfigOf, FaultsOf
  <2> QED
    <3>1. MappedDevice' = Bus!AfterThresholdWrite(MappedDevice, high_threshold', low_threshold')
      BY <2>1, ThresholdsWritten
    <3>2. MappedDevice'.high = high_threshold' /\ MappedDevice'.low = low_threshold'
      BY <2>1 DEF Registers
    <3> QED
      BY <3>1, <3>2
<1>5. answer' = Bus!Response(<<0, 0, 0, 0, 0>>)
  BY <1>2, Zenon DEF Returned, Bus!Response
<1>6. {MappedDevice'.high, MappedDevice'.low} \subseteq 0 .. WordMax
  BY <1>3, <1>4, Zenon
<1>7. MappedDevice' = Bus!AfterThresholdWrite(MappedDevice, MappedDevice'.high,
                                                       MappedDevice'.low)
  BY <1>4
<1> QED
  BY <1>5, <1>6, <1>7, SameWord, Zenon DEF Bus!WriteThresholds, MappedDevice, Registers,
                                           ConfigOf, FaultsOf

LEMMA MapsRtdRead ==
    ASSUME EmulatorInv, NEW tx, Receive(tx), ReadRtd(tx)
    PROVE  Bus!ReadRtd \/ Bus!Refuse
<1>1. /\ answer' = IF ready THEN Returned(<<0, WireValue \div 256,
                                                     WireValue % 256>>)
                   ELSE Raised
      /\ ready' = FALSE
      /\ UNCHANGED <<latched_faults, high_threshold, low_threshold, last_config, rtd_code,
                     configured_faults>>
  BY DEF ReadRtd, Receive
<1>2. CASE ready
  <2>1. IsFaultStatus(latched_faults)
    BY DEF EmulatorInv, IsFaultStatus, Byte
  <2>2. FaultsOf(latched_faults) = {} <=> latched_faults = 0
    BY <2>1, FaultBytes
  <2>3. WireValue = 2 * rtd_code + (IF FaultsOf(latched_faults) = {} THEN 0 ELSE 1)
    BY <2>2 DEF WireValue
  <2>4. Bus!RtdRegister(MappedDevice) = WireValue
    BY <2>3 DEF Bus!RtdRegister, MappedDevice, Registers
  <2>5. answer' = Bus!Response(<<0, Bus!RtdRegister(MappedDevice) \div 256,
                                          Bus!RtdRegister(MappedDevice) % 256>>)
    BY <1>1, <1>2, <2>4 DEF Returned, Bus!Response
  <2>6. MappedDevice' = Bus!AfterRtdRead(MappedDevice)
    <3>1. MappedDevice' = Registers(ConfigOf(last_config), FaultsOf(latched_faults), FALSE,
                                    rtd_code, high_threshold, low_threshold, {})
      BY <1>1, Zenon DEF MappedDevice, Registers, ConfigOf, FaultsOf
    <3> QED
      BY <3>1, ConversionRead, Zenon
  <2>7. Bus!RtdReadIsAccepted(MappedDevice)
    BY <1>2 DEF Bus!RtdReadIsAccepted, MappedDevice, Registers
  <2> QED
    BY <2>5, <2>6, <2>7, Zenon DEF Bus!ReadRtd, MappedDevice, Registers, ConfigOf, FaultsOf
<1>3. CASE ~ready
  <2>1. ready = FALSE
    BY <1>3, Zenon DEF EmulatorInv
  <2>2. ready' = ready
    BY <1>1, <2>1, Zenon
  <2>3. MappedDevice' = MappedDevice
    BY <1>1, <2>2, Zenon DEF MappedDevice, Registers, ConfigOf, FaultsOf
  <2>4. answer' = Bus!Refusal
    BY <1>1, <1>3, Zenon DEF Raised, Bus!Refusal
  <2> QED
    BY <2>3, <2>4, Zenon DEF Bus!Refuse, MappedDevice, Registers, ConfigOf, FaultsOf
<1> QED
  BY <1>2, <1>3

LEMMA MapsFaultRead ==
    ASSUME EmulatorInv, NEW tx, Receive(tx), ReadFaultStatus(tx)
    PROVE  Bus!ReadFaultStatus
<1>1. /\ answer' = Returned(<<0, latched_faults>>)
      /\ UNCHANGED <<rtd_code, configured_faults, latched_faults, high_threshold, low_threshold,
                     last_config, ready>>
  BY DEF ReadFaultStatus, Receive, registers
<1>2. IsFaultStatus(latched_faults)
  BY DEF EmulatorInv, IsFaultStatus, Byte
<1>3. Bus!ByteOf(FaultsOf(latched_faults)) = latched_faults
  BY <1>2, FaultBytes
<1>4. Bus!FaultStatusRegister(MappedDevice) = FaultsOf(latched_faults)
  BY DEF Bus!FaultStatusRegister, MappedDevice, Registers
<1>5. answer' = Bus!Response(
                    <<0, Bus!ByteOf(Bus!FaultStatusRegister(MappedDevice))>>)
  BY <1>1, <1>3, <1>4 DEF Returned, Bus!Response
<1>6. UNCHANGED MappedDevice
  BY <1>1 DEF MappedDevice, Registers, ConfigOf, FaultsOf
<1> QED
  BY <1>5, <1>6, Zenon DEF Bus!ReadFaultStatus, MappedDevice, Registers, ConfigOf, FaultsOf

LEMMA MapsRefusal ==
    ASSUME \/ RefuseInput
           \/ \E tx \in Transmissions : Receive(tx) /\ RefuseRequest(tx)
    PROVE  Bus!Refuse
BY DEF RefuseInput, RefuseRequest, Receive, registers,
       Raised, Bus!Refuse, Bus!Refusal

LEMMA EmulatorMapped ==
    ASSUME EmulatorAssumption
    PROVE  EmulatorInv /\ [EmulatorNext]_emulatorVars
               => [Bus!Next]_(Bus!vars)
<1> SUFFICES ASSUME EmulatorInv, [EmulatorNext]_emulatorVars
             PROVE  Bus!Next \/ UNCHANGED Bus!vars
  OBVIOUS
<1>1. CASE UNCHANGED emulatorVars
  BY <1>1 DEF emulatorVars, registers, Bus!vars
<1>2. CASE EmulatorNext
  <2>1. \/ Bus!WriteConfig \/ Bus!WriteThresholds \/ Bus!ReadRtd
        \/ Bus!ReadFaultStatus \/ Bus!Refuse
    BY <1>2, MapsConfigWrite, MapsThresholdWrite, MapsRtdRead, MapsFaultRead, MapsRefusal
       DEF EmulatorNext, EmulatorTransfer
  <2>2. UNCHANGED <<rtd_code, configured_faults>>
    BY <1>2 DEF EmulatorNext, EmulatorTransfer, Receive, RefuseInput
  <2>3. UNCHANGED SensorOf(rtd_code, configured_faults)
    BY <2>2
  <2> QED
    BY <2>1, <2>3, Zenon DEF Bus!Next
<1> QED
  BY <1>1, <1>2

\* Byte by byte, the emulator is the converter that the models of the drivers talk
\* to: for every code and fault status it is constructed with and every sequence of
\* bytes that clients send it.
THEOREM EmulatorImplements ==
    ASSUME EmulatorAssumption
    PROVE  EmulatorSpec => ImplementsRegisterBus
<1>1. EmulatorInit => EmulatorInv
  <2> SUFFICES ASSUME EmulatorInit PROVE EmulatorInv
    OBVIOUS
  <2>1. IsRtdCode(rtd_code) /\ IsFaultStatus(configured_faults)
    BY DEF EmulatorInit
  <2>2. latched_faults = 0 /\ ready = FALSE
    BY DEF EmulatorInit
  <2> QED
    BY <2>1, <2>2, Zenon DEF EmulatorInv
<1>2. EmulatorInit => Bus!Init
  <2> SUFFICES ASSUME EmulatorInit PROVE Bus!Init
    OBVIOUS
  <2>1. /\ rtd_code \in {code \in RawCodes : IsRtdCode(code)}
        /\ configured_faults \in {status \in RawStatuses : IsFaultStatus(status)}
        /\ latched_faults = 0 /\ high_threshold = WordMax /\ low_threshold = 0 /\ last_config = 0
        /\ ready = FALSE /\ answer = Raised
    BY DEF EmulatorInit
  <2>2. MappedDevice = [config |-> {}, latched |-> {}, ready |-> FALSE, data |-> MappedSensor.code,
                        high |-> WordMax, low |-> 0, settling |-> {}]
    BY <2>1, NoFaults DEF MappedDevice, MappedSensor, Registers
  <2>3. answer = Bus!Refusal
    BY <2>1 DEF Raised, Bus!Refusal
  <2>4. MappedSensor = SensorOf(rtd_code, configured_faults)
    BY Zenon DEF MappedSensor, SensorOf, FaultsOf
  <2>5. SensorOf(rtd_code, configured_faults)
            \in {SensorOf(code, status) : code \in {c \in RawCodes : IsRtdCode(c)},
                                          status \in {s \in RawStatuses : IsFaultStatus(s)}}
    BY <2>1
  <2>6. MappedDevice = [config |-> {}, latched |-> {}, ready |-> FALSE,
                        data |-> SensorOf(rtd_code, configured_faults).code,
                        high |-> Bus!WordMax, low |-> 0, settling |-> {}]
    BY <2>2, <2>4, SameWord, Zenon
  <2> QED
    BY <2>3, <2>5, <2>6 DEF Bus!Init, MappedDevice, Registers, ConfigOf, FaultsOf
<1>3. EmulatorInv /\ [EmulatorNext]_emulatorVars => EmulatorInv'
  BY EmulatorInvNext
<1>4. EmulatorInv /\ [EmulatorNext]_emulatorVars => [Bus!Next]_(Bus!vars)
  BY EmulatorMapped
<1> QED
  BY <1>1, <1>2, <1>3, <1>4, PTL DEF EmulatorSpec, ImplementsRegisterBus, Bus!Spec
=============================================================================
