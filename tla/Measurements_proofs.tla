-------------------------- MODULE Measurements_proofs --------------------------
(***************************************************************************)
(* Theorems about measurements: the simulated device that replays them and *)
(* the capture loop and summary over it, for every set of scripts and      *)
(* every bound; and what the two languages accept as a measurement, for    *)
(* every capacity, every range of size_t and every diagnostic that is      *)
(* appended.                                                               *)
(***************************************************************************)
EXTENDS CaptureRows, MeasurementContract, FiniteSetTheorems, FunctionTheorems,
        WellFoundedInduction, TLAPS

(***************************************************************************)
(* Counting in a loop                                                      *)
(***************************************************************************)
\* A remainder is the only one.
LEMMA RemainderIsUnique ==
    ASSUME NEW L \in Nat \ {0}, NEW q \in Int, NEW r \in 0 .. L - 1
    PROVE  (L * q + r) % L = r
<1> DEFINE n == L * q + r
           p == n \div L
           s == n % L
<1>1. n \in Int
  OBVIOUS
<1>2. n = L * p + s /\ p \in Int /\ s \in 0 .. L - 1
  BY <1>1
<1>3. L * p + s = L * q + r
  BY <1>2
<1> HIDE DEF n, p, s
<1>4. CASE p = q
  BY <1>2, <1>3, <1>4 DEF s, n
<1>5. CASE p > q
  <2>1. L * p >= L * q + L
    BY <1>2, <1>5
  <2> QED
    BY <1>2, <1>3, <2>1
<1>6. CASE p < q
  <2>1. L * q >= L * p + L
    BY <1>2, <1>6
  <2> QED
    BY <1>2, <1>3, <2>1
<1> QED
  BY <1>2, <1>4, <1>5, <1>6

\* Counting on by one moves to the next position, or from the last to the first.
LEMMA NextPosition ==
    ASSUME NEW L \in Nat \ {0}, NEW c \in Nat
    PROVE  /\ c % L \in 0 .. L - 1
           /\ (c + 1) % L = IF c % L = L - 1 THEN 0 ELSE (c % L) + 1
<1> DEFINE q == c \div L
           r == c % L
<1>1. c = L * q + r /\ q \in Int /\ r \in 0 .. L - 1
  OBVIOUS
<1> HIDE DEF q
<1>2. CASE r = L - 1
  <2>1. c + 1 = L * (q + 1) + 0
    BY <1>1, <1>2
  <2>2. (L * (q + 1) + 0) % L = 0
    BY <1>1, RemainderIsUnique
  <2> QED
    BY <1>1, <1>2, <2>1, <2>2
<1>3. CASE r # L - 1
  <2>1. c + 1 = L * q + (r + 1) /\ r + 1 \in 0 .. L - 1
    BY <1>1, <1>3
  <2>2. (L * q + (r + 1)) % L = r + 1
    BY <1>1, <2>1, RemainderIsUnique
  <2> QED
    BY <1>1, <1>3, <2>1, <2>2
<1> QED
  BY <1>2, <1>3

(***************************************************************************)
(* The device                                                              *)
(***************************************************************************)
\* Where the device is in its script.
PositionInv ==
    /\ steps \in Scripts
    /\ repeat \in BOOLEAN
    /\ read_count \in Nat
    /\ index \in Nat
    /\ ~repeat => read_count <= Len(steps)
    /\ IndexFollowsCount

LEMMA ScriptLength ==
    ASSUME PositionInv
    PROVE  Len(steps) \in Nat \ {0}
<1>1. steps \in Seq(Measurements) /\ steps # <<>>
  BY ScriptsAssumption DEF PositionInv
<1> QED
  BY <1>1

\* The device is at the end of a script that is not repeated exactly when it
\* has given every entry.
LEMMA OverWhenConsumed ==
    ASSUME PositionInv
    PROVE  (index >= Len(steps) /\ ~repeat) <=> Promise!IsOver(read_count)
<1> DEFINE L == Len(steps)
<1>1. L \in Nat \ {0} /\ read_count \in Nat
  BY ScriptLength DEF PositionInv
<1>2. CASE repeat
  BY <1>2 DEF Promise!IsOver
<1>3. CASE ~repeat /\ read_count = 0
  <2>1. index = 0
    BY <1>3 DEF PositionInv, IndexFollowsCount
  <2> QED
    BY <1>1, <1>3, <2>1 DEF Promise!IsOver
<1>4. CASE ~repeat /\ read_count # 0
  <2>1. index = ((read_count - 1) % L) + 1 /\ read_count <= L
    BY <1>4 DEF PositionInv, IndexFollowsCount
  <2> HIDE DEF L
  <2>2. L * 0 + (read_count - 1) = read_count - 1 /\ read_count - 1 \in 0 .. L - 1
    BY <1>1, <1>4, <2>1
  <2>3. (L * 0 + (read_count - 1)) % L = read_count - 1
    BY <1>1, <2>2, RemainderIsUnique
  <2>4. index = read_count
    BY <1>1, <2>1, <2>2, <2>3
  <2> QED
    BY <1>1, <1>4, <2>1, <2>4 DEF Promise!IsOver, L
<1> QED
  BY <1>2, <1>3, <1>4 DEF PositionInv

\* The entry that a read comes upon is the next one of the script.
LEMMA NextEntry ==
    ASSUME PositionInv
    PROVE  (IF index >= Len(steps) THEN 1 ELSE index + 1) = (read_count % Len(steps)) + 1
<1> DEFINE L == Len(steps)
           c == read_count - 1
<1>1. L \in Nat \ {0} /\ read_count \in Nat /\ index \in Nat
  BY ScriptLength DEF PositionInv
<1>2. CASE read_count = 0
  <2>1. index = 0
    BY <1>2 DEF PositionInv, IndexFollowsCount
  <2>2. read_count % L = 0
    <3>1. (L * 0 + 0) % L = 0
      BY <1>1, RemainderIsUnique
    <3> QED
      BY <1>1, <1>2, <3>1
  <2> QED
    BY <1>1, <2>1, <2>2
<1>3. CASE read_count # 0
  <2>1. index = (c % L) + 1 /\ c \in Nat /\ c + 1 = read_count
    BY <1>1, <1>3 DEF PositionInv, IndexFollowsCount
  <2> HIDE DEF L, c
  <2>2. /\ c % L \in 0 .. L - 1
        /\ (c + 1) % L = IF c % L = L - 1 THEN 0 ELSE (c % L) + 1
    BY <1>1, <2>1, NextPosition
  <2>3. (IF index >= L THEN 1 ELSE index + 1) = (read_count % L) + 1
    BY <1>1, <2>1, <2>2
  <2> QED
    BY <2>3 DEF L
<1> QED
  BY <1>2, <1>3

\* A read of the device is a read of the script.
LEMMA ReadRefines ==
    ASSUME PositionInv, Read
    PROVE  PositionInv' /\ Promise!Read
<1> DEFINE L == Len(steps)
           at == IF index >= L THEN 1 ELSE index + 1
           over == index >= L /\ ~repeat
<1>1. L \in Nat \ {0} /\ read_count \in Nat /\ UNCHANGED <<steps, repeat>>
  BY ScriptLength DEF PositionInv, Read
<1>2. over <=> Promise!IsOver(read_count)
  BY OverWhenConsumed
<1>3. at = (read_count % L) + 1
  BY NextEntry
<1>4. /\ last' = Outcome(over, steps[at])
      /\ index' = IF over THEN index ELSE at
      /\ read_count' = IF over THEN read_count ELSE read_count + 1
  BY DEF Read
<1>5. Promise!Read
  <2>1. Outcome(over, steps[at])
            = Outcome(Promise!IsOver(read_count), Promise!EntryAfter(read_count))
    BY <1>2, <1>3 DEF Outcome, Promise!EntryAfter
  <2>2. read_count' = IF Promise!IsOver(read_count) THEN read_count ELSE read_count + 1
    BY <1>2, <1>4
  <2> QED
    BY <1>1, <1>4, <2>1, <2>2 DEF Promise!Read
<1>6. PositionInv'
  <2>1. CASE over
    BY <1>1, <1>4, <2>1 DEF PositionInv, IndexFollowsCount
  <2>2. CASE ~over
    <3>1. read_count' = read_count + 1 /\ index' = (read_count % L) + 1
      BY <1>3, <1>4, <2>2
    <3>2. index' = ((read_count' - 1) % Len(steps')) + 1
      BY <1>1, <3>1
    <3>3. index' \in Nat
      <4>1. read_count % L \in 0 .. L - 1
        BY <1>1, NextPosition
      <4> HIDE DEF L
      <4> QED
        BY <1>1, <3>1, <4>1
    <3>4. ~repeat => read_count' <= Len(steps')
      BY <1>1, <1>2, <2>2, <3>1 DEF Promise!IsOver
    <3>5. read_count' \in Nat /\ read_count' # 0
      BY <1>1, <3>1
    <3> QED
      BY <1>1, <3>1, <3>2, <3>3, <3>4, <3>5 DEF PositionInv, IndexFollowsCount
  <2> QED
    BY <2>1, <2>2
<1> QED
  BY <1>5, <1>6

LEMMA ResetRefines ==
    ASSUME PositionInv, Reset
    PROVE  PositionInv' /\ Promise!Reset
<1>1. Len(steps) \in Nat
  BY ScriptLength
<1> QED
  BY <1>1 DEF Reset, PositionInv, IndexFollowsCount, Promise!Reset

LEMMA PositionInit == DeviceInit => PositionInv
<1> SUFFICES ASSUME DeviceInit PROVE PositionInv
  OBVIOUS
<1>1. steps \in Seq(Measurements)
  BY ScriptsAssumption DEF DeviceInit
<1> QED
  BY <1>1 DEF DeviceInit, PositionInv, IndexFollowsCount

LEMMA PositionNext == PositionInv /\ [Next]_vars => PositionInv' /\ [Promise!Next]_(Promise!vars)
<1> SUFFICES ASSUME PositionInv, [Next]_vars
             PROVE  PositionInv' /\ (Promise!Next \/ UNCHANGED Promise!vars)
  OBVIOUS
<1>1. CASE BeginCapture \/ UNCHANGED vars
  BY <1>1 DEF BeginCapture, vars, deviceVars, PositionInv, IndexFollowsCount, Promise!vars
<1>2. CASE CaptureRow \/ UserReads
  BY <1>2, ReadRefines DEF CaptureRow, UserReads, Promise!Next
<1>3. CASE UserResets
  BY <1>3, ResetRefines DEF UserResets, Promise!Next
<1> QED
  BY <1>1, <1>2, <1>3 DEF Next

LEMMA Position == Spec => []PositionInv
  BY PositionInit, PositionNext, PTL DEF Init, Spec

\* The counter tells where in the script the device is, however captures,
\* reads and resets alternate.
THEOREM IndexIsBehindCount == Spec => []IndexFollowsCount
<1>1. PositionInv => IndexFollowsCount
  BY DEF PositionInv
<1> QED
  BY <1>1, Position, PTL

\* The device replays its script: the n-th read gives the n-th entry.
THEOREM Replays == Spec => ReplaysScript
<1>1. Init => Promise!Init
  BY DEF Init, DeviceInit, Promise!Init
<1> QED
  BY <1>1, Position, PositionNext, PTL DEF Spec, ReplaysScript, Promise!Spec

(***************************************************************************)
(* The capture loop                                                        *)
(***************************************************************************)
Rows == [sequence : Nat, outcome : {"measurement", "acquisition_error"},
         measurement : Measurements \cup {Failure}]

\* While a capture runs, nobody else reads: the device has given one entry for
\* each row, or is at the end of its script.
RowsFollowDevice ==
    requested > 0 =>
        \/ read_count = start + Len(rows)
        \/ ~repeat /\ read_count = Len(steps) /\ start + Len(rows) >= Len(steps)

CaptureInv ==
    /\ PositionInv
    /\ count \in Nat
    /\ requested \in Nat
    /\ start \in Nat
    /\ rows \in Seq(Rows)
    /\ RowsFollowDevice
    /\ RowsAreTheScript

\* What the attempt under way meets is what the script has at its place.
LEMMA AttemptIsScripted ==
    ASSUME CaptureInv, requested > 0
    PROVE  /\ Promise!IsOver(read_count) <=> Promise!IsOver(start + (Len(rows) + 1) - 1)
           /\ ~Promise!IsOver(read_count) => read_count = start + (Len(rows) + 1) - 1
<1> DEFINE L == Len(steps)
           n == Len(rows)
<1>1. L \in Nat \ {0} /\ read_count \in Nat /\ n \in Nat /\ start \in Nat
  BY ScriptLength DEF CaptureInv, PositionInv
<1>2. start + (n + 1) - 1 = start + n
  BY <1>1
<1>3. CASE read_count = start + n
  BY <1>2, <1>3
<1>4. CASE ~repeat /\ read_count = L /\ start + n >= L
  BY <1>1, <1>2, <1>4 DEF Promise!IsOver
<1> QED
  BY <1>3, <1>4 DEF CaptureInv, RowsFollowDevice

\* The row of an attempt is what the script says of it.
LEMMA RowIsScripted ==
    ASSUME CaptureInv, requested > 0, Read, NEW i, i = Len(rows) + 1
    PROVE  LET row == Row(i, last')
           IN  /\ row \in Rows
               /\ row.sequence = i
               /\ row.outcome = IF Succeeds(start, i) THEN "measurement" ELSE "acquisition_error"
               /\ Succeeds(start, i) => row.measurement = Scripted(start, i)
<1> DEFINE over == Promise!IsOver(read_count)
           entry == Promise!EntryAfter(read_count)
<1>1. last' = Outcome(over, entry)
  BY ReadRefines DEF CaptureInv, Promise!Read
<1>2. /\ over <=> Promise!IsOver(start + i - 1)
      /\ ~over => entry = Promise!EntryAfter(start + i - 1)
  BY AttemptIsScripted DEF Promise!EntryAfter
<1>3. ~over => entry \in Measurements
  <2>1. /\ Len(steps) \in Nat \ {0}
        /\ read_count \in Nat
        /\ steps \in Seq(Measurements)
    BY ScriptLength, ScriptsAssumption DEF CaptureInv, PositionInv
  <2>2. read_count % Len(steps) \in 0 .. Len(steps) - 1
    BY <2>1, NextPosition
  <2>3. (read_count % Len(steps)) + 1 \in 1 .. Len(steps)
    BY <2>1, <2>2
  <2> QED
    BY <2>1, <2>3 DEF Promise!EntryAfter
<1>4. i \in Nat
  BY DEF CaptureInv
<1>5. CASE over
  <2>1. last'.kind = "exhausted" /\ last'.entry = Failure
    BY <1>1, <1>5 DEF Outcome
  <2> QED
    BY <1>2, <1>4, <1>5, <2>1 DEF Row, Rows, Succeeds
<1>6. CASE ~over
  <2>1. last' = [kind |-> IF entry = Failure THEN "raised" ELSE "returned", entry |-> entry]
    BY <1>1, <1>6 DEF Outcome
  <2> HIDE DEF entry, over
  <2> QED
    BY <1>2, <1>3, <1>4, <1>6, <2>1 DEF Row, Rows, Succeeds, Scripted
<1> QED
  BY <1>5, <1>6

LEMMA CaptureRowKeepsInv ==
    ASSUME CaptureInv, CaptureRow
    PROVE  CaptureInv'
<1> DEFINE n == Len(rows)
           row == Row(n + 1, last')
<1>1. /\ requested > 0 /\ Read
      /\ rows' = Append(rows, row)
      /\ requested' = requested - 1
      /\ UNCHANGED <<count, start, steps, repeat>>
  BY DEF CaptureRow, Read
<1>2. /\ n \in Nat /\ start \in Nat /\ count \in Nat /\ requested \in Nat
      /\ rows \in Seq(Rows) /\ n = count - requested
  BY DEF CaptureInv, RowsAreTheScript
<1>3. PositionInv' /\ Promise!Read
  BY <1>1, ReadRefines DEF CaptureInv
<1>4. /\ row \in Rows
      /\ row.sequence = n + 1
      /\ row.outcome = IF Succeeds(start, n + 1) THEN "measurement" ELSE "acquisition_error"
      /\ Succeeds(start, n + 1) => row.measurement = Scripted(start, n + 1)
  BY <1>1, RowIsScripted
<1> HIDE DEF row
<1>5. rows' \in Seq(Rows) /\ Len(rows') = n + 1 /\ DOMAIN rows' = 1 .. n + 1
  BY <1>1, <1>2, <1>4
<1>6. /\ rows'[n + 1] = row
      /\ \A i \in 1 .. n : rows'[i] = rows[i]
  BY <1>1, <1>2
<1>7. RowsFollowDevice'
  <2>1. read_count' = IF Promise!IsOver(read_count) THEN read_count ELSE read_count + 1
    BY <1>3 DEF Promise!Read
  <2>2. Len(steps) \in Nat \ {0} /\ read_count \in Nat
    BY ScriptLength DEF CaptureInv, PositionInv
  <2>3. \/ read_count = start + n
        \/ ~repeat /\ read_count = Len(steps) /\ start + n >= Len(steps)
    BY <1>1 DEF CaptureInv, RowsFollowDevice
  <2>4. ~repeat => read_count <= Len(steps)
    BY DEF CaptureInv, PositionInv
  <2> QED
    BY <1>1, <1>2, <1>5, <2>1, <2>2, <2>3, <2>4 DEF RowsFollowDevice, Promise!IsOver
<1>8. RowsAreTheScript'
  <2>1. \A i : Succeeds(start, i)' = Succeeds(start, i) /\ Scripted(start, i)' = Scripted(start, i)
    BY <1>1 DEF Succeeds, Scripted, Promise!IsOver, Promise!EntryAfter
  <2>2. \A i \in 1 .. n :
           /\ rows[i].sequence = i
           /\ rows[i].outcome = IF Succeeds(start, i) THEN "measurement" ELSE "acquisition_error"
           /\ Succeeds(start, i) => rows[i].measurement = Scripted(start, i)
    BY <1>2 DEF CaptureInv, RowsAreTheScript
  <2>3. ASSUME NEW i \in 1 .. n + 1
        PROVE  /\ rows'[i].sequence = i
               /\ rows'[i].outcome
                      = IF Succeeds(start, i) THEN "measurement" ELSE "acquisition_error"
               /\ Succeeds(start, i) => rows'[i].measurement = Scripted(start, i)
    <3>1. CASE i = n + 1
      BY <1>4, <1>6, <3>1
    <3>2. CASE i # n + 1
      BY <1>2, <1>6, <2>2, <3>2
    <3> QED
      BY <3>1, <3>2
  <2>4. Len(rows') = count' - requested'
    BY <1>1, <1>2, <1>5
  <2> QED
    BY <1>1, <1>5, <2>1, <2>3, <2>4 DEF RowsAreTheScript, Succeeds, Scripted, Promise!IsOver, Promise!EntryAfter
<1>9. count' \in Nat /\ requested' \in Nat /\ start' \in Nat
  BY <1>1, <1>2
<1> QED
  BY <1>3, <1>5, <1>7, <1>8, <1>9 DEF CaptureInv

LEMMA CaptureInit == Init => CaptureInv
<1> SUFFICES ASSUME Init PROVE CaptureInv
  OBVIOUS
<1>1. PositionInv
  BY PositionInit DEF Init
<1> QED
  BY <1>1 DEF Init, CaptureInv, RowsFollowDevice, RowsAreTheScript

LEMMA CaptureNext == CaptureInv /\ [Next]_vars => CaptureInv'
<1> SUFFICES ASSUME CaptureInv, [Next]_vars PROVE CaptureInv'
  OBVIOUS
<1>1. PositionInv'
  BY PositionNext DEF CaptureInv
<1>2. CASE BeginCapture
  <2>1. /\ count' \in 1 .. MaxCount /\ requested' = count' /\ rows' = <<>>
        /\ start' = read_count /\ read_count' = read_count
    BY <1>2 DEF BeginCapture, deviceVars
  <2>2. read_count \in Nat /\ MaxCount \in Nat
    BY CountAssumption DEF CaptureInv, PositionInv
  <2>3. rows' \in Seq(Rows) /\ Len(rows') = 0 /\ DOMAIN rows' = {}
    BY <2>1
  <2>4. RowsFollowDevice'
    BY <2>1, <2>2, <2>3 DEF RowsFollowDevice
  <2>5. RowsAreTheScript'
    <3>1. count' - requested' = 0
      <4>1. count' \in Int /\ requested' \in Int
        BY <2>1, <2>2
      <4>2. requested' = count'
        BY <2>1
      <4>3. \A n \in Int : n - n = 0
        OBVIOUS
      <4> QED
        BY <4>1, <4>2, <4>3, Zenon
    <3>2. ~\E i : i \in DOMAIN rows'
      BY <2>3
    <3> QED
      BY <2>3, <3>1, <3>2, Zenon DEF RowsAreTheScript
  <2>6. count' \in Nat /\ requested' \in Nat /\ start' \in Nat
    BY <2>1, <2>2
  <2> QED
    BY <1>1, <2>3, <2>4, <2>5, <2>6 DEF CaptureInv
<1>3. CASE CaptureRow
  BY <1>3, CaptureRowKeepsInv
<1>4. CASE UserReads \/ UserResets \/ UNCHANGED vars
  <2>1. UNCHANGED <<steps, repeat, rows, count, start, requested>>
    BY <1>4 DEF UserReads, UserResets, Read, Reset, vars, deviceVars
  <2>2. RowsAreTheScript'
    BY <2>1 DEF CaptureInv, RowsAreTheScript, Succeeds, Scripted, Promise!IsOver, Promise!EntryAfter
  <2>3. RowsFollowDevice'
    <3>1. CASE UNCHANGED vars
      BY <3>1 DEF CaptureInv, RowsFollowDevice, vars, deviceVars
    <3>2. CASE UserReads \/ UserResets
      <4>1. ~(requested' > 0)
        BY <2>1, <3>2 DEF UserReads, UserResets
      <4> QED
        BY <4>1 DEF RowsFollowDevice
    <3> QED
      BY <1>4, <3>1, <3>2
  <2> QED
    BY <1>1, <2>1, <2>2, <2>3 DEF CaptureInv
<1> QED
  BY <1>2, <1>3, <1>4 DEF Next

\* Every attempt of a capture has its row, in order, and the rows are what the
\* script says from where the device was, over its end too.
THEOREM RowsAreScripted == Spec => []RowsAreTheScript
<1>1. CaptureInv => RowsAreTheScript
  BY DEF CaptureInv
<1> QED
  BY <1>1, CaptureInit, CaptureNext, PTL DEF Spec

(***************************************************************************)
(* The loops of the summary                                                *)
(***************************************************************************)
\* A set of naturals that has zero, and every successor of its elements, has all.
LEMMA SetInduction ==
    ASSUME NEW S, 0 \in S, \A n \in Nat : n \in S => n + 1 \in S
    PROVE  Nat \subseteq S
<1> SUFFICES ASSUME Nat \ S # {} PROVE FALSE
  OBVIOUS
<1>1. PICK x \in Nat \ S : \A y \in Nat \ S : ~(<<y, x>> \in OpToRel(<, Nat))
  BY NatLessThanWellFounded, WFMin
<1>2. x # 0 /\ x - 1 \in Nat
  OBVIOUS
<1>3. x - 1 \notin S
  BY <1>2
<1>4. <<x - 1, x>> \in OpToRel(<, Nat)
  BY <1>2 DEF OpToRel
<1> QED
  BY <1>1, <1>2, <1>3, <1>4

\* The last element of a range, and of what begins with one.
LEMMA LastIsMax ==
    ASSUME NEW k \in Nat, NEW s \in SUBSET (1 .. k + 1), k + 1 \in s
    PROVE  Max(s) = k + 1
<1>1. \A y \in s : k + 1 >= y
  OBVIOUS
<1>2. \A x \in s : (\A y \in s : x >= y) => x = k + 1
  OBVIOUS
<1> QED
  BY <1>1, <1>2 DEF Max

\* FoldLeft over the first n rows, as the function of SequencesExt computes it: of
\* every set of places.
IsCounting(f, captured, n) ==
    f = [s \in SUBSET (1 .. n) |->
            IF s = {} THEN NoCounts ELSE CountRow(f[s \ {Max(s)}], captured[Max(s)])]

\* That function exists: each length extends the one of the length before.
LEMMA CountingExists ==
    ASSUME NEW captured, NEW n \in Nat
    PROVE  \E f : IsCounting(f, captured, n)
<1> DEFINE S == {k \in Nat : \E f : IsCounting(f, captured, k)}
<1>1. 0 \in S
  <2>1. IsCounting([s \in SUBSET (1 .. 0) |-> NoCounts], captured, 0)
    BY DEF IsCounting
  <2> QED
    BY <2>1
<1>2. ASSUME NEW k \in Nat, k \in S PROVE k + 1 \in S
  <2>1. PICK f : IsCounting(f, captured, k)
    BY <1>2
  <2> DEFINE g == [s \in SUBSET (1 .. k + 1) |->
                      IF k + 1 \in s THEN CountRow(f[s \ {k + 1}], captured[k + 1]) ELSE f[s]]
  <2>2. ASSUME NEW s \in SUBSET (1 .. k + 1)
        PROVE  g[s] = IF s = {} THEN NoCounts ELSE CountRow(g[s \ {Max(s)}], captured[Max(s)])
    <3>1. CASE k + 1 \in s
      <4>1. s \ {k + 1} \in SUBSET (1 .. k + 1) /\ k + 1 \notin s \ {k + 1}
        OBVIOUS
      <4>2. g[s \ {k + 1}] = f[s \ {k + 1}]
        BY <4>1
      <4>3. Max(s) = k + 1
        BY <3>1, LastIsMax
      <4>4. g[s] = CountRow(f[s \ {k + 1}], captured[k + 1])
        BY <3>1
      <4> HIDE DEF g
      <4> QED
        BY <3>1, <4>2, <4>3, <4>4
    <3>2. CASE k + 1 \notin s
      <4>1. s \in SUBSET (1 .. k) /\ s \ {Max(s)} \in SUBSET (1 .. k + 1)
            /\ k + 1 \notin s \ {Max(s)}
        <5>1. s \in SUBSET (1 .. k)
          BY <3>2
        <5>2. \A m : s \ {m} \in SUBSET (1 .. k + 1) /\ k + 1 \notin s \ {m}
          BY <3>2
        <5> QED
          BY <5>1, <5>2
      <4>2. g[s \ {Max(s)}] = f[s \ {Max(s)}] /\ g[s] = f[s]
        BY <3>2, <4>1
      <4>3. f[s] = IF s = {} THEN NoCounts ELSE CountRow(f[s \ {Max(s)}], captured[Max(s)])
        BY <2>1, <4>1 DEF IsCounting
      <4> HIDE DEF g
      <4> QED
        BY <4>2, <4>3
    <3> QED
      BY <3>1, <3>2
  <2>3. DOMAIN g = SUBSET (1 .. k + 1) /\ g = [s \in SUBSET (1 .. k + 1) |-> g[s]]
    OBVIOUS
  <2> HIDE DEF g
  <2>4. IsCounting(g, captured, k + 1)
    BY <2>2, <2>3 DEF IsCounting
  <2> QED
    BY <2>4
<1>3. Nat \subseteq S
  BY <1>1, <1>2, SetInduction
<1> QED
  BY <1>3

\* The loop over the rows: what it has counted after k of them, for every k.
LEMMA CountingSteps ==
    ASSUME NEW captured, Len(captured) \in Nat, DOMAIN captured = 1 .. Len(captured)
    PROVE  \E counts : /\ counts[0] = NoCounts
                       /\ \A k \in 0 .. Len(captured) - 1 :
                             counts[k + 1] = CountRow(counts[k], captured[k + 1])
                       /\ FoldLeft(CountRow, NoCounts, captured) = counts[Len(captured)]
<1> DEFINE n == Len(captured)
           f == CHOOSE f : IsCounting(f, captured, n)
           counts == [k \in 0 .. n |-> f[1 .. k]]
<1>1. IsCounting(f, captured, n)
  BY CountingExists
<1>2. FoldLeft(CountRow, NoCounts, captured) = f[1 .. n]
  <2>1. FoldLeft(CountRow, NoCounts, captured)
            = (CHOOSE g : g = [s \in SUBSET DOMAIN captured |->
                                  IF s = {} THEN NoCounts
                                  ELSE CountRow(g[s \ {Max(s)}], captured[Max(s)])])[DOMAIN captured]
    BY Zenon DEF FoldLeft, MapThenFoldSet
  <2> QED
    BY <2>1, Zenon DEF IsCounting
<1> HIDE DEF f
<1>3. \A s \in SUBSET (1 .. n) :
          f[s] = IF s = {} THEN NoCounts ELSE CountRow(f[s \ {Max(s)}], captured[Max(s)])
  BY <1>1 DEF IsCounting
<1>4. counts[0] = NoCounts /\ counts[n] = f[1 .. n]
  <2>1. 1 .. 0 = {} /\ {} \in SUBSET (1 .. n)
    OBVIOUS
  <2>2. f[{}] = NoCounts
    BY <1>3, <2>1
  <2>3. counts[0] = f[1 .. 0] /\ counts[n] = f[1 .. n]
    OBVIOUS
  <2> QED
    BY <2>1, <2>2, <2>3
<1>5. ASSUME NEW k \in 0 .. n - 1 PROVE counts[k + 1] = CountRow(counts[k], captured[k + 1])
  <2> DEFINE s == 1 .. k + 1
  <2>1. s \in SUBSET (1 .. n) /\ s # {} /\ k \in Nat /\ k + 1 \in s
    OBVIOUS
  <2>2. Max(s) = k + 1
    BY <2>1, LastIsMax
  <2>3. s \ {k + 1} = 1 .. k
    OBVIOUS
  <2>4. counts[k + 1] = f[s] /\ counts[k] = f[1 .. k]
    OBVIOUS
  <2> HIDE DEF s, counts
  <2> QED
    BY <1>3, <2>1, <2>2, <2>3, <2>4
<1> QED
  BY <1>2, <1>4, <1>5

\* The same of the sum of numbers.
IsSumming(f, values, n) ==
    f = [s \in SUBSET (1 .. n) |-> IF s = {} THEN 0 ELSE f[s \ {Max(s)}] + values[Max(s)]]

\* The function that sums exists, too.
LEMMA SummingExists ==
    ASSUME NEW values, NEW n \in Nat
    PROVE  \E f : IsSumming(f, values, n)
<1> DEFINE S == {k \in Nat : \E f : IsSumming(f, values, k)}
<1>1. 0 \in S
  <2>1. IsSumming([s \in SUBSET (1 .. 0) |-> 0], values, 0)
    BY DEF IsSumming
  <2> QED
    BY <2>1
<1>2. ASSUME NEW k \in Nat, k \in S PROVE k + 1 \in S
  <2>1. PICK f : IsSumming(f, values, k)
    BY <1>2
  <2> DEFINE g == [s \in SUBSET (1 .. k + 1) |->
                      IF k + 1 \in s THEN f[s \ {k + 1}] + values[k + 1] ELSE f[s]]
  <2>2. ASSUME NEW s \in SUBSET (1 .. k + 1)
        PROVE  g[s] = IF s = {} THEN 0 ELSE g[s \ {Max(s)}] + values[Max(s)]
    <3>1. CASE k + 1 \in s
      <4>1. s \ {k + 1} \in SUBSET (1 .. k + 1) /\ k + 1 \notin s \ {k + 1}
        OBVIOUS
      <4>2. g[s \ {k + 1}] = f[s \ {k + 1}]
        BY <4>1
      <4>3. Max(s) = k + 1
        BY <3>1, LastIsMax
      <4>4. g[s] = f[s \ {k + 1}] + values[k + 1]
        BY <3>1
      <4> HIDE DEF g
      <4> QED
        BY <3>1, <4>2, <4>3, <4>4
    <3>2. CASE k + 1 \notin s
      <4>1. s \in SUBSET (1 .. k) /\ s \ {Max(s)} \in SUBSET (1 .. k + 1)
            /\ k + 1 \notin s \ {Max(s)}
        <5>1. s \in SUBSET (1 .. k)
          BY <3>2
        <5>2. \A m : s \ {m} \in SUBSET (1 .. k + 1) /\ k + 1 \notin s \ {m}
          BY <3>2
        <5> QED
          BY <5>1, <5>2
      <4>2. g[s \ {Max(s)}] = f[s \ {Max(s)}] /\ g[s] = f[s]
        BY <3>2, <4>1
      <4>3. f[s] = IF s = {} THEN 0 ELSE f[s \ {Max(s)}] + values[Max(s)]
        BY <2>1, <4>1 DEF IsSumming
      <4> HIDE DEF g
      <4> QED
        BY <4>2, <4>3
    <3> QED
      BY <3>1, <3>2
  <2>3. DOMAIN g = SUBSET (1 .. k + 1) /\ g = [s \in SUBSET (1 .. k + 1) |-> g[s]]
    OBVIOUS
  <2> HIDE DEF g
  <2>4. IsSumming(g, values, k + 1)
    BY <2>2, <2>3 DEF IsSumming
  <2> QED
    BY <2>4
<1>3. Nat \subseteq S
  BY <1>1, <1>2, SetInduction
<1> QED
  BY <1>3

Total(values) == FoldLeft(LAMBDA sum, v : sum + v, 0, values)

LEMMA SummingSteps ==
    ASSUME NEW values, Len(values) \in Nat, DOMAIN values = 1 .. Len(values)
    PROVE  \E sums : /\ sums[0] = 0
                     /\ \A k \in 0 .. Len(values) - 1 : sums[k + 1] = sums[k] + values[k + 1]
                     /\ Total(values) = sums[Len(values)]
<1> DEFINE n == Len(values)
           f == CHOOSE f : IsSumming(f, values, n)
           sums == [k \in 0 .. n |-> f[1 .. k]]
<1>1. IsSumming(f, values, n)
  BY SummingExists
<1>2. Total(values) = f[1 .. n]
  <2>1. Total(values)
            = (CHOOSE g : g = [s \in SUBSET DOMAIN values |->
                                  IF s = {} THEN 0
                                  ELSE g[s \ {Max(s)}] + values[Max(s)]])[DOMAIN values]
    BY Zenon DEF Total, FoldLeft, MapThenFoldSet
  <2> QED
    BY <2>1, Zenon DEF IsSumming
<1> HIDE DEF f
<1>3. \A s \in SUBSET (1 .. n) :
          f[s] = IF s = {} THEN 0 ELSE f[s \ {Max(s)}] + values[Max(s)]
  BY <1>1 DEF IsSumming
<1>4. sums[0] = 0 /\ sums[n] = f[1 .. n]
  <2>1. 1 .. 0 = {} /\ {} \in SUBSET (1 .. n)
    OBVIOUS
  <2>2. f[{}] = 0
    BY <1>3, <2>1
  <2>3. sums[0] = f[1 .. 0] /\ sums[n] = f[1 .. n]
    OBVIOUS
  <2> QED
    BY <2>1, <2>2, <2>3
<1>5. ASSUME NEW k \in 0 .. n - 1 PROVE sums[k + 1] = sums[k] + values[k + 1]
  <2> DEFINE s == 1 .. k + 1
  <2>1. s \in SUBSET (1 .. n) /\ s # {} /\ k \in Nat /\ k + 1 \in s
    OBVIOUS
  <2>2. Max(s) = k + 1
    BY <2>1, LastIsMax
  <2>3. s \ {k + 1} = 1 .. k
    OBVIOUS
  <2>4. sums[k + 1] = f[s] /\ sums[k] = f[1 .. k]
    OBVIOUS
  <2> HIDE DEF s, sums
  <2> QED
    BY <1>3, <2>1, <2>2, <2>3, <2>4
<1> QED
  BY <1>2, <1>4, <1>5

\* A sum lies between as many of the least and as many of the greatest.
LEMMA SumIsBetween ==
    ASSUME NEW values \in Seq(Int), NEW lo \in Int, NEW hi \in Int,
           \A i \in DOMAIN values : values[i] \in lo .. hi
    PROVE  lo * Len(values) <= Total(values) /\ Total(values) <= hi * Len(values)
<1> DEFINE n == Len(values)
<1>1. n \in Nat /\ DOMAIN values = 1 .. n
  OBVIOUS
<1>2. PICK sums : /\ sums[0] = 0
                  /\ \A k \in 0 .. n - 1 : sums[k + 1] = sums[k] + values[k + 1]
                  /\ Total(values) = sums[n]
  BY <1>1, SummingSteps
<1> DEFINE S == {k \in Nat : k <= n => sums[k] \in Int /\ lo * k <= sums[k] /\ sums[k] <= hi * k}
<1>3. 0 \in S
  <2>1. lo * 0 = 0 /\ hi * 0 = 0
    OBVIOUS
  <2> QED
    BY <1>2, <2>1
<1>4. ASSUME NEW k \in Nat, k \in S PROVE k + 1 \in S
  <2> SUFFICES ASSUME k + 1 <= n
               PROVE  /\ sums[k + 1] \in Int
                      /\ lo * (k + 1) <= sums[k + 1] /\ sums[k + 1] <= hi * (k + 1)
    OBVIOUS
  <2>1. sums[k] \in Int /\ lo * k <= sums[k] /\ sums[k] <= hi * k
    BY <1>1, <1>4
  <2>2. sums[k + 1] = sums[k] + values[k + 1] /\ values[k + 1] \in lo .. hi
    <3>1. k \in 0 .. n - 1 /\ k + 1 \in DOMAIN values
      BY <1>1
    <3> QED
      BY <1>2, <3>1
  <2>3. lo * (k + 1) = lo * k + lo /\ hi * (k + 1) = hi * k + hi /\ lo * k \in Int /\ hi * k \in Int
    OBVIOUS
  <2> QED
    BY <2>1, <2>2, <2>3
<1>5. Nat \subseteq S
  BY <1>3, <1>4, SetInduction
<1>6. n \in S
  BY <1>1, <1>5
<1> QED
  BY <1>1, <1>2, <1>6

\* The least and the greatest of the values of a sequence.
LEMMA ExtremesExist ==
    ASSUME NEW values \in Seq(Int), values # <<>>
    PROVE  /\ Min(ToSet(values)) \in Int /\ Max(ToSet(values)) \in Int
           /\ \A i \in DOMAIN values : values[i] \in Min(ToSet(values)) .. Max(ToSet(values))
<1> DEFINE n == Len(values)
           S == {k \in Nat : k + 1 <= n =>
                    \E least, most \in 1 .. k + 1 :
                       \A j \in 1 .. k + 1 :
                          values[least] <= values[j] /\ values[j] <= values[most]}
<1>1. n \in Nat \ {0} /\ DOMAIN values = 1 .. n /\ \A i \in 1 .. n : values[i] \in Int
  OBVIOUS
<1>2. 0 \in S
  BY <1>1
<1>3. ASSUME NEW k \in Nat, k \in S PROVE k + 1 \in S
  <2> SUFFICES ASSUME k + 2 <= n
               PROVE  \E least, most \in 1 .. k + 2 :
                          \A j \in 1 .. k + 2 :
                             values[least] <= values[j] /\ values[j] <= values[most]
    OBVIOUS
  <2>1. PICK least \in 1 .. k + 1, most \in 1 .. k + 1 :
            \A j \in 1 .. k + 1 : values[least] <= values[j] /\ values[j] <= values[most]
    BY <1>1, <1>3
  <2> DEFINE under == IF values[k + 2] < values[least] THEN k + 2 ELSE least
             over == IF values[k + 2] > values[most] THEN k + 2 ELSE most
  <2>2. under \in 1 .. k + 2 /\ over \in 1 .. k + 2
    OBVIOUS
  <2>3. ASSUME NEW j \in 1 .. k + 2
        PROVE  values[under] <= values[j] /\ values[j] <= values[over]
    <3>1. /\ values[j] \in Int /\ values[k + 2] \in Int
          /\ values[least] \in Int /\ values[most] \in Int
      BY <1>1
    <3>2. CASE j = k + 2
      BY <3>1, <3>2
    <3>3. CASE j # k + 2
      <4>1. values[least] <= values[j] /\ values[j] <= values[most]
        BY <2>1, <3>3
      <4>2. values[under] <= values[least]
        BY <3>1
      <4>3. values[most] <= values[over]
        BY <3>1
      <4>4. values[under] \in Int /\ values[over] \in Int
        BY <1>1, <2>2
      <4>5. \A x, y, z \in Int : x <= y /\ y <= z => x <= z
        OBVIOUS
      <4> QED
        BY <3>1, <4>1, <4>2, <4>3, <4>4, <4>5, Zenon
    <3> QED
      BY <3>2, <3>3
  <2> HIDE DEF under, over
  <2> QED
    BY <2>2, <2>3
<1>4. Nat \subseteq S
  BY <1>2, <1>3, SetInduction
<1>5. n - 1 \in S
  <2>1. n - 1 \in Nat
    BY <1>1
  <2> HIDE DEF S, n
  <2> QED
    BY <1>4, <2>1
<1>6. PICK least \in 1 .. n, most \in 1 .. n :
          \A j \in 1 .. n : values[least] <= values[j] /\ values[j] <= values[most]
  BY <1>1, <1>5
<1> HIDE DEF S
<1>7. /\ ToSet(values) = {values[i] : i \in 1 .. n}
      /\ \A x \in ToSet(values) : x \in Int
  BY <1>1 DEF ToSet
<1>8. Min(ToSet(values)) = values[least]
  <2>1. values[least] \in ToSet(values) /\ \A x \in ToSet(values) : values[least] <= x
    BY <1>6, <1>7
  <2>2. ASSUME NEW y \in ToSet(values), \A x \in ToSet(values) : y <= x PROVE y = values[least]
    <3>1. y <= values[least] /\ values[least] <= y /\ y \in Int /\ values[least] \in Int
      BY <1>7, <2>1, <2>2
    <3> QED
      BY <3>1
  <2> QED
    BY <2>1, <2>2 DEF Min
<1>9. Max(ToSet(values)) = values[most]
  <2>1. values[most] \in ToSet(values) /\ \A x \in ToSet(values) : values[most] >= x
    BY <1>1, <1>6, <1>7
  <2>2. ASSUME NEW y \in ToSet(values), \A x \in ToSet(values) : y >= x PROVE y = values[most]
    <3>1. y >= values[most] /\ values[most] >= y /\ y \in Int /\ values[most] \in Int
      BY <1>7, <2>1, <2>2
    <3> QED
      BY <3>1
  <2> QED
    BY <2>1, <2>2 DEF Max
<1> QED
  BY <1>1, <1>6, <1>8, <1>9

(***************************************************************************)
(* What the summary counts                                                 *)
(***************************************************************************)
\* The attempts among the first k that gave a measurement, and those of them with
\* a resistance, of a status, and with a diagnostic.
GoodUpTo(k) == {i \in 1 .. k : Succeeds(start, i)}
ValuedUpTo(k) == {i \in GoodUpTo(k) : ~HasFault(Scripted(start, i).diagnostics)}
StatusUpTo(k, status) == {i \in GoodUpTo(k) : Status(Scripted(start, i)) = status}
CodeUpTo(k, bit) == {i \in GoodUpTo(k) : bit \in Scripted(start, i).diagnostics}

\* The loop has counted the first k attempts.
CountsUpTo(x, k) ==
    /\ x \in [errors : Nat, measurements : Nat, statuses : [Statuses -> Nat],
              codes : [FaultBits -> Nat], resistances : Seq(Nat)]
    /\ x.measurements = Cardinality(GoodUpTo(k))
    /\ \A status \in Statuses : x.statuses[status] = Cardinality(StatusUpTo(k, status))
    /\ \A bit \in FaultBits : x.codes[bit] = Cardinality(CodeUpTo(k, bit))
    /\ Len(x.resistances) = Cardinality(ValuedUpTo(k))
    /\ ToSet(x.resistances) = {Scripted(start, i).resistance : i \in ValuedUpTo(k)}

\* One more attempt belongs to a set of them or does not.
LEMMA OneMore ==
    ASSUME NEW k \in Nat, NEW A \in SUBSET (1 .. k), NEW B
    PROVE  /\ IsFiniteSet(A) /\ Cardinality(A) \in Nat
           /\ B = A \cup {k + 1} => Cardinality(B) = Cardinality(A) + 1
<1>1. IsFiniteSet(1 .. k)
  BY FS_Interval
<1>2. IsFiniteSet(A) /\ Cardinality(A) \in Nat
  BY <1>1, FS_Subset, FS_CardinalityType
<1>3. k + 1 \notin A
  OBVIOUS
<1>4. Cardinality(A \cup {k + 1}) = Cardinality(A) + 1
  BY <1>2, <1>3, FS_AddElement
<1> QED
  BY <1>2, <1>4

\* What a successful attempt has to give is a valid measurement.
LEMMA GoodEntry ==
    ASSUME CaptureInv, NEW i \in Nat \ {0}, Succeeds(start, i)
    PROVE  LET m == Scripted(start, i)
           IN  /\ m \in Measurements
               /\ m.resistance = NoResistance <=> HasFault(m.diagnostics)
               /\ m.resistance # NoResistance => m.resistance \in Nat
<1>1. start + i - 1 \in Nat /\ steps \in Scripts /\ Len(steps) \in Nat \ {0}
  BY ScriptLength DEF CaptureInv, PositionInv
<1>2. DOMAIN steps = 1 .. Len(steps)
  BY <1>1, ScriptsAssumption
<1>3. ((start + i - 1) % Len(steps)) + 1 \in DOMAIN steps
  <2> DEFINE n == start + i - 1
             L == Len(steps)
  <2>1. n \in Nat /\ L \in Nat \ {0} /\ DOMAIN steps = 1 .. L
    BY <1>1, <1>2
  <2> HIDE DEF n, L
  <2>2. n % L \in 0 .. L - 1
    BY <2>1, NextPosition
  <2>3. (n % L) + 1 \in 1 .. L
    BY <2>1, <2>2
  <2> QED
    BY <2>1, <2>3 DEF n, L
<1>4. IsEntry(Scripted(start, i))
  BY <1>1, <1>3, ScriptsAssumption DEF Scripted, Promise!EntryAfter
<1>5. Scripted(start, i) # Failure
  BY DEF Succeeds
<1> DEFINE m == Scripted(start, i)
<1> HIDE DEF m
<1>6. m \in Measurements /\ MeasurementIsValid(m)
  BY <1>4, <1>5 DEF IsEntry, m
<1>7. m.resistance \in Int
  BY <1>6 DEF Measurements
<1> QED
  BY <1>6, <1>7 DEF MeasurementIsValid, NoResistance, m

\* The places of one more attempt.
LEMMA SetsUpToNext ==
    ASSUME NEW k \in Nat
    PROVE  LET good == Succeeds(start, k + 1)
               m == Scripted(start, k + 1)
           IN  /\ GoodUpTo(k) \in SUBSET (1 .. k) /\ ValuedUpTo(k) \in SUBSET (1 .. k)
               /\ \A status : StatusUpTo(k, status) \in SUBSET (1 .. k)
               /\ \A bit : CodeUpTo(k, bit) \in SUBSET (1 .. k)
               /\ GoodUpTo(k + 1) = IF good THEN GoodUpTo(k) \cup {k + 1} ELSE GoodUpTo(k)
               /\ ValuedUpTo(k + 1) = IF good /\ ~HasFault(m.diagnostics)
                                      THEN ValuedUpTo(k) \cup {k + 1} ELSE ValuedUpTo(k)
               /\ \A status : StatusUpTo(k + 1, status)
                                  = IF good /\ Status(m) = status
                                    THEN StatusUpTo(k, status) \cup {k + 1} ELSE StatusUpTo(k, status)
               /\ \A bit : CodeUpTo(k + 1, bit)
                               = IF good /\ bit \in m.diagnostics
                                 THEN CodeUpTo(k, bit) \cup {k + 1} ELSE CodeUpTo(k, bit)
<1>1. 1 .. k + 1 = (1 .. k) \cup {k + 1} /\ k + 1 \notin 1 .. k
  OBVIOUS
<1>2. GoodUpTo(k) \in SUBSET (1 .. k)
  BY DEF GoodUpTo
<1>3. GoodUpTo(k + 1) = IF Succeeds(start, k + 1) THEN GoodUpTo(k) \cup {k + 1} ELSE GoodUpTo(k)
  BY <1>1, Zenon DEF GoodUpTo
<1> QED
  BY <1>1, <1>2, <1>3, Zenon DEF ValuedUpTo, StatusUpTo, CodeUpTo

LEMMA CountsNothing == CountsUpTo(NoCounts, 0)
<1>1. /\ GoodUpTo(0) = {} /\ ValuedUpTo(0) = {}
      /\ \A status : StatusUpTo(0, status) = {}
      /\ \A bit : CodeUpTo(0, bit) = {}
  BY DEF GoodUpTo, ValuedUpTo, StatusUpTo, CodeUpTo
<1>2. Cardinality({}) = 0
  BY FS_EmptySet
<1>3. /\ NoCounts \in [errors : Nat, measurements : Nat, statuses : [Statuses -> Nat],
                       codes : [FaultBits -> Nat], resistances : Seq(Nat)]
      /\ NoCounts.measurements = 0 /\ NoCounts.resistances = <<>>
      /\ \A status \in Statuses : NoCounts.statuses[status] = 0
      /\ \A bit \in FaultBits : NoCounts.codes[bit] = 0
  BY DEF NoCounts
<1>4. ToSet(<<>>) = {} /\ Len(<<>>) = 0
  BY DEF ToSet
<1> HIDE DEF NoCounts
<1> QED
  BY <1>1, <1>2, <1>3, <1>4, Zenon DEF CountsUpTo

\* The body of the loop counts the row of the next attempt as the script has it.
LEMMA CountsOneMore ==
    ASSUME CaptureInv, NEW k \in 0 .. Len(rows) - 1, NEW x, CountsUpTo(x, k)
    PROVE  CountsUpTo(CountRow(x, rows[k + 1]), k + 1)
<1> DEFINE row == rows[k + 1]
           good == Succeeds(start, k + 1)
           m == Scripted(start, k + 1)
           y == CountRow(x, row)
<1>0. k \in Nat /\ k + 1 \in DOMAIN rows
  BY DEF CaptureInv
<1>1. /\ row.outcome = IF good THEN "measurement" ELSE "acquisition_error"
      /\ good => row.measurement = m
  BY <1>0 DEF CaptureInv, RowsAreTheScript
<1>2. /\ x \in [errors : Nat, measurements : Nat, statuses : [Statuses -> Nat],
                codes : [FaultBits -> Nat], resistances : Seq(Nat)]
      /\ x.measurements = Cardinality(GoodUpTo(k))
      /\ \A status \in Statuses : x.statuses[status] = Cardinality(StatusUpTo(k, status))
      /\ \A bit \in FaultBits : x.codes[bit] = Cardinality(CodeUpTo(k, bit))
      /\ Len(x.resistances) = Cardinality(ValuedUpTo(k))
      /\ ToSet(x.resistances) = {Scripted(start, i).resistance : i \in ValuedUpTo(k)}
  BY DEF CountsUpTo
<1>3. CASE ~good
  <2>1. y = [x EXCEPT !.errors = @ + 1]
    BY <1>1, <1>3 DEF CountRow
  <2>2. /\ y \in [errors : Nat, measurements : Nat, statuses : [Statuses -> Nat],
                  codes : [FaultBits -> Nat], resistances : Seq(Nat)]
        /\ y.measurements = x.measurements /\ y.statuses = x.statuses
        /\ y.codes = x.codes /\ y.resistances = x.resistances
    <3>1. x \in [errors : Nat, measurements : Nat, statuses : [Statuses -> Nat],
                 codes : [FaultBits -> Nat], resistances : Seq(Nat)]
      BY <1>2
    <3>2. x.errors + 1 \in Nat
      BY <3>1
    <3>3. y = [x EXCEPT !.errors = x.errors + 1]
      BY <2>1
    <3> HIDE DEF y
    <3> QED
      BY <3>1, <3>2, <3>3
  <2>3. /\ GoodUpTo(k + 1) = GoodUpTo(k) /\ ValuedUpTo(k + 1) = ValuedUpTo(k)
        /\ \A status : StatusUpTo(k + 1, status) = StatusUpTo(k, status)
        /\ \A bit : CodeUpTo(k + 1, bit) = CodeUpTo(k, bit)
    BY <1>0, <1>3, SetsUpToNext
  <2> HIDE DEF y, good, m, row
  <2>4. CountsUpTo(y, k + 1)
    BY <1>2, <2>2, <2>3, Zenon DEF CountsUpTo
  <2> QED
    BY <2>4 DEF y, row
<1>4. CASE good
  <2>1. m \in Measurements /\ (m.resistance = NoResistance <=> HasFault(m.diagnostics))
        /\ (m.resistance # NoResistance => m.resistance \in Nat)
    BY <1>0, <1>4, GoodEntry
  <2>2. y = [x EXCEPT
                !.measurements = @ + 1,
                !.statuses[Status(m)] = @ + 1,
                !.codes = [bit \in FaultBits |-> @[bit] + (IF bit \in m.diagnostics THEN 1 ELSE 0)],
                !.resistances = IF m.resistance = NoResistance THEN @ ELSE Append(@, m.resistance)]
    BY <1>1, <1>4 DEF CountRow
  <2>3. /\ y.errors = x.errors
        /\ y.measurements = x.measurements + 1
        /\ y.statuses = [x.statuses EXCEPT ![Status(m)] = @ + 1]
        /\ y.codes = [bit \in FaultBits |-> x.codes[bit] + (IF bit \in m.diagnostics THEN 1 ELSE 0)]
        /\ y.resistances = IF m.resistance = NoResistance THEN x.resistances
                           ELSE Append(x.resistances, m.resistance)
        /\ y = [errors |-> y.errors, measurements |-> y.measurements, statuses |-> y.statuses,
                codes |-> y.codes, resistances |-> y.resistances]
    BY <1>2, <2>2
  <2>4. Status(m) \in Statuses
    BY DEF Status, Statuses
  <2>5. /\ GoodUpTo(k) \in SUBSET (1 .. k) /\ ValuedUpTo(k) \in SUBSET (1 .. k)
        /\ \A status : StatusUpTo(k, status) \in SUBSET (1 .. k)
        /\ \A bit : CodeUpTo(k, bit) \in SUBSET (1 .. k)
        /\ GoodUpTo(k + 1) = GoodUpTo(k) \cup {k + 1}
        /\ ValuedUpTo(k + 1) = IF ~HasFault(m.diagnostics)
                               THEN ValuedUpTo(k) \cup {k + 1} ELSE ValuedUpTo(k)
        /\ \A status : StatusUpTo(k + 1, status)
                           = IF Status(m) = status
                             THEN StatusUpTo(k, status) \cup {k + 1} ELSE StatusUpTo(k, status)
        /\ \A bit : CodeUpTo(k + 1, bit)
                        = IF bit \in m.diagnostics
                          THEN CodeUpTo(k, bit) \cup {k + 1} ELSE CodeUpTo(k, bit)
    BY <1>0, <1>4, SetsUpToNext
  <2> HIDE <2>2
  <2> HIDE DEF y, good, row
  <2>6. y.measurements = Cardinality(GoodUpTo(k + 1))
    <3>1. Cardinality(GoodUpTo(k + 1)) = Cardinality(GoodUpTo(k)) + 1
      BY <1>0, <2>5, OneMore
    <3> QED
      BY <1>2, <2>3, <3>1
  <2>7. y.statuses \in [Statuses -> Nat]
        /\ \A status \in Statuses : y.statuses[status] = Cardinality(StatusUpTo(k + 1, status))
    <3>1. x.statuses \in [Statuses -> Nat]
      BY <1>2
    <3>2. y.statuses \in [Statuses -> Nat]
      BY <2>3, <2>4, <3>1
    <3>3. ASSUME NEW status \in Statuses
          PROVE  y.statuses[status] = Cardinality(StatusUpTo(k + 1, status))
      <4>1. CASE Status(m) = status
        <5>1. y.statuses[status] = x.statuses[status] + 1
          BY <2>3, <3>1, <4>1
        <5>2. StatusUpTo(k + 1, status) = StatusUpTo(k, status) \cup {k + 1}
          BY <2>5, <4>1
        <5>3. Cardinality(StatusUpTo(k + 1, status)) = Cardinality(StatusUpTo(k, status)) + 1
          BY <1>0, <2>5, <5>2, OneMore
        <5> QED
          BY <1>2, <5>1, <5>3
      <4>2. CASE Status(m) # status
        <5>1. y.statuses[status] = x.statuses[status]
          BY <2>3, <3>1, <4>2
        <5> QED
          BY <1>2, <2>5, <4>2, <5>1
      <4> QED
        BY <4>1, <4>2
    <3> QED
      BY <3>2, <3>3
  <2>8. y.codes \in [FaultBits -> Nat]
        /\ \A bit \in FaultBits : y.codes[bit] = Cardinality(CodeUpTo(k + 1, bit))
    <3>1. x.codes \in [FaultBits -> Nat]
      BY <1>2
    <3>2. y.codes \in [FaultBits -> Nat]
      BY <2>3, <3>1
    <3>3. ASSUME NEW bit \in FaultBits
          PROVE  y.codes[bit] = Cardinality(CodeUpTo(k + 1, bit))
      <4>1. CASE bit \in m.diagnostics
        <5>1. y.codes[bit] = x.codes[bit] + 1
          BY <2>3, <4>1
        <5>2. CodeUpTo(k + 1, bit) = CodeUpTo(k, bit) \cup {k + 1}
          BY <2>5, <4>1
        <5>3. Cardinality(CodeUpTo(k + 1, bit)) = Cardinality(CodeUpTo(k, bit)) + 1
          BY <1>0, <2>5, <5>2, OneMore
        <5> QED
          BY <1>2, <5>1, <5>3
      <4>2. CASE bit \notin m.diagnostics
        <5>1. y.codes[bit] = x.codes[bit]
          BY <2>3, <3>1, <4>2
        <5> QED
          BY <1>2, <2>5, <4>2, <5>1
      <4> QED
        BY <4>1, <4>2
    <3> QED
      BY <3>2, <3>3
  <2>9. /\ y.resistances \in Seq(Nat)
        /\ Len(y.resistances) = Cardinality(ValuedUpTo(k + 1))
        /\ ToSet(y.resistances) = {Scripted(start, i).resistance : i \in ValuedUpTo(k + 1)}
    <3>1. x.resistances \in Seq(Nat)
      BY <1>2
    <3>2. CASE HasFault(m.diagnostics)
      <4>1. y.resistances = x.resistances /\ ValuedUpTo(k + 1) = ValuedUpTo(k)
        BY <2>1, <2>3, <2>5, <3>2
      <4> QED
        BY <1>2, <3>1, <4>1
    <3>3. CASE ~HasFault(m.diagnostics)
      <4>1. /\ y.resistances = Append(x.resistances, m.resistance) /\ m.resistance \in Nat
            /\ ValuedUpTo(k + 1) = ValuedUpTo(k) \cup {k + 1}
        BY <2>1, <2>3, <2>5, <3>3
      <4>2. y.resistances \in Seq(Nat) /\ Len(y.resistances) = Len(x.resistances) + 1
        BY <3>1, <4>1
      <4>3. Cardinality(ValuedUpTo(k + 1)) = Cardinality(ValuedUpTo(k)) + 1
        BY <1>0, <2>5, <4>1, OneMore
      <4>4. ToSet(y.resistances) = ToSet(x.resistances) \cup {m.resistance}
        <5> DEFINE r == x.resistances
                   v == m.resistance
        <5>1. r \in Seq(Nat) /\ v \in Nat /\ y.resistances = Append(r, v)
          BY <3>1, <4>1
        <5> HIDE DEF r, v
        <5>2. /\ DOMAIN r = 1 .. Len(r) /\ DOMAIN Append(r, v) = 1 .. Len(r) + 1 /\ Len(r) \in Nat
              /\ Append(r, v)[Len(r) + 1] = v
              /\ \A i \in 1 .. Len(r) : Append(r, v)[i] = r[i]
          BY <5>1
        <5>3. ToSet(Append(r, v)) = ToSet(r) \cup {v}
          BY <5>2 DEF ToSet
        <5> QED
          BY <5>1, <5>3 DEF r, v
      <4>5. {Scripted(start, i).resistance : i \in ValuedUpTo(k + 1)}
                = {Scripted(start, i).resistance : i \in ValuedUpTo(k)} \cup {m.resistance}
        BY <4>1
      <4> QED
        BY <1>2, <4>2, <4>3, <4>4, <4>5
    <3> QED
      BY <3>2, <3>3
  <2>10. y \in [errors : Nat, measurements : Nat, statuses : [Statuses -> Nat],
                codes : [FaultBits -> Nat], resistances : Seq(Nat)]
    <3>1. y.errors \in Nat /\ y.measurements \in Nat
      BY <1>2, <2>3
    <3> QED
      BY <2>3, <2>7, <2>8, <2>9, <3>1
  <2>11. CountsUpTo(y, k + 1)
    BY <2>6, <2>7, <2>8, <2>9, <2>10, Zenon DEF CountsUpTo
  <2> QED
    BY <2>11 DEF y, row
<1> QED
  BY <1>3, <1>4

\* What the loop has counted after the last row.
LEMMA LoopCounts ==
    ASSUME CaptureInv
    PROVE  CountsUpTo(FoldLeft(CountRow, NoCounts, rows), Len(rows))
<1> DEFINE n == Len(rows)
<1>1. n \in Nat /\ DOMAIN rows = 1 .. n
  BY DEF CaptureInv
<1>2. PICK counts : /\ counts[0] = NoCounts
                    /\ \A k \in 0 .. n - 1 : counts[k + 1] = CountRow(counts[k], rows[k + 1])
                    /\ FoldLeft(CountRow, NoCounts, rows) = counts[n]
  BY <1>1, CountingSteps, Zenon
<1> DEFINE S == {k \in Nat : k <= n => CountsUpTo(counts[k], k)}
<1>3. 0 \in S
  BY <1>2, CountsNothing
<1>4. ASSUME NEW k \in Nat, k \in S PROVE k + 1 \in S
  <2> SUFFICES ASSUME k + 1 <= n PROVE CountsUpTo(counts[k + 1], k + 1)
    OBVIOUS
  <2>1. k \in 0 .. n - 1 /\ CountsUpTo(counts[k], k)
    BY <1>1, <1>4
  <2>2. counts[k + 1] = CountRow(counts[k], rows[k + 1])
    BY <1>2, <2>1
  <2>3. CountsUpTo(CountRow(counts[k], rows[k + 1]), k + 1)
    BY <2>1, CountsOneMore
  <2> QED
    BY <2>2, <2>3
<1>5. Nat \subseteq S
  BY <1>3, <1>4, SetInduction
<1>6. CountsUpTo(counts[n], n)
  BY <1>1, <1>5
<1>7. FoldLeft(CountRow, NoCounts, rows) = counts[n]
  BY <1>2, Zenon
<1> QED
  BY <1>6, <1>7, Zenon

LEMMA SummaryAgrees == CaptureInv => SummaryIsOfTheScript
<1> SUFFICES ASSUME CaptureInv, requested = 0, rows # <<>>
             PROVE  SummaryIsOfTheScript
  BY DEF SummaryIsOfTheScript
<1> DEFINE counts == FoldLeft(CountRow, NoCounts, rows)
           values == counts.resistances
           lo == Min(ToSet(values))
           hi == Max(ToSet(values))
           summary == SummaryOf(rows)
           valued == ValuedUpTo(count)
<1>1. Len(rows) = count /\ count \in Nat
  BY DEF CaptureInv, RowsAreTheScript
<1>2. CountsUpTo(counts, count)
  BY <1>1, LoopCounts, Zenon
<1> HIDE DEF counts
<1>3. /\ summary.capture_count = Len(rows)
      /\ summary.measurement_count = counts.measurements
      /\ summary.operation_error_count = Len(rows) - counts.measurements
      /\ summary.status_counts = counts.statuses
      /\ summary.diagnostic_code_counts = counts.codes
      /\ summary.count = Len(values)
      /\ summary.total = Total(values)
      /\ summary.minimum = IF values = <<>> THEN NoResistance ELSE lo
      /\ summary.maximum = IF values = <<>> THEN NoResistance ELSE hi
      /\ summary.has_deviation = (Len(values) >= 2)
  BY Zenon DEF SummaryOf, Total, counts
<1>4. /\ values \in Seq(Nat)
      /\ counts.measurements = Cardinality(GoodUpTo(count))
      /\ \A status \in Statuses : counts.statuses[status] = Cardinality(StatusUpTo(count, status))
      /\ \A bit \in FaultBits : counts.codes[bit] = Cardinality(CodeUpTo(count, bit))
      /\ Len(values) = Cardinality(valued)
      /\ ToSet(values) = {Scripted(start, i).resistance : i \in valued}
  BY <1>2 DEF CountsUpTo
<1> HIDE DEF summary, values, lo, hi
<1>5. ASSUME valued # {}
      PROVE  /\ summary.minimum * summary.count <= summary.total
             /\ summary.total <= summary.maximum * summary.count
             /\ \A i \in valued : Scripted(start, i).resistance \in summary.minimum .. summary.maximum
  <2>1. values # <<>>
    <3>1. PICK i \in valued : TRUE
      BY <1>5
    <3>2. Scripted(start, i).resistance \in ToSet(values)
      BY <1>4
    <3> QED
      BY <3>2 DEF ToSet
  <2>2. values \in Seq(Int)
    BY <1>4
  <2>3. lo \in Int /\ hi \in Int /\ \A i \in DOMAIN values : values[i] \in lo .. hi
    BY <2>1, <2>2, ExtremesExist DEF lo, hi
  <2>4. lo * Len(values) <= Total(values) /\ Total(values) <= hi * Len(values)
    BY <2>2, <2>3, SumIsBetween
  <2>5. summary.minimum = lo /\ summary.maximum = hi
    BY <1>3, <2>1
  <2>6. ASSUME NEW i \in valued PROVE Scripted(start, i).resistance \in lo .. hi
    <3>1. Scripted(start, i).resistance \in ToSet(values)
      BY <1>4
    <3>2. PICK j \in DOMAIN values : Scripted(start, i).resistance = values[j]
      BY <3>1 DEF ToSet
    <3> QED
      BY <2>3, <3>2
  <2> QED
    BY <1>3, <2>4, <2>5, <2>6
<1>6. /\ GoodUpTo(count) = {i \in 1 .. count : Succeeds(start, i)}
      /\ valued = {i \in GoodUpTo(count) : ~HasFault(Scripted(start, i).diagnostics)}
      /\ \A status : StatusUpTo(count, status)
                         = {i \in GoodUpTo(count) : Status(Scripted(start, i)) = status}
      /\ \A bit : CodeUpTo(count, bit)
                      = {i \in GoodUpTo(count) : bit \in Scripted(start, i).diagnostics}
  BY DEF GoodUpTo, ValuedUpTo, StatusUpTo, CodeUpTo
<1> HIDE DEF valued
<1>7. SummaryIsOfTheScript
          <=> LET good == GoodUpTo(count) IN
              /\ summary.capture_count = count
              /\ summary.measurement_count = Cardinality(good)
              /\ summary.operation_error_count = count - Cardinality(good)
              /\ \A status \in Statuses :
                    summary.status_counts[status] = Cardinality(StatusUpTo(count, status))
              /\ \A bit \in FaultBits :
                    summary.diagnostic_code_counts[bit] = Cardinality(CodeUpTo(count, bit))
              /\ summary.count = Cardinality(valued)
              /\ summary.has_deviation <=> Cardinality(valued) >= 2
              /\ summary.minimum * summary.count <= summary.total \/ valued = {}
              /\ summary.total <= summary.maximum * summary.count \/ valued = {}
              /\ \A i \in valued :
                    Scripted(start, i).resistance \in summary.minimum .. summary.maximum
  BY <1>6, ZenonT(60) DEF SummaryIsOfTheScript, summary
<1>8. /\ summary.capture_count = count
      /\ summary.measurement_count = Cardinality(GoodUpTo(count))
      /\ summary.operation_error_count = count - Cardinality(GoodUpTo(count))
  BY <1>1, <1>3, <1>4
<1>9. /\ \A status \in Statuses :
            summary.status_counts[status] = Cardinality(StatusUpTo(count, status))
      /\ \A bit \in FaultBits :
            summary.diagnostic_code_counts[bit] = Cardinality(CodeUpTo(count, bit))
      /\ summary.count = Cardinality(valued)
      /\ summary.has_deviation <=> Cardinality(valued) >= 2
  BY <1>3, <1>4
<1> QED
  BY <1>5, <1>7, <1>8, <1>9

\* The summary that summarize_rows() makes of a finished capture is that of the
\* script, whatever the script, its repetition, the place in it at which the capture
\* began, and the number of rows: the counts of errors, statuses and codes are those
\* of its attempts, and minimum, mean and maximum are in order.
THEOREM SummaryIsScripted == Spec => []SummaryIsOfTheScript
BY CaptureInit, CaptureNext, SummaryAgrees, PTL DEF Spec

(***************************************************************************)
(* What a measurement is in both languages                                 *)
(***************************************************************************)
\* What the storage of a measurement holds.
StorageInv ==
    /\ diagnostics \in Seq(Diagnostics) /\ Len(diagnostics) <= Capacity
    /\ evidence \in Seq(Evidence) /\ Len(evidence) <= Capacity

LEMMA StorageNext ==
    ASSUME MeasurementAssumption
    PROVE  StorageInv /\ [ContractNext]_contractVars => StorageInv'
<1> SUFFICES ASSUME StorageInv, [ContractNext]_contractVars PROVE StorageInv'
  OBVIOUS
<1>0. Capacity \in Nat
  BY DEF MeasurementAssumption
<1>1. CASE MeasurementReset
  BY <1>0, <1>1 DEF MeasurementReset, StorageInv
<1>2. CASE SetNumbers
  BY <1>2 DEF SetNumbers, StorageInv
<1>3. CASE AppendDiagnostic
  BY <1>0, <1>3 DEF AppendDiagnostic, StorageInv
<1>4. CASE AppendEvidence
  BY <1>0, <1>4 DEF AppendEvidence, StorageInv
<1>5. CASE UNCHANGED contractVars
  BY <1>5 DEF contractVars, StorageInv
<1> QED
  BY <1>1, <1>2, <1>3, <1>4, <1>5 DEF ContractNext

\* The unsigned subtraction does not wrap when it is made, so that the C core finds
\* a range to fit exactly when its end, too, is within the evidence.
LEMMA FitsIsWithin ==
    ASSUME MeasurementAssumption, StorageInv, NEW d \in Diagnostics
    PROVE  EvidenceFits(d)
               <=> d.offset <= Len(evidence) /\ EvidenceOf(d) \subseteq DOMAIN evidence
<1> DEFINE n == Len(evidence)
           offset == d.offset
           length == d.count
<1>1. /\ n \in Nat /\ DOMAIN evidence = 1 .. n /\ n <= SizeMax /\ SizeMax \in Nat
      /\ offset \in 0 .. SizeMax /\ length \in 0 .. SizeMax
  BY DEF MeasurementAssumption, StorageInv
<1>2. /\ EvidenceFits(d)
             <=> offset <= n /\ length <= (n + SizeMax + 1 - offset) % (SizeMax + 1)
      /\ EvidenceOf(d) = offset + 1 .. offset + length
  BY DEF EvidenceFits, EvidenceOf
<1> HIDE DEF n, offset, length
<1>3. ASSUME offset <= n PROVE (n + SizeMax + 1 - offset) % (SizeMax + 1) = n - offset
  <2> DEFINE w == SizeMax + 1
             r == n - offset
  <2>1. w \in Nat \ {0} /\ r \in 0 .. w - 1 /\ n + SizeMax + 1 - offset = w * 1 + r
    BY <1>1, <1>3
  <2> HIDE DEF w, r
  <2>2. (w * 1 + r) % w = r
    BY <2>1, RemainderIsUnique
  <2> QED
    BY <2>1, <2>2 DEF w, r
<1>4. ASSUME offset <= n
      PROVE  offset + 1 .. offset + length \subseteq 1 .. n <=> length <= n - offset
  <2>1. CASE length = 0
    BY <1>1, <1>4, <2>1
  <2>2. CASE length # 0
    <3>1. offset + length \in offset + 1 .. offset + length
      BY <1>1, <2>2
    <3> QED
      BY <1>1, <1>4, <3>1
  <2> QED
    BY <2>1, <2>2
<1> QED
  BY <1>1, <1>2, <1>3, <1>4 DEF n, offset

\* Both languages draw the same conclusions from the same storage.
LEMMA StorageIsJudgedAlike ==
    ASSUME MeasurementAssumption, StorageInv
    PROVE  LanguagesJudgeAlike
<1> USE DEF CodesAreDistinct, NumberIsValid, ResultIsConsistent,
            HoldsFault
<1> DEFINE InTheVocabulary == \A i \in DOMAIN diagnostics : InVocabulary(diagnostics[i])
           NoSeparators == \A n \in EvidenceRead : ~Separates(evidence[n])
<1>0. \A i \in DOMAIN diagnostics : diagnostics[i] \in Diagnostics
  BY DEF StorageInv
<1>1. DescribesDiagnostics <=> \A i \in DOMAIN diagnostics : EvidenceFits(diagnostics[i])
  BY <1>0, FitsIsWithin, Zenon DEF DescribesDiagnostics
<1>2. \A e : NativeEvidenceIsValid(e)
                <=> (CHasContent(e[1]) \/ CHasContent(e[2])) /\ ~Separates(e)
  BY DEF NativeEvidenceIsValid, CHasContent, Separates
<1>3. ASSUME \A i \in DOMAIN diagnostics : EvidenceFits(diagnostics[i])
      PROVE  NoSeparators
                 <=> \A i \in DOMAIN diagnostics :
                        \A n \in EvidenceOf(diagnostics[i]) : ~Separates(evidence[n])
  <2>1. EvidenceRead = UNION {EvidenceOf(diagnostics[i]) : i \in DOMAIN diagnostics}
    BY <1>3 DEF EvidenceRead
  <2> QED
    BY <2>1
<1>4. PythonAccepts /\ InTheVocabulary => CAccepts /\ NoSeparators
  <2> SUFFICES ASSUME PythonAccepts, InTheVocabulary
               PROVE  CAccepts /\ NoSeparators
    OBVIOUS
  <2>1. \A i \in DOMAIN diagnostics : EvidenceFits(diagnostics[i])
    BY <1>1 DEF PythonAccepts
  <2>2. \A i \in DOMAIN diagnostics :
           \A n \in EvidenceOf(diagnostics[i]) :
              /\ CHasContent(evidence[n][1]) \/ CHasContent(evidence[n][2])
              /\ ~Separates(evidence[n])
    BY <1>2, Zenon DEF PythonAccepts
  <2>3. CAccepts
    BY <2>1, <2>2 DEF PythonAccepts, CAccepts, StorageInv
  <2> QED
    BY <1>3, <2>1, <2>2, <2>3, Zenon
<1>5. CAccepts /\ NoSeparators => PythonAccepts /\ InTheVocabulary
  <2> SUFFICES ASSUME CAccepts, NoSeparators
               PROVE  PythonAccepts /\ InTheVocabulary
    OBVIOUS
  <2>1. /\ InTheVocabulary
        /\ \A i \in DOMAIN diagnostics : EvidenceFits(diagnostics[i])
        /\ \A i \in DOMAIN diagnostics :
              \A n \in EvidenceOf(diagnostics[i]) :
                 CHasContent(evidence[n][1]) \/ CHasContent(evidence[n][2])
    BY Zenon DEF CAccepts
  <2>2. \A i \in DOMAIN diagnostics :
           \A n \in EvidenceOf(diagnostics[i]) : NativeEvidenceIsValid(evidence[n])
    BY <1>2, <1>3, <2>1, Zenon
  <2> QED
    BY <1>1, <2>1, <2>2 DEF PythonAccepts, CAccepts
<1>6. PythonAccepts \/ CAccepts => /\ CStatus = PythonStatus
                                   /\ CStatus = "FAULT" <=> resistance = Absent
  <2>1. diagnostics # <<>> <=> Len(diagnostics) > 0
    BY DEF StorageInv
  <2> QED
    BY <2>1 DEF PythonAccepts, CAccepts, CStatus, PythonStatus
<1>7. PythonAccepts /\ InTheVocabulary <=> CAccepts /\ NoSeparators
  BY <1>4, <1>5
<1> QED
  BY <1>6, <1>7 DEF LanguagesJudgeAlike

\* rtd_acquire_measurement_is_valid and the Python constructors accept the same
\* measurements, but for codes and severities outside the vocabulary, which only C
\* tests, and separator characters, which only Python strips; this holds whatever
\* the vocabulary, the capacity of the storage, the range of size_t and the
\* diagnostics, well formed or not, that a caller appends.
THEOREM JudgedAlike ==
    ASSUME MeasurementAssumption
    PROVE  ContractSpec => []LanguagesJudgeAlike
<1>1. ContractInit => StorageInv
  BY DEF MeasurementAssumption, ContractInit, StorageInv
<1>2. StorageInv /\ [ContractNext]_contractVars => StorageInv'
  BY StorageNext
<1>3. StorageInv => LanguagesJudgeAlike
  BY StorageIsJudgedAlike
<1> QED
  BY <1>1, <1>2, <1>3, PTL DEF ContractSpec
=============================================================================
