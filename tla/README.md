# rtd-acquire in TLA+

`rtd-acquire` reads the resistance of an RTD (a platinum sensor) through a
MAX31865 converter on an SPI bus. The same acquisition is implemented twice, in
Python (`src/rtd_acquire`) and in portable C (`c/`), with a Linux and an Arduino
AVR transport, an SPI emulator and a simulated device for tests, and helpers
that record validations on hardware (`validation/`). This directory holds the
models of that code, the instances TLC checks, and the proofs TLAPS checks.
Paths are relative to the root of the repository.

## 1. The system

| Component | State it keeps | Operations | What makes it correct |
|---|---|---|---|
| Python driver, `src/rtd_acquire/max31865/driver.py` | none between reads; registers and an exception during one | `read()` | fresh registers for every read, bias off afterwards, nothing delivered that is not of this read |
| C driver, `c/src/max31865.c` | the caller's measurement storage | `rtd_acquire_max31865_read()` and the pure helpers | does what the Python driver does; storage that changes last and stays coherent |
| C timing, `timing_delays` in `max31865.c` | two `uint32_t` waits | compute, or refuse | exact waits or a refusal, never a wrapped one |
| Emulator, `max31865/emulator.py` | last config byte, latched faults, conversion flag, thresholds, log | `transfer()` | refuses what the device would not do, means what the drivers rely on |
| Configuration and thresholds, `max31865/config.py`, `_thresholds.py` | immutable | validation, encoding | codes within one of the exact ones, never farther out; C never wider than Python |
| Decoding, `max31865/_decode.py` | immutable | decode | a fault withholds the resistance, no fault goes unreported |
| Measurement contract, `core/measurement.py`, `core/diagnostics.py`, `c/src/core.c` | immutable (Python), caller-owned (C) | construct; reset, assemble, validate | both languages judge a measurement alike |
| Acquisition contract, `core/device.py`, `core/errors.py` | - | `read()` returns a measurement or raises | what applications may rely on |
| SPI contract, `transports/spi.py`, `spi.h`, `delay.h` | settings | `transfer` | transactions with the promised settings, between open and close |
| Linux transport, `transports/linux_spidev.py` | `_closed`, the backend; the node's settings | open, `transfer`, `close`, `with` | the node is configured in full and released on every path |
| Arduino AVR adapter, `c/platform/arduino_avr` | context, bus, chip select | init, transfer, delay, end | whole waits; a device is selected for its own bytes only; effective clock reported |
| Simulated device, `simulation/device.py` | index, read count | `read`, `reset` | deterministic replay |
| Capture helper, `validation/capture_max31865.py` | three files per label | capture rows, summarize, check, write, clean up | a label is complete, free, or recognisably partial; rows and summary say what was read |
| Record initializer, `validation/create_record.py` | a directory with two files | create | all or nothing; tells which commit was checked out |

How they interact. A driver calls `transfer` of an injected SPI device and an
injected sleep (delay HAL in C), one after the other, and nothing else; both are
callbacks that may fail. What survives from one read to the next is only the
converter's registers, in C also the caller's measurement. The capture helper
looks whether its record was initialized, opens the Linux transport in a `with`
statement, reads through the Python driver, and after closing writes three
files. Several executions of the helpers share nothing but the file system.

The hard parts are therefore not threads (`core/device.py` asks callers to
serialize) but failure and order: a transfer that raises may have been executed;
the cleanup may fail as well; an interrupt passes every `except Exception`; the
registers, the device node or the caller's storage were left by somebody else;
the sensor changes between the fault cycle and the conversion; a close fails and
is called again; the arithmetic of waits can wrap and that of thresholds
rounds; files are checked once and written later. `PROJECT.json` lists these
hazards at their lines, with the properties that cover them.

## 2. The modules

| Module | Models |
|---|---|
| `MAX31865Config` | config validation, static bits, threshold registers in exact arithmetic (operators) |
| `MAX31865Decode` | registers to diagnostics and resistance (operators) |
| `MAX31865Device` | the converter's registers and what each transaction does to them |
| `AcquisitionDevice` | abstract: a read delivers or fails |
| `MAX31865Driver` | the Python `read()`, composed with the device; implements `AcquisitionDevice` |
| `MAX31865CDriver` | the C `read()`, composed with the same device and a caller's storage; implements `MAX31865Driver` |
| `RegisterBus` | abstract: any client on a bus with the registers of `MAX31865Device` |
| `MAX31865Emulator` | the emulator byte by byte; implements `RegisterBus` |
| `MAX31865Timing` | the C driver's unsigned waits and the AVR delay split |
| `ThresholdEncoding` | the threshold codes in the floating-point arithmetic of both languages |
| `ReadArguments` | the two together: the numbers of a read before its first transfer |
| `MeasurementContract` | what each language accepts as a measurement, over storage a caller assembles |
| `SpiConnection` | abstract: transactions with the promised settings |
| `LinuxSpidevDevice` | the life of `LinuxSpidevDevice` objects on a node; implements `SpiConnection` |
| `ArduinoAvrSpi` | contexts, bus and chip-select pins of the AVR adapter |
| `ReplayedScript` | abstract: the n-th read gives the n-th entry |
| `SimulatedDevice` | the simulated device's index and counter; implements `ReplayedScript` |
| `CaptureRows` | the capture loop over a simulated device, and the summary of its rows |
| `ValidationCapture` | executions of the capture helper over the files of one label |
| `ValidationRecord` | executions of `create_record`, the repository, and the captures that look at the record |
| `*_proofs` | theorems and proofs: of one module each, of the two adapters and the emulator (`SpiAdapters_proofs`), of captured measurements and of the contract about them (`Measurements_proofs`) |
| `MC*` | instances for TLC |

Operators named as slips (`CloseMarkedFirst`, `ReadEnvironmentUnparsed`, ...) are
plausible mistakes in the definition after them. No specification uses them;
each shows, in its place, that a property notices the mistake.

### MAX31865Device, RegisterBus and MAX31865Emulator

The state of the device is a record `dev` with the emulator's attributes:
`config` is `_last_config_write` as a set of bits, `latched`
`_latched_fault_status`, `ready` `_conversion_ready`, `high`/`low` the threshold
registers. The emulator has one RTD code and one fault condition for its whole
life; here both come from `sensor`, which the environment may change between any
two steps, and are sampled when the conversion and the fault cycle are started.
`settling` adds what the emulator leaves out: the waits that the last
configuration writes made necessary. A wait of the driver removes one of them;
the model does not count microseconds (that is `MAX31865Timing`). As in the
emulator, a rejected configuration byte has nevertheless been stored.
`InitialDevices` are the register contents a power-up or any earlier read,
finished or aborted, of any of the driver objects can have left behind.

That this is the emulator the tests use is not taken for granted:
`MAX31865Emulator` translates `emulator.py` with its bytes, masks, validation
and log, under a client that sends what it likes, and `ImplementsRegisterBus`
shows by a refinement mapping (bytes to sets of bits) that it does what the
operators of `MAX31865Device` do, refusals included.

### MAX31865Driver and MAX31865CDriver

`pc` names the statement that comes next; each statement of `read()` with an
effect is an action. `Transfer` has two outcomes: it succeeds when the device
accepts the transaction, or it raises (returns an error) after the device has,
or has not, executed it. A sleep either elapses or fails. The Python exception
in flight is `failure`, the statement that raised it; C has `code`. The Python
driver can also be interrupted between any two statements (`Interrupt`), which
no handler catches; it leaves the read at once. `cleanup` is the best-effort
bias-off, `raise`/`return` the way out. `Begin` picks any configuration, so that
reads of different driver objects alternate on one device. `seen`, what the
sensor presented since the read began, is a history variable for the contract.

The C model adds the argument checks in their order, the capacity check before
the storage is touched, reset, fill, and validation of the result, over storage
that survives from call to call. `ImplementsPythonDriver` maps it to
`MAX31865Driver`: a call refused for its arguments is no read, and one refused
for its storage is a read that is abandoned when only decoding is left. So
everything that is shown of the Python driver's transactions holds of C.

### MAX31865Timing, ThresholdEncoding and ReadArguments

`MAX31865Timing` carries one time constant through `timing_delays` and the two
settle waits. All intermediate results wrap at `UintMax + 1`, as `uint32_t`
does. `AvrDelay` is the split into whole milliseconds and a rest that is passed
as an `unsigned int` of the AVR.

`ThresholdEncoding` computes the threshold codes as the code does: the quotient
of threshold and reference is rounded to the significand of the type (nearest,
ties to even), then multiplied by 2^15, which is exact, then rounded up or down;
Python with `ceil` and `floor` in binary64, C with a truncating cast and a
correction in binary32. The widths of the significands and of the converter are
constants. `ReadArguments` puts the two in the order of the C function: a call
that refuses the thresholds computes no waits.

### MeasurementContract

A caller assembles a measurement in the C core's storage in any order, well
formed or not; at every moment `CAccepts` is `rtd_acquire_measurement_is_valid`,
with its unsigned subtraction, and `PythonAccepts` what the constructors of
`NativeEvidence`, `Diagnostic` and `Measurement` would say of the same content.
They test less than C: neither `Diagnostic` nor `Measurement` looks at whether a
code or a severity is one of the enumeration, so the model does not either.

### SpiConnection and LinuxSpidevDevice

Each connection lives from its constructor to the moment its user forgets it:
settings, open, the six attributes one by one, the close after a failed open,
the driver's own check, transfers, and `close()` as often as the user likes.
Every call of the backend may raise, having had its effect or not; construction
may be interrupted. The close after a failed open may raise as well; the object
then counts as closed with its node open or not, and the history variable
`unclosed` remembers it. `node` keeps the settings of its last user, which is
why a connection that leaves out an attribute is noticed. Connections to a node
follow one another. `onwire` is a history variable: with which settings the
transactions of a connection were executed.

### ArduinoAvrSpi

A sketch is one thread, so that an operation is a sequence of steps nothing
interleaves with, except the devices, who see every level of every pin. A HAL
object goes on referring to a context that was ended. `begun` counts
`SPI.begin()` less `SPI.end()`.

### SimulatedDevice and CaptureRows

The device's `index` and `read_count` are those of the code; an entry is a
measurement or a failure. `CaptureRows` runs the loop of
`capture_measurements()` over it, one attempt at a time, with single reads and
resets of other users in between, and `summarize_rows()` as a fold over the
rows. Whether a deviation is reported is modelled, its value is not.

### ValidationCapture

Each execution has a `pc`, the output it is at, its rows, its SPI connection and
its outcome. `disk` says who wrote each of the three outputs last, how much of
it is there, and who has it open, so that opening (truncating), writing and
unlinking are separate steps, as they are for the file system. A write that
fails or is interrupted leaves the file empty, in part, or whole; an interrupt
in the constructor or the close of the device may leave it open (`Abandoned`).
The outcome `stranded` says that a cleanup could not remove, or did not come to
remove, what had been written. `Concurrent` says whether executions overlap. Contents are
abstracted to empty, partial and whole, with the author.

### ValidationRecord

Creators make the directory, copy the template, ask git twice, and write
`environment.json`; on an exception they remove the directory entry by entry,
which may fail half way, and after an interrupt they do not: the file that was
being written stays as it is, empty, in part or whole. The repository has a
commit and a worktree that differs from it or not, and anybody may commit and
edit at any moment. A capture looks for the two files and then parses one.

## 3. The runs

| Run | Question | Expectation |
|---|---|---|
| `PythonDriver` | Is the Python read safe, does it implement the contract, does it end, and does the bias recover? | pass |
| `CDriver` | Does C do only what Python does, and keep its promises about the storage? | pass |
| `CaptureSequential` | Are outputs complete, free or known to be partial when executions follow one another? | pass |
| `CaptureRace` | Is a completed label kept when captures overlap? | violation |
| `CaptureInterrupted` | Can a label always be retried? | violation |
| `ReadArguments` | Are waits exact or refused, and thresholds within one code on the safe side of C? | pass |
| `SpidevLife` | Do transactions have the right settings, and is the node released, whatever fails? | pass |
| `RecordCreation` | Are records whole or absent, and accepted only when initialized? | pass |
| `RecordedCommit` | Does the record of a clean worktree name the commit that is checked out? | violation |
| `Measurements` | Are captured rows and their summary what the script says, and do the two languages judge a measurement alike? | pass |
| `ContractsDiffer` | Do the two languages accept the same measurements? | violation |
| `SpiBus` | Is the emulator the device of the driver models; is a device of the AVR adapter selected for its own bytes only, and the bus begun whenever it is used? | pass |

`Measurements` and `SpiBus` each hold two systems that are not connected, a
behaviour being one of either with the other at rest: `MCMeasurements` steps
either `CaptureRows` or `MeasurementContract`, `MCSpiBus` either
`MAX31865Emulator` or `ArduinoAvrSpi`.

The properties, by hazard:

- *Bias*: `ReadLeavesBiasOff` lists the only three ways for a read to be over
  with the bias on (interrupt, a bias-off write that did not reach the device, a
  failure before the bias was touched); `BiasRecovers` says, of both drivers,
  that reading again repairs each of them once disturbances stop.
- *Registers of somebody else*: `DriverOwnedRegisters`, `ProtocolIsAccepted`.
- *Stale or torn results*: `FlagMatchesStatus` (flag and status come from two
  transactions; the device of the model agrees with itself, so that this is
  about the order and the state in which the driver reads them), and
  `ImplementsAcquisitionDevice`, through which a delivered measurement is one
  that the sensor presented during this very read, with the faults of a cycle of
  this read, delivered with the bias off.
- *Order*: `NothingIsPremature`. *Errors of errors*: `OriginalErrorSurvives`.
  *Never returning*: `ReadTerminates`.
- *Nine error branches in C*: `ImplementsPythonDriver`.
- *C storage*: `StorageContract` (a successful call leaves a valid measurement
  with nothing of an earlier use, and six entries always suffice),
  `StorageIsModifiedLast` (the comment in `max31865.h`).
- *Waits*: `WaitsAreExact`, `OnlyUnrepresentableIsRefused`.
- *Thresholds*: `WithinOneCode`, `CWindowIsInside`.
- *Two languages, one contract*: `LanguagesJudgeAlike` names the only two things
  that divide them; `LanguagesAcceptAlike`, that nothing does, is false.
- *The device node*: `DriverTransactionsAreCompatible` (including that the two
  drivers accept the same settings), `ClosedIsReleased`, `FailedOpenReleases`
  (the node stays open only when the backend's own close raised as well, or the
  constructor was interrupted), `InsistingReleases`, `ImplementsSpiConnection`.
- *The AVR bus*: `SelectedToTransfer`, `BoundBusIsBegun`, `ReportedClockIsReal`.
- *Replay*: `RowsAreTheScript`, `SummaryIsOfTheScript`.
- *The tests' device*: `ImplementsRegisterBus`.
- *Capture*: `ManifestCommitsCapture`, `WrittenIsKept`, `NothingIsStranded`,
  `OutputsHoldEveryRow`, `DeviceIsReleased`, `ExecutionsEnd`. A write can also
  fail when its file is closed, with every byte in place. The cleanup removes
  the manifest last, so one that is cut short then can leave a whole manifest
  without the outputs it describes; `ManifestCommitsCapture` names this as its
  one exception.
- *Record*: `CreatedIsKept`, `NothingIsStranded`, and `AcceptedIsInitialized`:
  a record that an interrupt left half made is not taken for an initialized one.
  The rmtree of a failed creation takes the entries in any order, the template
  first if it likes; while that goes on, or where it was cut short, a capture may
  still find `environment.json` whole, which the property names as its exception.
  `CleanCommitIsTheSource` is false.

The four violations are disagreements between the documentation and the code:

1. `CaptureInterrupted`. `validation/README.md` (48-50) promises that partial
   outputs are removed and the label can be retried. The cleanup is
   `except Exception`: a KeyboardInterrupt in or between the writes (in TLC's
   shortest trace, in the first) leaves outputs that refuse every retry.
2. `CaptureRace`. The same lines, and `learn/advanced/hardware-validation.md`
   (128-130), promise that completed labels are never overwritten. The outputs
   are looked for before three later truncating writes: of two captures that
   overlap, one overwrites or unlinks what the other has reported as written.
3. `RecordedCommit`. `validation/README.md` (7-10): in a clean checkout "the
   recorded commit identifies the exact source under test". The commit and the
   worktree status come from two calls of git (`create_record.py:81-82`); when
   somebody commits in between, a clean record names the commit before.
4. `ContractsDiffer`. `docs/DESIGN.md` (737-741): the C validation "enforces the
   same core invariants as Python". Python accepts a code or a severity outside
   the enumerations (in TLC's trace a severity, which makes it a warning), and C
   does not; evidence made of
   U+001C to U+001F only is blank for `str.strip()` and content for C. The
   second is one of the invariants that the document lists by name.

Two smaller disagreements are the limits that passing properties state:

- *Thresholds round outward* (`_thresholds.py:24-26`: quantization cannot make
  the native threshold lower than the request). The quotient is rounded first,
  so a threshold a fraction of an ulp above a code gets that code: with a
  reference of 430.1, 0.11813049316406252 ohm is encoded as 9 where the exact
  quotient lies just above 9. `WithinOneCode` is what is true: one code, inward.
- *Python and C encode alike* (`docs/DESIGN.md:784-786`). For 430.1 and
  0.11813049763441086 ohm, values that binary32 has to round, C gives 9 and
  Python 10. `CWindowIsInside` says how far they can differ, and to which side,
  for values that both represent.

### Bounds

- *Drivers*: two configurations that differ in every register the driver owns
  (`MCConfigs`): two driver objects are what it takes for one to inherit the
  registers of another. Python sensors: healthy, warning only, and fault, the
  three classes the decoder distinguishes, with two codes. C sensors: none and
  all six bits, with capacities 5 and 6, on either side of what six diagnostics
  need. The number of reads, failures, interrupts and sensor changes is not
  bounded.
- *Capture*: three executions (a capture, a retry, a late one) of two rows, two
  of one row for the violations.
- *ReadArguments*: 16-bit durations (`UintMax = 65535`), every time constant,
  and an AVR integer of 10 bits, just wide enough for a rest below 1000: both
  sides of the overflow test occur. A 4-bit converter, significands of 5 bits
  (C) and 7 (Python), every reference from 27 to 76 and every threshold up to 80
  that 5 bits represent: quotients of every rounding, ties and carries into the
  next power of two, and codes on both sides of the largest. Every time constant
  comes with one request and every request with one time constant; the only link
  between the two is that a refused request computes no waits.
- *SpidevLife*: two connections, the least for one to inherit a node, and five
  requests: both modes the converter takes, a longer word, everything
  different, and an invalid one. Calls and failures are not bounded.
- *RecordCreation*, *RecordedCommit*: two creators, one capture, one further commit: two creators
  are what a race needs, and one commit between two calls of git suffices.
- *Measurements*: five scripts with every kind of entry at both ends and within,
  `MaxCount = 5`, more than the longest script, so that captures run over its
  end. To judge (*ContractsDiffer*, too): two diagnostics, with one code and one
  severity outside the enumerations, two items of evidence, `SIZE_MAX` = 7 so
  that a range can wrap.
- *SpiBus*: logs of up to three transactions (`MaxLog`) of 24 requests: a fault
  cycle or conversion, its clearing or a refusal, and a read. Two contexts, three
  references to the bus, transfers of up to two bytes, a CPU clock of 1000 that
  not every divider divides.

`CHECK_DEADLOCK FALSE` is used where a program ends: the helpers' executions,
the connections, and the single acquisition of `ReadArguments`.

### Fairness

`FairSpec` of a driver is weak fairness of `ReadStep`: a statement that can be
executed is executed. It stands for transfers and sleeps that return or raise,
which the blocking SPI and delay contracts require (`spi.h`, `delay.h`); it
does not say that they succeed. Nothing makes the caller begin a read:
`BiasRecovers` takes infinitely many reads, and an end of the disturbances, as
hypotheses. In the capture helper each started execution keeps executing. In
`LinuxSpidevDevice` the only assumption concerns a user who has decided to call
`close()` until it returns: one of those calls is eventually not refused by the
backend. `InsistingReleases` is then a statement about `_closed`: were it set
before the backend closes, the retries would do nothing. Nothing else is fair;
the record initializer has no liveness property.

## 4. The proofs

| Module | Theorem | Property |
|---|---|---|
| `MAX31865Driver_proofs` | `TypeCorrect` | `TypeOK` |
| | `OwnedRegisters` | `DriverOwnedRegisters` |
| | `ProtocolAccepted` | `ProtocolIsAccepted` |
| | `FlagAgreesWithStatus` | `FlagMatchesStatus` |
| | `BiasOff` | `ReadLeavesBiasOff` |
| | `ErrorSurvives` | `OriginalErrorSurvives` |
| | `NothingPremature` | `NothingIsPremature` |
| | `Implements` | `ImplementsAcquisitionDevice` |
| `MAX31865CDriver_proofs` | `TypeCorrect` | `TypeOK` |
| | `StorageIsKept` | `StorageContract` |
| | `ModifiedLast` | `StorageIsModifiedLast` |
| | `Implements` | `ImplementsPythonDriver` |
| `ReadArguments_proofs` | `ExactWaits` | `WaitsAreExact` |
| | `ExactRefusal` | `OnlyUnrepresentableIsRefused` |
| | `ThresholdsAreClose` | `WithinOneCode` |
| | `CWindowInside` | `CWindowIsInside` |
| `Measurements_proofs` | `IndexIsBehindCount` | `IndexFollowsCount` |
| | `Replays` | `ReplaysScript` |
| | `RowsAreScripted` | `RowsAreTheScript` |
| | `SummaryIsScripted` | `SummaryIsOfTheScript` |
| | `JudgedAlike` | `LanguagesJudgeAlike` |
| `SpiAdapters_proofs` | `TransactionsAreCompatible` | `DriverTransactionsAreCompatible` |
| | `ClosedReleases` | `ClosedIsReleased` |
| | `FailedOpenCloses` | `FailedOpenReleases` |
| | `Implementation` | `ImplementsSpiConnection` |
| | `OnlyTransfersSelect` | `SelectedToTransfer` |
| | `BoundIsBegun` | `BoundBusIsBegun` |
| | `ClockIsReal` | `ReportedClockIsReal` |
| | `EmulatorImplements` | `ImplementsRegisterBus` |
| `ValidationCapture_proofs` | `DeviceReleased` | `DeviceIsReleased` |
| | `EveryRowIsHeld` | `OutputsHoldEveryRow` |
| | `ManifestCommits` | `ManifestCommitsCapture`, unless `Concurrent` |
| | `WrittenKept` | `WrittenIsKept`, unless `Concurrent` |
| | `NothingStranded` | `NothingIsStranded`, unless `Concurrent` |
| `ValidationRecord_proofs` | `CreatedKept` | `CreatedIsKept` |
| | `NothingStranded` | `NothingIsStranded` |
| | `AcceptedInitialized` | `AcceptedIsInitialized` |

With these, every invariant, every action property and every refinement that a
passing run checks is a theorem; what is left to TLC is liveness. The
assumptions are those on the constants that the modules declare (`ASSUME`, which
TLC evaluates on every run), and one choice of a constant that a theorem states
itself: `~Concurrent`, without which the properties are false (the run
*CaptureRace*).

`MAX31865Device_proofs` holds the lemmas about the device, the configuration and
the decoder that both drivers' proofs cite.

*Python driver*, for all configurations that pass validation
(`ConfigsAssumption`) and all sensors with codes in `0 .. 32767` and the six
fault bits (`SensorsAssumption`). None of the properties is inductive by itself.
`IInv` adds, for every value of `pc`, what the device must hold at that point
(`ControlInv`: thresholds, configuration byte, which waits remain, whether a
conversion is waiting, that flag and status agree) and that no operation bit is
ever stored without the bias (`ByteInv`). `HistoryInv` relates the latched
faults, the converted code and the captured registers to `seen`, and is what the
refinement needs: `Implements` shows that each step of `read()` is a `Begin`,
`SensorChanges`, `SwitchBias`, `Deliver` or `Fail` of `AcquisitionDevice`, or a
stutter. The action properties follow from `IInv` in the state before the step.

*C driver*, for any capacities as well. `LocalsInv` says what the local
variables can be at each `pc` (an error code is that of the step that failed),
`BiasInv` that the bias of the device is off when only decoding is left; with
them `Implements` maps
every step to one of the Python driver or a stutter, action by action, and
`StorageIsKept` uses that six bits have at most six members.

*Arguments of a read.* The waits, for integers of every width that hold the
constant 1000. The key lemmas are `RefusedExact`, that the division-based
overflow test means exactly that the sum does not fit, and `WaitsFit`, that none
of the products and sums of an accepted constant wraps. The thresholds, for
significands of any length with the shorter one in C, any width of the
converter's codes below that, and any references and thresholds:
`ThresholdAssumption` asks that `MaxExponent` is large enough for every quotient
to have a scale, which TLC's instance meets. `Scaled` is a CHOOSE of that
exponent; the lemmas show that there is exactly one, that rounding a quotient
to nearest keeps the side of every multiple of the divisor (`Nearest`), and so
that no code lies between the exact quotient and the rounded one, except the
very next. Python's rounding is finer than C's, hence `CWindowInside`.

*Simulated device, capture and summary*, for every set of scripts. `PositionInv`
says that the index is the counter's position in the script; its preservation is
the arithmetic of `NextPosition`, that counting on by one moves to the next
remainder or to zero. `CaptureInv` adds that while a capture runs the device is
as many entries further as there are rows, or at the end of its script. The
summary is a fold over the rows. `SummaryIsScripted` follows from the state of
that fold after `k` rows, an invariant of a computation instead of a
specification.

*Measurement contract*, for any vocabulary, capacity, `SIZE_MAX` and whatever
diagnostics and evidence a caller appends. Both languages' tests are
taken apart into the same parts; the point is `FitsIsWithin`: C's
unsigned subtraction cannot wrap when it is made, so that the C test of a range
of evidence is that the range is within the array, whatever its end would
overflow to.

*Linux adapter*, for any number of objects. `IInv` says which attributes of the
node already hold the promised settings while one object configures it, that a
usable object's node holds all of them because no other object is alive, and
that a usable object is `closed` only with the handle gone. `Implementation` maps every step
to one of `SpiConnection` or a stutter.

*AVR adapter*, for any number of contexts. A pin that is about to be driven has
its deasserted level already; the bound contexts are finitely many and no more
than the references to the bus (a cardinality that each `Bind` and `End` changes
by at most one, while a `Bind` of a bound context takes a reference too); larger
dividers make no faster clock.

*Emulator*, for all codes, fault statuses and requests. The refinement maps
bytes to sets of bits. `ConfigBits` and `FaultBytes` say that this loses nothing:
a fault status is the sum of its bits, in whatever order they are summed
(`ByteIsWeight`). The rest is one lemma per kind of request.

*Capture helper*, for any number of executions. What an execution knows of
itself (`LocalInv`) suffices for the device. The outputs need their authors: the
author of an output is past its capture (`AuthorsInv`), and then, when executions
follow one another, `LabelInv`: while one is writing the label has no other
author, what it has written before its current file is whole and what comes
after is absent, and what is left behind by an execution that is over was
written, interrupted or stranded.

*Record initializer*, for any number of creators and captures, overlapping as
they like: `mkdir` succeeds for one, so whoever is inside the directory is its
author (`Progress`), and the directory belongs to a creator that is at work in
it, has completed it, or was interrupted or kept from removing it (`AuthorInv`).
An interrupted one has left `environment.json` whole only with `record.md` whole,
which is what makes the capture's check of `environment.json` enough.

Two of these arguments are inductions over data: the fold of the summary and the
sum of a fault status. The induction theorems of the library take an operator as
parameter, which the provers cannot instantiate. The proofs use its set-based
form: the set of counterexamples has an element of least measure
(`NatLessThanWellFounded`, `WFMin`), which the step of the recursion refutes.
What a fold computes is unfolded from its definition in the community modules to
the recursive function it chooses, whose existence is proved as well.

Only model-checked: liveness (`ReadTerminates`, `BiasRecovers` for both drivers,
`ExecutionsEnd`, `InsistingReleases`), because fairness and ENABLED are outside
what the prover handles.

## 5. Not modelled

- The binary rounding of decoded resistances; they are counted in 1/32768 ohm.
- Lengths of waits in the Python driver (floats passed to `sleep`).
- Unserialized callers: `core/device.py` excludes them and promises nothing.
- Texts of messages and of evidence, the value of the standard deviation, JSON
  layout and hashes, argument parsing.
- Mode and bit-order constants handed to Arduino, NULL arguments of the AVR
  adapter.
- Conformance and compatibility data, examples, packaging and CI: they have no
  behaviour of their own.

## 6. What is left

All components with state are modelled, and their safety and refinement is
proved. What could still be added:

1. The parts of the liveness arguments that are not temporal: that each
   statement of `read()` which waits for nothing can be executed, and that a
   measure decreases with each, so that only the fairness itself is left to TLC.
2. The binary rounding of decoded resistances, for which `ThresholdEncoding` and
   the lemmas about its quotients are the pattern.
