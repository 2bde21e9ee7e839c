# Quad_Bot_Code_Actuation: TLA+ models and proofs

A verification development for the firmware in
`src/Quadruped_Bot_Actuation_Code`, a Teensy 4.0 program that drives eight
motors through LP3943 drivers behind a PCA9548A I2C multiplexer, watches the
battery through an L9961 monitor on a second I2C bus, reads sixteen rotary
encoders over a multiplexed SPI bus, and switches the battery on to the load.
File names below are those of its `src/` directory unless a path is given.

## The program

Single foreground, one interrupt. `setup()` (main.cpp:64) runs once after
power-up or reset, `loop()` (main.cpp:182) serves console lines for ever. There
is no operating system, no timeout, no persistent state of the controller. What
makes the program hard to test is what lies outside it: chips that keep state
of their own, are written but hardly ever read back, and outlive a restart of
the controller.

| Component | State it keeps | Operations | Talks to |
|---|---|---|---|
| Console (main.cpp) | `inputBuffer`, `inputPos` | assemble a line, dispatch it | motor drivers, by calls |
| Boot (main.cpp `setup`) | none | bring all parts up in order | all parts |
| Motor drivers (MotorDriver_LP3943.cpp) | none; the LP3943s keep registers | init, move, stop, defaultmove, setspeeds, enable, two reads | I2C mux, then I2C |
| I2C multiplexer (I2C_MUX.cpp) | `currentChannel` (-1: none); the chip keeps the real selection | select, disable all | I2C |
| I2C access (I2C_FCT.cpp) | none | write, read with a waiting loop | Wire |
| Battery monitor core (Bms_CoreCommands.cpp) | `bmsConversionActive`; `bmsDataReady`, `bmsDataTimestamp` set by the RDY interrupt; the L9961 keeps registers | conversion on/off, register write and read, validity test | Wire1 |
| Battery commands (BMS_SetupCommands.cpp, BMS_NumericalCommands.cpp, SetUpBMS.cpp) | none | config, identity, NVM, real-time, numerical; the boot sequence of thirty of them | monitor core |
| Battery reads (BMS_ReadCommands.cpp) | `TotalCoulombs`, `TotalSampleCount` | scaled readings, coulomb counter | monitor core |
| SPI chip select (SPI_MUX.cpp) | `MUX_channel`, the latch pins | select and enable, disable | pins |
| Encoders (SPI_NCDR_FCT.cpp) | `offsets[16]` | reset, position, turns | SPI chip select |
| Power (PWR_MNGMT_FCT.cpp) | the three switch pins | precharge, discharge, charge, pack sense | pins, ADC |

What has to hold, part by part:

* *Motor drivers.* A command changes the driver on the channel typed, and no
  other; what it reports afterwards has happened; the two direction inputs of a
  bridge are never on together; after `setup()` every bridge is off.
* *I2C multiplexer.* The cached channel is the connected one, because a cached
  channel is not selected again; never two drivers (one address!) on the bus.
* *Console.* Every command returns to the console; what is dispatched is what
  was typed.
* *Battery commands.* Registers are written only while conversions are off; a
  value never exceeds its register's maximum; no command zeroes an identity
  unless it copies a zero from the NVM, and none puts a zero in an identity's
  place there; fields packed into a register do not run into each other;
  everything `SetUpBMS` asks for is in the chip when it ends, and the chip
  converts when `setup()` ends.
* *Validity.* Data called valid was converted less than a window ago.
* *Encoders.* A position is that of the channel asked for, in 0..4095.
* *Coulomb counter.* Every sample the chip shows gets into the totals once, and
  rounding is all that is lost of the charge.
* *Power.* The discharge path is switched on only after precharge and with the
  pack voltage above its threshold.
* *Boot.* `setup()` ends, and gives the load its power after everything else.

Where this goes wrong, or could, is listed with lines under `hazards` in
PROJECT.json. The difficult behaviours are: lost transactions that nobody
looks at; a cached channel that can be stale; refusals that return nothing to
the caller; restarts of the controller with the chips powered; narrowing of typed
integers; a read that waits for ever; calls of several transactions that stop
half-way; guards on a flag that is only the program's belief.

## The modules

| Module | What it is |
|---|---|
| `MotorDriver` | pure: console line -> driver call -> register writes |
| `Actuators` | abstract specification of the motor side: calls write their registers, in order, on the driver they name |
| `MotorBus` | the motor side as it is: one step per I2C transaction, with multiplexer, cached channel, faults and restarts |
| `SpiEncoders` | chip-select multiplexer and encoders: one step per pin, exchange or wait, with shafts that turn all the time |
| `BmsCodes` | pure: battery command and arguments -> register and sixteen bits |
| `BmsNumerical` | a numerical command with any arguments, and what its codes promise |
| `BmsCommands` | the battery command functions as steps on a chip that outlives the controller |
| `BmsReadings` | conversion cycle, RDY interrupt, validity test and coulomb counter |
| `Power` | the three battery switches and `precharge` |
| `Console` | characters to lines, lines to calls |
| `Firmware` | `setup()` and `loop()`: the five parts composed, with restarts of all of them |
| `MCMotorBus`, `MCSpiEncoders`, `MCBmsCodes`, `MCBmsCommands`, `MCBmsReadings`, `MCFirmware` | instances for TLC |
| `MotorBusProofs`, `MotorBusNominal` | theorems about `MotorBus`: for any lines, and about `setup()`; under `Nominal`, with the refinement |
| `SpiEncodersProofs`, `BmsNumericalProofs`, `BmsCommandsProofs`, `BmsReadingsProofs` | theorems about the module in the name |
| `FirmwareProofs`, `FirmwareParts` | theorems about `Firmware`: console, call served, switches; the parts inside the program, and what they establish together |

`MotorBus` and `Console` EXTEND `MotorDriver`, `BmsCommands` and `BmsNumerical`
EXTEND `BmsCodes`, `MotorBus` INSTANCEs `Actuators`, and `Firmware` INSTANCEs
`MotorBus` (whose lines are all that `Console` can deliver), `Console`,
`SpiEncoders`, `BmsCommands` and `Power`. `BmsReadings`
stands by itself: the shipped program attaches the interrupt and calls nothing
of the rest. Which definition stands for which lines is in `map` of
PROJECT.json.

Definitions whose comment begins with "mutant" are plausible mistakes; no
specification uses them. `mutants` in PROJECT.json names the definition each
would replace and the property that then fails.

### MotorBus and the code

A step is one I2C transaction, or the control flow between two.

| Variable | In the program or on the board |
|---|---|
| `phase` | the program counter: `disable` (main.cpp:126), `select` (in `I2C_SelectChannel`), `access` (the register accesses after it), `spin` (I2C_FCT.cpp:57), `idle` (in `loop()`) |
| `job`, `n` | the driver call being served, and how many of its writes have been issued |
| `currentChannel` | the static of I2C_MUX.cpp:20 |
| `mux` | the channels connected in the PCA9548A |
| `regs` | the six registers of each LP3943 that the program writes |
| `resets` | restarts so far, bounded by `MaxResets` |

`I2C_SelectChannel` has three exits, and an action for each: `SelectInvalid`
(refused, and the caller goes on), `SelectCached`, `SelectNew`. `WriteReg`
issues the next write of the call; `ReadReg` is the blocking read. `NextInit`
and `Return` end a call of `setup()` and of `loop()`. `Dispatch` takes any line
of the constant `Lines`. In `job`, `asked` is the channel as typed, which is what
the echo prints, and `channel` what is left of it in a `uint8_t`.

The hardware is modelled from how the code uses it. A transaction reaches every
driver on a connected channel; a write to 0x70 sets the control byte from its
last byte; an address has seven bits on the wire. With `Lossy`, any transaction
may go unacknowledged and change nothing. A `Restart` re-initialises the statics
and goes through the NRESET pulse of main.cpp:121-124, which clears the
multiplexer; the drivers keep their registers or lose power as well.

### SpiEncoders and the code

| Variable | In the program or on the board |
|---|---|
| `boot` | how many of the sixteen calls of `resetEncoder` in `setup()` have begun |
| `step`, `call`, `again` | where the call is: the three parts of `ACTIVATE_MUX`, the exchange, `DEACTIVATE_MUX`, the 200 ms wait of `resetEncoder`; and whether this is the second exchange of a reset |
| `csPins`, `latch`, `inhibit` | the pins A0 to A3, what STROBE latched of them, the INHIBIT pin |
| `position`, `offsets` | the local variable, and the array of SPI_NCDR_FCT.cpp:18 |
| `shaft`, `rebooting` | the angle of each encoder, and those that do not answer yet |
| `travel`, `seen` | history: how far a shaft has turned since its zero was read, now and at the last exchange |

A channel over 15 is refused by `SPI_CS_MUX`, which nobody looks at: the next two
steps strobe and enable the old channel all the same. An encoder that is not
selected, not fitted or rebooting gives `NoAnswer`. A restart clears the pins
and the offsets, and leaves latch and shafts.

### BmsCommands and the code

| Variable | In the program or in the chip |
|---|---|
| `pos` | how many calls of `Boot` (`SetUpBMS`, then CONVERSION_ON) have been made |
| `phase`, `cmd` | where the command being served is: `off`, about to turn conversions off; `write`, about to write its register |
| `bmsConversionActive` | Bms_CoreCommands.cpp:75 |
| `chip` | the L9961 registers the program writes |
| `nvm` | the chip's NVM: its copies of the configuration and the identities |
| `failed` | how often "Failed to write data to BMS" was printed since the start; the program itself keeps no count |
| `warm` | history: whether the chip was found powered |

`Refuse` is every early return, `Begin` the test of `bmsConversionActive` that
all writing commands share, `TurnOff` the call of
`setBMSConversionState("CONVERSION_OFF")`, `WriteRegister` the write after it,
`setBMSConversionState` a call by itself. After `setup()` the constant
`AppCalls` says which further calls are made. The shipped `loop()` makes none;
the functions are there to be called, and the runs call them. A restart leaves
the chip as it is (`WarmRestarts`) or takes its power too. A write fails at most
`MaxFailed` times from one start to the next. The program reports each failure
and goes on, so what it promises is about the time until the first report.

The two NVM commands are register writes like any other, and more: with
`NVM_2_UL` the chip loads its NVM into its registers (`Loaded`), with `NVM_2_DL`
it commits its registers to the NVM (`Stored`), as BMS_SetupCommands.cpp:105 and
:108 say. Which registers the NVM has copies of (`NvmRegs`) is up to the chip and
assumed here: configuration, identities and limits, not the conversion register
and not the real-time commands. The NVM outlives a loss of power. `SetUpBMS` has
the upload commented out (SetUpBMS.cpp:30, which says that it "should be called
on startup"), so that only `AppCalls` brings either command. The upload copies
what the NVM holds, zeros included: an identity that was set can be zero after
it, and `IdentityNeverZeroed` says that this and a loss of power are the only
ways. In the other direction `StoredIdentityKept` says that a download never
replaces an identity in the NVM by zero: after a loss of power the registers are
zero, but `SetUpBMS` has written all eight identities before any other call, and
each upload restores what the NVM has.

`BmsCodes` computes in integers, microvolts and milliamperes, with exact
quotients; the source uses `float`. The two may differ by a code where a value
lies within float's error of the middle between two codes.
`NumericalPrepared` is what `sendBMSNumericalCommand` computes, `NumericalWrite`
what it sends: nothing, because the sending statements stand after a `return`.

### BmsReadings and the code

Three parties: the chip and the clock (`Tick`, `Rise`, `Sample`), the interrupt
(`onBMSReadyRise`, one step, since nothing interrupts it), and the foreground,
with a step for every access to a shared variable and every transaction.

| Variable | In the program or in the chip |
|---|---|
| `now` | `micros()`, modulo `Wrap` |
| `converting`, `clk` | the chip, and how far its cycle is |
| `age`, `wrapped` | history: time since the last RDY, and whether `micros()` has started over since |
| `rdy` | an edge the interrupt has not served |
| `bmsDataReady`, `bmsDataTimestamp` | the volatiles the interrupt writes |
| `t`, `s`, `begun` | what `isBMSDataValid` has read of the clock and of the timestamp, in either order: the operands of `<` are unsequenced; and when it began |
| `acc`, `cnt`, `held`, `heldCount` | accumulator and count of the chip, and the copies that registers 0x2D and 0x2E show |
| `msb` | the local of `readCoulombCounter` |
| `TotalCoulombs`, `TotalSampleCount` | the globals; coulombs in hundredths |
| `charge`, `samples` | history: everything measured |
| `readings` | history: readings that brought a sample |
| `cleared`, `clearedCount` | history: what resets cleared without showing it |
| `lost` | history: transactions that failed |

`Hundredth` is the number of accumulator steps in a hundredth of a coulomb, and
`Roundf` what `roundf` makes of a quotient: TotalCoulombs is rounded to two
decimals at every reading (BMS_ReadCommands.cpp:122), and the remainder is gone.

`readCoulombCounter` writes 0x2D, "Reset the Coulomb counter"
(BMS_ReadCommands.cpp:102), before it reads. Nothing in the repository says
whether the chip then shows what it had counted or drops it. The order of the
function is of use only in the first case, and the remark "Currently accurate to
0.005A" (BMS_ReadCommands.cpp:133) suggests that it was seen to work. `Reset`
allows both, afresh at each reset, and `cleared` keeps account of what was
dropped. In either case the two registers are taken to stand still between the reset and the
second read; a chip that went on counting in them could be read torn.

`validWindow` is in units of a microsecond in the program; a model's unit is
any.

### Power, Console and Firmware

`Power` is `precharge` step by step (a delay of one unit for each capacitor and
one more, the pack sense, the two outcomes, the final 100 ms), `setDSG` and
`setCHG`, against a load whose capacitors fill while the resistor is switched in
and drain when both paths are open. Nothing in the program measures the load.

In `Console` characters come a word at a time. A word is a verb or a number with
its length; the buffer takes 31 characters, and what does not fit is dropped,
which can leave the beginning of a number, or its sign alone, which is no
number. Numbers may be negative; a call narrows them to a byte. A number that is
stuck to other characters ("5x", which `sscanf` takes for 5 before it stops) is
not told apart from a word. `IsCommand` is what `sscanf` and
`strcmp` accept, `LineOf` the numbers they deliver. The last branch of the chain
is modelled as the compiler sees it, with its `else` inside a comment.

`Firmware` has one foreground: `stage` says how far `setup()` is, from the wait
for the host (main.cpp:111) over motors, encoders, battery monitor and
`precharge(1)` to `loop()`, and a step is one of the part that is on. While a
call is served, what is typed waits in the serial port. `CallEncoders` and
`CallPower` are the calls that stand in the loop as test code. A restart is one
of all parts.

## What is checked

Passing runs:

| Run | States | What it shows |
|---|---|---|
| `motorbus_nominal` | 10,444 | `TypeOK`, `MuxFollowsShadow`, `JobEffect`, `SetupRestoresBoard`, `ServedChannelOnly`, `ImplementsActuators`, `EveryCallReturns` with lines the board can serve, and a restart anywhere |
| `motorbus_faults` | 40,962 | `NeverBothDirections`, `AtMostOneChannel` with any transaction lost, bad channels, bad chips and a restart |
| `encoders` | 265,712 | `TypeOK`, `SelectedIsServed`, `PositionIsTravel`, `OffsetsAccount` with two encoders turning at any time, channels without an encoder, a channel that does not exist and a restart |
| `bms_codes` | 6,776 | `NearestCode`, `FieldsApart`, `HigherAskedHigherSet` for all fourteen numerical commands and 22 arguments for each field |
| `bms` | 522,438 | `TypeOK`, `FlagFollowsChip`, `WritesWhileStopped`, `WithinMax`, `SetupReconfigures`, `IdentityNeverZeroed`, `StoredIdentityKept`, `ConversionStarts` with calls after `setup()`, both copies of the NVM, a failing write in each start and restarts that leave the chip running, stopped or without power |
| `readings` | 4,434,800 | `TypeOK`, `ValidIsYoung`, `YoungIsValid`, `LedgerBalanced` with the interrupt anywhere, conversions switched on and off, rounding, resets that show the counter or drop it, and a failing transaction |
| `firmware` | 400,768 | `TypeOK`, `ServedAsTyped`, `PoweredLast`, `SoftStart`, `SetupCompletes` of the whole program, with lines too long, with a channel too large, a negative speed and the multiplexer's address, and a restart anywhere |

Runs that end in a counterexample, each a disagreement between the code and
what the repository says of it (`findings` in PROJECT.json quotes both):

| Run | What happens |
|---|---|
| `motorbus_invalid_channel` | "move 9 ..." is refused by the multiplexer code and moves motor 7, selected by `setup()` |
| `motorbus_lost_read` | "d" with a lost read never returns |
| `bms_warm_restart` | `SetUpBMS` writes a chip that still converts from before the restart |
| `bms_numerical` | no numerical limit is ever written |
| `console_unknown` | a line that is no command is not answered: the `else` of main.cpp:274 is part of a comment, and "Unknown command." is printed after every "d" instead |

### Bounds

* `Drivers = {0, 7}`: the first channel, and the one `setup()` ends on, which
  tests a to d use. Channel 3, addressed by a line, has none. The channels
  between behave alike: the initialisation visits all eight.
* `Lines`: ten lines covering every verb, both directions and speeds beyond a
  byte, or six with channel 9 and chip 33. A line can follow any other, any
  number of times: there is no bound on their number.
* `MaxResets`: one restart at any point shows each interruption; two, in `bms`,
  show an interrupted recovery.
* `MaxFailed`: one failing write between a start and the next restart, which can
  be any; what is promised, is promised until the first. In `firmware` none
  fails, and the alternative "a failure was reported" of `PoweredLast` does not
  arise there; `bms` is about it.
* `AppCalls`: seven calls, in any order and number: a configuration above its
  maximum and wider than sixteen bits, identities that are zero and not zero in
  sixteen bits, both copies of the NVM, and conversions on and off. The NVM is
  first one that has been programmed but for two of the identities. Real-time and
  numerical commands after `setup()` are left to the proofs, which hold for all
  calls; the numerical ones are refused in any case.
* `PowerOn` registers are those of an LP3943 with zeroed selectors, and zeros in
  the L9961. The proofs hold for every `PowerOn`.
* `encoders`: a turn has four positions and two encoders are fitted, the first
  and the last; `firmware`: two positions and one encoder. The offset can be
  above, at and below the position, and the sum of two angles wraps. The proofs
  hold for every turn up to 4096.
* `readings`: `micros()` starts over after 10 units, a cycle is 4, the window 2,
  the interrupt and a test take up to 1. That is the smallest in which the
  window passes the end of the clock, an RDY falls into a test and data ages past
  any window before the clock starts over. Samples of +202 and -301 need both
  halves of the counter and its sign; with four of their steps to a hundredth of
  a coulomb (the shipped resistor and resolution make it about 250), one rounds up
  or down by a quarter and the other is a tie; two samples and one lost
  transaction show one between any two steps of a reading. The proofs hold for
  every such timing and scale, and for any number of samples and losses.
* `firmware`: three lines (channel 256, chip 112 and speed -172; one of 36
  characters; no command), pack readings 258 and 259, below and at the 10 V
  threshold, one capacitor, which is what `setup()` waits for.

### Fairness

`WF_vars(Foreground)` in `MotorBus` and `BmsCommands`, `WF_vars(Setup)` in
`Firmware`: the processor keeps executing the call, or the part of `setup()`, it
is in. Nothing else is fair: nobody has to open the serial port, type, make an
application call or restart, and a lossy transaction on the motor bus may be lost
every time. `Spin`, the waiting loop, is a step that changes nothing. A restart
can abandon a call but comes only `MaxResets` times, so `EveryCallReturns` and
`ConversionStarts` are about the last start, or about one that is not
interrupted; `SetupCompletes` allows for it in so many words. `SpiEncoders`,
`BmsReadings` and the parts inside `Firmware` state no fairness: their
properties are about what is never the case.

`CHECK_DEADLOCK FALSE` in `bms_warm_restart` and `bms_numerical`: without
application calls the battery side really stops after `setup()`.

## What is proved

For every value of the constants that satisfies the named assumptions, which
are types and, where it is said below, conditions. TLC checked each property of
a run first, in that run.

### MotorBus

* **`TypeCorrect`**: `Spec => []TypeOK`. `TypeOK` is inductive; the work is that
  every console line becomes a call whose arguments are bytes (`CallOfType`) and
  that every call's writes are register writes (`WritesType`).
* **`BridgeNeverShorted`**: `[]NeverBothDirections`, unconditional. Every write
  to LS1 by any call has a value with the two direction inputs not both on
  (`NoCallTurnsBothOn`, a case for each function), so the property is inductive
  with `TypeOK`: each register content is a power-up value or the value of some
  write, whichever driver it reached.
* **`OneChannelAtATime`**: `[]AtMostOneChannel` if no line gives the
  multiplexer's address as the chip's, losses and bad channels included. The
  property alone is not inductive, since a call in progress might address the
  multiplexer; `OneChannelInv` adds that it does not.
* **`ShadowIsTruth`, `OnlyTheAskedDriver`, `EchoIsTrue`,
  `BusImplementsActuators`**: under `Nominal` (nothing lost; lines name a
  channel in 0..7 and the drivers' address). Each part of `Nominal` is needed:
  the run `motorbus_invalid_channel` types channel 9; channel 256 is narrowed to
  0 before it is validated and moves motor 0; chip 112 writes to the multiplexer
  itself; and a lost selection is recorded as made. The inductive
  invariant `NominalInv` has three parts: `MuxFollowsShadow`, `ServableJob` (the
  call in progress can be served, so narrowing changed nothing) and `PhaseInv`
  (in `access` the recorded channel is the call's, before it nothing has been
  written). Together they say that a register write lands on the asked driver
  alone (`WriteLands`), from which the action property, the invariant and the
  refinement follow. The refinement maps `select`, `access`, `disable` and `spin`
  to "busy"; selections become stuttering steps.
* **`SetupStopsEveryDriver`**: `[]SetupRestoresBoard` if nothing is lost, for
  arbitrary lines. The invariant `SetupInv` speaks only of the time during which
  a `motorDriverInit` is being served: drivers passed have been stopped, the
  record is true, and the call is the one for its channel. It is re-established by
  a restart from any state, since the restart resets the record and the
  multiplexer together.

### SpiEncoders

For every resolution up to 4096, set of encoders and calls.

* **`TypeCorrect`**, **`ServedIsSelected`**: `Path` follows a channel number
  from the call to the pins, into the latch and out while INHIBIT is low. A
  restart may leave any channel in the latch; it is passed on to nobody.
* **`OffsetsAccountForTravel`**, **`PositionsAreTravel`**: `OffsetsAccount` says
  something only between calls. `Account` extends it into them: an angle is a
  base plus the travel, where the base is the stored offset or, from the second
  exchange of a reset until it is stored, the position just read. That the
  exchange brings an angle at all needs `Path` and `Reboots` (a reboot is over
  before anything else is read).

### BmsNumerical

For all numbers, integers of any size, and every keyword.

* **`FieldsReadBack`**: `[]FieldsApart`. A code stays within its field
  (the clamp of `Code`), and the shift of the second field is the width of the
  first, row by row of `Numerical`.
* **`NearestCodeIsSent`**: `[]NearestCode`, from what rounding does to a
  quotient: `Rounded` is within half a step.
* **`LimitsAreMonotone`**: `HigherAskedHigherSet`. `Code` grows with its
  argument for each of the scales, clamp included.

### BmsCommands

For all calls with any arguments, any power-up contents, failures and restarts.

* **`TypeCorrect`**, **`MaximaKept`**, **`IdentityKept`**: the tables are taken
  row by row; what is pending (`Pending`) is a call whose write has a register
  and sixteen bits. A maximum is kept because only its own command writes a
  configuration register (`ConfigOneRegister`), and because chip and NVM, which
  only copy from each other otherwise, both started within it. An upload is the
  one write that changes registers other than its own.
* **`StoredIdentitiesKept`**: `StoredIdentityKept`, for any NVM contents. The
  invariant `StoredIsSet` says that, from the end of `setup()` on and while no
  failure has been reported, an identity whose copy in the NVM is not zero is not
  zero in the chip either: the end of `SetUpBMS` establishes it (`AllSet`), and
  identity commands and both copies preserve it. A download, which only a call
  after `setup()` can issue, then commits no zero over an identity (`NoneLost`).
* **`RecordIsTrue`**, **`WrittenWhileStopped`**: `FlagFollowsChip` is inductive
  only with the rule that a command about to write has looked at the record
  (`Looked`), and only while the record can be trusted: no failure reported, and
  `setup()` completed if the chip was found powered. The run `bms_warm_restart`
  shows that the second condition is needed.
* **`SetupSetsAll`**: `[]SetupReconfigures`. `SettingsKept` says of every call
  of `Boot` already made that what it asked for is in its register. It survives
  the calls that follow because the first sixteen write a register each
  (`SettingsApart`) and the fourteen numerical ones after them send nothing
  (`LaterRefused`).
* **`SetupEndsConverting`**: if no application calls follow, `setup()` ends with
  the chip converting or a failure reported (`Started`, then `Converts`). It is
  the safety side of `ConversionStarts`.

### BmsReadings

For every timing that satisfies `TimesAssumption`: the window is positive and
not longer than a cycle, interrupt latency and the length of a test are below the
window, the whole is shorter than a turn of `micros()`.

* **`DataIsYoung`**: `[]ValidIsYoung`. The invariant `YoungInv` distinguishes
  the time before the first RDY (`First`: timestamp 0, and the clock past every
  window from it, which is why `setup()`'s delays matter) from the time after it
  (`Later`): the timestamp is at most `Delay` later than the RDY, and one already
  read into `s` as well, unless it was read before the interrupt noted that RDY.
  In that case the RDY is so recent that any verdict is right. The sum with the
  window may wrap, but only to something smaller.
* **`YoungDataIsValid`**: `[]YoungIsValid`, from `NotEarly`: the timestamp is
  not earlier than the RDY it stands for.
* **`OnlyRoundingIsLost`**: `[]LedgerBalanced`. `LedgerInv` adds that the
  accumulator is bounded by its samples, so that it fits 24 bits, and that the
  half already read is of the value shown now; joining the halves of a two's
  complement gives the number back (`HalvesJoin`). `Roundf` is off by at most half
  a hundredth (`RoundfNear`), and by nothing when nothing is added
  (`RoundfExact`), so that the drift grows only with readings that bring a
  sample. The total can drift without bound: a steady current is rounded the same
  way each time. With a reset that drops the counter the totals stay zero; the
  theorem then says that no charge is invented.
* **`TypeCorrect`**, from the two invariants together.

### Firmware

* **`TypeCorrect`**: what is kept of a word is a word (`PrefixIsWord`), and
  `inputPos` never leaves `inputBuffer`, whatever is typed.
* **`StartsSoftly`**: `SoftStart` if the load is the one capacitor that `setup()`
  waits for and only `precharge` closes the path (`Shipped`). Every step of the
  program is a step of the switches or leaves them alone (`SwitchSteps`); while
  the resistor is in, the delay left is enough for the capacitors not yet full
  (`Filling`).
* **`CallsAreTyped`**: `[]ServedAsTyped`. The invariant `LineInv` says that, of a
  line that fits, the buffer holds the words that have arrived and `inputPos`
  their length, until the line is served and the buffer cleared. A beginning of a
  line is not longer than the line (`LengthsGrow`), so no word of it is cut.
  Lengths are a recursive function over the words. The library's induction
  theorems cannot be used (their parameter is an operator), so
  `FirmwareProofs` proves induction for a set of numbers (`Induction`), from
  their order being well-founded, and with it that the recursive function exists
  (`SumExists`) and what it satisfies (`LengthsSum`).

`FirmwareParts` carries the theorems about the parts over to the program. It
instantiates `MotorBusNominal`, `SpiEncodersProofs` and `BmsCommandsProofs` with
the variables and constants of `Firmware`; the lemmas named `Same...` identify
the operators of these instances with those that `Firmware` uses.

* **`RunsItsParts`**: a behaviour of `Firmware` is one of each of these parts.
  Each action of the program is a step of a part or leaves its variables alone
  (`MotorSteps`, `EncoderSteps`, `BatterySteps`). For the motors this needs that
  what the console serves is a line at all (`LineServed`); for the encoders, that
  `loop()` is reached with all sixteen reset (`StageInv`: what each stage of
  `setup()` has left behind).
* **`PartsKeepTheirPromises`**: the invariants proved above of the motors, the
  encoders and the battery monitor hold in the program, `SetupRestoresBoard`
  again only if nothing is lost.
* **`PowersLast`**: `[]PoweredLast` if nothing is lost on the motor bus, from
  `StageInv` and the promises of the parts. It cannot be inductive in any
  one part: it is `StageInv` that says which part has ended before `dsg` is set,
  and each part's own invariant that says what its end means. With losses it is
  false, since a driver whose stop was lost goes on.
* **`ObeysTheLine`**: from the characters typed to the registers. Under
  `Obedient` (nothing is lost; every line that may be typed fits `inputBuffer`
  and, if it makes a call, names a channel and the drivers' address) a register
  changes in `loop()` only by a write of the line typed last, on its channel
  (`Driven`), and `MuxFollowsShadow` and `JobEffect` hold in the program. A line
  reaches the motors unchanged (`BufferDelivered`), so `Obedient` gives the
  instance of `MotorBusNominal` its `Nominal`; with `CallsAreTyped` the call
  served is that of the line. The conditions are needed as those of `Nominal`
  are, and a line that does not fit is served as what its first 31 characters
  spell.
* **`ProgramImplementsActuators`**: under `Obedient` the program implements
  `Actuators`, whose promise about the bus program is thereby one about the
  whole of it. TLC cannot check this one, since `Accept` ranges there over all
  lines; it checks the refinement in `motorbus_nominal`.

### Only model-checked

The liveness properties `EveryCallReturns`, `ConversionStarts` and
`SetupCompletes`, since fairness is beyond the prover, and the counterexamples.
Every safety property of a passing run is a theorem.

## Not modelled

* Measured values as floats. The functions of BMS_ReadCommands.cpp other than
  the coulomb counter and the identities read one register and scale it, keep no
  state and have no caller. `TotalCoulombs` is rounded as the program rounds it,
  but from an exact quotient: the error of `float` itself, which grows with the
  total, is left out.
* Registers of the coulomb counter that change between its two reads.
* An encoder that is not back 200 ms after its reboot (SPI_NCDR_FCT.cpp:117): the
  code and the model take it to be.
* Typed numbers stuck to other characters, which `sscanf` takes in part.
* The conversion of positions and turns to degrees, for the same reason. Indexing
  `offsets` beyond its sixteen entries is undefined: no call does it.
* First words of more than fifteen characters, which overrun `cmd` in `loop()`:
  the behaviour is undefined.
* Delays as such: only `precharge`, the wait of `resetEncoder` and the
  validity window depend on time.
* What bytes a failed SPI exchange gives beyond one constant, `NoAnswer`; bus
  speeds; the wording of messages.
* The `I2C_*1` functions for the second bus and the register-less `I2C_RD`, which
  have no caller.
* platformio.ini and the pin numbers.
* Parameters with which `validWindow` would be negative and so, unsigned, far too
  large (a measure cycle below ten); the shipped ones give 211,580 microseconds.
* The 32 uses the chip's NVM has, and combinations of its two-halved identities
  set by separate commands: nothing in the program is about them.
