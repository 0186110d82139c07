# Verification of the ESP32-C3 bootloader

TLA+ models of the custom second-stage bootloader in `src/`, model-checked with
TLC and proved with TLAPS. The reference for every definition is the code;
`PROJECT.json` maps each definition to the lines it models.

## 1. Inventory

| Component | Code | State | Operations |
|---|---|---|---|
| Update mode | `update_mode.c` | `line`, `errors`, chunk header, `s_update_chunk`, `s_erased_sector`, the flash | setup, START_UPDATE, frame header, payload, CRC, erase loop, write, END_UPDATE |
| Image check | `main.c` `run_app_crc_check`, `compute_flash_crc32` | none (reads the flash) | descriptor, bounds, CRC |
| Boot flow | `main.c` `call_start_cpu0`, `fatal_reset_loop` | program counter, `selected_mode`, RTC registers, `cycles` | init, partition table, decision, check, publish context, load, fatal reset |
| Recovery console | `main.c` `enter_recovery_loop`, `handle_recovery_command`, `erase_factory_partition` | `line`, `line_index`, `discarding_oversized_line` | reboot, update, erase, boot, status, help |
| Mode selector | `main.c` `run_mode_selector` | `hold_ms`, `press_ms`, `mode_idx` | arm, short press, long press |
| Application | `app_test/main.c` | RTC registers (read and cleared) | `read_boot_context`, heartbeat, fault hook restart |
| Update sender | `scripts/send_update.py` | serial handle, `offset`, position in `main()` | handshake, chunk loop, END_UPDATE, wait for the verdict |
| Flash driver | ESP-IDF, external | cells | erase a sector, write, read |
| Negative-case sender | `scripts/send_update_negative.py` | serial handle, position in a case | four cases that break the protocol on purpose and judge the answer |
| Partition image builder | `scripts/append_crc.py` | the image file | build from a binary, rebuild in place, `--bad-crc` |
| Serial watcher | `scripts/watch_serial.py` | port, `last_line`, the log file | capture, STALL lines, reconnect |
| Boot log validator | `scripts/validate_bootlog.py` | none (reads a log) | ordered search, recovery check, CRC-fail check |
| Others | `validate_evidence_contract.py`, `ws2812.c`, `logging.c` | see section 8 | |

How they interact. `call_start_cpu0` calls the selector, then the image check
or update mode, and falls into the recovery console whenever one of them fails.
The console calls update mode, the eraser and the image check in turn. Update
mode and the host talk over the USB serial line: the host writes lines and
binary payloads, the device answers with `BL_EVT:` lines. The bootloader leaves
the boot context in two RTC registers for the application. Everything shares
the application partition of the flash.

On the bench, `append_crc.py` makes the partition image that `esptool` writes
and `run_app_crc_check` later reads; `watch_serial.py` captures the tokens the
boot prints and `validate_bootlog.py` judges the captured file. The script of
negative cases takes the place of the sender on the serial line, before or
after it.

Behaviours that are hard: a host that is started at any moment, sends anything,
stops half way or drips bytes; flash operations that fail half way and are
retried in a session that erases each sector only once; power losses between
any two steps; a static bitmap that outlives its session; state of an earlier
boot in registers that outlive a reset; a USB port that vanishes on a reset
while the host waits; a single bouncing button; a verdict given on a file of
log lines, some lost and some quoted; a test tool whose pass may mean something
else than it says. `PROJECT.json` lists them as
hazards at their lines.

What makes each part correct:

- update mode: acknowledged data stays and reads back; nothing outside the
  partition changes; no input leaves a buffer; a silent host does not hold it;
- image check and boot flow: nothing but a checked image runs, and it is told
  the truth about how it was booted; a device left alone settles;
- console: a line is executed as a whole and once, or not at all;
- selector: what it executes is what it showed, after deliberate presses only;
- sender: it reports success only for an installed image, and it returns;
- negative cases: a refused frame never reaches the flash, and a case that
  passes has shown what it claims;
- image builder: what it builds boots, what it builds with `--bad-crc` does not,
  after any number of runs on its own output;
- watcher and validator: the verdict on a log is the truth about the boots it
  shows, with STALL lines and a late capture.

## 2. Modules

| Module | Models | Extends |
|---|---|---|
| `NorFlash` | the flash driver | |
| `AppImage` | partition, descriptor, image check | `NorFlash` |
| `UpdateMode` | `handle_update_mode` | `AppImage` |
| `UpdateSession` | abstract: what a session promises its caller | `AppImage` |
| `UpdateModeTiming` | update mode with a clock and a host that falls silent | `UpdateMode` |
| `Boot` | `call_start_cpu0`, console commands, application start, resets | `UpdateSession` |
| `BootGate` | abstract: what the boot chain promises the product | `AppImage` |
| `BootLive` | the boot flow when it is left alone | `Boot` |
| `ModeSelector` | `run_mode_selector` | |
| `RecoveryConsole` | the lines of `enter_recovery_loop` and `handle_recovery_command` | |
| `UpdateTransfer` | `send_update.py` composed with the booting device and its update mode over a line | `UpdateMode` |
| `NegativeSender` | `send_update_negative.py` on the same line | `UpdateTransfer` |
| `PartitionImage` | `append_crc.py` | `AppImage` |
| `BootLog` | `validate_bootlog.py` | |
| `Bringup` | image, boot, capture and verdict together | `PartitionImage`, `BootLog` |
| `FlashProofs`, `UpdateModeProofs`, `UpdateModeTimingProofs`, `BootProofs`, `RecoveryConsoleProofs`, `ModeSelectorProofs`, `UpdateTransferProofs`, `BringupProofs` | lemmas and theorems | |
| `MC*` | constants for TLC | |

Two refinements tie the levels together. `UpdateMode` implements
`UpdateSession` (`KeepsPromise`; `active` is "the function is running"). `Boot`
uses `UpdateSession` where the code calls `handle_update_mode`, so what is shown
of `Boot` holds with the real session in its place; and `Boot` implements
`BootGate` (`KeepsGatePromise`).

### Flash and image

A cell stands for the unit the driver writes; its value is the *set of bits
programmed since the last erase*. An erased cell is `{}`, a write adds bits, so
writing twice without an erase leaves the mixture that AND-ing two bytes leaves.
An erase clears a sector. `Word` gives the number a cell holds and `Crc32`,
`Crc16` are parameters: nothing is assumed of them, so the theorems hold for the
real CRCs and for any other function. The descriptor takes the partition's last
two cells. `CrcCheckOutcomes` says that a read error, at any point, turns a
check into a failed one and never into a passed one; the two overflow guards of
`run_app_crc_check` refuse partitions `PartitionsAssumption` excludes (a
partition table entry lies inside the flash).

### Update mode

| State | Code |
|---|---|
| `phase` | where `handle_update_mode` is: `start` (START_UPDATE), `header`, `payload`, `erase`, `write`, `verify`; `idle` when it does not run |
| `line`, `waited` | `line[0..index)`, `waited_ms` |
| `chunk`, `payload`, `sector` | `chunk_len`, `chunk_offset`, `chunk_crc16`; `s_update_chunk`; loop variable |
| `errors`, `erased` | `errors`, `s_erased_sector` |
| `result`, `out` | value returned, events the last step printed |
| `tried`, `acked` | history: what this session's frames wrote, and what was acknowledged |

The function runs on one core and never yields: an action is what happens
between two polls of the UART (`LineIdle`, `LineByte`, `StartLine`, `EndLine`,
`BadHeader`, `HeaderLine`, `PayloadIdle`, `PayloadByte`) or two calls of the
driver (`SkipErased`, `EraseSector`, `EraseFails`, `WriteChunk`, `WriteFails`,
`Verify`). Failing driver calls leave any subset of their cells changed. The
host is the environment: any symbol may arrive at any poll. The text of a
header, `START_UPDATE` or `END_UPDATE` is one symbol and a line's capacity
counts symbols, so "the line is too long" and "the line is not a header" happen
as they do in the code, without the digits. Unlike a line, whose timeout starts
again with each byte, a payload has one timeout for all its bytes.

Three overflow guards of the code (lines 343, 367 and the one on `UINT32_MAX`
in the erase loop) can never hold after the setup check; the model leaves
them out.

### Boot

`pc` says what the boot does next; `ctx` is the pair of RTC registers; `from`
says why the recovery loop was entered, which decides what follows it (a
recovery chosen in the selector is followed by the normal check, any other by
the handoff); `route` and `observed` are history. `WatchdogReset` and
`PowerLoss` may come between any two steps, in the middle of an update or an
erase included; the registers survive the first and hold anything after the
second. The selector is any of its three modes; status, help and unknown
commands change nothing and are left out.

### Recovery console

What the commands do to the device is in `Boot`; `RecoveryConsole` shows which
bytes become a command. An action is what the inner loop does with one byte.
`line` is the part of the buffer below `line_index`; the byte at a line's end
stores the `'\0'` behind it, so `TypeOK` asks for a free place. A host may send
`'\0'` too: the line is then handled up to it, as the C string functions do.
`received` and `answers` are history, one answer for each byte, and
`AnswersEachLineOnce` compares them without the buffer. The poll delay and the
LED between two bytes are left out.

### Mode selector

One action per sample of the button. Times count delays of 10 ms, at the real
thresholds. The ring is three parallel arrays in the code, `s_mode_ring`,
`s_mode_ring_names` and `s_mode_ring_colors`, and three sequences here:
`Display` is what the operator sees of an index, and `Meaning`, written beside
the properties, is how it is read, so that arrays in different orders violate
`ExecutesWhatItShows`. `run` and `released` are history; `stuck` says that the
button is never let go again.

### Update transfer

`send_update.py` and the device with a queue of bytes in one direction and of
lines in the other. `dev` is where the device is: it boots (`boot`), in any
mode, checks its image (`check`), runs an update session (`update`, which is
`UpdateMode`), hands off, or is in the recovery console, the application, which
may restart (the fault hook), or the fatal loop, which resets it. What the boot
decides without looking at the line is nondeterministic, how its check ends is
not. `hpc` is the wait `main()` is in. `handle` tells the port `main()` holds
from the one `wait_for_token` opened for itself. The script may be started at
any moment and again after it gave up, with another image; starting it may or
may not lose the lines printed before. Disturbances are lost and damaged bytes,
lost lines, flash failures, pauses past the device's timeout, and resets from
outside in any state; that a failed boot or the application resets the device
is no disturbance and may happen for ever. The instance has a second partition,
no multiple of a sector, with which update mode returns at once
(`SelectUpdateRefused`). The recovery console takes the host's bytes for
unknown commands; that a payload might spell a console command is not modelled,
nor is a second update session started from the console.

### Negative cases

`NegativeSender` adds the four cases of `send_update_negative.py` to
`UpdateTransfer`, as a second script on the same line: either may be started,
one after the other, with the same disturbances. `case` is `--case` of the last
start. A frame with a wrong CRC, an offset behind the partition, a payload that
stops half way behind a closed port, and an image with one flipped bit are what
they are in the script. As in `send_update.py` a wait has one deadline for all
the lines it skips, so `CaseWaitEnds`, like `HostTimesOut`, may come while lines
are still arriving.

### Bring-up

`PartitionImage` is `append_crc.py` on cells: `Build` takes a binary or, when
the input has the size of the partition, an image to rebuild in place.
`BootLog` is `validate_bootlog.py` on tokens: `Carries` is `token in line`, so
`HANDOFF_APP` carries `HANDOFF` and a STALL line carries the token it quotes.
`Bringup` puts a device between them: `Builds` and `Flashes` are the bench,
`Boots` is `call_start_cpu0` reduced to its tokens and to whether its image
passes the check, `port` is the watcher's. A line printed while the port is
closed is lost, and `lost` remembers it: the properties about verdicts are about
complete logs, except `LateCapturePasses`. `Printed`, in `StallsChangeNothing`, is
the log without its STALL lines; the lines keep their numbers, of which the
search uses only the order.

## 3. Runs

| Run | Bounds | Shows |
|---|---|---|
| `update_flash` | partition of 2 sectors of 2 cells between neighbours, chunks of 1-2 cells, 2 errors, every misfit of header, 3 partition tables | `AckedKept`, `NoOldBits`, `AckedReadsBack`, `Confined`, types |
| `update_timing` | `Align` = 2, frames for a whole image of 4 cells, short and misplaced ones, `Timeout` = 2, 2 errors, lines of up to 3 symbols, a host that falls silent | refinement of `UpdateSession`, `BuffersInBounds`, `OnlyForGoodFrames`, `PayloadWaitBounded`, `SilenceEndsSession` |
| `boot` | 6 cells, a partition with neighbours, one too small, none; 2 fatal cycles; the device left alone from some moment on | `OnlyCheckedImagesRun`, `ContextIsTrue`, refinement of `BootGate`, types, `Settles`, `GoodImageBoots` |
| `selector` | the real thresholds: 6, 6, 25 and 70 delays | name, colour and mode agree after any presses, and four more properties of the selector |
| `console` | buffer of 3 bytes, 7 bytes received, 6 byte values, 5 commands | `AnswersEachLineOnce`, the buffer's bound |
| `transfer` | 2 images of 4 cells, chunks of 3, 2 starts of the script, 1 disturbance, any number of failing boots and restarts; a partition update mode refuses | `SuccessMeansInstalled`, `SuccessMeansBootable`, `HostReturns`, types |
| `transfer_race` | 1 image, 1 start, no disturbance | the handshake is not race-safe (finding) |
| `transfer_reconnect` | 1 image, 1 start, 1 disturbance | a reset in a wait ends the script (finding) |
| `negative` | 1 image, 2 starts of either script, 1 disturbance, any number of failing boots and restarts | `RefusedChangeNothing`, `CrcCaseMeansInvalid`, `SuccessMeansInstalled`, types |
| `corrupt_chunk` | 1 image, 1 start, no disturbance | `corrupt_chunk` passes without its frame (finding) |
| `bringup` | partition of 4 cells, 7 binaries and old images, 3 resets, commands or chunks, 1 STALL line | `BuiltImageIsTrue`, `VerdictMeansPath`, `GoodBootPasses`, `StallsChangeNothing`, `LateCapturePasses`, types |
| `bringup_flag` | the same without STALL lines | `--allow-recovery-handoff` does not allow one (finding) |

Why the bounds are enough. Two sectors of two cells are the smallest partition
in which a chunk can lie inside a sector, straddle two, or end on a boundary,
and in which a frame can be repeated, overlap another and come out of order; a
neighbour on either side shows a write or an erase that leaves the partition.
One value more than one bit per cell lets an unerased write leave a third value
that neither frame carried. Two errors in a row separate a refused frame from
the end of the session. The theorems of section 5 hold for every bound.

For the console a buffer of 3 is the smallest with a line that fits only just;
7 bytes are an oversized line, its tail, and a line after it.

In `transfer` the check sums of the small instance have one and two bits, so
that some damage passes them, as it passes the real ones. With two disturbances
TLC shows the expected: two errors that cancel in both check sums give a
success with the wrong image. `MaxFaults = 1` therefore stands for the
assumption that no combination of errors defeats the CRC-16 of its frame and the
CRC-32 of the image at once.

In `negative` two starts are a case and a script before or after it, whose
answers may still be on the line. The image's first cell has the bit that
`invalid_final_crc` flips unprogrammed, as the first byte of an ESP image has.

In `bringup` three events are enough for a boot into recovery, a status and a
boot from there; for two resets with different modes; and for a session whose
prompt was missed. A reset falls between the groups of lines one action prints.
The inputs are an empty binary, binaries that leave room or end erased, one that
is too long, images whose descriptor is erased or states nothing, and an erased
partition.

`CHECK_DEADLOCK FALSE` is said of `selector` (the selector returns), `boot`
(a device at rest takes no step), the `transfer` and negative runs (script and
device may both be at their end), the bring-up runs (an application that
runs, with all events used up) and `console` (the loop is left by boot, update
and reboot, and the host stops after `MaxReceived` bytes).

## 4. Fairness and liveness (model-checked only)

- `UpdateModeTiming`: weak fairness of the polling loop and of the work between
  two polls. The code is one loop on one core without interrupts that could
  take it over; it does execute. Nothing is assumed of the host.
- `ModeSelector`: weak fairness of the sampling loop, nothing of the operator.
- `BootLive`: the device is left alone from some moment on (no resets, no
  commands, working hardware); weak fairness of what the CPU does by itself.
  That an update session without a host returns is `SilenceEndsSession`.
- `UpdateTransfer`: weak fairness of `WaitOver`, that is, time passes for the
  script: a wait has a deadline that skipped lines do not move
  (`send_update.py:76`, `:119`), so it ends with the line it waits for or
  with the deadline. Nothing is assumed of the device. The loop of the handshake
  (`send_update.py:268-291`) is the exception: every `BL_EVT` line ends its
  wait and starts another, with a new deadline. `HostReturns` therefore says that
  the script returns unless it stays in that loop for ever *and* the device
  boots for ever, going round through the selector's tokens, the reset of the
  fatal loop or a restart of the application. An operator who cycles the selector
  does that, and so does, with nobody near, a device whose `bootloader_init` or
  partition table fails (`main.c:615`, `:631`), whose image passes the check and
  is refused by the loader (`main.c:702`), or whose application restarts
  (`app_test/main.c:103`). Resets from outside are disturbances and so finitely
  many; without end they would do the same.
- `NegativeSender` and `Bringup` have none, their properties are safety.

## 5. Theorems

The theorems of the eight `*Proofs` modules hold for every sector size, alignment, partition
table, flash content, CRC function, header set, threshold and limit that meet
the named assumptions:

- `SectorSizeAssumption`, `AlignAssumption`: a sector is a multiple of the
  write alignment;
- `PartitionsAssumption`: a partition starts on a sector boundary and lies in
  the flash (what the partition tool and the ESP-IDF loader enforce);
- `LimitsAssumption`: the timeouts and error limits are positive and a line has
  room for a symbol and its end; `HeadersAssumption`: header fields are naturals;
- `FatalCyclesAssumption`, `GarbageAssumption` for the boot flow;
- `ConsoleAssumption`: the buffer has a byte, `'\0'` ends no line;
- `TimingAssumption`: the selector's thresholds are positive and ordered;
- `TransferAssumption`, `ChunkHeaders`: an image has cells, and the header of
  each of its chunks is one that can be sent; `NegativeAssumption`,
  `CaseHeaders`, `CrcInRange`: the same of the frames of the negative cases,
  whose wrong CRC is a number of as many bits as the right one;
- `WordAssumption`: a cell can hold every number of a word; `BringupAssumption`:
  one application partition. `BenchBuildsTrueImages` and `BringupTypes` also
  assume `BenchFits`: `partitions.csv` states the size of that partition, its
  cells can be counted in a word, and a CRC-32 is a word.

**Update mode** (`Spec => []Inv`). `TypeOK` and the four content properties are
not inductive. `Inv` adds:

- `CheckedSoFar`: what each phase may rely on. A chunk in hand has passed
  `ChunkFits`, a whole frame has the announced length and CRC, a session
  runs only if the setup check passed;
- `ErasedSoFar`: the erase loop has marked every sector it has passed, and
  all sectors of the chunk are marked when the write comes;
- `AckedErased`: every acknowledged cell lies in a marked sector.

The last two carry the argument: `EraseSector` works on unmarked sectors only,
acknowledged cells are in marked ones, so no erase reaches them (`AckedKept`);
a write comes when all its sectors are marked, so it lands on cells that hold
nothing but this session's bits (`NoOldBits`); both together bound a cell from
below and above, and a cell written with one value reads it
(`AckedReadsBack`). The arithmetic, that a chunk inside the partition touches
sectors inside the partition and that sectors do not overlap, is in
`FlashProofs` (`WholeSectors`, `SectorInside`, `DivUnique`). `BuffersInBounds`,
`Confined` and `OnlyForGoodFrames` follow from `CheckedSoFar`, and
`KeepsPromise` maps every step to a step of `UpdateSession` or a stutter.

**Boot flow.** `OnlyCheckedImagesRun` is inductive as it stands: every way to
`publish` passes the check, and no step from there to the next reset writes to
the flash. `ContextIsTrue` needs its history: between the handoff and the
application the registers hold what `selected` says, and `selected` is `UPDATE`
on the route of a selected update only. `BootKeepsGate` uses both and
`Confined`-like facts about the eraser.

**Recovery console.** `Inv` adds `Pending` to the two properties: outside of a
discarded line the buffer is what was received since the last line end; inside
of one it is empty and at least `Cap` bytes were. With it the answer to the next
byte is the one `Permitted` demands (`LastAnswer`), and the answers to the
bytes before it do not change.

**Timing.** `UpdateModeTiming` implements `UpdateMode` (`TimingImplementsSession`),
so that all theorems about the session hold with the clock beside it. In a
payload wait the clock equals the code's own `waited_ms` (`ClockIsWaited`),
because a byte changes neither; `PayloadWaitBounded` follows from the type of
`waited`.

**Mode selector.** `SelectorInv` adds three facts to the properties: what is
shown is where the ring stands (`RingIsShown`), the interaction loop has seen
the button up (`LoopAfterRelease`), and `press_ms` is one less than the run of
low samples (`PressIsMeasured`). The last makes the length of a press, which the
properties speak of, the counter the code compares.

**Update transfer.** `Wire` is what every step of line, device and scripts
keeps: the invariant of the session, types of what is on the line, and the
bounds; `TransferTypes` and `NegativeTypes` follow. Without any limit on the
disturbances, or on what the CRCs tell apart, a success means an image the
device takes (`SuccessBootable`, also among negative cases): `DevTrue` ties the
device's state to its last check, `Announced` says that the application's first
line comes from the application, and `Ended` that after a reported success
nothing from the host is in the device or on its way (`Cleared`), whether the
application runs or the device boots again, in whatever mode, so that the image
stays what it is.

That the image is the operator's needs more, and is shown twice. The invariant
`Honest` adds that headers on the line and in the device are those of chunks of
the image (`HeadersTrue`), that an acknowledgement on its way speaks of cells
that were acknowledged (`LinesTrue`), and that what the script has counted as
sent was acknowledged (`HostTrue`). `SuccessInstalledIfGenuine` assumes that no
frame is taken whose payload is not the part of the image its header names; then
nothing else was ever written (`TriedTrue`). `SuccessInstalled` assumes instead
that no byte to the device is lost or damaged, and proves the same for every CRC
function: `Stream` says that behind every header, on the line and in the device,
comes its chunk. Both speak of one image: with several, frames of an earlier one
may still be on the line, or in the device, when the script is started again;
TLC checks two.

These hypotheses are not there for the prover. A damaged frame that passes the
CRC-16, in an image that passes the CRC-32, is a success with the wrong image.

**Negative cases.** `CrcCaseIsTrue`: when `invalid_final_crc` passes, the
partition holds nothing the device would run. An `APP_CRC_FAIL` on its way
speaks of the partition as it is (`FailsTrue`): after it the device stays in the
recovery console, and a reset takes the line away. From the pass to the next
start of a script the device refuses its image, or was reset and hears from
nobody (`PassTrue`). The hypothesis `ChecksRead`, that no read error makes the
check of a session or of a boot refuse a valid image, excludes the one other
cause of `APP_CRC_FAIL`. `RefusedStays`, for the three other cases,
is an action property: its invariant `Refusal` says that at most one header
is in use, that of the case, and that too few, or the wrong, cells follow it
(`Trail`), so that the device never has a whole frame that passes, whatever of
a payload it reads as text.

**Images.** `BringupProofs` follows an image through `Build`, in both
branches, and through the reads of the device (`CheckOfImage`). The invariant
`ImageFrom` says of the file on the bench that its payload is
that of the input, that its CRC is that of the size it states, and that
a size of zero means an erased payload. It is kept by a run on the binary
and by a run on the file itself; `BuiltImageIsTrue` follows from it.

**Boot log.** `Scans` gives the state of the loop of `find_in_order` after each
token. Two lemmas say what it finds: tokens that are there in order are found,
no later than there (`OrderIsFound`), and what is found is there in order
(`FoundIsOrder`). `LogTrue` says of every log what the boots have put into it:
how much of the profile `normal` the boot that runs has shown (`Shows`), that a
recovery left its decision and a handoff behind it in the log (`HandedOff`), and
that an application that announced itself ran. No bound on boots, commands,
chunks or stalls is left. From it follow `VerdictPath`, `GoodBoot` and
`LateCapture`. `StallsDoNothing` also needs `Follows`: a stall quotes the line
before it, and nothing comes between `HANDOFF` and `HANDOFF_APP`. Every line then
goes back to a printed one (`Back`), in the same order, for two tokens in a row
are never on one line, except those two, where the line in front is there to
take.

Not proved, only model-checked: liveness (`SilenceEndsSession`, `Settles`,
`GoodImageBoots`, `HoldingExecutes`, `HostReturns`), which is beyond this
prover, as are ENABLED and recursive operators. Every invariant and every other
action property that a passing run checks is a theorem; `SuccessMeansInstalled`
and `CrcCaseMeansInvalid` under the hypotheses above, which the runs replace by
a bound on the disturbances. That `SuccessMeansInstalled` also holds with the
negative cases on the line is the run `negative` alone; the theorem among cases
is `SuccessBootableAmongCases`. The four runs that look for a violation have no
theorem.

## 6. Findings

1. `transfer_race`: the handshake `send_update.py:230` calls race-safe writes
   `START_UPDATE` twice if it is started before it has read the prompt, whether
   the prompt was printed by then or not, and takes the refusal of the second
   one for the answer to its first chunk.
2. `transfer_reconnect`: a port reopened in `wait_for_token` never reaches
   `main()`, whose next write fails on the closed one, against
   `README.md:232`.
3. `corrupt_chunk`: the case is described as sending one frame with a wrong
   CRC and expecting its `CHUNK_FAIL`; a second `START_UPDATE`, written when the
   prompt comes, is refused as a header first, and the case passes on
   that refusal before the device has read its frame.
4. `bringup_flag`: `--allow-recovery-handoff` is offered for logs of recovery
   boots and updates, but a log in which the check failed before the
   recovery is rejected by the other check, which no flag relaxes.

Seen while modelling, without a run of their own:

- `send_update.py:185` calls `--timeout` the "Per-step timeout in seconds"; the
  handshake of a device that resets itself again and again has no end
  (section 4).
- `BOOT_SEQUENCE.md:273` gives the timeout "per header/payload wait";
  `uart_read_line_timeout` starts it again with each byte of a header, and bytes
  `'\r'`, which take no room in the line, can extend the wait without limit.
- `BOOT_SEQUENCE.md:142` has the first mode entered on the release after arming;
  `Armed` shows it before the release.
- `append_crc.py:161` says the default output is the input file with
  `--bad-crc`; the code always writes `build/factory_crc_partition.bin`. The CRC
  it prints is that of the whole input, also when the input is an image and the
  descriptor's CRC covers only the application in it.
- An optional token that only a later session prints still moves the search of
  `validate_bootlog.py` forward to it.
- The token `RECOVERY_HEARTBEAT`, which `partial_transfer` waits for last, is
  printed nowhere.
- `watch_serial.py` appends to an existing log, so a verdict is about all the
  captures in the file.

## 7. Mutants

Every property of a passing run has a mutant: an operator defined beside the
definition it replaces ("Mutant of ..."), with the mistake a programmer could
make there: a missing `memset`, a forgotten bitmap update, an off-by-one in the
last sector, a limit compared with `>`, a wait without its release, an array in
another order than the one beside it. TLC finds
each one under the run's own configuration.

## 8. Not modelled, and what could follow

Not modelled and why: `ws2812.c` is instruction timing; `logging.c` has no
caller; `validate_evidence_contract.py` looks for fixed strings in documents. LED
colours, except those of the selector, and delays that only pace the display are
left out. What an
interrupted `bootloader_flash_*` call leaves in one cell is bits of the write or
of the old value, never others.

Left out of what is modelled: the digits of frame headers (`parse_u32_decimal`
and its overflow) and of partition sizes; `--partition-size`, whose only new
case is a size other than the partition's; a log line that `watch_serial.py`
splits when a read times out within it, and its thresholds, which are any moment
here; a second update session started from the console while
`send_update.py` runs; argument checks and log files of the scripts; a host that
never stops sending and so keeps the console from the watchdog's feeding.

The work so far, most important first:

1. `NorFlash`, `AppImage`, `UpdateMode`, `UpdateSession` and their proofs;
2. `UpdateModeTiming`;
3. `Boot`, `BootGate`, `BootLive` and the proofs of the gate;
4. `ModeSelector` and its proofs;
5. `UpdateTransfer`: host and device together;
6. `RecoveryConsole` and its proofs;
7. `NegativeSender` on the same line;
8. `PartitionImage`, `BootLog`, `Bringup` and the proofs about images;
9. the proofs about the line, the scripts on it, and the verdicts on logs.

What could follow: `parse_chunk_header` on characters against a reference
parser; the console's inner loop with a clock; `SuccessMeansInstalled` as a
theorem for several images and among negative cases.

## 9. Running it

    tlc -config MCUpdateMode.cfg MCUpdateMode.tla
    tlapm UpdateModeProofs.tla

The other runs are named in `PROJECT.json`; each takes at most two minutes.
