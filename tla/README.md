# LinApple in TLA+

TLA+ models of the parts of LinApple whose correctness depends on order, on time
and on copies kept in step: what a card may ask of the frame loop, what the
memory map keeps where, what two threads share of an audio ring, when a track is
written back, how chips catch up with a clock they never see run, what becomes of
a key, a byte or a disk on its way between the host and the machine. Each model
is checked by TLC on small instances; for twenty-two of them theorems proved with
TLAPS carry the results to every instance.

Paths below are relative to the repository's `src/`, line numbers are those of
the commit the models were written from; `PROJECT.json` maps every definition to
its lines.

- [The system](#the-system)
- [The modules](#the-modules)
- [What the runs show](#what-the-runs-show)
- [What is proved](#what-is-proved), and [what is only model-checked](#what-is-only-model-checked)
- [Findings](#findings) and [known divergences](#known-divergences)
- [What is not modelled](#what-is-not-modelled)
- [Plan](#plan)

## The system

LinApple emulates an Apple ][, ][+ or //e. One thread, the emulation thread,
does nearly everything: the frontend calls `linapple_run_frame`, which runs the
6502 for the cycles of one video frame, lets every card think, and returns; user
commands, disk changes, resets and save states happen between two frames. The
only other threads are the audio callbacks (SDL's, and one of `TuiAudio.cpp`).
The hard behaviours are of five kinds:

1. *Handlers inside instructions.* A card's register handler runs in the middle
   of an instruction, in the middle of a slice of a frame, and may change what
   the slice was cut for (the next wake), what the instruction's own memory
   accesses go through (the memory map), or its own state at a time only it
   knows (the lazily updated chips and drives).
2. *Caches.* The earliest wake, the 64K image over the banks, the expansion ROM
   window, the track buffer, the interrupt level a card last announced, the cells
   of the screen drawn last: each is a copy that every operation has to keep true.
3. *Two threads without a lock*, in the audio mixer.
4. *Resets, replacement and save states* at any boundary, over all of the above.
5. *The host.* Files, terminals, serial devices and controllers refuse, split,
   delay and disappear; a key or a byte may be anywhere between the two worlds
   when they do.

### Inventory

| Component | State it keeps | Operations | Talks to | Hard to get right | Correct when |
|---|---|---|---|---|---|
| Frame loop (`core/LinAppleCore.cpp`) | cycles of the frame, turbo state | run frame, batch, step, resets | CPU slices, slot manager, audio pull | overruns, turbo depends on activity reports | a frame ends, its count is the clock's |
| Device events (`apple2/peripherals/Peripheral.cpp`) | per card the cycle of its wake; the cached earliest | schedule, cancel, service, think, reset, register, unregister | every card, `cpu_limit_cycles` | rescheduling from handlers, from wakes, at or behind the clock | every wake rings once, on time |
| CPU (`apple2/CPU.cpp`) | registers, cumulative cycles, interrupt lines | instructions, interrupts, slices | memory map, slot manager | the stack's wrap, decimal arithmetic, cycles | returns come back, sums are exact |
| Paged memory (`apple2/Memory.cpp`) | image, banks, shadow, write and dirty tables, switches | read, write, push, switch, load, reset, save | CPU, loader, cards, debugger | write-back of pages remapped in any order; deferred rebuilds | the program sees banked memory |
| Expansion ROM (`apple2/Memory.cpp`) | selection latches, what is in the window | reads of slot pages, window, `$CFFF`, switches | cards' ROMs | caching what was copied last | a read answers from who is selected |
| Audio ring (`frontends/common/AudioMixer.cpp`) | cells, two indices, flush generation, fade state | register, upload, flush, unregister; callback | cards, audio device | no lock, relaxed loads, flush handshake | frames are whole, in order, fresh |
| Disk II (`peripherals/disk/Disk.cpp`) | drives, heads, motor timers, buffers | register accesses, think, eject, insert, swap, protect, reset, save | image drivers, activity report | write-back at the right time to the right track | the medium keeps what was written |
| Floppy images (`disk/DiskLoader.cpp`, `DiskEncoding.cpp`, `formats/`) | an open image, its tables, a temporary file | open, read and write a track, close | host files | probing, self-sync across the seam, clean-up | the right driver, the same sectors back |
| Block device (`harddisk/Harddisk.cpp`) | registers, buffer, images | read, write, status, insert, eject, save | host files | errors part way, volumes changed under a buffer | a block is what was last written |
| 6551 and Super Serial Card (`chips/6551.cpp`, `SuperSerial.cpp`) | registers, characters in flight, IRQ, line format | register accesses, wake, reset, save | byte sink, device events, IRQ | lazy catch-up, late wakes, flow control by polling | each byte arrives once; levels agree |
| Byte sinks and far ends (`HostSink.cpp`, `SuperSerialFrontend.cpp`, `PrinterFrontend.cpp`) | per slot the device, its format, rings, retry counters | open on use, write, read, replace, tick | kernel, cards | refused bytes, lost devices, flow control a call late | no byte lost while flow control is honoured |
| Mockingboard (`Mockingboard.cpp`, `6522.cpp`, `AY8910.cpp`) | four timers, flags, sound registers | register accesses, think | IRQ | timers counted only when looked at | every answer is that of a chip that ticks, the interrupt late by a frame at most |
| Mouse card (`Mouse.cpp`, `6821.cpp`) | PIA, command state, position | strobes, commands, tick, motion, save | firmware, host | edges on pins that only report change | replies, ranges and interrupts as documented |
| Keyboard (`Keyboard.cpp`, the frontends) | held keys, strobe, repeat | key events, focus, pause, latch | host, command queue | two paths for a press and its release | a key is down while the hand holds it |
| Game port (`Joystick.cpp`, `SwitchInputs.cpp`, `JoystickFrontend.cpp`) | switches, queues of edges, paddles' pulses | buttons, sticks, `$C064`, `$C070` | host, command queue | edges faster than the machine runs | no click is lost or stuck |
| Slots and commands (`Peripheral_Internal.cpp`, `Peripheral.cpp`, `Snapshot.cpp`) | cards of each slot, queue | place, request, enqueue, drain, load | frontends, cards | commands outlive cards; loads refused half way | FIFO, to the card meant; a load is whole |
| Video (`apple2/Video.cpp`) | copies of what was drawn | modes, refresh, scanner, colours | memory | what need not be drawn again | the screen is what memory says |
| Debugger (`Debugger/`) | mode, stepping counters, lists, console, symbols | keys, commands, assembler | CPU, memory | windows and passes left behind by earlier commands | predictions, lists and memory are true |
| Terminal frontend (`frontends/tui/`) | input queue, held keys, last frame | process sequences, draw | terminal | bytes cut anywhere, answers in between | a key does what the help says |
| BASIC in a file (`core/BasicLiveSync.cpp`) | times, hashes, watch | poll, import, export | host's file, memory | echo of one's own writes | file and program are one |
| Clock, speaker, pacing, configuration, FTP | none that outlives a call, or arithmetic | | | | |

The hazards that follow from this, with the line each bites at and the
properties that watch it, are the `hazards` of `PROJECT.json`.

## The modules

```
DeviceAlarms <--implements-- FrameScheduler
BankedMemory <--implements-- PagedMemory    (both EXTEND MemoryMap)
PagedMemory, VideoDisplay                   <-- PagedMemory_proof
FloppyMedium <--implements-- DiskDrive      <-- DiskDrive_proof
AudioRing, Mockingboard                     <-- AudioRing_proof
Acia6551 <-- SerialCard <-- MCSerialCard      SerialCard <-- SerialCard_proof

CardSlots, PrinterPath,              Mockingboard       Keyboard       BasicSync
SerialFarEnd <-- HostPath_proof      TrackEncoding      FloppyImages
ExpansionRom, GamePort, BlockDevice, FrameScheduler,    Pia6821 <-- MouseCard
MouseCard <-- Cards_proof
   ... all of them <-- MCDevices

Opcodes6502, Alu6502 <-- Cpu6502 <-- DebuggerTargets <-- Cpu6502_proof
DebuggerMemory, DebuggerSession, DebuggerLists,
TerminalScreen, Keyboard <-- Console_proof
DebuggerAssembler      DiskPicker <-- TerminalInput
   ... all of them <-- MCDebugger
```

An arrow `A <-- B` without a word is `B EXTENDS A`. The machines of `MCDevices`
and of `MCDebugger` do not touch each other: a behaviour chooses one in its first
state and the rest of the variables stand still, so that their states add up
instead of multiplying.

Operators named after another with a suffix (`Continued_forced`,
`SettleWakeFirst`) and those whose comment says *Mutant* or *broken* are not part
of a model. Each is a definition with one plausible mistake in it; putting it in
the place of the definition it varies makes some property fail, which is how we
know that the property watches that code. The `mutants` of `PROJECT.json` pair
them.

### The frame

`DeviceAlarms` is what `Peripheral.h` 125-135 promises a card that calls
`ScheduleEvent`: it has at most one wake; the wake comes at the end of the
instruction during which it fell due; a wake at or behind the clock comes one
instruction later; a wake is spent when it comes; all that are due come
together. `FrameScheduler` is how the program keeps it. `pc` is where the
emulation thread is: `service` and `wake` (`peripheral_service_events`, which
collects the due cards first and wakes them after), `slice`, `execute` (between
two instructions of a slice), `sliced`, `think`, `step` (a debugger step) and
`idle`. `Access` is a register handler inside an instruction: it may schedule or
cancel the wake of its card or reset the machine, and sees the clock of the
instruction's first cycle, as `cpu_calc_cycles` gives it. The history variables
`deadline` and `woken` are there for the refinement.

### Memory

`BankedMemory` is memory as the machine's documentation has it: two banks of
RAM with their language cards, the ROMs, and a view through the switches.
`PagedMemory` is the flat image the emulated CPU reads, with `memshadow`,
`memwrite` and `memdirty`. A page is one of eight that differ in how switches
map them (`MemoryMap`); the value of a page stands for its 256 bytes.
`UpdatePaging` is all of `mem_update_paging`: new tables, write-back of the dirty
pages whose shadow changes, refill. `SetSwitch` is `mem_set_paging`, including
the case in which the rebuild is put off because the next instruction is seen to
switch the other of AUXREAD and AUXWRITE (`HoldOff`); nothing forces the program
to execute that instruction next. `LoadProgram`, `CardRom`, `SoftReset`,
`PowerCycle` and `LoadState` come from outside at any time. The refinement maps a
bank's page to the image where it is live and to its store elsewhere, and the
mapping of `BankedMemory` to the switches the tables were last built from
(`applied`), which `SwitchesSettle` ties to the switches the program set.

`ExpansionRom` is the window at `$C800`: `Select`, `Winner`, `Show` and `Release`
are the parts of `io_read_cxxx`. `claims` and `claimed` record who touched what
since the last `$CFFF`, from which the property computes the answer without the
latches; `fresh` says that the properties speak from the first `$CFFF` on after
the image was refilled.

### Sound

`AudioRing` is the ring between the emulation thread and the device callback.
Every load and store of a field both threads use is a step of its own, in the
order of the program; `upc` and `apc` are the two threads' positions. Samples are
numbered in the order of upload, left odd and right even, so that what is heard
can be told from what should be. `underfoot` marks the time from a
reinitialisation that ran while the callback was inside the slot until a later
one that did not; the properties of what is heard are stated outside it.
`Mockingboard` runs the card's two lazily counted 6522s beside an exact pair that
counts every cycle; `CardKeepsTime` says that what the program reads is what the
exact pair holds, and that the card's interrupt line is the exact pair's whenever
the card has just been looked at and at the end of every frame, and never up
without theirs. It is not theirs in between: the card asks for no wake.

### Disks

`FloppyMedium` is a set of disks that hold, track by track, what a head last
wrote. `DiskDrive` is the card: one track buffer per drive, dirty or not, read
from the image when the head has moved and the medium next turns (`Turn`),
written back by whoever comes first. What the sequencer lays on a track and where
the magnets pull the head is left open; `TrackEncoding` says how sectors become
cells and cells sectors again, from any rotation, and `FloppyImages` how a file
of the host becomes an image with a driver, every call of which may fail.
`BlockDevice` is the hard disk controller down to the block drivers.
`Faults` of `DiskDrive` lists what may go wrong with a track that is to be
written back (`"refusal"`: its driver refuses it; `"protect"`: the user protects
a drive with cells to write); the passing runs and the theorems have neither.

### Serial and printer

`Acia6551` is the chip as operators on a record, because the program calls it
that way: nothing happens to the chip between two calls, and each call plays
back what fell due (`Advance`). `SerialCard` is the card: `Synced` and `Settle`
open and close every entry. That a wake comes late by at most `Late` cycles is
what `FrameScheduler` shows of the frame loop (`WakesWithinOneInstruction`), and
is an assumption here. Bytes on the way in are numbered by how far they are from
the program, so that a lost, doubled or invented one shows as a wrong number.
`SerialFarEnd` and `PrinterPath` are what the sinks write to: rings, a kernel
that refuses, devices that go and come back, a file that cannot be opened.

### Slots, mouse, keyboard, game port

`CardSlots` places the configured cards, serves requests at run time, carries
commands to cards and loads save states; `sent`, `taken` and `life` record which
instance of which card a command was meant for and got to. `Pia6821` is the chip
with the device at its pins, `MouseCard` the 6805's side of it, the commands, the
tick and the frame of a save state. `Keyboard` follows a key from the host's
event to the latch; `GamePort` an edge of a button through the queue, one edge to
a slice, and a paddle's pulse through a save state.

### Video

`VideoDisplay` has the switches, the refresh with the copies it keeps, and the
scanner, and the colours of dots across bytes and edges with the mixing of lines.

### The processor and the debugger

`Opcodes6502` holds both opcode tables, `Alu6502` the operations, `Cpu6502` the
machine with its stack, interrupts and cycles. `DebuggerTargets` is what the
debugger predicts of the next instruction (`_6502_GetTargets`).
`DebuggerSession` is the debugger at work: the keys, the console and the commands
that run instructions; `OverIteration` and `OverLoop` are the loops inside
CmdStepOver, each turn a step, and `stepOver.turns` counts them.
`DebuggerMemory` is its commands that write memory among the guest's writes and
the changes of bank, `DebuggerLists` its breakpoints, watches and bookmarks,
`DebuggerAssembler` the mini-assembler with delayed targets and symbols.

### The terminal

`TerminalInput` reads bytes cut anywhere and asks the terminal for the mouse;
`DiskPicker` is the chooser its keys move; `TerminalScreen` the frame of cells,
what of it is written, and where the terminal puts it when a cell's bytes are not
one column (`displaced`).

### BASIC in a file

`BasicSync` is the program of the machine and its text on the host, character by
character, with tokens, line numbers, imports and exports, writes that fail or end
early (`unwritten`), and the times and events by which each change is noticed.

## What the runs show

| Run | Instance | Distinct states | Shows |
|---|---|---|---|
| `frame_events` | two cards, frames of 3 cycles, instructions of 1 or 2 cycles, two accesses each | 148,230 | wakes are neither lost, late nor early; the cached earliest is the minimum; a frame overruns by less than one instruction and always ends; the loop implements `DeviceAlarms` |
| `banked_ram` | page zero and the hi-res page, all 64 settings of six switches | 245,760 | the image shows what banked memory would, with deferred pairs, loads and resets between any two steps |
| `language_card` | the switched range with both banks, main and auxiliary, and the slot 3 ROM page with both ROM switches | 40,960 | ROM is never written, a card's bytes survive every switch, saves hold the live bytes at every address but one |
| `audio_ring` | a ring of three frames, four frames uploaded, one flush | 237,248 | whole frames in order; an acknowledged flush keeps nothing older; fades start from the last frame; every sample leaves |
| `disk_drives` | two disks, two drives, two tracks, protection changing hands with them | 114,432 | no order of steps, selections, ejects, swaps and resets loses or misplaces a cell; what was written reaches the image |
| `disk_save_states` | one disk, states saved and loaded at any time | 386,892 | a load brings back the track it carries, as bytes, if the disk opens, and touches no other |
| `serial_card` | characters of 3 cycles, wakes one cycle late, three command settings, two far ends | 1,116,096 | no byte is lost, doubled, overrun or left held; interrupt, wake and line format follow the chip |
| `cpu` | both processors on stretches of code with interrupts; the debugger; the terminal | 550,752 | a subroutine and an interrupt return where they left, decimal sums are exact, and the debugger predicts each instruction; a debugger whose console, stepping, lists, writes and assembler keep their word; a key is what the terminal sent and the screen what was drawn |
| `devices` | one device at a time, two or three events each | 467,440 | commands reach their cards, loads are whole, lazy timers keep the time of ticking ones and interrupt no later than the next look or frame, the mouse and the buttons follow the hand, blocks and sectors come back, bytes cross the cable in order, the display shows memory, the file shows the program |
| `saved_bank_1`, `disk_refused_track`, `serial_save` | small | | violated: see [Findings](#findings) |

### Bounds, and why they are enough

*Frame loop.* Two cards are the fewest that can be earlier and later than each
other. A frame of three cycles with instructions of one or two can be cut
anywhere and overrun; `LastCycle` 8 is long enough for two whole frames, so a
wake armed in one can come in the next. `MaxDelay` 2 lets a card ask behind, at
and ahead of the clock, within and beyond the slice. The theorems have no such
bound but `LastCycle`, which stands for 2^64 - 2.

*Memory.* Pages do not share state but the switches, so two pages at a time
meet everything that can happen between two; `banked_ram` takes the two that
most switches map, `language_card` the two that are not plain RAM. Two byte
values distinguish old from new. The pages left out (`ram`, `txt`, `cx`, `e0`)
are mapped by fewer switches than the ones taken; the theorems cover them all.

*Audio.* Three frames is the smallest ring that is neither full nor empty with
one frame in it. Four frames of upload wrap the indices. Requests of one and two
frames make a full ring both too long a backlog (so `sample_buffer_skip` acts)
and too short. The theorem covers every size.

*Disk.* Two tracks are enough to write the wrong one, two disks the wrong one.
`Delay` counts thinks; two are enough to be restarted in between. Save states
use one disk and `Delay` 1, as two disks add no interaction to a load that the
refinement does not already forbid in `disk_drives`. `SavesOwe` follows the states
that are saved in write mode with something still to be written or read: a load of
any other brings back less; the theorems have every state. A track's content is
one of a few bytes, with cells between them or without (`Bytes`, `Gaps`).

*Serial.* A character of three cycles has a middle, a point where the byte is
complete before the frame ends, and room for a wake one cycle late in each
part. `MaxLag` 4 lets an idle chip sleep longer than a character and every wake
be late.

*Processor and debugger.* Every opcode of both tables is in some stretch of
code or is executed once from each of the `Starts`; operands sit at page ends and
at the two ends of the stack, where the arithmetic wraps. `OverSteps` 3 stands
for the 0xFFFF instructions CmdStepOver may run; `BufferLines` 3 and a page of
two lines let the console pause and its buffer fill; sessions of
`MaxSessionSteps` 5 commands reach every mode with a pass or a skip window left
by an earlier command. Memory is four pages of two bytes over two banks: a range
can begin, end and straddle at either side of a page. The theorems of
`Console_proof` have none of these bounds.

*Terminal.* `MaxEscape` and `PageSize` are cut to five bytes and two rows; every
sequence of the program is in the instance whole, cut at each byte, and followed
by another. `RefreshEvery` 3 stands for 60 frames.

*Devices.* Each machine is given the smallest counters in which its boundaries
are apart (`Top` 3 for a timer's 0xFFFF, `QueueCapacity` 2 for 8 edges,
`ReceiveSize` 2 for a ring) and as many events as it takes to go through one
exchange and be disturbed once in it. `MaxPortEvents` 3 is one short of the
events that overflow a button's queue while the program looks away; the
overflow is covered by the proof of `PortsFollowTheHand`. A machine of
`MCDevices` or `MCDebugger` that has used up its events stops, hence
`CHECK_DEADLOCK FALSE`; the other runs check deadlock.

### Fairness

`frame_events`: the thread that runs a frame waits for nothing, so
`WF(EmulationStep)`; nothing is assumed of the host, of registers or of cards.
`audio_ring`: an operation of the mixer runs to its end (`WF(EmulationStep)`),
and the device keeps calling back (`WF(AudioStep)`), which is what a started
audio device does. `disk_drives`: `WF(Think)`, because
`peripheral_manager_think` ends every frame and frames keep being run. The other
runs state no liveness; of the serial card the same is said step by step
(`ThinkLeavesNothingHeld`: no think leaves a byte that could move).

## What is proved

The theorems hold for every value of the constants that meets the named
assumptions of the modules (`CardsAssumption`, `MemoryMapAssumption`,
`SizesAssumption`, `DiskDriveAssumption`, `ExpansionRomAssumption`,
`GamePortAssumption`, `BlockDeviceAssumption`, `CardSlotsAssumption`,
`MemoryAssumption`, `SessionAssumption`, `ListsAssumption`, `ScreenAssumption`,
`CpuAssumption`, `MockingboardAssumption`, `MouseAssumption` and their like), which
TLC evaluates in the runs. TLC has checked each strengthening as an invariant of the
same instances before it was proved.

**The frame loop** (in `Cards_proof`), for any cards, frame length and instruction costs:
`KeepsTime` (all of `EventsAreOnTime`, whose parts are `TypeCorrect`,
`NeverOverdue`, `OnTime`, `CacheCorrect`, `OneCount`) and `ImplementsAlarms`,
that the loop implements `DeviceAlarms`. None of the properties is inductive
alone. That no instruction starts overdue needs to know that the running slice
ends at what any card is owed (`SliceBound`), which a handler re-establishes only
because the cached earliest is right (`NextEventIsEarliest`) and because slice
and clock count the same cycles (`SlicesKeepOneCount`). `IInv` is their
conjunction with two facts of control: the clock has room for the instruction
under way (`RoomOnTheClock`), and nobody is collected outside a pass
(`NobodyIsDueAtRest`). `ControlSteps` does the actions that touch no wake,
`CardRanKeeps` whatever a card may do when called, wherever it is called from;
each remaining action has a lemma. The refinement adds that nobody counts as
woken between instructions (`WokenUntilRetired`).

**`PagedMemory_proof`**, for any pages, switches and byte values:
`Settling` (`SwitchesSettle`), `SavedPagesAgree` (`PagesAgree`: types, card ROMs,
saves) and `ImplementsBankedMemory`. `IInv` says that the tables are those of the
applied switches (`TablesApplied`), that a clean page agrees with its bank
(`CleanPagesAgree`), that a mapped slot ROM agrees even when dirty
(`RomPagesAgree`), and that a lag is always marked (`SwitchesSettle`). The
central lemma, `UpdateKeepsContents`, is that a rebuild, with its write-backs
and refills, changes no bank: two pages of the image never stand for one page of
a bank (`ShadowTable`), so each bank page is written back by at most one.
The screen is a copy of the same kind. `DisplayShowsMemory` (`DisplayIsTrue`), for
any columns, bytes and switches, rests on `DisplayInv`: unless all is to be
redrawn, every cell shows the bytes of the copy, with the flash as it was before a
turn that is still owed (`CopyIsShown`, `ShownState`). What `Changed` leaves alone
looks the same from copy and memory (`UnchangedAgrees`), what the copy then takes
is memory (`CopyTakes`), and the one place where neither holds is the exception
the property names (`CopyLiesOver`). Of the scanner, `BeamReadsCell` and
`BlankIsVbl` are arithmetic over every cycle of either frame.
`DisplayAssumption` has no second page under 80STORE, as `SetMode` leaves none.

**`AudioRing_proof`**, for any even ring size, requests and chunks:
`RingKeepsItsSound`. The inductive invariant, `RingInv`, says of every cell
between the indices which sample is in it, at each of the two threads' positions
(`SoundKept`), what a reinitialisation in progress has overwritten
(`Reinitialising`), and what the local copies of the indices are worth. Cells are
named by their distance from an index, so that one lemma about adding a distance
(`FilledIsADistance` and its like) stands for the wrap.
Of the Mockingboard, for counters and registers of any width and any envelope
shapes, `MockingboardKeepsTime` (`CardKeepsTime`). A timer is brought up to
date by a recursive function, a turn of the loop an underflow. `TicksAreAdvances`
says that ticks in a row are one advance until the next underflow, `StepTimerTicks`
carries it along the turns, and `TicksCommute` along both timers, so that `Step` by
n + 1 is `Step` by n and a tick (`StepIs`); that `CatchesUp` is inductive follows.
The line is late but never early because a cycle puts flags up and takes none away;
only an access does, and every access brings the chips up to date first.
The envelope's step, direction and hold are tied to a cycle of its wave and a place
in it (`WaveAt`), whose four cycles close on the third. `MockingboardAssumption`
says what may be written to which register.

**`DiskDrive_proof`**, for any disks, tracks, contents and motor delay, and an
image that takes what it is given (`Faults = {}`): `HeadsAndTracksAgree`,
`DrivesKeepTheMedium`, and the same with save states, `SavedHeadsAndTracksAgree`,
`SavedDrivesKeepTheMedium` and `LoadsBringBack`, the last two on heads that stop
at half tracks, which is all a save state can name. `DiskInv` says when a drive
may hold unwritten cells and of which track (`Fits`), that only the drive whose
motor turns owes any, and that a save state is one the card could be in
(`SavedFits`). What a head lays is bytes with or without cells between them
(`Contents`), and a save state carries bytes alone (`AsBytes`): so `FloppyMedium`
has a load put tracks back as their bytes (`Reread`), and `CarriedFits` says that
what a state carries is what was in the buffers when it was taken. A load whose
disk no longer opens leaves the drive empty, and with it goes the part-written
track the state carried; a track in which no byte is found is not in the state to
begin with. The hypothesis `Faults = {}` is not free: `disk_refused_track`
shows the program without it.

**`Cards_proof`**, besides the frame loop: the expansion ROM window (`SelectedRomsAnswer`: `RomInv` ties
the contents to the latches, and the latches to what was touched since `$CFFF`);
the 6821 (`HandshakesFollowTheData`: whatever the registers, each side has told
its lines what they should be, `PiaInv`); the game port; the block device; and
the mouse card.
For the port (`PortsFollowTheHand`) the invariant, `PortInv`, says that a queue alternates,
that its last edge is where the hand is, and that a full one lost edges in
pairs: for that the capacity has to be even, which `GamePortAssumption` states
and the 8 of `JoystickFrontend.cpp` is. Pulses of the paddles are measured from
their start through save states and loads.
For the block device, with any image files and block numbers, `VolumesKeepBlocks`
(`VolumesKeepTheirBlocks`). `BlockInv` says what the buffer holds at each step of
a call (`BufferFits`): the halves the driver pushed, unless a load came between
and the write will be refused, or the block it is pulling, unless the load found
another there. That a write touches its own block and no other needs that the
DOS 3.3 order puts no two halves in one sector (`HalvesApart`, from the table),
and that an image is served as it reads, inside its file and outside its chunks,
is `ServedFits`, driver by driver. `BlockDeviceAssumption` states what the
probes assume of a file: a signature is looked for on a floppy's size only.
For the mouse card, with any commands, moves and tick periods,
`MouseKeepsPromises` (`MouseKeepsItsPromises`), from `MouseIsInductive`. Both
sides keep a count of the exchange, and the promise at the next strobe is that the
counts agree: `MouseInv` says that the firmware has as many bytes to send as the
card still expects of the command in its buffer (`Sending`), that it waits for as
many as are left of the reply (`Replying`), and that the levels on PB6 and PB7 are
those of the strobes (`Answering`), which holds because the card answers only the
edges of lines it sees move, and a program that turns port B round does so with no
strobe up (`Wired`). The same is said of a save state, so that a load finds the
exchange where it was. A reading is whole because the five bytes are taken
when the command is and only `READMOUSE` writes them (`Reads`). `MouseAssumption` has the
firmware send a command with the bytes the card takes for it, as `MouseRom.h` does.

**`SerialCard_proof`**, for any length of a character, any point of it at which
the byte is complete, and any lateness below it: `LineKept` (`CardKeepsTheLine`)
and `NothingIsHeld` (`ThinkLeavesNothingHeld`), from `CardIsInductive`. `SerialInv`
says that the card's wake is the first event of the chip, that the byte `ahead`
of the program is the one in flight, and that the chip never completed a byte
longer ago than `Late`. That a wake so late loses nothing is `ready <= Late <
Rdrf`: the program has until the next byte is complete. The chip is brought up to
date by `Advance`, a recursive function over its events; `AdvanceRuns` unfolds it
into a run of turns along an interval, and each turn keeps the chip `Good`. The
hypothesis `AnySave = FALSE`, that states are saved outside the tail of a
received frame, is not free: `serial_save` shows the program without it.

**`HostPath_proof`**: the slots, the printer and the serial cable. For any cards,
configuration and commands, `CardsStayKept` (`SlotsAreKept`) and `LoadsAreWhole`:
`BoardInv` says that the placement follows from the setting and the file that was
loaded, `CommandsInv` where in the queue or the batch each command is, and that
one that left went to the life it was sent to or a later one it names.
For any number of bytes, `PrinterKeepsBytes` (`PrinterKeepsItsBytes`): `PrinterInv`
says that what is in the file lies below what is in the buffer, what is in
neither is accounted for, and every byte that found the printer off has a fall of
the ready line of its own. For any sizes of the rings (`SerialFarEndAssumption`), kinds
of device and lines, `CableCarriesAll` (`CableIsTransparent`). Its invariant,
`SerialInv`, has each direction as a `Chain` of four places, from the card's
register to the far end: each place's bytes rise and lie below the next one's,
and a step moves a part of one place to the one before, or loses a place to an
outage, each a lemma of its own. That parking never drops a byte needs that a card
which holds one, and was told it may send, finds room in the ring; that the pins
follow needs that what the device was last told is what the kernel shows
(`Tells`), until the adapter is pulled out. Both proofs of bytes rest on
lemmas that `Rising`, `Below` and `Content` of a concatenation are those of its
parts.

**`Console_proof`**: `WritesComeBack` (`DebuggerWritesLast`), from the invariant
that a page not marked dirty is what its bank holds but for the bytes at risk:
those a `BLOAD`, `MEB` or `MEW` wrote to a page it is known to leave unmarked
(`LeftByLoad`), until another write marks that page. When the page turns first
they are `dropped`, and only of those the property says nothing; and
`SessionsHold` (`SessionHolds`), from three: `ConsoleInv` (the lines printed and
waiting are numbered in the order they were said), `SteppingInv` (a loop has
taken at most two turns an instruction, `LoopInv`: the stop at it and the
instruction) and `PassInv` (a pass is only used where it was announced). For
lists of any length, `CountsAreTrue` (`ListsTellTheTruth`): `ListsInv` keeps how
far a count may be from the slots in use, a count that no line made wrong is
`Exact` and any other still `Covered`. The commands that go over their arguments
are folds; a fold is unfolded into a function over the sets of places up to the
last (`FoldExists`), and what every turn keeps the whole keeps (`FoldStays`).
For the terminal, `LayoutsFit` (`EveryLayoutFits`, at any size) and
`ScreenIsFaithful` (`ScreenIsWhatWasDrawn`): `ScreenInv` adds to the property
that in the rows not in doubt the cells compared with the next frame are those
the terminal shows (`RowsAreKnown`), but for the cells `displaced` by a byte
that is no character, of which nothing is known until they are written again.
For any keys and times, `KeysAreFollowed` (`KeysFollowTheHand`): `KeyboardInv`
says what will be down once the queue is delivered (`DownBy`: a key down now or
pressed by a command, and freed by none after it), so that a host event is
accounted for when it is queued and the fold that delivers the queue only
carries it out (`Drains`). `KeyboardAssumption` has the delay of the auto-repeat
a whole number of phases, as `repeat_delay_frames` is of `repeat_phase_frames`.
The memory commands are taken at any address, though the console can say 0 alone
(*Known divergences*).

**`Cpu6502_proof`**, for any program, memory, interrupts and either part; of its
constants `CpuAssumption` only says that registers, memory and instructions are
bytes and words. `CpuIsInductive`: registers keep their widths, the stack
pointer its page and memory its bytes (`CpuTypeOK`), from a lemma an operation of
the ALU, an addressing mode and a row of the opcode tables; and the handlers in
service stand innermost first, three bytes or more apart (`FramesOK`).
`ReturnsAreKept` (`FramesHoldTheReturn`) and `ReturnsLeadBack`
(`ReturnsWhereItLeft`) have a hypothesis, `[]StackIsSpared`: no store or
read-modify-write lands on the three bytes a handler returns by, and the stack
never grows to where it would wrap over them (240 bytes). It is not free: a
program may do either, on the real chip too, and it is the program's doing, not
the processor's. `CpuKept` adds to `CpuInv` that those three bytes are on the
stack of every handler in service (`FramesKept`), told by their distance from the
stack pointer, so that a push, a pull and `TXS` are each a shift of all the
distances (`Entered`, `Buried`) and a handler the stack was pulled past is gone.
`DecimalIsExact` (`DecimalArithmeticIsExact`) is arithmetic on the two digits:
what the adjustment makes of each and the carry between them.
`DebuggerIsRight` (`DebuggerPredictsTheCpu`): the debugger's table and the
processor's agree for every described opcode (`Agree`, row by row), and from
there, by mode, on the operand (`OperandFound`), on where control goes
(`GoesWhereSaid`), on the stack slot (`SlotSaid`) and on the byte assembled for a
branch (`OffsetComesBack`). The proof did not go through with the guards the
property had: two exceptions had to be added to those it names, both in the code
(*Known divergences*, *Processor*).

### What is only model-checked

- Liveness: `FrameCompletes`, `EverySampleLeaves`, `WrittenBack`. The prover has
  no rule for fairness here.
- What a bitwise operator computes: `TrackEncoding` (`Bitwise`). `Alu6502` has its
  bitwise operations place by place instead, for the proofs.
- What a fold over data computes in full. That each turn keeps an invariant can be
  proved, fold by fold, as it is for the debugger's lists; what a filter
  (`SelectSeq`) returns cannot, for the provers do not expand it. This concerns
  `DiskPicker` with `TerminalInput`, `DebuggerAssembler` and `BasicSync`.
- The colours of `VideoDisplay` (`ColoursMatchTheDots`) and `FloppyImages`:
  nothing stands against proving parts of them; not done yet.

## Findings

Each is shown by a run whose single property is violated.

- **A save state loses bank 1 of the language card** (`saved_bank_1`,
  `apple2/Memory.cpp` 945). Written with bank 1 mapped, its bytes are live at
  `$D000` and kept at `memmain+$C000`; a save copies what the shadow table says
  of page `$C0`, a slot ROM, and takes the stale store. Every other page is saved
  exactly (`SaveStateHoldsItsOwnAddresses`, part of `PagesAgree` and proved).
- **A refused track is lost or misplaced** (`disk_refused_track`, `Disk.cpp`
  499). The head moves on whether or not the driver took the track, so the
  buffer that is kept "because the changes it holds are still not in the image"
  is read over, or written to the track the head came to. A drive protected
  between the write and the step loses its track the same way.
- **A save state in the tail of a received frame invents a byte** (`serial_save`,
  `6551.cpp` 375). `acia_restart` runs the frame again although its byte was
  handed over at RDRF: the program gets a 0, or a false overrun. With the
  receiver's clock off in mid-character, the byte is lost.

## Known divergences

Met while modelling. Where the model follows the code, its properties say what
the code does in spite of the divergence; where a property would not hold, it
names the case it leaves out, or the action is left out of the model. Most can
be reproduced by adding the action or dropping the exception.

*Frame loop, cards.* Nobody calls the reset of a single card, which the slot
manager has. A single step charges no cycles to cards that count in `think`,
against the comment of `Mockingboard.cpp` 169. The Mockingboard asks for no wake
when a timer is due: `update_irq` (177) runs from an access and from `think`
only, so that a timer which runs out within a frame interrupts when the program
next touches the card or the frame is over; the two lines are compared then, and
in between the card's may only be late. The hard disk frontend keeps the
slot it found at start when a save state puts another card there.

*Disk activity* (`Disk.cpp` 612, 408, 919). Only the lapse of the motor's delay
reports the end of activity: deselecting a drive, ejecting, resetting or loading
stops the timer without it, although `tests/` expects the report
(`test_disk_motor.cpp` 137-139). With disk turbo on the machine keeps running at
full speed with the motor off. `DiskDrive` has no activity reports.

*Memory.* Pokes without dirty bits (`core/BasicLiveSync.cpp` 434,
`Debugger_Assembler.cpp` 1385, `Debugger_Cmd_CPU.cpp` 353,
`core/ProgramLoader.cpp` 192): the next remapping of the page drops the bytes. A
debugger load into a bank whose page is mapped and dirty (`Debugger_Memory.cpp`
525) is overwritten by the write-back. An interrupt between a deferred pair
(`Memory.cpp` 1332) runs its handler on the old map: it is why the refinement
maps to `applied` and not to the switches; `SwitchesSettle` bounds it. Writes to
`$CFFF` release nothing (594), although the bus access would on the machine; the
window's latches survive a reset or load that refilled it (535), until the
program reads `$CFFF`; any slot page without an expansion ROM switches the
internal ROM in (517); slot 3 on a ][ is treated as a //e's (514).

*Audio.* Unregistering under the audio thread (`AudioMixer.cpp` 503): the comment
at 487 says the ring is not reinitialised underneath the audio thread, which
`audio_mixer_unregister_source` does if the callback has already tested `active`.
The model has the interleaving, its effect is bounded by `underfoot`: a late
store of `read_index` leaves a backlog nobody uploaded, until the next
undisturbed reinitialisation. `sdl2/Main.cpp` 93 starts the device before the
sources are cleared.

*Disks.* A head between two tracks is written back and saved by rounding
(`Disk.cpp` 294, 1310); one image in both drives is accepted, and the buffers
overwrite each other's tracks. A temporary file's clean-up may remove a file of
another process. A load whose disk no longer opens drops the part-written track
the state carried (`Disk.cpp` 1388-1392); one that opens gets the track back as
bytes read from the index hole (243-279), without the cells that were between
them, and not at all if it holds no byte. Across the seam of a nibble image the comment of
`NibbleDiskImage.cpp` 224-227 is not so. A block controller's poisoned buffer
outlives a refused WRITE, so that a later one fails too (against `Harddisk.cpp`
503-504); a reset or load in the middle of a read never puts the light out; a
read in flight across a load may mix versions; a buffer kept after a completed
READ is not saved.

*Serial and printer.* Writing without looking at the lines loses a byte when
the ring fills (`SuperSerialFrontend.cpp` 48-50 says none is lost); a full receive
ring hides a lost device. On a full disk the printer comes on again each tick and
loses a line a cycle.

*Keyboard and game port.* `release_all` leaves REPT down (`KeyboardCommands.h`
27); modal loops swallow key releases and the loss of focus; unplugging a stick
turns the keypad into one, and the release of a key held then never reaches the
card; left Alt and left GUI share a switch. While the machine is paused an edge
and its release may pass unseen.

*Processor.* `AND abs` takes 2 cycles, `DEC abs` 5, `JMP (abs)` of the NMOS chip
6, its read-modify-write `abs,X` one less (`README.md` 115 claims cycle
accuracy). `DCM` and `INS` carry into 16 bits. `push()` writes without a dirty
bit. For `$9E` the debugger's tables say `abs,X`, the NMOS chip uses `abs,Y`. A
`JMP (abs,X)` whose word and X reach 65535 reads past the end of memory
(`CPU.cpp` 222, a 0 in the model) where the debugger wraps; a branch across either end of memory, which
the processor takes, is out of range to `CalcRelativeOffset`.

*Debugger.* `ParseInput` never cooks its arguments, so every number typed is 0
when it reaches a command, and `ExecuteCommand` passes one word fewer than were
typed: `T` alone does nothing. Nobody continues a session that `G` set stepping,
and breakpoints are shown but never tested. A skip window left by `CmdStepOver`
survives into `T`; `BRK` stops at no undocumented opcode; `JSR` pushes an
address 256 too high when the low byte of PC is 0. Lists count a slot written
twice twice, and bookmarks' count never falls. The range forms of `F`, `M`, `S`
and `BSAVE` do nothing; `MEB` and `MEW` mark the first page only; `BLOAD` does
not mark the page in which the file ends, and of a file of 64K, whose length is cut
to 16 bits (`Debugger_Memory.cpp` 527-529), it marks no page at all; a search finds
nothing. The
assembler once on from the keyboard stays on; one delayed target is filled a
line; numbers with a leading zero and decimals above 9 assemble as 0 with a
target nobody defines; an undefined name outside a branch assembles nothing;
`(sym,X)` becomes plain indexed; a branch out of range holds up all later ones.
Backward branches are predicted by another formula for `AM_R`.

*Terminal.* A lone ESC in the debugger goes to the Apple (`TuiInput.cpp` 431).
rxvt's shifted function keys are off by one or not ended, `Alt+O` and `Alt+[`
wait for more bytes and swallow them, a second key in one read is pressed with
Open Apple still down, and the tail of a sequence split by 3 ms is taken for
keys. The chooser pages by 14 rows however few are shown and cannot go up from a
relative folder. Asked twice, an old answer is taken for the new one. The status
row stays after F6 until a refresh where the frame equals the back buffer, cells
equal to it after a resize are not drawn until one, and the last cell never is.
A frame counts a column for every cell it sends (`TuiVideo.cpp` 1071-1104), and two
kinds of cell take another number. The chooser lays UTF-8 text into cells byte by
byte: the arrows of its last line (552-566) always, and a folder's or a file's name
that is not ASCII (385-407, 490-493). The debugger's branch arrows are codes of the
original's font, `\x8A`, `\x8B` and `\x88`, cut to 7 bits on their way to the
screen (`Debugger_Display.cpp` 497-511, `Debugger_View_Code.cpp` 369-375): a line
feed, a vertical tab and a backspace. Whatever is sent after such a cell in the same
go lands elsewhere, and stays so until it is written again without one:
`ScreenIsWhatWasDrawn` leaves out those cells (`Struck`). A key whose translation
fails is dropped (`TuiInput.cpp` 104-106); the model's keys all have one.

*Video.* With HIRES and DHIRES on, the copy of the hidden auxiliary hi-res page
lies over the text page's (`Video.cpp` 886-904), so that a cell may not be drawn
again; `DisplayIsTrue` excludes it (`CopyLiesOver`). The worker thread never runs
(`singlethreaded` is never cleared).

*BASIC.* An import writes without dirty bits: a change of banks before the page
is dirtied drops it, and the next check exports the old program over the host's
text. Between an export and its own inotify event an edit of the guest is
overwritten. Without inotify an edit in the same second is missed, and a touched
but unchanged file makes later frames return early. `AT` followed by `N` is
exported as `ATN`. The file is emptied at start. What was written is not looked at
(`BasicLiveSync.cpp` 754-758): a text the host cut short, on a full disk, is recorded
as written, and its own inotify event then imports the stump over the program. A
file that cannot be opened is tried again at the next check. Lines of one number are
sorted by `std::sort` (699-702) and come in any order; in a positional file a
statement that begins with the number of its place loses it, and in a numbered one
a statement loses the spaces it begins with (`Mangled`). The model cuts a text short
between two lines.

## What is not modelled

- What the sequencer's PROM, the sound chips' generators and a resampler
  compute: functions of their inputs.
- The clock card, the speaker, the configuration and the FTP parser: no state
  outlives a call, or arithmetic on samples.
- Pacing by wall clock, full-speed batches, and activity reports.
- Windows, menus, drawing, disassembly and the debugger's pages: I/O.
- The direct table of I/O handlers, and what a card whose init fails part way
  leaves in it (`Peripheral.cpp` 1044 does so; no modelled card does).
- A registration that fails where a load of an old file has unregistered the card
  in the slot (`apply_legacy_swap`, `Snapshot.cpp` 217-221): `LoadIsWhole` is stated
  of cards that can be registered.
- 5-and-3 sectors, checksums of containers, byte layouts of save states.

## Plan

Done: the models above, and the proofs of twenty-two of them. Next, most important first:

1. `FloppyImages`: an image opened whole or not at all, on the pattern of
   `ServedFits`.
2. Activity reports, then full-speed batches and the audio pull, in
   `FrameScheduler`.
