------------------------------ MODULE SerialCard ------------------------------
(***************************************************************************)
(* The Super Serial Card (SuperSerial.cpp) around its 6551, and the byte   *)
(* sink of the host it talks through (Peripheral.cpp).  Every entry of the *)
(* card brings the chip up to the machine's clock, does its own work, and  *)
(* settles: what left goes to the sink, a byte that waits at the far end   *)
(* is pulled if the receiver can hold it, and the line format, the slot's  *)
(* interrupt and the next wake follow the chip.                            *)
(*                                                                         *)
(* The far end is whatever the frontend attaches: it answers with the      *)
(* modem lines and has a byte waiting or not.                              *)
(***************************************************************************)
EXTENDS Acia6551

CONSTANTS
  Commands,   \* the settings of the command register a program uses
  Answers,    \* the modem lines a far end may show
  Late,       \* cycles a wake may come late: less than one instruction
  MaxLag,     \* bound: cycles from one entry of the card to the next
  AnySave     \* states are saved where Savable does not hold, too

ASSUME SerialCardAssumption ==
  /\ Commands \subseteq Command
  /\ Answers \subseteq SUBSET Inputs /\ Inputs \in Answers
  /\ Late \in Nat /\ Late < Rdrf
  /\ MaxLag \in Nat \ {0}
  /\ AnySave \in BOOLEAN

VARIABLES
  chip,      \* acia, as of the last entry of the card
  lag,       \* the cycles that have passed since
  wake,      \* the wake asked for, in cycles from that entry: a set of at most one
  slotIrq,   \* slot_irq, what the card last told the host
  irqLine,   \* the slot's bit of bm_irq
  forwards,  \* SW2-6: interrupts go to the slot
  sent,      \* line_sent, and the record's line
  sink,      \* a frontend has installed its sink
  opened,    \* SinkRecord::opened
  device,    \* the line format the open device was last told, if it was: a set
  answer,    \* the modem lines it shows
  waiting,   \* it has a byte for the card
  ahead      \* history: bytes pulled that the program has not read

host == <<sink, opened, device>>
farEnd == <<answer, waiting>>
vars == <<chip, lag, wake, slotIrq, irqLine, forwards, sent, host, farEnd, ahead>>

Format == [baud : BOOLEAN, dtr : BOOLEAN, rts : BOOLEAN, brk : BOOLEAN]

TypeOK ==
  /\ chip \in Chip
  /\ lag \in 0 .. MaxLag
  /\ wake \in SUBSET (- Frame .. Frame)
  /\ slotIrq \in BOOLEAN /\ irqLine \in BOOLEAN /\ forwards \in BOOLEAN
  /\ sent \in Format
  /\ sink \in BOOLEAN /\ opened \in BOOLEAN
  /\ device \subseteq Format
  /\ answer \in Answers /\ waiting \in BOOLEAN
  /\ ahead \in 0 .. 2

\* super_serial_abi_init, before the frontend has a sink.
Init ==
  /\ chip = ResetChip([lines |-> Inputs])
  /\ lag = 0 /\ wake = {}
  /\ slotIrq = FALSE /\ irqLine = FALSE /\ forwards = TRUE
  /\ sent = View(chip)
  /\ sink = FALSE /\ opened = FALSE /\ device = {}
  /\ answer = Inputs /\ waiting = FALSE
  /\ ahead = 0

-----------------------------------------------------------------------------
\* What the entries are made of.

\* host_lines: a host with nothing to say reads as no cable.
HostLines == IF sink THEN answer ELSE Inputs

\* send_bytes
Sent(a) == [a EXCEPT !.pending = FALSE, !.leaving = IF a.pending THEN @ - 1 ELSE @]

\* sync
Synced == Sent(SetLines(Advance(chip, lag), HostLines))

\* send_line and follow_line; the first call of any kind opens the slot at the
\* sink there is now, and replays the record's format to it.
FollowLine(a) ==
  /\ sent' = View(a)
  /\ opened' = (opened \/ sink)
  /\ device' = IF sink /\ (~ opened \/ sent' # sent) THEN {sent'} ELSE device

\* AssertIrq is called on a change of what the card last said.
FollowIrq(a, told, line, switch) ==
  LET level == a.irq /\ switch
  IN  /\ slotIrq' = level
      /\ irqLine' = IF level # told THEN level ELSE line

NextWake(a) == IF Events(a) = {} THEN {} ELSE {Min(Events(a))}

\* pull_byte: a byte leaves the host only when the receiver can hold it.
PullByte(a, unread) ==
  LET pulls == RxReady(a) /\ sink /\ waiting
  IN  /\ chip' = IF pulls THEN RxStart(a, unread + 1) ELSE a
      /\ ahead' = IF pulls THEN unread + 1 ELSE unread
      /\ waiting' = (waiting /\ ~ pulls)

\* Mutant: the wake is asked for before a byte is pulled.
SettleWakeFirst(a, unread) ==
  /\ PullByte(Sent(a), unread)
  /\ FollowLine(chip')
  /\ FollowIrq(chip', slotIrq, irqLine, forwards)
  /\ wake' = NextWake(Sent(a))
  /\ lag' = 0

Settle(a, unread) ==
  /\ PullByte(Sent(a), unread)
  /\ FollowLine(chip')
  /\ FollowIrq(chip', slotIrq, irqLine, forwards)
  /\ wake' = NextWake(chip')
  /\ lag' = 0

-----------------------------------------------------------------------------
\* The card's entries.

\* super_serial_abi_think: a wake, or the end of a frame.
Think ==
  /\ Settle(Synced, ahead)
  /\ UNCHANGED <<forwards, sink, answer>>

ReadDataRegister ==
  /\ LET now == Synced
     IN  Settle(ReadData(now), IF now.rdrf /\ ahead > 0 THEN ahead - 1 ELSE ahead)
  /\ UNCHANGED <<forwards, sink, answer>>

\* The other reads: the status register clears the interrupt, the rest nothing.
ReadRegister(status) ==
  /\ Settle(IF status THEN ReadStatus(Synced) ELSE Synced, ahead)
  /\ UNCHANGED <<forwards, sink, answer>>

WriteRegister ==
  /\ LET now == Synced
     IN  \/ Settle(WriteData(now), ahead)
         \/ Settle(ProgrammedReset(now), ahead)
         \/ \E c \in Commands : Settle(WriteCommand(now, c), ahead)
         \/ \E clocked \in BOOLEAN : Settle(WriteControl(now, clocked), ahead)
  /\ UNCHANGED <<forwards, sink, answer>>

\* SUPER_SERIAL_CMD_SET_SWITCHES
SetSwitches(on) ==
  /\ forwards' = on
  /\ FollowIrq(chip, slotIrq, irqLine, on)
  /\ UNCHANGED <<chip, lag, wake, sent, host, farEnd, ahead>>

\* super_serial_abi_reset
Reset ==
  /\ chip' = SetLines(ResetChip(chip), HostLines)
  /\ FollowLine(chip')
  /\ FollowIrq(chip', slotIrq, irqLine, forwards)
  /\ wake' = {} /\ lag' = 0 /\ ahead' = 0
  /\ UNCHANGED <<forwards, sink, farEnd>>

\* super_serial_abi_save_state: the registers of the chip as it stands.
SavedChip ==
  [chip EXCEPT !.txLeft = 0, !.phase = 0, !.rxLeft = 0, !.ready = - 1, !.completed = FALSE]

\* Not in the tail of a frame, after RDRF, and not with a character stopped on
\* its way in by a control register that took its clock.
Savable == chip.rxBusy => (chip.clocked /\ ~ chip.completed)

\* A state saved where the card stands is loaded: snapshot_deserialize resets
\* the card, cpu_set_snapshot drops every interrupt line, and
\* super_serial_abi_load_state puts the registers back.
LoadState ==
  /\ AnySave \/ Savable
  /\ chip' = SetLines(Restart(SavedChip), HostLines)
  /\ FollowLine(chip')
  /\ FollowIrq(chip', FALSE, FALSE, forwards)
  /\ wake' = NextWake(chip') /\ lag' = 0
  /\ UNCHANGED <<forwards, sink, farEnd, ahead>>

-----------------------------------------------------------------------------
\* The machine, the host and the far end.

\* A wake comes late by less than an instruction (FrameScheduler), and every
\* frame ends with a think.
Tick ==
  /\ lag < MaxLag
  /\ \A w \in wake : lag < Max({w, 0}) + Late
  /\ lag' = lag + 1
  /\ UNCHANGED <<chip, wake, slotIrq, irqLine, forwards, sent, host, farEnd, ahead>>

\* linapple_set_byte_sink: the outgoing sink closes what it opened.
SetByteSink(on) ==
  /\ sink' = on /\ opened' = FALSE /\ device' = {}
  /\ UNCHANGED <<chip, lag, wake, slotIrq, irqLine, forwards, sent, farEnd, ahead>>

FarEnd ==
  /\ \/ answer' \in Answers /\ waiting' = waiting
     \/ waiting' = TRUE /\ answer' = answer
  /\ UNCHANGED <<chip, lag, wake, slotIrq, irqLine, forwards, sent, host, ahead>>

Next ==
  \/ Tick \/ Think
  \/ ReadDataRegister \/ WriteRegister
  \/ \E status \in BOOLEAN : ReadRegister(status)
  \/ \E on \in BOOLEAN : SetSwitches(on) \/ SetByteSink(on)
  \/ Reset \/ LoadState \/ FarEnd

Spec == Init /\ [][Next]_vars

-----------------------------------------------------------------------------
\* What the receive register holds is the byte the program is to read next:
\* none is lost on the way, doubled or made up (6551.h 138-140).
NextByteOnly == chip.rdrf => chip.rdr = 1

\* "a slow reader sees bytes wait rather than an overrun" (SuperSerial.cpp
\* 143-146): however late the program reads, the receiver never overruns.
NeverOverruns == ~ chip.overrun

\* A byte the chip emits while it is brought up to date is handed to the sink
\* before another is emitted over it (6551.h, has_pending_out).
OnceOnTheWire == chip.leaving = (IF chip.pending THEN 1 ELSE 0)

\* The chip is never further behind the machine than the wake allows: each of
\* its events is played back within an instruction of its cycle, whatever entry
\* brought it about (SuperSerial.cpp 200-201).
EventsOnTime == \A e \in Events(chip) : lag <= e + Late \/ lag <= Late

\* The slot's interrupt is up exactly while the chip's is and SW2-6 forwards it.
SlotFollowsChip == irqLine = (chip.irq /\ forwards)

\* The attached device has been told the format the chip is set to, however
\* often devices came and went (Peripheral.h, SinkSetLine).
DeviceHasTheFormat == opened => device = {View(chip)}

\* The card between the program, the slot and the far end: bytes pass once and in
\* order, in time, and every party is told what concerns it.
CardKeepsTheLine ==
  /\ TypeOK
  /\ NextByteOnly /\ NeverOverruns /\ OnceOnTheWire
  /\ EventsOnTime /\ SlotFollowsChip /\ DeviceHasTheFormat

\* CTS and an arriving byte wake nobody; the thinks look.  None leaves a byte
\* that could move: one held in the transmit register for the far end goes out,
\* and one at the far end is taken when the receiver has room, whatever the line,
\* the program and the loads did in between (SuperSerial.cpp 185-203).
CouldMove ==
  \/ chip.tdrFull /\ ~ chip.txBusy /\ Sends(chip)
  \/ sink /\ waiting /\ RxReady(chip)

ThinkLeavesNothingHeld == [][CouldMove' => ~ Think]_vars
=============================================================================
