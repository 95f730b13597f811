------------------------------- MODULE MouseCard -------------------------------
(***************************************************************************)
(* The AppleMouse II card: the 6805's side of the two strobes on port B,   *)
(* the commands it executes, the tick that reports to the interrupt line,  *)
(* the host's motion and button, and the frame of a save state             *)
(* (apple2/peripherals/mouse/Mouse.cpp).  The other actor is the firmware  *)
(* of the card's ROM (MouseRom.h), which sends a command byte by byte and  *)
(* collects the reply, and the program behind it, which may also move port *)
(* B's direction register under the card.                                  *)
(***************************************************************************)
EXTENDS Pia6821, Sequences

CONSTANTS MouseCalls,    \* the command sequences the firmware sends: bytes as integers
          Moves,         \* the <<dx, dy>> the host reports
          Period60, Period50, \* tick periods; 17030 and 20280 cycles in the code
          MouseSlack,    \* cycles by which the host may wake a card late
          MaxMouseSteps  \* bound: calls, host commands, saves and loads

VARIABLES mouse,      \* struct MouseCard without its PIA
          ports,      \* "a", "b" |-> the sides of its PIA
          mouseHost,  \* line, wake (cycles until it, or -1 for none), bank
          firmware,   \* the call under way
          notes,      \* what happened that the card need not remember
          mouseKept,  \* a save state
          mouseSteps

mouseVars == <<mouse, ports, mouseHost, firmware, notes, mouseKept, mouseSteps>>

-----------------------------------------------------------------------------
(* Bytes and words                                                         *)

ByteOf(n) == {i \in Lines : (n \div 2 ^ i) % 2 = 1}
SumOfBits(b) ==
    LET Bit(i, n) == IF i \in b THEN n ELSE 0
    IN Bit(0, 1) + Bit(1, 2) + Bit(2, 4) + Bit(3, 8) + Bit(4, 16) + Bit(5, 32) + Bit(6, 64) + Bit(7, 128)
LowByte(w) == ByteOf(w % 256)
HighByte(w) == ByteOf((w \div 256) % 256)
WordOf(low, high) ==
    LET n == SumOfBits(low) + 256 * SumOfBits(high) IN IF n > 32767 THEN n - 65536 ELSE n

ClampAxis(value, low, high) ==
    LET under == IF value < high THEN value ELSE high IN IF under > low THEN under ELSE low
Int16(n) == ClampAxis(n, -32768, 32767)

DefaultMin == 0
DefaultMax == 1023

(* Command groups: the high nibble of the first byte.                      *)
Group(b) == SumOfBits(b \ (0 .. 3)) \div 16
GroupName == <<"read", "serve", "clear", "pos", "init", "clamp", "home", "basic",
               "time", "data", "none", "none", "none", "none", "peek">>
Named(b) == IF Group(b) = 0 THEN "set" ELSE GroupName[Group(b)]
Peek == {4, 5, 6, 7}
Poke == Peek \cup {0}

CommandOutLen(b) ==
    CASE Named(b) \in {"pos", "clamp"} -> 5
      [] Named(b) = "time" -> 1 + (IF 3 \in b THEN 1 ELSE 0) + (IF 2 \in b THEN 2 ELSE 0)
      [] Named(b) = "data" -> 2
      [] b = Peek -> 3
      [] b = Poke -> 4
      [] OTHER -> 1

CommandInLen(b) ==
    CASE Named(b) = "read" -> 5
      [] Named(b) \in {"serve", "init"} \/ b = Peek -> 1
      [] OTHER -> 0

(* The firmware sends a command with as many bytes as the card takes for it. *)
ASSUME MouseAssumption ==
    /\ Period60 \in Nat \ {0} /\ Period50 \in Nat \ {0} /\ MouseSlack \in Nat
    /\ \A d \in Moves : d[1] \in Int /\ d[2] \in Int
    /\ \A c \in MouseCalls :
         c \in Seq(0 .. 255) /\ c # <<>> /\ Len(c) = CommandOutLen(ByteOf(c[1]))

(* peek_byte: the clamps, from $47 up.                                     *)
PeekByte(m, address) ==
    LET words == <<m.min.x, m.min.y, m.max.x, m.max.y>>
        i == address - 71
    IN CASE i \in {0, 1} -> HighByte(words[i + 1])
         [] i \in {2, 3} -> LowByte(words[i - 1])
         [] i \in {4, 5} -> HighByte(words[i - 1])
         [] i \in {6, 7} -> LowByte(words[i - 3])
         [] OTHER -> {}

-----------------------------------------------------------------------------
(* The tick.  toTick is next_tick less the host's cycle counter.           *)

MoveOrButton == {"move", "button"}

(* fire                                                                    *)
Reportable(m) ==
    (IF "on" \in m.mode THEN m.pending \cap m.mode \cap MoveOrButton ELSE {})
      \cup (m.mode \cap {"refresh"})

Fired(m) ==
    IF Reportable(m) = {} THEN [m EXCEPT !.pending = {}]
    ELSE [m EXCEPT !.pending = {}, !.sources = @ \cup Reportable(m), !.irq = TRUE]

(* advance: missed ticks collapse into one, the phase kept.                *)
MouseTicked(m) ==
    LET due == IF m.toTick < m.period THEN m.toTick ELSE m.period
        late == (-due) % m.period
    IN IF due > 0 THEN [m EXCEPT !.toTick = due]
       ELSE [Fired(m) EXCEPT !.toTick = m.period - late]

PeriodOf(rate50) == IF rate50 THEN Period50 ELSE Period60

RestartedTick(m) ==
    [m EXCEPT !.period = PeriodOf(m.rate50), !.toTick = PeriodOf(m.rate50)]

-----------------------------------------------------------------------------
(* execute                                                                 *)

Origin == [x |-> 0, y |-> 0]
AtDefaults(m) ==
    [m EXCEPT !.mode = {}, !.at = Origin, !.min = [x |-> DefaultMin, y |-> DefaultMin],
              !.max = [x |-> DefaultMax, y |-> DefaultMax], !.pending = {}, !.sources = {},
              !.irq = FALSE]

ReplyStatus(m) ==
    (IF m.moved THEN {5} ELSE {}) \cup (IF m.button THEN {7} ELSE {})
       \cup (IF m.buttonAtRead THEN {6} ELSE {})

SourceBit(s) == CASE s = "move" -> 1 [] s = "button" -> 2 [] s = "refresh" -> 3
ModeOf(b) == {n \in {"on", "move", "button", "refresh"} :
                  (IF n = "on" THEN 0 ELSE SourceBit(n)) \in b}

Reading(m) ==
    [m EXCEPT !.read = m.at, !.buttonAtRead = m.button, !.moved = FALSE, !.sources = {},
              !.buffer = [@ EXCEPT ![1] = LowByte(m.at.x), ![2] = HighByte(m.at.x),
                                   ![3] = LowByte(m.at.y), ![4] = HighByte(m.at.y),
                                   ![5] = ReplyStatus(m)]]

Initialised(m) == [RestartedTick(AtDefaults(m)) EXCEPT !.buffer[1] = Lines]

Clamped(m) ==
    LET low == WordOf(m.buffer[1], m.buffer[3])
        high == WordOf(m.buffer[2], m.buffer[4])
    IN IF 0 \in m.buffer[0] THEN [m EXCEPT !.min.y = low, !.max.y = high]
       ELSE [m EXCEPT !.min.x = low, !.max.x = high]

Served(m) ==
    [m EXCEPT !.buffer[1] = {SourceBit(s) : s \in m.sources}, !.sources = {}, !.irq = FALSE]

Executed(m) ==
    LET cmd == m.buffer[0]
        name == Named(cmd)
    IN CASE name = "set" -> [m EXCEPT !.mode = ModeOf(cmd)]
         [] name = "read" -> Reading(m)
         [] name = "serve" -> Served(m)
         [] name = "clear" -> [m EXCEPT !.at = Origin]
         [] name = "pos" -> [m EXCEPT !.at = [x |-> WordOf(m.buffer[1], m.buffer[2]),
                                              y |-> WordOf(m.buffer[3], m.buffer[4])]]
         [] name = "init" -> Initialised(m)
         [] name = "clamp" -> Clamped(m)
         [] name = "home" -> [m EXCEPT !.at = m.min]
         [] name = "basic" /\ cmd = {7} -> [m EXCEPT !.mode = {"on"}, !.at = Origin]
         [] name = "time" -> [m EXCEPT !.rate50 = 0 \in cmd]
         [] cmd = Peek ->
              [m EXCEPT !.buffer[3] =
                   PeekByte(m, SumOfBits(m.buffer[1]) + 256 * SumOfBits(m.buffer[2]))]
         [] OTHER -> m

-----------------------------------------------------------------------------
(* The strobes                                                             *)

Bank == {1, 2, 3}
ReadStrobe == 4
WriteStrobe == 5
ByteReady == 6
Busy == 7
CardDriven == Bank \cup {ReadStrobe, WriteStrobe}

ReplyLevels(strobes) ==
    (IF ReadStrobe \notin strobes THEN {ByteReady} ELSE {})
       \cup (IF WriteStrobe \in strobes THEN {Busy} ELSE {})

(* take_byte                                                               *)
Taken(m, byte) ==
    LET got == IF m.pos = 0
               THEN [m EXCEPT !.buffer = [[i \in 0 .. 7 |-> {}] EXCEPT ![0] = byte],
                              !.outLen = CommandOutLen(byte), !.inLen = CommandInLen(byte),
                              !.replyPos = 0, !.pos = 1]
               ELSE [m EXCEPT !.buffer[m.pos] = byte, !.pos = @ + 1]
    IN IF got.pos < got.outLen THEN got ELSE [Executed(got) EXCEPT !.pos = 0]

Edge(m, data, strobe) == (strobe \in m.shadowB) # (strobe \in data)

(* What the card does with an ORB write that changes a line it watches:    *)
(* the write strobe first, then the read strobe.                           *)
OnWriteStrobe(m, data) ==
    IF ~Edge(m, data, WriteStrobe) \/ WriteStrobe \in data THEN m ELSE Taken(m, m.shadowA)

\* (A plausible bug: the reply never moves on to its next byte.)
OnReadStrobe_same_byte(m, was, data) == m

OnReadStrobe(m, was, data) ==
    IF ~Edge(was, data, ReadStrobe) \/ ReadStrobe \in data \/ m.replyPos >= m.inLen THEN m
    ELSE [m EXCEPT !.replyPos = @ + 1]

(* The reply of the edge that comes; the other one stays.                  *)
Replies(m, data) ==
    ((IF Edge(m, data, WriteStrobe) THEN ReplyLevels(data) ELSE m.shadowB) \cap {Busy})
      \cup ((IF Edge(m, data, ReadStrobe) THEN ReplyLevels(data) ELSE m.shadowB)
               \cap {ByteReady})

(* present_reply: on port A after a whole command or a reply collected.    *)
Falls(m, data, strobe) == Edge(m, data, strobe) /\ strobe \notin data

Presented(was, m, data, portA) ==
    IF /\ m.replyPos < m.inLen
       /\ \/ Falls(was, data, ReadStrobe)
          \/ Falls(was, data, WriteStrobe) /\ m.pos = 0
    THEN m.buffer[m.outLen + m.replyPos] ELSE portA

(* pia_listener_b                                                          *)
ListenerB(m, data) ==
    LET lines == data \cap CardDriven
    IN [OnReadStrobe(OnWriteStrobe(m, data), m, data) EXCEPT !.shadowB = lines \cup Replies(m, data)]

-----------------------------------------------------------------------------
(* reset_card and the host                                                 *)

ResetCard(m) ==
    [AtDefaults(m) EXCEPT
        !.shadowA = {}, !.shadowB = {ByteReady}, !.buffer = [i \in 0 .. 7 |-> {}], !.pos = 0,
        !.outLen = 1, !.inLen = 0, !.replyPos = 0, !.read = Origin, !.buttonAtRead = FALSE,
        !.moved = FALSE, !.rate50 = FALSE, !.period = Period60, !.toTick = Period60]

PortsReset == [a |-> PiaReset, b |-> [PiaReset EXCEPT !.in = {ByteReady}]]

NewMouse ==
    ResetCard([mode |-> {}, at |-> Origin, min |-> Origin, max |-> Origin, read |-> Origin,
               button |-> FALSE, buttonAtRead |-> FALSE, moved |-> FALSE, sources |-> {},
               pending |-> {}, irq |-> FALSE, rate50 |-> FALSE, period |-> 0, toTick |-> 0,
               shadowA |-> {}, shadowB |-> {}, buffer |-> <<>>, pos |-> 0, outLen |-> 1,
               inLen |-> 0, replyPos |-> 0])

(* set_irq calls the host when the latch moves; advance and restart_tick   *)
(* ask it for the next wake, register_bank gives it the ROM's bank.        *)
HostAfter(m) ==
    [line |-> IF mouse.irq = m.irq THEN mouseHost.line ELSE m.irq,
     wake |-> m.toTick, bank |-> m.shadowB \cap Bank]

-----------------------------------------------------------------------------
(* The firmware                                                            *)

MouseIdle == [todo |-> <<>>, replies |-> 0, heard |-> <<>>, phase |-> "idle"]
NothingNoted ==
    [reading |-> [at |-> Origin, status |-> {}], readSince |-> FALSE, firstWake |-> TRUE]

Count == mouseSteps < MaxMouseSteps /\ mouseSteps' = mouseSteps + 1

(* mouse_io: every access is preceded by the tick.                         *)
MouseWriteOrb(data, fw) ==
    LET m == MouseTicked(mouse)
        written == PiaWrite("b", ports.b, data)
        out == PiaOutput(written)
        changed == (m.shadowB \cap CardDriven) # (out \cap CardDriven)
        after == IF changed THEN ListenerB(m, out) ELSE m
    IN /\ mouse' = after
       /\ ports' = [a |-> [ports.a EXCEPT !.in = Presented(m, after, out, @)],
                    b |-> IF changed THEN [written EXCEPT !.in = after.shadowB] ELSE written]
       /\ mouseHost' = HostAfter(after)
       /\ firmware' = fw
       /\ notes' =
            [reading |-> IF Falls(m, out, WriteStrobe)
                         THEN [at |-> m.at, status |-> ReplyStatus(m)] ELSE notes.reading,
             readSince |-> /\ after.irq
                           /\ notes.readSince \/ (m.sources # {} /\ after.sources = {}),
             firstWake |-> FALSE]
       /\ UNCHANGED mouseKept

ReadBank == {2, 3}
WriteBank == {1, 2}

StartCall ==
    /\ firmware.phase = "idle" /\ Count
    /\ ports.b.ddr = CardDriven
    /\ \E call \in MouseCalls :
          LET first == ByteOf(call[1])
          IN MouseWriteOrb(WriteBank, [todo |-> call, replies |-> CommandInLen(first),
                                  heard |-> <<>>, phase |-> "put"])

(* Waits for PB7 low, then drives port A with the byte.                    *)
PutByte ==
    LET m == MouseTicked(mouse)
        byte == ByteOf(Head(firmware.todo))
    IN /\ firmware.phase = "put" /\ Busy \notin PiaData("b", ports.b)
       /\ mouse' = [m EXCEPT !.shadowA = byte]
       /\ ports' = [ports EXCEPT !.a.ddr = Lines, !.a.out = byte, !.a.cr = {"ddr"}]
       /\ mouseHost' = HostAfter(m)
       /\ firmware' = [firmware EXCEPT !.phase = "raise", !.todo = Tail(@)]
       /\ notes' = [notes EXCEPT !.firstWake = FALSE]
       /\ UNCHANGED <<mouseKept, mouseSteps>>

RaiseWrite ==
    /\ firmware.phase = "raise"
    /\ MouseWriteOrb(PiaData("b", ports.b) \cup {WriteStrobe}, [firmware EXCEPT !.phase = "sent"])
    /\ UNCHANGED mouseSteps

(* Waits for PB7 high.                                                     *)
LowerWrite ==
    /\ firmware.phase = "sent" /\ Busy \in PiaData("b", ports.b)
    /\ MouseWriteOrb(PiaData("b", ports.b) \ {WriteStrobe},
                [firmware EXCEPT !.phase = IF firmware.todo # <<>> THEN "put"
                                           ELSE IF firmware.replies > 0 THEN "bank" ELSE "idle"])
    /\ UNCHANGED mouseSteps

TurnToReading ==
    /\ firmware.phase = "bank"
    /\ MouseWriteOrb(ReadBank, [firmware EXCEPT !.phase = "take"])
    /\ UNCHANGED mouseSteps

(* Waits for PB6 high, turns port A round and takes the byte.              *)
TakeReply ==
    LET m == MouseTicked(mouse)
    IN /\ firmware.phase = "take" /\ ByteReady \in PiaData("b", ports.b)
       /\ mouse' = m
       /\ ports' = [ports EXCEPT !.a.ddr = {}, !.a.cr = {"ddr"}]
       /\ mouseHost' = HostAfter(m)
       /\ firmware' = [firmware EXCEPT !.heard = Append(@, PiaData("a", ports'.a)),
                                       !.phase = "ack"]
       /\ notes' = [notes EXCEPT !.firstWake = FALSE]
       /\ UNCHANGED <<mouseKept, mouseSteps>>

RaiseRead ==
    /\ firmware.phase = "ack"
    /\ MouseWriteOrb(PiaData("b", ports.b) \cup {ReadStrobe}, [firmware EXCEPT !.phase = "acked"])
    /\ UNCHANGED mouseSteps

(* Waits for PB6 low.                                                      *)
LowerRead ==
    /\ firmware.phase = "acked" /\ ByteReady \notin PiaData("b", ports.b)
    /\ MouseWriteOrb(PiaData("b", ports.b) \ {ReadStrobe},
                IF firmware.replies > 1
                THEN [firmware EXCEPT !.replies = @ - 1, !.phase = "take"] ELSE MouseIdle)
    /\ UNCHANGED mouseSteps

(* A program that moves port B's direction register, as the initialisation *)
(* of the firmware does: pins move and no listener is called.              *)
TurnPortB ==
    LET m == MouseTicked(mouse)
    IN /\ firmware.phase = "idle" /\ Count
       /\ mouse' = m
       /\ ports' = [ports EXCEPT !.b.cr = {"ddr"},
                                 !.b.ddr = IF @ = CardDriven THEN {} ELSE CardDriven]
       /\ mouseHost' = HostAfter(m)
       /\ notes' = [notes EXCEPT !.firstWake = FALSE]
       /\ UNCHANGED <<firmware, mouseKept>>

-----------------------------------------------------------------------------
(* The host                                                                *)

(* A cycle passes; the host does not pass a wake by more than its slack.   *)
MouseCycle ==
    /\ mouseHost.wake > -MouseSlack
    /\ ~notes.firstWake
    /\ mouse' = [mouse EXCEPT !.toTick = @ - 1]
    /\ mouseHost' = [mouseHost EXCEPT !.wake = @ - 1]
    /\ UNCHANGED <<ports, firmware, notes, mouseKept, mouseSteps>>

(* think: when the wake is due, and once at the start of a frame.          *)
MouseThink ==
    /\ mouseHost.wake <= 0 \/ notes.firstWake
    /\ mouse' = MouseTicked(mouse)
    /\ mouseHost' = HostAfter(mouse')
    /\ notes' = [notes EXCEPT !.firstWake = FALSE]
    /\ UNCHANGED <<ports, firmware, mouseKept, mouseSteps>>

(* mouse_cmd_move                                                          *)
MouseMove ==
    /\ Count
    /\ \E d \in Moves :
          LET to == [x |-> ClampAxis(mouse.at.x + Int16(d[1]), mouse.min.x, mouse.max.x),
                     y |-> ClampAxis(mouse.at.y + Int16(d[2]), mouse.min.y, mouse.max.y)]
          IN mouse' = IF "on" \notin mouse.mode \/ to = mouse.at THEN mouse
                      ELSE [mouse EXCEPT !.at = to, !.moved = TRUE, !.pending = @ \cup {"move"}]
    /\ UNCHANGED <<ports, mouseHost, firmware, notes, mouseKept>>

(* mouse_cmd_set_button                                                    *)
MouseButton ==
    /\ Count
    /\ mouse' = [mouse EXCEPT !.button = ~@,
                              !.pending = IF "on" \in mouse.mode THEN @ \cup {"button"} ELSE @]
    /\ UNCHANGED <<ports, mouseHost, firmware, notes, mouseKept>>

(* Ctrl-Reset: the 6502 leaves the firmware.                               *)
MouseReset ==
    /\ Count
    /\ mouse' = ResetCard(mouse)
    /\ ports' = PortsReset
    /\ mouseHost' = HostAfter(mouse')
    /\ firmware' = MouseIdle
    /\ notes' = [NothingNoted EXCEPT !.firstWake = FALSE]
    /\ UNCHANGED mouseKept

-----------------------------------------------------------------------------
(* Save states.  The 6502 and its memory are saved with the card.          *)

NoMouseFrame == [none |-> TRUE]

MouseFrame ==
    [none |-> FALSE, card |-> [mouse EXCEPT !.toTick = IF @ > 0 THEN @ ELSE 0], ports |-> ports,
     firmware |-> firmware, notes |-> notes]

(* frame_refusal, but for what the width of a field rules out.             *)
FrameRefused(f) ==
    \/ f.card.pos \notin 0 .. 7 \/ f.card.outLen \notin 1 .. 8
    \/ f.card.inLen # 0 /\ f.card.inLen # CommandInLen(f.card.buffer[0])
    \/ f.card.replyPos > CommandInLen(f.card.buffer[0])
    \/ f.card.shadowB \cap {0, ByteReady, Busy} # ReplyLevels(f.card.shadowB)

LoadedShadow(f) ==
    LET pins == PiaOutput(f.ports.b) \cap CardDriven
    IN IF f.card.shadowB \cap CardDriven # pins THEN pins \cup ReplyLevels(pins)
       ELSE f.card.shadowB

LoadedMouse(f) ==
    LET period == PeriodOf(f.card.rate50)
    IN [f.card EXCEPT
          !.shadowB = LoadedShadow(f),
          !.outLen = CommandOutLen(f.card.buffer[0]), !.inLen = CommandInLen(f.card.buffer[0]),
          !.sources = IF f.card.irq THEN @ ELSE {}, !.period = period,
          !.toTick = IF @ < period THEN @ ELSE period]

MouseSave ==
    /\ Count
    /\ mouseKept' = MouseFrame
    /\ UNCHANGED <<mouse, ports, mouseHost, firmware, notes>>

(* The CPU's own restore leaves the line as it likes; the card drives it.  *)
MouseLoad ==
    /\ ~mouseKept.none /\ ~FrameRefused(mouseKept) /\ Count
    /\ mouse' = LoadedMouse(mouseKept)
    /\ ports' = [mouseKept.ports EXCEPT !.b.in = mouse'.shadowB]
    /\ mouseHost' = [line |-> mouse'.irq, wake |-> mouse'.toTick,
                     bank |-> mouse'.shadowB \cap Bank]
    /\ firmware' = mouseKept.firmware
    /\ notes' = [mouseKept.notes EXCEPT !.firstWake = FALSE]
    /\ UNCHANGED mouseKept

-----------------------------------------------------------------------------
MouseInit ==
    /\ mouse = NewMouse
    /\ ports = PortsReset
    /\ mouseHost = [line |-> FALSE, wake |-> -1, bank |-> {}]
    /\ firmware = MouseIdle
    /\ notes = NothingNoted
    /\ mouseKept = NoMouseFrame
    /\ mouseSteps = 0

MouseNext ==
    \/ StartCall \/ PutByte \/ RaiseWrite \/ LowerWrite \/ TurnToReading
    \/ TakeReply \/ RaiseRead \/ LowerRead \/ TurnPortB
    \/ MouseCycle \/ MouseThink \/ MouseMove \/ MouseButton \/ MouseReset
    \/ MouseSave \/ MouseLoad

-----------------------------------------------------------------------------
(* The firmware is never left waiting for a reply, whatever was saved,     *)
(* loaded or moved while it talks: each of its waits finds the level it    *)
(* waits for, the ROM bank it runs in is the one it selected, and the      *)
(* state the card would save at any moment is one it takes back.           *)
FirmwareIsAnswered ==
    LET b == PiaData("b", ports.b)
    IN /\ firmware.phase = "put" => Busy \notin b
       /\ firmware.phase = "sent" => Busy \in b
       /\ firmware.phase = "take" => ByteReady \in b
       /\ firmware.phase = "acked" => ByteReady \notin b
       /\ mouseHost.bank = mouse.shadowB \cap Bank
       /\ ~FrameRefused(MouseFrame)

(* The five bytes READMOUSE hands over are one reading, of where the mouse *)
(* was when the command was taken, however far the host moves it while the *)
(* firmware collects them.                                                 *)
ReadingIsWhole ==
    LET at == notes.reading.at
        reading == <<LowByte(at.x), HighByte(at.x), LowByte(at.y), HighByte(at.y),
                     notes.reading.status>>
    IN Named(mouse.buffer[0]) = "read" =>
         \A i \in 1 .. Len(firmware.heard) : firmware.heard[i] = reading[i]

(* The interrupt line is the card's latch and never up without a source to *)
(* serve, except where a READMOUSE took the sources with the line up; a    *)
(* source never waits without the line; and the host has a wake for the    *)
(* tick that will raise it, not later than the tick.                       *)
InterruptsAreAccounted ==
    /\ mouseHost.line = mouse.irq
    /\ mouse.sources # {} => mouse.irq
    /\ mouse.irq => mouse.sources # {} \/ notes.readSince
    /\ ~notes.firstWake => mouseHost.wake = mouse.toTick
    /\ mouse.toTick <= mouse.period

\* What the card owes the firmware and the program: an answer to every wait, one
\* reading for one READMOUSE, and an interrupt exactly for what there is to serve.
MouseKeepsItsPromises ==
    /\ FirmwareIsAnswered
    /\ ReadingIsWhole
    /\ InterruptsAreAccounted
=============================================================================
