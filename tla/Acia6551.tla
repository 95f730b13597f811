------------------------------- MODULE Acia6551 -------------------------------
(***************************************************************************)
(* apple2/chips/6551.cpp: the 6551 of the Super Serial Card.  The chip is  *)
(* brought up to date lazily: nothing happens to it between two register   *)
(* accesses, and each access first plays back, at its own cycle, every     *)
(* event that fell due since the last.  A chip is a record; its times are  *)
(* in cycles from the cycle it was last brought up to (synced).            *)
(*                                                                         *)
(* Every character takes Frame cycles: the control register gives the      *)
(* transmitter and the receiver their clock, or takes it.  A byte on the   *)
(* way to the program is the number of bytes from the one the program is   *)
(* to read next, counting that one; Nul is the 0 of an empty shifter.      *)
(***************************************************************************)
EXTENDS Integers, FiniteSetsExt

CONSTANTS
  Frame,  \* frame_cycles, the length of a character
  Rdrf    \* acia_rdrf_sixteenths, where in it the byte is complete

ASSUME AciaAssumption == Frame \in Nat /\ Rdrf \in 1 .. Frame - 1

Inputs == {"cts", "dsr", "dcd"}
Transmit == {"off", "irq", "on", "break"}
Nul == 0
Bytes == 0 .. 3

Command == [tic : Transmit, dtr : BOOLEAN, quiet : BOOLEAN, echo : BOOLEAN]

Chip == [
  clocked : BOOLEAN,                 \* has_clock
  tic : Transmit, dtr : BOOLEAN, quiet : BOOLEAN, echo : BOOLEAN,
  tdrFull : BOOLEAN, txBusy : BOOLEAN, rdrf : BOOLEAN, rxBusy : BOOLEAN,
  overrun : BOOLEAN, irq : BOOLEAN, fromLines : BOOLEAN, brk : BOOLEAN,
  completed : BOOLEAN,               \* rx_completed
  txLeft : - Frame .. Frame,         \* to tx_busy_until
  phase : 0 .. Frame - 1,            \* since the last boundary of the character
                                     \* clock (tx_anchor)
  rxLeft : 0 .. Frame,               \* to rx_free_at
  ready : - 1 .. Frame - 1,          \* since the receiver could take a byte, if
                                     \* that was in the last advance; else -1
  rdr : Bytes, shift : Bytes,        \* receive_data, shift_data
  pending : BOOLEAN,                 \* has_pending_out
  leaving : 0 .. 2,                  \* history: bytes emitted and not handed over
  lines : SUBSET Inputs]

-----------------------------------------------------------------------------
\* The transmitter.

Sends(a) == a.clocked /\ a.tic \in {"irq", "on"} /\ "cts" \in a.lines

RaiseIrq(a, fromLines) ==
  [a EXCEPT !.irq = TRUE, !.fromLines = (a.irq => @) /\ fromLines]

Emit(a) == [a EXCEPT !.pending = TRUE, !.leaving = @ + 1]

\* at is 0, or behind for a boundary noticed late.
StartTransmit(a, at) ==
  LET b == [Emit(a) EXCEPT !.tdrFull = FALSE, !.txBusy = TRUE, !.txLeft = at + Frame,
                             !.phase = (- at) % Frame]
  IN  IF a.tic = "irq" /\ a.dtr THEN RaiseIrq(b, FALSE) ELSE b

TryStart(a) == IF a.tdrFull /\ ~ a.txBusy /\ Sends(a) THEN StartTransmit(a, 0) ELSE a

\* With nothing to send the interrupt recurs at every character boundary.
Recurs(a) == a.tic = "irq" /\ a.dtr /\ Sends(a)

BoundaryArmed(a) == a.clocked /\ (a.txBusy \/ Recurs(a) \/ (a.tic = "break" /\ ~ a.brk))

ToBoundary(a) == IF a.txBusy THEN a.txLeft ELSE Frame - a.phase

OnBoundary(a, at) ==
  LET ended == [a EXCEPT !.txBusy = FALSE, !.txLeft = 0]
      idle == [ended EXCEPT !.phase = (- at) % Frame]
  IN  IF a.tic = "break" THEN [ended EXCEPT !.brk = TRUE]
      ELSE IF a.tdrFull /\ Sends(a) THEN StartTransmit(ended, at)
      ELSE IF Recurs(a) THEN RaiseIrq(idle, FALSE) ELSE idle

-----------------------------------------------------------------------------
\* The receiver.

\* A byte that completes into a full register is lost.
OnRdrf(a) ==
  LET shifted == [a EXCEPT !.completed = TRUE, !.shift = Nul]
      taken == [shifted EXCEPT !.rdr = a.shift, !.rdrf = TRUE, !.overrun = FALSE]
      raised == IF a.dtr /\ ~ a.quiet THEN RaiseIrq(taken, FALSE) ELSE taken
  IN  IF a.rdrf THEN [shifted EXCEPT !.overrun = TRUE]
      ELSE IF a.echo /\ a.tic = "off" /\ a.clocked /\ "cts" \in a.lines THEN Emit(raised)
      ELSE raised

\* completed is looked at while the receiver is busy only.
OnFree(a) == [a EXCEPT !.rxBusy = FALSE, !.completed = FALSE, !.ready = 0]

\* "a slow reader sees bytes wait rather than an overrun"
RxReady(a) == a.clocked /\ a.dtr /\ "dcd" \in a.lines /\ ~ a.rxBusy /\ ~ a.rdrf

\* The byte starts where the receiver became ready for it, not where it is pulled.
RxStart(a, byte) ==
  [a EXCEPT !.shift = byte, !.completed = FALSE, !.rxBusy = TRUE,
            !.rxLeft = IF a.ready >= 0 THEN Frame - a.ready ELSE Frame]

-----------------------------------------------------------------------------
\* Time.

\* One cycle later: what falls due at it, the receiver first.
Cycle(a) ==
  LET due == BoundaryArmed(a) /\ ToBoundary(a) = 1
      b == [a EXCEPT
              !.txLeft = IF a.txBusy /\ @ > - Frame THEN @ - 1 ELSE @,
              !.phase = IF a.clocked THEN (@ + 1) % Frame ELSE @,
              !.rxLeft = IF a.rxBusy THEN @ - 1 ELSE @,
              !.ready = IF @ >= 0 THEN @ + 1 ELSE @]
      c == IF b.rxBusy /\ ~ b.completed /\ b.rxLeft = Frame - Rdrf THEN OnRdrf(b) ELSE b
      d == IF c.rxBusy /\ c.rxLeft = 0 THEN OnFree(c) ELSE c
  IN  IF due THEN OnBoundary(d, 0) ELSE d

\* A character whose end passed while there was no clock ends where it was to.
CatchUp(a) ==
  IF a.clocked /\ a.txBusy /\ a.txLeft <= 0 THEN OnBoundary(a, a.txLeft) ELSE a

Advance(a, n) ==
  LET played[k \in 0 .. n] ==
        IF k = 0 THEN [CatchUp(CatchUp(a)) EXCEPT !.ready = - 1] ELSE Cycle(played[k - 1])
  IN  IF n = 0 THEN a ELSE played[n]

\* The cycles to the next event of the chip, if it has one.
Events(a) ==
  (IF BoundaryArmed(a) THEN {ToBoundary(a)} ELSE {})
    \cup (IF a.rxBusy THEN {IF a.completed THEN a.rxLeft ELSE a.rxLeft - (Frame - Rdrf)} ELSE {})

-----------------------------------------------------------------------------
\* The pins and the registers, at the cycle the chip has been brought up to.

\* Mutant: a byte held for the far end waits for the next write.
SetLinesOnly(a, lines) ==
  LET modem(s) == s \cap {"dsr", "dcd"}
      b == [a EXCEPT !.lines = lines]
  IN  IF modem(a.lines) # modem(lines) /\ a.dtr THEN RaiseIrq(b, TRUE) ELSE b

SetLines(a, lines) ==
  LET modem(s) == s \cap {"dsr", "dcd"}
      b == [a EXCEPT !.lines = lines]
  IN  TryStart(IF modem(a.lines) # modem(lines) /\ a.dtr THEN RaiseIrq(b, TRUE) ELSE b)

\* The bytes behind the one read move up.
ReadData(a) ==
  IF ~ a.rdrf THEN a
  ELSE [a EXCEPT !.rdrf = FALSE, !.ready = 0, !.rdr = Nul,
                 !.shift = IF @ = Nul THEN Nul ELSE @ - 1]

ReadStatus(a) == [a EXCEPT !.irq = FALSE, !.fromLines = FALSE]

WriteData(a) == TryStart([a EXCEPT !.tdrFull = TRUE])

\* acia_programmed_reset, a write to the status register
ProgrammedReset(a) ==
  [a EXCEPT !.dtr = FALSE, !.quiet = FALSE, !.tic = "off", !.echo = FALSE, !.overrun = FALSE,
            !.irq = @ /\ ~ a.fromLines, !.fromLines = FALSE,
            !.brk = @ /\ a.tic # "break"]

WriteCommand(a, c) ==
  TryStart([a EXCEPT !.tic = c.tic, !.dtr = c.dtr, !.quiet = c.quiet, !.echo = c.echo,
                     !.brk = @ /\ c.tic = "break"])

WriteControl(a, clocked) ==
  TryStart([a EXCEPT !.clocked = clocked, !.phase = IF a.clocked /\ clocked THEN @ ELSE 0])

\* acia_reset
ResetChip(a) ==
  [clocked |-> FALSE, tic |-> "off", dtr |-> FALSE, quiet |-> FALSE, echo |-> FALSE,
   tdrFull |-> FALSE, txBusy |-> FALSE, rdrf |-> FALSE, rxBusy |-> FALSE, overrun |-> FALSE,
   irq |-> FALSE, fromLines |-> FALSE, brk |-> FALSE, completed |-> FALSE,
   txLeft |-> 0, phase |-> 0, rxLeft |-> 0, ready |-> - 1,
   rdr |-> Nul, shift |-> Nul, pending |-> FALSE, leaving |-> 0, lines |-> a.lines]

\* acia_restart: the frame has no cycles in it, so a character in flight starts over.
Restart(a) ==
  LET tx == a.txBusy /\ a.clocked
      rx == a.rxBusy /\ a.clocked
  IN  [a EXCEPT !.txBusy = tx, !.rxBusy = rx, !.completed = FALSE, !.fromLines = FALSE,
                !.brk = (a.tic = "break"), !.phase = 0, !.ready = - 1,
                !.txLeft = IF tx THEN Frame ELSE 0, !.rxLeft = IF rx THEN Frame ELSE 0,
                !.pending = FALSE, !.leaving = 0]

\* acia_line_view
View(a) == [baud |-> a.clocked, dtr |-> a.dtr, rts |-> a.tic # "off", brk |-> a.brk]
=============================================================================
