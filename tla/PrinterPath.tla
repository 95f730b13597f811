------------------------------ MODULE PrinterPath ------------------------------
(***************************************************************************)
(* A byte's way from the firmware of the printer card to the host's file:  *)
(* the card (Printer.cpp), the slot's sink record (Peripheral.cpp), the    *)
(* dispatcher (HostSink.cpp) and the file behind it (PrinterFrontend.cpp). *)
(* A printer whose file cannot be written is a printer switched off: the   *)
(* card shows the firmware the page it waits in, and the sink's tick tries *)
(* to open the file again.                                                 *)
(*                                                                         *)
(* Bytes are numbered in the order the program prints them.                *)
(***************************************************************************)
EXTENDS Integers, Sequences, FiniteSets

CONSTANTS
  Appends,          \* printer_settings.append, for each configuration
  MaxPrinted,       \* bound: bytes printed
  MaxPrinterSteps   \* bound: faults of the disk, loads, resets and installations

VARIABLES
  printer,      \* PrinterCard
  sinkOpened,   \* SinkRecord::opened
  slotSink,     \* SlotSink, with what its FILE has buffered
  append,       \* printer_settings.append
  disk,         \* the file, and what the disk refuses
  printed,      \* the bytes printed so far
  mislaid,      \* history: bytes lost with a write that failed or a file begun anew
  dropped,      \* history: the bytes that went to a printer that was off
  falls,        \* history: how often the printer fell over, or a load forgot it had
  printerSteps

printerVars == <<printer, sinkOpened, slotSink, append, disk, printed, mislaid, dropped, falls,
                 printerSteps>>

Faults == {"none", "open", "full"}

BytesOf(s) == {s[i] : i \in 1 .. Len(s)}

-----------------------------------------------------------------------------
\* The file.

\* What a call of the sink has to say, handed from step to step.
State == [sink |-> slotSink, file |-> disk.content, lost |-> mislaid, off |-> dropped, fell |-> falls]

\* fall_over: the FILE closes, and what it had buffered goes with it.
FallOver(s, byte) ==
  [s EXCEPT !.sink = [@ EXCEPT !.file = FALSE, !.ready = FALSE, !.buffer = <<>>],
            !.lost = @ \cup BytesOf(s.sink.buffer) \cup byte, !.fell = @ + 1]

\* (A plausible bug: each open of an overwritten file begins it anew.)
OpenFile_anew(s) ==
  LET truncate == ~ append
  IN  [s EXCEPT !.sink = [@ EXCEPT !.file = TRUE, !.truncated = TRUE],
                !.file = IF truncate THEN <<>> ELSE @]

\* open_file: one truncation per run.
OpenFile(s) ==
  LET truncate == ~ append /\ ~ s.sink.truncated
  IN  [s EXCEPT !.sink = [@ EXCEPT !.file = TRUE, !.truncated = TRUE],
                !.file = IF truncate THEN <<>> ELSE @,
                !.lost = IF truncate THEN @ \cup BytesOf(s.file) ELSE @]

\* sink_attach and sink_open, at the slot's first use under this sink.
AttachedSink(s) ==
  IF sinkOpened THEN s
  ELSE [s EXCEPT !.sink = [@ EXCEPT !.file = FALSE, !.inUse = TRUE, !.ready = TRUE, !.buffer = <<>>]]

\* sink_write; a carriage return, or a buffer that is full, reaches for the disk.
WrittenTo(s, byte, flushes) ==
  LET able == IF s.sink.file THEN s ELSE OpenFile(s)
      kept == [able EXCEPT !.sink.buffer = Append(@, byte)]
  IN  IF ~ s.sink.inUse \/ ~ s.sink.ready THEN [s EXCEPT !.off = @ \cup {byte}]
      ELSE IF ~ s.sink.file /\ disk.fault = "open" THEN FallOver(s, {byte})
      ELSE IF ~ flushes THEN kept
      ELSE IF disk.fault = "full" THEN FallOver(able, {byte})
      ELSE [kept EXCEPT !.file = @ \o kept.sink.buffer, !.sink.buffer = <<>>]

\* sink_tick
TickedSink(s) ==
  IF ~ s.sink.inUse \/ s.sink.ready \/ disk.fault = "open" THEN s
  ELSE [OpenFile(s) EXCEPT !.sink.ready = TRUE]

PrinterBecomes(s) ==
  /\ slotSink' = s.sink /\ mislaid' = s.lost /\ dropped' = s.off /\ falls' = s.fell
  /\ disk' = [disk EXCEPT !.content = s.file]

-----------------------------------------------------------------------------
NewSink == [file |-> FALSE, inUse |-> FALSE, ready |-> TRUE, truncated |-> FALSE, buffer |-> <<>>]

PrinterInit ==
  /\ printer = [latch |-> 0, waiting |-> FALSE]
  /\ sinkOpened = FALSE /\ slotSink = NewSink
  /\ append \in Appends
  /\ disk = [content |-> <<>>, fault |-> "none"]
  /\ printed = 0 /\ mislaid = {} /\ dropped = {} /\ falls = 0 /\ printerSteps = 0

\* follow_sink_readiness
Follows(s) == ~ s.sink.ready

\* printer_io_access, from the firmware, which the wait image does not let past.
PrintByte(flushes) ==
  /\ ~ printer.waiting /\ printed < MaxPrinted
  /\ printed' = printed + 1 /\ sinkOpened' = TRUE
  /\ \E s \in {WrittenTo(AttachedSink(State), printed + 1, flushes)} :
       /\ PrinterBecomes(s)
       /\ printer' = [latch |-> printed + 1, waiting |-> Follows(s)]
  /\ UNCHANGED <<append, printerSteps>>

\* The same from a program that goes round the firmware, and never waits.
PrintBlindly ==
  /\ printed < MaxPrinted /\ printer.waiting
  /\ printed' = printed + 1 /\ sinkOpened' = TRUE
  /\ \E s \in {WrittenTo(AttachedSink(State), printed + 1, TRUE)} :
       /\ slotSink' = s.sink /\ falls' = s.fell
       /\ mislaid' = s.lost \cup (s.off \ dropped) /\ dropped' = dropped
       /\ disk' = [disk EXCEPT !.content = s.file]
       /\ printer' = [latch |-> printed + 1, waiting |-> Follows(s)]
  /\ UNCHANGED <<append, printerSteps>>

\* peripheral_manager_think: the tick comes before the card's think, which looks
\* at the sink only while it waits.
PrinterThink ==
  /\ sinkOpened' = (sinkOpened \/ printer.waiting)
  /\ \E s \in {IF printer.waiting THEN AttachedSink(TickedSink(State)) ELSE TickedSink(State)} :
       /\ PrinterBecomes(s)
       /\ printer' = [printer EXCEPT !.waiting = @ /\ Follows(s)]
  /\ UNCHANGED <<append, printed, printerSteps>>

\* printer_abi_load_state: the frame carries no wait.
PrinterLoad ==
  /\ printerSteps < MaxPrinterSteps
  /\ printer' = [printer EXCEPT !.waiting = FALSE]
  /\ falls' = IF printer.waiting THEN falls + 1 ELSE falls
  /\ printerSteps' = printerSteps + 1
  /\ UNCHANGED <<sinkOpened, slotSink, append, disk, printed, mislaid, dropped>>

\* install_host_sink, at the next start: the outgoing sink's slot closes, which
\* writes out what was buffered; printer_frontend_install begins a new run.
InstallPrinter ==
  /\ printerSteps < MaxPrinterSteps
  /\ LET full == disk.fault = "full"
     IN  /\ disk' = [disk EXCEPT !.content = IF full THEN @ ELSE @ \o slotSink.buffer]
         /\ mislaid' = IF full THEN mislaid \cup BytesOf(slotSink.buffer) ELSE mislaid
  /\ slotSink' = NewSink /\ sinkOpened' = FALSE
  /\ printerSteps' = printerSteps + 1
  /\ UNCHANGED <<printer, append, printed, dropped, falls>>

\* The file's directory goes away or comes back; the disk fills up or is cleared.
DiskChanges(fault) ==
  /\ printerSteps < MaxPrinterSteps /\ fault # disk.fault
  /\ disk' = [disk EXCEPT !.fault = fault]
  /\ printerSteps' = printerSteps + 1
  /\ UNCHANGED <<printer, sinkOpened, slotSink, append, printed, mislaid, dropped, falls>>

PrinterNext ==
  \/ \E flushes \in BOOLEAN : PrintByte(flushes)
  \/ PrintBlindly \/ PrinterThink \/ PrinterLoad \/ InstallPrinter
  \/ \E fault \in Faults : DiskChanges(fault)

PrinterSpec == PrinterInit /\ [][PrinterNext]_printerVars

-----------------------------------------------------------------------------
\* What is printed is in the file, in order and once, however often the file could
\* not be opened or written: a line that was written out stays through every retry,
\* an overwritten file is begun once a run, and a printer that is off costs the
\* firmware no byte but the one that found it so: "a printer that is off swallows
\* one byte and the machine parks on the next" (Printer.cpp 141-142), and one more
\* for each load, whose frame carries no wait (340-343).
PrinterKeepsItsBytes ==
  LET kept == disk.content \o slotSink.buffer
  IN  /\ \A i \in 1 .. Len(kept) - 1 : kept[i] < kept[i + 1]
      /\ (1 .. printed) \ (mislaid \cup dropped) \subseteq BytesOf(kept)
      /\ Cardinality(dropped) <= falls
===============================================================================
