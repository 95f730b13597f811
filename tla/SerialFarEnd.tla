----------------------------- MODULE SerialFarEnd -----------------------------
(***************************************************************************)
(* What the Super Serial Card's sink writes to (SuperSerialFrontend.cpp):  *)
(* a pseudo-terminal, the card's own output looped back, or a path, which  *)
(* is a serial port, another program's terminal, a stream or a file.  The  *)
(* kernel may refuse a byte; the frontend parks what it refused and drops  *)
(* CTS when there is no room to park more.  A path may go away; it is      *)
(* opened again, at most once a second.                                    *)
(*                                                                         *)
(* The card is the part of SerialCard the far end sees: it learns the      *)
(* modem lines at each of its entries and acts on them until the next, and *)
(* a character's end starts the next character with the lines of the entry *)
(* before.  Bytes are numbered in the order they are sent, in each         *)
(* direction; a loop's bytes are those of the card.                        *)
(***************************************************************************)
EXTENDS Integers, Sequences, FiniteSets

CONSTANTS
  SerialKinds,   \* what the configuration names
  ReceiveSize, HighWater, TransmitSize, ReadChunk, RetryTicks,
  KernelRoom,    \* bytes the kernel holds for a far end that does not read
  MaxSent,       \* bound: bytes sent in each direction
  MaxSerialSteps \* bound: outages, changes of the line and installations

\* The rings have room, and something is read at a time (45-52).
ASSUME SerialFarEndAssumption ==
  /\ ReceiveSize \in Nat \ {0} /\ TransmitSize \in Nat \ {0}
  /\ HighWater \in Nat /\ ReadChunk \in Nat /\ KernelRoom \in Nat

VARIABLES
  port,        \* serial_device
  slotOpen,    \* SinkRecord::opened, and serial_in_use
  kernel,      \* the device behind the descriptor
  ssc,         \* the card
  peer,        \* what the far end was given, and how much it sent
  given,       \* the bytes the program was given
  excused,     \* history: bytes an outage or an installation took
  serialSteps

serialVars == <<port, slotOpen, kernel, ssc, peer, given, excused, serialSteps>>

Paths == {"modem", "slave", "stream", "file"}
Shown == [dtr : BOOLEAN, rts : BOOLEAN]
Quiet == [dtr |-> FALSE, rts |-> FALSE]

-----------------------------------------------------------------------------
\* The device.

\* Device{}, for the kind the configuration names
Closed(kind) ==
  [kind |-> kind, open |-> kind \notin Paths, hasModem |-> FALSE, inputs |-> TRUE, applied |-> FALSE,
   out |-> Quiet, lineKnown |-> FALSE, line |-> Quiet, retry |-> 0, receive |-> <<>>, transmit |-> <<>>]

\* A device and what the kernel holds behind it, as one value to hand from step to step.
Line(d, k) == [dev |-> d, kern |-> k]

\* apply_outputs: only what changed is set, once all of it was.
Outputs(s) ==
  LET d == s.dev
      want == [dtr |-> d.lineKnown /\ d.line.dtr,
               rts |-> d.lineKnown /\ d.line.rts /\ Len(d.receive) < HighWater]
      Told(pin) == IF ~ d.applied \/ want[pin] # d.out[pin] THEN want[pin] ELSE s.kern.shown[pin]
  IN  IF ~ (d.kind = "modem" /\ d.open /\ d.hasModem) THEN s
      ELSE Line([d EXCEPT !.applied = TRUE, !.out = want],
                [s.kern EXCEPT !.shown = [pin \in {"dtr", "rts"} |-> Told(pin)]])

\* open_path_device; the kernel asserts DTR and RTS on open.
Opened(s) ==
  IF ~ s.kern.there THEN s
  ELSE Outputs(Line([s.dev EXCEPT !.open = TRUE, !.applied = FALSE, !.hasModem = (s.dev.kind = "modem"),
                                  !.inputs = s.kern.cts],
                    [s.kern EXCEPT !.shown = [dtr |-> TRUE, rts |-> TRUE]]))

\* write_now: FALSE only when the kernel would block.
Takes(k, d) == ~ k.there \/ d.kind = "file" \/ Len(k.queue) < KernelRoom

Handed(k, byte) == IF k.there THEN [k EXCEPT !.queue = Append(@, byte)] ELSE k

\* park
Parked(d, byte) ==
  IF Len(d.transmit) < TransmitSize THEN [d EXCEPT !.transmit = Append(@, byte)] ELSE d

\* (A plausible bug: a byte the kernel would take overtakes those it refused.)
SinkWrite_first(s, byte) ==
  IF ~ s.dev.open THEN s
  ELSE IF s.dev.kind = "loopback"
       THEN Line(IF Len(s.dev.receive) < ReceiveSize THEN [s.dev EXCEPT !.receive = Append(@, byte)]
                 ELSE Parked(s.dev, byte), s.kern)
  ELSE IF Takes(s.kern, s.dev) THEN Line(s.dev, Handed(s.kern, byte))
  ELSE Line(Parked(s.dev, byte), s.kern)

\* sink_write
SinkWrite(s, byte) ==
  IF ~ s.dev.open THEN s
  ELSE IF s.dev.transmit # <<>> THEN Line(Parked(s.dev, byte), s.kern)
  ELSE IF s.dev.kind = "loopback"
       THEN Line(IF Len(s.dev.receive) < ReceiveSize THEN [s.dev EXCEPT !.receive = Append(@, byte)]
                 ELSE Parked(s.dev, byte), s.kern)
  ELSE IF Takes(s.kern, s.dev) THEN Line(s.dev, Handed(s.kern, byte))
  ELSE Line(Parked(s.dev, byte), s.kern)

\* drain_transmit: as many as find room, in order.
RingDrained(s) ==
  LET d == s.dev
      k == s.kern
      room == IF d.kind = "loopback" THEN ReceiveSize - Len(d.receive)
              ELSE IF ~ k.there \/ d.kind = "file" THEN Len(d.transmit) ELSE KernelRoom - Len(k.queue)
      n == IF room < Len(d.transmit) THEN room ELSE Len(d.transmit)
      head == SubSeq(d.transmit, 1, n)
      rest == [d EXCEPT !.transmit = SubSeq(@, n + 1, Len(@))]
  IN  IF ~ d.open THEN s
      ELSE IF d.kind = "loopback" THEN Line([rest EXCEPT !.receive = @ \o head], k)
      ELSE Line(rest, IF k.there THEN [k EXCEPT !.queue = @ \o head] ELSE k)

\* poll_input; lose_device for a path that hung up.  A full ring is not polled.
Polled(s) ==
  LET d == s.dev
      k == s.kern
      room == ReceiveSize - Len(d.receive)
      want == IF room < ReadChunk THEN room ELSE ReadChunk
      n == IF want < Len(k.arriving) THEN want ELSE Len(k.arriving)
  IN  IF ~ d.open \/ d.kind \in {"loopback", "file"} \/ room = 0 THEN s
      ELSE IF ~ k.there THEN Line([d EXCEPT !.open = FALSE, !.retry = 0], k)
      ELSE Line([d EXCEPT !.receive = @ \o SubSeq(k.arriving, 1, n)],
                [k EXCEPT !.arriving = SubSeq(@, n + 1, Len(@))])

\* refresh_inputs: a port that no longer answers is taken for a three-wire line.
Refreshed(s) ==
  IF ~ (s.dev.open /\ s.dev.hasModem) THEN s
  ELSE Line([s.dev EXCEPT !.hasModem = s.kern.there, !.inputs = s.kern.there => s.kern.cts], s.kern)

\* sink_tick
Ticked(s) ==
  LET d == s.dev
  IN  IF d.kind \in Paths /\ ~ d.open
      THEN IF d.retry + 1 >= RetryTicks THEN Opened(Line([d EXCEPT !.retry = 0], s.kern))
           ELSE Line([d EXCEPT !.retry = @ + 1], s.kern)
      ELSE Outputs(Refreshed(Polled(RingDrained(s))))

\* sink_get_lines, the CTS of it
Clear(s) ==
  s.dev.open /\ s.dev.inputs /\ Len(s.dev.transmit) < TransmitSize

\* sink_set_line
Configured(s, line) == Outputs(Line([s.dev EXCEPT !.lineKnown = TRUE, !.line = line], s.kern))

\* sink_attach and sink_open: the slot opens at its first use, and is told the format.
Attached(s) ==
  IF slotOpen THEN s
  ELSE Configured(IF s.dev.kind \in Paths /\ ~ s.dev.open
                  THEN Opened(Line([s.dev EXCEPT !.retry = 0], s.kern))
                  ELSE s, ssc.line)

-----------------------------------------------------------------------------
\* The card.

SerialInit ==
  /\ port \in {Closed(kind) : kind \in SerialKinds}
  /\ slotOpen = FALSE
  /\ kernel = [there |-> TRUE, shown |-> Quiet, cts |-> TRUE, queue |-> <<>>, arriving |-> <<>>]
  /\ ssc = [line |-> Quiet, cts |-> TRUE, tdr |-> 0, busy |-> FALSE, next |-> 1, full |-> FALSE]
  /\ peer = [took |-> <<>>, sent |-> 0]
  /\ given = <<>>
  /\ excused = [out |-> {}, in |-> {}]
  /\ serialSteps = 0

\* One entry of the card: sync, with or without the end of a character since the
\* last, the program's access, and settle.  A program polls the status register
\* before it writes, so the transmit register was empty at an entry before.
CardEntry(op, ended) ==
  LET here == Attached(Line(port, kernel))
      sends == ssc.tdr # 0 /\ ssc.line.rts
      early == ended /\ sends /\ ssc.cts
      busy == ssc.busy /\ (~ ended \/ early)
      cts == Clear(here)
      late == ~ early /\ sends /\ ~ busy /\ cts
      leaves == early \/ late
      inTdr == IF leaves THEN 0 ELSE ssc.tdr
      onWire == busy \/ late
      written == op = "write"
      at_once == written /\ ~ onWire /\ cts /\ ssc.line.rts
      byte == IF leaves THEN ssc.tdr ELSE IF at_once THEN ssc.next ELSE 0
      after == IF byte # 0 THEN SinkWrite(here, byte) ELSE here
      full == ssc.full /\ op # "read"
      pulls == ~ full /\ ssc.line.dtr /\ after.dev.receive # <<>>
  IN  /\ ended => ssc.busy
      /\ written => ssc.tdr = 0 /\ ssc.next <= MaxSent
      /\ op = "read" => ssc.full
      /\ slotOpen' = TRUE
      /\ port' = IF pulls THEN [after.dev EXCEPT !.receive = Tail(@)] ELSE after.dev
      /\ kernel' = after.kern
      /\ given' = IF pulls THEN Append(given, Head(after.dev.receive)) ELSE given
      /\ excused' = IF byte # 0 /\ ~ (here.dev.open /\ (here.dev.kind \in Paths => here.kern.there))
                    THEN [excused EXCEPT !.out = @ \cup {byte}] ELSE excused
      /\ ssc' = [ssc EXCEPT !.cts = cts, !.busy = onWire \/ at_once, !.full = full \/ pulls,
                            !.tdr = IF written /\ ~ at_once THEN ssc.next ELSE inTdr,
                            !.next = IF written THEN @ + 1 ELSE @]
      /\ UNCHANGED <<peer, serialSteps>>

\* The command register: follow_line tells the sink.
SetLine(line) ==
  /\ serialSteps < MaxSerialSteps /\ slotOpen /\ line # ssc.line
  /\ ssc' = [ssc EXCEPT !.line = line]
  /\ \E s \in {Configured(Line(port, kernel), line)} : port' = s.dev /\ kernel' = s.kern
  /\ serialSteps' = serialSteps + 1
  /\ UNCHANGED <<slotOpen, peer, given, excused>>

\* sink_tick, with the bytes a dead device swallows.
SinkTick ==
  /\ slotOpen
  /\ \E s \in {Ticked(Line(port, kernel))} :
       /\ port' = s.dev /\ kernel' = s.kern
       /\ excused' = IF port.open /\ port.kind \in Paths /\ ~ kernel.there
                     THEN [excused EXCEPT !.out = @ \cup {port.transmit[i] : i \in 1 .. Len(port.transmit)}]
                     ELSE excused
  /\ UNCHANGED <<slotOpen, ssc, peer, given, serialSteps>>

\* install_host_sink, at the next start of the machine: the slot closes through
\* the outgoing sink, and super_serial_frontend_configure selects the device anew.
InstallSink ==
  /\ serialSteps < MaxSerialSteps /\ slotOpen
  /\ LET last == IF port.kind \in Paths THEN RingDrained(Line(port, kernel)) ELSE Line(port, kernel)
         left == last.dev.transmit \o (IF port.kind = "loopback" THEN last.dev.receive ELSE <<>>)
         unread == IF port.kind = "loopback" THEN <<>> ELSE last.dev.receive
         swallowed == IF port.kind \in Paths /\ ~ kernel.there THEN port.transmit ELSE <<>>
     IN  /\ kernel' = [last.kern EXCEPT !.shown = Quiet]
         /\ excused' = [out |-> excused.out \cup {(left \o swallowed)[i] : i \in 1 .. Len(left \o swallowed)},
                        in |-> excused.in \cup {unread[i] : i \in 1 .. Len(unread)}]
  /\ port' = Closed(port.kind) /\ slotOpen' = FALSE
  /\ serialSteps' = serialSteps + 1
  /\ UNCHANGED <<ssc, peer, given>>

-----------------------------------------------------------------------------
\* The far end, and the path it is reached by.

Content(s) == {s[i] : i \in 1 .. Len(s)}

PeerReads ==
  /\ kernel.queue # <<>>
  /\ kernel' = [kernel EXCEPT !.queue = Tail(@)]
  /\ peer' = [peer EXCEPT !.took = Append(@, Head(kernel.queue))]
  /\ UNCHANGED <<port, slotOpen, ssc, given, excused, serialSteps>>

PeerSends ==
  /\ port.kind \notin {"loopback", "file"} /\ kernel.there /\ peer.sent < MaxSent
  /\ kernel.shown.rts \/ port.kind # "modem"
  /\ kernel' = [kernel EXCEPT !.arriving = Append(@, peer.sent + 1)]
  /\ peer' = [peer EXCEPT !.sent = @ + 1]
  /\ UNCHANGED <<port, slotOpen, ssc, given, excused, serialSteps>>

PeerClears(cts) ==
  /\ port.kind = "modem" /\ kernel.there /\ kernel.cts # cts
  /\ kernel' = [kernel EXCEPT !.cts = cts]
  /\ UNCHANGED <<port, slotOpen, ssc, peer, given, excused, serialSteps>>

\* An adapter is pulled out, with what the kernel held for it.
Unplug ==
  /\ serialSteps < MaxSerialSteps /\ port.kind = "modem" /\ kernel.there
  /\ kernel' = [kernel EXCEPT !.there = FALSE, !.shown = Quiet, !.queue = <<>>, !.arriving = <<>>]
  /\ excused' = [out |-> excused.out \cup Content(kernel.queue),
                 in |-> excused.in \cup Content(kernel.arriving)]
  /\ serialSteps' = serialSteps + 1
  /\ UNCHANGED <<port, slotOpen, ssc, peer, given>>

\* The descriptor of the adapter pulled out stays dead, so it is plugged in again
\* for the frontend once that was closed.
Plug ==
  /\ ~ kernel.there /\ ~ port.open
  /\ kernel' = [kernel EXCEPT !.there = TRUE]
  /\ UNCHANGED <<port, slotOpen, ssc, peer, given, excused, serialSteps>>

SerialNext ==
  \/ \E op \in {"look", "read", "write"}, ended \in BOOLEAN : CardEntry(op, ended)
  \/ \E line \in Shown : SetLine(line)
  \/ SinkTick \/ InstallSink
  \/ PeerReads \/ PeerSends \/ \E cts \in BOOLEAN : PeerClears(cts)
  \/ Unplug \/ Plug

SerialFarEndSpec == SerialInit /\ [][SerialNext]_serialVars

-----------------------------------------------------------------------------
Ascending(s) == \A i \in 1 .. Len(s) - 1 : s[i] < s[i + 1]

\* Whatever the kernel refuses, and however late the card learns of it, the bytes
\* a program writes when the card is ready for them reach the far end in order, and
\* only an outage or a new installation loses any: "a full ring drops CTS and the
\* card keeps its next byte in its own register" (SuperSerialFrontend.cpp 48-50).
\* What the far end sends reaches the program the same way.
LineKeepsItsBytes ==
  LET tdr == IF ssc.tdr = 0 THEN <<>> ELSE <<ssc.tdr>>
      looped == port.kind = "loopback"
      out == (IF looped THEN given \o port.receive ELSE peer.took \o kernel.queue)
               \o port.transmit \o tdr
      in == given \o port.receive \o kernel.arriving
  IN  /\ Ascending(out) /\ (1 .. ssc.next - 1) \ excused.out \subseteq Content(out)
      /\ looped \/ (Ascending(in) /\ (1 .. peer.sent) \ excused.in \subseteq Content(in))

\* A serial port's DTR is the card's, not what the kernel made of it at the open, and
\* its RTS is up only while the card's is and the ring is below the mark (80-81, 323-331).
PinsAreTheCards ==
  port.open /\ port.hasModem /\ kernel.there /\ slotOpen =>
    /\ kernel.shown.dtr = ssc.line.dtr
    /\ kernel.shown.rts => ssc.line.rts /\ Len(port.receive) < HighWater

\* The cable: the bytes and the pins of one end are those of the other.
CableIsTransparent == LineKeepsItsBytes /\ PinsAreTheCards
===============================================================================
