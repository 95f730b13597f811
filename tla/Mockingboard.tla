----------------------------- MODULE Mockingboard -----------------------------
(***************************************************************************)
(* The Mockingboard: two 6522s whose timers are brought up to date only    *)
(* when somebody looks, the interrupt line they share, the bus of the      *)
(* sound chips, and the envelope of an AY-3-8910                           *)
(* (apple2/peripherals/mockingboard/Mockingboard.cpp, chips/6522.cpp,      *)
(* chips/AY8910.cpp).  `exact` is the pair of 6522s with a clock that      *)
(* ticks every cycle, which the card never has.  Tones, noise and the      *)
(* coupling of the output are arithmetic on samples and left out.          *)
(***************************************************************************)
EXTENDS Integers, FiniteSets

CONSTANTS ByteValues,     \* the code has 256
          Top,            \* highest level of the envelope; the code has 15
          CyclesPerTick,  \* cycles_per_ay_tick, 8 in the code
          FrameCycles,    \* cycles of a frame
          MaxFrames,      \* bound: frames of a behaviour
          Writes, Reads,  \* the <<chip, register, value>> and <<chip, register>> used
          MaxAccesses,    \* bound: accesses and resets of a behaviour
          Shapes          \* envelope shapes written

VARIABLES via,        \* chip |-> the 6522 as the card holds it
          exact,      \* chip |-> the 6522 that ticks
          now,        \* executed cycles of this frame
          synced,     \* cycles of the frame the card has consumed
          remainder,  \* psg_remainder
          phase8,     \* the cycles since power on, modulo CyclesPerTick
          irqLine,    \* the card's irq_line
          hostLine,   \* what the host was told
          kept,       \* a save state, as the loads of it see it
          frames, accesses,
          psg,        \* one AY-3-8910: bus, registers and envelope
          intent      \* what the program's bus cycles amount to

viaVars == <<via, exact, now, synced, remainder, phase8, irqLine, hostLine, kept, frames, accesses>>
psgVars == <<psg, intent>>

Chips == {0, 1}
Modulus == ByteValues * ByteValues

ValueRegisters == {"t1c_l", "t1l_l", "t1c_h", "t1l_h", "t2c_l", "t2c_h"}
AcrBits == {"free_run", "pb7", "pulse_count"}
EnvelopeShapes == [cont : BOOLEAN, attack : BOOLEAN, alt : BOOLEAN, hold : BOOLEAN]

ASSUME MockingboardAssumption ==
    /\ ByteValues \in Nat \ {0} /\ Top \in Nat /\ CyclesPerTick \in Nat \ {0}
    /\ \A w \in Writes :
         /\ w[2] \in ValueRegisters => w[3] \in 0 .. ByteValues - 1
         /\ w[2] = "acr" => w[3] \subseteq AcrBits
         /\ w[2] \in {"ifr", "ier_set", "ier_clear"} => w[3] \subseteq {1, 2}
         /\ w[2] \in ValueRegisters \cup {"acr", "ifr", "ier_set", "ier_clear"}
    /\ Shapes \subseteq EnvelopeShapes

-----------------------------------------------------------------------------
(* The timers.  Timer 1 and timer 2 differ in what an underflow does.      *)

TicksToUnderflow(v, t) ==
    CASE v.phase[t] = "load_delay" -> v.counter[t] + 2
      [] v.phase[t] = "reload_pending" -> v.latch[t] + 2
      [] v.phase[t] = "running" -> v.counter[t] + 1

Advanced(v, t, ticks) ==
    IF ticks = 0 THEN v
    ELSE LET from == IF v.phase[t] = "reload_pending" THEN v.latch[t] ELSE v.counter[t]
             left == IF v.phase[t] = "running" THEN ticks ELSE ticks - 1
         IN [v EXCEPT !.counter[t] = (from - left) % Modulus, !.phase[t] = "running"]

FreeRuns(v, t) == t = 1 /\ "free_run" \in v.acr

Underflowed(v, t) ==
    [v EXCEPT !.ifr = @ \cup {t}, !.fired[t] = TRUE,
              !.phase[t] = IF FreeRuns(v, t) THEN "reload_pending" ELSE "running",
              !.pb7 = IF t = 1 /\ "pb7" \in v.acr THEN (~FreeRuns(v, t) \/ ~@) ELSE @]

Stopped(v, t) == t = 2 /\ "pulse_count" \in v.acr

(* A turn of the loops of step_timer1 and step_timer2: to the next underflow, *)
(* or to the end.                                                             *)
OneShotOver(v, t) == v.fired[t] /\ ~FreeRuns(v, t)

TimerTurn(at, t) ==
    LET span == TicksToUnderflow(at.via, t)
    IN CASE at.left = 0 -> at
         [] at.left # 0 /\ (OneShotOver(at.via, t) \/ span > at.left) ->
              [via |-> Advanced(at.via, t, at.left), left |-> 0]
         [] OTHER -> [via |-> Underflowed(Advanced(at.via, t, span), t), left |-> at.left - span]

(* A turn takes a cycle at least, so that as many turns as cycles end the loop. *)
StepTimer(v, t, cycles) ==
    LET turn[k \in 0 .. cycles] ==
          IF k = 0 THEN [via |-> v, left |-> cycles] ELSE TimerTurn(turn[k - 1], t)
    IN IF Stopped(v, t) THEN v ELSE turn[cycles].via

Step(v, cycles) == StepTimer(StepTimer(v, 1, cycles), 2, cycles)

(* The reference: one cycle of the chip.  A load and a reload each take a  *)
(* cycle in which the counter does not count.                              *)
Tick(v, t) ==
    CASE Stopped(v, t) -> v
      [] ~Stopped(v, t) /\ v.phase[t] = "load_delay" -> [v EXCEPT !.phase[t] = "running"]
      [] ~Stopped(v, t) /\ v.phase[t] = "reload_pending" ->
           [v EXCEPT !.counter[t] = v.latch[t], !.phase[t] = "running"]
      [] OTHER ->
           LET counted == [v EXCEPT !.counter[t] = (@ - 1) % Modulus]
           IN IF v.counter[t] = 0 /\ ~OneShotOver(v, t)
              THEN Underflowed(counted, t) ELSE counted

Irq(v) == v.ifr \cap v.ier # {}

-----------------------------------------------------------------------------
(* via_write, via_read and via_reset                                       *)

Lo(value) == value % ByteValues
Hi(value) == value \div ByteValues
WithLo(value, b) == value - Lo(value) + b
WithHi(value, b) == Lo(value) + b * ByteValues

Loading(v, t) ==
    [v EXCEPT !.phase[t] = "load_delay", !.fired[t] = FALSE, !.ifr = @ \ {t}]

Written(v, reg, val) ==
    CASE reg \in {"t1c_l", "t1l_l"} -> [v EXCEPT !.latch[1] = WithLo(@, val)]
      [] reg = "t1c_h" ->
           LET latch == WithHi(v.latch[1], val)
           IN [Loading(v, 1) EXCEPT !.latch[1] = latch, !.counter[1] = latch,
                                    !.pb7 = @ /\ "pb7" \notin v.acr]
      [] reg = "t1l_h" -> [v EXCEPT !.latch[1] = WithHi(@, val), !.ifr = @ \ {1}]
      [] reg = "t2c_l" -> [v EXCEPT !.latch[2] = WithLo(@, val)]
      [] reg = "t2c_h" -> [Loading(v, 2) EXCEPT !.counter[2] = WithHi(v.latch[2], val)]
      [] reg = "acr" -> [v EXCEPT !.acr = val]
      [] reg = "ifr" -> [v EXCEPT !.ifr = @ \ val]
      [] reg = "ier_set" -> [v EXCEPT !.ier = @ \cup val]
      [] reg = "ier_clear" -> [v EXCEPT !.ier = @ \ val]

ReadFrom(v, reg) ==
    CASE reg = "t1c_l" -> [v EXCEPT !.ifr = @ \ {1}]
      [] reg = "t2c_l" -> [v EXCEPT !.ifr = @ \ {2}]
      [] OTHER -> v

ResetVia(v) ==
    [v EXCEPT !.acr = {}, !.ifr = {}, !.ier = {}, !.phase = [t \in {1, 2} |-> "running"],
              !.fired = [t \in {1, 2} |-> TRUE], !.pb7 = FALSE]

PowerOnVia ==
    [acr |-> {}, ifr |-> {}, ier |-> {}, latch |-> [t \in {1, 2} |-> 0],
     counter |-> [t \in {1, 2} |-> 0], phase |-> [t \in {1, 2} |-> "running"],
     fired |-> [t \in {1, 2} |-> TRUE], pb7 |-> FALSE]

-----------------------------------------------------------------------------
(* The card                                                                *)

ViaLine(chips) == \E c \in Chips : Irq(chips[c])

\* (A plausible bug: the line is that of the chips before the access.)
UpdateIrq_before_the_access(chips) == irqLine' = ViaLine(via) /\ hostLine' = ViaLine(via)

(* update_irq: the host hears of changes.                                  *)
UpdateIrq(chips) ==
    /\ irqLine' = ViaLine(chips)
    /\ hostLine' = IF ViaLine(chips) # irqLine THEN ViaLine(chips) ELSE hostLine

(* advance and sync_to: what the card is once `cycles` of the frame are    *)
(* consumed; an earlier mark changes nothing.                              *)
Behind(cycles) == IF cycles > synced THEN cycles - synced ELSE 0

SyncTo(cycles) == [c \in Chips |-> Step(via[c], Behind(cycles))]

RemainderAfter(cycles) == (remainder + Behind(cycles)) % CyclesPerTick

Access(chips, ticking) ==
    /\ accesses < MaxAccesses
    /\ via' = chips
    /\ exact' = ticking
    /\ UpdateIrq(chips)
    /\ synced' = IF now > synced THEN now ELSE synced
    /\ remainder' = RemainderAfter(now)
    /\ accesses' = accesses + 1
    /\ UNCHANGED <<now, phase8, kept, frames>>

CxWrite == \E w \in Writes :
    Access([SyncTo(now) EXCEPT ![w[1]] = Written(@, w[2], w[3])],
           [exact EXCEPT ![w[1]] = Written(@, w[2], w[3])])

CxRead == \E r \in Reads :
    Access([SyncTo(now) EXCEPT ![r[1]] = ReadFrom(@, r[2])],
           [exact EXCEPT ![r[1]] = ReadFrom(@, r[2])])

Cycle ==
    /\ now < FrameCycles
    /\ now' = now + 1
    /\ phase8' = (phase8 + 1) % CyclesPerTick
    /\ exact' = [c \in Chips |-> Tick(Tick(exact[c], 1), 2)]
    /\ UNCHANGED <<via, synced, remainder, irqLine, hostLine, kept, frames, accesses>>

MbThink ==
    /\ now = FrameCycles /\ frames < MaxFrames
    /\ via' = SyncTo(now)
    /\ UpdateIrq(SyncTo(now))
    /\ remainder' = RemainderAfter(now)
    /\ synced' = 0 /\ now' = 0
    /\ frames' = frames + 1
    /\ UNCHANGED <<exact, phase8, kept, accesses>>

(* mb_abi_reset, between frames; every line the host holds is cleared      *)
(* whatever the card believes.                                             *)
MbReset ==
    /\ now = 0 /\ accesses < MaxAccesses
    /\ via' = [c \in Chips |-> ResetVia(via[c])]
    /\ exact' = [c \in Chips |-> ResetVia(exact[c])]
    /\ synced' = 0 /\ remainder' = 0 /\ phase8' = 0
    /\ irqLine' = FALSE /\ hostLine' = FALSE
    /\ accesses' = accesses + 1
    /\ UNCHANGED <<now, kept, frames>>

MbSave ==
    /\ now = 0 /\ kept = {} /\ accesses \in 1 .. MaxAccesses - 1
    /\ kept' = {[via |-> via, remainder |-> remainder]}
    /\ UNCHANGED <<via, exact, now, synced, remainder, phase8, irqLine, hostLine, frames, accesses>>

(* mb_abi_load_state, after the reset of every card and the CPU's own      *)
(* state, which clears the lines.                                          *)
MbLoad == \E s \in kept :
    /\ now = 0
    /\ via' = s.via /\ exact' = s.via
    /\ remainder' = s.remainder /\ phase8' = s.remainder
    /\ synced' = 0
    /\ irqLine' = ViaLine(s.via) /\ hostLine' = ViaLine(s.via)
    /\ kept' = {}
    /\ UNCHANGED <<now, frames, accesses>>

ViaInit ==
    /\ via = [c \in Chips |-> PowerOnVia] /\ exact = via
    /\ now = 0 /\ synced = 0 /\ remainder = 0 /\ phase8 = 0
    /\ irqLine = FALSE /\ hostLine = FALSE
    /\ kept = {} /\ frames = 0 /\ accesses = 0

ViaNext == CxWrite \/ CxRead \/ Cycle \/ MbThink \/ MbReset \/ MbSave \/ MbLoad

-----------------------------------------------------------------------------
(* The sound chip behind port A and port B                                 *)

Level(e) == IF e.attack THEN e.step ELSE Top - e.step

HoldAt(e, amplitude) ==
    [e EXCEPT !.holding = TRUE, !.step = IF e.attack THEN amplitude ELSE Top - amplitude]

(* step_envelope                                                           *)
StepEnvelope(e) ==
    CASE e.holding -> e
      [] ~e.holding /\ e.step < Top -> [e EXCEPT !.step = @ + 1]
      [] ~e.holding /\ e.step = Top /\ ~e.shape.cont -> HoldAt(e, 0)
      [] ~e.holding /\ e.step = Top /\ e.shape.cont /\ e.shape.hold ->
           HoldAt(e, IF e.attack # e.shape.alt THEN Top ELSE 0)
      [] OTHER -> [e EXCEPT !.step = 0, !.attack = @ # e.shape.alt]

NewEnvelope(shape) == [shape |-> shape, step |-> 0, attack |-> shape.attack, holding |-> FALSE]

NoShape == [cont |-> FALSE, attack |-> FALSE, alt |-> FALSE, hold |-> FALSE]

ResetPsg == [latched |-> 0, env |-> NewEnvelope(NoShape)]

(* ay_bus_cycle on a write of port B: RESET' low wins; an address above    *)
(* the registers leaves the latch.  Register 13 is the envelope's shape,   *)
(* register 0 stands for the others and 16 for an address that selects     *)
(* none.                                                                   *)
BusCycle(control, port) ==
    CASE control = "reset" -> ResetPsg
      [] control = "latch" -> [psg EXCEPT !.latched = IF port < 16 THEN port ELSE @]
      [] control = "write" -> IF psg.latched = 13 THEN [psg EXCEPT !.env = NewEnvelope(port)] ELSE psg

WriteOrb ==
    \/ /\ psg' = BusCycle("reset", 0)
       /\ intent' = [shape |-> NoShape, steps |-> 0]
    \/ \E address \in {0, 13, 16} :
         /\ psg' = BusCycle("latch", address)
         /\ UNCHANGED intent
    \/ \E shape \in Shapes :
         /\ psg' = BusCycle("write", shape)
         /\ intent' = IF psg.latched = 13 THEN [shape |-> shape, steps |-> 0] ELSE intent

(* One step of the envelope out of ay8910_step; the steps are counted      *)
(* round once two cycles of the wave are over.                             *)
EnvelopeStep ==
    /\ psg' = [psg EXCEPT !.env = StepEnvelope(psg.env)]
    /\ intent' = [intent EXCEPT !.steps = IF @ + 1 = 4 * (Top + 1) THEN 2 * (Top + 1) ELSE @ + 1]

PsgInit == psg = ResetPsg /\ intent = [shape |-> NoShape, steps |-> 0]

PsgNext == WriteOrb \/ EnvelopeStep

-----------------------------------------------------------------------------
(* The card brought up to date is the card that ticked: whatever was read, *)
(* written, reset or loaded at whatever cycles, no cycle is counted twice  *)
(* or lost, every flag falls on its cycle and the counters read as the     *)
(* hardware's do.                                                          *)
CatchesUp ==
    /\ \A c \in Chips : Step(via[c], Behind(now)) = exact[c]
    /\ RemainderAfter(now) = phase8

(* The slot's line is the chips' line as far as the card has come: right   *)
(* whenever the card has just been looked at, and at the end of a frame.   *)
(* In between it is late when a timer runs out, for the card asks for no   *)
(* wake, but never early: what it holds, the ticking card would hold.      *)
LineFollowsChips ==
    /\ hostLine = ViaLine(via) /\ irqLine = hostLine
    /\ now = synced => hostLine = ViaLine(exact)
    /\ hostLine => ViaLine(exact)

(* The envelope follows the data sheet's wave for its shape, and its level *)
(* is always the one its step and direction imply.                         *)
Wave(shape, steps) ==
    LET cycle == steps \div (Top + 1) at == steps % (Top + 1)
        rising == IF shape.alt /\ cycle % 2 = 1 THEN ~shape.attack ELSE shape.attack
    IN CASE cycle = 0 \/ (shape.cont /\ ~shape.hold) -> IF rising THEN at ELSE Top - at
         [] cycle > 0 /\ ~shape.cont -> 0
         [] OTHER -> IF shape.attack # shape.alt THEN Top ELSE 0

EnvelopeFollowsShape == Level(psg.env) = Wave(intent.shape, intent.steps)

\* The card that catches up only when it is asked gives every answer of the
\* card that ticks and its envelope; its interrupt line comes when it is next
\* looked at or its frame is over, and never without cause (sync_to, update_irq,
\* mb_abi_think, step_envelope).
CardKeepsTime ==
    /\ CatchesUp
    /\ LineFollowsChips
    /\ EnvelopeFollowsShape
=============================================================================
