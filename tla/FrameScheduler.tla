--------------------------- MODULE FrameScheduler ---------------------------
(***************************************************************************)
(* One emulated frame (LinAppleCore.cpp, internal_run_cycles): the 6502    *)
(* runs in slices (CPU.cpp) cut at the cycles cards asked to be woken at   *)
(* (Peripheral.cpp, device events).  One thread runs all of it; what makes *)
(* it hard is that register handlers run in the middle of an instruction,  *)
(* see a clock that is only brought up to date on their access, and change *)
(* the events and the bound the running slice was started with.            *)
(*                                                                         *)
(* Abstracted: an instruction is its cost in cycles and the register       *)
(* accesses it makes; a card is what it asks of the host.  One reset entry *)
(* of a card asks for at most one wake.                                    *)
(***************************************************************************)
EXTENDS Integers

CONSTANTS
  Cards,        \* positions in the walk of active_peripherals, slot by slot
  FrameCycles,  \* the cycles linapple_run_frame was asked for
  Costs,        \* base, extra and interrupt-entry cycles of an instruction
  Never,        \* no_event, UINT64_MAX
  MaxAccesses,  \* bound: register accesses in one instruction
  LastCycle,    \* bound: the clock stops here (2^64 - 2 in the program)
  MaxDelay      \* bound: how far ahead of the clock a card asks

ASSUME CardsAssumption == Cards \subseteq Nat
ASSUME CyclesAssumption ==
  /\ FrameCycles \in Nat \ {0}
  /\ Costs # {} /\ Costs \subseteq Nat \ {0}
  /\ Never \in Nat /\ LastCycle \in Nat /\ LastCycle < Never
  /\ MaxAccesses \in Nat /\ MaxDelay \in Nat

VARIABLES
  pc,           \* where the emulation thread is
  present,      \* the cards in active_peripherals
  event,        \* ActivePeripheral::event_cycle of each card
  next_event,   \* next_event_cycle, the cached earliest of them
  due,          \* the cards collected and still to think
  cumulative,   \* cumulative_cycles
  executed,     \* cycles_executed: the part of the frame already in cumulative
  ran,          \* CpuLoopContext::executed_cycles
  limit,        \* cycles_limit
  in_slice,     \* in_slice
  accesses,     \* register accesses the running instruction has made
  \* History:
  frame_start,  \* cumulative when the batch began
  deadline,     \* the first cycle no instruction may start at, per armed card
  woken         \* the cards woken since the last instruction retired

machine == <<cumulative, executed, ran, limit, in_slice, accesses, frame_start>>
alarms == <<event, next_event, deadline>>
vars == <<pc, present, due, woken, machine, alarms>>

Times == 0 .. LastCycle
Cycles == Times \cup {Never}

\* Reads of cumulative_cycles that go through cpu_calc_cycles first see this.
Clock == IF pc \in {"execute", "sliced", "step"} THEN cumulative + (ran - executed)
         ELSE cumulative

\* recompute_next_event_cycle
Earliest(ev) ==
  CHOOSE m \in {ev[c] : c \in Cards} \cup {Never} :
    \A n \in {ev[c] : c \in Cards} \cup {Never} : m <= n

OwedAt(at, now) ==
  IF at = Never THEN Never ELSE IF at > now THEN at ELSE now + 1

Owed(ev, now) == [c \in Cards |-> OwedAt(ev[c], now)]

NoEvents == [c \in Cards |-> Never]

\* The cycles a card may ask for: behind the clock, now, or ahead of it.
Requests(now) ==
  {Never} \cup {at \in Times \ {0} : now - 1 <= at /\ at <= now + MaxDelay}

Init ==
  /\ pc = "idle" /\ present \in SUBSET Cards /\ due = {} /\ woken = {}
  /\ event = NoEvents /\ next_event = Never /\ deadline = NoEvents
  /\ cumulative = 0 /\ executed = 0 /\ ran = 0 /\ limit = 0
  /\ in_slice = FALSE /\ accesses = 0 /\ frame_start = 0

-----------------------------------------------------------------------------
(* What a card may do whenever the host calls it *)

\* cpu_limit_cycles: the bound lim, lowered to the cycle at if a slice is
\* running.  The offset is exact because both counts stand at the running
\* instruction's first cycle.
Bound(at, now, count) == count + (IF at > now THEN at - now ELSE 0)

LimitCycles(lim, slicing, at, now, count) ==
  IF ~slicing \/ at = Never \/ lim <= Bound(at, now, count) THEN lim
  ELSE Bound(at, now, count)

\* Mutant: a schedule from a register access leaves the running slice as it is.
ScheduleUnbounded(c) ==
  /\ \E at \in Requests(cumulative') : event' = [event EXCEPT ![c] = at]
  /\ deadline' = [deadline EXCEPT ![c] = OwedAt(event'[c], cumulative')]
  /\ next_event' = Earliest(event')
  /\ UNCHANGED limit

\* host_schedule_event; at = Never is the ABI's 0, which cancels
Schedule(c) ==
  /\ \E at \in Requests(cumulative') : event' = [event EXCEPT ![c] = at]
  /\ deadline' = [deadline EXCEPT ![c] = OwedAt(event'[c], cumulative')]
  /\ next_event' = Earliest(event')
  /\ limit' = LimitCycles(limit, in_slice, next_event', cumulative', executed')

\* clear_all_events, then each card's reset, which may ask for a wake
ManagerReset ==
  /\ event' \in [Cards -> Requests(cumulative')]
  /\ \A c \in Cards \ present : event'[c] = Never
  /\ deadline' = Owed(event', cumulative')
  /\ next_event' = Earliest(event')
  /\ limit' = LimitCycles(limit, in_slice, next_event', cumulative', executed')

\* host_reset_system runs the same reset from inside a handler or a think.
CardRuns(c) ==
  \/ UNCHANGED <<alarms, limit>>
  \/ Schedule(c)
  \/ ManagerReset

-----------------------------------------------------------------------------
(* The frame: internal_run_cycles *)

BeginFrame ==
  /\ pc = "idle"
  /\ \A cost \in Costs : cumulative + FrameCycles + cost <= LastCycle
  /\ pc' = "service"
  /\ executed' = 0 /\ ran' = 0
  /\ frame_start' = cumulative
  /\ UNCHANGED <<present, due, woken, cumulative, limit, in_slice, accesses, alarms>>

\* peripheral_service_events: nothing due, by the cached cycle alone
NothingDue ==
  /\ pc = "service"
  /\ next_event > cumulative
  /\ pc' = "slice"
  /\ UNCHANGED <<present, due, woken, machine, alarms>>

\* Mutant: the due cards are collected but their events are not cleared.
CollectUncleared ==
  /\ pc = "service"
  /\ next_event <= cumulative
  /\ due' = {c \in Cards : event[c] <= cumulative}
  /\ woken' = woken \cup due'
  /\ pc' = "wake"
  /\ UNCHANGED <<present, machine, alarms>>

\* ... or every due event is collected and cleared before any card runs
CollectDue ==
  /\ pc = "service"
  /\ next_event <= cumulative
  /\ LET now_due == {c \in Cards : event[c] <= cumulative}
     IN  /\ due' = now_due
         /\ woken' = woken \cup now_due
         /\ event' = [c \in Cards |-> IF c \in now_due THEN Never ELSE event[c]]
         /\ deadline' = [c \in Cards |-> IF c \in now_due THEN Never
                                         ELSE deadline[c]]
  /\ pc' = "wake"
  /\ UNCHANGED <<present, next_event, machine>>

\* the card earliest in the walk thinks first
FirstOf(c, S) == c \in S /\ \A d \in S : c <= d

WakeCard(c) ==
  /\ pc = "wake"
  /\ FirstOf(c, due)
  /\ due' = due \ {c}
  /\ UNCHANGED <<pc, present, woken, cumulative, executed, ran, in_slice,
                 accesses, frame_start>>
  /\ CardRuns(c)

\* Mutant: the pass goes on until no event is due.
ServiceUntilQuiet ==
  /\ pc = "wake"
  /\ due = {}
  /\ next_event' = Earliest(event)
  /\ pc' = IF next_event' <= cumulative THEN "service" ELSE "slice"
  /\ UNCHANGED <<present, due, woken, machine, event, deadline>>

ServiceDone ==
  /\ pc = "wake"
  /\ due = {}
  /\ next_event' = Earliest(event)
  /\ pc' = "slice"
  /\ UNCHANGED <<present, due, woken, machine, event, deadline>>

\* cpu_execute_slice up to the loop
StartSlice ==
  /\ pc = "slice"
  /\ in_slice' = TRUE
  /\ limit' = LimitCycles(FrameCycles, TRUE, next_event, cumulative, executed)
  /\ ran' = executed
  /\ pc' = "execute"
  /\ UNCHANGED <<present, due, woken, cumulative, executed, accesses,
                 frame_start, alarms>>

\* A register bridge brings the clock up to the instruction's first cycle and
\* then runs the handler of the card that answers.
Access(c) ==
  /\ pc \in {"execute", "step"}
  /\ c \in present
  /\ accesses < MaxAccesses
  /\ accesses' = accesses + 1
  /\ cumulative' = cumulative + (ran - executed)
  /\ executed' = ran
  /\ UNCHANGED <<pc, present, due, woken, ran, in_slice, frame_start>>
  /\ CardRuns(c)

\* The end of the loop body; the bound is read again on every turn.
Retire(cost) ==
  /\ pc = "execute"
  /\ ran' = ran + cost
  /\ accesses' = 0
  /\ woken' = {}
  /\ pc' = IF ran + cost < limit THEN "execute" ELSE "sliced"
  /\ UNCHANGED <<present, due, cumulative, executed, limit, in_slice,
                 frame_start, alarms>>

\* cpu_execute_slice after the loop, and the loop condition of the frame
EndSlice ==
  /\ pc = "sliced"
  /\ cumulative' = cumulative + (ran - executed)
  /\ executed' = ran
  /\ in_slice' = FALSE
  /\ IF ran < FrameCycles
     THEN pc' = "service" /\ due' = due
     ELSE pc' = "think" /\ due' = present
  /\ UNCHANGED <<present, woken, ran, limit, accesses, frame_start, alarms>>

\* peripheral_manager_think: commands and thinks, card by card, in walk order
Think(c) ==
  /\ pc = "think"
  /\ FirstOf(c, due)
  /\ due' = due \ {c}
  /\ UNCHANGED <<pc, present, woken, cumulative, executed, ran, in_slice,
                 accesses, frame_start>>
  /\ CardRuns(c)

EndThink ==
  /\ pc = "think"
  /\ due = {}
  /\ pc' = "idle"
  /\ UNCHANGED <<present, due, woken, machine, alarms>>

-----------------------------------------------------------------------------
(* What the host does between frames *)

\* peripheral_manager_think(0), to deliver commands without running a frame
HostThink ==
  /\ pc = "idle"
  /\ pc' = "think"
  /\ due' = present
  /\ UNCHANGED <<present, woken, machine, alarms>>

\* linapple_reset_hard
HardReset ==
  /\ pc = "idle"
  /\ UNCHANGED <<pc, present, due, woken, cumulative, executed, ran, in_slice,
                 accesses, frame_start>>
  /\ ManagerReset

\* peripheral_register: a ScheduleEvent from init matches no instance yet
Register(c) ==
  /\ pc = "idle"
  /\ c \in Cards \ present
  /\ present' = present \cup {c}
  /\ UNCHANGED <<pc, due, woken, machine, alarms>>

\* peripheral_unregister
Unregister(c) ==
  /\ pc = "idle"
  /\ c \in present
  /\ present' = present \ {c}
  /\ event' = [event EXCEPT ![c] = Never]
  /\ deadline' = [deadline EXCEPT ![c] = Never]
  /\ next_event' = Earliest(event')
  /\ UNCHANGED <<pc, due, woken, machine>>

\* snapshot_deserialize: the cards are reset under the old clock, the file's
\* clock replaces it, and loading a card's state may ask under the new one.
LoadSnapshot ==
  /\ pc = "idle"
  /\ cumulative' \in Times
  /\ event' \in [Cards -> Requests(cumulative) \cup Requests(cumulative')]
  /\ \A c \in Cards \ present : event'[c] = Never
  /\ deadline' = Owed(event', cumulative')
  /\ next_event' = Earliest(event')
  /\ woken' = {}
  /\ UNCHANGED <<pc, present, due, executed, ran, limit, in_slice, accesses,
                 frame_start>>

\* cpu_step: cpu_execute(0) runs one instruction outside a slice, services no
\* event, and leaves cycles_executed at the last access.
BeginStep ==
  /\ pc = "idle"
  /\ \A cost \in Costs : cumulative + cost <= LastCycle
  /\ pc' = "step"
  /\ executed' = 0 /\ ran' = 0 /\ limit' = 0
  /\ frame_start' = cumulative
  /\ UNCHANGED <<present, due, woken, cumulative, in_slice, accesses, alarms>>

RetireStep(cost) ==
  /\ pc = "step"
  /\ ran' = ran + cost
  /\ accesses' = 0
  /\ cumulative' = cumulative + (ran + cost - executed)
  /\ deadline' = Owed(event, cumulative')
  /\ woken' = {}
  /\ pc' = "idle"
  /\ UNCHANGED <<present, due, executed, limit, in_slice, frame_start, event,
                 next_event>>

-----------------------------------------------------------------------------

\* The steps of the thread once a frame, a think or a debugger step is begun
EmulationStep ==
  \/ NothingDue \/ CollectDue \/ ServiceDone \/ StartSlice \/ EndSlice \/ EndThink
  \/ \E c \in Cards : WakeCard(c) \/ Access(c) \/ Think(c)
  \/ \E cost \in Costs : Retire(cost) \/ RetireStep(cost)

HostStep ==
  \/ BeginFrame \/ HostThink \/ HardReset \/ LoadSnapshot \/ BeginStep
  \/ \E c \in Cards : Register(c) \/ Unregister(c)

Next == EmulationStep \/ HostStep

Spec == Init /\ [][Next]_vars

\* The thread that runs a frame runs it to its end: nothing in it waits.
FairSpec == Spec /\ WF_vars(EmulationStep)

-----------------------------------------------------------------------------
(* Properties *)

\* Every variable keeps the type the program gives it, within the bounds.
TypeOK ==
  /\ pc \in {"idle", "service", "wake", "slice", "execute", "sliced", "think", "step"}
  /\ present \subseteq Cards /\ due \subseteq Cards /\ woken \subseteq Cards
  /\ event \in [Cards -> Cycles] /\ next_event \in Cycles
  /\ deadline \in [Cards -> Nat]
  /\ cumulative \in Times /\ executed \in Nat /\ ran \in Nat /\ limit \in Nat
  /\ in_slice \in BOOLEAN /\ accesses \in 0 .. MaxAccesses
  /\ frame_start \in Nat

\* The cached next_event_cycle is the earliest event of any card whenever the
\* frame loop or a handler may read it: only the pass that wakes the due cards
\* leaves it behind the events it has already cleared (Peripheral.cpp 598-607).
NextEventIsEarliest == pc # "wake" => next_event = Earliest(event)

\* No instruction starts with a wake overdue: the slice the instruction belongs
\* to ends at the earliest event, whoever asked for it and however late in the
\* slice it asked (cpu_limit_cycles).
NoInstructionStartsOverdue ==
  pc \in {"wake", "slice", "execute"} =>
    \A c \in Cards : event[c] # Never => Clock < deadline[c]

\* A wake is late by less than one instruction, its interrupt entry included
\* (Peripheral.h 125-127), even across the end of a frame.
WakesWithinOneInstruction ==
  \A c \in Cards :
    event[c] # Never =>
      \E cost \in Costs : Clock < deadline[c] + cost

\* The slices of a frame continue one count: inside a batch the clock has
\* advanced by exactly the cycles accounted, and at its end by exactly the
\* cycles the batch reports (the Disk II and the Mockingboard subtract marks
\* of one from the other).
SlicesKeepOneCount ==
  /\ pc \in {"service", "wake", "slice", "execute", "sliced", "step"} =>
       cumulative = frame_start + executed /\ executed <= ran
  /\ pc \in {"service", "wake", "slice"} => executed = ran

\* A batch goes past the cycles it was given by less than one instruction,
\* however many slices it was cut into: the loop goes round only while cycles
\* are left, and every slice is bounded by the frame as well as by the events.
FrameOverrunsByLessThanOneInstruction ==
  /\ pc \in {"service", "wake", "slice", "execute"} => ran < FrameCycles
  /\ pc = "sliced" => \E cost \in Costs : ran < FrameCycles + cost

\* The running slice never reaches past the frame nor past what any card is
\* owed, and the flag that lets a handler lower its bound is up exactly while
\* the loop runs.
SliceBound ==
  /\ in_slice <=> pc \in {"execute", "sliced"}
  /\ in_slice => limit <= FrameCycles
  /\ pc = "execute" =>
       \A c \in Cards : event[c] # Never => frame_start + limit <= deadline[c]

\* A frame that was begun completes, also when a card asks at every wake for
\* another one at or behind the present cycle (Peripheral.cpp 589-591).
FrameCompletes == (pc = "service") ~> (pc = "idle")

\* What cards see of the loop: every step is a step of DeviceAlarms, so alarms
\* ring once, never early, never lost and never an instruction late.
Alarms == INSTANCE DeviceAlarms WITH
  running <- pc \notin {"idle", "step"},
  clock <- Clock, alarm <- event
KeepsAlarmPromise == Alarms!Spec

\* What a card may rely on while a frame runs, whoever asks for what in the middle of
\* an instruction: its wake is never missed, and the two counts of cycles are one.
EventsAreOnTime ==
  /\ TypeOK
  /\ NextEventIsEarliest
  /\ NoInstructionStartsOverdue
  /\ WakesWithinOneInstruction
  /\ SlicesKeepOneCount
  /\ FrameOverrunsByLessThanOneInstruction
  /\ SliceBound
=============================================================================
