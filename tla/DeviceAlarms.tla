---------------------------- MODULE DeviceAlarms ----------------------------
(***************************************************************************)
(* What the host promises a card that calls ScheduleEvent, without the     *)
(* frame loop, the slices or the cached earliest event (Peripheral.h       *)
(* 125-135).  A card has at most one alarm; while the machine runs its     *)
(* clock moves only by whole instructions; an instruction starts only when *)
(* no alarm is overdue; when alarms are due every one of them rings, each  *)
(* at most once per instruction.  FrameScheduler implements it.            *)
(***************************************************************************)
EXTENDS Integers

CONSTANTS
  Cards,      \* the cards that can hold an alarm
  Costs,      \* the cycles an instruction, with the interrupt it ends in, takes
  Never       \* no_event: later than any cycle the clock reaches

VARIABLES
  running,    \* a frame is being run
  clock,      \* the true machine clock, in cycles
  alarm,      \* [Cards -> the cycle asked for, or Never]
  deadline,   \* [Cards -> the first cycle no instruction may start at, or Never]
  woken       \* the cards whose alarm rang since the last instruction retired

vars == <<running, clock, alarm, deadline, woken>>

\* An alarm asked for at or behind the present clock is owed at the end of
\* the instruction that starts now or is under way.
OwedAt(at, now) ==
  IF at = Never THEN Never ELSE IF at > now THEN at ELSE now + 1

Owed(alarms, now) == [c \in Cards |-> OwedAt(alarms[c], now)]

Init ==
  /\ running = FALSE
  /\ clock \in Nat
  /\ alarm = [c \in Cards |-> Never]
  /\ deadline = [c \in Cards |-> Never]
  /\ woken = {}

\* A card asks for a wake, replaces the one it had, or cancels it.
Ask(c) ==
  /\ alarm' \in [Cards -> Nat]
  /\ alarm' = [alarm EXCEPT ![c] = alarm'[c]]
  /\ deadline' = [deadline EXCEPT ![c] = OwedAt(alarm'[c], clock)]
  /\ UNCHANGED <<running, clock, woken>>

\* A machine reset drops every alarm; the cards' resets may ask afresh.
Reset ==
  /\ alarm' \in [Cards -> Nat]
  /\ deadline' = Owed(alarm', clock)
  /\ UNCHANGED <<running, clock, woken>>

\* Everything due rings at once and is spent, before the next instruction.
Ring ==
  LET due == {c \in Cards : alarm[c] <= clock}
  IN  /\ running
      /\ due # {}
      /\ due \cap woken = {}
      /\ alarm' = [c \in Cards |-> IF c \in due THEN Never ELSE alarm[c]]
      /\ deadline' = [c \in Cards |-> IF c \in due THEN Never ELSE deadline[c]]
      /\ woken' = woken \cup due
      /\ UNCHANGED <<running, clock>>

Instruction ==
  /\ running
  /\ \A c \in Cards : alarm[c] # Never => clock < deadline[c]
  /\ \E cost \in Costs : clock' = clock + cost
  /\ woken' = {}
  /\ UNCHANGED <<running, alarm, deadline>>

StartFrame == ~running /\ running' = TRUE /\ UNCHANGED <<clock, alarm, deadline, woken>>

EndFrame == running /\ running' = FALSE /\ UNCHANGED <<clock, alarm, deadline, woken>>

\* Between frames the clock may move past an alarm: a debugger step services
\* nothing, and a snapshot brings its own clock.  What is armed after that is
\* owed from there on.
ClockMoves ==
  /\ ~running
  /\ clock' \in Nat
  /\ alarm' \in [Cards -> Nat]
  /\ deadline' = Owed(alarm', clock')
  /\ woken' = {}
  /\ UNCHANGED running

Next ==
  \/ \E c \in Cards : Ask(c)
  \/ Reset \/ Ring \/ Instruction \/ StartFrame \/ EndFrame \/ ClockMoves

Spec == Init /\ [][Next]_vars
=============================================================================
