----------------------------- MODULE Cards_proof -----------------------------
(***************************************************************************)
(* What is proved of the frame loop and of five parts it drives: the       *)
(* expansion ROM window, the 6821, the game port with its queues of edges, *)
(* the block device, and the mouse card.                                   *)
(***************************************************************************)
EXTENDS FrameScheduler, ExpansionRom, MouseCard, GamePort, BlockDevice,
        SequenceTheorems, FiniteSetTheorems, WellFoundedInduction, TLAPS

----------------------------------------------------------------------------
(* The frame loop *)

LEMMA LeastNatural ==
  ASSUME NEW T, T \subseteq Nat, T # {}
  PROVE  \E m \in T : \A n \in T : m <= n
<1> DEFINE R == OpToRel(<, Nat)
<1>1. \E m \in T : \A n \in T : ~ (<<n, m>> \in R)
  <2> HIDE DEF R
  <2> QED BY NatLessThanWellFounded, WFMin DEF R
<1>2. ASSUME NEW m \in T, NEW n \in T, ~ (<<n, m>> \in R)
      PROVE  m <= n
  BY <1>2 DEF OpToRel
<1> QED BY <1>1, <1>2

LEMMA EarliestIsLeast ==
  ASSUME NEW ev \in [Cards -> Nat]
  PROVE  /\ Earliest(ev) \in {ev[c] : c \in Cards} \cup {Never}
         /\ Earliest(ev) \in Nat
         /\ Earliest(ev) <= Never
         /\ \A c \in Cards : Earliest(ev) <= ev[c]
<1> DEFINE T == {ev[c] : c \in Cards} \cup {Never}
<1>1. T \subseteq Nat /\ T # {}
  BY CyclesAssumption
<1>2. \E m \in T : \A n \in T : m <= n
  <2> HIDE DEF T
  <2> QED BY <1>1, LeastNatural
<1>3. Earliest(ev) \in T /\ \A n \in T : Earliest(ev) <= n
  BY <1>2 DEF Earliest
<1> QED BY <1>1, <1>3

-----------------------------------------------------------------------------
(* The inductive invariant.  NoInstructionStartsOverdue is not inductive   *)
(* by itself: that the next instruction of a slice starts in time follows  *)
(* from the slice's bound (SliceBound), which was computed from the cached *)
(* earliest event (NextEventIsEarliest) on the frame's own count           *)
(* (SlicesKeepOneCount), and what is owed is never before what was asked.  *)
(* RoomOnTheClock keeps the clock below Never, as 2^64 - 1 is in practice. *)

OnlyPresentCardsAreArmed ==
  \A c \in Cards : (event[c] # Never \/ c \in due) => c \in present

DeadlineFollowsEvent ==
  \A c \in Cards : IF event[c] = Never THEN deadline[c] = Never
                    ELSE event[c] <= deadline[c]

\* Where the bound on the clock lets a frame or a step begin, it can finish.
RoomOnTheClock ==
  /\ pc \in {"service", "wake", "slice", "execute", "sliced"} =>
       \A cost \in Costs : frame_start + FrameCycles + cost <= LastCycle
  /\ pc = "step" => \A cost \in Costs : Clock + cost <= LastCycle

NobodyIsDueAtRest == pc \in {"idle", "step", "execute", "sliced", "service", "slice"} => due = {}

IInv ==
  /\ TypeOK
  /\ NextEventIsEarliest
  /\ OnlyPresentCardsAreArmed
  /\ DeadlineFollowsEvent
  /\ NoInstructionStartsOverdue
  /\ WakesWithinOneInstruction
  /\ SlicesKeepOneCount
  /\ FrameOverrunsByLessThanOneInstruction
  /\ SliceBound
  /\ RoomOnTheClock
  /\ NobodyIsDueAtRest

LEMMA TimesAreNaturals == Times \subseteq Nat /\ Never \notin Times
BY CyclesAssumption DEF Times

LEMMA RequestsAreCycles ==
  ASSUME NEW now \in Nat
  PROVE  Requests(now) \subseteq Cycles
BY CyclesAssumption DEF Requests, Cycles, Times

LEMMA OwedLater ==
  ASSUME NEW at \in Cycles, NEW now \in Nat
  PROVE  /\ OwedAt(at, now) \in Nat
         /\ at = Never => OwedAt(at, now) = Never
         /\ at # Never => at <= OwedAt(at, now) /\ now < OwedAt(at, now)
BY CyclesAssumption DEF OwedAt, Cycles, Times

LEMMA LimitOnlyLowers ==
  ASSUME NEW lim \in Nat, NEW slicing \in BOOLEAN, NEW at \in Cycles,
         NEW now \in Nat, NEW count \in Nat
  PROVE  /\ LimitCycles(lim, slicing, at, now, count) \in Nat
         /\ LimitCycles(lim, slicing, at, now, count) <= lim
         /\ slicing /\ at # Never =>
              LimitCycles(lim, slicing, at, now, count) <= Bound(at, now, count)
<1>1. at \in Nat
  BY CyclesAssumption DEF Cycles, Times
<1>2. Bound(at, now, count) \in Nat
  BY <1>1 DEF Bound
<1> QED BY <1>2 DEF LimitCycles

LEMMA EarliestIsCycle ==
  ASSUME NEW ev \in [Cards -> Cycles]
  PROVE  /\ Earliest(ev) \in Cycles
         /\ \A c \in Cards : Earliest(ev) <= ev[c]
         /\ Earliest(ev) <= Never
<1>1. Cycles \subseteq Nat
  BY CyclesAssumption DEF Cycles, Times
<1>2. ev \in [Cards -> Nat]
  BY <1>1
<1>3. /\ Earliest(ev) \in {ev[c] : c \in Cards} \cup {Never}
      /\ Earliest(ev) <= Never
      /\ \A c \in Cards : Earliest(ev) <= ev[c]
  BY <1>2, EarliestIsLeast
<1>4. {ev[c] : c \in Cards} \cup {Never} \subseteq Cycles
  BY DEF Cycles
<1> QED BY <1>3, <1>4

\* What any call of the host into a card leaves behind: an event either stands
\* with what was owed for it, or was asked for at the present clock; and if
\* anything was asked for, the running slice is bounded by the new earliest.
CardRan(now, count) ==
  /\ event' \in [Cards -> Cycles] /\ next_event' \in Cycles
  /\ deadline' \in [Cards -> Nat]
  /\ \A d \in Cards : event'[d] # Never => d \in present
  /\ \A d \in Cards : \/ event'[d] = event[d] /\ deadline'[d] = deadline[d]
                      \/ deadline'[d] = OwedAt(event'[d], now)
  /\ \/ UNCHANGED <<alarms, limit>>
     \/ /\ next_event' = Earliest(event')
        /\ limit' = LimitCycles(limit, in_slice, next_event', now, count)

LEMMA CardRunsLeaves ==
  ASSUME TypeOK, OnlyPresentCardsAreArmed,
         NEW now \in Nat, NEW count \in Nat,
         cumulative' = now, executed' = count,
         \/ ManagerReset
         \/ \E c \in present : CardRuns(c)
  PROVE  CardRan(now, count)
<1>1. CASE UNCHANGED <<alarms, limit>>
  BY <1>1 DEF CardRan, alarms, TypeOK, OnlyPresentCardsAreArmed
<1>2. ASSUME NEW c \in present, Schedule(c)
      PROVE  CardRan(now, count)
  <2>1. PICK at \in Requests(now) : event' = [event EXCEPT ![c] = at]
    BY <1>2 DEF Schedule
  <2>2. at \in Cycles
    BY RequestsAreCycles
  <2>3. event' \in [Cards -> Cycles] /\ c \in Cards
    BY <2>1, <2>2 DEF TypeOK
  <2>4. deadline' = [deadline EXCEPT ![c] = OwedAt(event'[c], now)]
    BY <1>2 DEF Schedule
  <2>5. deadline' \in [Cards -> Nat]
    BY <2>3, <2>4, OwedLater DEF TypeOK
  <2>6. next_event' = Earliest(event') /\ limit' = LimitCycles(limit, in_slice, next_event', now, count)
    BY <1>2 DEF Schedule
  <2>7. next_event' \in Cycles
    BY <2>3, <2>6, EarliestIsCycle
  <2>9. \A d \in Cards : event'[d] # Never => d \in present
    BY <2>1 DEF TypeOK, OnlyPresentCardsAreArmed
  <2>10. \A d \in Cards : \/ event'[d] = event[d] /\ deadline'[d] = deadline[d]
                          \/ deadline'[d] = OwedAt(event'[d], now)
    BY <2>1, <2>4 DEF TypeOK
  <2> QED BY <2>3, <2>5, <2>6, <2>7, <2>9, <2>10 DEF CardRan
<1>3. CASE ManagerReset
  <2>1. event' \in [Cards -> Cycles]
    BY <1>3, RequestsAreCycles DEF ManagerReset
  <2>2. /\ deadline' = Owed(event', now)
        /\ next_event' = Earliest(event') /\ limit' = LimitCycles(limit, in_slice, next_event', now, count)
    BY <1>3 DEF ManagerReset
  <2>3. \A d \in Cards : deadline'[d] = OwedAt(event'[d], now)
    BY <2>2 DEF Owed
  <2>4. deadline' \in [Cards -> Nat]
    BY <2>1, <2>2, OwedLater DEF Owed
  <2>5. next_event' \in Cycles
    BY <2>1, <2>2, EarliestIsCycle
  <2>7. \A d \in Cards : event'[d] # Never => d \in present
    BY <1>3 DEF ManagerReset
  <2> QED BY <2>1, <2>2, <2>3, <2>4, <2>5, <2>7 DEF CardRan
<1> QED BY <1>1, <1>2, <1>3 DEF CardRuns

\* A call into a card keeps the invariant at whatever place the thread makes
\* it, as long as the clock it sees is the true one.
LEMMA CardRanKeeps ==
  ASSUME IInv,
         NEW now \in Times, NEW count \in Nat, CardRan(now, count),
         now = Clock, Clock' = now, cumulative' = now, executed' = count,
         UNCHANGED <<pc, present, ran, in_slice, frame_start, woken>>,
         due' \subseteq due, accesses' \in 0 .. MaxAccesses,
         SlicesKeepOneCount'
  PROVE  IInv'
<1> now \in Nat
  BY TimesAreNaturals
<1>1. TypeOK'
  <2>1. limit' \in Nat
    <3>1. CASE UNCHANGED <<alarms, limit>>
      BY <3>1 DEF IInv, TypeOK
    <3>2. CASE limit' = LimitCycles(limit, in_slice, next_event', now, count)
      BY <3>2, LimitOnlyLowers DEF IInv, TypeOK, CardRan
    <3> QED BY <3>1, <3>2 DEF CardRan
  <2>2. /\ event' \in [Cards -> Cycles] /\ next_event' \in Cycles
        /\ deadline' \in [Cards -> Nat]
    BY DEF CardRan
  <2>3. /\ pc' \in {"idle", "service", "wake", "slice", "execute", "sliced", "think", "step"}
        /\ present' \subseteq Cards /\ due' \subseteq Cards /\ woken' \subseteq Cards
        /\ cumulative' \in Times /\ executed' \in Nat /\ ran' \in Nat
        /\ in_slice' \in BOOLEAN /\ frame_start' \in Nat
    BY DEF IInv, TypeOK
  <2> QED BY <2>1, <2>2, <2>3 DEF TypeOK
<1>2. NextEventIsEarliest'
  BY DEF CardRan, IInv, NextEventIsEarliest, alarms
<1>3. OnlyPresentCardsAreArmed'
  BY DEF CardRan, IInv, OnlyPresentCardsAreArmed
<1>4. DeadlineFollowsEvent'
  <2> SUFFICES ASSUME NEW d \in Cards
               PROVE  IF event'[d] = Never THEN deadline'[d] = Never
                      ELSE event'[d] <= deadline'[d]
    BY DEF DeadlineFollowsEvent
  <2>1. event'[d] \in Cycles
    BY DEF CardRan
  <2>2. CASE event'[d] = event[d] /\ deadline'[d] = deadline[d]
    BY <2>2 DEF IInv, DeadlineFollowsEvent
  <2>3. CASE deadline'[d] = OwedAt(event'[d], now)
    BY <2>1, <2>3, OwedLater
  <2> QED BY <2>2, <2>3 DEF CardRan
<1>5. \A d \in Cards : event'[d] # Never =>
        \/ event'[d] = event[d] /\ deadline'[d] = deadline[d]
        \/ now < deadline'[d]
  <2> SUFFICES ASSUME NEW d \in Cards, event'[d] # Never,
                      deadline'[d] = OwedAt(event'[d], now)
               PROVE  now < deadline'[d]
    BY DEF CardRan
  <2>1. event'[d] \in Cycles
    BY DEF CardRan
  <2> QED BY <2>1, OwedLater
<1>6. NoInstructionStartsOverdue'
  BY <1>5 DEF IInv, NoInstructionStartsOverdue
<1>7. WakesWithinOneInstruction'
  <2> SUFFICES ASSUME NEW d \in Cards, event'[d] # Never
               PROVE  \E cost \in Costs : now < deadline'[d] + cost
    BY DEF WakesWithinOneInstruction
  <2>1. CASE event'[d] = event[d] /\ deadline'[d] = deadline[d]
    BY <2>1 DEF IInv, WakesWithinOneInstruction
  <2>2. CASE now < deadline'[d]
    <3>1. PICK cost \in Costs : cost \in Nat
      BY CyclesAssumption
    <3>2. deadline'[d] \in Nat
      BY DEF CardRan
    <3>3. now < deadline'[d] + cost
      BY <2>2, <3>1, <3>2
    <3> QED BY <3>3
  <2> QED BY <1>5, <2>1, <2>2
<1>8. SliceBound'
  <2>1. in_slice' <=> pc' \in {"execute", "sliced"}
    BY DEF IInv, SliceBound
  <2>2. ASSUME in_slice
        PROVE  limit' <= FrameCycles
    <3>1. limit \in Nat /\ limit <= FrameCycles /\ FrameCycles \in Nat
      BY <2>2, CyclesAssumption DEF IInv, TypeOK, SliceBound
    <3>2. CASE UNCHANGED <<alarms, limit>>
      BY <3>1, <3>2
    <3>3. CASE limit' = LimitCycles(limit, in_slice, next_event', now, count)
      <4>1. LimitCycles(limit, in_slice, next_event', now, count) \in Nat
        BY LimitOnlyLowers DEF IInv, TypeOK, CardRan
      <4>2. LimitCycles(limit, in_slice, next_event', now, count) <= limit
        BY LimitOnlyLowers DEF IInv, TypeOK, CardRan
      <4> QED BY <3>1, <3>3, <4>1, <4>2
    <3> QED BY <3>2, <3>3 DEF CardRan
  <2>3. ASSUME pc = "execute", NEW d \in Cards, event'[d] # Never
        PROVE  frame_start + limit' <= deadline'[d]
    <3>1. CASE UNCHANGED <<alarms, limit>>
      BY <2>3, <3>1 DEF IInv, SliceBound, alarms
    <3>2. CASE /\ next_event' = Earliest(event')
               /\ limit' = LimitCycles(limit, in_slice, next_event', now, count)
      <4> DEFINE next == Earliest(event')
                 bound == LimitCycles(limit, in_slice, next, now, count)
      <4>1. event' \in [Cards -> Cycles] /\ deadline'[d] \in Nat
        BY DEF CardRan
      <4>2. next \in Cycles /\ next <= event'[d] /\ next \in Nat
        BY <4>1, EarliestIsCycle, CyclesAssumption DEF Cycles, Times
      <4>3. event'[d] \in Nat /\ event'[d] < Never
        BY <2>3, <4>1, CyclesAssumption DEF Cycles, Times
      <4>4. next # Never
        BY <4>2, <4>3, CyclesAssumption
      <4>5. in_slice = TRUE /\ limit \in Nat
        BY <2>3 DEF IInv, SliceBound, TypeOK
      <4>6. bound \in Nat /\ bound <= Bound(next, now, count)
        BY <4>2, <4>4, <4>5, LimitOnlyLowers
      <4>7. now = frame_start + count /\ frame_start \in Nat
        BY <2>3 DEF SlicesKeepOneCount, IInv, TypeOK
      <4>8. event'[d] <= deadline'[d]
        BY <1>4, <2>3 DEF DeadlineFollowsEvent
      <4>9. now < deadline'[d]
        BY <1>6, <2>3 DEF NoInstructionStartsOverdue
      <4> HIDE DEF next, bound
      <4>10. frame_start + bound <= deadline'[d]
        BY <4>1, <4>2, <4>3, <4>6, <4>7, <4>8, <4>9 DEF Bound
      <4> QED BY <3>2, <4>10 DEF next, bound
    <3> QED BY <3>1, <3>2 DEF CardRan
  <2> QED BY <2>1, <2>2, <2>3 DEF SliceBound
<1>9. FrameOverrunsByLessThanOneInstruction' /\ RoomOnTheClock' /\ NobodyIsDueAtRest'
  BY DEF IInv, FrameOverrunsByLessThanOneInstruction, RoomOnTheClock,
         NobodyIsDueAtRest
<1> QED BY <1>1, <1>2, <1>3, <1>4, <1>6, <1>7, <1>8, <1>9 DEF IInv

LEMMA InitInv == Init => IInv
<1> SUFFICES ASSUME Init PROVE IInv
  OBVIOUS
<1>1. \A c \in Cards : event[c] = Never /\ deadline[c] = Never
  BY DEF Init, NoEvents
<1>2. TypeOK
  <2>1. event \in [Cards -> Cycles] /\ next_event \in Cycles
    BY DEF Init, NoEvents, Cycles
  <2>2. deadline \in [Cards -> Nat]
    BY CyclesAssumption DEF Init, NoEvents
  <2>3. cumulative \in Times /\ accesses \in 0 .. MaxAccesses
    BY CyclesAssumption DEF Init, Times
  <2>4. executed \in Nat /\ ran \in Nat /\ limit \in Nat /\ frame_start \in Nat
    BY DEF Init
  <2> QED BY <2>1, <2>2, <2>3, <2>4 DEF Init, TypeOK
<1>3. NextEventIsEarliest
  <2>1. event \in [Cards -> Nat]
    BY CyclesAssumption DEF Init, NoEvents
  <2>2. Earliest(event) \in {event[c] : c \in Cards} \cup {Never}
    BY <2>1, EarliestIsLeast
  <2> QED BY <1>1, <2>2 DEF NextEventIsEarliest, Init
<1>4. OnlyPresentCardsAreArmed /\ DeadlineFollowsEvent
  BY <1>1 DEF Init, OnlyPresentCardsAreArmed, DeadlineFollowsEvent
<1>5. NoInstructionStartsOverdue /\ WakesWithinOneInstruction
  BY <1>1 DEF NoInstructionStartsOverdue, WakesWithinOneInstruction
<1>6. SlicesKeepOneCount /\ SliceBound
  BY DEF Init, SlicesKeepOneCount, SliceBound
<1>7. FrameOverrunsByLessThanOneInstruction /\ RoomOnTheClock /\ NobodyIsDueAtRest
  BY DEF Init, FrameOverrunsByLessThanOneInstruction, RoomOnTheClock, NobodyIsDueAtRest
<1> QED BY <1>2, <1>3, <1>4, <1>5, <1>6, <1>7 DEF IInv

\* Steps of the loop that leave clock, events and slice alone.
LEMMA ControlSteps ==
  ASSUME IInv, NothingDue \/ EndThink \/ HostThink \/ (\E c \in Cards : Register(c))
  PROVE  IInv'
<1>1. CASE NothingDue
  <2>1. TypeOK' /\ OnlyPresentCardsAreArmed' /\ DeadlineFollowsEvent'
    BY <1>1 DEF IInv, TypeOK, OnlyPresentCardsAreArmed, DeadlineFollowsEvent,
                NothingDue, machine, alarms
  <2>2. NextEventIsEarliest' /\ SlicesKeepOneCount' /\ SliceBound'
    BY <1>1 DEF IInv, NextEventIsEarliest, SlicesKeepOneCount, SliceBound,
                NothingDue, machine, alarms
  <2>3. WakesWithinOneInstruction'
    BY <1>1 DEF IInv, WakesWithinOneInstruction, NothingDue, machine, alarms, Clock
  <2>4. NoInstructionStartsOverdue'
    <3> SUFFICES ASSUME NEW c \in Cards, event[c] # Never
                 PROVE  cumulative < deadline[c]
      BY <1>1 DEF NoInstructionStartsOverdue, NothingDue, machine, alarms, Clock
    <3>1. event \in [Cards -> Cycles] /\ deadline[c] \in Nat /\ cumulative \in Nat
      BY TimesAreNaturals DEF IInv, TypeOK
    <3>2. Earliest(event) \in Cycles /\ Earliest(event) <= event[c]
      BY <3>1, EarliestIsCycle
    <3>3. cumulative < Earliest(event)
      BY <1>1, <3>1, <3>2, CyclesAssumption
         DEF IInv, NextEventIsEarliest, NothingDue, Cycles, Times
    <3>4. event[c] <= deadline[c]
      BY DEF IInv, DeadlineFollowsEvent
    <3> QED BY <3>1, <3>2, <3>3, <3>4, CyclesAssumption DEF Cycles, Times
  <2>5. FrameOverrunsByLessThanOneInstruction' /\ RoomOnTheClock' /\ NobodyIsDueAtRest'
    BY <1>1 DEF IInv, FrameOverrunsByLessThanOneInstruction, RoomOnTheClock, NobodyIsDueAtRest,
                NothingDue, machine
  <2> QED BY <2>1, <2>2, <2>3, <2>4, <2>5 DEF IInv
<1>2. CASE EndThink
  BY <1>2 DEF IInv, TypeOK, OnlyPresentCardsAreArmed, DeadlineFollowsEvent,
              NextEventIsEarliest, SlicesKeepOneCount, SliceBound, Clock, RoomOnTheClock, NobodyIsDueAtRest,
              FrameOverrunsByLessThanOneInstruction, WakesWithinOneInstruction, NoInstructionStartsOverdue,
              EndThink, machine, alarms
<1>3. CASE HostThink
  BY <1>3 DEF IInv, TypeOK, OnlyPresentCardsAreArmed, DeadlineFollowsEvent,
              NextEventIsEarliest, SlicesKeepOneCount, SliceBound, Clock, RoomOnTheClock, NobodyIsDueAtRest,
              FrameOverrunsByLessThanOneInstruction, WakesWithinOneInstruction, NoInstructionStartsOverdue,
              HostThink, machine, alarms
<1>4. ASSUME NEW c \in Cards, Register(c) PROVE IInv'
  BY <1>4 DEF IInv, TypeOK, OnlyPresentCardsAreArmed, DeadlineFollowsEvent,
              NextEventIsEarliest, SlicesKeepOneCount, SliceBound, Clock, RoomOnTheClock, NobodyIsDueAtRest,
              FrameOverrunsByLessThanOneInstruction, WakesWithinOneInstruction, NoInstructionStartsOverdue,
              Register, machine, alarms
<1> QED BY <1>1, <1>2, <1>3, <1>4

\* Collecting clears what is due; what is left is still ahead of the clock.
LEMMA CollectKeeps == ASSUME IInv, CollectDue PROVE IInv'
<1> DEFINE now_due == {c \in Cards : event[c] <= cumulative}
<1>1. /\ pc = "service" /\ pc' = "wake" /\ due' = now_due
      /\ woken' = woken \cup now_due
      /\ event' = [c \in Cards |-> IF c \in now_due THEN Never ELSE event[c]]
      /\ deadline' = [c \in Cards |-> IF c \in now_due THEN Never ELSE deadline[c]]
      /\ UNCHANGED <<present, next_event, machine>>
  BY DEF CollectDue
<1>2. \A c \in Cards : event'[c] # Never =>
        /\ event'[c] = event[c] /\ deadline'[c] = deadline[c]
        /\ ~(event[c] <= cumulative)
  BY <1>1
<1>3. TypeOK'
  BY <1>1, CyclesAssumption DEF IInv, TypeOK, machine, Cycles, Times
<1>4. NextEventIsEarliest' /\ SlicesKeepOneCount' /\ SliceBound'
  BY <1>1 DEF IInv, NextEventIsEarliest, SlicesKeepOneCount, SliceBound, machine
<1>5. OnlyPresentCardsAreArmed'
  <2>1. \A c \in now_due : event[c] # Never
    <3> SUFFICES ASSUME NEW c \in Cards, event[c] = Never, Never <= cumulative
                 PROVE  FALSE
      OBVIOUS
    <3>1. cumulative \in Nat /\ cumulative <= LastCycle
      BY CyclesAssumption DEF IInv, TypeOK, Times
    <3> QED BY <3>1, CyclesAssumption
  <2> QED BY <1>1, <1>2, <2>1 DEF IInv, OnlyPresentCardsAreArmed
<1>6. DeadlineFollowsEvent'
  BY <1>1 DEF IInv, DeadlineFollowsEvent
<1>7. WakesWithinOneInstruction'
  BY <1>1, <1>2 DEF IInv, WakesWithinOneInstruction, machine, Clock
<1>8. NoInstructionStartsOverdue'
  <2> SUFFICES ASSUME NEW c \in Cards, event[c] # Never, ~(event[c] <= cumulative)
               PROVE  cumulative < deadline[c]
    BY <1>1, <1>2 DEF NoInstructionStartsOverdue, machine, Clock
  <2>1. event[c] \in Nat /\ deadline[c] \in Nat /\ cumulative \in Nat
    BY CyclesAssumption DEF IInv, TypeOK, Cycles, Times
  <2>2. event[c] <= deadline[c]
    BY DEF IInv, DeadlineFollowsEvent
  <2> QED BY <2>1, <2>2
<1>9. FrameOverrunsByLessThanOneInstruction' /\ RoomOnTheClock' /\ NobodyIsDueAtRest'
  BY <1>1 DEF IInv, FrameOverrunsByLessThanOneInstruction, RoomOnTheClock, NobodyIsDueAtRest, machine
<1> QED BY <1>3, <1>4, <1>5, <1>6, <1>7, <1>8, <1>9 DEF IInv

LEMMA BeginFrameKeeps == ASSUME IInv, BeginFrame PROVE IInv'
<1>1. /\ pc = "idle" /\ pc' = "service" /\ executed' = 0 /\ ran' = 0
      /\ frame_start' = cumulative
      /\ \A cost \in Costs : cumulative + FrameCycles + cost <= LastCycle
      /\ UNCHANGED <<present, due, woken, cumulative, limit, in_slice, accesses,
                     event, next_event, deadline>>
  BY DEF BeginFrame, alarms
<1>2. TypeOK'
  BY <1>1, TimesAreNaturals DEF IInv, TypeOK
<1>3. NextEventIsEarliest' /\ OnlyPresentCardsAreArmed' /\ DeadlineFollowsEvent'
  BY <1>1 DEF IInv, NextEventIsEarliest, OnlyPresentCardsAreArmed, DeadlineFollowsEvent
<1>4. NoInstructionStartsOverdue' /\ WakesWithinOneInstruction'
  BY <1>1 DEF IInv, NoInstructionStartsOverdue, WakesWithinOneInstruction, Clock
<1>5. SlicesKeepOneCount'
  BY <1>1, TimesAreNaturals DEF IInv, TypeOK, SlicesKeepOneCount
<1>6. FrameOverrunsByLessThanOneInstruction' /\ RoomOnTheClock' /\ SliceBound'
      /\ NobodyIsDueAtRest'
  BY <1>1, CyclesAssumption DEF IInv, SliceBound, RoomOnTheClock, NobodyIsDueAtRest,
     FrameOverrunsByLessThanOneInstruction
<1> QED BY <1>2, <1>3, <1>4, <1>5, <1>6 DEF IInv

LEMMA BeginStepKeeps == ASSUME IInv, BeginStep PROVE IInv'
<1>1. /\ pc = "idle" /\ pc' = "step" /\ executed' = 0 /\ ran' = 0 /\ limit' = 0
      /\ frame_start' = cumulative
      /\ \A cost \in Costs : cumulative + cost <= LastCycle
      /\ UNCHANGED <<present, due, woken, cumulative, in_slice, accesses,
                     event, next_event, deadline>>
  BY DEF BeginStep, alarms
<1>2. TypeOK'
  BY <1>1, TimesAreNaturals DEF IInv, TypeOK
<1>3. NextEventIsEarliest' /\ OnlyPresentCardsAreArmed' /\ DeadlineFollowsEvent'
  BY <1>1 DEF IInv, NextEventIsEarliest, OnlyPresentCardsAreArmed, DeadlineFollowsEvent
<1>4. Clock' = cumulative /\ Clock = cumulative
  BY <1>1, TimesAreNaturals DEF Clock, IInv, TypeOK
<1>5. NoInstructionStartsOverdue' /\ WakesWithinOneInstruction'
  BY <1>1, <1>4 DEF IInv, NoInstructionStartsOverdue, WakesWithinOneInstruction
<1>6. SlicesKeepOneCount'
  BY <1>1, TimesAreNaturals DEF IInv, TypeOK, SlicesKeepOneCount
<1>7. FrameOverrunsByLessThanOneInstruction' /\ RoomOnTheClock' /\ SliceBound' /\ NobodyIsDueAtRest'
  BY <1>1, <1>4 DEF IInv, SliceBound, RoomOnTheClock, NobodyIsDueAtRest,
     FrameOverrunsByLessThanOneInstruction
<1> QED BY <1>2, <1>3, <1>5, <1>6, <1>7 DEF IInv

LEMMA ServiceDoneKeeps == ASSUME IInv, ServiceDone PROVE IInv'
<1>1. /\ pc = "wake" /\ due = {} /\ pc' = "slice" /\ next_event' = Earliest(event)
      /\ UNCHANGED <<present, due, woken, event, deadline, cumulative, executed, ran,
                     limit, in_slice, accesses, frame_start>>
  BY DEF ServiceDone, machine
<1>2. TypeOK'
  BY <1>1, EarliestIsCycle DEF IInv, TypeOK
<1>3. NextEventIsEarliest' /\ OnlyPresentCardsAreArmed' /\ DeadlineFollowsEvent'
  BY <1>1 DEF IInv, NextEventIsEarliest, OnlyPresentCardsAreArmed, DeadlineFollowsEvent
<1>4. NoInstructionStartsOverdue' /\ WakesWithinOneInstruction'
  BY <1>1 DEF IInv, NoInstructionStartsOverdue, WakesWithinOneInstruction, Clock
<1>5. SlicesKeepOneCount' /\ SliceBound'
  BY <1>1 DEF IInv, SlicesKeepOneCount, SliceBound
<1>6. FrameOverrunsByLessThanOneInstruction' /\ RoomOnTheClock' /\ NobodyIsDueAtRest'
  BY <1>1 DEF IInv, RoomOnTheClock, NobodyIsDueAtRest, FrameOverrunsByLessThanOneInstruction
<1> QED BY <1>2, <1>3, <1>4, <1>5, <1>6 DEF IInv

\* The bound a slice starts with is not past what any card is owed.
LEMMA StartSliceKeeps == ASSUME IInv, StartSlice PROVE IInv'
<1> DEFINE bound == LimitCycles(FrameCycles, TRUE, next_event, cumulative, executed)
<1>1. /\ pc = "slice" /\ pc' = "execute" /\ in_slice' = TRUE /\ limit' = bound
      /\ ran' = executed
      /\ UNCHANGED <<present, due, woken, cumulative, executed, accesses,
                     frame_start, event, next_event, deadline>>
  BY DEF StartSlice, alarms
<1>2. /\ cumulative \in Nat /\ executed \in Nat /\ frame_start \in Nat
      /\ FrameCycles \in Nat /\ next_event \in Cycles /\ next_event \in Nat
  BY TimesAreNaturals, CyclesAssumption DEF IInv, TypeOK, Cycles
<1>3. /\ bound \in Nat /\ bound <= FrameCycles
      /\ next_event # Never => bound <= Bound(next_event, cumulative, executed)
  BY <1>2, LimitOnlyLowers
<1>4. cumulative = frame_start + executed /\ ran = executed
  BY <1>1 DEF IInv, SlicesKeepOneCount
<1>5. TypeOK'
  BY <1>1, <1>2, <1>3 DEF IInv, TypeOK
<1>6. Clock = cumulative /\ Clock' = cumulative
  BY <1>1, <1>2 DEF Clock
<1>7. NextEventIsEarliest' /\ OnlyPresentCardsAreArmed' /\ DeadlineFollowsEvent'
  BY <1>1 DEF IInv, NextEventIsEarliest, OnlyPresentCardsAreArmed, DeadlineFollowsEvent
<1>8. NoInstructionStartsOverdue' /\ WakesWithinOneInstruction'
  BY <1>1, <1>6 DEF IInv, NoInstructionStartsOverdue, WakesWithinOneInstruction
<1>9. SlicesKeepOneCount'
  BY <1>1, <1>2, <1>4 DEF SlicesKeepOneCount
<1>10. FrameOverrunsByLessThanOneInstruction' /\ RoomOnTheClock' /\ NobodyIsDueAtRest'
  BY <1>1, <1>4 DEF IInv, RoomOnTheClock, NobodyIsDueAtRest, FrameOverrunsByLessThanOneInstruction
<1>11. ASSUME NEW c \in Cards, event[c] # Never
       PROVE  frame_start + bound <= deadline[c]
  <2>1. event[c] \in Nat /\ deadline[c] \in Nat /\ event[c] < Never
    BY <1>11, TimesAreNaturals, CyclesAssumption DEF IInv, TypeOK, Cycles, Times
  <2>2. next_event <= event[c] /\ next_event # Never
    <3>1. event \in [Cards -> Cycles]
      BY DEF IInv, TypeOK
    <3>2. next_event = Earliest(event)
      BY <1>1 DEF IInv, NextEventIsEarliest
    <3>3. next_event <= event[c]
      BY <3>1, <3>2, EarliestIsCycle
    <3> QED BY <1>2, <2>1, <3>3, CyclesAssumption
  <2>3. cumulative < deadline[c] /\ event[c] <= deadline[c]
    BY <1>1, <1>6, <1>11 DEF IInv, NoInstructionStartsOverdue, DeadlineFollowsEvent
  <2>4. bound \in Nat /\ bound <= Bound(next_event, cumulative, executed)
    BY <1>3, <2>2
  <2> HIDE DEF bound
  <2> QED BY <1>2, <1>4, <2>1, <2>2, <2>3, <2>4 DEF Bound
<1>12. SliceBound'
  BY <1>1, <1>3, <1>11 DEF SliceBound
<1> QED BY <1>5, <1>7, <1>8, <1>9, <1>10, <1>12 DEF IInv

\* A call into a card between instructions sees the clock as it stands.
LEMMA CallsBetweenInstructions ==
  ASSUME IInv, (\E c \in Cards : WakeCard(c) \/ Think(c)) \/ HardReset
  PROVE  IInv'
<1>1. /\ pc \in {"wake", "think", "idle"}
      /\ cumulative' = cumulative /\ executed' = executed
      /\ UNCHANGED <<pc, present, ran, in_slice, frame_start, woken, accesses>>
      /\ due' \subseteq due
  BY DEF WakeCard, Think, HardReset
<1>2. ManagerReset \/ \E c \in present : CardRuns(c)
  <2>1. ASSUME NEW c \in Cards, WakeCard(c) \/ Think(c)
        PROVE  ManagerReset \/ CardRuns(c)
    BY <2>1 DEF WakeCard, Think
  <2>2. ASSUME NEW c \in Cards, WakeCard(c) \/ Think(c)
        PROVE  c \in due
    BY <2>2 DEF WakeCard, Think, FirstOf
  <2>3. due \subseteq present \/ HardReset
    BY DEF IInv, OnlyPresentCardsAreArmed, TypeOK, HardReset
  <2> QED BY <2>1, <2>2, <2>3 DEF HardReset
<1>3. cumulative \in Nat /\ executed \in Nat /\ cumulative \in Times
  BY TimesAreNaturals DEF IInv, TypeOK
<1>4. CardRan(cumulative, executed)
  <2>1. TypeOK /\ OnlyPresentCardsAreArmed
    BY DEF IInv
  <2> QED BY <1>1, <1>2, <1>3, <2>1, CardRunsLeaves
<1>5. Clock = cumulative /\ Clock' = cumulative
  BY <1>1 DEF Clock
<1>6. SlicesKeepOneCount'
  BY <1>1 DEF IInv, SlicesKeepOneCount
<1>7. accesses' \in 0 .. MaxAccesses
  BY <1>1 DEF IInv, TypeOK
<1> QED BY <1>1, <1>3, <1>4, <1>5, <1>6, <1>7, CardRanKeeps

\* A register access brings the lazily kept clock up to date first, so the
\* card asks against the cycle the running instruction began at.
LEMMA AccessKeeps == ASSUME IInv, NEW c \in Cards, Access(c) PROVE IInv'
<1> DEFINE now == cumulative + (ran - executed)
<1>1. /\ pc \in {"execute", "step"} /\ c \in present
      /\ accesses < MaxAccesses /\ accesses' = accesses + 1
      /\ cumulative' = now /\ executed' = ran
      /\ UNCHANGED <<pc, present, due, woken, ran, in_slice, frame_start>>
      /\ CardRuns(c)
  BY DEF Access
<1>2. /\ cumulative \in Nat /\ executed \in Nat /\ ran \in Nat /\ frame_start \in Nat
      /\ cumulative = frame_start + executed /\ executed <= ran
      /\ accesses \in 0 .. MaxAccesses
  BY <1>1, TimesAreNaturals DEF IInv, TypeOK, SlicesKeepOneCount
<1>3. now \in Nat /\ now = frame_start + ran /\ now = Clock
  BY <1>1, <1>2 DEF Clock
<1>4. now \in Times
  <2>1. PICK cost \in Costs : cost \in Nat
    BY CyclesAssumption
  <2>2. CASE pc = "execute"
    <3>1. ran < FrameCycles /\ frame_start + FrameCycles + cost <= LastCycle
      BY <2>2 DEF IInv, FrameOverrunsByLessThanOneInstruction, RoomOnTheClock, NobodyIsDueAtRest
    <3> QED BY <1>2, <1>3, <2>1, <3>1, CyclesAssumption DEF Times
  <2>3. CASE pc = "step"
    <3>1. Clock + cost <= LastCycle
      BY <2>3 DEF IInv, RoomOnTheClock, NobodyIsDueAtRest
    <3>2. now + cost <= LastCycle
      BY <1>3, <3>1
    <3> HIDE DEF now
    <3> QED BY <1>3, <2>1, <3>2, CyclesAssumption DEF Times
  <2> QED BY <1>1, <2>2, <2>3
<1> HIDE DEF now
<1>5. CardRan(now, ran)
  <2>1. TypeOK /\ OnlyPresentCardsAreArmed
    BY DEF IInv
  <2> QED BY <1>1, <1>2, <1>3, <2>1, CardRunsLeaves
<1>6. Clock' = now
  BY <1>1, <1>2, <1>3 DEF Clock
<1>7. SlicesKeepOneCount'
  BY <1>1, <1>2, <1>3 DEF SlicesKeepOneCount
<1>8. accesses' \in 0 .. MaxAccesses
  BY <1>1, <1>2, CyclesAssumption
<1>9. due' \subseteq due /\ UNCHANGED <<pc, present, ran, in_slice, frame_start, woken>>
  BY <1>1
<1>10. now = Clock /\ cumulative' = now /\ executed' = ran
  BY <1>1, <1>3
<1> QED BY <1>2, <1>4, <1>5, <1>6, <1>7, <1>8, <1>9, <1>10, CardRanKeeps

\* The instruction started in time, so it ends less than its own length late;
\* and the next one starts only below the bound, hence in time again.
LEMMA RetireKeeps == ASSUME IInv, NEW cost \in Costs, Retire(cost) PROVE IInv'
<1>1. /\ pc = "execute" /\ ran' = ran + cost /\ accesses' = 0 /\ woken' = {}
      /\ pc' = IF ran + cost < limit THEN "execute" ELSE "sliced"
      /\ UNCHANGED <<present, due, cumulative, executed, limit, in_slice,
                     frame_start, event, next_event, deadline>>
  BY DEF Retire, alarms
<1>2. /\ cumulative \in Nat /\ executed \in Nat /\ ran \in Nat /\ frame_start \in Nat
      /\ cumulative = frame_start + executed /\ executed <= ran
      /\ limit \in Nat /\ FrameCycles \in Nat /\ cost \in Nat
  BY <1>1, TimesAreNaturals, CyclesAssumption DEF IInv, TypeOK, SlicesKeepOneCount
<1>3. Clock = frame_start + ran /\ Clock' = frame_start + ran + cost
  BY <1>1, <1>2 DEF Clock
<1>4. TypeOK'
  BY <1>1, <1>2, CyclesAssumption DEF IInv, TypeOK
<1>5. NextEventIsEarliest' /\ OnlyPresentCardsAreArmed' /\ DeadlineFollowsEvent'
  BY <1>1 DEF IInv, NextEventIsEarliest, OnlyPresentCardsAreArmed, DeadlineFollowsEvent
<1>6. WakesWithinOneInstruction'
  <2> SUFFICES ASSUME NEW c \in Cards, event[c] # Never
               PROVE  frame_start + ran + cost < deadline[c] + cost
    BY <1>1, <1>3 DEF WakesWithinOneInstruction
  <2>1. frame_start + ran < deadline[c] /\ deadline[c] \in Nat
    BY <1>1, <1>3 DEF IInv, NoInstructionStartsOverdue, TypeOK
  <2> QED BY <1>2, <2>1
<1>7. NoInstructionStartsOverdue'
  <2> SUFFICES ASSUME NEW c \in Cards, event[c] # Never, pc' = "execute"
               PROVE  frame_start + ran + cost < deadline[c]
    BY <1>1, <1>3 DEF NoInstructionStartsOverdue
  <2>1. ran + cost < limit
    BY <1>1
  <2>2. frame_start + limit <= deadline[c] /\ deadline[c] \in Nat
    BY <1>1 DEF IInv, SliceBound, TypeOK
  <2> QED BY <1>2, <2>1, <2>2
<1>8. SlicesKeepOneCount'
  BY <1>1, <1>2 DEF SlicesKeepOneCount
<1>9. FrameOverrunsByLessThanOneInstruction'
  <2>1. ran < FrameCycles /\ limit <= FrameCycles
    BY <1>1 DEF IInv, FrameOverrunsByLessThanOneInstruction, SliceBound
  <2>2. CASE ran + cost < limit
    BY <1>1, <1>2, <2>1, <2>2 DEF FrameOverrunsByLessThanOneInstruction
  <2>3. CASE ~(ran + cost < limit)
    <3>1. ran + cost < FrameCycles + cost
      BY <1>2, <2>1
    <3> QED BY <1>1, <2>3, <3>1 DEF FrameOverrunsByLessThanOneInstruction
  <2> QED BY <2>2, <2>3
<1>10. RoomOnTheClock' /\ SliceBound' /\ NobodyIsDueAtRest'
  BY <1>1 DEF IInv, RoomOnTheClock, NobodyIsDueAtRest, SliceBound
<1> QED BY <1>4, <1>5, <1>6, <1>7, <1>8, <1>9, <1>10 DEF IInv

LEMMA EndSliceKeeps == ASSUME IInv, EndSlice PROVE IInv'
<1> DEFINE now == cumulative + (ran - executed)
<1>1. /\ pc = "sliced" /\ cumulative' = now /\ executed' = ran /\ in_slice' = FALSE
      /\ IF ran < FrameCycles THEN pc' = "service" /\ due' = due
         ELSE pc' = "think" /\ due' = present
      /\ UNCHANGED <<present, woken, ran, limit, accesses, frame_start,
                     event, next_event, deadline>>
  BY DEF EndSlice, alarms
<1>2. /\ cumulative \in Nat /\ executed \in Nat /\ ran \in Nat /\ frame_start \in Nat
      /\ cumulative = frame_start + executed /\ executed <= ran
  BY <1>1, TimesAreNaturals DEF IInv, TypeOK, SlicesKeepOneCount
<1>3. now \in Nat /\ now = frame_start + ran
  BY <1>2
<1>4. Clock = now /\ Clock' = now
  BY <1>1 DEF Clock
<1>5. now \in Times
  <2>1. PICK cost \in Costs : ran < FrameCycles + cost
    BY <1>1 DEF IInv, FrameOverrunsByLessThanOneInstruction
  <2>2. frame_start + FrameCycles + cost <= LastCycle
    BY <1>1 DEF IInv, RoomOnTheClock, NobodyIsDueAtRest
  <2>3. cost \in Nat
    BY CyclesAssumption
  <2> QED BY <1>2, <1>3, <2>1, <2>2, <2>3, CyclesAssumption DEF Times
<1> HIDE DEF now
<1>6. TypeOK'
  BY <1>1, <1>2, <1>5 DEF IInv, TypeOK
<1>7. NextEventIsEarliest' /\ DeadlineFollowsEvent' /\ OnlyPresentCardsAreArmed'
  BY <1>1 DEF IInv, NextEventIsEarliest, DeadlineFollowsEvent, OnlyPresentCardsAreArmed
<1>8. NoInstructionStartsOverdue' /\ WakesWithinOneInstruction'
  BY <1>1, <1>4 DEF IInv, NoInstructionStartsOverdue, WakesWithinOneInstruction
<1>9. SlicesKeepOneCount' /\ SliceBound'
  BY <1>1, <1>2, <1>3 DEF IInv, SlicesKeepOneCount, SliceBound
<1>10. FrameOverrunsByLessThanOneInstruction' /\ RoomOnTheClock' /\ NobodyIsDueAtRest'
  BY <1>1 DEF IInv, FrameOverrunsByLessThanOneInstruction, RoomOnTheClock, NobodyIsDueAtRest
<1> QED BY <1>6, <1>7, <1>8, <1>9, <1>10 DEF IInv

LEMMA UnregisterKeeps == ASSUME IInv, NEW c \in Cards, Unregister(c) PROVE IInv'
<1>1. /\ pc = "idle" /\ c \in present /\ present' = present \ {c}
      /\ event' = [event EXCEPT ![c] = Never]
      /\ deadline' = [deadline EXCEPT ![c] = Never]
      /\ next_event' = Earliest(event')
      /\ UNCHANGED <<pc, due, woken, machine>>
  BY DEF Unregister
<1>2. event' \in [Cards -> Cycles] /\ deadline' \in [Cards -> Nat]
  BY <1>1, CyclesAssumption DEF IInv, TypeOK, Cycles
<1>3. next_event' \in Cycles
  BY <1>1, <1>2, EarliestIsCycle
<1>4. TypeOK'
  BY <1>1, <1>2, <1>3 DEF IInv, TypeOK, machine
<1>5. \A d \in Cards : IF d = c THEN event'[d] = Never /\ deadline'[d] = Never
                       ELSE event'[d] = event[d] /\ deadline'[d] = deadline[d]
  BY <1>1 DEF IInv, TypeOK
<1>6. NextEventIsEarliest' /\ DeadlineFollowsEvent'
  BY <1>1, <1>5 DEF IInv, NextEventIsEarliest, DeadlineFollowsEvent
<1>7. OnlyPresentCardsAreArmed'
  BY <1>1, <1>5 DEF IInv, OnlyPresentCardsAreArmed, NobodyIsDueAtRest
<1>8. NoInstructionStartsOverdue' /\ WakesWithinOneInstruction'
  BY <1>1, <1>5 DEF IInv, NoInstructionStartsOverdue, WakesWithinOneInstruction,
                    Clock, machine
<1>9. SlicesKeepOneCount' /\ SliceBound'
  BY <1>1 DEF IInv, SlicesKeepOneCount, SliceBound, machine
<1>10. FrameOverrunsByLessThanOneInstruction' /\ RoomOnTheClock' /\ NobodyIsDueAtRest'
  BY <1>1 DEF IInv, FrameOverrunsByLessThanOneInstruction, RoomOnTheClock,
              NobodyIsDueAtRest, machine
<1> QED BY <1>4, <1>6, <1>7, <1>8, <1>9, <1>10 DEF IInv

\* After a change of clock outside the frame everything armed is owed afresh.
LEMMA OwedAfresh ==
  ASSUME NEW ev \in [Cards -> Cycles], NEW now \in Nat
  PROVE  /\ Owed(ev, now) \in [Cards -> Nat]
         /\ \A c \in Cards : IF ev[c] = Never THEN Owed(ev, now)[c] = Never
                              ELSE ev[c] <= Owed(ev, now)[c] /\ now < Owed(ev, now)[c]
BY OwedLater DEF Owed

LEMMA LoadSnapshotKeeps == ASSUME IInv, LoadSnapshot PROVE IInv'
<1>1. /\ pc = "idle" /\ cumulative' \in Times
      /\ event' \in [Cards -> Requests(cumulative) \cup Requests(cumulative')]
      /\ \A c \in Cards \ present : event'[c] = Never
      /\ deadline' = Owed(event', cumulative')
      /\ next_event' = Earliest(event')
      /\ woken' = {}
      /\ UNCHANGED <<pc, present, due, executed, ran, limit, in_slice, accesses,
                     frame_start>>
  BY DEF LoadSnapshot
<1>2. PICK now \in Times : cumulative' = now
  BY <1>1
<1>3. now \in Nat /\ cumulative \in Nat
  BY TimesAreNaturals DEF IInv, TypeOK
<1>4. event' \in [Cards -> Cycles]
  BY <1>1, <1>2, <1>3, RequestsAreCycles
<1>5. /\ deadline' \in [Cards -> Nat]
      /\ \A c \in Cards : IF event'[c] = Never THEN deadline'[c] = Never
                           ELSE event'[c] <= deadline'[c] /\ now < deadline'[c]
  BY <1>1, <1>2, <1>3, <1>4, OwedAfresh
<1>6. next_event' \in Cycles
  BY <1>1, <1>4, EarliestIsCycle
<1>7. TypeOK'
  BY <1>1, <1>4, <1>5, <1>6 DEF IInv, TypeOK
<1>8. NextEventIsEarliest' /\ OnlyPresentCardsAreArmed' /\ DeadlineFollowsEvent'
  BY <1>1, <1>5 DEF IInv, NextEventIsEarliest, OnlyPresentCardsAreArmed,
     DeadlineFollowsEvent
<1>9. NoInstructionStartsOverdue'
  BY <1>1 DEF NoInstructionStartsOverdue
<1>10. WakesWithinOneInstruction'
  <2> SUFFICES ASSUME NEW c \in Cards, event'[c] # Never
               PROVE  \E cost \in Costs : now < deadline'[c] + cost
    BY <1>1, <1>2 DEF WakesWithinOneInstruction, Clock
  <2>1. PICK cost \in Costs : cost \in Nat
    BY CyclesAssumption
  <2>2. now < deadline'[c] /\ deadline'[c] \in Nat
    BY <1>5
  <2>3. now < deadline'[c] + cost
    BY <1>3, <2>1, <2>2
  <2> QED BY <2>3
<1>11. SlicesKeepOneCount' /\ SliceBound'
  BY <1>1 DEF IInv, SlicesKeepOneCount, SliceBound
<1>12. FrameOverrunsByLessThanOneInstruction' /\ RoomOnTheClock' /\ NobodyIsDueAtRest'
  BY <1>1 DEF IInv, FrameOverrunsByLessThanOneInstruction, RoomOnTheClock,
              NobodyIsDueAtRest
<1> QED BY <1>7, <1>8, <1>9, <1>10, <1>11, <1>12 DEF IInv

LEMMA RetireStepKeeps == ASSUME IInv, NEW cost \in Costs, RetireStep(cost) PROVE IInv'
<1> DEFINE now == cumulative + (ran + cost - executed)
<1>1. /\ pc = "step" /\ pc' = "idle" /\ ran' = ran + cost /\ accesses' = 0
      /\ cumulative' = now /\ deadline' = Owed(event, now) /\ woken' = {}
      /\ UNCHANGED <<present, due, executed, limit, in_slice, frame_start, event,
                     next_event>>
  BY DEF RetireStep
<1>2. /\ cumulative \in Nat /\ executed \in Nat /\ ran \in Nat /\ executed <= ran
      /\ cost \in Nat
  BY <1>1, TimesAreNaturals, CyclesAssumption DEF IInv, TypeOK, SlicesKeepOneCount
<1>3. now \in Nat /\ now = Clock + cost
  BY <1>1, <1>2 DEF Clock
<1>4. now \in Times
  <2>1. Clock + cost <= LastCycle
    BY <1>1 DEF IInv, RoomOnTheClock, NobodyIsDueAtRest
  <2>2. now <= LastCycle
    BY <1>3, <2>1
  <2> HIDE DEF now
  <2> QED BY <1>3, <2>2, CyclesAssumption DEF Times
<1> HIDE DEF now
<1>5. event \in [Cards -> Cycles]
  BY DEF IInv, TypeOK
<1>6. /\ deadline' \in [Cards -> Nat]
      /\ \A c \in Cards : IF event[c] = Never THEN deadline'[c] = Never
                           ELSE event[c] <= deadline'[c] /\ now < deadline'[c]
  BY <1>1, <1>3, <1>5, OwedAfresh
<1>7. TypeOK'
  BY <1>1, <1>2, <1>4, <1>6, CyclesAssumption DEF IInv, TypeOK
<1>8. NextEventIsEarliest' /\ OnlyPresentCardsAreArmed' /\ DeadlineFollowsEvent'
  BY <1>1, <1>6 DEF IInv, NextEventIsEarliest, OnlyPresentCardsAreArmed,
     DeadlineFollowsEvent
<1>9. NoInstructionStartsOverdue'
  BY <1>1 DEF NoInstructionStartsOverdue
<1>10. WakesWithinOneInstruction'
  <2> SUFFICES ASSUME NEW c \in Cards, event[c] # Never
               PROVE  now < deadline'[c] + cost
    BY <1>1 DEF WakesWithinOneInstruction, Clock
  <2>1. now < deadline'[c] /\ deadline'[c] \in Nat
    BY <1>6
  <2> QED BY <1>2, <1>3, <2>1
<1>11. SlicesKeepOneCount' /\ SliceBound'
  BY <1>1 DEF IInv, SlicesKeepOneCount, SliceBound
<1>12. FrameOverrunsByLessThanOneInstruction' /\ RoomOnTheClock' /\ NobodyIsDueAtRest'
  BY <1>1 DEF IInv, FrameOverrunsByLessThanOneInstruction, RoomOnTheClock,
              NobodyIsDueAtRest
<1> QED BY <1>7, <1>8, <1>9, <1>10, <1>11, <1>12 DEF IInv

LEMMA StutterKeeps == ASSUME IInv, UNCHANGED vars PROVE IInv'
<1>1. UNCHANGED <<pc, present, due, woken, cumulative, executed, ran, limit, in_slice,
                  accesses, frame_start, event, next_event, deadline>>
  BY DEF vars, machine, alarms
<1>2. TypeOK' /\ NextEventIsEarliest' /\ OnlyPresentCardsAreArmed'
  BY <1>1 DEF IInv, TypeOK, NextEventIsEarliest, OnlyPresentCardsAreArmed
<1>3. DeadlineFollowsEvent' /\ NoInstructionStartsOverdue' /\ WakesWithinOneInstruction'
  BY <1>1 DEF IInv, DeadlineFollowsEvent, NoInstructionStartsOverdue,
              WakesWithinOneInstruction, Clock
<1>4. SlicesKeepOneCount' /\ SliceBound' /\ NobodyIsDueAtRest'
  BY <1>1 DEF IInv, SlicesKeepOneCount, SliceBound, NobodyIsDueAtRest
<1>5. FrameOverrunsByLessThanOneInstruction' /\ RoomOnTheClock' /\ NobodyIsDueAtRest'
  BY <1>1 DEF IInv, FrameOverrunsByLessThanOneInstruction, RoomOnTheClock, NobodyIsDueAtRest, Clock
<1> QED BY <1>2, <1>3, <1>4, <1>5 DEF IInv

LEMMA NextKeeps == ASSUME IInv, [Next]_vars PROVE IInv'
<1>1. CASE NothingDue \/ EndThink
  BY <1>1, ControlSteps
<1>2. CASE CollectDue
  BY <1>2, CollectKeeps
<1>3. CASE ServiceDone
  BY <1>3, ServiceDoneKeeps
<1>4. CASE StartSlice
  BY <1>4, StartSliceKeeps
<1>5. CASE EndSlice
  BY <1>5, EndSliceKeeps
<1>6. ASSUME NEW c \in Cards, WakeCard(c) \/ Access(c) \/ Think(c)
      PROVE  IInv'
  BY <1>6, CallsBetweenInstructions, AccessKeeps
<1>7. ASSUME NEW cost \in Costs, Retire(cost) \/ RetireStep(cost)
      PROVE  IInv'
  BY <1>7, RetireKeeps, RetireStepKeeps
<1>8. CASE BeginFrame
  BY <1>8, BeginFrameKeeps
<1>9. CASE HostThink
  BY <1>9, ControlSteps
<1>10. CASE HardReset
  BY <1>10, CallsBetweenInstructions
<1>11. CASE LoadSnapshot
  BY <1>11, LoadSnapshotKeeps
<1>12. CASE BeginStep
  BY <1>12, BeginStepKeeps
<1>13. ASSUME NEW c \in Cards, Register(c) \/ Unregister(c)
       PROVE  IInv'
  BY <1>13, ControlSteps, UnregisterKeeps
<1>14. CASE UNCHANGED vars
  BY <1>14, StutterKeeps
<1> QED
  BY <1>1, <1>2, <1>3, <1>4, <1>5, <1>6, <1>7, <1>8, <1>9, <1>10, <1>11, <1>12,
     <1>13, <1>14 DEF Next, EmulationStep, HostStep

LEMMA Invariant == Spec => []IInv
<1>1. Init => IInv
  BY InitInv
<1>2. IInv /\ [Next]_vars => IInv'
  BY NextKeeps
<1> QED BY <1>1, <1>2, PTL DEF Spec

\* Every variable of the frame loop, the CPU's counts and the event table keeps
\* its type; in particular the clock never reaches no_event.
THEOREM TypeCorrect == Spec => []TypeOK
<1>1. IInv => TypeOK
  BY DEF IInv
<1> QED BY <1>1, Invariant, PTL

\* For any number of cards, any frame length and any instruction costs, the
\* slices never start an instruction with a wake overdue (cpu_limit_cycles,
\* peripheral_service_events).
THEOREM NeverOverdue == Spec => []NoInstructionStartsOverdue
<1>1. IInv => NoInstructionStartsOverdue
  BY DEF IInv
<1> QED BY <1>1, Invariant, PTL

\* ... and hence every wake comes within one instruction (Peripheral.h 125).
THEOREM OnTime == Spec => []WakesWithinOneInstruction
<1>1. IInv => WakesWithinOneInstruction
  BY DEF IInv
<1> QED BY <1>1, Invariant, PTL

\* The cache the frame loop compares is the earliest event of the table
\* whenever it is read (recompute_next_event_cycle).
THEOREM CacheCorrect == Spec => []NextEventIsEarliest
<1>1. IInv => NextEventIsEarliest
  BY DEF IInv
<1> QED BY <1>1, Invariant, PTL

\* The slices of a frame keep one count with the clock, whatever the handlers
\* do in between (cpu_calc_cycles, cpu_execute_slice), and the frame overruns
\* by less than an instruction.
THEOREM OneCount == Spec => [](SlicesKeepOneCount /\ FrameOverrunsByLessThanOneInstruction)
<1>1. IInv => SlicesKeepOneCount /\ FrameOverrunsByLessThanOneInstruction
  BY DEF IInv
<1> QED BY <1>1, Invariant, PTL

\* All of it at once: for any cards, frame length and costs, the frame and its slices
\* keep the time of every card (peripheral_service_events, cpu_execute_slice).
THEOREM KeepsTime == Spec => []EventsAreOnTime
<1>1. IInv => EventsAreOnTime
  BY DEF IInv, EventsAreOnTime
<1> QED BY <1>1, Invariant, PTL

-----------------------------------------------------------------------------
(* The implementation of DeviceAlarms.  A wake marks its card until an     *)
(* instruction retires, and every pass over the events is followed by one. *)

WokenUntilRetired == pc \notin {"wake", "slice", "execute"} => woken = {}

LEMMA WokenInv == Spec => []WokenUntilRetired
<1>1. Init => WokenUntilRetired
  BY DEF Init, WokenUntilRetired
<1>2. WokenUntilRetired /\ [Next]_vars => WokenUntilRetired'
  <2> SUFFICES ASSUME WokenUntilRetired, [Next]_vars
               PROVE  WokenUntilRetired'
    OBVIOUS
  <2>1. CASE NothingDue \/ CollectDue \/ ServiceDone \/ StartSlice \/ EndSlice \/ EndThink
    BY <2>1 DEF WokenUntilRetired, NothingDue, CollectDue, ServiceDone, StartSlice,
                EndSlice, EndThink
  <2>2. ASSUME NEW c \in Cards, WakeCard(c) \/ Access(c) \/ Think(c)
        PROVE  WokenUntilRetired'
    BY <2>2 DEF WokenUntilRetired, WakeCard, Access, Think
  <2>3. ASSUME NEW cost \in Costs, Retire(cost) \/ RetireStep(cost)
        PROVE  WokenUntilRetired'
    BY <2>3 DEF WokenUntilRetired, Retire, RetireStep
  <2>4. CASE BeginFrame \/ HostThink \/ HardReset \/ LoadSnapshot \/ BeginStep
    BY <2>4 DEF WokenUntilRetired, BeginFrame, HostThink, HardReset, LoadSnapshot,
                BeginStep
  <2>5. ASSUME NEW c \in Cards, Register(c) \/ Unregister(c)
        PROVE  WokenUntilRetired'
    BY <2>5 DEF WokenUntilRetired, Register, Unregister
  <2>6. CASE UNCHANGED vars
    BY <2>6 DEF WokenUntilRetired, vars
  <2> QED BY <2>1, <2>2, <2>3, <2>4, <2>5, <2>6 DEF Next, EmulationStep, HostStep
<1> QED BY <1>1, <1>2, PTL DEF Spec

RunningNow == pc \notin {"idle", "step"}

LEMMA ClockIsNat == ASSUME IInv PROVE Clock \in Nat
<1>1. cumulative \in Nat /\ executed \in Nat /\ ran \in Nat
  BY TimesAreNaturals DEF IInv, TypeOK
<1>2. pc \in {"execute", "sliced", "step"} => executed <= ran
  BY DEF IInv, SlicesKeepOneCount
<1> QED BY <1>1, <1>2 DEF Clock

LEMMA CyclesAreNaturals == Cycles \subseteq Nat
BY TimesAreNaturals, CyclesAssumption DEF Cycles

LEMMA SameOwed ==
  /\ \A at, now : Alarms!OwedAt(at, now) = OwedAt(at, now)
  /\ \A ev, now : Alarms!Owed(ev, now) = Owed(ev, now)
BY DEF Alarms!OwedAt, Alarms!Owed, OwedAt, Owed

\* A call into a card is an Ask, a Reset or nothing, at the true clock.
LEMMA CallRefines ==
  ASSUME IInv, IInv', NEW c \in Cards, CardRuns(c) \/ ManagerReset,
         cumulative' = Clock, Clock' = Clock, RunningNow' = RunningNow, woken' = woken
  PROVE  [Alarms!Next]_Alarms!vars
<1>1. event' \in [Cards -> Nat]
  BY CyclesAreNaturals DEF IInv, TypeOK
<1>2. CASE UNCHANGED <<alarms, limit>>
  BY <1>2 DEF Alarms!vars, alarms, RunningNow
<1>3. CASE Schedule(c)
  <2>1. event' = [event EXCEPT ![c] = event'[c]]
    BY <1>3 DEF Schedule, IInv, TypeOK
  <2>2. deadline' = [deadline EXCEPT ![c] = OwedAt(event'[c], Clock)]
    BY <1>3 DEF Schedule
  <2>3. Alarms!Ask(c)
    BY <1>1, <2>1, <2>2, SameOwed DEF Alarms!Ask, RunningNow
  <2> QED BY <2>3 DEF Alarms!Next
<1>4. CASE ManagerReset
  <2>1. deadline' = Owed(event', Clock)
    BY <1>4 DEF ManagerReset
  <2>2. Alarms!Reset
    BY <1>1, <2>1, SameOwed DEF Alarms!Reset, RunningNow
  <2> QED BY <2>2 DEF Alarms!Next
<1> QED BY <1>2, <1>3, <1>4 DEF CardRuns

LEMMA CollectRefines ==
  ASSUME IInv, IInv', WokenUntilRetired, CollectDue
  PROVE  Alarms!Ring
<1> DEFINE now_due == {c \in Cards : event[c] <= cumulative}
<1>1. /\ pc = "service" /\ pc' = "wake" /\ next_event <= cumulative
      /\ woken' = woken \cup now_due
      /\ event' = [c \in Cards |-> IF c \in now_due THEN Never ELSE event[c]]
      /\ deadline' = [c \in Cards |-> IF c \in now_due THEN Never ELSE deadline[c]]
      /\ cumulative' = cumulative
  BY DEF CollectDue, machine
<1>2. Clock = cumulative /\ Clock' = cumulative
  BY <1>1 DEF Clock
<1>3. now_due # {}
  <2>1. event \in [Cards -> Nat] /\ cumulative \in Nat /\ cumulative < Never
    <3>1. event \in [Cards -> Nat]
      BY CyclesAreNaturals DEF IInv, TypeOK
    <3>2. cumulative \in Nat /\ cumulative < Never
      BY CyclesAssumption DEF IInv, TypeOK, Times
    <3> QED BY <3>1, <3>2
  <2>2. next_event = Earliest(event)
    BY <1>1 DEF IInv, NextEventIsEarliest
  <2>3. /\ Earliest(event) \in {event[c] : c \in Cards} \cup {Never}
        /\ Earliest(event) \in Nat
    BY <2>1, EarliestIsLeast
  <2>4. Earliest(event) # Never
    BY <1>1, <2>1, <2>2, <2>3, CyclesAssumption
  <2>5. PICK c \in Cards : event[c] = Earliest(event)
    BY <2>3, <2>4
  <2> QED BY <1>1, <2>2, <2>5
<1>4. woken = {}
  BY <1>1 DEF WokenUntilRetired
<1> QED BY <1>1, <1>2, <1>3, <1>4 DEF Alarms!Ring

LEMMA RetireRefines ==
  ASSUME IInv, IInv', NEW cost \in Costs, Retire(cost)
  PROVE  Alarms!Instruction
<1>1. /\ pc = "execute" /\ pc' \in {"execute", "sliced"} /\ ran' = ran + cost
      /\ woken' = {} /\ UNCHANGED <<cumulative, executed, event, deadline>>
  BY DEF Retire, alarms
<1>2. Clock' = Clock + cost
  <2>1. /\ cumulative \in Nat /\ executed \in Nat /\ ran \in Nat /\ cost \in Nat
    BY TimesAreNaturals, CyclesAssumption DEF IInv, TypeOK
  <2> QED BY <1>1, <2>1 DEF Clock
<1>3. \A c \in Cards : event[c] # Never => Clock < deadline[c]
  BY <1>1 DEF IInv, NoInstructionStartsOverdue
<1> QED BY <1>1, <1>2, <1>3 DEF Alarms!Instruction

\* Outside a frame the clock moves, and everything armed is owed afresh.
LEMMA ClockMovesRefines ==
  ASSUME IInv, IInv', LoadSnapshot \/ \E cost \in Costs : RetireStep(cost)
  PROVE  Alarms!ClockMoves
<1>1. event' \in [Cards -> Nat]
  BY CyclesAreNaturals DEF IInv, TypeOK
<1>2. pc \in {"idle", "step"} /\ pc' = "idle" /\ woken' = {}
  BY DEF LoadSnapshot, RetireStep
<1>3. Clock' = cumulative'
  BY <1>2 DEF Clock
<1>4. Clock' \in Nat
  BY <1>3, TimesAreNaturals DEF IInv, TypeOK
<1>5. deadline' = Owed(event', cumulative')
  BY DEF LoadSnapshot, RetireStep
<1> QED BY <1>1, <1>2, <1>3, <1>4, <1>5, SameOwed DEF Alarms!ClockMoves

\* Steps that move the thread, or a frame's beginning and end, and no alarm.
LEMMA ControlRefines ==
  ASSUME IInv, IInv',
         \/ NothingDue \/ ServiceDone \/ StartSlice \/ EndSlice \/ EndThink
         \/ BeginFrame \/ HostThink \/ BeginStep \/ \E c \in Cards : Register(c)
  PROVE  [Alarms!Next]_Alarms!vars
<1>1. UNCHANGED <<event, deadline, woken>>
  BY DEF NothingDue, ServiceDone, StartSlice, EndSlice, EndThink, BeginFrame,
         HostThink, BeginStep, Register, alarms
<1>2. Clock' = Clock
  <2>1. /\ cumulative \in Nat /\ executed \in Nat /\ ran \in Nat
    BY TimesAreNaturals DEF IInv, TypeOK
  <2>2. CASE StartSlice
    BY <2>1, <2>2 DEF Clock, StartSlice
  <2>3. CASE EndSlice
    BY <2>1, <2>3 DEF Clock, EndSlice
  <2>4. CASE BeginStep
    BY <2>1, <2>4 DEF Clock, BeginStep
  <2>5. CASE NothingDue \/ ServiceDone \/ EndThink \/ BeginFrame \/ HostThink
             \/ \E c \in Cards : Register(c)
    BY <2>1, <2>5 DEF Clock, NothingDue, ServiceDone, EndThink, BeginFrame, HostThink,
                      Register, machine
  <2> QED BY <2>2, <2>3, <2>4, <2>5
<1>3. CASE RunningNow' = RunningNow
  BY <1>1, <1>2, <1>3 DEF Alarms!vars, RunningNow
<1>4. CASE ~RunningNow /\ RunningNow'
  BY <1>1, <1>2, <1>4 DEF Alarms!Next, Alarms!StartFrame, RunningNow
<1>5. CASE RunningNow /\ ~RunningNow'
  BY <1>1, <1>2, <1>5 DEF Alarms!Next, Alarms!EndFrame, RunningNow
<1> QED BY <1>3, <1>4, <1>5 DEF RunningNow

LEMMA UnregisterRefines ==
  ASSUME IInv, IInv', NEW c \in Cards, Unregister(c)
  PROVE  Alarms!Ask(c)
<1>1. event' \in [Cards -> Nat]
  BY CyclesAreNaturals DEF IInv, TypeOK
<1>2. /\ pc' = pc /\ woken' = woken /\ Clock' = Clock
      /\ event' = [event EXCEPT ![c] = Never]
      /\ deadline' = [deadline EXCEPT ![c] = Never]
  BY DEF Unregister, machine, Clock
<1>3. event'[c] = Never /\ OwedAt(event'[c], Clock) = Never
  BY <1>2 DEF IInv, TypeOK, OwedAt
<1> QED BY <1>1, <1>2, <1>3, SameOwed DEF Alarms!Ask

LEMMA StepRefines ==
  ASSUME IInv, IInv', WokenUntilRetired, [Next]_vars
  PROVE  [Alarms!Next]_Alarms!vars
<1>1. CASE \/ NothingDue \/ ServiceDone \/ StartSlice \/ EndSlice \/ EndThink
           \/ BeginFrame \/ HostThink \/ BeginStep \/ \E c \in Cards : Register(c)
  BY <1>1, ControlRefines
<1>2. CASE CollectDue
  BY <1>2, CollectRefines DEF Alarms!Next
<1>3. ASSUME NEW c \in Cards, WakeCard(c) \/ Access(c) \/ Think(c)
      PROVE  [Alarms!Next]_Alarms!vars
  <2>1. CardRuns(c) /\ pc' = pc /\ woken' = woken
    BY <1>3 DEF WakeCard, Access, Think
  <2>2. cumulative' = Clock /\ Clock' = Clock
    <3>1. /\ cumulative \in Nat /\ executed \in Nat /\ ran \in Nat
      BY TimesAreNaturals DEF IInv, TypeOK
    <3>2. CASE WakeCard(c) \/ Think(c)
      BY <3>2 DEF WakeCard, Think, Clock
    <3>3. CASE Access(c)
      BY <3>1, <3>3 DEF Access, Clock
    <3> QED BY <1>3, <3>2, <3>3
  <2> QED BY <2>1, <2>2, CallRefines DEF RunningNow
<1>4. ASSUME NEW cost \in Costs, Retire(cost)
      PROVE  [Alarms!Next]_Alarms!vars
  BY <1>4, RetireRefines DEF Alarms!Next
<1>5. CASE LoadSnapshot \/ \E cost \in Costs : RetireStep(cost)
  BY <1>5, ClockMovesRefines DEF Alarms!Next
<1>6. CASE HardReset
  <2>1. ManagerReset /\ pc' = pc /\ woken' = woken /\ cumulative' = cumulative
    BY <1>6 DEF HardReset
  <2>2. event' \in [Cards -> Nat]
    BY CyclesAreNaturals DEF IInv, TypeOK
  <2>3. Clock' = cumulative /\ Clock = cumulative
    BY <1>6 DEF HardReset, Clock
  <2>4. deadline' = Owed(event', Clock)
    BY <2>1, <2>3 DEF ManagerReset
  <2>5. Alarms!Reset
    BY <2>1, <2>2, <2>3, <2>4, SameOwed DEF Alarms!Reset
  <2> QED BY <2>5 DEF Alarms!Next
<1>7. ASSUME NEW c \in Cards, Unregister(c)
      PROVE  [Alarms!Next]_Alarms!vars
  BY <1>7, UnregisterRefines DEF Alarms!Next
<1>8. CASE UNCHANGED vars
  BY <1>8 DEF vars, machine, alarms, Alarms!vars, Clock
<1> QED BY <1>1, <1>2, <1>3, <1>4, <1>5, <1>6, <1>7, <1>8
           DEF Next, EmulationStep, HostStep

\* For every number of cards, frame length and set of instruction costs, the
\* frame loop keeps the promise of ScheduleEvent: alarms ring once, not early,
\* not lost, and before the next instruction once they are due.
THEOREM ImplementsAlarms == Spec => KeepsAlarmPromise
<1>1. Init => Alarms!Init
  BY DEF Init, Alarms!Init, NoEvents, Clock
<1>2. IInv /\ IInv' /\ WokenUntilRetired /\ [Next]_vars => [Alarms!Next]_Alarms!vars
  BY StepRefines
<1> QED BY <1>1, <1>2, Invariant, WokenInv, PTL
        DEF Spec, KeepsAlarmPromise, Alarms!Spec

----------------------------------------------------------------------------
(* The expansion ROM window *)

\* Until the image is refilled under the latches, the cards selected on the bus are
\* those whose bit is set; a refill forgets the claims and leaves the bits.
LatchesFollowTheBus ==
  /\ fresh => claims = ioSelect
  /\ claimed => ioInternal

RomInv == RomTypeOK /\ WindowIsWhatItSays /\ LatchesFollowTheBus

LEMMA SlotsHaveALowest ==
  ASSUME NEW S \in SUBSET (1 .. 7), S # {}
  PROVE  Min(S) \in S
<1>1. \E x \in S : \A y \in S : x =< y
  <2>1. ASSUME NEW n \in 1 .. 7, n \in S, \A m \in 1 .. 7 : m < n => m \notin S
        PROVE  \A y \in S : n =< y
    BY <2>1
  <2>2. \E n \in 1 .. 7 : n \in S /\ \A m \in 1 .. 7 : m < n => m \notin S
    <3>1. 1 \in S \/ 2 \in S \/ 3 \in S \/ 4 \in S \/ 5 \in S \/ 6 \in S \/ 7 \in S
      <4>. PICK x : x \in S
        OBVIOUS
      <4>1. x \in 1 .. 7
        OBVIOUS
      <4>. QED BY <4>1
    <3>. QED BY <3>1, SMTT(30)
  <2>. QED BY <2>1, <2>2
<1>. QED BY <1>1 DEF Min

LEMMA WinnerIsSelected ==
  ASSUME RomTypeOK, ioSelect # {}
  PROVE  Winner \in ioSelect /\ Winner \in RomCards /\ Winner \in 1 .. 7
<1>1. RomCards \subseteq 1 .. 7 /\ ioSelect \subseteq RomCards
  BY ExpansionRomAssumption DEF RomTypeOK
<1>2. Min(ioSelect) \in ioSelect
  BY <1>1, SlotsHaveALowest
<1>. QED BY <1>1, <1>2 DEF Winner

LEMMA EnableKeeps ==
  ASSUME RomInv, Enable, UNCHANGED <<switches, latches, claims, claimed, fresh>>
  PROVE  /\ romType' \in RomTypes /\ romSlot' \in RomCards \cup {0}
         /\ window' \in RomCards \cup {Zeros, InternalRom}
         /\ WindowIsWhatItSays'
         /\ fresh => (IF romType' = "null" THEN FloatingBus ELSE window') \in Answers
<1>0. RomCards \subseteq 1 .. 7 /\ 0 \notin RomCards
  BY ExpansionRomAssumption
<1>1. CASE SlotPages /\ ioSelect # {}
  <2>1. Winner \in ioSelect /\ Winner \in RomCards /\ Winner \in 1 .. 7
    BY <1>1, WinnerIsSelected DEF RomInv
  <2>2. CASE romSlot # Winner
    <3>1. romType' = "peripheral" /\ romSlot' = Winner /\ window' = Winner
      BY <1>1, <2>2 DEF Enable, Show
    <3>2. fresh => claims = ioSelect
      BY DEF RomInv, LatchesFollowTheBus
    <3>. QED BY <1>0, <1>1, <2>1, <3>1, <3>2
             DEF RomTypes, WindowIsWhatItSays, Answers, Winner, SlotPages, switches, latches
  <2>3. CASE romSlot = Winner
    <3>1. UNCHANGED contents
      BY <1>1, <2>3 DEF Enable
    <3>. QED BY <1>0, <1>1, <2>1, <2>3, <3>1
             DEF RomInv, RomTypeOK, WindowIsWhatItSays, LatchesFollowTheBus, Answers, Winner,
                 contents, switches, latches, SlotPages
  <2>. QED BY <2>2, <2>3
<1>2. CASE ~ (SlotPages /\ ioSelect # {}) /\ ioInternal /\ romType # "internal"
  <2>1. romType' = "internal" /\ romSlot' = 0 /\ window' = InternalRom
    BY <1>2 DEF Enable, Show
  <2>. QED BY <1>0, <1>2, <2>1
           DEF RomInv, RomTypeOK, RomTypes, WindowIsWhatItSays, LatchesFollowTheBus, Answers,
               switches, latches, SlotPages
<1>3. CASE ~ (SlotPages /\ ioSelect # {}) /\ ~ (ioInternal /\ romType # "internal")
  <2>1. UNCHANGED contents
    BY <1>3 DEF Enable
  <2>. QED BY <1>0, <1>3, <2>1
           DEF RomInv, RomTypeOK, RomTypes, WindowIsWhatItSays, LatchesFollowTheBus, Answers,
               contents, switches, latches, SlotPages
<1>. QED BY <1>1, <1>2, <1>3

LEMMA ReadSlotPageKeeps ==
  ASSUME RomInv, NEW s \in Slots, ReadSlotPage(s)
  PROVE  RomInv'
<1>1. s \in RomCards => Dispatched(s)
  BY ExpansionRomAssumption DEF Dispatched
<1>2. ~ Dispatched(s) => UNCHANGED latches
  BY DEF ReadSlotPage
<1>3. Dispatched(s) => Select(s)
  BY DEF ReadSlotPage
<1>4. Claim(s) /\ UNCHANGED <<switches, contents, fresh, answer>>
  BY DEF ReadSlotPage
<1>5. RomTypeOK'
  BY <1>2, <1>3, <1>4
     DEF RomInv, RomTypeOK, Select, Selects, Claim, switches, latches, contents
<1>6. ioSelect \subseteq ioSelect'
  BY <1>2, <1>3 DEF Select, latches
<1>7. WindowIsWhatItSays'
  BY <1>4, <1>6 DEF RomInv, WindowIsWhatItSays, switches, contents
<1>8. LatchesFollowTheBus'
  <2>1. fresh' => claims' = ioSelect'
    BY <1>1, <1>2, <1>3, <1>4
       DEF RomInv, LatchesFollowTheBus, Select, Selects, Claim, SlotPages, latches
  <2>2. claimed' => ioInternal'
    BY <1>2, <1>3, <1>4
       DEF RomInv, LatchesFollowTheBus, Select, Selects, Claim, Dispatched, latches
  <2>. QED BY <2>1, <2>2 DEF LatchesFollowTheBus
<1>. QED BY <1>5, <1>7, <1>8 DEF RomInv

LEMMA RomStepKeeps ==
  ASSUME RomInv, [RomNext]_romVars
  PROVE  RomInv'
<1>. USE DEF RomInv
<1>1. CASE \E s \in Slots : ReadSlotPage(s)
  BY <1>1, ReadSlotPageKeeps
<1>2. CASE ReadWindow
  <2>1. Enable /\ UNCHANGED <<switches, latches, claims, claimed, fresh>>
    BY <1>2 DEF ReadWindow, history
  <2>2. /\ romType' \in RomTypes /\ romSlot' \in RomCards \cup {0}
        /\ window' \in RomCards \cup {Zeros, InternalRom}
        /\ WindowIsWhatItSays'
    BY <2>1, EnableKeeps
  <2>. QED BY <1>2, <2>1, <2>2 DEF ReadWindow, RomTypeOK, LatchesFollowTheBus, switches, latches
<1>3. CASE ReadCFFF
  BY <1>3, ExpansionRomAssumption
     DEF ReadCFFF, Release, Show, RomTypeOK, RomTypes, WindowIsWhatItSays, LatchesFollowTheBus, switches
<1>4. CASE \E on \in BOOLEAN : SetSlotC3(on)
  BY <1>4 DEF SetSlotC3, RomTypeOK, WindowIsWhatItSays, LatchesFollowTheBus,
              latches, contents, history
<1>5. CASE \E on \in BOOLEAN : SetSlotCx(on)
  <2>. PICK on \in BOOLEAN : SetSlotCx(on)
    BY <1>5
  <2>1. on # slotCx => Toggle(on)
    BY DEF SetSlotCx
  <2>2. on = slotCx => UNCHANGED contents
    BY DEF SetSlotCx
  <2>3. slotCx' = on /\ UNCHANGED <<slotC3, latches, history, answer>>
    BY DEF SetSlotCx
  <2>4. CASE on = slotCx
    BY <2>2, <2>3, <2>4 DEF RomTypeOK, WindowIsWhatItSays, LatchesFollowTheBus,
                            latches, contents, history
  <2>5. CASE on # slotCx
    BY <2>1, <2>3, <2>5 DEF RomTypeOK, RomTypes, Toggle, Show, WindowIsWhatItSays,
                            LatchesFollowTheBus, latches, history
  <2>. QED BY <2>4, <2>5
<1>6. CASE SoftReset
  BY <1>6 DEF SoftReset, RomTypeOK, WindowIsWhatItSays, LatchesFollowTheBus,
              latches, contents, history
<1>7. CASE \E cx, c3 \in BOOLEAN : Refill(cx, c3)
  BY <1>7 DEF Refill, RomTypeOK, WindowIsWhatItSays, LatchesFollowTheBus, latches
<1>8. CASE PowerCycle
  BY <1>7, <1>8 DEF PowerCycle
<1>9. CASE RomLoadState
  BY <1>7, <1>9 DEF RomLoadState
<1>10. CASE UNCHANGED romVars
  BY <1>10 DEF romVars, RomTypeOK, WindowIsWhatItSays, LatchesFollowTheBus,
               switches, latches, contents, history
<1>. QED BY <1>1, <1>2, <1>3, <1>4, <1>5, <1>6, <1>8, <1>9, <1>10 DEF RomNext

\* What is recorded of the window agrees with what it holds, whoever asks for it and
\* whatever moves under it.
THEOREM WindowsAreWhatTheySay == RomSpec => []RomInv
<1>1. RomInit => RomInv
  BY DEF RomInit, RomInv, RomTypeOK, RomTypes, WindowIsWhatItSays, LatchesFollowTheBus,
         Zeros, InternalRom, FloatingBus
<1>. QED BY <1>1, RomStepKeeps, PTL DEF RomSpec

\* A read of the window answers from the lowest card whose page was read since
\* $CFFF, or from the internal ROM when that has been switched in.
THEOREM SelectedRomsAnswer == RomSpec => SelectedRomAnswers
<1>1. RomInv /\ [RomNext]_romVars => [ReadWindow /\ fresh => answer' \in Answers]_romVars
  <2>. SUFFICES ASSUME RomInv, ReadWindow, fresh
                PROVE  answer' \in Answers
    OBVIOUS
  <2>1. Enable /\ UNCHANGED <<switches, latches, claims, claimed, fresh>>
    BY DEF ReadWindow, history
  <2>2. (IF romType' = "null" THEN FloatingBus ELSE window') \in Answers
    BY <2>1, EnableKeeps
  <2>. QED BY <2>2 DEF ReadWindow
<1>. QED BY <1>1, WindowsAreWhatTheySay, PTL DEF RomSpec, SelectedRomAnswers

----------------------------------------------------------------------------
(* The 6821 *)

\* The bits a control register may show, and a side of the chip.
PiaBits == Flags \cup UNION PiaControls

PiaSide == [out : SUBSET Lines, ddr : SUBSET Lines, cr : SUBSET PiaBits, in : SUBSET Lines,
            c1 : BOOLEAN, c2 : BOOLEAN, oc2 : {0, 1}, irq : BOOLEAN]

\* A side whose interrupt output is what its control register asks for
Told(s) == s \in PiaSide /\ s.irq = PiaInterrupt(s)

PiaInv ==
  /\ DOMAIN pia = Sides /\ pia = [side \in Sides |-> pia[side]]
  /\ \A side \in Sides : Told(pia[side])
  /\ served \in [Sides -> BOOLEAN]

\* What an access of the data and an edge of the first line leave on the second
Left(s, old, new) ==
  Handshakes(s) /\ "c2_lvl" \notin s.cr /\ new # old => ((s.oc2 = 0) <=> new)

LEMMA UpdateTells ==
  ASSUME NEW s \in PiaSide
  PROVE  Told(UpdateInterrupts(s)) /\ UpdateInterrupts(s).cr = s.cr /\ UpdateInterrupts(s).oc2 = s.oc2
<1>1. PiaInterrupt(s) \in BOOLEAN
  BY DEF PiaInterrupt
<1>2. /\ UpdateInterrupts(s) \in PiaSide
      /\ UpdateInterrupts(s).cr = s.cr /\ UpdateInterrupts(s).oc2 = s.oc2
      /\ UpdateInterrupts(s).irq = PiaInterrupt(s)
  BY <1>1 DEF UpdateInterrupts, PiaSide
<1>3. PiaInterrupt(UpdateInterrupts(s)) = PiaInterrupt(s)
  BY <1>2 DEF PiaInterrupt
<1>. QED BY <1>2, <1>3 DEF Told

LEMMA AccessTells ==
  ASSUME NEW s, Told(s)
  PROVE  /\ Told(AfterDataAccess(s)) /\ AfterDataAccess(s).cr = s.cr
         /\ Handshakes(s) /\ "c2_lvl" \notin s.cr => AfterDataAccess(s).oc2 = 0
<1>1. AfterDataAccess(s) \in PiaSide /\ AfterDataAccess(s).cr = s.cr /\ AfterDataAccess(s).irq = s.irq
  BY DEF AfterDataAccess, PiaSide, Told
<1>2. Handshakes(s) /\ "c2_lvl" \notin s.cr => AfterDataAccess(s).oc2 = 0
  BY DEF AfterDataAccess, PiaSide, Told
<1>3. PiaInterrupt(AfterDataAccess(s)) = PiaInterrupt(s)
  BY <1>1 DEF PiaInterrupt
<1>. QED BY <1>1, <1>2, <1>3 DEF Told

LEMMA ReadTells ==
  ASSUME NEW side \in Sides, NEW s, Told(s)
  PROVE  /\ Told(PiaRead(side, s))
         /\ side = "a" /\ PiaSelected(s) /\ Handshakes(PiaRead(side, s)) /\ "c2_lvl" \notin PiaRead(side, s).cr =>
              PiaRead(side, s).oc2 = 0
<1>. DEFINE c == [s EXCEPT !.cr = @ \ Flags]
            u == UpdateInterrupts(c)
<1>1. c \in PiaSide
  BY DEF Told, PiaSide
<1>. HIDE DEF c
<1>2. Told(u)
  BY <1>1, UpdateTells
<1>3. ~ PiaSelected(s) => PiaRead(side, s) = s
  BY DEF PiaRead
<1>4. PiaSelected(s) /\ side = "a" => PiaRead(side, s) = AfterDataAccess(u)
  BY DEF PiaRead, c
<1>5. PiaSelected(s) /\ side # "a" => PiaRead(side, s) = u
  BY DEF PiaRead, c
<1>. HIDE DEF u
<1>6. /\ Told(AfterDataAccess(u)) /\ AfterDataAccess(u).cr = u.cr
      /\ Handshakes(u) /\ "c2_lvl" \notin u.cr => AfterDataAccess(u).oc2 = 0
  BY <1>2, AccessTells
<1>7. Handshakes(AfterDataAccess(u)) <=> Handshakes(u)
  BY <1>6 DEF Handshakes
<1>. QED BY <1>2, <1>3, <1>4, <1>5, <1>6, <1>7

LEMMA WriteTells ==
  ASSUME NEW side \in Sides, NEW s, Told(s), NEW val \in SUBSET Lines
  PROVE  /\ Told(PiaWrite(side, s, val))
         /\ side = "b" /\ PiaSelected(s) /\ Handshakes(PiaWrite(side, s, val)) /\ "c2_lvl" \notin PiaWrite(side, s, val).cr =>
              PiaWrite(side, s, val).oc2 = 0
<1>. DEFINE d == [s EXCEPT !.ddr = val]
            o == [s EXCEPT !.out = val]
<1>1. /\ d \in PiaSide /\ o \in PiaSide
      /\ d.cr = s.cr /\ o.cr = s.cr /\ d.irq = s.irq /\ o.irq = s.irq
  BY DEF Told, PiaSide
<1>. HIDE DEF d, o
<1>2. Told(d) /\ Told(o)
  BY <1>1 DEF Told, PiaInterrupt
<1>3. ~ PiaSelected(s) => PiaWrite(side, s, val) = d
  BY DEF PiaWrite, d
<1>4. PiaSelected(s) /\ side = "b" => PiaWrite(side, s, val) = AfterDataAccess(o)
  BY DEF PiaWrite, o
<1>5. PiaSelected(s) /\ side # "b" => PiaWrite(side, s, val) = o
  BY DEF PiaWrite, o
<1>6. /\ Told(AfterDataAccess(o)) /\ AfterDataAccess(o).cr = o.cr
      /\ Handshakes(o) /\ "c2_lvl" \notin o.cr => AfterDataAccess(o).oc2 = 0
  BY <1>2, AccessTells
<1>7. Handshakes(AfterDataAccess(o)) <=> Handshakes(o)
  BY <1>6 DEF Handshakes
<1>. QED BY <1>2, <1>3, <1>4, <1>5, <1>6, <1>7

LEMMA ControlTells ==
  ASSUME NEW s, Told(s), NEW val \in PiaControls
  PROVE  Told(PiaControl(s, val))
<1>. DEFINE set == [s EXCEPT !.cr = (@ \cap Flags) \cup (val \ Flags)]
            driven == [set EXCEPT !.oc2 = IF "c2_lvl" \in set.cr THEN 1 ELSE 0]
<1>0. val \subseteq PiaBits
  BY DEF PiaBits
<1>1. set \in PiaSide
  <2>1. s \in PiaSide
    BY DEF Told
  <2>2. (s.cr \cap Flags) \cup (val \ Flags) \in SUBSET PiaBits
    BY <1>0 DEF PiaBits
  <2>. QED BY <2>1, <2>2 DEF PiaSide
<1>. HIDE DEF set
<1>2. driven \in PiaSide
  BY <1>1 DEF PiaSide
<1>3. PiaControl(s, val) = UpdateInterrupts(set) \/ PiaControl(s, val) = UpdateInterrupts(driven)
  BY DEF PiaControl, set
<1>. HIDE DEF driven
<1>. QED BY <1>1, <1>2, <1>3, UpdateTells

LEMMA FirstLineTells ==
  ASSUME NEW s, Told(s), NEW level \in BOOLEAN
  PROVE  /\ Told(PiaSetC1(s, level))
         /\ /\ ActiveEdge("c1_sel" \in s.cr, s.c1, level)
            /\ Handshakes(PiaSetC1(s, level)) /\ "c2_lvl" \notin PiaSetC1(s, level).cr
            => PiaSetC1(s, level).oc2 = 1
<1>. DEFINE moved == [s EXCEPT !.c1 = level]
            edge == [s EXCEPT !.c1 = level, !.cr = @ \cup {"irq1"},
                              !.oc2 = IF Handshakes(s) /\ "c2_lvl" \notin s.cr THEN 1 ELSE @]
            active == ActiveEdge("c1_sel" \in s.cr, s.c1, level)
<1>0. s \in PiaSide
  BY DEF Told
<1>1. moved \in PiaSide /\ moved.cr = s.cr /\ moved.irq = s.irq
  BY <1>0 DEF PiaSide
<1>2. edge \in PiaSide /\ edge.cr = s.cr \cup {"irq1"}
  BY <1>0 DEF PiaSide, PiaBits, Flags
<1>3. Handshakes(s) /\ "c2_lvl" \notin s.cr => edge.oc2 = 1
  BY <1>0 DEF PiaSide
<1>4. ~ active => PiaSetC1(s, level) = moved
  BY DEF PiaSetC1
<1>5. active => PiaSetC1(s, level) = UpdateInterrupts(edge)
  BY DEF PiaSetC1
<1>. HIDE DEF moved, edge, active
<1>6. Told(moved)
  BY <1>1 DEF Told, PiaInterrupt
<1>7. /\ Told(UpdateInterrupts(edge)) /\ UpdateInterrupts(edge).cr = edge.cr
      /\ UpdateInterrupts(edge).oc2 = edge.oc2
  BY <1>2, UpdateTells
<1>8. Handshakes(UpdateInterrupts(edge)) /\ "c2_lvl" \notin UpdateInterrupts(edge).cr =>
        UpdateInterrupts(edge).oc2 = 1
  BY <1>2, <1>3, <1>7 DEF Handshakes
<1>9. Told(PiaSetC1(s, level))
  BY <1>4, <1>5, <1>6, <1>7
<1>. QED BY <1>5, <1>8, <1>9 DEF active

LEMMA SecondLineTells ==
  ASSUME NEW s, Told(s), NEW level \in BOOLEAN
  PROVE  Told(PiaSetC2(s, level))
<1>. DEFINE moved == [s EXCEPT !.c2 = level]
            edge == [s EXCEPT !.c2 = level, !.cr = @ \cup {"irq2"}]
<1>0. s \in PiaSide
  BY DEF Told
<1>1. moved \in PiaSide /\ moved.cr = s.cr /\ moved.irq = s.irq
  BY <1>0 DEF PiaSide
<1>2. edge \in PiaSide
  BY <1>0 DEF PiaSide, PiaBits, Flags
<1>3. PiaSetC2(s, level) = moved \/ PiaSetC2(s, level) = UpdateInterrupts(edge)
  BY DEF PiaSetC2
<1>. HIDE DEF moved, edge
<1>4. Told(moved)
  BY <1>1 DEF Told, PiaInterrupt
<1>. QED BY <1>2, <1>3, <1>4, UpdateTells

\* One side changes, and says what it may of its second line.
LEMMA StepKeeps ==
  ASSUME PiaInv, NEW side \in Sides, NEW next, NEW new \in BOOLEAN, Told(next), PiaStep(side, next, new),
         Handshakes(next) /\ "c2_lvl" \notin next.cr /\ new # served[side] => ((next.oc2 = 0) <=> new)
  PROVE  PiaInv' /\ \A z \in Sides : Left(pia'[z], served[z], served'[z])
<1>1. pia' = [pia EXCEPT ![side] = next] /\ served' = [served EXCEPT ![side] = new]
  BY DEF PiaStep
<1>2. /\ DOMAIN pia' = Sides /\ pia' = [z \in Sides |-> pia'[z]]
      /\ pia'[side] = next /\ \A z \in Sides : z # side => pia'[z] = pia[z]
  BY <1>1 DEF PiaInv
<1>3. /\ served' \in [Sides -> BOOLEAN]
      /\ served'[side] = new /\ \A z \in Sides : z # side => served'[z] = served[z]
  BY <1>1 DEF PiaInv
<1>4. \A z \in Sides : Told(pia'[z])
  BY <1>2 DEF PiaInv
<1>5. \A z \in Sides : Left(pia'[z], served[z], served'[z])
  BY <1>2, <1>3 DEF Left
<1>. QED BY <1>2, <1>3, <1>4, <1>5 DEF PiaInv

LEMMA PiaStepTells ==
  ASSUME PiaInv, PiaNext
  PROVE  PiaInv' /\ \A z \in Sides : Left(pia'[z], served[z], served'[z])
<1>. DEFINE Done == PiaInv' /\ \A z \in Sides : Left(pia'[z], served[z], served'[z])
<1>. PICK side \in Sides :
       \/ ReadData(side) \/ WriteData(side) \/ WriteControl(side)
       \/ DriveC1(side) \/ DriveC2(side)
  BY DEF PiaNext
<1>. DEFINE s == pia[side]
<1>0. Told(s) /\ served[side] \in BOOLEAN /\ s.c1 \in BOOLEAN /\ s.c2 \in BOOLEAN
  BY DEF PiaInv, Told, PiaSide
<1>. HIDE DEF Done
<1>1. CASE ReadData(side)
  <2>. DEFINE new == served[side] \/ (side = "a" /\ PiaSelected(s))
  <2>1. PiaStep(side, PiaRead(side, s), new)
    BY <1>1 DEF ReadData
  <2>2. /\ Told(PiaRead(side, s))
        /\ side = "a" /\ PiaSelected(s) /\ Handshakes(PiaRead(side, s)) /\ "c2_lvl" \notin PiaRead(side, s).cr =>
             PiaRead(side, s).oc2 = 0
    BY <1>0, ReadTells
  <2>3. /\ new \in BOOLEAN
        /\ new # served[side] => new /\ side = "a" /\ PiaSelected(s)
    BY <1>0
  <2>. HIDE DEF new, s
  <2>4. Handshakes(PiaRead(side, s)) /\ "c2_lvl" \notin PiaRead(side, s).cr /\ new # served[side] =>
          ((PiaRead(side, s).oc2 = 0) <=> new)
    BY <2>2, <2>3
  <2>. QED BY <2>1, <2>2, <2>3, <2>4, StepKeeps DEF Done
<1>2. CASE WriteData(side)
  <2>. DEFINE new == served[side] \/ (side = "b" /\ PiaSelected(s))
              w == PiaWrite(side, s, {})
  <2>1. PiaStep(side, w, new)
    BY <1>2 DEF WriteData
  <2>2. /\ Told(w)
        /\ side = "b" /\ PiaSelected(s) /\ Handshakes(w) /\ "c2_lvl" \notin w.cr => w.oc2 = 0
    <3>1. {} \in SUBSET Lines
      OBVIOUS
    <3>. QED BY <1>0, <3>1, WriteTells
  <2>3. /\ new \in BOOLEAN
        /\ new # served[side] => new /\ side = "b" /\ PiaSelected(s)
    BY <1>0
  <2>. HIDE DEF new, s, w
  <2>4. Handshakes(w) /\ "c2_lvl" \notin w.cr /\ new # served[side] => ((w.oc2 = 0) <=> new)
    BY <2>2, <2>3
  <2>. QED BY <2>1, <2>2, <2>3, <2>4, StepKeeps DEF Done
<1>3. CASE WriteControl(side)
  <2>. PICK val \in PiaControls : PiaStep(side, PiaControl(s, val), served[side])
    BY <1>3 DEF WriteControl
  <2>1. Told(PiaControl(s, val))
    BY <1>0, ControlTells
  <2>. HIDE DEF s
  <2>. QED BY <1>0, <2>1, StepKeeps DEF Done
<1>4. CASE DriveC1(side)
  <2>. DEFINE level == ~ s.c1
              edge == ActiveEdge("c1_sel" \in s.cr, s.c1, level)
              new == served[side] /\ ~ edge
              n == PiaSetC1(s, level)
  <2>1. PiaStep(side, n, new)
    BY <1>4 DEF DriveC1
  <2>2. level \in BOOLEAN
    BY <1>0
  <2>3. Told(n) /\ (edge /\ Handshakes(n) /\ "c2_lvl" \notin n.cr => n.oc2 = 1)
    <3>. HIDE DEF level
    <3>. QED BY <1>0, <2>2, FirstLineTells
  <2>4. edge \in BOOLEAN
    BY DEF ActiveEdge
  <2>. HIDE DEF edge, level, n
  <2>5. new \in BOOLEAN /\ (new # served[side] => ~ new /\ edge)
    BY <1>0, <2>4
  <2>. HIDE DEF new, s
  <2>6. Handshakes(n) /\ "c2_lvl" \notin n.cr /\ new # served[side] => ((n.oc2 = 0) <=> new)
    BY <2>3, <2>5
  <2>. QED BY <2>1, <2>3, <2>5, <2>6, StepKeeps DEF Done
<1>5. CASE DriveC2(side)
  <2>. DEFINE level == ~ s.c2
  <2>1. PiaStep(side, PiaSetC2(s, level), served[side])
    BY <1>5 DEF DriveC2
  <2>2. level \in BOOLEAN
    BY <1>0
  <2>. HIDE DEF level, s
  <2>3. Told(PiaSetC2(s, level))
    BY <1>0, <2>2, SecondLineTells
  <2>. QED BY <1>0, <2>1, <2>3, StepKeeps DEF Done
<1>. QED BY <1>1, <1>2, <1>3, <1>4, <1>5 DEF Done

LEMMA PiaInvIsInductive == PiaSpec => []PiaInv
<1>1. PiaInit => PiaInv
  <2>. SUFFICES ASSUME PiaInit PROVE PiaInv
    OBVIOUS
  <2>1. PiaReset \in PiaSide /\ ~ PiaInterrupt(PiaReset)
    BY DEF PiaReset, PiaSide, PiaBits, PiaInterrupt
  <2>2. Told(PiaReset)
    BY <2>1 DEF Told, PiaReset, PiaInterrupt
  <2>. QED BY <2>2 DEF PiaInit, PiaInv
<1>2. PiaInv /\ [PiaNext]_piaVars => PiaInv'
  <2>1. ASSUME PiaInv, UNCHANGED piaVars PROVE PiaInv'
    BY <2>1 DEF piaVars, PiaInv
  <2>. QED BY <2>1, PiaStepTells
<1>. QED BY <1>1, <1>2, PTL DEF PiaSpec

\* Each interrupt output says whether an enabled flag is up, and in handshake mode an
\* access of the data takes the second line low and the device's answer raises it.
THEOREM HandshakesFollowTheData == PiaSpec => HandshakeFollowsTheData
<1>. DEFINE A == \A side \in Sides :
                   LET s == pia'[side]
                   IN /\ s.irq = PiaInterrupt(s)
                      /\ Handshakes(s) /\ "c2_lvl" \notin s.cr /\ served'[side] # served[side] =>
                           (s.oc2 = 0) = served'[side]
<1>1. PiaInv /\ [PiaNext]_piaVars => [A]_piaVars
  <2>. SUFFICES ASSUME PiaInv, PiaNext PROVE A
    OBVIOUS
  <2>1. PiaInv' /\ \A z \in Sides : Left(pia'[z], served[z], served'[z])
    BY PiaStepTells
  <2>2. ASSUME NEW z \in Sides
        PROVE  /\ pia'[z].irq = PiaInterrupt(pia'[z])
               /\ Handshakes(pia'[z]) /\ "c2_lvl" \notin pia'[z].cr /\ served'[z] # served[z] =>
                    (pia'[z].oc2 = 0) = served'[z]
    <3>1. Told(pia'[z]) /\ served'[z] \in BOOLEAN
      BY <2>1 DEF PiaInv
    <3>2. pia'[z].irq = PiaInterrupt(pia'[z])
      BY <3>1 DEF Told
    <3>. QED BY <2>1, <3>1, <3>2 DEF Left
  <2>. QED BY <2>2
<1>. QED BY <1>1, PiaInvIsInductive, PTL DEF PiaSpec, HandshakeFollowsTheData


----------------------------------------------------------------------------
(* The game port *)

Pots == [position : Positions \cup {0}, trigger : Nat, pulse : Positions \cup {0}]

\* No pulse was started later than now, in the machine or in its save state, and one
\* that runs is as long as its pot says.
PotsInv ==
  /\ portClock \in Nat
  /\ pots \in [Paddles -> Pots]
  /\ portKept \in {<<>>} \cup [clock : Nat, triggers : [Paddles -> Nat]]
  /\ portKept # <<>> => \A p \in Paddles : portKept.triggers[p] <= portKept.clock
  /\ \A p \in Paddles : pots[p].trigger <= portClock
  /\ \A p \in Paddles : Expired(pots[p]) \/ pots[p].pulse = pots[p].position

Wires == [keyboard : [SwitchLines -> BOOLEAN], connector : [SwitchLines -> BOOLEAN],
          plug : SUBSET SwitchLines, mod : BOOLEAN, apple2e : BOOLEAN]

Queues == [levels : Seq(BOOLEAN), tail : BOOLEAN, sent : BOOLEAN]

Tallies == [accepted : Nat, sent : Nat, dropped : Nat]

\* Every edge is the opposite of the one before.
ByTurns(levels) == \A i \in 1 .. Len(levels) - 1 : levels[i] # levels[i + 1]

\* The edges still to be shown lead by turns from what the line shows to the last one
\* accepted.
Alternates(level, queue) ==
  /\ ByTurns(queue.levels)
  /\ queue.levels = <<>> => queue.tail = level
  /\ queue.levels # <<>> => queue.levels[1] # level /\ queue.tail = queue.levels[Len(queue.levels)]
  /\ Len(queue.levels) <= QueueCapacity

Counted(tally, queue) == tally.accepted = tally.sent + tally.dropped + Len(queue.levels)

\* What is true of a line, and of one that keys drive
LineInv(line) ==
  /\ shown[line] > 0 => switchQueues[line].sent
  /\ Keyed(line) =>
       /\ line \notin crowded
       /\ Alternates(gameSwitches.connector[line], switchQueues[line])
       /\ Counted(clicks[line], switchQueues[line])

LinesInv ==
  /\ joyType \in [0 .. 1 -> StickDevices]
  /\ gameSwitches \in Wires /\ gameSwitches.plug = PulldownMask(joyType)
  /\ switchQueues \in [SwitchLines -> Queues]
  /\ clicks \in [SwitchLines -> Tallies]
  /\ shown \in [SwitchLines -> Nat]
  /\ joyType = [stick \in 0 .. 1 |-> "none"] =>
       \A line \in SwitchLines : ~ gameSwitches.connector[line] /\ switchQueues[line].levels = <<>>
  /\ \A line \in SwitchLines : LineInv(line)

PortInv == PotsInv /\ LinesInv

LEMMA CapacityIsTwo == QueueCapacity \in Nat /\ QueueCapacity >= 2
<1>1. QueueCapacity \in Nat /\ QueueCapacity > 0 /\ QueueCapacity % 2 = 0
  BY GamePortAssumption
<1>2. QueueCapacity # 1
  BY <1>1
<1>. QED BY <1>1, <1>2

LEMMA AppendAlternates ==
  ASSUME NEW S, NEW l \in Seq(S), NEW level \in S, NEW last \in S, NEW down \in S,
         ByTurns(l),
         l = <<>> => last = level,
         l # <<>> => l[1] # level /\ last = l[Len(l)],
         down # last
  PROVE  LET n == Append(l, down)
         IN /\ n \in Seq(S) /\ n # <<>> /\ Len(n) = Len(l) + 1
            /\ ByTurns(n)
            /\ n[1] # level /\ n[Len(n)] = down
<1>. DEFINE n == Append(l, down)
<1>1. /\ n \in Seq(S) /\ n # <<>> /\ Len(n) = Len(l) + 1
      /\ \A i \in 1 .. Len(l) : n[i] = l[i]
      /\ n[Len(l) + 1] = down /\ Len(l) \in Nat
  <2>1. Len(l) \in Nat
    BY LenProperties
  <2>2. n \in Seq(S) /\ Len(n) = Len(l) + 1
    BY AppendProperties
  <2>3. n[Len(l) + 1] = down /\ \A i \in 1 .. Len(l) : n[i] = l[i]
    BY <2>1, AppendProperties
  <2>. HIDE DEF n
  <2>. QED BY <2>1, <2>2, <2>3, EmptySeq
<1>2. l # <<>> <=> Len(l) > 0
  BY EmptySeq, LenProperties
<1>. HIDE DEF n
<1>3. ASSUME NEW i \in 1 .. Len(n) - 1 PROVE n[i] # n[i + 1]
  <2>1. CASE i = Len(l)
    <3>1. n[i] = l[i] /\ n[i + 1] = down /\ last = l[Len(l)]
      BY <1>1, <1>2, <1>3, <2>1
    <3>. QED BY <2>1, <3>1
  <2>2. CASE i < Len(l)
    <3>1. i \in 1 .. Len(l) - 1 /\ n[i] = l[i] /\ n[i + 1] = l[i + 1]
      BY <1>1, <1>3, <2>2
    <3>. QED BY <3>1 DEF ByTurns
  <2>. QED BY <1>1, <1>3, <2>1, <2>2
<1>4. n[1] # level
  <2>1. CASE l = <<>>
    BY <1>1, <1>2, <2>1
  <2>2. CASE l # <<>>
    BY <1>1, <1>2, <2>2
  <2>. QED BY <2>1, <2>2
<1>. QED BY <1>1, <1>3, <1>4 DEF n, ByTurns

\* A full queue gives up its two oldest edges, so that the rest still begins with the
\* opposite of what the line shows.
LEMMA ShortenedAlternates ==
  ASSUME NEW S, NEW l \in Seq(S), Len(l) >= 2,
         ByTurns(l)
  PROVE  LET s == SubSeq(l, 3, Len(l))
         IN /\ s \in Seq(S) /\ Len(s) = Len(l) - 2
            /\ ByTurns(s)
            /\ s = <<>> => l[Len(l)] = l[2]
            /\ s # <<>> => s[1] # l[2] /\ s[Len(s)] = l[Len(l)]
<1>. DEFINE s == SubSeq(l, 3, Len(l))
<1>0. Len(l) \in Nat /\ \A i \in 1 .. Len(l) : l[i] \in S
  BY LenProperties, ElementOfSeq
<1>1. Len(s) = Len(l) - 2 /\ \A i \in 1 .. Len(s) : s[i] = l[i + 2]
  <2>1. 3 \in Int /\ Len(l) \in Int /\ \A i \in 3 .. Len(l) : l[i] \in S
    BY <1>0
  <2>2. /\ Len(s) = IF 3 <= Len(l) THEN Len(l) - 3 + 1 ELSE 0
        /\ \A i \in 1 .. Len(l) - 3 + 1 : s[i] = l[3 + i - 1]
    BY <2>1, SubSeqProperties
  <2>. HIDE DEF s
  <2>3. Len(s) = Len(l) - 2
    <3>. PICK k \in Nat : k = Len(l)
      BY <1>0
    <3>1. /\ Len(s) = IF 3 <= k THEN k - 3 + 1 ELSE 0
          /\ k >= 2
      BY <2>2
    <3>2. Len(s) = k - 2
      BY <3>1
    <3>. QED BY <3>2
  <2>4. \A i \in 1 .. Len(s) : 3 + i - 1 = i + 2
    BY <1>0, <2>3
  <2>. QED BY <1>0, <2>2, <2>3, <2>4
<1>2. s \in Seq(S)
  <2>1. 3 \in Int /\ Len(l) \in Int /\ \A i \in 3 .. Len(l) : l[i] \in S
    BY <1>0
  <2>. QED BY <2>1, SubSeqProperties
<1>. HIDE DEF s
<1>3. s = <<>> <=> Len(s) = 0
  BY <1>2, EmptySeq
<1>5. ASSUME NEW i \in 1 .. Len(s) - 1 PROVE s[i] # s[i + 1]
  <2>1. i + 2 \in 1 .. Len(l) - 1 /\ i \in 1 .. Len(s) /\ i + 1 \in 1 .. Len(s)
    BY <1>0, <1>1, <1>5
  <2>2. s[i] = l[i + 2] /\ s[i + 1] = l[(i + 1) + 2] /\ (i + 1) + 2 = (i + 2) + 1
    BY <1>1, <2>1
  <2>. QED BY <2>1, <2>2 DEF ByTurns
<1>6. CASE s = <<>>
  <2>1. Len(l) = 2
    BY <1>0, <1>1, <1>3, <1>6
  <2>. QED BY <1>1, <1>2, <1>5, <1>6, <2>1 DEF s, ByTurns
<1>7. CASE s # <<>>
  <2>1. Len(s) \in Nat /\ Len(s) >= 1 /\ Len(s) + 2 = Len(l)
    BY <1>0, <1>1, <1>3, <1>7
  <2>2. s[1] = l[3] /\ s[Len(s)] = l[Len(l)]
    BY <1>1, <2>1
  <2>3. l[2] # l[3]
    <3>1. 2 \in 1 .. Len(l) - 1 /\ 2 + 1 = 3
      BY <2>1
    <3>. QED BY <3>1 DEF ByTurns
  <2>4. s[1] # l[2]
    BY <2>2, <2>3
  <2>. QED BY <1>1, <1>2, <1>5, <1>7, <2>2, <2>4 DEF s, ByTurns
<1>. QED BY <1>6, <1>7

\* An accepted edge: shown at once by a line with nothing to show, else put behind.
LEMMA QueuedAlternates ==
  ASSUME NEW queue \in Queues, NEW level \in BOOLEAN, NEW down \in BOOLEAN,
         Alternates(level, queue), down # queue.tail
  PROVE  /\ SendsNow(queue, down) =>
              Alternates(down, Queued(queue, down)) /\ Len(Queued(queue, down).levels) = Len(queue.levels)
         /\ ~ SendsNow(queue, down) =>
              /\ Alternates(level, Queued(queue, down))
              /\ Len(queue.levels) = QueueCapacity => Len(Queued(queue, down).levels) = Len(queue.levels) - 1
              /\ Len(queue.levels) # QueueCapacity => Len(Queued(queue, down).levels) = Len(queue.levels) + 1
<1>. DEFINE l == queue.levels
            now == SendsNow(queue, down)
<1>0. /\ l \in Seq(BOOLEAN) /\ queue.tail \in BOOLEAN /\ queue.sent \in BOOLEAN
      /\ ByTurns(l)
      /\ l = <<>> => queue.tail = level
      /\ l # <<>> => l[1] # level /\ queue.tail = l[Len(l)]
      /\ Len(l) <= QueueCapacity /\ Len(l) \in Nat
  BY LenProperties DEF Queues, Alternates
<1>1. CASE now
  <2>1. l = <<>>
    BY <1>1 DEF SendsNow
  <2>2. Queued(queue, down) = [queue EXCEPT !.tail = down, !.sent = TRUE]
    BY <1>1 DEF SendsNow, Queued
  <2>3. Queued(queue, down).levels = l /\ Queued(queue, down).tail = down
    BY <2>2 DEF Queues
  <2>. QED BY <1>0, <1>1, <2>1, <2>3 DEF Alternates
<1>2. CASE ~ now
  <2>. DEFINE n == Push(l, down)
  <2>1. Queued(queue, down) = [queue EXCEPT !.tail = down, !.levels = Push(@, down)]
    BY <1>2 DEF SendsNow, Queued
  <2>2. Queued(queue, down).levels = n /\ Queued(queue, down).tail = down
    BY <2>1 DEF Queues
  <2>3. CASE Len(l) # QueueCapacity
    <3>1. n = Append(l, down)
      BY <2>3 DEF Push
    <3>2. /\ n # <<>> /\ Len(n) = Len(l) + 1 /\ ByTurns(n) /\ n[1] # level /\ n[Len(n)] = down
      BY <1>0, <3>1, AppendAlternates
    <3>. HIDE DEF n
    <3>3. Len(n) <= QueueCapacity
      BY <1>0, <2>3, <3>2, CapacityIsTwo
    <3>. QED BY <1>2, <2>2, <2>3, <3>2, <3>3 DEF Alternates
  <2>4. CASE Len(l) = QueueCapacity
    <3>. DEFINE s == SubSeq(l, 3, Len(l))
    <3>1. n = Append(s, down)
      BY <2>4 DEF Push
    <3>2. Len(l) >= 2 /\ l # <<>>
      BY <1>0, <2>4, CapacityIsTwo, EmptySeq
    <3>3. /\ s \in Seq(BOOLEAN) /\ Len(s) = Len(l) - 2 /\ ByTurns(s)
          /\ s = <<>> => l[Len(l)] = l[2]
          /\ s # <<>> => s[1] # l[2] /\ s[Len(s)] = l[Len(l)]
      BY <1>0, <3>2, ShortenedAlternates
    <3>4. l[2] = level
      <4>1. l[1] # l[2]
        <5>1. 1 \in 1 .. Len(l) - 1 /\ 1 + 1 = 2
          BY <1>0, <3>2
        <5>. QED BY <1>0, <5>1 DEF ByTurns
      <4>2. 1 \in 1 .. Len(l) /\ 2 \in 1 .. Len(l)
        BY <1>0, <3>2
      <4>3. l[1] \in BOOLEAN /\ l[2] \in BOOLEAN
        BY <1>0, <4>2, ElementOfSeq
      <4>. QED BY <1>0, <3>2, <4>1, <4>3
    <3>. HIDE DEF s
    <3>5. /\ n # <<>> /\ Len(n) = Len(s) + 1 /\ ByTurns(n) /\ n[1] # level /\ n[Len(n)] = down
      <4>1. queue.tail = l[Len(l)]
        BY <1>0, <3>2
      <4>2. s = <<>> => queue.tail = level
        BY <3>3, <3>4, <4>1
      <4>3. s # <<>> => s[1] # level /\ queue.tail = s[Len(s)]
        BY <3>3, <3>4, <4>1
      <4>. QED BY <1>0, <3>1, <3>3, <4>2, <4>3, AppendAlternates
    <3>. HIDE DEF n, l
    <3>6. Len(n) = Len(l) - 1
      BY <1>0, <3>3, <3>5
    <3>7. Len(n) <= QueueCapacity
      BY <1>0, <2>4, <3>6
    <3>. QED BY <1>2, <2>2, <2>4, <3>5, <3>6, <3>7 DEF Alternates, l
  <2>. QED BY <2>3, <2>4
<1>. QED BY <1>1, <1>2

LEMMA QueuedIsQueue ==
  ASSUME NEW queue \in Queues, NEW down \in BOOLEAN
  PROVE  Queued(queue, down) \in Queues /\ (queue.sent => Queued(queue, down).sent)
         /\ (SendsNow(queue, down) => Queued(queue, down).sent)
<1>1. Push(queue.levels, down) \in Seq(BOOLEAN)
  <2>1. queue.levels \in Seq(BOOLEAN)
    BY DEF Queues
  <2>2. Len(queue.levels) = QueueCapacity => SubSeq(queue.levels, 3, QueueCapacity) \in Seq(BOOLEAN)
    <3>. SUFFICES ASSUME Len(queue.levels) = QueueCapacity
                  PROVE  SubSeq(queue.levels, 3, QueueCapacity) \in Seq(BOOLEAN)
      OBVIOUS
    <3>1. 3 \in Int /\ QueueCapacity \in Int
      BY CapacityIsTwo
    <3>2. \A i \in 3 .. QueueCapacity : queue.levels[i] \in BOOLEAN
      BY <2>1, CapacityIsTwo, ElementOfSeq
    <3>. QED BY <3>1, <3>2, SubSeqProperties
  <2>. QED BY <2>1, <2>2, AppendProperties DEF Push
<1>2. \/ Queued(queue, down) = queue
      \/ Queued(queue, down) = [queue EXCEPT !.tail = down, !.sent = TRUE]
      \/ Queued(queue, down) = [queue EXCEPT !.tail = down, !.levels = Push(@, down)]
  BY DEF Queued
<1>3. SendsNow(queue, down) => Queued(queue, down) = [queue EXCEPT !.tail = down, !.sent = TRUE]
  BY DEF SendsNow, Queued
<1>. QED BY <1>1, <1>2, <1>3 DEF Queues

\* A slice shows the oldest edge of a line that showed none since the last.
Drains(queue) == Drained(queue).levels # queue.levels

LEMMA DrainedIsQueue ==
  ASSUME NEW queue \in Queues
  PROVE  /\ Drained(queue) \in Queues
         /\ Drains(queue) => /\ ~ queue.sent /\ queue.levels # <<>> /\ Head(queue.levels) \in BOOLEAN
                             /\ Drained(queue).levels = Tail(queue.levels)
                             /\ Len(Drained(queue).levels) = Len(queue.levels) - 1
         /\ Drained(queue).tail = queue.tail
<1>0. queue.levels \in Seq(BOOLEAN)
  BY DEF Queues
<1>1. CASE queue.levels # <<>> /\ ~ queue.sent
  <2>1. Drained(queue) = [queue EXCEPT !.levels = Tail(@), !.sent = FALSE]
    BY <1>1 DEF Drained
  <2>2. /\ Tail(queue.levels) \in Seq(BOOLEAN) /\ Head(queue.levels) \in BOOLEAN
        /\ Len(Tail(queue.levels)) = Len(queue.levels) - 1
    BY <1>0, <1>1, HeadTailProperties
  <2>. QED BY <1>1, <2>1, <2>2 DEF Queues
<1>2. CASE ~ (queue.levels # <<>> /\ ~ queue.sent)
  <2>1. Drained(queue) = [queue EXCEPT !.sent = FALSE]
    BY <1>2 DEF Drained
  <2>2. Drained(queue).levels = queue.levels /\ Drained(queue).tail = queue.tail /\ Drained(queue) \in Queues
    BY <2>1 DEF Queues
  <2>. QED BY <2>2 DEF Drains
<1>. QED BY <1>1, <1>2

LEMMA DrainedAlternates ==
  ASSUME NEW queue \in Queues, NEW level \in BOOLEAN, Alternates(level, queue)
  PROVE  /\ Drains(queue) => Alternates(Head(queue.levels), Drained(queue))
         /\ ~ Drains(queue) => Alternates(level, Drained(queue))
<1>1. CASE Drains(queue)
  <2>. DEFINE l == queue.levels
              t == Tail(queue.levels)
  <2>0. /\ l \in Seq(BOOLEAN) /\ l # <<>> /\ ByTurns(l) /\ queue.tail = l[Len(l)]
        /\ Len(l) \in Nat /\ Len(l) <= QueueCapacity
        /\ Drained(queue).levels = t /\ Drained(queue).tail = queue.tail
    BY <1>1, DrainedIsQueue, LenProperties DEF Queues, Alternates
  <2>1. t \in Seq(BOOLEAN) /\ Len(t) = Len(l) - 1 /\ \A i \in 1 .. Len(t) : t[i] = l[i + 1]
    BY <2>0, HeadTailProperties
  <2>2. Head(l) = l[1] /\ Len(l) > 0 /\ (t # <<>> <=> Len(t) > 0)
    BY <2>0, <2>1, EmptySeq, LenProperties
  <2>. HIDE DEF l, t
  <2>3. ASSUME NEW i \in 1 .. Len(t) - 1 PROVE t[i] # t[i + 1]
    <3>1. i \in 1 .. Len(t) /\ i + 1 \in 1 .. Len(t) /\ i + 1 \in 1 .. Len(l) - 1
      BY <2>0, <2>1
    <3>2. t[i] = l[i + 1] /\ t[i + 1] = l[(i + 1) + 1]
      BY <2>1, <3>1
    <3>. QED BY <2>0, <3>1, <3>2 DEF ByTurns
  <2>4. CASE t = <<>>
    <3>1. Len(l) = 1
      BY <2>0, <2>1, <2>2, <2>4
    <3>. QED BY <1>1, <2>0, <2>1, <2>2, <2>3, <2>4, <3>1, CapacityIsTwo DEF Alternates, ByTurns, l
  <2>5. CASE t # <<>>
    <3>1. Len(t) \in Nat /\ Len(t) > 0 /\ Len(t) + 1 = Len(l) /\ 1 \in 1 .. Len(t) /\ 1 \in 1 .. Len(l) - 1
      BY <2>0, <2>1, <2>2, <2>5
    <3>2. t[1] = l[1 + 1] /\ t[Len(t)] = l[Len(l)] /\ l[1] # l[1 + 1]
      <4>1. Len(t) \in 1 .. Len(t)
        BY <3>1
      <4>. QED BY <2>0, <2>1, <3>1, <4>1 DEF ByTurns
    <3>3. Len(t) <= QueueCapacity
      BY <2>0, <3>1, CapacityIsTwo
    <3>. QED BY <1>1, <2>0, <2>2, <2>3, <2>5, <3>2, <3>3 DEF Alternates, ByTurns, l
  <2>. QED BY <2>4, <2>5
<1>2. CASE ~ Drains(queue)
  BY <1>2, DrainedIsQueue DEF Drains, Alternates
<1>. QED BY <1>1, <1>2

LEMMA PositionsAreNumbers == LeadIn \in Nat /\ \A position \in Positions : position \in Nat
BY GamePortAssumption

LEMMA PulsesAreNumbers ==
  ASSUME NEW pot \in Pots
  PROVE  pot.trigger \in Nat /\ PulseCycles(pot.pulse) \in Nat
<1>1. pot.trigger \in Nat /\ pot.pulse \in Positions \cup {0}
  BY DEF Pots
<1>2. pot.pulse \in Nat
  BY <1>1, PositionsAreNumbers
<1>. QED BY <1>1, <1>2, PositionsAreNumbers DEF PulseCycles

LEMMA SliceKeepsPots ==
  ASSUME PotsInv, NEW cycles \in 1 .. 2, portClock' = portClock + cycles, UNCHANGED <<pots, portKept>>
  PROVE  PotsInv'
<1>1. portClock' \in Nat /\ portClock <= portClock'
  BY DEF PotsInv
<1>2. ASSUME NEW p \in Paddles
      PROVE  /\ pots'[p].trigger <= portClock'
             /\ Expired(pots[p])' \/ pots'[p].pulse = pots'[p].position
  <2>. DEFINE pot == pots[p]
  <2>1. pot \in Pots /\ pot.trigger <= portClock /\ (Expired(pot) \/ pot.pulse = pot.position)
    BY DEF PotsInv
  <2>2. pot.trigger \in Nat /\ PulseCycles(pot.pulse) \in Nat /\ portClock \in Nat
    BY <2>1, PulsesAreNumbers DEF PotsInv
  <2>3. pot.trigger <= portClock'
    BY <1>1, <2>1, <2>2
  <2>4. Expired(pot) => Expired(pot)'
    <3>. SUFFICES ASSUME Expired(pot) PROVE Expired(pots[p])'
      OBVIOUS
    <3>1. pots'[p] = pot /\ PulseCycles(pots[p].pulse)' = PulseCycles(pot.pulse)
      BY DEF PulseCycles
    <3>2. pot.trigger = 0 \/ portClock - pot.trigger >= PulseCycles(pot.pulse)
      BY <2>1, <2>2 DEF Expired
    <3>. HIDE DEF pot
    <3>3. pot.trigger = 0 \/ portClock' - pot.trigger >= PulseCycles(pot.pulse)
      BY <1>1, <2>2, <3>2
    <3>. QED BY <3>1, <3>3 DEF Expired
  <2>. QED BY <2>1, <2>3, <2>4
<1>. QED BY <1>1, <1>2 DEF PotsInv

LEMMA StrobeKeepsPots ==
  ASSUME PotsInv, Strobe
  PROVE  PotsInv'
<1>1. /\ pots' = [p \in Paddles |->
             IF Expired(pots[p])
             THEN [pots[p] EXCEPT !.trigger = portClock, !.pulse = pots[p].position]
             ELSE pots[p]]
      /\ UNCHANGED <<portClock, portKept>>
  BY DEF Strobe
<1>2. ASSUME NEW p \in Paddles
      PROVE  /\ pots'[p] \in Pots /\ pots'[p].trigger <= portClock'
             /\ Expired(pots[p])' \/ pots'[p].pulse = pots'[p].position
  <2>0. pots[p] \in Pots /\ portClock \in Nat /\ pots[p].trigger <= portClock
    BY DEF PotsInv
  <2>1. CASE Expired(pots[p])
    <3>1. pots'[p] = [pots[p] EXCEPT !.trigger = portClock, !.pulse = pots[p].position]
      BY <1>1, <2>1
    <3>2. /\ pots'[p] \in Pots /\ pots'[p].trigger = portClock
          /\ pots'[p].pulse = pots'[p].position
      BY <2>0, <3>1 DEF Pots
    <3>3. portClock <= portClock'
      <4>1. portClock \in Nat
        BY DEF PotsInv
      <4>2. portClock' = portClock
        BY <1>1
      <4>. QED BY <4>1, <4>2
    <3>. QED BY <3>2, <3>3
  <2>2. CASE ~ Expired(pots[p])
    <3>1. pots'[p] = pots[p] /\ pots[p].pulse = pots[p].position
      BY <1>1, <2>2 DEF PotsInv
    <3>2. portClock' = portClock
      BY <1>1
    <3>. QED BY <2>0, <3>1, <3>2
  <2>. QED BY <2>1, <2>2
<1>3. pots' \in [Paddles -> Pots]
  BY <1>1, <1>2
<1>. QED BY <1>1, <1>2, <1>3 DEF PotsInv

\* One pot changes.
LEMMA OnePotKeeps ==
  ASSUME PotsInv, NEW p \in Paddles, NEW pot \in Pots, pots' = [pots EXCEPT ![p] = pot],
         UNCHANGED <<portClock, portKept>>, pot.trigger <= portClock,
         Expired(pots[p])' \/ pot.pulse = pot.position
  PROVE  PotsInv'
<1>1. pots' \in [Paddles -> Pots] /\ pots'[p] = pot
      /\ \A q \in Paddles : q # p => pots'[q] = pots[q]
  BY DEF PotsInv
<1>2. ASSUME NEW q \in Paddles
      PROVE  pots'[q].trigger <= portClock' /\ (Expired(pots[q])' \/ pots'[q].pulse = pots'[q].position)
  <2>1. CASE q = p
    BY <1>1, <2>1
  <2>2. CASE q # p
    <3>1. pots'[q] = pots[q]
      BY <1>1, <2>2
    <3>2. pots[q].trigger <= portClock /\ (Expired(pots[q]) \/ pots[q].pulse = pots[q].position)
      BY DEF PotsInv
    <3>. QED BY <3>1, <3>2 DEF Expired, PulseCycles
  <2>. QED BY <2>1, <2>2
<1>. QED BY <1>1, <1>2 DEF PotsInv

LEMMA SetAxisKeepsPots ==
  ASSUME PotsInv, NEW stick \in 0 .. 1, NEW position \in Positions, SetAxis(stick, position)
  PROVE  PotsInv'
<1>1. pots' = [pots EXCEPT ![stick] = Moved(pots[stick], position)] /\ UNCHANGED <<portClock, portKept>>
  BY DEF SetAxis
<1>2. stick \in Paddles /\ pots[stick] \in Pots /\ pots[stick].trigger <= portClock
  BY DEF PotsInv, Paddles
<1>. DEFINE pot == pots[stick]
            moved == Moved(pot, position)
<1>3. moved \in Pots /\ moved.trigger = pot.trigger
  BY <1>2 DEF Moved, Pots
<1>4. CASE Expired(pot)
  <2>1. moved = [pot EXCEPT !.position = position]
    BY <1>4 DEF Moved
  <2>2. moved.trigger = pot.trigger /\ moved.pulse = pot.pulse
    BY <1>2, <2>1 DEF Pots
  <2>3. pots'[stick] = moved
    BY <1>1, <1>2 DEF PotsInv
  <2>. HIDE DEF moved
  <2>4. Expired(pots[stick])'
    <3>1. PulseCycles(pots[stick].pulse)' = PulseCycles(pot.pulse)
      BY <2>2, <2>3 DEF PulseCycles
    <3>. QED BY <1>1, <1>4, <2>2, <2>3, <3>1 DEF Expired
  <2>. QED BY <1>1, <1>2, <1>3, <2>4, OnePotKeeps DEF moved
<1>5. CASE ~ Expired(pot)
  <2>1. moved.pulse = position /\ moved.position = position
    BY <1>2, <1>5 DEF Moved, Pots
  <2>2. pots'[stick] = moved
    BY <1>1, <1>2 DEF PotsInv
  <2>. HIDE DEF moved, pot
  <2>. QED BY <1>1, <1>2, <1>3, <2>1, OnePotKeeps DEF moved, pot
<1>. QED BY <1>4, <1>5

LEMMA SavePortKeepsPots ==
  ASSUME PotsInv, SavePort
  PROVE  PotsInv'
<1>1. portKept' = [clock |-> portClock, triggers |-> [p \in Paddles |-> pots[p].trigger]]
      /\ UNCHANGED <<pots, portClock>>
  BY DEF SavePort
<1>2. [p \in Paddles |-> pots[p].trigger] \in [Paddles -> Nat]
  BY DEF PotsInv, Pots
<1>3. portKept' \in [clock : Nat, triggers : [Paddles -> Nat]]
  BY <1>1, <1>2 DEF PotsInv
<1>4. \A p \in Paddles : portKept'.triggers[p] <= portKept'.clock
  BY <1>1 DEF PotsInv
<1>. QED BY <1>1, <1>3, <1>4 DEF PotsInv, Expired, PulseCycles

LEMMA LoadPortKeepsPots ==
  ASSUME PotsInv, LoadPort
  PROVE  PotsInv'
<1>1. /\ portClock' = portKept.clock /\ portKept # <<>> /\ UNCHANGED portKept
      /\ pots' = [p \in Paddles |->
            [pots[p] EXCEPT !.trigger = portKept.triggers[p], !.pulse = pots[p].position]]
  BY DEF LoadPort
<1>2. portKept \in [clock : Nat, triggers : [Paddles -> Nat]]
      /\ \A p \in Paddles : portKept.triggers[p] <= portKept.clock
  BY <1>1 DEF PotsInv
<1>3. ASSUME NEW p \in Paddles
      PROVE  /\ pots'[p] \in Pots /\ pots'[p].trigger = portKept.triggers[p]
             /\ pots'[p].pulse = pots'[p].position
  <2>1. pots[p] \in Pots /\ portKept.triggers[p] \in Nat
    BY <1>2 DEF PotsInv
  <2>2. pots'[p] = [pots[p] EXCEPT !.trigger = portKept.triggers[p], !.pulse = pots[p].position]
    BY <1>1
  <2>. QED BY <2>1, <2>2 DEF Pots
<1>4. pots' \in [Paddles -> Pots]
  BY <1>1, <1>3
<1>. QED BY <1>1, <1>2, <1>3, <1>4 DEF PotsInv

LEMMA KeysStay ==
  ASSUME UNCHANGED joyType, NEW line \in SwitchLines
  PROVE  Keyed(line)' <=> Keyed(line)
BY DEF Keyed, ButtonLines

\* A line has one owner: no gamepad drives a line of the keys.
LEMMA OwnersAreApart ==
  ASSUME joyType \in [0 .. 1 -> StickDevices], NEW line \in SwitchLines, Keyed(line),
         NEW stick \in 0 .. 1, joyType[stick] = "joystick", NEW button \in 0 .. 1
  PROVE  line \notin ButtonLines(stick, button)
<1>. PICK s \in 0 .. 1, b \in 0 .. 1 : joyType[s] \in {"keyboard", "mouse"} /\ line \in ButtonLines(s, b)
  BY DEF Keyed
<1>1. s # stick
  OBVIOUS
<1>2. CASE s = 0 /\ stick = 1
  BY <1>2 DEF ButtonLines
<1>3. CASE s = 1 /\ stick = 0
  BY <1>3 DEF ButtonLines
<1>. QED BY <1>1, <1>2, <1>3

\* What a step leaves of one line
LineTypes(line) ==
  /\ switchQueues[line] \in Queues /\ gameSwitches.connector[line] \in BOOLEAN
  /\ clicks[line] \in Tallies /\ shown[line] \in Nat

LEMMA LinesHaveTypes ==
  ASSUME LinesInv, NEW line \in SwitchLines
  PROVE  LineTypes(line)
BY DEF LinesInv, LineTypes, Wires

\* Every line is as it should be, and the switches differ only in what the connector
\* is told.
LEMMA LinesAre ==
  ASSUME LinesInv, UNCHANGED joyType,
         NEW connector, gameSwitches' = [gameSwitches EXCEPT !.connector = connector],
         connector = [line \in SwitchLines |-> connector[line]],
         switchQueues' = [line \in SwitchLines |-> switchQueues'[line]],
         clicks' = [line \in SwitchLines |-> clicks'[line]],
         shown' = [line \in SwitchLines |-> shown'[line]],
         \A line \in SwitchLines : LineTypes(line)' /\ LineInv(line)',
         joyType = [stick \in 0 .. 1 |-> "none"] =>
           \A line \in SwitchLines : ~ gameSwitches'.connector[line] /\ switchQueues'[line].levels = <<>>
  PROVE  LinesInv'
<1>1. gameSwitches'.connector = connector /\ gameSwitches'.plug = gameSwitches.plug
      /\ gameSwitches \in Wires
  BY DEF LinesInv, Wires
<1>2. connector \in [SwitchLines -> BOOLEAN]
  BY <1>1 DEF LineTypes
<1>3. gameSwitches' \in Wires
  BY <1>1, <1>2 DEF Wires
<1>4. gameSwitches'.plug = PulldownMask(joyType)'
  BY <1>1 DEF LinesInv, PulldownMask
<1>5. /\ switchQueues' \in [SwitchLines -> Queues] /\ clicks' \in [SwitchLines -> Tallies]
      /\ shown' \in [SwitchLines -> Nat]
  BY DEF LineTypes
<1>. QED BY <1>3, <1>4, <1>5 DEF LinesInv

LEMMA LineIsUntouched ==
  ASSUME LinesInv, NEW line \in SwitchLines, UNCHANGED joyType,
         switchQueues'[line] = switchQueues[line], gameSwitches'.connector[line] = gameSwitches.connector[line],
         clicks'[line] = clicks[line], shown'[line] = shown[line],
         line \in crowded' <=> line \in crowded
  PROVE  LineTypes(line)' /\ LineInv(line)'
<1>1. LineTypes(line) /\ LineInv(line)
  BY LinesHaveTypes DEF LinesInv
<1>2. LineTypes(line)'
  BY <1>1 DEF LineTypes
<1>3. Keyed(line)' <=> Keyed(line)
  BY KeysStay
<1>. QED BY <1>1, <1>2, <1>3 DEF LineInv, Counted, Alternates

LEMMA ButtonKeepsLine ==
  ASSUME LinesInv, NEW stick \in 0 .. 1, NEW button \in 0 .. 1, NEW down \in BOOLEAN,
         Button(stick, button, down), NEW line \in SwitchLines
  PROVE  LineTypes(line)' /\ LineInv(line)'
<1>. DEFINE queue == switchQueues[line]
            level == gameSwitches.connector[line]
            owned == line \in ButtonLines(stick, button)
            now == SendsNow(queue, down)
            edge == owned /\ down # queue.tail
<1>0. LineTypes(line) /\ LineInv(line) /\ queue \in Queues /\ level \in BOOLEAN
  BY LinesHaveTypes DEF LinesInv, LineTypes
<1>1. owned => Keyed(line)
  BY DEF Button, Keyed
<1>2. Keyed(line)' <=> Keyed(line)
  BY KeysStay DEF Button
<1>3. /\ owned => switchQueues'[line] = Queued(queue, down)
      /\ ~ owned => switchQueues'[line] = queue
  BY DEF Button
<1>4. /\ owned /\ now => gameSwitches'.connector[line] = down
      /\ ~ (owned /\ now) => gameSwitches'.connector[line] = level
  BY DEF Button, LinesInv, Wires
<1>5. /\ owned /\ now => shown'[line] = shown[line] + 1
      /\ ~ (owned /\ now) => shown'[line] = shown[line]
  BY DEF Button
<1>6. line \in crowded' <=> line \in crowded \/ (owned /\ now /\ shown[line] > 0)
  BY DEF Button
<1>7. /\ ~ edge => clicks'[line] = clicks[line]
      /\ edge => /\ clicks'[line].accepted = clicks[line].accepted + 1
                 /\ now => clicks'[line].sent = clicks[line].sent + 1
                 /\ ~ now => clicks'[line].sent = clicks[line].sent
                 /\ Len(queue.levels) = QueueCapacity => clicks'[line].dropped = clicks[line].dropped + 2
                 /\ Len(queue.levels) # QueueCapacity => clicks'[line].dropped = clicks[line].dropped
                 /\ clicks'[line] = [accepted |-> clicks'[line].accepted, sent |-> clicks'[line].sent,
                                     dropped |-> clicks'[line].dropped]
  <2>1. clicks' = [l \in SwitchLines |->
                     IF l \notin {m \in ButtonLines(stick, button) : down # switchQueues[m].tail} THEN clicks[l]
                     ELSE [accepted |-> clicks[l].accepted + 1,
                           sent |-> clicks[l].sent
                             + IF l \in {m \in ButtonLines(stick, button) : SendsNow(switchQueues[m], down)}
                               THEN 1 ELSE 0,
                           dropped |-> clicks[l].dropped
                             + IF Len(switchQueues[l].levels) = QueueCapacity THEN 2 ELSE 0]]
    BY DEF Button
  <2>2. ~ edge => clicks'[line] = clicks[line]
    BY <2>1
  <2>3. edge => clicks'[line] =
                  [accepted |-> clicks[line].accepted + 1,
                   sent |-> clicks[line].sent + IF now THEN 1 ELSE 0,
                   dropped |-> clicks[line].dropped + IF Len(queue.levels) = QueueCapacity THEN 2 ELSE 0]
    BY <2>1
  <2>4. clicks[line].sent \in Nat /\ clicks[line].dropped \in Nat
    BY <1>0 DEF LineTypes, Tallies
  <2>. QED BY <2>2, <2>3, <2>4
<1>8. now => down # queue.tail /\ queue.levels = <<>> /\ ~ queue.sent
  BY DEF SendsNow
<1>9. CASE ~ edge
  <2>1. owned => Queued(queue, down) = queue
    BY <1>9 DEF Queued
  <2>2. /\ switchQueues'[line] = queue /\ gameSwitches'.connector[line] = level
        /\ shown'[line] = shown[line] /\ clicks'[line] = clicks[line]
        /\ line \in crowded' <=> line \in crowded
    BY <1>3, <1>4, <1>5, <1>6, <1>7, <1>8, <1>9, <2>1
  <2>. QED BY <2>2, LineIsUntouched DEF Button
<1>10. ASSUME edge
       PROVE  /\ switchQueues'[line] \in Queues
              /\ clicks'[line] \in Tallies
              /\ now => switchQueues'[line].sent
              /\ queue.sent => switchQueues'[line].sent
  <2>1. owned /\ switchQueues'[line] = Queued(queue, down)
    BY <1>3, <1>10
  <2>2. clicks[line].accepted \in Nat /\ clicks[line].sent \in Nat /\ clicks[line].dropped \in Nat
    BY <1>0 DEF LineTypes, Tallies
  <2>3. /\ clicks'[line].accepted \in Nat /\ clicks'[line].sent \in Nat /\ clicks'[line].dropped \in Nat
        /\ clicks'[line] = [accepted |-> clicks'[line].accepted, sent |-> clicks'[line].sent,
                            dropped |-> clicks'[line].dropped]
    <3>1. /\ clicks'[line].accepted = clicks[line].accepted + 1
          /\ clicks'[line].sent = clicks[line].sent \/ clicks'[line].sent = clicks[line].sent + 1
          /\ clicks'[line].dropped = clicks[line].dropped \/ clicks'[line].dropped = clicks[line].dropped + 2
      BY <1>7, <1>10
    <3>2. clicks'[line] = [accepted |-> clicks'[line].accepted, sent |-> clicks'[line].sent,
                           dropped |-> clicks'[line].dropped]
      BY <1>7, <1>10
    <3>. QED BY <2>2, <3>1, <3>2
  <2>4. clicks'[line] \in Tallies
    BY <2>3 DEF Tallies
  <2>. QED BY <1>0, <2>1, <2>4, QueuedIsQueue
<1>11. ASSUME edge, Keyed(line)
       PROVE  /\ now => Alternates(down, switchQueues'[line]) /\ Len(switchQueues'[line].levels) = Len(queue.levels)
              /\ ~ now =>
                   /\ Alternates(level, switchQueues'[line])
                   /\ Len(queue.levels) = QueueCapacity => Len(switchQueues'[line].levels) = Len(queue.levels) - 1
                   /\ Len(queue.levels) # QueueCapacity => Len(switchQueues'[line].levels) = Len(queue.levels) + 1
  <2>1. switchQueues'[line] = Queued(queue, down) /\ down # queue.tail
    BY <1>3, <1>11
  <2>2. Alternates(level, queue)
    BY <1>0, <1>11 DEF LineInv
  <2>. HIDE DEF queue, level
  <2>. QED BY <1>0, <2>1, <2>2, QueuedAlternates
<1>12. Len(queue.levels) \in Nat /\ (now => Len(queue.levels) # QueueCapacity)
  BY <1>0, <1>8, LenProperties, EmptySeq, CapacityIsTwo DEF Queues
<1>13. ASSUME edge, Keyed(line) PROVE Counted(clicks[line], queue)' /\ line \notin crowded
  <2>1. Counted(clicks[line], queue) /\ line \notin crowded
    BY <1>0, <1>13 DEF LineInv
  <2>2. clicks[line].accepted \in Nat /\ clicks[line].sent \in Nat /\ clicks[line].dropped \in Nat
    BY <1>0 DEF LineTypes, Tallies
  <2>. DEFINE n == Len(queue.levels)
              m == Len(switchQueues'[line].levels)
  <2>3. n \in Nat /\ clicks[line].accepted = clicks[line].sent + clicks[line].dropped + n
    BY <1>12, <2>1 DEF Counted
  <2>4. CASE now
    <3>1. m = n /\ clicks'[line].accepted = clicks[line].accepted + 1
          /\ clicks'[line].sent = clicks[line].sent + 1 /\ clicks'[line].dropped = clicks[line].dropped
      BY <1>7, <1>11, <1>12, <1>13, <2>4
    <3>. HIDE DEF n, m
    <3>2. clicks'[line].accepted = clicks'[line].sent + clicks'[line].dropped + m
      BY <2>2, <2>3, <3>1
    <3>. QED BY <2>1, <3>2 DEF Counted, m
  <2>5. CASE ~ now /\ n = QueueCapacity
    <3>1. m = n - 1 /\ clicks'[line].accepted = clicks[line].accepted + 1
          /\ clicks'[line].sent = clicks[line].sent /\ clicks'[line].dropped = clicks[line].dropped + 2
      BY <1>7, <1>11, <1>13, <2>5
    <3>. HIDE DEF n, m
    <3>2. clicks'[line].accepted = clicks'[line].sent + clicks'[line].dropped + m
      BY <2>2, <2>3, <3>1
    <3>. QED BY <2>1, <3>2 DEF Counted, m
  <2>6. CASE ~ now /\ n # QueueCapacity
    <3>1. m = n + 1 /\ clicks'[line].accepted = clicks[line].accepted + 1
          /\ clicks'[line].sent = clicks[line].sent /\ clicks'[line].dropped = clicks[line].dropped
      BY <1>7, <1>11, <1>13, <2>6
    <3>. HIDE DEF n, m
    <3>2. clicks'[line].accepted = clicks'[line].sent + clicks'[line].dropped + m
      BY <2>2, <2>3, <3>1
    <3>. QED BY <2>1, <3>2 DEF Counted, m
  <2>. QED BY <2>4, <2>5, <2>6
<1>14. CASE edge
  <2>1. shown[line] \in Nat /\ (shown[line] > 0 => queue.sent)
    BY <1>0 DEF LineTypes, LineInv
  <2>2. owned
    BY <1>14
  <2>3. shown'[line] \in Nat /\ (shown'[line] > 0 => switchQueues'[line].sent)
    <3>1. CASE now
      BY <1>5, <1>10, <1>14, <2>1, <2>2, <3>1
    <3>2. CASE ~ now
      <4>1. shown'[line] = shown[line]
        BY <1>5, <3>2
      <4>. QED BY <1>10, <1>14, <2>1, <4>1
    <3>. QED BY <3>1, <3>2
  <2>4. gameSwitches'.connector[line] \in BOOLEAN
    <3>. HIDE DEF now
    <3>. QED BY <1>0, <1>4
  <2>5. LineTypes(line)'
    BY <1>10, <1>14, <2>3, <2>4 DEF LineTypes
  <2>6. ASSUME Keyed(line)
        PROVE  line \notin crowded' /\ Alternates(gameSwitches'.connector[line], switchQueues'[line])
    <3>1. CASE now
      <4>1. gameSwitches'.connector[line] = down /\ Alternates(down, switchQueues'[line])
        BY <1>4, <1>11, <1>14, <2>2, <2>6, <3>1
      <4>2. line \notin crowded'
        BY <1>6, <1>8, <1>13, <1>14, <2>1, <2>6, <3>1
      <4>. QED BY <4>1, <4>2
    <3>2. CASE ~ now
      <4>1. gameSwitches'.connector[line] = level /\ Alternates(level, switchQueues'[line])
        BY <1>4, <1>11, <1>14, <2>6, <3>2
      <4>2. line \notin crowded'
        BY <1>6, <1>13, <1>14, <2>6, <3>2
      <4>. QED BY <4>1, <4>2
    <3>. QED BY <3>1, <3>2
  <2>7. LineInv(line)'
    BY <1>2, <1>13, <1>14, <2>3, <2>6 DEF LineInv, Alternates
  <2>. QED BY <2>5, <2>7
<1>. QED BY <1>9, <1>14

LEMMA ButtonKeepsLines ==
  ASSUME LinesInv, NEW stick \in 0 .. 1, NEW button \in 0 .. 1, NEW down \in BOOLEAN,
         Button(stick, button, down)
  PROVE  LinesInv'
<1>1. \A line \in SwitchLines : LineTypes(line)' /\ LineInv(line)'
  BY ButtonKeepsLine
<1>2. /\ DOMAIN switchQueues' = SwitchLines /\ switchQueues' = [line \in SwitchLines |-> switchQueues'[line]]
      /\ clicks' = [line \in SwitchLines |-> clicks'[line]]
      /\ shown' = [line \in SwitchLines |-> shown'[line]]
  BY DEF Button
<1>3. PICK f : f = [line \in SwitchLines |-> f[line]] /\ gameSwitches' = [gameSwitches EXCEPT !.connector = f]
  BY DEF Button
<1>4. UNCHANGED joyType /\ joyType # [z \in 0 .. 1 |-> "none"]
  BY DEF Button
<1>. QED BY <1>1, <1>2, <1>3, <1>4, LinesAre

LEMMA GamepadKeepsLines ==
  ASSUME LinesInv, NEW stick \in 0 .. 1, NEW buttons \in [0 .. 1 -> BOOLEAN], PollGamepad(stick, buttons)
  PROVE  LinesInv'
<1>. DEFINE was == gameSwitches.connector
            owned(b) == ButtonLines(stick, b)
            f == [line \in SwitchLines |-> CASE line \in owned(0) -> buttons[0]
                                             [] line \in owned(1) -> buttons[1]
                                             [] OTHER -> was[line]]
<1>1. /\ joyType[stick] = "joystick" /\ gameSwitches' = [gameSwitches EXCEPT !.connector = f]
      /\ UNCHANGED <<joyType, switchQueues, clicks, shown, crowded>>
  BY DEF PollGamepad
<1>2. gameSwitches'.connector = f /\ joyType \in [0 .. 1 -> StickDevices]
  BY <1>1 DEF LinesInv, Wires
<1>3. ASSUME NEW line \in SwitchLines PROVE LineTypes(line)' /\ LineInv(line)'
  <2>1. LineTypes(line) /\ LineInv(line)
    BY LinesHaveTypes DEF LinesInv
  <2>2. f[line] \in BOOLEAN
    BY <2>1 DEF LineTypes
  <2>. HIDE DEF f
  <2>3. LineTypes(line)'
    BY <1>1, <1>2, <2>1, <2>2 DEF LineTypes
  <2>4. CASE Keyed(line)
    <3>1. line \notin owned(0) /\ line \notin owned(1)
      BY <1>1, <1>2, <2>4, OwnersAreApart
    <3>2. gameSwitches'.connector[line] = was[line]
      BY <1>2, <3>1 DEF f
    <3>. QED BY <1>1, <2>3, <3>2, LineIsUntouched
  <2>5. CASE ~ Keyed(line)
    <3>1. ~ Keyed(line)'
      BY <1>1, <2>5, KeysStay
    <3>. QED BY <1>1, <2>1, <2>3, <3>1 DEF LineInv
  <2>. QED BY <2>4, <2>5
<1>4. joyType # [z \in 0 .. 1 |-> "none"]
  BY <1>1
<1>5. /\ switchQueues' = [line \in SwitchLines |-> switchQueues'[line]]
      /\ clicks' = [line \in SwitchLines |-> clicks'[line]]
      /\ shown' = [line \in SwitchLines |-> shown'[line]]
  BY <1>1 DEF LinesInv
<1>6. f = [line \in SwitchLines |-> f[line]]
  OBVIOUS
<1>. HIDE DEF f
<1>. QED BY <1>1, <1>3, <1>4, <1>5, <1>6, LinesAre

LEMMA HoldModifiersKeepsLines ==
  ASSUME LinesInv, HoldModifiers
  PROVE  LinesInv'
<1>1. PICK levels \in [SwitchLines -> BOOLEAN] : gameSwitches' = [gameSwitches EXCEPT !.keyboard = levels]
  BY DEF HoldModifiers
<1>2. UNCHANGED <<joyType, switchQueues, clicks, shown, crowded>>
  BY DEF HoldModifiers
<1>3. /\ gameSwitches' \in Wires /\ gameSwitches'.plug = gameSwitches.plug
      /\ gameSwitches'.connector = gameSwitches.connector
  BY <1>1 DEF LinesInv, Wires
<1>4. ASSUME NEW line \in SwitchLines PROVE LineInv(line)'
  BY <1>2, <1>3, LineIsUntouched
<1>. QED BY <1>2, <1>3, <1>4 DEF LinesInv, PulldownMask

LEMMA SliceKeepsLine ==
  ASSUME LinesInv, NEW cycles \in 1 .. 2, Slice(cycles), NEW line \in SwitchLines
  PROVE  LineTypes(line)' /\ LineInv(line)'
<1>. DEFINE queue == switchQueues[line]
            level == gameSwitches.connector[line]
            drains == Drains(queue)
<1>0. LineTypes(line) /\ LineInv(line) /\ queue \in Queues /\ level \in BOOLEAN
  BY LinesHaveTypes DEF LinesInv, LineTypes
<1>1. /\ UNCHANGED joyType /\ shown'[line] = 0 /\ switchQueues'[line] = Drained(queue)
      /\ line \in crowded' <=> line \in crowded \/ (drains /\ shown[line] > 0)
      /\ drains => gameSwitches'.connector[line] = Head(queue.levels)
      /\ ~ drains => gameSwitches'.connector[line] = level
      /\ drains => clicks'[line] = [clicks[line] EXCEPT !.sent = @ + 1]
      /\ ~ drains => clicks'[line] = clicks[line]
  <2>1. line \in {l \in SwitchLines : Drained(switchQueues[l]).levels # switchQueues[l].levels} <=> drains
    BY DEF Drains
  <2>. HIDE DEF drains, queue
  <2>. QED BY <2>1 DEF Slice, LinesInv, Wires, queue
<1>2. /\ switchQueues'[line] \in Queues
      /\ drains => ~ queue.sent /\ Head(queue.levels) \in BOOLEAN
                   /\ Len(switchQueues'[line].levels) = Len(queue.levels) - 1
  BY <1>0, <1>1, DrainedIsQueue
<1>3. clicks'[line] \in Tallies
  BY <1>0, <1>1 DEF LineTypes, Tallies
<1>4. gameSwitches'.connector[line] \in BOOLEAN
  <2>. HIDE DEF drains, queue
  <2>. QED BY <1>0, <1>1, <1>2
<1>5. LineTypes(line)'
  BY <1>1, <1>2, <1>3, <1>4 DEF LineTypes
<1>6. ASSUME Keyed(line)
      PROVE  /\ line \notin crowded' /\ Alternates(gameSwitches'.connector[line], switchQueues'[line])
             /\ Counted(clicks[line], queue)'
  <2>1. line \notin crowded /\ Alternates(level, queue) /\ Counted(clicks[line], queue)
        /\ (shown[line] > 0 => queue.sent)
    BY <1>0, <1>6 DEF LineInv
  <2>2. line \notin crowded'
    BY <1>1, <1>2, <2>1
  <2>3. /\ drains => Alternates(Head(queue.levels), switchQueues'[line])
        /\ ~ drains => Alternates(level, switchQueues'[line])
    BY <1>0, <1>1, <2>1, DrainedAlternates
  <2>4. Alternates(gameSwitches'.connector[line], switchQueues'[line])
    <3>1. CASE drains
      BY <1>1, <2>3, <3>1
    <3>2. CASE ~ drains
      BY <1>1, <2>3, <3>2
    <3>. QED BY <3>1, <3>2
  <2>5. Counted(clicks[line], queue)'
    <3>1. CASE drains
      <4>1. clicks[line] \in Tallies /\ Len(queue.levels) \in Nat
        BY <1>0, LenProperties DEF LineTypes, Queues
      <4>2. clicks'[line].accepted = clicks[line].accepted /\ clicks'[line].sent = clicks[line].sent + 1
            /\ clicks'[line].dropped = clicks[line].dropped
        BY <1>1, <3>1, <4>1 DEF Tallies
      <4>. DEFINE n == Len(queue.levels)
                  m == Len(switchQueues'[line].levels)
      <4>3. m = n - 1 /\ n \in Nat
        BY <1>2, <3>1, <4>1
      <4>4. clicks[line].accepted = clicks[line].sent + clicks[line].dropped + n
        BY <2>1 DEF Counted
      <4>. HIDE DEF n, m
      <4>5. clicks[line].sent \in Nat /\ clicks[line].dropped \in Nat
        BY <4>1 DEF Tallies
      <4>6. clicks'[line].accepted = clicks'[line].sent + clicks'[line].dropped + m
        <5>1. ASSUME NEW s \in Nat, NEW d \in Nat, NEW k \in Nat PROVE s + d + k = s + 1 + d + (k - 1)
          BY <5>1
        <5>2. clicks'[line].sent + clicks'[line].dropped + m
                = clicks[line].sent + 1 + clicks[line].dropped + (n - 1)
          BY <4>2, <4>3
        <5>3. clicks[line].sent + clicks[line].dropped + n
                = clicks[line].sent + 1 + clicks[line].dropped + (n - 1)
          BY <4>3, <4>5, <5>1
        <5>. QED BY <4>2, <4>4, <5>2, <5>3
      <4>. QED BY <4>6 DEF Counted, m
    <3>2. CASE ~ drains
      <4>1. clicks'[line] = clicks[line] /\ switchQueues'[line].levels = queue.levels
        BY <1>1, <3>2 DEF Drains
      <4>. QED BY <2>1, <4>1 DEF Counted
    <3>. QED BY <3>1, <3>2
  <2>. QED BY <2>2, <2>4, <2>5
<1>7. Keyed(line)' <=> Keyed(line)
  BY <1>1, KeysStay
<1>8. LineInv(line)'
  BY <1>1, <1>6, <1>7 DEF LineInv, Alternates
<1>. QED BY <1>5, <1>8

LEMMA SliceKeepsLines ==
  ASSUME LinesInv, NEW cycles \in 1 .. 2, Slice(cycles)
  PROVE  LinesInv'
<1>1. \A line \in SwitchLines : LineTypes(line)' /\ LineInv(line)'
  BY SliceKeepsLine
<1>2. /\ switchQueues' = [line \in SwitchLines |-> switchQueues'[line]]
      /\ clicks' = [line \in SwitchLines |-> clicks'[line]]
      /\ shown' = [line \in SwitchLines |-> shown'[line]]
      /\ UNCHANGED joyType
  BY DEF Slice
<1>3. PICK f : f = [line \in SwitchLines |-> f[line]] /\ gameSwitches' = [gameSwitches EXCEPT !.connector = f]
  BY DEF Slice
<1>4. ASSUME joyType = [stick \in 0 .. 1 |-> "none"], NEW line \in SwitchLines
      PROVE  ~ gameSwitches'.connector[line] /\ switchQueues'[line].levels = <<>>
  <2>1. ~ gameSwitches.connector[line] /\ switchQueues[line].levels = <<>> /\ switchQueues[line] \in Queues
    BY <1>4 DEF LinesInv
  <2>2. ~ Drains(switchQueues[line])
    BY <2>1, DrainedIsQueue
  <2>3. switchQueues'[line] = Drained(switchQueues[line])
    BY DEF Slice
  <2>4. switchQueues'[line].levels = <<>>
    BY <2>1, <2>2, <2>3 DEF Drains
  <2>5. gameSwitches'.connector[line] = gameSwitches.connector[line]
    BY <2>2 DEF Slice, Drains, LinesInv, Wires
  <2>. QED BY <2>1, <2>4, <2>5
<1>. QED BY <1>1, <1>2, <1>3, <1>4, LinesAre

LEMMA MasksAreLines ==
  ASSUME NEW types
  PROVE  PulldownMask(types) \in SUBSET SwitchLines
BY DEF PulldownMask, SwitchLines

\* The lines as they start, and as they are when a controller comes or goes
FreshLines ==
  /\ joyType \in [0 .. 1 -> StickDevices] /\ gameSwitches \in Wires
  /\ gameSwitches.plug = PulldownMask(joyType) /\ gameSwitches.connector = NoSwitch
  /\ switchQueues = [line \in SwitchLines |-> EmptyQueue]
  /\ clicks = [line \in SwitchLines |-> [accepted |-> 0, sent |-> 0, dropped |-> 0]]
  /\ shown = [line \in SwitchLines |-> 0] /\ crowded = {}

LEMMA FreshLinesHold == FreshLines => LinesInv
<1>. SUFFICES ASSUME FreshLines PROVE LinesInv
  OBVIOUS
<1>. USE DEF FreshLines
<1>1. EmptyQueue \in Queues /\ Len(EmptyQueue.levels) = 0
  BY EmptySeq DEF EmptyQueue, Queues
<1>2. switchQueues \in [SwitchLines -> Queues]
  BY <1>1
<1>3. clicks \in [SwitchLines -> Tallies] /\ shown \in [SwitchLines -> Nat]
  BY DEF Tallies
<1>4. Alternates(FALSE, EmptyQueue)
  BY <1>1, CapacityIsTwo DEF Alternates, EmptyQueue, ByTurns
<1>5. Counted([accepted |-> 0, sent |-> 0, dropped |-> 0], EmptyQueue)
  BY <1>1 DEF Counted
<1>6. ASSUME NEW line \in SwitchLines PROVE LineInv(line)
  <2>1. /\ switchQueues[line] = EmptyQueue /\ gameSwitches.connector[line] = FALSE
        /\ clicks[line] = [accepted |-> 0, sent |-> 0, dropped |-> 0] /\ shown[line] = 0
        /\ line \notin crowded
    BY DEF NoSwitch
  <2>2. ~ (shown[line] > 0)
    BY <2>1
  <2>3. Alternates(gameSwitches.connector[line], switchQueues[line])
    BY <1>4, <2>1
  <2>4. Counted(clicks[line], switchQueues[line])
    BY <1>5, <2>1
  <2>. QED BY <2>1, <2>2, <2>3, <2>4 DEF LineInv
<1>7. \A line \in SwitchLines : ~ gameSwitches.connector[line] /\ switchQueues[line].levels = <<>>
  BY DEF NoSwitch, EmptyQueue
<1>. QED BY <1>2, <1>3, <1>6, <1>7 DEF LinesInv

LEMMA ReinitialiseKeepsLines ==
  ASSUME LinesInv, NEW types \in [0 .. 1 -> StickDevices], Reinitialise(types)
  PROVE  LinesInv'
<1>1. /\ joyType' = types
      /\ gameSwitches' = [gameSwitches EXCEPT !.connector = NoSwitch, !.plug = PulldownMask(types)]
      /\ switchQueues' = [line \in SwitchLines |-> EmptyQueue]
      /\ clicks' = [line \in SwitchLines |-> [accepted |-> 0, sent |-> 0, dropped |-> 0]]
      /\ shown' = [line \in SwitchLines |-> 0]
      /\ crowded' = {}
  BY DEF Reinitialise
<1>2. NoSwitch \in [SwitchLines -> BOOLEAN] /\ PulldownMask(types) \in SUBSET SwitchLines
  BY MasksAreLines DEF NoSwitch
<1>3. /\ gameSwitches' \in Wires /\ gameSwitches'.connector = NoSwitch
      /\ gameSwitches'.plug = PulldownMask(types)
  <2>1. gameSwitches \in Wires
    BY DEF LinesInv
  <2>. QED BY <1>1, <1>2, <2>1 DEF Wires
<1>4. PulldownMask(joyType)' = PulldownMask(types)
  BY <1>1 DEF PulldownMask
<1>5. NoSwitch' = NoSwitch /\ EmptyQueue' = EmptyQueue
  BY DEF NoSwitch, EmptyQueue
<1>6. FreshLines'
  BY <1>1, <1>3, <1>4, <1>5 DEF FreshLines
<1>. QED BY <1>6, FreshLinesHold, PTL

LEMMA PortStarts ==
  ASSUME PortInit
  PROVE  PortInv
<1>1. PICK mod \in BOOLEAN, e \in BOOLEAN :
        gameSwitches = [keyboard |-> NoSwitch, connector |-> NoSwitch,
                        plug |-> PulldownMask(joyType), mod |-> mod, apple2e |-> e]
  BY DEF PortInit
<1>2. gameSwitches \in Wires
  BY <1>1, MasksAreLines DEF Wires, NoSwitch
<1>3. FreshLines
  BY <1>1, <1>2 DEF PortInit, FreshLines
<1>4. PotsInv
  <2>1. pots \in [Paddles -> Pots]
    BY DEF PortInit, Pots
  <2>. QED BY <2>1 DEF PortInit, PotsInv
<1>. QED BY <1>3, <1>4, FreshLinesHold DEF PortInv

LEMMA PortStepKeeps ==
  ASSUME PortInv, [PortNext]_portVars
  PROVE  PortInv'
<1>. DEFINE still == <<pots, portClock, portKept>>
            lines == <<joyType, gameSwitches, switchQueues, clicks, shown, crowded>>
<1>0. PotsInv /\ LinesInv
  BY DEF PortInv
<1>1. UNCHANGED still => PotsInv'
  BY <1>0 DEF PotsInv, Expired, PulseCycles
<1>2. UNCHANGED lines => LinesInv'
  <2>. SUFFICES ASSUME UNCHANGED lines PROVE LinesInv'
    OBVIOUS
  <2>1. \A line \in SwitchLines : LineInv(line)'
    BY <1>0, LineIsUntouched
  <2>. QED BY <1>0, <2>1 DEF LinesInv, PulldownMask
<1>3. CASE \E cycles \in 1 .. 2 : Slice(cycles) /\ UNCHANGED portEvents
  <2>. PICK cycles \in 1 .. 2 : Slice(cycles)
    BY <1>3
  <2>1. portClock' = portClock + cycles /\ UNCHANGED <<pots, portKept>>
    BY DEF Slice
  <2>. QED BY <1>0, <2>1, SliceKeepsPots, SliceKeepsLines DEF PortInv
<1>4. CASE HoldModifiers
  BY <1>0, <1>1, <1>4, HoldModifiersKeepsLines DEF HoldModifiers, PortInv
<1>5. CASE \E stick \in 0 .. 1, button \in 0 .. 1, down \in BOOLEAN : Button(stick, button, down)
  <2>. PICK stick \in 0 .. 1, button \in 0 .. 1, down \in BOOLEAN : Button(stick, button, down)
    BY <1>5
  <2>1. UNCHANGED still
    BY DEF Button
  <2>. QED BY <1>0, <1>1, <2>1, ButtonKeepsLines DEF PortInv
<1>6. CASE \E stick \in 0 .. 1, buttons \in [0 .. 1 -> BOOLEAN] : PollGamepad(stick, buttons)
  <2>. PICK stick \in 0 .. 1, buttons \in [0 .. 1 -> BOOLEAN] : PollGamepad(stick, buttons)
    BY <1>6
  <2>1. UNCHANGED still
    BY DEF PollGamepad
  <2>. QED BY <1>0, <1>1, <2>1, GamepadKeepsLines DEF PortInv
<1>7. CASE \E stick \in 0 .. 1, position \in Positions : SetAxis(stick, position)
  <2>. PICK stick \in 0 .. 1, position \in Positions : SetAxis(stick, position)
    BY <1>7
  <2>1. UNCHANGED lines
    BY DEF SetAxis
  <2>. QED BY <1>0, <1>2, <2>1, SetAxisKeepsPots DEF PortInv
<1>8. CASE Strobe
  <2>1. UNCHANGED lines
    BY <1>8 DEF Strobe
  <2>. QED BY <1>0, <1>2, <1>8, <2>1, StrobeKeepsPots DEF PortInv
<1>9. CASE SavePort
  <2>1. UNCHANGED lines
    BY <1>9 DEF SavePort
  <2>. QED BY <1>0, <1>2, <1>9, <2>1, SavePortKeepsPots DEF PortInv
<1>10. CASE LoadPort
  <2>1. UNCHANGED lines
    BY <1>10 DEF LoadPort
  <2>. QED BY <1>0, <1>2, <1>10, <2>1, LoadPortKeepsPots DEF PortInv
<1>11. CASE \E types \in [0 .. 1 -> StickDevices] : Reinitialise(types)
  <2>. PICK types \in [0 .. 1 -> StickDevices] : Reinitialise(types)
    BY <1>11
  <2>1. UNCHANGED still
    BY DEF Reinitialise
  <2>. QED BY <1>0, <1>1, <2>1, ReinitialiseKeepsLines DEF PortInv
<1>12. CASE UNCHANGED portVars
  BY <1>1, <1>2, <1>12 DEF portVars, PortInv
<1>. QED BY <1>3, <1>4, <1>5, <1>6, <1>7, <1>8, <1>9, <1>10, <1>11, <1>12 DEF PortNext, PortHost

\* The property of the port, from the inductive invariant
LEMMA PortInvShows ==
  ASSUME PortInv
  PROVE  PortFollowsTheHand
<1>0. PotsInv /\ LinesInv
  BY DEF PortInv
<1>1. ASSUME NEW line \in SwitchLines, Keyed(line)
      PROVE  LET queue == switchQueues[line]
                 levels == <<gameSwitches.connector[line]>> \o queue.levels
             IN /\ line \notin crowded
                /\ \A i \in 1 .. Len(levels) - 1 : levels[i] # levels[i + 1]
                /\ levels[Len(levels)] = queue.tail
                /\ Len(queue.levels) <= QueueCapacity
                /\ clicks[line].accepted = clicks[line].sent + clicks[line].dropped + Len(queue.levels)
  <2>. DEFINE queue == switchQueues[line]
              level == gameSwitches.connector[line]
              l == queue.levels
              levels == <<level>> \o l
  <2>1. /\ level \in BOOLEAN /\ l \in Seq(BOOLEAN) /\ line \notin crowded
        /\ ByTurns(l)
        /\ l = <<>> => queue.tail = level
        /\ l # <<>> => l[1] # level /\ queue.tail = l[Len(l)]
        /\ Len(l) <= QueueCapacity /\ Len(l) \in Nat /\ Counted(clicks[line], queue)
    <3>1. LineTypes(line) /\ LineInv(line)
      BY <1>0, LinesHaveTypes DEF LinesInv
    <3>. QED BY <1>1, <3>1, LenProperties DEF LineInv, LineTypes, Queues, Alternates
  <2>2. /\ <<level>> \in Seq(BOOLEAN) /\ Len(<<level>>) = 1 /\ <<level>>[1] = level
    BY <2>1
  <2>3. /\ Len(levels) = Len(l) + 1
        /\ levels[1] = level
        /\ \A i \in 1 .. Len(l) : levels[i + 1] = l[i]
    <3>1. /\ Len(levels) = 1 + Len(l)
          /\ \A i \in 1 .. 1 + Len(l) : levels[i] = IF i <= 1 THEN <<level>>[i] ELSE l[i - 1]
      BY <2>1, <2>2, ConcatProperties
    <3>. HIDE DEF levels, l, level
    <3>2. levels[1] = level
      BY <2>1, <2>2, <3>1
    <3>3. ASSUME NEW i \in 1 .. Len(l) PROVE levels[i + 1] = l[i]
      <4>1. i + 1 \in 1 .. 1 + Len(l) /\ ~ (i + 1 <= 1) /\ (i + 1) - 1 = i
        BY <2>1
      <4>. QED BY <3>1, <4>1
    <3>. QED BY <2>1, <3>1, <3>2, <3>3
  <2>4. l = <<>> <=> Len(l) = 0
    BY <2>1, EmptySeq
  <2>. HIDE DEF levels, l, level, queue
  <2>5. ASSUME NEW i \in 1 .. Len(levels) - 1 PROVE levels[i] # levels[i + 1]
    <3>1. CASE i = 1
      <4>1. levels[1 + 1] = l[1] /\ l # <<>>
        BY <2>1, <2>3, <2>4, <2>5, <3>1
      <4>. QED BY <2>1, <2>3, <3>1, <4>1
    <3>2. CASE i # 1
      <4>1. i - 1 \in 1 .. Len(l) - 1 /\ i - 1 \in 1 .. Len(l) /\ i \in 1 .. Len(l) /\ (i - 1) + 1 = i
        BY <2>1, <2>3, <2>5, <3>2
      <4>2. levels[i] = l[i - 1] /\ levels[i + 1] = l[i] /\ l[i - 1] # l[i]
        <5>1. levels[(i - 1) + 1] = l[i - 1]
          BY <2>3, <4>1
        <5>2. l[i - 1] # l[(i - 1) + 1]
          BY <2>1, <4>1 DEF ByTurns
        <5>. QED BY <2>3, <4>1, <5>1, <5>2
      <4>. QED BY <4>2
    <3>. QED BY <3>1, <3>2
  <2>6. levels[Len(levels)] = queue.tail
    <3>1. CASE l = <<>>
      BY <2>1, <2>3, <2>4, <3>1
    <3>2. CASE l # <<>>
      <4>1. Len(l) \in 1 .. Len(l)
        BY <2>1, <2>4, <3>2
      <4>. QED BY <2>1, <2>3, <3>2, <4>1
    <3>. QED BY <3>1, <3>2
  <2>. QED BY <2>1, <2>5, <2>6 DEF Counted, levels, l, level, queue
<1>2. EveryClickIsSeen
  BY <1>1 DEF EveryClickIsSeen
<1>3. \A p \in Paddles : Expired(pots[p]) \/ pots[p].pulse = pots[p].position
  BY <1>0 DEF PotsInv
<1>4. ASSUME NEW line \in {0, 1}, gameSwitches.keyboard[line] \/ gameSwitches.connector[line]
      PROVE  SwitchLevel(line)
  BY <1>4 DEF SwitchLevel, ShiftModLine
<1>5. ASSUME NEW line \in SwitchLines, joyType = [stick \in 0 .. 1 |-> "none"], ~ gameSwitches.keyboard[line]
      PROVE  SwitchLevel(line) <=> (line = 2 \/ ~ gameSwitches.apple2e)
  <2>1. ~ gameSwitches.connector[line] /\ gameSwitches.plug = {}
    BY <1>0, <1>5 DEF LinesInv, PulldownMask
  <2>2. Pulldowns = IF gameSwitches.apple2e THEN {0, 1} ELSE {}
    BY <2>1 DEF Pulldowns
  <2>3. CASE line = 2 /\ gameSwitches.mod
    BY <1>5, <2>3 DEF SwitchLevel, ShiftModLine
  <2>4. CASE ~ (line = 2 /\ gameSwitches.mod)
    <3>1. SwitchLevel(line) <=> line \notin Pulldowns
      BY <1>5, <2>1, <2>4 DEF SwitchLevel, ShiftModLine
    <3>2. line \in {0, 1} \/ line = 2
      BY DEF SwitchLines
    <3>. QED BY <2>2, <3>1, <3>2
  <2>. QED BY <2>3, <2>4
<1>. QED BY <1>2, <1>3, <1>4, <1>5 DEF PortFollowsTheHand, PortShowsTheHand

\* The queues of the buttons and the paddles' pulses, over any session: the invariant
\* the next theorem rests on.
THEOREM PortIsInductive == PortSpec => []PortInv
BY PortStarts, PortStepKeeps, PTL DEF PortSpec

\* No click and no movement of the player passes the program unseen.
THEOREM PortsFollowTheHand == PortSpec => []PortFollowsTheHand
BY PortIsInductive, PortInvShows, PTL

----------------------------------------------------------------------------
(* The block device *)

VolumeFits(v) ==
  /\ DOMAIN v = {"image", "as", "protect"}
  /\ v.image # NoImage => v.image \in Images /\ v.as = VolumeOpened(v.image) /\ v.as.error = "none"

\* The registers of the controller: an image's block fills the buffer.
RegistersFit(c) ==
  /\ DOMAIN c = {"unit", "command", "block", "buffer", "index", "phase", "poisoned", "result", "count"}
  /\ c.unit \in Volumes /\ c.block \in BlockNumbers \cup {0}
  /\ c.buffer = <<c.buffer[1], c.buffer[2]>>

\* How far a call is, and what of it the controller shows: whatever its buffer holds, which
\* no save state keeps.
CallFits(c, k) ==
  /\ DOMAIN k = {"step", "cmd", "drive", "block", "data", "got", "answer", "content", "stale", "number"}
  /\ k.step \in {"push", "execute"} => c.block \in BlockNumbers
  /\ k.step = "push" => /\ k.cmd = "write"
                        /\ \/ k.got = <<>> /\ c.index = 0
                           \/ k.got = <<k.data>> /\ c.index = 1 /\ c.phase = "write_in"
  /\ k.step = "execute" => /\ k.cmd \in {"status", "read", "write"}
                           /\ k.cmd = "write" => c.phase = "write_in"
  /\ k.step = "pull" => /\ k.cmd = "read"
                        /\ k.content = <<k.content[1], k.content[2]>>
                        /\ \/ k.got = <<>> /\ c.index = 0
                           \/ /\ k.got = <<k.got[1]>> /\ c.index = 1
                              /\ k.stale \/ k.got[1] = k.content[1]
  /\ k.step = "done" /\ k.answer = "ok" /\ k.cmd = "write" => k.content = <<k.data, k.data>>
  /\ k.step = "done" /\ k.answer = "ok" /\ k.cmd = "read" /\ ~ k.stale => k.got = k.content

\* What is in the buffer: what was pushed, unless a load came between, or what was read.
BufferFits(c, k) ==
  /\ k.step = "push" /\ k.got # <<>> /\ ~ c.poisoned => c.buffer[1] = k.data
  /\ k.step = "execute" /\ k.cmd = "write" /\ ~ c.poisoned => c.buffer = <<k.data, k.data>>
  /\ k.step = "pull" /\ ~ k.stale => c.buffer = k.content

FilesFit ==
  /\ DOMAIN files = Images
  /\ \A image \in Images :
       /\ DOMAIN files[image] = SectorsUsed
       /\ image.packed \/ ~ image.writable => \A s \in SectorsUsed : files[image][s] = 0
       /\ VolumeOpened(image).error = "none" =>
            \A b \in BlockNumbers :
               b < VolumeOpened(image).blocks =>
                 LET content == BlockContent(files[image], VolumeOpened(image).order, b)
                 IN  content[1] # content[2] => <<image, b>> \in torn

BlockInv ==
  /\ DOMAIN volumes = Volumes /\ \A d \in Volumes : VolumeFits(volumes[d])
  /\ RegistersFit(controller) /\ CallFits(controller, call) /\ BufferFits(controller, call)
  /\ FilesFit
  /\ blockKept.none \in BOOLEAN
  /\ ~ blockKept.none => /\ RegistersFit(blockKept.controller)
                         /\ CallFits(blockKept.controller, blockKept.call)

LEMMA DosTable ==
  \A k \in 0 .. 7, h \in {0, 1} :
     DosSectorsOfBlock[1 + k][1 + h] =
       IF k = 0 THEN 14 * h ELSE IF k = 7 THEN 1 + 14 * h ELSE 15 - 2 * k - h
<1>. SUFFICES ASSUME NEW k \in 0 .. 7, NEW h \in {0, 1}
              PROVE  DosSectorsOfBlock[1 + k][1 + h] =
                       IF k = 0 THEN 14 * h ELSE IF k = 7 THEN 1 + 14 * h ELSE 15 - 2 * k - h
  OBVIOUS
<1>. DEFINE row == DosSectorsOfBlock[1 + k]
<1>1. row = <<row[1], row[2]>> /\ row[1] = (IF k = 0 THEN 0 ELSE IF k = 7 THEN 1 ELSE 15 - 2 * k)
      /\ row[2] = (IF k = 0 THEN 14 ELSE IF k = 7 THEN 15 ELSE 14 - 2 * k)
  <2>1. CASE k = 0 BY <2>1 DEF DosSectorsOfBlock
  <2>2. CASE k = 1 BY <2>2 DEF DosSectorsOfBlock
  <2>3. CASE k = 2 BY <2>3 DEF DosSectorsOfBlock
  <2>4. CASE k = 3 BY <2>4 DEF DosSectorsOfBlock
  <2>5. CASE k = 4 BY <2>5 DEF DosSectorsOfBlock
  <2>6. CASE k = 5 BY <2>6 DEF DosSectorsOfBlock
  <2>7. CASE k = 6 BY <2>7 DEF DosSectorsOfBlock
  <2>8. CASE k = 7 BY <2>8 DEF DosSectorsOfBlock
  <2>. QED BY <2>1, <2>2, <2>3, <2>4, <2>5, <2>6, <2>7, <2>8
<1>. HIDE DEF row
<1>2. CASE h = 0 BY <1>1, <1>2 DEF row
<1>3. CASE h = 1 BY <1>1, <1>3 DEF row
<1>. QED BY <1>2, <1>3

\* No two halves of blocks share a sector.
LEMMA HalvesApart ==
  ASSUME NEW order, NEW a \in Nat, NEW b \in Nat, NEW g \in {0, 1}, NEW h \in {0, 1},
         BlockSector(order, a, g) = BlockSector(order, b, h)
  PROVE  a = b /\ g = h
<1>1. CASE order # "dos"
  <2>1. 2 * a + g = 2 * b + h
    BY <1>1 DEF BlockSector
  <2>. QED BY <2>1
<1>2. CASE order = "dos"
  <2>. DEFINE Slot(k, i) == IF k = 0 THEN 14 * i ELSE IF k = 7 THEN 1 + 14 * i ELSE 15 - 2 * k - i
  <2>1. PICK s, t, x, y : s = a \div 8 /\ x = a % 8 /\ t = b \div 8 /\ y = b % 8
    OBVIOUS
  <2>2. /\ s \in Nat /\ x \in 0 .. 7 /\ a = 8 * s + x
        /\ t \in Nat /\ y \in 0 .. 7 /\ b = 8 * t + y
    BY <2>1
  <2>3. 16 * s + Slot(x, g) = 16 * t + Slot(y, h)
    BY <1>2, <2>1, <2>2, DosTable DEF BlockSector
  <2>4. Slot(x, g) \in 0 .. 15 /\ Slot(y, h) \in 0 .. 15
    BY <2>2
  <2>5. s = t /\ Slot(x, g) = Slot(y, h)
    <3>. HIDE DEF Slot
    <3>. QED BY <2>2, <2>3, <2>4
  <2>6. x = y /\ g = h
    BY <2>2, <2>5
  <2>. QED BY <2>2, <2>5, <2>6
<1>. QED BY <1>1, <1>2

LEMMA LeastOfFour ==
  ASSUME NEW S \in SUBSET (1 .. 4), S # {}, NEW i, i = CHOOSE k \in S : \A j \in S : k <= j
  PROVE  i \in S /\ \A j \in S : i <= j
<1>1. \E k \in S : \A j \in S : k <= j
  <2>1. CASE 1 \in S BY <2>1
  <2>2. CASE 1 \notin S /\ 2 \in S BY <2>2
  <2>3. CASE 1 \notin S /\ 2 \notin S /\ 3 \in S BY <2>3
  <2>4. CASE 1 \notin S /\ 2 \notin S /\ 3 \notin S
    <3>1. ASSUME NEW j \in S PROVE j = 4
      <4>1. j \in 1 .. 4 /\ j # 1 /\ j # 2 /\ j # 3
        BY <2>4
      <4>. QED BY <4>1
    <3>2. PICK k : k \in S
      OBVIOUS
    <3>. QED BY <3>1, <3>2
  <2>. QED BY <2>1, <2>2, <2>3, <2>4
<1>. QED BY <1>1

\* The driver found claims the image, and as definitely as any before it.
LEMMA BestClaims ==
  ASSUME NEW image, FindBestDriver(image) # "none"
  PROVE  \E i \in 1 .. 4 :
           /\ FindBestDriver(image) = Drivers[i]
           /\ Probe(Drivers[i], image) \in {"definite", "possible"}
           /\ \A j \in 1 .. 4 : Probe(Drivers[j], image) = "definite" =>
                                   Probe(Drivers[i], image) = "definite" /\ i <= j
<1>. DEFINE Claiming(kind) == {i \in 1 .. 4 : Probe(Drivers[i], image) = kind}
            best == IF Claiming("definite") # {} THEN Claiming("definite") ELSE Claiming("possible")
<1>1. FindBestDriver(image) =
        IF best = {} THEN "none" ELSE Drivers[CHOOSE i \in best : \A j \in best : i <= j]
  BY DEF FindBestDriver
<1>2. best \in SUBSET (1 .. 4)
  OBVIOUS
<1>3. \A i \in best : Probe(Drivers[i], image) \in {"definite", "possible"}
  OBVIOUS
<1>4. ASSUME NEW i \in best, \A j \in best : i <= j, NEW m \in 1 .. 4, Probe(Drivers[m], image) = "definite"
      PROVE  Probe(Drivers[i], image) = "definite" /\ i <= m
  BY <1>4
<1>. HIDE DEF best
<1>5. PICK i : i = CHOOSE k \in best : \A j \in best : k <= j
  OBVIOUS
<1>6. best # {} /\ FindBestDriver(image) = Drivers[i]
  BY <1>1, <1>5
<1>7. i \in best /\ \A j \in best : i <= j
  BY <1>2, <1>5, <1>6, LeastOfFour
<1>. QED BY <1>2, <1>3, <1>4, <1>6, <1>7

LEMMA DriversAre ==
  Drivers[1] = "2MG" /\ Drivers[2] = "DOS Order" /\ Drivers[3] = "Nibble image" /\ Drivers[4] = "ProDOS Order"
BY DEF Drivers

LEMMA BlockImageFields ==
  ASSUME NEW image, NEW order, NEW blocks, NEW begin, NEW locked, NEW as,
         as = BlockImage(image, order, blocks, begin, locked)
  PROVE  /\ as.order = order /\ as.blocks = blocks /\ as.begin = begin
         /\ image.packed \/ ~ image.writable => as.readOnly
<1>1. PICK r : r = (locked \/ image.packed \/ ~ image.writable)
  OBVIOUS
<1>2. as = [error |-> "none", order |-> order, blocks |-> blocks, begin |-> begin, readOnly |-> r]
  BY <1>1 DEF BlockImage
<1>3. as.order = order /\ as.blocks = blocks /\ as.begin = begin /\ as.readOnly = r
  BY <1>2
<1>4. image.packed \/ ~ image.writable => r
  BY <1>1
<1>. QED BY <1>3, <1>4

\* What a served image is served as.
LEMMA ServedFits ==
  ASSUME NEW image \in Images, NEW as, as = VolumeOpened(image), as.error = "none"
  PROVE  /\ as.order \in {"dos", "prodos"} /\ as.blocks \in Int
         /\ image.magic = "none" /\ Cardinality(image.reads) = 1 => as.order \in image.reads
         /\ as.begin + as.blocks * BlockSize <= image.size
         /\ image.magic = "2IMG" =>
              \A chunk \in {image.header.comment, image.header.creator} :
                 \/ chunk.length = 0
                 \/ chunk.offset >= as.begin + as.blocks * BlockSize
                 \/ chunk.offset + chunk.length <= as.begin
         /\ image.packed \/ ~ image.writable => as.readOnly
<1>. DEFINE driver == FindBestDriver(image)
<1>1. /\ image.size \in Nat /\ image.magic \in {"none", "2IMG", "WOZ"}
      /\ image.reads \subseteq {"dos", "prodos"} /\ (image.reads # {} => image.size = DosSize)
  BY BlockDeviceAssumption DEF DosSize, DosBlocks, BlockSize
<1>2. as = CASE driver = "none" -> NotServed("invalid_format")
             [] driver = "Nibble image" -> NotServed("not_block_image")
             [] driver = "2MG" -> TwoImgOpened(image)
             [] driver = "DOS Order" -> BlockImage(image, "dos", DosBlocks, 0, FALSE)
             [] driver = "ProDOS Order" -> ProDosOpened(image)
  BY DEF VolumeOpened
<1>3. ASSUME NEW error, error # "none" PROVE NotServed(error).error # "none"
  BY <1>3 DEF NotServed
<1>4. driver # "none" /\ driver # "Nibble image"
  BY <1>2, <1>3
<1>5. PICK i \in 1 .. 4 :
         /\ driver = Drivers[i]
         /\ Probe(Drivers[i], image) \in {"definite", "possible"}
         /\ \A j \in 1 .. 4 : Probe(Drivers[j], image) = "definite" =>
                                 Probe(Drivers[i], image) = "definite" /\ i <= j
  BY <1>4, BestClaims
<1>. HIDE DEF driver
<1>6. /\ Probe(Drivers[1], image) = TwoImgProbe(image) /\ Probe(Drivers[2], image) = DosProbe(image)
      /\ Probe(Drivers[4], image) = ProDosProbe(image)
  BY DriversAre DEF Probe
<1>7. image.magic = "2IMG" <=> driver = "2MG"
  <2>1. ASSUME image.magic = "2IMG" PROVE driver = "2MG"
    <3>1. Probe(Drivers[1], image) = "definite"
      BY <1>6, <2>1 DEF TwoImgProbe
    <3>2. i = 1
      BY <1>5, <3>1
    <3>. QED BY <1>5, <3>2, DriversAre
  <2>2. ASSUME image.magic # "2IMG", driver = "2MG" PROVE FALSE
    <3>1. i = 1
      <4>1. i = 1 \/ i = 2 \/ i = 3 \/ i = 4
        OBVIOUS
      <4>. QED BY <1>5, <2>2, <4>1, DriversAre
    <3>. QED BY <1>5, <1>6, <2>2, <3>1 DEF TwoImgProbe
  <2>. QED BY <2>1, <2>2
<1>8. ASSUME NEW order, NEW blocks, NEW begin, NEW locked, as = BlockImage(image, order, blocks, begin, locked)
      PROVE  /\ as.order = order /\ as.blocks = blocks /\ as.begin = begin
             /\ image.packed \/ ~ image.writable => as.readOnly
  BY <1>8, BlockImageFields
<1>9. CASE driver = "2MG"
  <2>. DEFINE parsed == TwoImg(image)
  <2>1. image.magic = "2IMG"
    BY <1>7, <1>9
  <2>2. as = IF parsed.blocks = 0 THEN NotServed("invalid_format")
             ELSE BlockImage(image, parsed.order, parsed.blocks, parsed.begin, image.header.locked)
    BY <1>2, <1>9 DEF TwoImgOpened
  <2>. HIDE DEF parsed
  <2>3. parsed.blocks # 0
    BY <1>3, <2>2
  <2>4. /\ as.order = parsed.order /\ as.blocks = parsed.blocks /\ as.begin = parsed.begin
        /\ image.packed \/ ~ image.writable => as.readOnly
    BY <1>8, <2>2, <2>3
  <2>. DEFINE h == image.header
              begin == IF h.data_offset = 0 THEN h.header_size ELSE h.data_offset
              named == IF h.data_length = 0 /\ h.format = "prodos"
                       THEN h.block_count * BlockSize ELSE h.data_length
              length == IF named = 0 THEN image.size - begin ELSE named
              agrees == h.format = "prodos" /\ h.block_count # 0 /\ h.data_length # 0 =>
                          h.block_count * BlockSize = h.data_length
              sound == /\ h.header_size \in TwoImgLeast .. image.size
                       /\ begin \in h.header_size .. image.size
                       /\ agrees
                       /\ length > 0 /\ length % BlockSize = 0 /\ begin + length <= image.size
                       /\ h.format = "dos" => length = DosSize
                       /\ h.format \in {"dos", "prodos"}
                       /\ \A chunk \in {h.comment, h.creator} :
                             ChunkIsPlaced(begin + length, image.size, chunk)
  <2>5. parsed = IF sound THEN [begin |-> begin, blocks |-> length \div BlockSize, order |-> h.format]
                 ELSE [begin |-> 0, blocks |-> 0, order |-> "none"]
    BY DEF TwoImg, parsed
  <2>6. h.header_size \in Nat /\ h.data_offset \in Nat /\ h.data_length \in Nat /\ h.block_count \in Nat
    BY <2>1, BlockDeviceAssumption
  <2>7. begin \in Nat /\ named \in Nat /\ length \in Int
    BY <1>1, <2>6 DEF BlockSize
  <2>. HIDE DEF begin, length
  <2>8. sound
    <3>. HIDE DEF sound
    <3>. QED BY <2>3, <2>5
  <2>9. parsed.begin = begin /\ parsed.blocks = length \div BlockSize /\ parsed.order = h.format
    <3>. HIDE DEF sound
    <3>. QED BY <2>5, <2>8
  <2>10. /\ length % BlockSize = 0 /\ begin + length <= image.size /\ h.format \in {"dos", "prodos"}
         /\ \A chunk \in {h.comment, h.creator} : ChunkIsPlaced(begin + length, image.size, chunk)
    BY <2>8
  <2>. HIDE DEF sound
  <2>11. parsed.blocks * BlockSize = length
    BY <2>7, <2>9, <2>10 DEF BlockSize
  <2>12. as.begin + as.blocks * BlockSize = begin + length
    BY <2>4, <2>9, <2>11
  <2>13. as.blocks \in Int
    BY <2>4, <2>7, <2>9 DEF BlockSize
  <2>. QED BY <2>1, <2>4, <2>9, <2>10, <2>12, <2>13 DEF ChunkIsPlaced
<1>10. CASE driver = "DOS Order"
  <2>1. as = BlockImage(image, "dos", DosBlocks, 0, FALSE)
    BY <1>2, <1>10
  <2>2. /\ as.order = "dos" /\ as.blocks = DosBlocks /\ as.begin = 0
        /\ image.packed \/ ~ image.writable => as.readOnly
    BY <1>8, <2>1
  <2>3. i = 2
    <3>1. i = 1 \/ i = 2 \/ i = 3 \/ i = 4
      OBVIOUS
    <3>. QED BY <1>5, <1>10, <3>1, DriversAre
  <2>4. DosProbe(image) \in {"definite", "possible"}
    BY <1>5, <1>6, <2>3
  <2>5. image.size = DosSize
    BY <2>4 DEF DosProbe, Signature
  <2>6. image.magic # "2IMG"
    BY <1>7, <1>10
  <2>7. Cardinality(image.reads) = 1 => "dos" \in image.reads
    <3>. SUFFICES ASSUME Cardinality(image.reads) = 1, "dos" \notin image.reads PROVE FALSE
      OBVIOUS
    <3>1. image.reads # {}
      BY FS_EmptySet
    <3>2. "prodos" \in image.reads
      BY <1>1, <3>1
    <3>3. Probe(Drivers[4], image) = "definite"
      BY <1>6, <2>5, <3>2 DEF ProDosProbe, Signature
    <3>4. DosProbe(image) = "definite"
      BY <1>5, <1>6, <2>3, <3>3
    <3>. QED BY <3>4, <2>5 DEF DosProbe, Signature
  <2>. QED BY <2>2, <2>5, <2>6, <2>7 DEF DosSize, DosBlocks, BlockSize
<1>11. CASE driver = "ProDOS Order"
  <2>1. as = BlockImage(image, "prodos", image.size \div BlockSize, 0, FALSE)
    <3>1. as = ProDosOpened(image)
      BY <1>2, <1>11
    <3>2. as # NotServed("invalid_format")
      BY <1>3
    <3>. QED BY <3>1, <3>2 DEF ProDosOpened
  <2>2. /\ as.order = "prodos" /\ as.blocks = image.size \div BlockSize /\ as.begin = 0
        /\ image.packed \/ ~ image.writable => as.readOnly
    BY <1>8, <2>1
  <2>3. i = 4
    <3>1. i = 1 \/ i = 2 \/ i = 3 \/ i = 4
      OBVIOUS
    <3>. QED BY <1>5, <1>11, <3>1, DriversAre
  <2>4. image.magic # "2IMG"
    BY <1>7, <1>11
  <2>5. 0 + (image.size \div 512) * 512 <= image.size /\ image.size \div 512 \in Int
    BY <1>1
  <2>6. Cardinality(image.reads) = 1 => "prodos" \in image.reads
    <3>. SUFFICES ASSUME Cardinality(image.reads) = 1, "prodos" \notin image.reads PROVE FALSE
      OBVIOUS
    <3>1. image.reads # {}
      BY FS_EmptySet
    <3>2. "dos" \in image.reads /\ image.size = DosSize
      BY <1>1, <3>1
    <3>3. Probe(Drivers[2], image) = "definite"
      BY <1>6, <3>2 DEF DosProbe, Signature
    <3>. QED BY <1>5, <2>3, <3>3
  <2>. QED BY <2>2, <2>4, <2>5, <2>6 DEF BlockSize
<1>. QED
  <2>1. i = 1 \/ i = 2 \/ i = 3 \/ i = 4
    OBVIOUS
  <2>2. driver \in {"2MG", "DOS Order", "Nibble image", "ProDOS Order"}
    BY <1>5, <2>1, DriversAre
  <2>. QED BY <1>4, <1>9, <1>10, <1>11, <2>2

LEMMA SectorsAreUsed ==
  ASSUME NEW order \in {"dos", "prodos"}, NEW b \in BlockNumbers, NEW h \in {0, 1}
  PROVE  BlockSector(order, b, h) \in SectorsUsed
BY DEF SectorsUsed

\* What a write, whole or torn, leaves in the file.
LEMMA WriteBlockKeeps ==
  ASSUME BlockInv, NEW c, RegistersFit(c), c.block \in BlockNumbers, Loaded(c.unit), ~ Protected(c.unit),
         c.block < volumes[c.unit].as.blocks, c.buffer[1] = c.buffer[2],
         NEW written \in {<<>>, << 0 >>, <<0, 1>>}, WriteBlock(c, written)
  PROVE  /\ FilesFit'
         /\ written = <<0, 1>> =>
              BlockContent(files'[volumes[c.unit].image], volumes[c.unit].as.order, c.block) = c.buffer
<1>. DEFINE v == volumes[c.unit]
            order == v.as.order
            Sector(h) == BlockSector(order, c.block, h)
            new == [s \in SectorsUsed |->
                      IF \E i \in 1 .. Len(written) : Sector(written[i]) = s
                      THEN c.buffer[1 + CHOOSE h \in {0, 1} : Sector(h) = s] ELSE files[v.image][s]]
            half == <<v.image, c.block>>
<1>1. /\ files' = [files EXCEPT ![v.image] = new]
      /\ torn' = IF written = << 0 >> /\ c.buffer[1] # BlockOn(c.unit, c.block)[2]
                 THEN torn \cup {half} ELSE IF written = <<0, 1>> THEN torn \ {half} ELSE torn
  BY DEF WriteBlock
<1>2. v.image \in Images /\ v.as = VolumeOpened(v.image) /\ v.as.error = "none"
  BY DEF BlockInv, VolumeFits, RegistersFit, Loaded
<1>3. order \in {"dos", "prodos"} /\ ~ v.image.packed /\ v.image.writable
  <2>1. v.image.packed \/ ~ v.image.writable => v.as.readOnly
    BY <1>2, ServedFits
  <2>2. ~ v.as.readOnly
    BY DEF Protected
  <2>. QED BY <1>2, <2>1, <2>2, ServedFits
<1>4. DOMAIN files = Images /\ BlockNumbers \subseteq Nat
  BY BlockDeviceAssumption DEF BlockInv, FilesFit
<1>5. /\ DOMAIN files' = Images /\ files'[v.image] = new
      /\ \A image \in Images : image # v.image => files'[image] = files[image]
  <2>. HIDE DEF new
  <2>. QED BY <1>1, <1>2, <1>4
<1>. DEFINE Written(h) == \E i \in 1 .. Len(written) : written[i] = h
<1>6. ASSUME NEW b \in BlockNumbers, NEW h \in {0, 1}
      PROVE  new[BlockSector(order, b, h)] =
               IF b = c.block /\ Written(h) THEN c.buffer[1 + h] ELSE files[v.image][BlockSector(order, b, h)]
  <2>. DEFINE s == BlockSector(order, b, h)
  <2>1. s \in SectorsUsed
    BY <1>3, SectorsAreUsed
  <2>2. \A i \in 1 .. Len(written) : written[i] \in {0, 1}
    OBVIOUS
  <2>3. ASSUME NEW g \in {0, 1}, Sector(g) = s PROVE b = c.block /\ g = h
    <3>1. PICK o : o = order
      OBVIOUS
    <3>2. b \in Nat /\ c.block \in Nat /\ o \in {"dos", "prodos"}
      BY <1>3, <1>4, <3>1
    <3>3. BlockSector(o, c.block, g) = BlockSector(o, b, h)
      BY <2>3, <3>1
    <3>. HIDE DEF order
    <3>. QED BY <3>2, <3>3, HalvesApart
  <2>4. CASE b = c.block /\ Written(h)
    <3>1. PICK i \in 1 .. Len(written) : written[i] = h
      BY <2>4
    <3>2. Sector(written[i]) = s
      BY <2>4, <3>1
    <3>3. (CHOOSE g \in {0, 1} : Sector(g) = s) = h
      <4>. HIDE DEF Sector, s
      <4>1. Sector(h) = s
        BY <2>4 DEF Sector, s
      <4>. QED BY <2>3, <4>1
    <3>4. new[s] = c.buffer[1 + h]
      <4>. HIDE DEF Sector, s
      <4>. QED BY <2>1, <3>2, <3>3
    <3>. QED BY <2>4, <3>4
  <2>5. CASE ~ (b = c.block /\ Written(h))
    <3>1. ~ \E i \in 1 .. Len(written) : Sector(written[i]) = s
      <4>. HIDE DEF Sector, s
      <4>. QED BY <2>2, <2>3, <2>5
    <3>. QED
      <4>. HIDE DEF Sector, s
      <4>1. new[s] = files[v.image][s]
        BY <2>1, <3>1
      <4>. QED BY <2>5, <4>1 DEF s
  <2>. QED BY <2>4, <2>5
<1>7. DOMAIN new = SectorsUsed
  OBVIOUS
<1>. HIDE DEF new
<1>8. ASSUME NEW b \in BlockNumbers, b # c.block
      PROVE  BlockContent(files'[v.image], order, b) = BlockContent(files[v.image], order, b)
  BY <1>5, <1>6, <1>8 DEF BlockContent
<1>9. /\ written = <<>> => ~ Written(0) /\ ~ Written(1)
      /\ written = << 0 >> => Written(0) /\ ~ Written(1)
      /\ written = <<0, 1>> => Written(0) /\ Written(1)
  <2>1. ASSUME written = <<>> PROVE ~ Written(0) /\ ~ Written(1)
    BY <2>1
  <2>2. ASSUME written = << 0 >> PROVE Written(0) /\ ~ Written(1)
    <3>1. Len(written) = 1 /\ written[1] = 0 /\ 1 .. 1 = {1}
      BY <2>2
    <3>. QED BY <3>1
  <2>3. ASSUME written = <<0, 1>> PROVE Written(0) /\ Written(1)
    <3>1. 1 \in 1 .. Len(written) /\ 2 \in 1 .. Len(written) /\ written[1] = 0 /\ written[2] = 1
      BY <2>3
    <3>. QED BY <3>1
  <2>. QED BY <2>1, <2>2, <2>3
<1>. HIDE DEF Written
<1>. DEFINE old == BlockContent(files[v.image], order, c.block)
            content == BlockContent(files'[v.image], order, c.block)
<1>10. /\ written = <<>> => content = old
       /\ written = << 0 >> => content = <<c.buffer[1], old[2]>>
       /\ written = <<0, 1>> => content = c.buffer
  <2>1. /\ content = <<new[Sector(0)], new[Sector(1)]>>
        /\ old = <<files[v.image][Sector(0)], files[v.image][Sector(1)]>>
    BY <1>5 DEF BlockContent
  <2>2. /\ new[Sector(0)] = IF Written(0) THEN c.buffer[1] ELSE files[v.image][Sector(0)]
        /\ new[Sector(1)] = IF Written(1) THEN c.buffer[2] ELSE files[v.image][Sector(1)]
    BY <1>6
  <2>3. c.buffer = <<c.buffer[1], c.buffer[2]>>
    BY DEF RegistersFit
  <2>. HIDE DEF content, old, Sector
  <2>4. written = <<>> => content = old
    BY <1>9, <2>1, <2>2
  <2>5. written = << 0 >> => content = <<c.buffer[1], old[2]>>
    BY <1>9, <2>1, <2>2
  <2>6. written = <<0, 1>> => content = c.buffer
    BY <1>9, <2>1, <2>2, <2>3
  <2>. QED BY <2>4, <2>5, <2>6
<1>11. /\ BlockOn(c.unit, c.block) = old
       /\ old[1] # old[2] => half \in torn
  <2>1. c.block < VolumeOpened(v.image).blocks
    BY <1>2
  <2>. QED BY <1>2, <2>1 DEF BlockOn, BlockInv, FilesFit
<1>12. torn \subseteq torn' \cup {half} /\ (content[1] # content[2] => half \in torn')
  <2>. HIDE DEF half, content, old
  <2>1. CASE written = <<>>
    <3>1. written # << 0 >> /\ written # <<0, 1>>
      BY <2>1
    <3>. QED BY <1>1, <1>10, <1>11, <2>1, <3>1
  <2>2. CASE written = << 0 >>
    <3>1. written # <<0, 1>> /\ content[1] = c.buffer[1] /\ content[2] = old[2]
      BY <1>10, <2>2
    <3>. QED BY <1>1, <1>11, <2>2, <3>1
  <2>3. CASE written = <<0, 1>>
    <3>1. written # << 0 >> /\ content[1] = content[2]
      BY <1>10, <2>3
    <3>. QED BY <1>1, <2>3, <3>1
  <2>. QED BY <2>1, <2>2, <2>3
<1>. HIDE DEF old
<1>13. ASSUME NEW image \in Images
       PROVE  /\ DOMAIN files'[image] = SectorsUsed
              /\ image.packed \/ ~ image.writable => \A s \in SectorsUsed : files'[image][s] = 0
  BY <1>3, <1>5, <1>7 DEF BlockInv, FilesFit
<1>14. ASSUME NEW image \in Images, VolumeOpened(image).error = "none", NEW b \in BlockNumbers,
              b < VolumeOpened(image).blocks
       PROVE  LET now == BlockContent(files'[image], VolumeOpened(image).order, b)
              IN  now[1] # now[2] => <<image, b>> \in torn'
  <2>. DEFINE was == BlockContent(files[image], VolumeOpened(image).order, b)
              now == BlockContent(files'[image], VolumeOpened(image).order, b)
  <2>1. was[1] # was[2] => <<image, b>> \in torn
    BY <1>14 DEF BlockInv, FilesFit
  <2>2. CASE image = v.image /\ b = c.block
    BY <1>2, <1>12, <2>2
  <2>3. CASE ~ (image = v.image /\ b = c.block)
    <3>1. now = was
      BY <1>2, <1>5, <1>8, <2>3
    <3>2. <<image, b>> # half
      BY <2>3
    <3>. HIDE DEF was, now, half, content
    <3>. QED BY <1>12, <2>1, <3>1, <3>2 DEF now
  <2>. QED BY <2>2, <2>3
<1>. QED BY <1>5, <1>10, <1>13, <1>14 DEF FilesFit

LEMMA Paired ==
  ASSUME NEW a, NEW b PROVE Append(<<a>>, b) = <<a, b>>
<1>. DEFINE S == {a, b}
            t == Append(<<a>>, b)
<1>1. <<a>> \in Seq(S) /\ b \in S
  OBVIOUS
<1>2. t \in Seq(S) /\ Len(t) = 2 /\ t[1] = a /\ t[2] = b
  <2>. HIDE DEF S
  <2>1. Len(<<a>>) = 1 /\ 1 \in 1 .. Len(<<a>>) /\ <<a>>[1] = a
    OBVIOUS
  <2>. QED BY <1>1, <2>1, AppendProperties
<1>3. <<a, b>> \in Seq(S) /\ Len(<<a, b>>) = 2 /\ <<a, b>>[1] = a /\ <<a, b>>[2] = b
  OBVIOUS
<1>. HIDE DEF t, S
<1>4. t = <<a, b>>
  <2>1. \A i \in 1 .. 2 : t[i] = <<a, b>>[i]
    <3>1. \A i \in 1 .. 2 : i = 1 \/ i = 2
      OBVIOUS
    <3>. QED BY <1>2, <1>3, <3>1
  <2>. QED BY <1>2, <1>3, <2>1, SeqEqual
<1>. QED BY <1>4 DEF t

\* What the host does to the drives.
LEMMA DrivesFit ==
  ASSUME BlockInv, Insert \/ Eject \/ SetProtect
  PROVE  DOMAIN volumes' = Volumes /\ \A d \in Volumes : VolumeFits(volumes'[d])
<1>1. /\ DOMAIN volumes = Volumes
      /\ \A d \in Volumes : VolumeFits(volumes[d])
  BY DEF BlockInv
<1>2. ASSUME NEW image \in Images, NEW v, v = InsertedVolume(image, FALSE) PROVE VolumeFits(v)
  <2>1. PICK as : as = VolumeOpened(image)
    OBVIOUS
  <2>2. PICK r : r = FALSE
    OBVIOUS
  <2>3. v = [image |-> IF as.error = "none" THEN image ELSE NoImage, as |-> as, protect |-> r]
    BY <1>2, <2>1, <2>2 DEF InsertedVolume
  <2>4. v.image = (IF as.error = "none" THEN image ELSE NoImage) /\ v.as = as
    BY <2>3
  <2>5. DOMAIN v = {"image", "as", "protect"}
    BY <2>3
  <2>. QED BY <2>1, <2>4, <2>5 DEF VolumeFits
<1>3. ASSUME NEW v, v = EmptyVolume PROVE VolumeFits(v)
  BY <1>3 DEF EmptyVolume, VolumeFits
<1>4. ASSUME NEW v, VolumeFits(v), NEW w, w = [v EXCEPT !.protect = ~@] PROVE VolumeFits(w)
  <2>1. PICK r : r = ~ v.protect
    OBVIOUS
  <2>2. w = [v EXCEPT !.protect = r]
    BY <1>4, <2>1
  <2>3. DOMAIN w = DOMAIN v /\ w.image = v.image /\ w.as = v.as
    BY <2>2
  <2>. QED BY <1>4, <2>3 DEF VolumeFits
<1>5. ASSUME NEW e \in Volumes, NEW new, VolumeFits(new), volumes' = [volumes EXCEPT ![e] = new]
      PROVE  DOMAIN volumes' = Volumes /\ \A d \in Volumes : VolumeFits(volumes'[d])
  <2>1. /\ DOMAIN volumes' = Volumes /\ volumes'[e] = new
        /\ \A d \in Volumes : d # e => volumes'[d] = volumes[d]
    BY <1>1, <1>5
  <2>2. ASSUME NEW d \in Volumes PROVE VolumeFits(volumes'[d])
    <3>1. CASE d = e
      BY <1>5, <2>1, <3>1
    <3>2. CASE d # e
      BY <1>1, <2>1, <3>2
    <3>. QED BY <3>1, <3>2
  <2>. QED BY <2>1, <2>2
<1>6. CASE Insert
  <2>1. PICK e \in Volumes, image \in Images :
          volumes' = [volumes EXCEPT ![e] = InsertedVolume(image, FALSE)]
    BY <1>6 DEF Insert
  <2>2. PICK new : new = InsertedVolume(image, FALSE)
    OBVIOUS
  <2>. QED BY <1>2, <1>5, <2>1, <2>2
<1>7. CASE Eject
  <2>1. PICK e \in Volumes : volumes' = [volumes EXCEPT ![e] = EmptyVolume]
    BY <1>7 DEF Eject
  <2>2. PICK new : new = EmptyVolume
    OBVIOUS
  <2>. QED BY <1>3, <1>5, <2>1, <2>2
<1>8. CASE SetProtect
  <2>1. PICK e \in Volumes : volumes' = [volumes EXCEPT ![e].protect = ~@]
    BY <1>8 DEF SetProtect
  <2>2. PICK new : new = [volumes[e] EXCEPT !.protect = ~@]
    OBVIOUS
  <2>3. volumes' = [volumes EXCEPT ![e] = new]
    BY <2>1, <2>2
  <2>. QED BY <1>1, <1>4, <1>5, <2>2, <2>3
<1>. QED BY <1>6, <1>7, <1>8

\* The driver starts a call: the unit port closes whatever phase the buffer was in.
LEMMA BeginCallFits ==
  ASSUME BlockInv, BeginCall
  PROVE  /\ RegistersFit(controller') /\ CallFits(controller', call')
         /\ BufferFits(controller', call')
<1>1. PICK cmd \in {"status", "read", "write"}, d \in Volumes, b \in BlockNumbers :
        /\ call' = [NoCall EXCEPT !.step = IF cmd = "write" THEN "push" ELSE "execute",
                                  !.cmd = cmd, !.drive = d, !.block = b,
                                  !.data = call.number + 1, !.number = call.number + 1]
        /\ controller' = [controller EXCEPT !.unit = d, !.index = 0, !.phase = "idle", !.block = b]
  BY DEF BeginCall
<1>2. RegistersFit(controller)
  BY DEF BlockInv
<1>3. /\ DOMAIN controller' = DOMAIN controller
      /\ controller'.unit = d /\ controller'.index = 0 /\ controller'.block = b
      /\ controller'.buffer = controller.buffer
  BY <1>1, <1>2 DEF RegistersFit
<1>4. RegistersFit(controller')
  BY <1>2, <1>3 DEF RegistersFit
<1>5. PICK n, o, r : n = call.number + 1 /\ o = (IF cmd = "write" THEN "push" ELSE "execute") /\ r = FALSE
  OBVIOUS
<1>6. call' = [step |-> o, cmd |-> cmd, drive |-> d, block |-> b, data |-> n,
               got |-> <<>>, answer |-> "ok", content |-> <<>>, stale |-> r, number |-> n]
  BY <1>1, <1>5 DEF NoCall
<1>7. /\ DOMAIN call' = {"step", "cmd", "drive", "block", "data", "got", "answer", "content", "stale", "number"}
      /\ call'.step = o /\ call'.cmd = cmd /\ call'.got = <<>>
  BY <1>6
<1>8. CallFits(controller', call')
  BY <1>3, <1>5, <1>7 DEF CallFits
<1>9. BufferFits(controller', call')
  BY <1>5, <1>7 DEF BufferFits
<1>. QED BY <1>4, <1>8, <1>9

LEMMA PushHalfFits ==
  ASSUME BlockInv, PushHalf
  PROVE  /\ RegistersFit(controller') /\ CallFits(controller', call')
         /\ BufferFits(controller', call')
<1>. DEFINE c == controller
            k == call
<1>1. /\ RegistersFit(c) /\ CallFits(c, k) /\ BufferFits(c, k)
      /\ k.step = "push"
  BY DEF BlockInv, PushHalf
<1>2. PICK value, buffer, got, step :
        /\ value = k.data /\ buffer = [c.buffer EXCEPT ![c.index + 1] = value]
        /\ got = Append(k.got, value)
        /\ step = IF Len(k.got) = 1 THEN "execute" ELSE "push"
  OBVIOUS
<1>3. /\ controller' = [c EXCEPT !.buffer = buffer, !.index = (@ + 1) % 2, !.phase = "write_in"]
      /\ call' = [k EXCEPT !.got = got, !.step = step]
  BY <1>2 DEF PushHalf, Pushed
<1>4. /\ DOMAIN controller' = DOMAIN c /\ controller'.unit = c.unit /\ controller'.block = c.block
      /\ controller'.poisoned = c.poisoned /\ controller'.phase = "write_in"
      /\ controller'.buffer = buffer /\ controller'.index = (c.index + 1) % 2
  BY <1>1, <1>3 DEF RegistersFit
<1>5. /\ DOMAIN call' = DOMAIN k /\ call'.cmd = k.cmd /\ call'.data = value
      /\ call'.got = got /\ call'.step = step
  BY <1>1, <1>2, <1>3 DEF CallFits
<1>. DEFINE x == c.buffer[1]
            y == c.buffer[2]
<1>6. c.buffer = <<x, y>> /\ k.cmd = "write" /\ c.block \in BlockNumbers
  BY <1>1 DEF RegistersFit, CallFits
<1>. HIDE DEF x, y
<1>7. CASE k.got = <<>> /\ c.index = 0
  <2>1. got = <<value>> /\ step = "push"
    <3>1. got = <<value>>
      BY <1>2, <1>7
    <3>2. Len(k.got) = 0
      BY <1>7
    <3>. QED BY <1>2, <3>1, <3>2
  <2>2. buffer = <<value, y>> /\ controller'.index = 1
    <3>1. buffer = <<value, y>>
      BY <1>2, <1>6, <1>7
    <3>. QED BY <1>4, <1>7, <3>1
  <2>3. RegistersFit(controller')
    BY <1>1, <1>4, <2>2 DEF RegistersFit
  <2>4. CallFits(controller', call')
    BY <1>1, <1>4, <1>5, <1>6, <2>1, <2>2 DEF CallFits
  <2>5. buffer[1] = value
    BY <2>2
  <2>6. BufferFits(controller', call')
    BY <1>4, <1>5, <2>1, <2>5 DEF BufferFits
  <2>. QED BY <2>3, <2>4, <2>6
<1>8. CASE k.got = <<k.data>> /\ c.index = 1
  <2>1. step = "execute"
    <3>1. Len(k.got) = 1
      BY <1>8
    <3>. QED BY <1>2, <3>1
  <2>2. buffer = <<x, value>>
    BY <1>2, <1>6, <1>8
  <2>3. ~ c.poisoned => x = value
    <3>1. k.got # <<>>
      BY <1>8
    <3>. QED BY <1>1, <1>2, <3>1 DEF BufferFits, x
  <2>4. RegistersFit(controller')
    BY <1>1, <1>4, <2>2 DEF RegistersFit
  <2>5. CallFits(controller', call')
    BY <1>1, <1>4, <1>5, <1>6, <2>1 DEF CallFits
  <2>6. BufferFits(controller', call')
    BY <1>4, <1>5, <2>1, <2>2, <2>3 DEF BufferFits
  <2>. QED BY <2>4, <2>5, <2>6
<1>. QED BY <1>1, <1>7, <1>8 DEF CallFits

LEMMA PullHalfFits ==
  ASSUME BlockInv, PullHalf
  PROVE  /\ RegistersFit(controller') /\ CallFits(controller', call')
         /\ BufferFits(controller', call')
<1>. DEFINE c == controller
            k == call
<1>1. /\ RegistersFit(c) /\ CallFits(c, k) /\ BufferFits(c, k)
      /\ k.step = "pull"
  BY DEF BlockInv, PullHalf
<1>2. PICK value, next, phase, got, step :
        /\ value = c.buffer[c.index + 1] /\ next = (c.index + 1) % 2
        /\ phase = (IF c.phase = "read_out" /\ next = 0 THEN "idle" ELSE c.phase)
        /\ got = Append(k.got, value)
        /\ step = IF Len(k.got) = 1 THEN "done" ELSE "pull"
  OBVIOUS
<1>3. /\ controller' = [c EXCEPT !.index = next, !.phase = phase]
      /\ call' = [k EXCEPT !.got = got, !.step = step]
  BY <1>2 DEF PullHalf
<1>4. /\ DOMAIN controller' = DOMAIN c /\ controller'.unit = c.unit /\ controller'.block = c.block
      /\ controller'.buffer = c.buffer /\ controller'.index = next
  BY <1>1, <1>3 DEF RegistersFit
<1>5. /\ DOMAIN call' = DOMAIN k /\ call'.cmd = k.cmd /\ call'.content = k.content
      /\ call'.stale = k.stale /\ call'.got = got /\ call'.step = step
  BY <1>1, <1>3 DEF CallFits
<1>6. /\ RegistersFit(controller') /\ k.cmd = "read"
      /\ k.content = <<k.content[1], k.content[2]>> /\ c.buffer = <<c.buffer[1], c.buffer[2]>>
      /\ ~ k.stale => c.buffer = k.content
  BY <1>1, <1>4 DEF RegistersFit, CallFits, BufferFits
<1>7. CASE k.got = <<>> /\ c.index = 0
  <2>1. got = <<c.buffer[1]>> /\ next = 1 /\ step = "pull"
    <3>1. value = c.buffer[1] /\ next = 1 /\ Len(k.got) = 0
      BY <1>2, <1>7
    <3>. QED BY <1>2, <1>7, <3>1
  <2>2. got[1] = c.buffer[1] /\ got = <<got[1]>>
    BY <2>1
  <2>3. CallFits(controller', call')
    BY <1>1, <1>4, <1>5, <1>6, <2>1, <2>2 DEF CallFits
  <2>4. BufferFits(controller', call')
    BY <1>4, <1>5, <1>6, <2>1 DEF BufferFits
  <2>. QED BY <1>6, <2>3, <2>4
<1>8. CASE k.got = <<k.got[1]>> /\ c.index = 1 /\ (k.stale \/ k.got[1] = k.content[1])
  <2>1. PICK g : g = k.got[1]
    OBVIOUS
  <2>2. k.got = <<g>>
    BY <1>8, <2>1
  <2>3. step = "done" /\ value = c.buffer[2]
    <3>1. Len(k.got) = 1
      BY <2>2
    <3>. QED BY <1>2, <1>8, <3>1
  <2>4. got = <<g, c.buffer[2]>>
    <3>1. got = Append(<<g>>, value)
      BY <1>2, <2>2
    <3>2. got = <<g, value>>
      BY <3>1, Paired
    <3>. QED BY <2>3, <3>2
  <2>5. ~ k.stale => got = k.content
    BY <1>6, <1>8, <2>1, <2>4
  <2>6. CallFits(controller', call')
    BY <1>1, <1>5, <1>6, <2>3, <2>5 DEF CallFits
  <2>7. BufferFits(controller', call')
    BY <1>5, <2>3 DEF BufferFits
  <2>. QED BY <1>6, <2>6, <2>7
<1>. QED BY <1>1, <1>7, <1>8 DEF CallFits

\* Reset: power_on leaves the buffer.
LEMMA BlockResetFits ==
  ASSUME BlockInv, BlockReset
  PROVE  /\ RegistersFit(controller') /\ CallFits(controller', call')
         /\ BufferFits(controller', call')
<1>1. /\ controller' = [PowerOn EXCEPT !.buffer = controller.buffer]
      /\ call' = [NoCall EXCEPT !.number = call.number]
  BY DEF BlockReset
<1>2. controller.buffer = <<controller.buffer[1], controller.buffer[2]>>
  BY DEF BlockInv, RegistersFit
<1>3. /\ DOMAIN controller' = {"unit", "command", "block", "buffer", "index", "phase", "poisoned", "result", "count"}
      /\ controller'.unit = 0 /\ controller'.block = 0 /\ controller'.buffer = controller.buffer
  BY <1>1 DEF PowerOn
<1>4. /\ DOMAIN call' = {"step", "cmd", "drive", "block", "data", "got", "answer", "content", "stale", "number"}
      /\ call'.step = "none"
  BY <1>1 DEF NoCall
<1>5. RegistersFit(controller')
  BY <1>2, <1>3 DEF RegistersFit, Volumes
<1>6. CallFits(controller', call') /\ BufferFits(controller', call')
  BY <1>4 DEF CallFits, BufferFits
<1>. QED BY <1>5, <1>6

\* What a save state holds fits, whatever the buffer it leaves out held.
LEMMA BlockSaveFits ==
  ASSUME BlockInv, BlockSave
  PROVE  /\ blockKept'.none \in BOOLEAN
         /\ RegistersFit(blockKept'.controller)
         /\ CallFits(blockKept'.controller, blockKept'.call)
<1>1. PICK c, r : c = [controller EXCEPT !.buffer = <<0, 0>>] /\ r = FALSE
  OBVIOUS
<1>2. blockKept' = [none |-> r, controller |-> c, call |-> call]
  BY <1>1 DEF BlockSave
<1>3. blockKept'.none = r /\ blockKept'.controller = c /\ blockKept'.call = call
  BY <1>2
<1>4. RegistersFit(controller) /\ CallFits(controller, call)
  BY DEF BlockInv
<1>5. /\ DOMAIN c = DOMAIN controller /\ c.unit = controller.unit /\ c.block = controller.block
      /\ c.index = controller.index /\ c.phase = controller.phase /\ c.buffer = <<0, 0>>
  BY <1>1, <1>4 DEF RegistersFit
<1>6. RegistersFit(c)
  BY <1>4, <1>5 DEF RegistersFit
<1>7. CallFits(c, call)
  BY <1>4, <1>5 DEF CallFits
<1>. QED BY <1>1, <1>3, <1>6, <1>7

\* A load: the buffer is what the drive holds now, or is not to be trusted.
LEMMA BlockLoadFits ==
  ASSUME BlockInv, BlockLoad
  PROVE  /\ RegistersFit(controller') /\ CallFits(controller', call')
         /\ BufferFits(controller', call')
<1>1. PICK c, k : c = blockKept.controller /\ k = blockKept.call
  OBVIOUS
<1>2. RegistersFit(c) /\ CallFits(c, k)
  BY <1>1 DEF BlockLoad, BlockInv
<1>3. PICK yes, no : yes = TRUE /\ no = FALSE
  OBVIOUS
<1>4. controller' = LoadedController(c)
  BY <1>1 DEF BlockLoad
<1>5. /\ DOMAIN controller' = DOMAIN c /\ controller'.unit = c.unit /\ controller'.block = c.block
      /\ controller'.index = c.index /\ controller'.phase = c.phase
      /\ c.phase = "write_in" => controller'.poisoned
      /\ controller'.buffer = <<controller'.buffer[1], controller'.buffer[2]>>
  <2>1. CASE c.phase = "read_out" /\ Loaded(c.unit) /\ c.block < volumes[c.unit].as.blocks
    <3>1. PICK buffer : buffer = BlockOn(c.unit, c.block)
      OBVIOUS
    <3>2. controller' = [c EXCEPT !.poisoned = no, !.buffer = buffer]
      BY <1>3, <1>4, <2>1, <3>1 DEF LoadedController
    <3>3. buffer = <<buffer[1], buffer[2]>>
      BY <3>1 DEF BlockOn, BlockContent
    <3>4. /\ DOMAIN controller' = DOMAIN c /\ controller'.unit = c.unit /\ controller'.block = c.block
          /\ controller'.index = c.index /\ controller'.phase = c.phase
          /\ controller'.buffer = buffer
      BY <1>2, <3>2 DEF RegistersFit
    <3>. QED BY <2>1, <3>3, <3>4
  <2>2. CASE ~ (c.phase = "read_out" /\ Loaded(c.unit) /\ c.block < volumes[c.unit].as.blocks)
    <3>1. PICK p : p = (c.phase = "write_in")
      OBVIOUS
    <3>2. controller' = [c EXCEPT !.poisoned = p]
      <4>1. CASE c.phase = "write_in"
        <5>1. controller' = [c EXCEPT !.poisoned = TRUE]
          BY <1>4, <2>2, <4>1 DEF LoadedController
        <5>2. p = yes
          BY <1>3, <3>1, <4>1
        <5>. QED BY <1>3, <5>1, <5>2
      <4>2. CASE c.phase # "write_in"
        <5>1. controller' = [c EXCEPT !.poisoned = FALSE]
          BY <1>4, <2>2, <4>2 DEF LoadedController
        <5>2. p = no
          BY <1>3, <3>1, <4>2
        <5>. QED BY <1>3, <5>1, <5>2
      <4>. QED BY <4>1, <4>2
    <3>3. /\ DOMAIN controller' = DOMAIN c /\ controller'.unit = c.unit /\ controller'.block = c.block
          /\ controller'.index = c.index /\ controller'.phase = c.phase
          /\ controller'.buffer = c.buffer /\ controller'.poisoned = p
      BY <1>2, <3>2 DEF RegistersFit
    <3>. QED BY <1>2, <3>1, <3>3 DEF RegistersFit
  <2>. QED BY <2>1, <2>2
<1>6. PICK n, stale : n = call.number
                   /\ stale = (k.stale \/ (k.step = "pull" /\ controller'.buffer # k.content))
  OBVIOUS
<1>7. call' = [k EXCEPT !.number = n, !.stale = stale]
  BY <1>1, <1>6 DEF BlockLoad
<1>8. /\ DOMAIN call' = DOMAIN k /\ call'.step = k.step /\ call'.cmd = k.cmd /\ call'.got = k.got
      /\ call'.data = k.data /\ call'.answer = k.answer /\ call'.content = k.content
      /\ call'.stale = stale
  BY <1>2, <1>7 DEF CallFits
<1>9. /\ k.stale => stale
      /\ k.step = "pull" /\ ~ stale => controller'.buffer = k.content
  BY <1>6
<1>10. RegistersFit(controller')
  BY <1>2, <1>5 DEF RegistersFit
<1>11. CallFits(controller', call')
  BY <1>2, <1>5, <1>8, <1>9 DEF CallFits
<1>12. BufferFits(controller', call')
  <2>1. call'.step = "push" /\ call'.got # <<>> => controller'.poisoned
    BY <1>2, <1>5, <1>8 DEF CallFits
  <2>2. call'.step = "execute" /\ call'.cmd = "write" => controller'.poisoned
    BY <1>2, <1>5, <1>8 DEF CallFits
  <2>3. call'.step = "pull" /\ ~ call'.stale => controller'.buffer = call'.content
    BY <1>8, <1>9
  <2>. QED BY <2>1, <2>2, <2>3 DEF BufferFits
<1>. QED BY <1>10, <1>11, <1>12

\* A call is carried out: what it answers, what it leaves in the buffer and in the file.
LEMMA ExecuteFits ==
  ASSUME BlockInv, ExecuteCall
  PROVE  /\ RegistersFit(controller') /\ CallFits(controller', call')
         /\ BufferFits(controller', call') /\ FilesFit'
<1>1. /\ RegistersFit(controller) /\ CallFits(controller, call) /\ BufferFits(controller, call)
      /\ FilesFit /\ call.step = "execute" /\ UNCHANGED volumes
  BY DEF BlockInv, ExecuteCall
<1>2. PICK c : c = [controller EXCEPT !.command = call.cmd]
  OBVIOUS
<1>3. Execute(c)
  BY <1>2 DEF ExecuteCall
<1>4. /\ DOMAIN c = DOMAIN controller /\ c.command = call.cmd /\ c.unit = controller.unit
      /\ c.block = controller.block /\ c.buffer = controller.buffer
      /\ c.poisoned = controller.poisoned
  BY <1>1, <1>2 DEF RegistersFit
<1>5. /\ RegistersFit(c) /\ c.block \in BlockNumbers
      /\ c.command \in {"status", "read", "write"}
      /\ c.command = "write" /\ ~ c.poisoned => c.buffer = <<call.data, call.data>>
  BY <1>1, <1>4 DEF RegistersFit, CallFits, BufferFits
<1>. DEFINE d == c.unit
            v == volumes[d]
<1>6. PICK reply, got, content, step :
        /\ reply = controller'.result /\ got = <<>>
        /\ content = IF ~ Loaded(d) THEN <<>>
                     ELSE BlockContent(files'[v.image], v.as.order, c.block)
        /\ step = IF controller'.result = "ok" /\ call.cmd = "read" THEN "pull" ELSE "done"
  OBVIOUS
<1>7. call' = [call EXCEPT !.answer = reply, !.got = got, !.content = content, !.step = step]
  BY <1>4, <1>6 DEF ExecuteCall
<1>8. /\ DOMAIN call' = DOMAIN call /\ call'.cmd = call.cmd /\ call'.data = call.data
      /\ call'.stale = call.stale /\ call'.answer = reply /\ call'.got = <<>>
      /\ call'.content = content /\ call'.step = step
  BY <1>1, <1>6, <1>7 DEF CallFits
<1>9. ASSUME UNCHANGED <<files, torn>> PROVE FilesFit'
  BY <1>1, <1>9 DEF FilesFit
\* Anything but a read that is served, or a write that is flushed, only answers.
<1>10. ASSUME controller'.buffer = c.buffer, RegistersFit(controller'),
              ~ (controller'.result = "ok" /\ c.command \in {"read", "write"})
       PROVE  CallFits(controller', call') /\ BufferFits(controller', call')
  <2>1. step = "done" /\ ~ (reply = "ok" /\ call'.cmd \in {"read", "write"})
    BY <1>4, <1>6, <1>8, <1>10
  <2>2. CallFits(controller', call')
    BY <1>1, <1>8, <2>1 DEF CallFits
  <2>3. BufferFits(controller', call')
    BY <1>8, <2>1 DEF BufferFits
  <2>. QED BY <2>2, <2>3
<1>11. ASSUME NEW new, DOMAIN new = DOMAIN c, new.unit = c.unit, new.block = c.block,
              new.buffer = c.buffer
       PROVE  RegistersFit(new)
  BY <1>5, <1>11 DEF RegistersFit
<1>12. CASE Refusal(c) # "ok"
  <2>1. PICK refusal, p : /\ refusal = Refusal(c)
                          /\ p = (c.poisoned /\ ~(c.command = "write" /\ refusal = "io"
                                                    /\ Loaded(d) /\ c.block < volumes[d].as.blocks))
    OBVIOUS
  <2>2. /\ controller' = [c EXCEPT !.result = refusal, !.poisoned = p]
        /\ UNCHANGED <<files, torn>>
    BY <1>3, <1>12, <2>1 DEF Execute
  <2>3. /\ DOMAIN controller' = DOMAIN c /\ controller'.unit = c.unit
        /\ controller'.block = c.block /\ controller'.buffer = c.buffer
        /\ controller'.result = refusal
    BY <1>5, <2>2 DEF RegistersFit
  <2>4. RegistersFit(controller')
    BY <1>11, <2>3
  <2>. QED BY <1>9, <1>10, <1>12, <2>1, <2>2, <2>3, <2>4
<1>13. CASE Refusal(c) = "ok" /\ c.command = "status"
  <2>1. PICK n : n = MinCount(volumes[d].as.blocks)
    OBVIOUS
  <2>2. /\ controller' = [c EXCEPT !.result = "ok", !.count = n]
        /\ UNCHANGED <<files, torn>>
    BY <1>3, <1>13, <2>1 DEF Execute
  <2>3. /\ DOMAIN controller' = DOMAIN c /\ controller'.unit = c.unit
        /\ controller'.block = c.block /\ controller'.buffer = c.buffer
    BY <1>5, <2>2 DEF RegistersFit
  <2>4. RegistersFit(controller')
    BY <1>11, <2>3
  <2>. QED BY <1>9, <1>10, <1>13, <2>2, <2>3, <2>4
<1>14. CASE Refusal(c) = "ok" /\ c.command = "read"
  <2>. DEFINE buffer == BlockOn(d, c.block)
  <2>1. /\ \/ controller' = [c EXCEPT !.result = "ok", !.index = 0, !.phase = "read_out",
                                      !.buffer = buffer]
           \/ controller' = [c EXCEPT !.result = "io"]
        /\ UNCHANGED <<files, torn>>
    BY <1>3, <1>14 DEF Execute
  <2>2. Loaded(d)
    BY <1>14 DEF Refusal
  <2>3. content = buffer /\ buffer = <<buffer[1], buffer[2]>>
    BY <1>6, <2>1, <2>2 DEF BlockOn, BlockContent
  <2>. HIDE DEF buffer
  <2>4. CASE controller' = [c EXCEPT !.result = "ok", !.index = 0, !.phase = "read_out",
                                     !.buffer = buffer]
    <3>1. /\ DOMAIN controller' = DOMAIN c /\ controller'.unit = c.unit
          /\ controller'.block = c.block /\ controller'.buffer = buffer
          /\ controller'.index = 0 /\ controller'.result = "ok"
      BY <1>5, <2>4 DEF RegistersFit
    <3>2. RegistersFit(controller')
      BY <1>5, <2>3, <3>1 DEF RegistersFit
    <3>3. step = "pull" /\ call'.cmd = "read"
      BY <1>4, <1>6, <1>8, <1>14, <3>1
    <3>4. CallFits(controller', call')
      BY <1>1, <1>8, <2>3, <3>1, <3>3 DEF CallFits
    <3>5. BufferFits(controller', call')
      BY <1>8, <2>3, <3>1, <3>3 DEF BufferFits
    <3>. QED BY <1>9, <2>1, <3>2, <3>4, <3>5
  <2>5. CASE controller' = [c EXCEPT !.result = "io"]
    <3>1. /\ DOMAIN controller' = DOMAIN c /\ controller'.unit = c.unit
          /\ controller'.block = c.block /\ controller'.buffer = c.buffer
          /\ controller'.result = "io"
      BY <1>5, <2>5 DEF RegistersFit
    <3>2. RegistersFit(controller')
      BY <1>11, <3>1
    <3>. QED BY <1>9, <1>10, <2>1, <3>1, <3>2
  <2>. QED BY <2>1, <2>4, <2>5
<1>15. CASE Refusal(c) = "ok" /\ c.command = "write"
  <2>1. PICK written \in {<<>>, << 0 >>, <<0, 1>>}, flushed \in BOOLEAN :
          /\ WriteBlock(c, written) /\ (flushed => written = <<0, 1>>)
          /\ controller' = IF flushed THEN [c EXCEPT !.result = "ok", !.index = 0, !.phase = "idle"]
                           ELSE [c EXCEPT !.result = "io"]
    BY <1>3, <1>15 DEF Execute
  <2>2. Loaded(d) /\ ~ Protected(d) /\ ~ (c.block >= v.as.blocks) /\ ~ c.poisoned
    BY <1>15 DEF Refusal
  <2>3. c.buffer = <<call.data, call.data>>
    BY <1>5, <1>15, <2>2
  <2>4. c.block < v.as.blocks
    <3>1. v.as = VolumeOpened(v.image) /\ v.as.error = "none" /\ v.image \in Images
      BY <1>5, <2>2 DEF BlockInv, VolumeFits, RegistersFit, Loaded
    <3>2. v.as.blocks \in Int /\ c.block \in Int
      <4>1. PICK image, as : image = v.image /\ as = v.as
        OBVIOUS
      <4>2. as.blocks \in Int
        BY <3>1, <4>1, ServedFits
      <4>3. v.as.blocks \in Int
        <5>. HIDE DEF v
        <5>. QED BY <4>1, <4>2
      <4>4. c.block \in Int
        <5>1. BlockNumbers \subseteq Nat
          BY BlockDeviceAssumption
        <5>2. PICK n : n = c.block
          OBVIOUS
        <5>3. n \in BlockNumbers
          BY <1>5, <5>2
        <5>4. n \in Nat
          BY <5>1, <5>3
        <5>5. \A m \in Nat : m \in Int
          OBVIOUS
        <5>. QED BY <5>2, <5>4, <5>5
      <4>. QED BY <4>3, <4>4
    <3>. QED BY <2>2, <3>2
  <2>5. /\ FilesFit'
        /\ written = <<0, 1>> => BlockContent(files'[v.image], v.as.order, c.block) = c.buffer
    <3>1. c.buffer[1] = c.buffer[2]
      BY <2>3
    <3>. QED BY <1>5, <2>1, <2>2, <2>4, <3>1, WriteBlockKeeps
  <2>6. CASE flushed
    <3>1. controller' = [c EXCEPT !.result = "ok", !.index = 0, !.phase = "idle"]
      BY <2>1, <2>6
    <3>2. /\ DOMAIN controller' = DOMAIN c /\ controller'.unit = c.unit
          /\ controller'.block = c.block /\ controller'.buffer = c.buffer
      BY <1>5, <3>1 DEF RegistersFit
    <3>3. RegistersFit(controller')
      BY <1>11, <3>2
    <3>4. step = "done" /\ call'.cmd = "write" /\ content = <<call.data, call.data>>
      BY <1>4, <1>6, <1>8, <1>15, <2>1, <2>2, <2>3, <2>5, <2>6
    <3>5. CallFits(controller', call')
      BY <1>1, <1>8, <3>4 DEF CallFits
    <3>6. BufferFits(controller', call')
      BY <1>8, <3>4 DEF BufferFits
    <3>. QED BY <2>5, <3>3, <3>5, <3>6
  <2>7. CASE ~ flushed
    <3>1. controller' = [c EXCEPT !.result = "io"]
      BY <2>1, <2>7
    <3>2. /\ DOMAIN controller' = DOMAIN c /\ controller'.unit = c.unit
          /\ controller'.block = c.block /\ controller'.buffer = c.buffer
          /\ controller'.result = "io"
      BY <1>5, <3>1 DEF RegistersFit
    <3>3. RegistersFit(controller')
      BY <1>11, <3>2
    <3>. QED BY <1>10, <2>5, <3>2, <3>3
  <2>. QED BY <2>6, <2>7
<1>. QED BY <1>5, <1>12, <1>13, <1>14, <1>15

LEMMA BlocksStart ==
  BlockInit => BlockInv
<1>. SUFFICES ASSUME BlockInit PROVE BlockInv
  OBVIOUS
<1>1. PICK image \in Images :
        /\ VolumeOpened(image).error = "none"
        /\ volumes = [d \in Volumes |-> IF d = 0 THEN InsertedVolume(image, FALSE) ELSE EmptyVolume]
  BY DEF BlockInit
<1>2. DOMAIN volumes = Volumes /\ \A d \in Volumes : VolumeFits(volumes[d])
  <2>1. PICK as, r : as = VolumeOpened(image) /\ r = FALSE
    OBVIOUS
  <2>2. PICK v : v = InsertedVolume(image, FALSE)
    OBVIOUS
  <2>3. v = [image |-> image, as |-> as, protect |-> r]
    BY <1>1, <2>1, <2>2 DEF InsertedVolume
  <2>4. VolumeFits(v)
    <3>1. v.image = image /\ v.as = as /\ DOMAIN v = {"image", "as", "protect"}
      BY <2>3
    <3>. QED BY <1>1, <2>1, <3>1 DEF VolumeFits
  <2>5. VolumeFits(EmptyVolume)
    BY DEF VolumeFits, EmptyVolume
  <2>6. /\ DOMAIN volumes = Volumes
        /\ \A d \in Volumes : volumes[d] = v \/ volumes[d] = EmptyVolume
    BY <1>1, <2>2
  <2>7. ASSUME NEW d \in Volumes PROVE VolumeFits(volumes[d])
    BY <2>4, <2>5, <2>6
  <2>. QED BY <2>6, <2>7
<1>3. RegistersFit(controller)
  BY DEF BlockInit, PowerOn, RegistersFit, Volumes
<1>4. CallFits(controller, call) /\ BufferFits(controller, call)
  <2>1. /\ DOMAIN call = {"step", "cmd", "drive", "block", "data", "got", "answer", "content", "stale", "number"}
        /\ call.step = "none"
    BY DEF BlockInit, NoCall
  <2>. QED BY <2>1 DEF CallFits, BufferFits
<1>5. FilesFit
  <2>1. /\ DOMAIN files = Images
        /\ \A i \in Images : DOMAIN files[i] = SectorsUsed /\ \A s \in SectorsUsed : files[i][s] = 0
    BY DEF BlockInit
  <2>2. ASSUME NEW i \in Images, VolumeOpened(i).error = "none", NEW b \in BlockNumbers
        PROVE  LET content == BlockContent(files[i], VolumeOpened(i).order, b)
               IN  content[1] = content[2]
    <3>1. VolumeOpened(i).order \in {"dos", "prodos"}
      BY <2>2, ServedFits
    <3>. QED BY <2>1, <3>1, SectorsAreUsed DEF BlockContent
  <2>. QED BY <2>1, <2>2 DEF FilesFit
<1>6. blockKept.none
  BY DEF BlockInit
<1>7. blockKept.none \in BOOLEAN
  <2>1. PICK r : r = TRUE
    OBVIOUS
  <2>2. blockKept = [none |-> r]
    BY <2>1 DEF BlockInit
  <2>3. blockKept.none = r
    BY <2>2
  <2>. QED BY <2>1, <2>3
<1>. QED BY <1>2, <1>3, <1>4, <1>5, <1>6, <1>7 DEF BlockInv

LEMMA BlocksStep ==
  BlockInv /\ [BlockNext]_blockVars => BlockInv'
<1>. SUFFICES ASSUME BlockInv, [BlockNext]_blockVars PROVE BlockInv'
  OBVIOUS
<1>. DEFINE Drives == DOMAIN volumes = Volumes /\ \A d \in Volumes : VolumeFits(volumes[d])
            Registers == /\ RegistersFit(controller) /\ CallFits(controller, call)
                         /\ BufferFits(controller, call)
            Kept == /\ blockKept.none \in BOOLEAN
                    /\ ~ blockKept.none => /\ RegistersFit(blockKept.controller)
                                           /\ CallFits(blockKept.controller, blockKept.call)
<1>1. UNCHANGED volumes => Drives'
  BY DEF BlockInv
<1>2. UNCHANGED <<controller, call>> => Registers'
  BY DEF BlockInv
<1>3. UNCHANGED <<files, torn>> => FilesFit'
  BY DEF BlockInv, FilesFit
<1>4. UNCHANGED blockKept => Kept'
  BY DEF BlockInv
<1>5. Drives' /\ Registers' /\ FilesFit' /\ Kept' => BlockInv'
  BY DEF BlockInv
<1>. HIDE DEF Drives, Registers, Kept
<1>6. CASE BeginCall
  <2>1. Registers'
    BY <1>6, BeginCallFits DEF Registers
  <2>. QED BY <1>1, <1>3, <1>4, <1>5, <1>6, <2>1 DEF BeginCall
<1>7. CASE PushHalf
  <2>1. Registers'
    BY <1>7, PushHalfFits DEF Registers
  <2>. QED BY <1>1, <1>3, <1>4, <1>5, <1>7, <2>1 DEF PushHalf
<1>8. CASE ExecuteCall
  <2>1. Registers' /\ FilesFit'
    BY <1>8, ExecuteFits DEF Registers
  <2>. QED BY <1>1, <1>4, <1>5, <1>8, <2>1 DEF ExecuteCall
<1>9. CASE PullHalf
  <2>1. Registers'
    BY <1>9, PullHalfFits DEF Registers
  <2>. QED BY <1>1, <1>3, <1>4, <1>5, <1>9, <2>1 DEF PullHalf
<1>10. CASE Insert \/ Eject \/ SetProtect
  <2>1. Drives'
    BY <1>10, DrivesFit DEF Drives
  <2>. QED BY <1>2, <1>3, <1>4, <1>5, <1>10, <2>1 DEF Insert, Eject, SetProtect
<1>11. CASE BlockReset
  <2>1. Registers'
    BY <1>11, BlockResetFits DEF Registers
  <2>. QED BY <1>1, <1>3, <1>4, <1>5, <1>11, <2>1 DEF BlockReset
<1>12. CASE BlockSave
  <2>1. Kept'
    BY <1>12, BlockSaveFits DEF Kept
  <2>. QED BY <1>1, <1>2, <1>3, <1>5, <1>12, <2>1 DEF BlockSave
<1>13. CASE BlockLoad
  <2>1. Registers'
    BY <1>13, BlockLoadFits DEF Registers
  <2>. QED BY <1>1, <1>3, <1>4, <1>5, <1>13, <2>1 DEF BlockLoad
<1>14. CASE UNCHANGED blockVars
  BY <1>1, <1>2, <1>3, <1>4, <1>5, <1>14 DEF blockVars
<1>. QED BY <1>6, <1>7, <1>8, <1>9, <1>10, <1>11, <1>12, <1>13, <1>14 DEF BlockNext

\* The inductive invariant of the block device: each drive shows what its image is served as
\* (harddisk_loader_open), the buffer holds what the driver pushed unless a load came between
\* (harddisk_io_command refuses it then), and a block's halves differ on the image only where
\* a write that was answered with an error left them.
THEOREM BlocksAreInductive ==
  BlockSpec => []BlockInv
<1>. QED BY BlocksStart, BlocksStep, PTL DEF BlockSpec

\* A ProDOS call that is answered without an error is whole, an image is served in the order
\* it reads in and inside its file, and nothing is ever written to one that is read only:
\* for any images, block numbers, resets, saves and loads (harddisk/Harddisk.cpp,
\* HarddiskLoader.cpp and the format drivers).
THEOREM VolumesKeepBlocks ==
  BlockSpec => []VolumesKeepTheirBlocks
<1>1. BlockInv => VolumesKeepTheirBlocks
  <2>. SUFFICES ASSUME BlockInv PROVE VolumesKeepTheirBlocks
    OBVIOUS
  <2>1. BlockCallsAreWhole
    <3>1. CallFits(controller, call) /\ FilesFit
      BY DEF BlockInv
    <3>. QED BY <3>1 DEF BlockCallsAreWhole, CallFits, FilesFit
  <2>2. ServedAsItReads
    <3>. SUFFICES ASSUME NEW d \in Volumes, Loaded(d)
                  PROVE  LET image == volumes[d].image
                             as == volumes[d].as
                             end == as.begin + as.blocks * BlockSize
                         IN /\ image.magic = "none" /\ Cardinality(image.reads) = 1 =>
                                 as.order \in image.reads
                            /\ end <= image.size
                            /\ image.magic = "2IMG" =>
                                 \A chunk \in {image.header.comment, image.header.creator} :
                                    chunk.length = 0 \/ chunk.offset >= end
                                      \/ chunk.offset + chunk.length <= as.begin
                            /\ image.packed \/ ~image.writable =>
                                 \A s \in SectorsUsed : files[image][s] = 0
      BY DEF ServedAsItReads
    <3>. DEFINE image == volumes[d].image
                as == volumes[d].as
    <3>1. image \in Images /\ as = VolumeOpened(image) /\ as.error = "none"
      BY DEF BlockInv, VolumeFits, Loaded
    <3>2. image.packed \/ ~image.writable => \A s \in SectorsUsed : files[image][s] = 0
      BY <3>1 DEF BlockInv, FilesFit
    <3>. HIDE DEF image, as
    <3>3. /\ image.magic = "none" /\ Cardinality(image.reads) = 1 => as.order \in image.reads
          /\ as.begin + as.blocks * BlockSize <= image.size
          /\ image.magic = "2IMG" =>
               \A chunk \in {image.header.comment, image.header.creator} :
                  \/ chunk.length = 0
                  \/ chunk.offset >= as.begin + as.blocks * BlockSize
                  \/ chunk.offset + chunk.length <= as.begin
      BY <3>1, ServedFits
    <3>. QED BY <3>2, <3>3 DEF image, as
  <2>. QED BY <2>1, <2>2 DEF VolumesKeepTheirBlocks
<1>. QED BY <1>1, BlocksAreInductive, PTL


-----------------------------------------------------------------------------
(* The mouse card.  What it owes the firmware at one step follows from     *)
(* where both are in the exchange (Talking): how many bytes the card still *)
(* expects is how many the firmware still has, and the same of the reply.  *)
(* The replies on PB6 and PB7 follow the strobes (Answering) as long as    *)
(* nothing but the card's listener drives them (Wired).                    *)

(* What the card, its ports and the firmware are made of. *)
Points == [x : Int, y : Int]
MouseSources == {"move", "button", "refresh"}
MouseModes == {"on"} \cup MouseSources
MouseBytes == SUBSET Lines

Mice ==
  [mode : SUBSET MouseModes, at : Points, min : Points, max : Points, read : Points, button : BOOLEAN,
   buttonAtRead : BOOLEAN, moved : BOOLEAN, sources : SUBSET MouseSources,
   pending : SUBSET MouseSources,
   irq : BOOLEAN, rate50 : BOOLEAN, period : Nat \ {0}, toTick : Int, shadowA : MouseBytes,
   shadowB : MouseBytes, buffer : [0 .. 7 -> MouseBytes], pos : 0 .. 7, outLen : 1 .. 5, inLen : 0 .. 5,
   replyPos : 0 .. 5]

MouseSides ==
  [out : MouseBytes, ddr : MouseBytes, cr : {{}, {"ddr"}}, in : MouseBytes, c1 : BOOLEAN, c2 : BOOLEAN,
   oc2 : {0, 1}, irq : BOOLEAN]
MousePorts == [a : MouseSides, b : MouseSides]

CallPhases == {"idle", "put", "raise", "sent", "bank", "take", "ack", "acked"}
Calling == [todo : Seq(0 .. 255), replies : Int, heard : Seq(MouseBytes), phase : CallPhases]
Noting == [reading : [at : Points, status : MouseBytes], readSince : BOOLEAN, firstWake : BOOLEAN]

(* The levels of the replies follow the strobes. *)
Answering(m) ==
  /\ 0 \notin m.shadowB
  /\ Busy \in m.shadowB <=> WriteStrobe \in m.shadowB
  /\ ByteReady \in m.shadowB <=> ReadStrobe \notin m.shadowB

(* The lengths are those of the command in the buffer. *)
Measured(m) ==
  /\ m.outLen = CommandOutLen(m.buffer[0]) /\ m.inLen = CommandInLen(m.buffer[0])
  /\ m.replyPos <= m.inLen

(* Port B is turned for the firmware or not at all, and the firmware talks only where it is. *)
Wired(m, p, f) ==
  /\ p.b.in = m.shadowB
  /\ p.b.ddr \in {{}, CardDriven}
  /\ p.b.ddr = CardDriven => p.b.cr = {"ddr"}
  /\ IF f.phase = "idle" THEN WriteStrobe \notin p.b.out /\ ReadStrobe \notin p.b.out
     ELSE p.b.ddr = CardDriven /\ p.b.out \cap CardDriven = m.shadowB \cap CardDriven
  /\ WriteStrobe \in m.shadowB <=> f.phase = "sent"
  /\ ReadStrobe \in m.shadowB <=> f.phase = "acked"

(* What is still to be sent is what the card still expects, and the same of the reply. *)
Sending(m, f, byte, coming) ==
  /\ m.pos = 0 => coming = CommandOutLen(byte) /\ f.replies = CommandInLen(byte)
  /\ m.pos # 0 => m.pos + coming = m.outLen /\ f.replies = m.inLen /\ m.replyPos = 0

Replying(m, f) == m.pos = 0 /\ f.todo = <<>> /\ m.replyPos < m.inLen /\ f.replies = m.inLen - m.replyPos

Talking(m, f) ==
  /\ f.phase = "idle" => m.pos = 0 /\ f.heard = <<>>
  /\ f.phase = "put" => f.heard = <<>> /\ f.todo # <<>>
       /\ Sending(m, f, ByteOf(Head(f.todo)), Len(f.todo))
  /\ f.phase \in {"raise", "sent"} => f.heard = <<>> /\ Sending(m, f, m.shadowA, Len(f.todo) + 1)
  /\ f.phase \in {"bank", "take"} => Replying(m, f) /\ Len(f.heard) = m.replyPos
  /\ f.phase \in {"ack", "acked"} => Replying(m, f) /\ Len(f.heard) = m.replyPos + 1

(* One reading: in the buffer, on port A and heard. *)
ReadingOf(n) ==
  <<LowByte(n.reading.at.x), HighByte(n.reading.at.x),
    LowByte(n.reading.at.y), HighByte(n.reading.at.y), n.reading.status>>

Reads(m, p, f, n) ==
  Named(m.buffer[0]) = "read" =>
    /\ \A i \in 1 .. Len(f.heard) : f.heard[i] = ReadingOf(n)[i]
    /\ f.phase \in {"bank", "take", "ack", "acked"} => \A i \in 1 .. 5 : m.buffer[i] = ReadingOf(n)[i]
    /\ f.phase \in {"bank", "take"} => p.a.in = m.buffer[m.replyPos + 1]

(* Sources and the latch. *)
Accounted(m, n) ==
  /\ m.sources # {} => m.irq
  /\ m.irq => m.sources # {} \/ n.readSince
  /\ m.toTick <= m.period

CardFits(m, p, f, n) ==
  /\ m \in Mice /\ p \in MousePorts /\ f \in Calling /\ n \in Noting
  /\ Answering(m) /\ Measured(m) /\ Wired(m, p, f) /\ Talking(m, f) /\ Reads(m, p, f, n)
       /\ Accounted(m, n)

HostKnows ==
  /\ mouseHost = [line |-> mouse.irq, wake |-> mouseHost.wake, bank |-> mouse.shadowB \cap Bank]
  /\ ~notes.firstWake => mouseHost.wake = mouse.toTick

KeptFits ==
  ~mouseKept.none => CardFits(mouseKept.card, mouseKept.ports, mouseKept.firmware, mouseKept.notes)

MouseInv == CardFits(mouse, ports, firmware, notes) /\ HostKnows /\ KeptFits

LEMMA BytesAre ==
  ASSUME NEW n
  PROVE  ByteOf(n) \in MouseBytes /\ LowByte(n) \in MouseBytes /\ HighByte(n) \in MouseBytes
BY DEF ByteOf, LowByte, HighByte, MouseBytes

LEMMA WordsAre ==
  ASSUME NEW low, NEW high
  PROVE  WordOf(low, high) \in Int
<1>1. SumOfBits(low) \in Int /\ SumOfBits(high) \in Int
  BY DEF SumOfBits
<1>. QED BY <1>1 DEF WordOf

(* The names of the command that is also matched whole, and the lengths. *)
LEMMA PeekIsNamed == Named(Peek) = "peek" /\ Named(Poke) = "peek"
<1>1. Peek \ (0 .. 3) = {4, 5, 6, 7} /\ Poke \ (0 .. 3) = {4, 5, 6, 7}
  BY DEF Peek, Poke
<1>2. SumOfBits({4, 5, 6, 7}) = 240
  BY DEF SumOfBits
<1>3. Group(Peek) = 15 /\ Group(Poke) = 15
  BY <1>1, <1>2 DEF Group
<1>. QED BY <1>3 DEF Named, GroupName

LEMMA Lengths ==
  ASSUME NEW b
  PROVE  /\ CommandOutLen(b) \in 1 .. 5 /\ CommandInLen(b) \in 0 .. 5
         /\ CommandOutLen(b) + CommandInLen(b) <= 6
         /\ Named(b) = "read" => CommandOutLen(b) = 1 /\ CommandInLen(b) = 5
<1>1. Named(b) = "peek" \/ (b # Peek /\ b # Poke)
  BY PeekIsNamed
<1>2. CommandOutLen(b) \in 1 .. 5
  BY <1>1 DEF CommandOutLen
<1>3. CommandInLen(b) \in 0 .. 5
  BY <1>1 DEF CommandInLen
<1>4. Named(b) = "read" => CommandOutLen(b) = 1 /\ CommandInLen(b) = 5
  BY <1>1 DEF CommandOutLen, CommandInLen
<1>5. CommandOutLen(b) + CommandInLen(b) <= 6
  BY <1>1 DEF CommandOutLen, CommandInLen
<1>. QED BY <1>2, <1>3, <1>4, <1>5

(* What the firmware and the program look at, and a tick leaves alone. *)
SameTalk(m, t) ==
  /\ t.shadowA = m.shadowA /\ t.shadowB = m.shadowB /\ t.buffer = m.buffer /\ t.pos = m.pos
  /\ t.outLen = m.outLen /\ t.inLen = m.inLen /\ t.replyPos = m.replyPos

SameHand(m, t) ==
  t.at = m.at /\ t.moved = m.moved /\ t.button = m.button /\ t.buttonAtRead = m.buttonAtRead

(* No source is dropped in silence. *)
NoneDropped(m, t) ==
  /\ t.sources # {} => t.irq
  /\ t.irq => t.sources # {} \/ (m.irq /\ m.sources = {})
  /\ t.toTick <= t.period

LEMMA FiredIs ==
  ASSUME NEW m \in Mice, NEW t, t = Fired(m)
  PROVE  /\ t \in Mice /\ SameTalk(m, t) /\ SameHand(m, t) /\ t.period = m.period
         /\ (m.sources # {} => m.irq) => (t.sources # {} => t.irq)
         /\ t.irq => t.sources # {} \/ (m.irq /\ m.sources = {})
<1>1. PICK r \in SUBSET MouseSources : r = Reportable(m)
  BY DEF Reportable, MoveOrButton, Mice, MouseSources
<1>2. CASE r = {}
  <2>1. t = [m EXCEPT !.pending = {}]
    BY <1>1, <1>2 DEF Fired
  <2>. QED BY <2>1 DEF Mice, SameTalk, SameHand
<1>3. CASE r # {}
  <2>1. t = [m EXCEPT !.pending = {}, !.sources = m.sources \cup r, !.irq = TRUE]
    BY <1>1, <1>3 DEF Fired
  <2>2. m.sources \cup r \in SUBSET MouseSources /\ m.sources \cup r # {}
    BY <1>1, <1>3 DEF Mice
  <2>. QED BY ZenonT(60), <2>1, <2>2 DEF Mice, SameTalk, SameHand
<1>. QED BY <1>2, <1>3

LEMMA TickedIs ==
  ASSUME NEW m \in Mice, m.sources # {} => m.irq, NEW t, t = MouseTicked(m)
  PROVE  t \in Mice /\ SameTalk(m, t) /\ SameHand(m, t) /\ NoneDropped(m, t)
<1>1. PICK p \in Nat \ {0}, k \in Int : p = m.period /\ k = m.toTick
  BY DEF Mice
<1>2. PICK d \in Int : d = IF k < p THEN k ELSE p
  OBVIOUS
<1>3. CASE d > 0
  <2>1. t = [m EXCEPT !.toTick = d]
    BY <1>1, <1>2, <1>3 DEF MouseTicked
  <2>2. d <= p
    BY <1>2
  <2>. QED BY <1>1, <2>1, <2>2 DEF Mice, SameTalk, SameHand, NoneDropped
<1>4. CASE ~(d > 0)
  <2>1. PICK late \in 0 .. p - 1 : late = (-d) % p
    OBVIOUS
  <2>2. PICK f : f = Fired(m)
    OBVIOUS
  <2>3. t = [f EXCEPT !.toTick = p - late]
    BY <1>1, <1>2, <1>4, <2>1, <2>2 DEF MouseTicked
  <2>4. p - late \in Int /\ p - late <= p
    BY <2>1
  <2>. QED BY <1>1, <2>2, <2>3, <2>4, FiredIs DEF Mice, SameTalk, SameHand, NoneDropped
<1>. QED BY <1>3, <1>4

(* The firmware and the program see the same card. *)
LEMMA TalkGoesOn ==
  ASSUME NEW m, NEW p, NEW f, NEW n, CardFits(m, p, f, n), NEW t \in Mice, SameTalk(m, t),
         NoneDropped(m, t), NEW k \in Noting, k.reading = n.reading, k.readSince = n.readSince
  PROVE  CardFits(t, p, f, k)
<1>1. Answering(t) /\ Measured(t)
  BY DEF CardFits, SameTalk, Answering, Measured
<1>2. Wired(t, p, f)
  BY DEF CardFits, SameTalk, Wired
<1>3. Talking(t, f)
  BY DEF CardFits, SameTalk, Talking, Sending, Replying
<1>4. Reads(t, p, f, k)
  BY DEF CardFits, SameTalk, Reads, ReadingOf
<1>5. Accounted(t, k)
  BY DEF CardFits, NoneDropped, Accounted
<1>. QED BY <1>1, <1>2, <1>3, <1>4, <1>5 DEF CardFits

LEMMA TickGoesOn ==
  ASSUME NEW m, NEW p, NEW f, NEW n, CardFits(m, p, f, n)
  PROVE  CardFits(MouseTicked(m), p, f, [n EXCEPT !.firstWake = FALSE])
<1>1. m \in Mice /\ (m.sources # {} => m.irq) /\ n \in Noting
  BY DEF CardFits, Accounted
<1>2. PICK t : t = MouseTicked(m)
  OBVIOUS
<1>3. t \in Mice /\ SameTalk(m, t) /\ NoneDropped(m, t)
  BY <1>1, <1>2, TickedIs
<1>4. PICK k : k = [n EXCEPT !.firstWake = FALSE]
  OBVIOUS
<1>5. k \in Noting /\ k.reading = n.reading /\ k.readSince = n.readSince
  BY <1>1, <1>4 DEF Noting
<1>. QED BY <1>2, <1>3, <1>4, <1>5, TalkGoesOn

(* What executing a command leaves alone, and the reading it may take. *)
ReadingTaken(m) == [reading |-> [at |-> m.at, status |-> ReplyStatus(m)]]

Obeyed(m, e) ==
  /\ e \in Mice /\ e.buffer[0] = m.buffer[0]
  /\ e.shadowA = m.shadowA /\ e.shadowB = m.shadowB /\ e.pos = m.pos
  /\ e.outLen = m.outLen /\ e.inLen = m.inLen /\ e.replyPos = m.replyPos
  /\ (m.sources # {} => m.irq) => (e.sources # {} => e.irq)
  /\ e.irq => m.irq
  /\ m.toTick <= m.period => e.toTick <= e.period
  /\ Named(m.buffer[0]) = "read" => \A i \in 1 .. 5 : e.buffer[i] = ReadingOf(ReadingTaken(m))[i]

LEMMA StatusIs ==
  ASSUME NEW m
  PROVE  ReplyStatus(m) \in MouseBytes
BY DEF ReplyStatus, MouseBytes, Lines

LEMMA ReadIsObeyed ==
  ASSUME NEW m \in Mice
  PROVE  Obeyed(m, Reading(m))
<1>1. PICK x \in Int, y \in Int : m.at.x = x /\ m.at.y = y
  BY DEF Mice, Points
<1>2. PICK a \in MouseBytes, b \in MouseBytes, c \in MouseBytes, d \in MouseBytes, s \in MouseBytes :
        /\ a = LowByte(m.at.x) /\ b = HighByte(m.at.x) /\ c = LowByte(m.at.y) /\ d = HighByte(m.at.y)
        /\ s = ReplyStatus(m)
  BY BytesAre, StatusIs
<1>3. ReadingOf(ReadingTaken(m)) = <<a, b, c, d, s>>
  BY <1>2 DEF ReadingOf, ReadingTaken
<1>4. Reading(m) =
        [m EXCEPT !.read = m.at, !.buttonAtRead = m.button, !.moved = FALSE, !.sources = {},
                  !.buffer = [m.buffer EXCEPT ![1] = a, ![2] = b, ![3] = c, ![4] = d, ![5] = s]]
  BY <1>2 DEF Reading
<1>5. PICK e : e = Reading(m)
  OBVIOUS
<1>6. PICK z : z = [m.buffer EXCEPT ![1] = a, ![2] = b, ![3] = c, ![4] = d, ![5] = s]
  OBVIOUS
<1>7. z \in [0 .. 7 -> MouseBytes] /\ z[0] = m.buffer[0]
  BY <1>6 DEF Mice
<1>8. z[1] = a /\ z[2] = b /\ z[3] = c /\ z[4] = d /\ z[5] = s
  BY <1>6 DEF Mice
<1>9. \A i \in 1 .. 5 : z[i] = ReadingOf(ReadingTaken(m))[i]
  BY <1>3, <1>8
<1>10. e \in Mice /\ e.buffer = z
  BY ZenonT(60), <1>4, <1>5, <1>6, <1>7 DEF Mice
<1>. QED BY <1>4, <1>5, <1>6, <1>7, <1>9, <1>10 DEF Obeyed, Mice

LEMMA PointIs ==
  ASSUME NEW a, NEW b, NEW c, NEW d
  PROVE  [x |-> WordOf(a, b), y |-> WordOf(c, d)] \in Points
BY WordsAre DEF Points

LEMMA DefaultsAre ==
  ASSUME NEW m \in Mice, NEW d, d = AtDefaults(m)
  PROVE  /\ d \in Mice /\ SameTalk(m, d) /\ d.sources = {} /\ ~d.irq
         /\ d.rate50 = m.rate50 /\ d.period = m.period /\ d.toTick = m.toTick
<1>1. PICK low, high :
        low = [x |-> DefaultMin, y |-> DefaultMin] /\ high = [x |-> DefaultMax, y |-> DefaultMax]
  OBVIOUS
<1>2. Origin \in Points /\ low \in Points /\ high \in Points
  BY <1>1 DEF Origin, Points, DefaultMin, DefaultMax
<1>3. d = [m EXCEPT !.mode = {}, !.at = Origin, !.min = low, !.max = high, !.pending = {},
                    !.sources = {}, !.irq = FALSE]
  BY <1>1 DEF AtDefaults
<1>4. d \in Mice
  BY ZenonT(60), <1>2, <1>3 DEF Mice
<1>5. SameTalk(m, d)
  BY <1>3 DEF Mice, SameTalk
<1>6. d.sources = {} /\ ~d.irq /\ d.rate50 = m.rate50 /\ d.period = m.period /\ d.toTick = m.toTick
  BY <1>3 DEF Mice
<1>. QED BY <1>4, <1>5, <1>6

LEMMA InitIsObeyed ==
  ASSUME NEW m \in Mice, Named(m.buffer[0]) # "read"
  PROVE  Obeyed(m, Initialised(m))
<1>1. PICK d : d = AtDefaults(m)
  OBVIOUS
<1>2. d \in Mice /\ SameTalk(m, d) /\ d.sources = {} /\ ~d.irq /\ d.rate50 = m.rate50
  BY <1>1, DefaultsAre
<1>3. PICK q \in Nat \ {0} : q = PeriodOf(d.rate50)
  BY MouseAssumption DEF PeriodOf
<1>4. PICK r : r = [d EXCEPT !.period = q, !.toTick = q]
  OBVIOUS
<1>5. r \in Mice /\ SameTalk(m, r) /\ r.sources = {} /\ ~r.irq /\ r.period = q /\ r.toTick = q
  <2>1. r \in Mice
    <3>1. PICK c : c = [d EXCEPT !.period = q]
      OBVIOUS
    <3>2. c \in Mice
      BY <1>2, <3>1 DEF Mice
    <3>3. r = [c EXCEPT !.toTick = q] /\ q \in Int
      BY <1>2, <1>4, <3>1 DEF Mice
    <3>. QED BY <3>2, <3>3 DEF Mice
  <2>2. SameTalk(m, r)
    BY <1>2, <1>4 DEF Mice, SameTalk
  <2>. QED BY <1>2, <1>4, <2>1, <2>2 DEF Mice
<1>6. PICK z : z = [r.buffer EXCEPT ![1] = Lines]
  OBVIOUS
<1>7. z \in [0 .. 7 -> MouseBytes] /\ z[0] = m.buffer[0]
  BY <1>5, <1>6 DEF Mice, MouseBytes, SameTalk
<1>8. PICK e : e = Initialised(m)
  OBVIOUS
<1>9. e = [r EXCEPT !.buffer = z]
  BY <1>1, <1>3, <1>4, <1>5, <1>6, <1>8 DEF Initialised, RestartedTick
<1>10. e \in Mice
  BY <1>5, <1>7, <1>9 DEF Mice
<1>11. e.sources = {} /\ ~e.irq /\ e.period = q /\ e.toTick = q
  BY <1>5, <1>9 DEF Mice
<1>12. /\ e.buffer[0] = m.buffer[0] /\ e.shadowA = m.shadowA /\ e.shadowB = m.shadowB /\ e.pos = m.pos
       /\ e.outLen = m.outLen /\ e.inLen = m.inLen /\ e.replyPos = m.replyPos
  BY <1>5, <1>7, <1>9 DEF Mice, SameTalk
<1>. QED BY <1>8, <1>10, <1>11, <1>12 DEF Obeyed

LEMMA ServeIsObeyed ==
  ASSUME NEW m \in Mice, Named(m.buffer[0]) # "read"
  PROVE  Obeyed(m, Served(m))
<1>1. PICK b : b = {SourceBit(s) : s \in m.sources}
  OBVIOUS
<1>2. b \in MouseBytes
  BY <1>1 DEF Mice, MouseSources, SourceBit, MouseBytes, Lines
<1>3. PICK z : z = [m.buffer EXCEPT ![1] = b]
  OBVIOUS
<1>4. z \in [0 .. 7 -> MouseBytes] /\ z[0] = m.buffer[0]
  BY <1>2, <1>3 DEF Mice
<1>5. Served(m) = [m EXCEPT !.buffer = z, !.sources = {}, !.irq = FALSE]
  BY <1>1, <1>3 DEF Served, Mice
<1>6. PICK e : e = Served(m)
  OBVIOUS
<1>7. e \in Mice
  BY ZenonT(60), <1>4, <1>5, <1>6 DEF Mice
<1>. QED BY <1>4, <1>5, <1>6, <1>7 DEF Obeyed, Mice

LEMMA PositionIsObeyed ==
  ASSUME NEW m \in Mice, Named(m.buffer[0]) # "read", NEW q \in Points
  PROVE  Obeyed(m, [m EXCEPT !.at = q])
<1>1. PICK e : e = [m EXCEPT !.at = q]
  OBVIOUS
<1>2. e \in Mice
  BY <1>1 DEF Mice
<1>. QED BY <1>1, <1>2 DEF Obeyed, Mice

LEMMA ModeIsObeyed ==
  ASSUME NEW m \in Mice, Named(m.buffer[0]) # "read", NEW b \in SUBSET MouseModes, NEW q \in Points
  PROVE  Obeyed(m, [m EXCEPT !.mode = b, !.at = q])
<1>1. PICK e : e = [m EXCEPT !.mode = b, !.at = q]
  OBVIOUS
<1>2. e \in Mice
  BY <1>1 DEF Mice
<1>. QED BY <1>1, <1>2 DEF Obeyed, Mice

LEMMA ClampIsObeyed ==
  ASSUME NEW m \in Mice, Named(m.buffer[0]) # "read"
  PROVE  Obeyed(m, Clamped(m))
<1>1. PICK low \in Int, high \in Int :
        low = WordOf(m.buffer[1], m.buffer[3]) /\ high = WordOf(m.buffer[2], m.buffer[4])
  BY WordsAre
<1>2. PICK e : e = Clamped(m)
  OBVIOUS
<1>3. CASE 0 \in m.buffer[0]
  <2>1. e = [m EXCEPT !.min = [m.min EXCEPT !.y = low], !.max = [m.max EXCEPT !.y = high]]
    BY <1>1, <1>2, <1>3 DEF Clamped
  <2>2. [m.min EXCEPT !.y = low] \in Points /\ [m.max EXCEPT !.y = high] \in Points
    BY <1>1 DEF Mice, Points
  <2>3. e \in Mice
    BY <2>1, <2>2 DEF Mice
  <2>. QED BY <1>2, <2>1, <2>3 DEF Obeyed, Mice
<1>4. CASE 0 \notin m.buffer[0]
  <2>1. e = [m EXCEPT !.min = [m.min EXCEPT !.x = low], !.max = [m.max EXCEPT !.x = high]]
    BY <1>1, <1>2, <1>4 DEF Clamped
  <2>2. [m.min EXCEPT !.x = low] \in Points /\ [m.max EXCEPT !.x = high] \in Points
    BY <1>1 DEF Mice, Points
  <2>3. e \in Mice
    BY <2>1, <2>2 DEF Mice
  <2>. QED BY <1>2, <2>1, <2>3 DEF Obeyed, Mice
<1>. QED BY <1>3, <1>4

LEMMA PeekedIs ==
  ASSUME NEW m, NEW w
  PROVE  PeekByte(m, w) \in MouseBytes
BY BytesAre DEF PeekByte, MouseBytes

LEMMA PeekIsObeyed ==
  ASSUME NEW m \in Mice, Named(m.buffer[0]) # "read", NEW b \in MouseBytes
  PROVE  Obeyed(m, [m EXCEPT !.buffer[3] = b])
<1>1. PICK z : z = [m.buffer EXCEPT ![3] = b]
  OBVIOUS
<1>2. z \in [0 .. 7 -> MouseBytes] /\ z[0] = m.buffer[0]
  BY <1>1 DEF Mice
<1>3. PICK e : e = [m EXCEPT !.buffer[3] = b]
  OBVIOUS
<1>4. e = [m EXCEPT !.buffer = z]
  BY <1>1, <1>3
<1>5. e \in Mice
  BY <1>2, <1>4 DEF Mice
<1>. QED BY <1>2, <1>3, <1>4, <1>5 DEF Obeyed, Mice

LEMMA StandsIsObeyed ==
  ASSUME NEW m \in Mice, Named(m.buffer[0]) # "read", NEW r \in BOOLEAN
  PROVE  Obeyed(m, m) /\ Obeyed(m, [m EXCEPT !.rate50 = r])
<1>1. PICK e : e = [m EXCEPT !.rate50 = r]
  OBVIOUS
<1>2. e \in Mice
  BY <1>1 DEF Mice
<1>. QED BY <1>1, <1>2 DEF Obeyed, Mice

LEMMA ExecutedIsObeyed ==
  ASSUME NEW m \in Mice
  PROVE  Obeyed(m, Executed(m))
<1>1. PICK name : name = Named(m.buffer[0])
  OBVIOUS
<1>p. m.buffer[0] = Peek => name = "peek"
  BY <1>1, PeekIsNamed
<1>2. CASE name = "read"
  <2>1. Executed(m) = Reading(m)
    BY <1>1, <1>p, <1>2 DEF Executed
  <2>. QED BY <2>1, ReadIsObeyed
<1>3. CASE name = "set"
  <2>1. PICK b : b = ModeOf(m.buffer[0])
    OBVIOUS
  <2>2. b \in SUBSET MouseModes
    BY <2>1 DEF ModeOf, MouseModes, MouseSources
  <2>3. m.at \in Points /\ [m EXCEPT !.mode = b] = [m EXCEPT !.mode = b, !.at = m.at]
    BY DEF Mice
  <2>4. Executed(m) = [m EXCEPT !.mode = b]
    BY <1>1, <1>p, <1>3, <2>1 DEF Executed
  <2>. QED BY ZenonT(60), <1>1, <1>3, <2>2, <2>3, <2>4, ModeIsObeyed
<1>4. CASE name = "serve"
  <2>1. Executed(m) = Served(m)
    BY <1>1, <1>p, <1>4 DEF Executed
  <2>. QED BY <1>1, <1>4, <2>1, ServeIsObeyed
<1>5. CASE name = "clear"
  <2>1. Origin \in Points
    BY DEF Origin, Points
  <2>2. Executed(m) = [m EXCEPT !.at = Origin]
    BY <1>1, <1>p, <1>5 DEF Executed
  <2>. QED BY <1>1, <1>5, <2>1, <2>2, PositionIsObeyed
<1>6. CASE name = "pos"
  <2>1. PICK q \in Points :
          q = [x |-> WordOf(m.buffer[1], m.buffer[2]), y |-> WordOf(m.buffer[3], m.buffer[4])]
    BY PointIs
  <2>2. Executed(m) = [m EXCEPT !.at = q]
    BY <1>1, <1>p, <1>6, <2>1 DEF Executed
  <2>. QED BY <1>1, <1>6, <2>2, PositionIsObeyed
<1>7. CASE name = "init"
  <2>1. Executed(m) = Initialised(m)
    BY <1>1, <1>p, <1>7 DEF Executed
  <2>. QED BY <1>1, <1>7, <2>1, InitIsObeyed
<1>8. CASE name = "clamp"
  <2>1. Executed(m) = Clamped(m)
    BY <1>1, <1>p, <1>8 DEF Executed
  <2>. QED BY <1>1, <1>8, <2>1, ClampIsObeyed
<1>9. CASE name = "home"
  <2>1. m.min \in Points
    BY DEF Mice
  <2>2. Executed(m) = [m EXCEPT !.at = m.min]
    BY <1>1, <1>p, <1>9 DEF Executed
  <2>. QED BY <1>1, <1>9, <2>1, <2>2, PositionIsObeyed
<1>10. CASE name = "time"
  <2>1. PICK r : r = (0 \in m.buffer[0])
    OBVIOUS
  <2>2. r \in BOOLEAN
    BY <2>1
  <2>3. Executed(m) = [m EXCEPT !.rate50 = r]
    BY <1>1, <1>p, <1>10, <2>1 DEF Executed
  <2>. QED BY <1>1, <1>10, <2>2, <2>3, StandsIsObeyed
<1>11. CASE
    name \notin {"read", "set", "serve", "clear", "pos", "init", "clamp", "home", "time"}
  <2>1. PICK w : w = SumOfBits(m.buffer[1]) + 256 * SumOfBits(m.buffer[2])
    OBVIOUS
  <2>2. PICK b \in MouseBytes : b = PeekByte(m, w)
    BY PeekedIs
  <2>3. Origin \in Points /\ {"on"} \in SUBSET MouseModes
    BY DEF Origin, Points, MouseModes
  <2>4. CASE name = "basic" /\ m.buffer[0] = {7}
    <3>1. PICK b2 : b2 = {"on"}
      OBVIOUS
    <3>2. Executed(m) = [m EXCEPT !.mode = b2, !.at = Origin]
      BY <1>1, <1>p, <1>11, <2>4, <3>1 DEF Executed
    <3>3. b2 \in SUBSET MouseModes
      BY <2>3, <3>1
    <3>. QED BY ZenonT(60), <1>1, <1>11, <2>3, <3>2, <3>3, ModeIsObeyed
  <2>5. CASE ~(name = "basic" /\ m.buffer[0] = {7})
    <3>1. Executed(m) \in {m, [m EXCEPT !.buffer[3] = b]}
      BY <1>1, <1>p, <1>11, <2>1, <2>2, <2>5 DEF Executed
    <3>. QED BY <1>1, <1>11, <2>2, <3>1, StandsIsObeyed, PeekIsObeyed
  <2>. QED BY <2>4, <2>5
<1>. QED BY <1>2, <1>3, <1>4, <1>5, <1>6, <1>7, <1>8, <1>9, <1>10, <1>11

(* A byte taken. *)
Swallowed(m, byte, coming, t) ==
  /\ t \in Mice /\ Measured(t) /\ t.shadowA = m.shadowA /\ t.shadowB = m.shadowB
  /\ t.sources # {} => t.irq
  /\ t.irq => m.irq
  /\ t.toTick <= t.period
  /\ t.replyPos = 0
  /\ IF coming > 1 THEN t.pos # 0 /\ t.pos + (coming - 1) = t.outLen ELSE t.pos = 0
  /\ t.inLen = IF m.pos = 0 THEN CommandInLen(byte) ELSE m.inLen
  /\ coming = 1 /\ Named(t.buffer[0]) = "read" =>
       \A i \in 1 .. 5 : t.buffer[i] = ReadingOf(ReadingTaken(m))[i]

LEMMA FirstByteIsKept ==
  ASSUME NEW m \in Mice, NEW byte \in MouseBytes, NEW g,
         g = [m EXCEPT !.buffer = [[i \in 0 .. 7 |-> {}] EXCEPT ![0] = byte],
                       !.outLen = CommandOutLen(byte), !.inLen = CommandInLen(byte),
                       !.replyPos = 0, !.pos = 1]
  PROVE  /\ g \in Mice /\ Measured(g) /\ g.pos = 1 /\ g.replyPos = 0 /\ g.inLen = CommandInLen(byte)
         /\ g.outLen = CommandOutLen(byte)
<1>1. PICK out \in 1 .. 5, in \in 0 .. 5 : out = CommandOutLen(byte) /\ in = CommandInLen(byte)
  BY Lengths
<1>2. PICK z : z = [[i \in 0 .. 7 |-> {}] EXCEPT ![0] = byte]
  OBVIOUS
<1>3. z \in [0 .. 7 -> MouseBytes] /\ z[0] = byte
  BY <1>2 DEF MouseBytes
<1>4. g = [m EXCEPT !.buffer = z, !.outLen = out, !.inLen = in, !.replyPos = 0, !.pos = 1]
  BY <1>1, <1>2
<1>5. PICK c : c = [m EXCEPT !.buffer = z, !.outLen = out]
  OBVIOUS
<1>6. c \in Mice
  BY <1>1, <1>3, <1>5 DEF Mice
<1>7. PICK d : d = [c EXCEPT !.inLen = in]
  OBVIOUS
<1>8. d \in Mice
  BY <1>1, <1>6, <1>7 DEF Mice
<1>9. PICK e : e = [d EXCEPT !.replyPos = 0]
  OBVIOUS
<1>10. e \in Mice
  BY <1>8, <1>9 DEF Mice
<1>11. g = [e EXCEPT !.pos = 1]
  BY <1>4, <1>5, <1>7, <1>9 DEF Mice
<1>12. g \in Mice
  BY <1>10, <1>11 DEF Mice
<1>. QED BY <1>1, <1>3, <1>4, <1>12 DEF Measured, Mice

LEMMA NextByteIsKept ==
  ASSUME NEW m \in Mice, Measured(m), NEW byte \in MouseBytes, m.pos # 0, m.pos < m.outLen, NEW g,
         g = [m EXCEPT !.buffer[m.pos] = byte, !.pos = @ + 1]
  PROVE  /\ g \in Mice /\ Measured(g) /\ g.pos = m.pos + 1 /\ g.replyPos = m.replyPos
              /\ g.inLen = m.inLen
         /\ g.outLen = m.outLen
<1>1. PICK z : z = [m.buffer EXCEPT ![m.pos] = byte]
  OBVIOUS
<1>2. m.pos \in 1 .. 4
  BY DEF Mice
<1>3. z \in [0 .. 7 -> MouseBytes] /\ z[0] = m.buffer[0]
  BY <1>1, <1>2 DEF Mice
<1>4. m.pos + 1 \in 0 .. 7
  BY <1>2
<1>5. PICK c : c = [m EXCEPT !.buffer = z]
  OBVIOUS
<1>6. c \in Mice
  BY <1>3, <1>5 DEF Mice
<1>7. g = [c EXCEPT !.pos = m.pos + 1]
  BY <1>1, <1>5 DEF Mice
<1>8. g \in Mice
  BY <1>4, <1>6, <1>7 DEF Mice
<1>. QED BY <1>3, <1>5, <1>7, <1>8 DEF Measured, Mice

LEMMA TakenIsSwallowed ==
  ASSUME NEW m \in Mice, Measured(m), NEW byte \in MouseBytes, NEW coming \in Nat \ {0},
         m.sources # {} => m.irq, m.toTick <= m.period,
         m.pos = 0 => coming = CommandOutLen(byte),
         m.pos # 0 => m.pos + coming = m.outLen /\ m.replyPos = 0
  PROVE  Swallowed(m, byte, coming, Taken(m, byte))
<1>1. PICK g :
        g = IF m.pos = 0
            THEN [m EXCEPT !.buffer = [[i \in 0 .. 7 |-> {}] EXCEPT ![0] = byte],
                           !.outLen = CommandOutLen(byte), !.inLen = CommandInLen(byte),
                           !.replyPos = 0, !.pos = 1]
            ELSE [m EXCEPT !.buffer[m.pos] = byte, !.pos = @ + 1]
  OBVIOUS
<1>2. Taken(m, byte) = IF g.pos < g.outLen THEN g ELSE [Executed(g) EXCEPT !.pos = 0]
  BY <1>1 DEF Taken
<1>3. m.pos \in Nat /\ m.outLen \in Nat
  BY DEF Mice
<1>4. /\ g \in Mice /\ Measured(g) /\ g.replyPos = 0 /\ g.pos # 0 /\ g.pos + (coming - 1) = g.outLen
      /\ g.inLen = IF m.pos = 0 THEN CommandInLen(byte) ELSE m.inLen
  <2>1. CASE m.pos = 0
    <3>1. /\ g \in Mice /\ Measured(g) /\ g.pos = 1 /\ g.replyPos = 0 /\ g.inLen = CommandInLen(byte)
          /\ g.outLen = CommandOutLen(byte)
      <4>1. g = [m EXCEPT !.buffer = [[i \in 0 .. 7 |-> {}] EXCEPT ![0] = byte],
                          !.outLen = CommandOutLen(byte), !.inLen = CommandInLen(byte),
                          !.replyPos = 0, !.pos = 1]
        BY <1>1, <2>1
      <4>. QED BY ZenonT(60), <4>1, FirstByteIsKept
    <3>2. coming = g.outLen
      BY <2>1, <3>1
    <3>. QED BY <2>1, <3>1, <3>2
  <2>2. CASE m.pos # 0
    <3>1. m.pos < m.outLen
      BY <1>3, <2>2
    <3>2. /\ g \in Mice /\ Measured(g) /\ g.pos = m.pos + 1 /\ g.replyPos = m.replyPos
               /\ g.inLen = m.inLen
          /\ g.outLen = m.outLen
      BY ZenonT(60), <1>1, <2>2, <3>1, NextByteIsKept
    <3>. QED BY <1>3, <2>2, <3>2
  <2>. QED BY <2>1, <2>2
<1>5. /\ g.shadowA = m.shadowA /\ g.shadowB = m.shadowB /\ g.sources = m.sources /\ g.irq = m.irq
      /\ g.toTick = m.toTick /\ g.period = m.period
  BY <1>1 DEF Mice
<1>6. ReadingTaken(g) = ReadingTaken(m)
  BY <1>1 DEF Mice, ReadingTaken, ReplyStatus
<1>7. CASE coming > 1
  <2>1. Taken(m, byte) = g
    <3>1. g.pos \in Nat /\ g.outLen \in Nat
      BY <1>4 DEF Mice
    <3>. QED BY <1>2, <1>4, <1>7, <3>1
  <2>. QED BY <1>4, <1>5, <1>7, <2>1 DEF Swallowed
<1>8. CASE coming = 1
  <2>1. PICK e : e = Executed(g)
    OBVIOUS
  <2>2. Obeyed(g, e)
    BY <1>4, <2>1, ExecutedIsObeyed
  <2>3. PICK t : t = Taken(m, byte)
    OBVIOUS
  <2>4. t = [e EXCEPT !.pos = 0]
    <3>1. g.pos \in Nat /\ g.outLen \in Nat
      BY <1>4 DEF Mice
    <3>. QED BY <1>2, <1>4, <1>8, <2>1, <2>3, <3>1
  <2>5. t \in Mice
    BY <2>2, <2>4 DEF Mice, Obeyed
  <2>6. /\ t.buffer = e.buffer /\ t.shadowA = g.shadowA /\ t.shadowB = g.shadowB /\ t.outLen = g.outLen
        /\ t.inLen = g.inLen /\ t.replyPos = g.replyPos /\ t.pos = 0 /\ t.sources = e.sources
        /\ t.irq = e.irq /\ t.toTick = e.toTick /\ t.period = e.period
    BY <2>2, <2>4 DEF Mice, Obeyed
  <2>7. t.buffer[0] = g.buffer[0] /\ Measured(t)
    BY <1>4, <2>2, <2>6 DEF Obeyed, Measured
  <2>8. t.toTick <= t.period /\ (t.irq => m.irq) /\ (t.sources # {} => t.irq)
    BY <1>5, <2>2, <2>6 DEF Obeyed
  <2>9. Named(t.buffer[0]) = "read" => \A i \in 1 .. 5 : t.buffer[i] = ReadingOf(ReadingTaken(m))[i]
    BY <1>6, <2>2, <2>6, <2>7 DEF Obeyed
  <2>. QED BY <1>4, <1>5, <1>8, <2>3, <2>5, <2>6, <2>7, <2>8, <2>9 DEF Swallowed
<1>. QED BY <1>7, <1>8

(* The lines of port B and the replies they bring. *)
Showing(data) == (data \cap CardDriven) \cup ReplyLevels(data)

LEMMA ShowingIs ==
  ASSUME NEW data \in MouseBytes
  PROVE  /\ Showing(data) \in MouseBytes /\ 0 \notin Showing(data)
         /\ Showing(data) \cap CardDriven = data \cap CardDriven
         /\ \A i \in {WriteStrobe, ReadStrobe} : i \in Showing(data) <=> i \in data
         /\ Busy \in Showing(data) <=> WriteStrobe \in data
         /\ ByteReady \in Showing(data) <=> ReadStrobe \notin data
BY DEF Showing, ReplyLevels, CardDriven, Bank, ReadStrobe, WriteStrobe, Busy, ByteReady, MouseBytes,
   Lines

LEMMA ShownIs ==
  ASSUME NEW m \in Mice, Answering(m), NEW data \in MouseBytes,
         m.shadowB \cap CardDriven = data \cap CardDriven
  PROVE  m.shadowB = Showing(data)
BY DEF Answering, Mice, Showing, ReplyLevels, CardDriven, Bank, ReadStrobe, WriteStrobe, Busy,
       ByteReady, MouseBytes, Lines

LEMMA RepliesAre ==
  ASSUME NEW m \in Mice, Answering(m), NEW data \in MouseBytes
  PROVE  (data \cap CardDriven) \cup Replies(m, data) = Showing(data)
<1>1. /\ Busy \in Replies(m, data) <=> WriteStrobe \in data
      /\ ByteReady \in Replies(m, data) <=> ReadStrobe \notin data
      /\ Replies(m, data) \subseteq {Busy, ByteReady}
  BY DEF Answering, Mice, Replies, Edge, ReplyLevels, ReadStrobe, WriteStrobe, Busy, ByteReady,
     MouseBytes
<1>2. /\ Busy \in ReplyLevels(data) <=> WriteStrobe \in data
      /\ ByteReady \in ReplyLevels(data) <=> ReadStrobe \notin data
      /\ ReplyLevels(data) \subseteq {Busy, ByteReady}
  BY DEF ReplyLevels, ReadStrobe, WriteStrobe, Busy, ByteReady
<1>. QED BY <1>1, <1>2 DEF Showing

(* What the listener makes of a write of port B's lines. *)
Heeded(m, out) == IF (m.shadowB \cap CardDriven) # (out \cap CardDriven) THEN ListenerB(m, out) ELSE m

LEMMA QuietlyHeeded ==
  ASSUME NEW m \in Mice, Answering(m), NEW out \in MouseBytes,
         \A i \in {WriteStrobe, ReadStrobe} : i \in m.shadowB => i \in out
  PROVE  Heeded(m, out) = [m EXCEPT !.shadowB = Showing(out)]
<1>1. CASE (m.shadowB \cap CardDriven) # (out \cap CardDriven)
  <2>1. OnWriteStrobe(m, out) = m
    BY DEF OnWriteStrobe, Edge
  <2>2. OnReadStrobe(m, m, out) = m
    BY DEF OnReadStrobe, Edge
  <2>3. (out \cap CardDriven) \cup Replies(m, out) = Showing(out)
    BY RepliesAre
  <2>. QED BY <1>1, <2>1, <2>2, <2>3 DEF Heeded, ListenerB
<1>2. CASE (m.shadowB \cap CardDriven) = (out \cap CardDriven)
  <2>1. m.shadowB = Showing(out)
    BY <1>2, ShownIs
  <2>2. [m EXCEPT !.shadowB = Showing(out)] = m
    BY <2>1 DEF Mice
  <2>. QED BY <1>2, <2>2 DEF Heeded
<1>. QED BY <1>1, <1>2

LEMMA StrobeMoves ==
  ASSUME NEW m \in Mice, NEW out \in MouseBytes, NEW i \in {WriteStrobe, ReadStrobe},
         i \in m.shadowB, i \notin out
  PROVE  (m.shadowB \cap CardDriven) # (out \cap CardDriven)
BY DEF CardDriven

LEMMA WriteHeeded ==
  ASSUME NEW m \in Mice, Answering(m), NEW out \in MouseBytes, WriteStrobe \in m.shadowB,
         WriteStrobe \notin out, ReadStrobe \in m.shadowB => ReadStrobe \in out
  PROVE  Heeded(m, out) = [Taken(m, m.shadowA) EXCEPT !.shadowB = Showing(out)]
<1>1. (m.shadowB \cap CardDriven) # (out \cap CardDriven)
  BY StrobeMoves
<1>2. PICK t : t = Taken(m, m.shadowA)
  OBVIOUS
<1>3. OnWriteStrobe(m, out) = t
  BY <1>2 DEF OnWriteStrobe, Edge
<1>4. OnReadStrobe(t, m, out) = t
  BY DEF OnReadStrobe, Edge
<1>5. (out \cap CardDriven) \cup Replies(m, out) = Showing(out)
  BY RepliesAre
<1>. QED BY <1>1, <1>2, <1>3, <1>4, <1>5 DEF Heeded, ListenerB

LEMMA ReadHeeded ==
  ASSUME NEW m \in Mice, Answering(m), NEW out \in MouseBytes, ReadStrobe \in m.shadowB,
         ReadStrobe \notin out, WriteStrobe \in m.shadowB => WriteStrobe \in out,
         m.replyPos < m.inLen
  PROVE  Heeded(m, out) = [m EXCEPT !.replyPos = m.replyPos + 1, !.shadowB = Showing(out)]
<1>1. (m.shadowB \cap CardDriven) # (out \cap CardDriven)
  BY StrobeMoves
<1>2. OnWriteStrobe(m, out) = m
  BY DEF OnWriteStrobe, Edge
<1>3. OnReadStrobe(m, m, out) = [m EXCEPT !.replyPos = m.replyPos + 1]
  BY DEF OnReadStrobe, Edge, Mice
<1>4. (out \cap CardDriven) \cup Replies(m, out) = Showing(out)
  BY RepliesAre
<1>. QED BY <1>1, <1>2, <1>3, <1>4 DEF Heeded, ListenerB

(* A write of port B, turned for the firmware. *)
LinesOf(data) == data \cap CardDriven

LEMMA PortLinesAre ==
  ASSUME NEW data \in MouseBytes
  PROVE  /\ LinesOf(data) \in MouseBytes /\ LinesOf(data) \cap CardDriven = LinesOf(data)
         /\ \A i \in {WriteStrobe, ReadStrobe} : i \in LinesOf(data) <=> i \in data
         /\ Showing(LinesOf(data)) \cap CardDriven = data \cap CardDriven
BY ShowingIs DEF LinesOf, CardDriven, MouseBytes

LEMMA OrbIsWritten ==
  ASSUME CardFits(mouse, ports, firmware, notes), ports.b.ddr = CardDriven, NEW data \in MouseBytes,
         NEW fw, MouseWriteOrb(data, fw), NEW t \in Mice, t = MouseTicked(mouse), NEW a \in Mice,
         a = Heeded(t, LinesOf(data)), a.shadowB = Showing(LinesOf(data))
  PROVE  /\ mouse' = a /\ firmware' = fw /\ mouseHost' = HostAfter(a) /\ mouseKept' = mouseKept
         /\ ports' = [a |-> [ports.a EXCEPT !.in = Presented(t, a, LinesOf(data), ports.a.in)],
                      b |-> [ports.b EXCEPT !.out = data, !.in = Showing(LinesOf(data))]]
         /\ notes' = [reading |-> IF Falls(t, LinesOf(data), WriteStrobe)
                                  THEN [at |-> t.at, status |-> ReplyStatus(t)] ELSE notes.reading,
                      readSince |-> a.irq /\ (notes.readSince \/ (t.sources # {} /\ a.sources = {})),
                      firstWake |-> FALSE]
<1>1. ports.b \in MouseSides /\ ports.b.cr = {"ddr"} /\ ports.b.in = mouse.shadowB
  BY DEF CardFits, MousePorts, Wired
<1>2. PICK w : w = [ports.b EXCEPT !.out = data]
  OBVIOUS
<1>3. PiaWrite("b", ports.b, data) = w
  BY <1>1, <1>2 DEF PiaWrite, PiaSelected, AfterDataAccess, Handshakes, MouseSides
<1>4. PiaOutput(w) = LinesOf(data)
  BY <1>1, <1>2 DEF PiaOutput, LinesOf, MouseSides
<1>5. LinesOf(data) \cap CardDriven = LinesOf(data)
  BY PortLinesAre
<1>6. t.shadowB = mouse.shadowB
  BY TickedIs DEF CardFits, Accounted, SameTalk
<1>7. PICK changed \in BOOLEAN :
        changed = ((t.shadowB \cap CardDriven) # (LinesOf(data) \cap CardDriven))
  OBVIOUS
<1>8. a = IF changed THEN ListenerB(t, LinesOf(data)) ELSE t
  BY <1>7 DEF Heeded
<1>9. (IF changed THEN [w EXCEPT !.in = a.shadowB] ELSE w)
        = [ports.b EXCEPT !.out = data, !.in = Showing(LinesOf(data))]
  <2>1. CASE changed
    BY <1>1, <1>2, <2>1 DEF MouseSides
  <2>2. CASE ~changed
    <3>1. w.in = Showing(LinesOf(data))
      BY <1>1, <1>2, <1>6, <1>8, <2>2 DEF MouseSides
    <3>. QED BY <1>1, <1>2, <2>2, <3>1 DEF MouseSides
  <2>. QED BY <2>1, <2>2
<1>10. /\ mouse' = a /\ firmware' = fw /\ mouseHost' = HostAfter(a) /\ mouseKept' = mouseKept
       /\ ports' = [a |-> [ports.a EXCEPT !.in = Presented(t, a, LinesOf(data), ports.a.in)],
                    b |-> IF changed THEN [w EXCEPT !.in = a.shadowB] ELSE w]
       /\ notes' = [reading |-> IF Falls(t, LinesOf(data), WriteStrobe)
                                THEN [at |-> t.at, status |-> ReplyStatus(t)] ELSE notes.reading,
                    readSince |-> a.irq /\ (notes.readSince \/ (t.sources # {} /\ a.sources = {})),
                    firstWake |-> FALSE]
  BY <1>3, <1>4, <1>5, <1>7, <1>8 DEF MouseWriteOrb
<1>. QED BY <1>9, <1>10

(* The host is told. *)
LEMMA HostIsTold ==
  ASSUME HostKnows, mouseHost' = HostAfter(mouse')
  PROVE  HostKnows'
BY DEF HostKnows, HostAfter

(* The talk and the sources after a write are all that remains to be shown. *)
LEMMA OrbFits ==
  ASSUME MouseInv, ports.b.ddr = CardDriven, NEW data \in MouseBytes, NEW fw \in Calling,
         MouseWriteOrb(data, fw), NEW t \in Mice, t = MouseTicked(mouse), NEW a \in Mice,
         a = Heeded(t, LinesOf(data)), a.shadowB = Showing(LinesOf(data)),
         WriteStrobe \in data <=> fw.phase = "sent", ReadStrobe \in data <=> fw.phase = "acked",
         Measured(a), Talking(a, fw), Reads(a, ports', fw, notes'), Accounted(a, notes')
  PROVE  MouseInv'
<1>1. CardFits(mouse, ports, firmware, notes)
  BY DEF MouseInv
<1>2. /\ mouse' = a /\ firmware' = fw /\ mouseHost' = HostAfter(a) /\ mouseKept' = mouseKept
      /\ ports' = [a |-> [ports.a EXCEPT !.in = Presented(t, a, LinesOf(data), ports.a.in)],
                   b |-> [ports.b EXCEPT !.out = data, !.in = Showing(LinesOf(data))]]
      /\ notes' = [reading |-> IF Falls(t, LinesOf(data), WriteStrobe)
                               THEN [at |-> t.at, status |-> ReplyStatus(t)] ELSE notes.reading,
                   readSince |-> a.irq /\ (notes.readSince \/ (t.sources # {} /\ a.sources = {})),
                   firstWake |-> FALSE]
  BY ZenonT(60), <1>1, OrbIsWritten
<1>3. LinesOf(data) \in MouseBytes
  BY PortLinesAre
<1>4. Presented(t, a, LinesOf(data), ports.a.in) \in MouseBytes
  <2>1. ports.a.in \in MouseBytes
    BY <1>1 DEF CardFits, MousePorts, MouseSides
  <2>2. a.replyPos < a.inLen => a.outLen + a.replyPos \in 0 .. 7
    <3>1. a.outLen + a.inLen <= 6
      BY Lengths DEF Measured
    <3>. QED BY <3>1 DEF Mice
  <2>3. a.replyPos < a.inLen => a.buffer[a.outLen + a.replyPos] \in MouseBytes
    BY <2>2 DEF Mice
  <2>. QED BY <2>1, <2>3 DEF Presented
<1>5. ports' \in MousePorts
  <2>1. PICK q \in MouseBytes, z \in MouseBytes :
          q = Presented(t, a, LinesOf(data), ports.a.in) /\ z = Showing(LinesOf(data))
    BY <1>3, <1>4, ShowingIs
  <2>2. ports.a \in MouseSides /\ ports.b \in MouseSides
    BY <1>1 DEF CardFits, MousePorts
  <2>3. [ports.a EXCEPT !.in = q] \in MouseSides
          /\ [ports.b EXCEPT !.out = data, !.in = z] \in MouseSides
    BY <2>2 DEF MouseSides
  <2>. QED BY <1>2, <2>1, <2>3 DEF MousePorts
<1>6. notes' \in Noting
  <2>1. notes.reading \in [at : Points, status : MouseBytes]
    BY <1>1 DEF CardFits, Noting
  <2>2. [at |-> t.at, status |-> ReplyStatus(t)] \in [at : Points, status : MouseBytes]
    BY StatusIs DEF Mice
  <2>3. PICK r \in [at : Points, status : MouseBytes] :
          r = IF Falls(t, LinesOf(data), WriteStrobe) THEN [at |-> t.at, status |-> ReplyStatus(t)]
            ELSE notes.reading
    BY <2>1, <2>2
  <2>4. PICK b \in BOOLEAN : b = (a.irq /\ (notes.readSince \/ (t.sources # {} /\ a.sources = {})))
    OBVIOUS
  <2>5. notes' = [reading |-> r, readSince |-> b, firstWake |-> FALSE]
    BY <1>2, <2>3, <2>4
  <2>. QED BY <2>5 DEF Noting
<1>7. Answering(a)
  BY <1>3, ShowingIs DEF Answering
<1>8. Wired(a, ports', fw)
  <2>1. /\ ports'.b.in = a.shadowB /\ ports'.b.ddr = CardDriven /\ ports'.b.cr = {"ddr"}
             /\ ports'.b.out = data
    <3>1. ports.b \in MouseSides /\ ports.b.cr = {"ddr"}
      BY <1>1 DEF CardFits, MousePorts, Wired
    <3>. QED BY <1>2, <3>1 DEF MouseSides
  <2>2. a.shadowB \cap CardDriven = data \cap CardDriven
    BY PortLinesAre
  <2>3. \A i \in {WriteStrobe, ReadStrobe} : i \in a.shadowB <=> i \in data
    BY <1>3, PortLinesAre, ShowingIs
  <2>. QED BY <2>1, <2>2, <2>3 DEF Wired
<1>9. CardFits(a, ports', fw, notes')
  BY <1>5, <1>6, <1>7, <1>8 DEF CardFits
<1>10. CardFits(mouse, ports, firmware, notes)'
  BY <1>2, <1>9
<1>11. HostKnows'
  BY <1>2, HostIsTold DEF MouseInv
<1>12. KeptFits'
  BY <1>2 DEF MouseInv, KeptFits
<1>. QED BY <1>10, <1>11, <1>12 DEF MouseInv

LEMMA QuietOrb ==
  ASSUME MouseInv, ports.b.ddr = CardDriven, NEW data \in MouseBytes, NEW fw \in Calling,
         MouseWriteOrb(data, fw),
         \A i \in {WriteStrobe, ReadStrobe} : i \in mouse.shadowB => i \in data,
         WriteStrobe \in data <=> fw.phase = "sent", ReadStrobe \in data <=> fw.phase = "acked",
         Talking(mouse, fw), Reads(mouse, ports, fw, notes)
  PROVE  MouseInv'
<1>1. PICK t : t = MouseTicked(mouse)
  OBVIOUS
<1>2. CardFits(mouse, ports, firmware, notes) /\ mouse \in Mice /\ (mouse.sources # {} => mouse.irq)
  BY DEF MouseInv, CardFits, Accounted
<1>3. t \in Mice /\ SameTalk(mouse, t) /\ NoneDropped(mouse, t)
  BY <1>1, <1>2, TickedIs
<1>4. PICK a : a = [t EXCEPT !.shadowB = Showing(LinesOf(data))]
  OBVIOUS
<1>5. Showing(LinesOf(data)) \in MouseBytes
  BY PortLinesAre, ShowingIs
<1>6. a \in Mice
  BY <1>3, <1>4, <1>5 DEF Mice
<1>7. /\ a.shadowA = mouse.shadowA /\ a.buffer = mouse.buffer /\ a.pos = mouse.pos
           /\ a.outLen = mouse.outLen
      /\ a.inLen = mouse.inLen /\ a.replyPos = mouse.replyPos /\ a.shadowB = Showing(LinesOf(data))
      /\ a.sources = t.sources /\ a.irq = t.irq /\ a.toTick = t.toTick /\ a.period = t.period
  BY <1>3, <1>4 DEF Mice, SameTalk
<1>8. Answering(t)
  BY <1>2, <1>3 DEF CardFits, Answering, SameTalk
<1>9. \A i \in {WriteStrobe, ReadStrobe} : i \in t.shadowB => i \in LinesOf(data)
  BY <1>3, PortLinesAre DEF SameTalk
<1>10. a = Heeded(t, LinesOf(data))
  BY <1>3, <1>4, <1>8, <1>9, PortLinesAre, QuietlyHeeded
<1>11. /\ ports' = [a |-> [ports.a EXCEPT !.in = Presented(t, a, LinesOf(data), ports.a.in)],
                   b |-> [ports.b EXCEPT !.out = data, !.in = Showing(LinesOf(data))]]
       /\ notes' = [reading |-> IF Falls(t, LinesOf(data), WriteStrobe)
                                THEN [at |-> t.at, status |-> ReplyStatus(t)] ELSE notes.reading,
                    readSince |-> a.irq /\ (notes.readSince \/ (t.sources # {} /\ a.sources = {})),
                    firstWake |-> FALSE]
  BY ZenonT(60), <1>1, <1>2, <1>3, <1>6, <1>7, <1>10, OrbIsWritten
<1>12. ~Falls(t, LinesOf(data), WriteStrobe) /\ ~Falls(t, LinesOf(data), ReadStrobe)
  BY <1>9 DEF Falls, Edge
<1>13. Presented(t, a, LinesOf(data), ports.a.in) = ports.a.in
  BY <1>12 DEF Presented
<1>14. ports'.a.in = ports.a.in /\ notes'.reading = notes.reading
  <2>1. ports.a \in MouseSides
    BY <1>2 DEF CardFits, MousePorts
  <2>. QED BY <1>11, <1>12, <1>13, <2>1 DEF MouseSides
<1>15. Measured(a)
  BY <1>2, <1>7 DEF CardFits, Measured
<1>16. Talking(a, fw)
  BY <1>7 DEF Talking, Sending, Replying
<1>17. Reads(a, ports', fw, notes')
  BY <1>7, <1>14 DEF Reads, ReadingOf
<1>18. Accounted(a, notes')
  BY <1>2, <1>3, <1>7, <1>11 DEF CardFits, Accounted, NoneDropped
<1>. QED BY <1>1, <1>3, <1>6, <1>7, <1>10, <1>15, <1>16, <1>17, <1>18, OrbFits

(* The firmware's steps *)
LEMMA StrobesAre ==
  ASSUME MouseInv
  PROVE  /\ \A i \in {WriteStrobe, ReadStrobe} : i \in mouse.shadowB
              <=> firmware.phase = (IF i = WriteStrobe THEN "sent" ELSE "acked")
         /\ firmware.phase # "idle" => ports.b.ddr = CardDriven /\ ports.b.cr = {"ddr"}
              /\ PiaData("b", ports.b) = mouse.shadowB
         /\ mouse.shadowB \in MouseBytes /\ 0 \notin mouse.shadowB
         /\ Busy \in mouse.shadowB <=> WriteStrobe \in mouse.shadowB
         /\ ByteReady \in mouse.shadowB <=> ReadStrobe \notin mouse.shadowB
<1>1. mouse \in Mice /\ ports \in MousePorts /\ Wired(mouse, ports, firmware) /\ Answering(mouse)
  BY DEF MouseInv, CardFits
<1>2. \A i \in {WriteStrobe, ReadStrobe} : i \in mouse.shadowB
        <=> firmware.phase = (IF i = WriteStrobe THEN "sent" ELSE "acked")
  BY <1>1 DEF Wired, WriteStrobe, ReadStrobe
<1>3. ASSUME firmware.phase # "idle"
      PROVE  ports.b.ddr = CardDriven /\ ports.b.cr = {"ddr"} /\ PiaData("b", ports.b) = mouse.shadowB
  BY <1>1, <1>3 DEF Wired, PiaData, PiaSelected, Mice, MouseBytes
<1>4. /\ mouse.shadowB \in MouseBytes /\ 0 \notin mouse.shadowB
      /\ Busy \in mouse.shadowB <=> WriteStrobe \in mouse.shadowB
      /\ ByteReady \in mouse.shadowB <=> ReadStrobe \notin mouse.shadowB
  BY <1>1 DEF Mice, Answering
<1>. QED BY <1>2, <1>3, <1>4

LEMMA CallStarts ==
  ASSUME MouseInv, StartCall
  PROVE  MouseInv'
<1>1. CardFits(mouse, ports, firmware, notes) /\ firmware.phase = "idle" /\ ports.b.ddr = CardDriven
  BY DEF MouseInv, StartCall
<1>2. PICK bytes \in MouseCalls :
        MouseWriteOrb(WriteBank, [todo |-> bytes, replies |-> CommandInLen(ByteOf(bytes[1])),
                                  heard |-> <<>>, phase |-> "put"])
  BY DEF StartCall
<1>3. bytes \in Seq(0 .. 255) /\ bytes # <<>> /\ Len(bytes) = CommandOutLen(ByteOf(bytes[1]))
        /\ Head(bytes) = bytes[1]
  BY MouseAssumption
<1>4. PICK fw : fw = [todo |-> bytes, replies |-> CommandInLen(ByteOf(bytes[1])),
                      heard |-> <<>>, phase |-> "put"]
  OBVIOUS
<1>5. fw \in Calling
  BY <1>3, <1>4, Lengths DEF Calling, CallPhases
<1>6. Talking(mouse, fw) /\ Reads(mouse, ports, fw, notes)
  BY <1>1, <1>3, <1>4 DEF CardFits, Talking, Sending, Reads
<1>7. WriteBank \in MouseBytes /\ WriteStrobe \notin WriteBank /\ ReadStrobe \notin WriteBank
  BY DEF WriteBank, MouseBytes, Lines, WriteStrobe, ReadStrobe
<1>8. WriteStrobe \notin mouse.shadowB /\ ReadStrobe \notin mouse.shadowB
  BY <1>1, StrobesAre DEF WriteStrobe, ReadStrobe
<1>9. fw.phase = "put"
  BY <1>4
<1>. QED BY <1>1, <1>2, <1>4, <1>5, <1>6, <1>7, <1>8, <1>9, QuietOrb

LEMMA WriteRises ==
  ASSUME MouseInv, RaiseWrite
  PROVE  MouseInv'
<1>1. CardFits(mouse, ports, firmware, notes) /\ firmware.phase = "raise"
  BY DEF MouseInv, RaiseWrite
<1>2. PICK data : data = mouse.shadowB \cup {WriteStrobe}
  OBVIOUS
<1>3. PICK fw : fw = [firmware EXCEPT !.phase = "sent"]
  OBVIOUS
<1>4. MouseWriteOrb(data, fw) /\ ports.b.ddr = CardDriven
  BY <1>1, <1>2, <1>3, StrobesAre DEF RaiseWrite
<1>5. fw \in Calling /\ fw.phase = "sent"
  BY <1>1, <1>3 DEF CardFits, Calling, CallPhases
<1>6. Talking(mouse, fw) /\ Reads(mouse, ports, fw, notes)
  BY <1>1, <1>3 DEF CardFits, Talking, Sending, Reads, Calling
<1>7. data \in MouseBytes /\ WriteStrobe \in data /\ ReadStrobe \notin data
        /\ ReadStrobe \notin mouse.shadowB
  BY <1>1, <1>2, StrobesAre DEF MouseBytes, Lines, WriteStrobe, ReadStrobe
<1>. QED BY <1>4, <1>5, <1>6, <1>7, QuietOrb

LEMMA ReadTurns ==
  ASSUME MouseInv, TurnToReading
  PROVE  MouseInv'
<1>1. CardFits(mouse, ports, firmware, notes) /\ firmware.phase = "bank"
  BY DEF MouseInv, TurnToReading
<1>2. PICK fw : fw = [firmware EXCEPT !.phase = "take"]
  OBVIOUS
<1>3. MouseWriteOrb(ReadBank, fw) /\ ports.b.ddr = CardDriven
  BY <1>1, <1>2, StrobesAre DEF TurnToReading
<1>4. fw \in Calling /\ fw.phase = "take"
  BY <1>1, <1>2 DEF CardFits, Calling, CallPhases
<1>5. Talking(mouse, fw) /\ Reads(mouse, ports, fw, notes)
  BY <1>1, <1>2 DEF CardFits, Talking, Replying, Reads, Calling
<1>6. ReadBank \in MouseBytes /\ WriteStrobe \notin ReadBank /\ ReadStrobe \notin ReadBank
  BY DEF ReadBank, MouseBytes, Lines, WriteStrobe, ReadStrobe
<1>7. WriteStrobe \notin mouse.shadowB /\ ReadStrobe \notin mouse.shadowB
  BY <1>1, StrobesAre DEF WriteStrobe, ReadStrobe
<1>. QED BY <1>3, <1>4, <1>5, <1>6, <1>7, QuietOrb

LEMMA ReadRises ==
  ASSUME MouseInv, RaiseRead
  PROVE  MouseInv'
<1>1. CardFits(mouse, ports, firmware, notes) /\ firmware.phase = "ack"
  BY DEF MouseInv, RaiseRead
<1>2. PICK data : data = mouse.shadowB \cup {ReadStrobe}
  OBVIOUS
<1>3. PICK fw : fw = [firmware EXCEPT !.phase = "acked"]
  OBVIOUS
<1>4. MouseWriteOrb(data, fw) /\ ports.b.ddr = CardDriven
  BY <1>1, <1>2, <1>3, StrobesAre DEF RaiseRead
<1>5. fw \in Calling /\ fw.phase = "acked"
  BY <1>1, <1>3 DEF CardFits, Calling, CallPhases
<1>6. Talking(mouse, fw) /\ Reads(mouse, ports, fw, notes)
  BY <1>1, <1>3 DEF CardFits, Talking, Replying, Reads, Calling
<1>7. data \in MouseBytes /\ ReadStrobe \in data /\ WriteStrobe \notin data
        /\ WriteStrobe \notin mouse.shadowB
  BY <1>1, <1>2, StrobesAre DEF MouseBytes, Lines, WriteStrobe, ReadStrobe
<1>. QED BY <1>4, <1>5, <1>6, <1>7, QuietOrb

LEMMA WriteFalls ==
  ASSUME MouseInv, LowerWrite
  PROVE  MouseInv'
<1>1. CardFits(mouse, ports, firmware, notes) /\ firmware.phase = "sent"
  BY DEF MouseInv, LowerWrite
<1>2. mouse \in Mice /\ ports \in MousePorts /\ firmware \in Calling /\ notes \in Noting
      /\ (mouse.sources # {} => mouse.irq)
  BY <1>1 DEF CardFits, Accounted
<1>3. PICK data : data = mouse.shadowB \ {WriteStrobe}
  OBVIOUS
<1>4. PICK fw : fw = [firmware EXCEPT !.phase = IF firmware.todo # <<>> THEN "put"
                                                ELSE IF firmware.replies > 0 THEN "bank" ELSE "idle"]
  OBVIOUS
<1>5. MouseWriteOrb(data, fw) /\ ports.b.ddr = CardDriven
  BY <1>1, <1>3, <1>4, StrobesAre DEF LowerWrite
<1>6. fw \in Calling /\ fw.todo = firmware.todo /\ fw.heard = firmware.heard
        /\ fw.replies = firmware.replies
      /\ fw.phase = IF firmware.todo # <<>> THEN "put" ELSE IF firmware.replies > 0 THEN "bank"
           ELSE "idle"
  BY <1>2, <1>4 DEF Calling, CallPhases
<1>7. /\ data \in MouseBytes /\ WriteStrobe \notin data /\ ReadStrobe \notin data
      /\ WriteStrobe \in mouse.shadowB /\ ReadStrobe \notin mouse.shadowB
  BY <1>1, <1>3, StrobesAre DEF MouseBytes, Lines, WriteStrobe, ReadStrobe
<1>8. PICK t : t = MouseTicked(mouse)
  OBVIOUS
<1>9. t \in Mice /\ SameTalk(mouse, t) /\ NoneDropped(mouse, t)
  BY <1>2, <1>8, TickedIs
<1>10. PICK out : out = LinesOf(data)
  OBVIOUS
<1>11. out \in MouseBytes /\ WriteStrobe \notin out /\ ReadStrobe \notin out
         /\ Showing(out) \in MouseBytes
  BY <1>7, <1>10, PortLinesAre, ShowingIs
<1>12. WriteStrobe \in t.shadowB /\ ReadStrobe \notin t.shadowB /\ Answering(t) /\ Measured(t)
  BY <1>1, <1>7, <1>9 DEF CardFits, SameTalk, Answering, Measured
<1>13. PICK coming \in Nat \ {0} : coming = Len(firmware.todo) + 1
  <2>1. Len(firmware.todo) \in Nat
    BY <1>2 DEF Calling
  <2>. QED BY <2>1
<1>14. PICK byte \in MouseBytes : byte = mouse.shadowA /\ byte = t.shadowA
  BY <1>2, <1>9 DEF Mice, SameTalk
<1>15. /\ t.pos = 0 => coming = CommandOutLen(byte) /\ firmware.replies = CommandInLen(byte)
       /\ t.pos # 0 => t.pos + coming = t.outLen /\ t.replyPos = 0 /\ firmware.replies = t.inLen
       /\ firmware.heard = <<>>
  BY <1>1, <1>9, <1>13, <1>14 DEF CardFits, SameTalk, Talking, Sending
<1>16. PICK s : s = Taken(t, byte)
  OBVIOUS
<1>17. Swallowed(t, byte, coming, s)
  BY <1>9, <1>12, <1>15, <1>16, TakenIsSwallowed DEF NoneDropped
<1>18. PICK a : a = [s EXCEPT !.shadowB = Showing(out)]
  OBVIOUS
<1>19. a \in Mice
  BY <1>11, <1>17, <1>18 DEF Mice, Swallowed
<1>20. /\ a.shadowA = s.shadowA /\ a.buffer = s.buffer /\ a.pos = s.pos /\ a.outLen = s.outLen
       /\ a.inLen = s.inLen /\ a.replyPos = s.replyPos /\ a.shadowB = Showing(out)
       /\ a.sources = s.sources /\ a.irq = s.irq /\ a.toTick = s.toTick /\ a.period = s.period
  BY <1>17, <1>18 DEF Mice, Swallowed
<1>21. a = Heeded(t, out)
  BY <1>9, <1>11, <1>12, <1>14, <1>16, <1>18, WriteHeeded
<1>22. /\ ports' = [a |-> [ports.a EXCEPT !.in = Presented(t, a, out, ports.a.in)],
                    b |-> [ports.b EXCEPT !.out = data, !.in = Showing(out)]]
       /\ notes' = [reading |-> IF Falls(t, out, WriteStrobe)
                                THEN [at |-> t.at, status |-> ReplyStatus(t)] ELSE notes.reading,
                    readSince |-> a.irq /\ (notes.readSince \/ (t.sources # {} /\ a.sources = {})),
                    firstWake |-> FALSE]
  BY ZenonT(60), <1>1, <1>5, <1>7, <1>8, <1>9, <1>10, <1>19, <1>20, <1>21, OrbIsWritten
<1>23. Falls(t, out, WriteStrobe)
  BY <1>11, <1>12 DEF Falls, Edge
<1>24. Measured(a)
  BY <1>17, <1>20 DEF Measured, Swallowed
<1>25. firmware.replies = s.inLen /\ s.inLen \in 0 .. 5 /\ s.replyPos = 0
  BY <1>15, <1>17 DEF Swallowed, Mice
<1>26. firmware.todo # <<>> <=> coming > 1
  BY <1>2, <1>13, EmptySeq DEF Calling
<1>27. Talking(a, fw)
  <2>1. CASE firmware.todo # <<>>
    <3>1. s.pos # 0 /\ s.pos + Len(firmware.todo) = s.outLen
      <4>1. Len(firmware.todo) = coming - 1
        BY <1>2, <1>13 DEF Calling
      <4>. QED BY <1>17, <1>26, <2>1, <4>1 DEF Swallowed
    <3>. QED BY <1>6, <1>15, <1>20, <1>25, <2>1, <3>1 DEF Talking, Sending
  <2>2. CASE firmware.todo = <<>>
    <3>1. s.pos = 0
      BY <1>17, <1>26, <2>2 DEF Swallowed
    <3>. QED BY <1>6, <1>15, <1>20, <1>25, <2>2, <3>1 DEF Talking, Replying
  <2>. QED BY <2>1, <2>2
<1>28. Reads(a, ports', fw, notes')
  <2>1. fw.heard = <<>> /\ Len(fw.heard) = 0
    BY <1>6, <1>15
  <2>2. ASSUME fw.phase \in {"bank", "take", "ack", "acked"}, Named(a.buffer[0]) = "read"
        PROVE  (\A i \in 1 .. 5 : a.buffer[i] = ReadingOf(notes')[i])
                 /\ ports'.a.in = a.buffer[a.replyPos + 1]
    <3>1. firmware.todo = <<>> /\ firmware.replies > 0 /\ coming = 1
      BY <1>6, <1>13, <1>26, <2>2
    <3>2. ReadingOf(notes') = ReadingOf(ReadingTaken(t))
      BY <1>22, <1>23 DEF ReadingOf, ReadingTaken
    <3>3. \A i \in 1 .. 5 : a.buffer[i] = ReadingOf(notes')[i]
      BY <1>17, <1>20, <2>2, <3>1, <3>2 DEF Swallowed
    <3>4. a.pos = 0 /\ a.replyPos < a.inLen /\ a.replyPos = 0
      BY <1>17, <1>20, <1>25, <3>1 DEF Swallowed
    <3>5. a.outLen = 1
      BY <1>24, <2>2, Lengths DEF Measured
    <3>6. Presented(t, a, out, ports.a.in) = a.buffer[1]
      BY <1>23, <3>4, <3>5 DEF Presented
    <3>7. ports'.a.in = a.buffer[1]
      BY <1>2, <1>22, <3>6 DEF MousePorts, MouseSides
    <3>. QED BY <3>3, <3>4, <3>7
  <2>. QED BY <1>6, <2>1, <2>2 DEF Reads
<1>29. Accounted(a, notes')
  <2>1. t.irq => t.sources # {} \/ notes.readSince
    BY <1>1, <1>9 DEF CardFits, Accounted, NoneDropped
  <2>. QED BY <1>17, <1>20, <1>22, <2>1 DEF Accounted, Swallowed
<1>30. fw.phase # "sent" /\ fw.phase # "acked"
  BY <1>6
<1>. QED BY <1>5, <1>6, <1>7, <1>8, <1>9, <1>10, <1>19, <1>20, <1>21, <1>24, <1>27, <1>28, <1>29,
            <1>30, OrbFits

LEMMA ReadFalls ==
  ASSUME MouseInv, LowerRead
  PROVE  MouseInv'
<1>1. CardFits(mouse, ports, firmware, notes) /\ firmware.phase = "acked"
  BY DEF MouseInv, LowerRead
<1>2. mouse \in Mice /\ ports \in MousePorts /\ firmware \in Calling
        /\ (mouse.sources # {} => mouse.irq)
  BY <1>1 DEF CardFits, Accounted
<1>3. PICK data : data = mouse.shadowB \ {ReadStrobe}
  OBVIOUS
<1>4. PICK fw : fw = IF firmware.replies > 1
                     THEN [firmware EXCEPT !.replies = firmware.replies - 1, !.phase = "take"]
                       ELSE MouseIdle
  OBVIOUS
<1>5. MouseWriteOrb(data, fw) /\ ports.b.ddr = CardDriven
  <2>1. [firmware EXCEPT !.replies = @ - 1, !.phase = "take"]
          = [firmware EXCEPT !.replies = firmware.replies - 1, !.phase = "take"]
    OBVIOUS
  <2>. QED BY <1>1, <1>3, <1>4, <2>1, StrobesAre DEF LowerRead
<1>6. fw \in Calling
  <2>1. firmware.replies - 1 \in Int
    BY <1>2 DEF Calling
  <2>2. PICK g : g = [firmware EXCEPT !.phase = "take"]
    OBVIOUS
  <2>3. g \in Calling
    BY <1>2, <2>2 DEF Calling, CallPhases
  <2>4. [firmware EXCEPT !.replies = firmware.replies - 1, !.phase = "take"]
          = [g EXCEPT !.replies = firmware.replies - 1]
    BY <1>2, <2>2 DEF Calling
  <2>5. [g EXCEPT !.replies = firmware.replies - 1] \in Calling
    BY <2>1, <2>3 DEF Calling
  <2>6. MouseIdle \in Calling
    BY DEF Calling, CallPhases, MouseIdle
  <2>. QED BY <1>4, <2>4, <2>5, <2>6
<1>7. IF firmware.replies > 1
      THEN fw.todo = firmware.todo /\ fw.heard = firmware.heard /\ fw.replies = firmware.replies - 1
        /\ fw.phase = "take"
      ELSE fw.heard = <<>> /\ fw.phase = "idle"
  BY <1>2, <1>4 DEF Calling, MouseIdle
<1>8. /\ data \in MouseBytes /\ WriteStrobe \notin data /\ ReadStrobe \notin data
      /\ ReadStrobe \in mouse.shadowB /\ WriteStrobe \notin mouse.shadowB
  BY <1>1, <1>3, StrobesAre DEF MouseBytes, Lines, WriteStrobe, ReadStrobe
<1>9. PICK t : t = MouseTicked(mouse)
  OBVIOUS
<1>10. t \in Mice /\ SameTalk(mouse, t) /\ NoneDropped(mouse, t)
  BY <1>2, <1>9, TickedIs
<1>11. PICK out : out = LinesOf(data)
  OBVIOUS
<1>12. out \in MouseBytes /\ WriteStrobe \notin out /\ ReadStrobe \notin out
         /\ Showing(out) \in MouseBytes
  BY <1>8, <1>11, PortLinesAre, ShowingIs
<1>13. ReadStrobe \in t.shadowB /\ WriteStrobe \notin t.shadowB /\ Answering(t) /\ Measured(t)
  BY <1>1, <1>8, <1>10 DEF CardFits, SameTalk, Answering, Measured
<1>14. /\ t.pos = 0 /\ firmware.todo = <<>> /\ t.replyPos < t.inLen
            /\ firmware.replies = t.inLen - t.replyPos
       /\ Len(firmware.heard) = t.replyPos + 1
  BY <1>1, <1>10 DEF CardFits, SameTalk, Talking, Replying
<1>15. PICK k \in 1 .. 5 : k = t.replyPos + 1
  BY <1>10, <1>14 DEF Mice
<1>16. PICK c : c = [t EXCEPT !.replyPos = t.replyPos + 1]
  OBVIOUS
<1>17. t.replyPos + 1 \in 0 .. 5
  BY <1>10, <1>14 DEF Mice
<1>18. c \in Mice
  BY <1>10, <1>16, <1>17 DEF Mice
<1>19. PICK a : a = [t EXCEPT !.replyPos = t.replyPos + 1, !.shadowB = Showing(out)]
  OBVIOUS
<1>20. a = [c EXCEPT !.shadowB = Showing(out)]
  BY <1>10, <1>16, <1>19 DEF Mice
<1>21. a \in Mice
  BY <1>12, <1>18, <1>20 DEF Mice
<1>22. /\ a.buffer = t.buffer /\ a.pos = t.pos /\ a.outLen = t.outLen
       /\ a.inLen = t.inLen /\ a.replyPos = t.replyPos + 1 /\ a.shadowB = Showing(out)
       /\ a.sources = t.sources /\ a.irq = t.irq /\ a.toTick = t.toTick /\ a.period = t.period
  BY <1>10, <1>19 DEF Mice
<1>23. a = Heeded(t, out)
  BY <1>10, <1>12, <1>13, <1>14, <1>19, ReadHeeded
<1>24. /\ ports' = [a |-> [ports.a EXCEPT !.in = Presented(t, a, out, ports.a.in)],
                    b |-> [ports.b EXCEPT !.out = data, !.in = Showing(out)]]
       /\ notes' = [reading |-> IF Falls(t, out, WriteStrobe)
                                THEN [at |-> t.at, status |-> ReplyStatus(t)] ELSE notes.reading,
                    readSince |-> a.irq /\ (notes.readSince \/ (t.sources # {} /\ a.sources = {})),
                    firstWake |-> FALSE]
  BY ZenonT(60), <1>1, <1>5, <1>8, <1>9, <1>10, <1>11, <1>21, <1>22, <1>23, OrbIsWritten
<1>25. Falls(t, out, ReadStrobe) /\ ~Falls(t, out, WriteStrobe)
  BY <1>12, <1>13 DEF Falls, Edge
<1>26. Measured(a)
  BY <1>10, <1>13, <1>14, <1>22 DEF Measured, Mice
<1>27. t.replyPos \in Int /\ t.inLen \in Int
  BY <1>10 DEF Mice
<1>28. Talking(a, fw)
  BY <1>7, <1>14, <1>22, <1>27 DEF Talking, Replying
<1>29. Reads(a, ports', fw, notes')
  <2>1. CASE firmware.replies > 1
    <3>1. SUFFICES ASSUME Named(a.buffer[0]) = "read"
                   PROVE  /\ \A i \in 1 .. Len(fw.heard) : fw.heard[i] = ReadingOf(notes')[i]
                          /\ \A i \in 1 .. 5 : a.buffer[i] = ReadingOf(notes')[i]
                          /\ ports'.a.in = a.buffer[a.replyPos + 1]
      BY DEF Reads
    <3>2. ReadingOf(notes') = ReadingOf(notes)
      BY <1>24, <1>25 DEF ReadingOf
    <3>3. mouse.buffer = a.buffer /\ Reads(mouse, ports, firmware, notes)
      BY <1>1, <1>10, <1>22 DEF CardFits, SameTalk
    <3>4. /\ \A i \in 1 .. Len(fw.heard) : fw.heard[i] = ReadingOf(notes')[i]
          /\ \A i \in 1 .. 5 : a.buffer[i] = ReadingOf(notes')[i]
      BY <1>1, <1>7, <2>1, <3>1, <3>2, <3>3 DEF Reads
    <3>5. a.outLen = 1
      BY <1>26, <3>1, Lengths DEF Measured
    <3>6. a.replyPos < a.inLen /\ a.outLen + a.replyPos = a.replyPos + 1
      BY <1>14, <1>22, <1>27, <2>1, <3>5
    <3>7. Presented(t, a, out, ports.a.in) = a.buffer[a.replyPos + 1]
      BY <1>25, <3>6 DEF Presented
    <3>8. ports'.a.in = a.buffer[a.replyPos + 1]
      BY <1>2, <1>24, <3>7 DEF MousePorts, MouseSides
    <3>. QED BY <3>4, <3>8
  <2>2. CASE ~(firmware.replies > 1)
    <3>1. fw.phase = "idle" /\ Len(fw.heard) = 0
      BY <1>7, <2>2
    <3>. QED BY <3>1 DEF Reads
  <2>. QED BY <2>1, <2>2
<1>30. Accounted(a, notes')
  <2>1. t.irq => t.sources # {} \/ notes.readSince
    BY <1>1, <1>10 DEF CardFits, Accounted, NoneDropped
  <2>. QED BY <1>10, <1>22, <1>24, <2>1 DEF Accounted, NoneDropped
<1>31. fw.phase # "sent" /\ fw.phase # "acked"
  BY <1>7
<1>. QED BY <1>5, <1>6, <1>8, <1>9, <1>10, <1>11, <1>21, <1>22, <1>23, <1>26, <1>28, <1>29, <1>30,
            <1>31, OrbFits

(* The steps that tick the card and leave the talk where it was, but for *)
(* what they say of themselves.                                          *)
LEMMA StepFits ==
  ASSUME HostKnows, KeptFits, mouseHost' = HostAfter(mouse'), mouseKept' = mouseKept,
         CardFits(mouse', ports', firmware', notes')
  PROVE  MouseInv'
<1>1. HostKnows'
  BY HostIsTold
<1>2. KeptFits'
  BY DEF KeptFits
<1>3. CardFits(mouse, ports, firmware, notes)'
  OBVIOUS
<1>. QED BY <1>1, <1>2, <1>3 DEF MouseInv

LEMMA BytePut ==
  ASSUME MouseInv, PutByte
  PROVE  MouseInv'
<1>1. CardFits(mouse, ports, firmware, notes) /\ firmware.phase = "put" /\ HostKnows /\ KeptFits
  BY DEF MouseInv, PutByte
<1>2. PICK t : t = MouseTicked(mouse)
  OBVIOUS
<1>3. CardFits(t, ports, firmware, [notes EXCEPT !.firstWake = FALSE])
  BY <1>1, <1>2, TickGoesOn
<1>4. PICK byte : byte = ByteOf(Head(firmware.todo))
  OBVIOUS
<1>5. byte \in MouseBytes
  BY <1>4, BytesAre
<1>6. PICK a, q, fw, k :
        /\ a = [t EXCEPT !.shadowA = byte]
        /\ q = [ports EXCEPT !.a.ddr = Lines, !.a.out = byte, !.a.cr = {"ddr"}]
        /\ fw = [firmware EXCEPT !.phase = "raise", !.todo = Tail(firmware.todo)]
        /\ k = [notes EXCEPT !.firstWake = FALSE]
  OBVIOUS
<1>7. mouse' = a /\ ports' = q /\ firmware' = fw /\ notes' = k /\ mouseHost' = HostAfter(t)
        /\ mouseKept' = mouseKept
  BY <1>2, <1>4, <1>6 DEF PutByte
<1>8. t \in Mice /\ ports \in MousePorts /\ firmware \in Calling /\ k \in Noting
  BY <1>3, <1>6 DEF CardFits
<1>9. a \in Mice
  BY <1>5, <1>6, <1>8 DEF Mice
<1>10. /\ a.shadowA = byte /\ a.buffer = t.buffer /\ a.pos = t.pos /\ a.outLen = t.outLen
       /\ a.inLen = t.inLen /\ a.replyPos = t.replyPos /\ a.shadowB = t.shadowB
       /\ a.sources = t.sources /\ a.irq = t.irq /\ a.toTick = t.toTick /\ a.period = t.period
  BY <1>6, <1>8 DEF Mice
<1>11. q \in MousePorts /\ q.b = ports.b /\ q.a.in = ports.a.in
  <2>1. PICK w : w = [ports.a EXCEPT !.ddr = Lines, !.out = byte, !.cr = {"ddr"}]
    OBVIOUS
  <2>2. w \in MouseSides /\ w.in = ports.a.in
    BY <1>5, <1>8, <2>1 DEF MousePorts, MouseSides, MouseBytes
  <2>3. q = [ports EXCEPT !.a = w]
    BY <1>6, <1>8, <2>1 DEF MousePorts, MouseSides
  <2>. QED BY <1>8, <2>2, <2>3 DEF MousePorts
<1>12. /\ Talking(t, firmware) /\ Wired(t, ports, firmware) /\ Accounted(t, k) /\ Answering(t)
            /\ Measured(t)
  BY <1>3, <1>6 DEF CardFits
<1>13. firmware.heard = <<>> /\ firmware.todo # <<>> /\ firmware.todo \in Seq(0 .. 255)
       /\ Sending(t, firmware, byte, Len(firmware.todo))
  BY <1>1, <1>4, <1>8, <1>12 DEF Talking, Calling
<1>14. Tail(firmware.todo) \in Seq(0 .. 255) /\ Len(Tail(firmware.todo)) + 1 = Len(firmware.todo)
  BY <1>13, HeadTailProperties
<1>15. /\ fw \in Calling /\ fw.phase = "raise" /\ fw.todo = Tail(firmware.todo) /\ fw.heard = <<>>
       /\ fw.replies = firmware.replies
  BY <1>6, <1>8, <1>13, <1>14 DEF Calling, CallPhases
<1>16. Talking(a, fw)
  BY <1>10, <1>13, <1>14, <1>15 DEF Talking, Sending
<1>17. Wired(a, q, fw)
  BY <1>1, <1>10, <1>11, <1>12, <1>15 DEF Wired
<1>18. Reads(a, q, fw, k)
  BY <1>15 DEF Reads
<1>19. Accounted(a, k) /\ Answering(a) /\ Measured(a)
  BY <1>10, <1>12 DEF Accounted, Answering, Measured
<1>20. CardFits(mouse', ports', firmware', notes')
  BY <1>7, <1>8, <1>9, <1>11, <1>15, <1>16, <1>17, <1>18, <1>19 DEF CardFits
<1>21. mouseHost' = HostAfter(mouse')
  BY <1>7, <1>10 DEF HostAfter
<1>. QED BY <1>1, <1>7, <1>20, <1>21, StepFits

LEMMA ReplyTaken ==
  ASSUME MouseInv, TakeReply
  PROVE  MouseInv'
<1>1. CardFits(mouse, ports, firmware, notes) /\ firmware.phase = "take" /\ HostKnows /\ KeptFits
  BY DEF MouseInv, TakeReply
<1>2. PICK t : t = MouseTicked(mouse)
  OBVIOUS
<1>3. PICK k : k = [notes EXCEPT !.firstWake = FALSE]
  OBVIOUS
<1>4. CardFits(t, ports, firmware, k)
  BY <1>1, <1>2, <1>3, TickGoesOn
<1>5. t \in Mice /\ ports \in MousePorts /\ firmware \in Calling /\ k \in Noting
  BY <1>4 DEF CardFits
<1>6. PICK q : q = [ports EXCEPT !.a.ddr = {}, !.a.cr = {"ddr"}]
  OBVIOUS
<1>7. q \in MousePorts /\ q.b = ports.b /\ q.a.in = ports.a.in /\ q.a.cr = {"ddr"}
  <2>1. PICK w : w = [ports.a EXCEPT !.ddr = {}, !.cr = {"ddr"}]
    OBVIOUS
  <2>2. w \in MouseSides /\ w.in = ports.a.in /\ w.cr = {"ddr"}
    BY <1>5, <2>1 DEF MousePorts, MouseSides, MouseBytes
  <2>3. q = [ports EXCEPT !.a = w]
    BY <1>5, <1>6, <2>1 DEF MousePorts, MouseSides
  <2>. QED BY <1>5, <2>2, <2>3 DEF MousePorts
<1>8. PICK got \in MouseBytes : got = ports.a.in
  BY <1>5 DEF MousePorts, MouseSides
<1>9. PiaData("a", q.a) = got
  BY <1>7, <1>8 DEF PiaData, PiaSelected
<1>10. PICK fw : fw = [firmware EXCEPT !.heard = Append(firmware.heard, got), !.phase = "ack"]
  OBVIOUS
<1>11. /\ mouse' = t /\ ports' = q /\ firmware' = fw /\ notes' = k /\ mouseHost' = HostAfter(mouse')
       /\ mouseKept' = mouseKept
  BY <1>2, <1>3, <1>6, <1>9, <1>10 DEF TakeReply
<1>12. firmware.heard \in Seq(MouseBytes)
  BY <1>5 DEF Calling
<1>13. /\ Append(firmware.heard, got) \in Seq(MouseBytes)
       /\ Len(Append(firmware.heard, got)) = Len(firmware.heard) + 1
       /\ \A i \in 1 .. Len(firmware.heard) : Append(firmware.heard, got)[i] = firmware.heard[i]
       /\ Append(firmware.heard, got)[Len(firmware.heard) + 1] = got
  BY <1>12, AppendProperties
<1>14. /\ fw \in Calling /\ fw.phase = "ack" /\ fw.heard = Append(firmware.heard, got)
       /\ fw.todo = firmware.todo /\ fw.replies = firmware.replies
  BY <1>5, <1>10, <1>13 DEF Calling, CallPhases
<1>15. /\ Talking(t, firmware) /\ Wired(t, ports, firmware) /\ Reads(t, ports, firmware, k)
            /\ Measured(t)
       /\ Accounted(t, k) /\ Answering(t)
  BY <1>4 DEF CardFits
<1>16. Replying(t, firmware) /\ Len(firmware.heard) = t.replyPos
  BY <1>1, <1>15 DEF Talking
<1>17. Talking(t, fw)
  BY <1>13, <1>14, <1>16 DEF Talking, Replying
<1>18. Wired(t, q, fw)
  BY <1>1, <1>7, <1>14, <1>15 DEF Wired
<1>19. Reads(t, q, fw, k)
  <2>1. SUFFICES ASSUME Named(t.buffer[0]) = "read"
                 PROVE  /\ \A i \in 1 .. Len(fw.heard) : fw.heard[i] = ReadingOf(k)[i]
                        /\ \A i \in 1 .. 5 : t.buffer[i] = ReadingOf(k)[i]
    BY <1>14 DEF Reads
  <2>2. /\ \A i \in 1 .. Len(firmware.heard) : firmware.heard[i] = ReadingOf(k)[i]
        /\ \A i \in 1 .. 5 : t.buffer[i] = ReadingOf(k)[i]
        /\ ports.a.in = t.buffer[t.replyPos + 1]
    BY <1>1, <1>15, <2>1 DEF Reads
  <2>3. t.inLen = 5
    BY <1>15, <2>1, Lengths DEF Measured
  <2>4. t.replyPos + 1 \in 1 .. 5
    BY <1>5, <1>16, <2>3 DEF Mice, Replying
  <2>5. got = ReadingOf(k)[t.replyPos + 1]
    BY <1>8, <2>2, <2>4
  <2>6. ASSUME NEW i \in 1 .. Len(fw.heard)
        PROVE  fw.heard[i] = ReadingOf(k)[i]
    <3>1. Len(firmware.heard) \in Nat /\ Len(fw.heard) = Len(firmware.heard) + 1
      BY <1>12, <1>13, <1>14
    <3>2. CASE i \in 1 .. Len(firmware.heard)
      BY <1>13, <1>14, <2>2, <3>2
    <3>3. CASE i = Len(firmware.heard) + 1
      BY <1>13, <1>14, <1>16, <2>5, <3>3
    <3>. QED BY <3>1, <3>2, <3>3
  <2>. QED BY <2>2, <2>6
<1>20. CardFits(mouse', ports', firmware', notes')
  BY <1>5, <1>7, <1>11, <1>14, <1>15, <1>17, <1>18, <1>19 DEF CardFits
<1>. QED BY <1>1, <1>11, <1>20, StepFits

LEMMA PortTurned ==
  ASSUME MouseInv, TurnPortB
  PROVE  MouseInv'
<1>1. CardFits(mouse, ports, firmware, notes) /\ firmware.phase = "idle" /\ HostKnows /\ KeptFits
  BY DEF MouseInv, TurnPortB
<1>2. PICK t, k : t = MouseTicked(mouse) /\ k = [notes EXCEPT !.firstWake = FALSE]
  OBVIOUS
<1>3. CardFits(t, ports, firmware, k)
  BY <1>1, <1>2, TickGoesOn
<1>4. PICK d : d = IF ports.b.ddr = CardDriven THEN {} ELSE CardDriven
  OBVIOUS
<1>5. d \in {{}, CardDriven} /\ d \in MouseBytes
  BY <1>4 DEF MouseBytes, Lines, CardDriven, Bank, ReadStrobe, WriteStrobe
<1>6. PICK q : q = [ports EXCEPT !.b.cr = {"ddr"}, !.b.ddr = d]
  OBVIOUS
<1>7. ports \in MousePorts
  BY <1>3 DEF CardFits
<1>8. q \in MousePorts /\ q.a = ports.a /\ q.b.in = ports.b.in /\ q.b.cr = {"ddr"} /\ q.b.ddr = d
        /\ q.b.out = ports.b.out
  <2>1. PICK w : w = [ports.b EXCEPT !.cr = {"ddr"}, !.ddr = d]
    OBVIOUS
  <2>2. w \in MouseSides /\ w.in = ports.b.in /\ w.cr = {"ddr"} /\ w.ddr = d /\ w.out = ports.b.out
    BY <1>5, <1>7, <2>1 DEF MousePorts, MouseSides
  <2>3. q = [ports EXCEPT !.b = w]
    BY <1>6, <1>7, <2>1 DEF MousePorts, MouseSides
  <2>. QED BY <1>7, <2>2, <2>3 DEF MousePorts
<1>9. ports' = q
  BY <1>4, <1>6, <1>7 DEF TurnPortB, MousePorts, MouseSides
<1>10. mouse' = t /\ firmware' = firmware /\ notes' = k /\ mouseHost' = HostAfter(mouse')
         /\ mouseKept' = mouseKept
  BY <1>2 DEF TurnPortB
<1>11. Wired(t, q, firmware)
  BY <1>1, <1>3, <1>5, <1>8 DEF CardFits, Wired
<1>12. Reads(t, q, firmware, k)
  BY <1>1, <1>3 DEF CardFits, Reads
<1>13. CardFits(mouse', ports', firmware', notes')
  BY <1>3, <1>8, <1>9, <1>10, <1>11, <1>12 DEF CardFits
<1>. QED BY <1>1, <1>10, <1>13, StepFits

(* The host's steps *)
LEMMA CycleFits ==
  ASSUME MouseInv, MouseCycle
  PROVE  MouseInv'
<1>1. CardFits(mouse, ports, firmware, notes) /\ HostKnows /\ KeptFits
  BY DEF MouseInv
<1>2. PICK t : t = [mouse EXCEPT !.toTick = mouse.toTick - 1]
  OBVIOUS
<1>3. mouse \in Mice /\ notes \in Noting /\ (mouse.sources # {} => mouse.irq)
        /\ mouse.toTick <= mouse.period
  BY <1>1 DEF CardFits, Accounted
<1>4. mouse.toTick \in Int /\ mouse.toTick - 1 \in Int /\ mouse.period \in Int
  BY <1>3 DEF Mice
<1>5. t \in Mice /\ t.toTick = mouse.toTick - 1 /\ t.period = mouse.period
  BY <1>2, <1>3, <1>4 DEF Mice
<1>6. SameTalk(mouse, t) /\ t.sources = mouse.sources /\ t.irq = mouse.irq
  BY <1>2, <1>3 DEF Mice, SameTalk
<1>7. NoneDropped(mouse, t)
  BY <1>3, <1>4, <1>5, <1>6 DEF NoneDropped
<1>8. CardFits(t, ports, firmware, notes)
  BY <1>1, <1>3, <1>5, <1>6, <1>7, TalkGoesOn
<1>9. /\ mouse' = t /\ ports' = ports /\ firmware' = firmware /\ notes' = notes
           /\ mouseKept' = mouseKept
      /\ mouseHost' = [mouseHost EXCEPT !.wake = mouseHost.wake - 1] /\ ~notes.firstWake
  BY <1>2 DEF MouseCycle
<1>10. HostKnows'
  <2>1. mouseHost = [line |-> mouse.irq, wake |-> mouse.toTick, bank |-> mouse.shadowB \cap Bank]
    BY <1>1, <1>9 DEF HostKnows
  <2>2. mouseHost' = [line |-> t.irq, wake |-> t.toTick, bank |-> t.shadowB \cap Bank]
    BY <1>5, <1>6, <1>9, <2>1 DEF SameTalk
  <2>3. mouseHost'.wake = mouse'.toTick
    BY <1>9, <2>2
  <2>4. mouseHost' = [line |-> mouse'.irq, wake |-> mouseHost'.wake, bank |-> mouse'.shadowB \cap Bank]
    BY <1>9, <2>2, <2>3
  <2>. QED BY <2>3, <2>4 DEF HostKnows
<1>11. KeptFits'
  BY <1>1, <1>9 DEF KeptFits
<1>12. CardFits(mouse, ports, firmware, notes)'
  BY <1>8, <1>9
<1>. QED BY <1>10, <1>11, <1>12 DEF MouseInv

LEMMA ThinkFits ==
  ASSUME MouseInv, MouseThink
  PROVE  MouseInv'
<1>1. CardFits(mouse, ports, firmware, notes) /\ HostKnows /\ KeptFits
  BY DEF MouseInv
<1>2. CardFits(MouseTicked(mouse), ports, firmware, [notes EXCEPT !.firstWake = FALSE])
  BY <1>1, TickGoesOn
<1>3. CardFits(mouse', ports', firmware', notes')
  BY <1>2 DEF MouseThink
<1>. QED BY <1>1, <1>3, StepFits DEF MouseThink

(* The hand moves the mouse: the card's talk, line and tick are as they were. *)
LEMMA HandFits ==
  ASSUME MouseInv, mouse' \in Mice, SameTalk(mouse, mouse'), mouse'.sources = mouse.sources,
         mouse'.irq = mouse.irq, mouse'.toTick = mouse.toTick, mouse'.period = mouse.period,
         UNCHANGED <<ports, mouseHost, firmware, notes, mouseKept>>
  PROVE  MouseInv'
<1>1. CardFits(mouse, ports, firmware, notes) /\ HostKnows /\ KeptFits
  BY DEF MouseInv
<1>2. notes \in Noting /\ (mouse.sources # {} => mouse.irq) /\ mouse.toTick <= mouse.period
  BY <1>1 DEF CardFits, Accounted
<1>3. NoneDropped(mouse, mouse')
  BY <1>2 DEF NoneDropped
<1>4. PICK t : t = mouse'
  OBVIOUS
<1>5. CardFits(t, ports, firmware, notes)
  BY <1>1, <1>2, <1>3, <1>4, TalkGoesOn
<1>6. CardFits(mouse, ports, firmware, notes)'
  BY <1>4, <1>5
<1>7. HostKnows'
  BY <1>1 DEF HostKnows, SameTalk
<1>8. KeptFits'
  BY <1>1 DEF KeptFits
<1>. QED BY <1>6, <1>7, <1>8 DEF MouseInv

LEMMA ClampedIs ==
  ASSUME NEW v \in Int, NEW low \in Int, NEW high \in Int
  PROVE  ClampAxis(v, low, high) \in Int
BY DEF ClampAxis

LEMMA MoveFits ==
  ASSUME MouseInv, MouseMove
  PROVE  MouseInv'
<1>1. mouse \in Mice
  BY DEF MouseInv, CardFits
<1>2. PICK d \in Moves :
        LET to == [x |-> ClampAxis(mouse.at.x + Int16(d[1]), mouse.min.x, mouse.max.x),
                   y |-> ClampAxis(mouse.at.y + Int16(d[2]), mouse.min.y, mouse.max.y)]
        IN mouse' = IF "on" \notin mouse.mode \/ to = mouse.at THEN mouse
                    ELSE [mouse EXCEPT !.at = to, !.moved = TRUE, !.pending = @ \cup {"move"}]
  BY DEF MouseMove
<1>3. PICK to : to = [x |-> ClampAxis(mouse.at.x + Int16(d[1]), mouse.min.x, mouse.max.x),
                      y |-> ClampAxis(mouse.at.y + Int16(d[2]), mouse.min.y, mouse.max.y)]
  OBVIOUS
<1>4. to \in Points
  <2>1. d[1] \in Int /\ d[2] \in Int
    BY MouseAssumption
  <2>2. Int16(d[1]) \in Int /\ Int16(d[2]) \in Int
    BY <2>1 DEF Int16, ClampAxis
  <2>3. PICK x \in Int, y \in Int, a \in Int, b \in Int, c \in Int, e \in Int :
          /\ x = mouse.at.x /\ y = mouse.at.y /\ a = mouse.min.x /\ b = mouse.min.y
          /\ c = mouse.max.x /\ e = mouse.max.y
    BY <1>1 DEF Mice, Points
  <2>4. PICK u \in Int, v \in Int : u = x + Int16(d[1]) /\ v = y + Int16(d[2])
    BY <2>2, <2>3
  <2>5. ClampAxis(u, a, c) \in Int /\ ClampAxis(v, b, e) \in Int
    BY <2>3, <2>4, ClampedIs
  <2>6. to = [x |-> ClampAxis(u, a, c), y |-> ClampAxis(v, b, e)]
    BY <1>3, <2>3, <2>4
  <2>. QED BY <2>5, <2>6 DEF Points
<1>5. \/ mouse' = mouse
      \/ mouse' = [mouse EXCEPT !.at = to, !.moved = TRUE, !.pending = mouse.pending \cup {"move"}]
  BY <1>2, <1>3
<1>6. PICK p \in SUBSET MouseSources : p = mouse.pending \cup {"move"}
  BY <1>1 DEF Mice, MouseSources
<1>7. /\ mouse' \in Mice /\ SameTalk(mouse, mouse') /\ mouse'.sources = mouse.sources
      /\ mouse'.irq = mouse.irq /\ mouse'.toTick = mouse.toTick /\ mouse'.period = mouse.period
  BY ZenonT(60), <1>1, <1>4, <1>5, <1>6 DEF Mice, SameTalk
<1>. QED BY <1>7, HandFits DEF MouseMove

LEMMA ButtonFits ==
  ASSUME MouseInv, MouseButton
  PROVE  MouseInv'
<1>1. mouse \in Mice
  BY DEF MouseInv, CardFits
<1>2. PICK p \in SUBSET MouseSources :
        p = IF "on" \in mouse.mode THEN mouse.pending \cup {"button"} ELSE mouse.pending
  BY <1>1 DEF Mice, MouseSources
<1>3. mouse' = [mouse EXCEPT !.button = ~mouse.button, !.pending = p]
  BY <1>2 DEF MouseButton
<1>4. /\ mouse' \in Mice /\ SameTalk(mouse, mouse') /\ mouse'.sources = mouse.sources
      /\ mouse'.irq = mouse.irq /\ mouse'.toTick = mouse.toTick /\ mouse'.period = mouse.period
  BY ZenonT(60), <1>1, <1>3 DEF Mice, SameTalk
<1>. QED BY <1>4, HandFits DEF MouseButton

(* Reset *)
RawMice ==
  [mode : SUBSET MouseModes, at : Points, min : Points, max : Points, read : Points, button : BOOLEAN,
   buttonAtRead : BOOLEAN, moved : BOOLEAN, sources : SUBSET MouseSources,
   pending : SUBSET MouseSources,
   irq : BOOLEAN, rate50 : BOOLEAN, period : Nat, toTick : Int, shadowA : MouseBytes,
   shadowB : MouseBytes, buffer : {<<>>} \cup [0 .. 7 -> MouseBytes], pos : 0 .. 7, outLen : 1 .. 5,
   inLen : 0 .. 5, replyPos : 0 .. 5]

LEMMA NothingSent ==
  Named({}) # "read" /\ CommandOutLen({}) = 1 /\ CommandInLen({}) = 0
<1>1. Group({}) = 0
  BY DEF Group, SumOfBits
<1>2. Named({}) = "set"
  BY <1>1 DEF Named
<1>3. {} # Peek /\ {} # Poke
  BY DEF Peek, Poke
<1>. QED BY <1>2, <1>3 DEF CommandOutLen, CommandInLen

LEMMA MiceAreRaw ==
  ASSUME NEW m \in Mice
  PROVE  m \in RawMice
BY DEF Mice, RawMice

LEMMA ResetIs ==
  ASSUME NEW m \in RawMice, NEW r, r = ResetCard(m)
  PROVE  /\ r \in Mice /\ r.shadowB = {ByteReady} /\ r.buffer[0] = {} /\ r.pos = 0 /\ r.outLen = 1
         /\ r.inLen = 0 /\ r.replyPos = 0 /\ r.sources = {} /\ ~r.irq /\ r.toTick = r.period
<1>1. PICK low, high, z :
        /\ low = [x |-> DefaultMin, y |-> DefaultMin] /\ high = [x |-> DefaultMax, y |-> DefaultMax]
        /\ z = [i \in 0 .. 7 |-> {}]
  OBVIOUS
<1>2. Origin \in Points /\ low \in Points /\ high \in Points
  BY <1>1 DEF Origin, Points, DefaultMin, DefaultMax
<1>3. z \in [0 .. 7 -> MouseBytes] /\ z[0] = {}
  BY <1>1 DEF MouseBytes
<1>4. PICK q \in Nat \ {0} : q = Period60
  BY MouseAssumption
<1>5. PICK d : d = [m EXCEPT !.mode = {}, !.at = Origin, !.min = low, !.max = high, !.pending = {},
                             !.sources = {}, !.irq = FALSE]
  OBVIOUS
<1>6. d \in RawMice /\ d.sources = {} /\ ~d.irq
  BY <1>2, <1>5 DEF RawMice
<1>7. PICK e : e = [d EXCEPT !.shadowA = {}, !.shadowB = {ByteReady}]
  OBVIOUS
<1>8. e \in RawMice
  <2>1. {} \in MouseBytes /\ {ByteReady} \in MouseBytes
    BY DEF MouseBytes, Lines, ByteReady
  <2>. QED BY <1>6, <1>7, <2>1 DEF RawMice
<1>9. PICK b : b = [e EXCEPT !.buffer = z]
  OBVIOUS
<1>10. b \in RawMice
  BY <1>3, <1>8, <1>9 DEF RawMice
<1>11. PICK f : f = [b EXCEPT !.pos = 0]
  OBVIOUS
<1>12. f \in RawMice
  BY <1>10, <1>11 DEF RawMice
<1>13. PICK o : o = [f EXCEPT !.outLen = 1]
  OBVIOUS
<1>14. o \in RawMice
  BY SMTT(40), <1>12, <1>13 DEF RawMice
<1>15. PICK g : g = [o EXCEPT !.inLen = 0]
  OBVIOUS
<1>16. g \in RawMice
  BY SMTT(40), <1>14, <1>15 DEF RawMice
<1>17. PICK p : p = [g EXCEPT !.replyPos = 0]
  OBVIOUS
<1>18. p \in RawMice
  BY SMTT(40), <1>16, <1>17 DEF RawMice
<1>19. PICK h : h = [p EXCEPT !.read = Origin, !.buttonAtRead = FALSE, !.moved = FALSE, !.rate50 = FALSE]
  OBVIOUS
<1>20. h \in RawMice
  BY ZenonT(60), <1>2, <1>18, <1>19 DEF RawMice
<1>21. PICK k : k = [h EXCEPT !.period = q]
  OBVIOUS
<1>22. k \in RawMice
  BY <1>20, <1>21 DEF RawMice
<1>23. r = [k EXCEPT !.toTick = q]
  BY <1>1, <1>4, <1>5, <1>7, <1>9, <1>11, <1>13, <1>15, <1>17, <1>19, <1>21 DEF ResetCard,
     AtDefaults, RawMice
<1>24. r \in RawMice
  <2>1. PICK j \in Int : j = q
    BY <1>4
  <2>2. r = [k EXCEPT !.toTick = j]
    BY <1>23, <2>1
  <2>. QED BY <1>22, <2>2 DEF RawMice
<1>25. /\ r.shadowB = {ByteReady} /\ r.buffer = z /\ r.sources = {} /\ ~r.irq
  <2>1. h.shadowB = {ByteReady} /\ h.buffer = z /\ h.sources = {} /\ ~h.irq
    BY <1>6, <1>7, <1>9, <1>11, <1>13, <1>15, <1>17, <1>19 DEF RawMice
  <2>. QED BY <1>20, <1>21, <1>23, <2>1 DEF RawMice
<1>26. r.pos = 0 /\ r.outLen = 1
  <2>1. o.pos = 0 /\ o.outLen = 1
    BY <1>11, <1>12, <1>13 DEF RawMice
  <2>. QED BY <1>14, <1>15, <1>17, <1>19, <1>21, <1>23, <2>1 DEF RawMice
<1>27. r.inLen = 0 /\ r.replyPos = 0
  <2>1. p.inLen = 0 /\ p.replyPos = 0
    BY <1>15, <1>16, <1>17, <1>14 DEF RawMice
  <2>. QED BY <1>18, <1>19, <1>21, <1>23, <2>1 DEF RawMice
<1>28. r.period = q /\ r.toTick = q
  BY <1>20, <1>21, <1>22, <1>23 DEF RawMice
<1>29. r \in Mice
  BY <1>3, <1>4, <1>24, <1>25, <1>28 DEF RawMice, Mice
<1>. QED BY <1>3, <1>25, <1>26, <1>27, <1>28, <1>29

LEMMA ResetFitsCard ==
  ASSUME NEW m \in RawMice, NEW n \in Noting
  PROVE  CardFits(ResetCard(m), PortsReset, MouseIdle, n)
<1>1. PICK r : r = ResetCard(m)
  OBVIOUS
<1>2. /\ r \in Mice /\ r.shadowB = {ByteReady} /\ r.buffer[0] = {} /\ r.pos = 0 /\ r.outLen = 1
      /\ r.inLen = 0 /\ r.replyPos = 0 /\ r.sources = {} /\ ~r.irq /\ r.toTick = r.period
  BY <1>1, ResetIs
<1>3. PiaReset \in MouseSides /\ [PiaReset EXCEPT !.in = {ByteReady}] \in MouseSides
  <2>1. {ByteReady} \in MouseBytes /\ Lines \in MouseBytes /\ {} \in MouseBytes
    BY DEF MouseBytes, Lines, ByteReady
  <2>2. PiaReset \in MouseSides
    BY <2>1 DEF PiaReset, MouseSides
  <2>. QED BY <2>1, <2>2 DEF MouseSides
<1>4. PortsReset \in MousePorts
  BY <1>3 DEF PortsReset, MousePorts
<1>5. MouseIdle \in Calling /\ MouseIdle.phase = "idle" /\ MouseIdle.heard = <<>>
  BY DEF MouseIdle, Calling, CallPhases
<1>6. Answering(r)
  BY <1>2 DEF Answering, Busy, WriteStrobe, ByteReady, ReadStrobe
<1>7. Measured(r)
  BY <1>2, NothingSent DEF Measured
<1>8. Wired(r, PortsReset, MouseIdle)
  <2>1. PortsReset.b.in = {ByteReady} /\ PortsReset.b.ddr = {} /\ PortsReset.b.out = {}
    BY DEF PortsReset, PiaReset
  <2>2. CardDriven # {}
    BY DEF CardDriven
  <2>. QED BY <1>2, <1>5, <2>1, <2>2 DEF Wired, WriteStrobe, ByteReady, ReadStrobe
<1>9. Talking(r, MouseIdle)
  BY <1>2, <1>5 DEF Talking
<1>10. Reads(r, PortsReset, MouseIdle, n)
  BY <1>2, NothingSent DEF Reads
<1>11. Accounted(r, n)
  <2>1. r.toTick \in Int /\ r.period \in Int
    BY <1>2 DEF Mice
  <2>. QED BY <1>2, <2>1 DEF Accounted
<1>. QED BY <1>1, <1>2, <1>4, <1>5, <1>6, <1>7, <1>8, <1>9, <1>10, <1>11 DEF CardFits

LEMMA NotingStarts == NothingNoted \in Noting /\ [NothingNoted EXCEPT !.firstWake = FALSE] \in Noting
<1>1. Origin \in Points /\ {} \in MouseBytes
  BY DEF Origin, Points, MouseBytes
<1>. QED BY <1>1 DEF NothingNoted, Noting

LEMMA ResetFits ==
  ASSUME MouseInv, MouseReset
  PROVE  MouseInv'
<1>1. mouse \in RawMice /\ HostKnows /\ KeptFits
  BY MiceAreRaw DEF MouseInv, CardFits
<1>2. CardFits(mouse', ports', firmware', notes')
  BY <1>1, NotingStarts, ResetFitsCard DEF MouseReset
<1>. QED BY <1>1, <1>2, StepFits DEF MouseReset

LEMMA MouseStarts ==
  ASSUME MouseInit
  PROVE  MouseInv
<1>1. NewMouse = ResetCard([mode |-> {}, at |-> Origin, min |-> Origin, max |-> Origin, read |-> Origin,
               button |-> FALSE, buttonAtRead |-> FALSE, moved |-> FALSE, sources |-> {},
               pending |-> {}, irq |-> FALSE, rate50 |-> FALSE, period |-> 0, toTick |-> 0,
               shadowA |-> {}, shadowB |-> {}, buffer |-> <<>>, pos |-> 0, outLen |-> 1,
               inLen |-> 0, replyPos |-> 0])
  BY DEF NewMouse
<1>2. Origin \in Points
  BY DEF Origin, Points
<1>3. [mode |-> {}, at |-> Origin, min |-> Origin, max |-> Origin, read |-> Origin,
               button |-> FALSE, buttonAtRead |-> FALSE, moved |-> FALSE, sources |-> {},
               pending |-> {}, irq |-> FALSE, rate50 |-> FALSE, period |-> 0, toTick |-> 0,
               shadowA |-> {}, shadowB |-> {}, buffer |-> <<>>, pos |-> 0, outLen |-> 1,
               inLen |-> 0, replyPos |-> 0] \in RawMice
  BY <1>2 DEF RawMice, MouseBytes
<1>4. CardFits(mouse, ports, firmware, notes)
  BY <1>1, <1>3, NotingStarts, ResetFitsCard DEF MouseInit
<1>5. mouse.irq = FALSE /\ mouse.shadowB \cap Bank = {}
  <2>1. ~mouse.irq /\ mouse.shadowB = {ByteReady} /\ mouse \in Mice
    BY ZenonT(60), <1>1, <1>3, ResetIs DEF MouseInit
  <2>. QED BY <2>1 DEF Mice, Bank, ByteReady
<1>6. HostKnows
  BY <1>5 DEF MouseInit, HostKnows, NothingNoted
<1>7. KeptFits
  BY DEF MouseInit, KeptFits, NoMouseFrame
<1>. QED BY <1>4, <1>6, <1>7 DEF MouseInv

(* Save states *)
LEMMA SaveFits ==
  ASSUME MouseInv, MouseSave
  PROVE  MouseInv'
<1>1. CardFits(mouse, ports, firmware, notes) /\ HostKnows
  BY DEF MouseInv
<1>2. notes \in Noting /\ mouse \in Mice /\ (mouse.sources # {} => mouse.irq)
        /\ mouse.toTick <= mouse.period
  BY <1>1 DEF CardFits, Accounted
<1>3. PICK k \in Int : k = IF mouse.toTick > 0 THEN mouse.toTick ELSE 0
  BY <1>2 DEF Mice
<1>4. PICK t : t = [mouse EXCEPT !.toTick = k]
  OBVIOUS
<1>5. t \in Mice /\ t.toTick = k /\ t.period = mouse.period
  BY <1>2, <1>4 DEF Mice
<1>6. SameTalk(mouse, t) /\ t.sources = mouse.sources /\ t.irq = mouse.irq
  BY <1>2, <1>4 DEF Mice, SameTalk
<1>7. k <= mouse.period
  BY <1>2, <1>3 DEF Mice
<1>8. NoneDropped(mouse, t)
  BY <1>2, <1>5, <1>6, <1>7 DEF NoneDropped
<1>9. CardFits(t, ports, firmware, notes)
  BY <1>1, <1>2, <1>5, <1>6, <1>8, TalkGoesOn
<1>10. mouseKept'.card = t /\ mouseKept'.ports = ports /\ mouseKept'.firmware = firmware
         /\ mouseKept'.notes = notes
  BY <1>2, <1>3, <1>4 DEF MouseSave, MouseFrame, Mice
<1>11. KeptFits'
  BY <1>9, <1>10 DEF KeptFits
<1>12. CardFits(mouse, ports, firmware, notes)' /\ HostKnows'
  BY <1>1 DEF MouseSave, HostKnows
<1>. QED BY <1>11, <1>12 DEF MouseInv

LEMMA ShadowLoads ==
  ASSUME NEW f, CardFits(f.card, f.ports, f.firmware, f.notes)
  PROVE  /\ LoadedShadow(f) \in MouseBytes /\ 0 \notin LoadedShadow(f)
         /\ \A i \in {WriteStrobe, ReadStrobe} : i \in LoadedShadow(f) <=> i \in f.card.shadowB
         /\ Busy \in LoadedShadow(f) <=> WriteStrobe \in LoadedShadow(f)
         /\ ByteReady \in LoadedShadow(f) <=> ReadStrobe \notin LoadedShadow(f)
         /\ f.firmware.phase # "idle" => LoadedShadow(f) = f.card.shadowB
<1>1. /\ f.card \in Mice /\ f.ports \in MousePorts /\ Answering(f.card)
           /\ Wired(f.card, f.ports, f.firmware)
  BY DEF CardFits
<1>2. PICK pins : pins = PiaOutput(f.ports.b) \cap CardDriven
  OBVIOUS
<1>3. pins \in MouseBytes
  BY <1>2 DEF CardDriven, Bank, ReadStrobe, WriteStrobe, MouseBytes, Lines
<1>4. LoadedShadow(f) = IF f.card.shadowB \cap CardDriven # pins THEN Showing(pins) ELSE f.card.shadowB
  <2>1. pins \cap CardDriven = pins
    BY <1>2
  <2>. QED BY <1>2, <2>1 DEF LoadedShadow, Showing
<1>5. CASE f.firmware.phase # "idle"
  <2>1. f.card.shadowB \cap CardDriven = pins
    BY <1>1, <1>2, <1>5 DEF Wired, PiaOutput
  <2>2. LoadedShadow(f) = f.card.shadowB
    BY <1>4, <2>1
  <2>. QED BY <1>1, <2>2 DEF Answering, Mice
<1>6. CASE f.firmware.phase = "idle"
  <2>1. WriteStrobe \notin pins /\ ReadStrobe \notin pins
    BY <1>1, <1>2, <1>6 DEF Wired, PiaOutput
  <2>2. WriteStrobe \notin f.card.shadowB /\ ReadStrobe \notin f.card.shadowB
    BY <1>1, <1>6 DEF Wired
  <2>3. CASE f.card.shadowB \cap CardDriven # pins
    <3>1. LoadedShadow(f) = Showing(pins)
      BY <1>4, <2>3
    <3>. QED BY <1>3, <1>6, <2>1, <2>2, <3>1, ShowingIs
  <2>4. CASE f.card.shadowB \cap CardDriven = pins
    <3>1. LoadedShadow(f) = f.card.shadowB
      BY <1>4, <2>4
    <3>. QED BY <1>1, <1>6, <3>1 DEF Answering, Mice
  <2>. QED BY <2>3, <2>4
<1>. QED BY <1>5, <1>6

LEMMA LoadFits ==
  ASSUME MouseInv, MouseLoad
  PROVE  MouseInv'
<1>1. PICK f : f = mouseKept
  OBVIOUS
<1>2. CardFits(f.card, f.ports, f.firmware, f.notes) /\ KeptFits
  BY <1>1 DEF MouseInv, KeptFits, MouseLoad
<1>3. PICK m : m = f.card
  OBVIOUS
<1>4. /\ m \in Mice /\ f.ports \in MousePorts /\ f.firmware \in Calling /\ f.notes \in Noting
      /\ Measured(m) /\ Wired(m, f.ports, f.firmware) /\ Talking(m, f.firmware)
      /\ Reads(m, f.ports, f.firmware, f.notes) /\ Accounted(m, f.notes)
  BY <1>2, <1>3 DEF CardFits
<1>5. PICK b : b = LoadedShadow(f)
  OBVIOUS
<1>6. /\ b \in MouseBytes /\ 0 \notin b
      /\ \A i \in {WriteStrobe, ReadStrobe} : i \in b <=> i \in m.shadowB
      /\ Busy \in b <=> WriteStrobe \in b
      /\ ByteReady \in b <=> ReadStrobe \notin b
      /\ f.firmware.phase # "idle" => b = m.shadowB
  BY <1>2, <1>3, <1>5, ShadowLoads
<1>7. PICK q \in Nat \ {0} : q = PeriodOf(m.rate50)
  BY MouseAssumption DEF PeriodOf
<1>8. PICK d \in Int : d = (IF m.toTick < q THEN m.toTick ELSE q) /\ d <= q
  BY <1>4 DEF Mice
<1>9. PICK c : c = [m EXCEPT !.shadowB = b]
  OBVIOUS
<1>10. c \in Mice
  BY <1>4, <1>6, <1>9 DEF Mice
<1>11. PICK e : e = [c EXCEPT !.period = q]
  OBVIOUS
<1>12. e \in Mice
  BY <1>10, <1>11 DEF Mice
<1>13. PICK t : t = [e EXCEPT !.toTick = d]
  OBVIOUS
<1>14. t \in Mice
  BY <1>12, <1>13 DEF Mice
<1>15. t = LoadedMouse(f)
  <2>1. m.outLen = CommandOutLen(m.buffer[0]) /\ m.inLen = CommandInLen(m.buffer[0])
    BY <1>4 DEF Measured
  <2>2. (IF m.irq THEN m.sources ELSE {}) = m.sources
    BY <1>4 DEF Accounted
  <2>3. t = [m EXCEPT !.shadowB = b, !.period = q, !.toTick = d]
    BY <1>4, <1>9, <1>11, <1>13 DEF Mice
  <2>4. [m EXCEPT !.shadowB = b, !.period = q, !.toTick = d]
          = [m EXCEPT !.shadowB = b, !.outLen = m.outLen, !.inLen = m.inLen, !.sources = m.sources,
                      !.period = q, !.toTick = d]
    BY <1>4 DEF Mice
  <2>. QED BY <1>3, <1>5, <1>7, <1>8, <2>1, <2>2, <2>3, <2>4 DEF LoadedMouse
<1>16. /\ t.shadowA = m.shadowA /\ t.buffer = m.buffer /\ t.pos = m.pos /\ t.outLen = m.outLen
       /\ t.inLen = m.inLen /\ t.replyPos = m.replyPos /\ t.sources = m.sources /\ t.irq = m.irq
       /\ t.shadowB = b
  BY <1>4, <1>9, <1>11, <1>13 DEF Mice
<1>17. t.toTick <= t.period
  <2>1. t.toTick = d
    BY <1>12, <1>13 DEF Mice
  <2>2. t.period = q
    BY <1>10, <1>11, <1>13 DEF Mice
  <2>. QED BY <1>8, <2>1, <2>2
<1>18. PICK p : p = [f.ports EXCEPT !.b.in = b]
  OBVIOUS
<1>19. p \in MousePorts /\ p.a = f.ports.a /\ p.b.in = b /\ p.b.ddr = f.ports.b.ddr
         /\ p.b.cr = f.ports.b.cr /\ p.b.out = f.ports.b.out
  <2>1. PICK w : w = [f.ports.b EXCEPT !.in = b]
    OBVIOUS
  <2>2. w \in MouseSides /\ w.in = b /\ w.ddr = f.ports.b.ddr /\ w.cr = f.ports.b.cr
          /\ w.out = f.ports.b.out
    BY <1>4, <1>6, <2>1 DEF MousePorts, MouseSides
  <2>3. p = [f.ports EXCEPT !.b = w]
    BY <1>4, <1>18, <2>1 DEF MousePorts, MouseSides
  <2>. QED BY <1>4, <2>2, <2>3 DEF MousePorts
<1>20. PICK k : k = [f.notes EXCEPT !.firstWake = FALSE]
  OBVIOUS
<1>21. k \in Noting /\ k.reading = f.notes.reading /\ k.readSince = f.notes.readSince
  BY <1>4, <1>20 DEF Noting
<1>22. /\ mouse' = t /\ ports' = p /\ firmware' = f.firmware /\ notes' = k /\ mouseKept' = mouseKept
       /\ mouseHost' = [line |-> t.irq, wake |-> t.toTick, bank |-> t.shadowB \cap Bank]
  BY <1>1, <1>15, <1>16, <1>18, <1>20 DEF MouseLoad
<1>23. Answering(t) /\ Measured(t)
  BY <1>4, <1>6, <1>16 DEF Answering, Measured
<1>24. Wired(t, p, f.firmware)
  BY <1>4, <1>6, <1>16, <1>19 DEF Wired
<1>25. Talking(t, f.firmware)
  BY <1>4, <1>16 DEF Talking, Sending, Replying
<1>26. Reads(t, p, f.firmware, k)
  BY <1>4, <1>16, <1>19, <1>21 DEF Reads, ReadingOf
<1>27. Accounted(t, k)
  BY <1>4, <1>16, <1>17, <1>21 DEF Accounted
<1>28. CardFits(t, p, f.firmware, k)
  BY <1>4, <1>14, <1>19, <1>21, <1>23, <1>24, <1>25, <1>26, <1>27 DEF CardFits
<1>29. CardFits(mouse, ports, firmware, notes)'
  BY <1>22, <1>28
<1>30. HostKnows'
  <2>1. mouseHost'.wake = mouse'.toTick
    BY <1>22
  <2>2. mouseHost' = [line |-> mouse'.irq, wake |-> mouseHost'.wake, bank |-> mouse'.shadowB \cap Bank]
    BY <1>22, <2>1
  <2>. QED BY <2>1, <2>2 DEF HostKnows
<1>31. KeptFits'
  BY <1>2, <1>22 DEF KeptFits
<1>. QED BY <1>29, <1>30, <1>31 DEF MouseInv

(* The strengthened invariant of the mouse card is inductive. *)
THEOREM MouseIsInductive ==
  MouseInit /\ [][MouseNext]_mouseVars => []MouseInv
<1>1. MouseInit => MouseInv
  BY MouseStarts
<1>2. ASSUME MouseInv, [MouseNext]_mouseVars
      PROVE  MouseInv'
  <2>1. CASE StartCall
    BY <1>2, <2>1, CallStarts
  <2>2. CASE PutByte
    BY <1>2, <2>2, BytePut
  <2>3. CASE RaiseWrite
    BY <1>2, <2>3, WriteRises
  <2>4. CASE LowerWrite
    BY <1>2, <2>4, WriteFalls
  <2>5. CASE TurnToReading
    BY <1>2, <2>5, ReadTurns
  <2>6. CASE TakeReply
    BY <1>2, <2>6, ReplyTaken
  <2>7. CASE RaiseRead
    BY <1>2, <2>7, ReadRises
  <2>8. CASE LowerRead
    BY <1>2, <2>8, ReadFalls
  <2>9. CASE TurnPortB
    BY <1>2, <2>9, PortTurned
  <2>10. CASE MouseCycle
    BY <1>2, <2>10, CycleFits
  <2>11. CASE MouseThink
    BY <1>2, <2>11, ThinkFits
  <2>12. CASE MouseMove
    BY <1>2, <2>12, MoveFits
  <2>13. CASE MouseButton
    BY <1>2, <2>13, ButtonFits
  <2>14. CASE MouseReset
    BY <1>2, <2>14, ResetFits
  <2>15. CASE MouseSave
    BY <1>2, <2>15, SaveFits
  <2>16. CASE MouseLoad
    BY <1>2, <2>16, LoadFits
  <2>17. CASE UNCHANGED mouseVars
    BY <1>2, <2>17 DEF mouseVars, MouseInv, HostKnows, KeptFits
  <2>. QED BY <1>2, <2>1, <2>2, <2>3, <2>4, <2>5, <2>6, <2>7, <2>8, <2>9, <2>10, <2>11, <2>12, <2>13,
              <2>14, <2>15, <2>16, <2>17 DEF MouseNext
<1>. QED BY <1>1, <1>2, PTL

LEMMA MouseAnswers ==
  ASSUME MouseInv
  PROVE  MouseKeepsItsPromises
<1>1. /\ mouse \in Mice /\ Answering(mouse) /\ Measured(mouse) /\ Talking(mouse, firmware)
      /\ Reads(mouse, ports, firmware, notes) /\ Accounted(mouse, notes) /\ HostKnows
  BY DEF MouseInv, CardFits
<1>2. ~FrameRefused(MouseFrame)
  <2>1. PICK k : k = IF mouse.toTick > 0 THEN mouse.toTick ELSE 0
    OBVIOUS
  <2>2. PICK t : t = [mouse EXCEPT !.toTick = k]
    OBVIOUS
  <2>3. MouseFrame.card = t
    BY <2>1, <2>2 DEF MouseFrame
  <2>4. /\ t.pos \in 0 .. 7 /\ t.outLen \in 1 .. 5 /\ t.inLen = CommandInLen(t.buffer[0])
        /\ t.replyPos <= CommandInLen(t.buffer[0]) /\ t.shadowB = mouse.shadowB
    BY <1>1, <2>2 DEF Mice, Measured
  <2>5. mouse.shadowB \cap {0, ByteReady, Busy} = ReplyLevels(mouse.shadowB)
    BY <1>1 DEF Answering, ReplyLevels, Mice, ByteReady, Busy
  <2>6. CommandInLen(t.buffer[0]) \in 0 .. 5 /\ t.replyPos \in 0 .. 5
    BY <1>1, <2>2, Lengths DEF Mice
  <2>. QED BY <2>3, <2>4, <2>5, <2>6 DEF FrameRefused
<1>3. FirmwareIsAnswered
  <2>1. mouseHost.bank = mouse.shadowB \cap Bank
    BY <1>1 DEF HostKnows
  <2>. QED BY <1>2, <2>1, StrobesAre DEF FirmwareIsAnswered, WriteStrobe, ReadStrobe
<1>4. ReadingIsWhole
  BY <1>1 DEF ReadingIsWhole, Reads, ReadingOf
<1>5. InterruptsAreAccounted
  BY <1>1 DEF InterruptsAreAccounted, HostKnows, Accounted
<1>. QED BY <1>3, <1>4, <1>5 DEF MouseKeepsItsPromises

(* What the card owes the firmware and the program, at every moment. *)
THEOREM MouseKeepsPromises ==
  MouseInit /\ [][MouseNext]_mouseVars => []MouseKeepsItsPromises
BY MouseIsInductive, MouseAnswers, PTL
=============================================================================
