------------------------------- MODULE GamePort -------------------------------
(***************************************************************************)
(* The game port: the paddle timers of the card                            *)
(* (apple2/peripherals/joystick/Joystick.cpp), the three switch lines of   *)
(* the motherboard (apple2/SwitchInputs.cpp), and the frontend that feeds  *)
(* both from sticks, the keypad and the mouse                              *)
(* (frontends/common/sdl/JoystickFrontend.cpp, JoystickConfig.cpp).        *)
(***************************************************************************)
EXTENDS Integers, Sequences

CONSTANTS
  StickDevices,        \* the devices the configuration may give each stick
  QueueCapacity,  \* switch_queue_capacity
  Positions,      \* where the pots are set
  LeadIn,         \* pulse_lead_in_cycles; a count of the pot is one cycle
  MaxPortCycles,  \* bound: cycles in a behaviour
  MaxPortEvents   \* bound: host events in a behaviour

ASSUME GamePortAssumption ==
  /\ StickDevices \subseteq {"none", "joystick", "keyboard", "mouse"}
  /\ QueueCapacity \in Nat \ {0} /\ QueueCapacity % 2 = 0
  /\ Positions \subseteq Nat /\ LeadIn \in Nat

VARIABLES
  joyType,    \* joy_config.joy_type: the device of each of the two sticks
  gameSwitches,      \* of SwitchInputs: the closed switches, the pull-downs, shift_key_mod, apple2e
  switchQueues,     \* switch_queues
  pots,        \* per paddle: position, trigger_cycle, pulse_position
  portClock,  \* the cycle counter
  portKept,       \* the counter and trigger_cycles of a save state, <<>> when there is none
  clicks,     \* history: edges accepted for a line, sent to the port, and dropped
  shown,      \* history: edges sent on a line since the program last ran
  crowded,    \* history: lines sent two edges with no cycle between
  portEvents  \* number of host events so far

portVars == <<joyType, gameSwitches, switchQueues, pots, portClock, portKept,
              clicks, shown, crowded, portEvents>>

SwitchLines == 0 .. 2
Paddles == 0 .. 1      \* one per stick stands for its two axes
ShiftModLine == 2

(* joystick_config_button_lines: one owner per line.                       *)
ButtonLines(stick, button) ==
  CASE stick = 1 /\ button = 0 -> {1, 2}
    [] stick = 0 /\ button = 0 -> {0}
    [] stick = 0 /\ button = 1 /\ joyType[1] = "none" -> {1}
    [] OTHER -> {}

PulldownMask(types) ==
  (IF types[0] # "none" THEN IF types[1] = "none" THEN {0, 1} ELSE {0} ELSE {})
    \cup (IF types[1] # "none" THEN {1, 2} ELSE {})

EmptyQueue == [levels |-> <<>>, tail |-> FALSE, sent |-> FALSE]

NoSwitch == [line \in SwitchLines |-> FALSE]

PortInit ==
  /\ joyType \in [0 .. 1 -> StickDevices]
  /\ \E mod, e \in BOOLEAN :
       gameSwitches = [keyboard |-> NoSwitch, connector |-> NoSwitch,
                       plug |-> PulldownMask(joyType), mod |-> mod, apple2e |-> e]
  /\ switchQueues = [line \in SwitchLines |-> EmptyQueue]
  /\ pots = [p \in Paddles |-> [position |-> 0, trigger |-> 0, pulse |-> 0]]
  /\ portClock = 1 /\ portKept = <<>>
  /\ clicks = [line \in SwitchLines |-> [accepted |-> 0, sent |-> 0, dropped |-> 0]]
  /\ shown = [line \in SwitchLines |-> 0]
  /\ crowded = {} /\ portEvents = 0

-----------------------------------------------------------------------------
(* The switch lines.                                                       *)

Pulldowns == gameSwitches.plug \cup IF gameSwitches.apple2e THEN {0, 1} ELSE {}

(* switch_inputs_level: TRUE is the line high.                             *)
SwitchLevel(line) ==
  CASE line = ShiftModLine /\ gameSwitches.mod -> ~ gameSwitches.keyboard[line]
    [] line = ShiftModLine /\ ~ gameSwitches.mod /\ gameSwitches.connector[line] -> TRUE
    [] line # ShiftModLine /\ (gameSwitches.keyboard[line] \/ gameSwitches.connector[line]) -> TRUE
    [] OTHER -> line \notin Pulldowns

(* linapple_set_modifiers                                                  *)
HoldModifiers ==
  /\ \E levels \in [SwitchLines -> BOOLEAN] :
       gameSwitches' = [gameSwitches EXCEPT !.keyboard = levels]
  /\ UNCHANGED <<joyType, switchQueues, pots, portClock, portKept, clicks, shown, crowded>>

-----------------------------------------------------------------------------
(* The edges of buttons that are keys.  A line is sent one edge a slice.   *)

Push(levels, down) ==
  Append(IF Len(levels) = QueueCapacity THEN SubSeq(levels, 3, QueueCapacity) ELSE levels, down)

(* queue_connector_switch: the queue afterwards, and whether it sent.      *)
Queued(queue, down) ==
  CASE down = queue.tail -> queue
    [] down # queue.tail /\ queue.levels = <<>> /\ ~ queue.sent ->
         [queue EXCEPT !.tail = down, !.sent = TRUE]
    [] OTHER -> [queue EXCEPT !.tail = down, !.levels = Push(@, down)]

SendsNow(queue, down) == down # queue.tail /\ queue.levels = <<>> /\ ~ queue.sent

Button(stick, button, down) ==
  LET lines == ButtonLines(stick, button)
      sends == {line \in lines : SendsNow(switchQueues[line], down)}
      edges == {line \in lines : down # switchQueues[line].tail}
  IN /\ joyType[stick] \in {"keyboard", "mouse"}
     /\ edges # {}
     /\ switchQueues' = [line \in SwitchLines |->
          IF line \in lines THEN Queued(switchQueues[line], down) ELSE switchQueues[line]]
     /\ gameSwitches' = [gameSwitches EXCEPT !.connector =
          [line \in SwitchLines |-> IF line \in sends THEN down ELSE @[line]]]
     /\ shown' = [line \in SwitchLines |-> IF line \in sends THEN shown[line] + 1 ELSE shown[line]]
     /\ clicks' = [line \in SwitchLines |->
                     IF line \notin edges THEN clicks[line]
                     ELSE [accepted |-> clicks[line].accepted + 1,
                           sent |-> clicks[line].sent + IF line \in sends THEN 1 ELSE 0,
                           dropped |-> clicks[line].dropped
                             + IF Len(switchQueues[line].levels) = QueueCapacity THEN 2 ELSE 0]]
     /\ crowded' = crowded \cup {line \in sends : shown[line] > 0}
     /\ UNCHANGED <<joyType, pots, portClock, portKept>>

(* poll_gamepad: the levels as they are, past the queue.                   *)
PollGamepad(stick, buttons) ==
  /\ joyType[stick] = "joystick"
  /\ gameSwitches' = [gameSwitches EXCEPT !.connector =
       [line \in SwitchLines |-> CASE line \in ButtonLines(stick, 0) -> buttons[0]
                             [] line \in ButtonLines(stick, 1) -> buttons[1]
                             [] OTHER -> @[line]]]
  /\ UNCHANGED <<joyType, switchQueues, pots, portClock, portKept, clicks, shown, crowded>>

Drained(queue) ==
  IF queue.levels # <<>> /\ ~ queue.sent
  THEN [queue EXCEPT !.levels = Tail(@), !.sent = FALSE]
  ELSE [queue EXCEPT !.sent = FALSE]

(* joy_frontend_update after the events of a turn of the message loop, and *)
(* the frame that follows: drain_switch_queues sends what no event sent.   *)
Slice(cycles) ==
  LET drains ==
        {line \in SwitchLines : Drained(switchQueues[line]).levels # switchQueues[line].levels}
  IN /\ portClock + cycles <= MaxPortCycles
     /\ portClock' = portClock + cycles
     /\ switchQueues' = [line \in SwitchLines |-> Drained(switchQueues[line])]
     /\ gameSwitches' = [gameSwitches EXCEPT !.connector =
          [line \in SwitchLines |-> IF line \in drains THEN Head(switchQueues[line].levels) ELSE @[line]]]
     /\ shown' = [line \in SwitchLines |-> 0]
     /\ crowded' = crowded \cup {line \in drains : shown[line] > 0}
     /\ clicks' = [line \in SwitchLines |-> IF line \in drains THEN [clicks[line] EXCEPT !.sent = @ + 1]
                                      ELSE clicks[line]]
     /\ UNCHANGED <<joyType, pots, portKept>>

-----------------------------------------------------------------------------
(* The paddles.                                                            *)

PulseCycles(position) == position + LeadIn

Expired(paddle) ==
  \/ paddle.trigger = 0 \/ paddle.trigger > portClock
  \/ portClock - paddle.trigger >= PulseCycles(paddle.pulse)

(* joystick_strobe                                                         *)
Strobe ==
  /\ pots' = [p \in Paddles |->
       IF Expired(pots[p])
       THEN [pots[p] EXCEPT !.trigger = portClock, !.pulse = pots[p].position]
       ELSE pots[p]]
  /\ pots' # pots
  /\ UNCHANGED <<joyType, gameSwitches, switchQueues, portClock, portKept, clicks, shown, crowded>>

\* (A plausible bug: a pot moved during its pulse is not measured.)
Moved_latched(paddle, position) == [paddle EXCEPT !.position = position]

(* JOYSTICK_CMD_SET_AXIS                                                   *)
Moved(paddle, position) ==
  IF Expired(paddle) THEN [paddle EXCEPT !.position = position]
  ELSE [paddle EXCEPT !.position = position, !.pulse = position]

SetAxis(stick, position) ==
  /\ joyType[stick] # "none" /\ position # pots[stick].position
  /\ pots' = [pots EXCEPT ![stick] = Moved(@, position)]
  /\ UNCHANGED <<joyType, gameSwitches, switchQueues, portClock, portKept, clicks, shown, crowded>>

SavePort ==
  /\ portKept' = [clock |-> portClock, triggers |-> [p \in Paddles |-> pots[p].trigger]]
  /\ UNCHANGED <<joyType, gameSwitches, switchQueues, pots, portClock, clicks, shown, crowded>>

(* The counter comes from the save state as well; the pots do not.         *)
LoadPort ==
  /\ portKept # <<>>
  /\ portClock' = portKept.clock
  /\ pots' = [p \in Paddles |->
       [pots[p] EXCEPT !.trigger = portKept.triggers[p], !.pulse = pots[p].position]]
  /\ UNCHANGED <<joyType, gameSwitches, switchQueues, portKept, clicks, shown, crowded>>

(* joy_frontend_initialize, when a controller comes or goes.               *)
Reinitialise(types) ==
  /\ joyType' = types
  /\ gameSwitches' = [gameSwitches EXCEPT !.connector = NoSwitch, !.plug = PulldownMask(types)]
  /\ switchQueues' = [line \in SwitchLines |-> EmptyQueue]
  /\ clicks' = [line \in SwitchLines |-> [accepted |-> 0, sent |-> 0, dropped |-> 0]]
  /\ shown' = [line \in SwitchLines |-> 0]
  /\ crowded' = {}
  /\ UNCHANGED <<pots, portClock, portKept>>

PortHost ==
  \/ HoldModifiers
  \/ \E stick \in 0 .. 1, button \in 0 .. 1, down \in BOOLEAN : Button(stick, button, down)
  \/ \E stick \in 0 .. 1, buttons \in [0 .. 1 -> BOOLEAN] : PollGamepad(stick, buttons)
  \/ \E stick \in 0 .. 1, position \in Positions : SetAxis(stick, position)
  \/ Strobe \/ SavePort \/ LoadPort
  \/ \E types \in [0 .. 1 -> StickDevices] : Reinitialise(types)

PortNext ==
  \/ \E cycles \in 1 .. 2 : Slice(cycles) /\ UNCHANGED portEvents
  \/ portEvents < MaxPortEvents /\ portEvents' = portEvents + 1 /\ PortHost

PortSpec == PortInit /\ [][PortNext]_portVars

-----------------------------------------------------------------------------
(* The keys and the mouse's buttons own a line, or the gamepad does.       *)
Keyed(line) ==
  \E stick \in 0 .. 1, button \in 0 .. 1 :
    joyType[stick] \in {"keyboard", "mouse"} /\ line \in ButtonLines(stick, button)

(* Every click can be seen: a line that keys drive shows the program at    *)
(* most one edge between two slices; what it will show is a press, a       *)
(* release, a press and so on down to the level of the last edge           *)
(* accepted; and no edge is lost but the oldest pairs of a full queue.     *)
EveryClickIsSeen ==
  \A line \in SwitchLines :
    Keyed(line) =>
      LET queue == switchQueues[line]
          levels == <<gameSwitches.connector[line]>> \o queue.levels
      IN /\ line \notin crowded
         /\ \A i \in 1 .. Len(levels) - 1 : levels[i] # levels[i + 1]
         /\ levels[Len(levels)] = queue.tail
         /\ Len(queue.levels) <= QueueCapacity
         /\ clicks[line].accepted = clicks[line].sent + clicks[line].dropped + Len(queue.levels)

(* A pulse that runs is the pot's as it is now, whatever moved it since    *)
(* the strobe or a load; and a line is pulled as long as a button or a key *)
(* that is wired to it is down.                                            *)
PortShowsTheHand ==
  /\ \A p \in Paddles : Expired(pots[p]) \/ pots[p].pulse = pots[p].position
  /\ \A line \in {0, 1} :
       gameSwitches.keyboard[line] \/ gameSwitches.connector[line] => SwitchLevel(line)
  /\ \A line \in SwitchLines :
       joyType = [stick \in 0 .. 1 |-> "none"] /\ ~ gameSwitches.keyboard[line] =>
       (SwitchLevel(line) <=> (line = 2 \/ ~ gameSwitches.apple2e))

\* What the player relies on: no click and no movement passes the program unseen.
PortFollowsTheHand == EveryClickIsSeen /\ PortShowsTheHand
=============================================================================
