------------------------------- MODULE Keyboard -------------------------------
(***************************************************************************)
(* The keyboard, from the host's keys to the latch the program polls: the  *)
(* SDL frontends' event handlers (frontends/sdl2/SDL_Input.cpp,            *)
(* frontends/common/sdl/Keyboard.cpp), the queued commands                 *)
(* (core/LinAppleCore.cpp) and the card                                    *)
(* (apple2/peripherals/keyboard/Keyboard.cpp).  A key is its host identity *)
(* and stands for the code it is translated to.                            *)
(***************************************************************************)
EXTENDS Integers, Sequences, SequencesExt

CONSTANTS
  MatrixKeys,    \* keys that type something
  KeypadKeys,    \* those of them a keypad joystick takes
  AppleKeys,     \* of "left alt", "left gui" and "right alt", those in use
  HeldCapacity,  \* held_key_capacity
  VideoFrame,   \* cycles of a video frame
  RepeatDelay, RepeatPhase, RepeatPeriod,  \* frames of a //e's auto-repeat
  ReptPeriod,    \* cycles between two strobes of a II's REPT oscillator
  Spans,         \* cycles the program may run between two looks at the alarm
  MaxCycles,     \* bound: cycles in a behaviour
  MaxHostEvents  \* bound: host events in a behaviour

ASSUME KeyboardAssumption ==
  /\ KeypadKeys \subseteq MatrixKeys
  /\ AppleKeys \subseteq {"left alt", "left gui", "right alt"}
  /\ MatrixKeys \cap (AppleKeys \cup {"rept"}) = {}
  /\ {HeldCapacity, VideoFrame, RepeatDelay, RepeatPhase, RepeatPeriod, ReptPeriod} \subseteq Nat \ {0}
  /\ RepeatDelay % RepeatPhase = 0
  /\ Spans \subseteq Nat

VARIABLES
  keyboardModel,     \* which of the three machines
  keyCard,      \* current_latch, strobe, held, rept_down, next_strobe
  keyAlarm,     \* the cycle the scheduler will wake the card at, 0 for never
  keyClock,     \* the cycle counter
  keyCommands,  \* the commands queued for slot 0
  shell,       \* system_state.mode, or the modal loop of a help screen or a menu
  focused,   \* whether the window gets the keys
  keypadIsStick,  \* keypad_joystick() finds a stick
  appleKeys,    \* the Apple key switches closed on the keyboard's side
  hands,     \* history: the host keys physically down
  typed,     \* history: keys whose press was sent and whose release is to come
  missed,    \* history: keys whose release never reached the handler
  pressedAt, \* history: the cycle of the last press the card took
  hostEvents \* number of host events so far

keyboardVars == <<keyboardModel, keyCard, keyAlarm, keyClock, keyCommands, shell, focused,
                  keypadIsStick, appleKeys, hands, typed, missed, pressedAt, hostEvents>>
hostVars == <<shell, focused, keypadIsStick, appleKeys, hands, typed, missed, hostEvents>>
cardVars == <<keyCard, keyAlarm, keyClock, pressedAt>>

KeyboardModels == {"apple2", "apple2plus", "apple2e"}
HostKeys == MatrixKeys \cup AppleKeys \cup {"rept"}

(* frontend_handle_key_event: two keys close the same switch.              *)
SwitchOf(key) == IF key = "right alt" THEN "solid" ELSE "open"

CardAtPowerOn ==
  [latch |-> "none", strobe |-> FALSE, held |-> <<>>, rept |-> FALSE, next |-> 0]

KeyboardInit ==
  /\ keyboardModel \in KeyboardModels
  /\ keyCard = CardAtPowerOn /\ keyAlarm = 0 /\ keyClock = 0
  /\ keyCommands = <<>>
  /\ shell = "running" /\ focused = TRUE
  /\ keypadIsStick \in BOOLEAN
  /\ appleKeys = {} /\ hands = {} /\ typed = {} /\ missed = {}
  /\ pressedAt = 0 /\ hostEvents = 0

-----------------------------------------------------------------------------
(* The card.                                                               *)

AnyKeyDown(c) == c.held # <<>>

Hold(held, key) ==
  IF key \in Range(held) THEN held
  ELSE Append(IF Len(held) = HeldCapacity THEN Tail(held) ELSE held, key)

held_index(held, key) == CHOOSE i \in DOMAIN held : held[i] = key /\ \A j \in 1 .. i - 1 : held[j] # key
LetGo(held, key) == IF key \in Range(held) THEN RemoveAt(held, held_index(held, key)) ELSE held

Disarmed(c) == [c EXCEPT !.next = 0]

(* arm_auto_repeat: a whole number of frames, at an edge of the flash      *)
(* counter.                                                                *)
AutoRepeatAt(now) ==
  LET frame == now \div VideoFrame
      phase == (RepeatPhase - (frame % RepeatPhase)) % RepeatPhase
  IN (frame + RepeatDelay + phase) * VideoFrame

Pressed(c, key, now) ==
  LET taken == [c EXCEPT !.latch = key, !.strobe = TRUE, !.held = Hold(@, key)]
  IN CASE keyboardModel = "apple2e" -> [taken EXCEPT !.next = AutoRepeatAt(now)]
       [] keyboardModel # "apple2e" /\ c.rept -> [taken EXCEPT !.next = now + ReptPeriod]
       [] OTHER -> taken

Released(c, key, now) ==
  LET freed == [c EXCEPT !.held = LetGo(@, key)]
  IN IF AnyKeyDown(freed) THEN freed ELSE Disarmed(freed)

Rept(c, down, now) ==
  LET set == [c EXCEPT !.rept = down]
  IN CASE keyboardModel = "apple2e" -> set
       [] keyboardModel # "apple2e" /\ ~ down -> Disarmed(set)
       [] keyboardModel # "apple2e" /\ down /\ AnyKeyDown(c) ->
            [set EXCEPT !.next = now + ReptPeriod]
       [] keyboardModel = "apple2" /\ down /\ ~ AnyKeyDown(c) -> [set EXCEPT !.strobe = TRUE]
       [] OTHER -> set

ReleasedAll(c) == Disarmed([c EXCEPT !.held = <<>>])

Commanded(c, command, now) ==
  CASE command[1] = "press" -> Pressed(c, command[2], now)
    [] command[1] = "release" -> Released(c, command[2], now)
    [] command[1] = "rept" -> Rept(c, command[2], now)
    [] command[1] = "release all" -> ReleasedAll(c)

\* (A plausible bug: a late wake leaves the next strobe in the past.)
Strobed_once(c, now, period) == [c EXCEPT !.strobe = TRUE, !.next = @ + period]

(* repeat_strobe: one strobe however late, at the next edge of the phase.  *)
Strobed(c, now, period) ==
  [c EXCEPT !.strobe = TRUE, !.next = @ + period * ((now - @) \div period + 1)]

Repeats(c) == AnyKeyDown(c) /\ (keyboardModel = "apple2e" \/ c.rept)

Period == IF keyboardModel = "apple2e" THEN RepeatPeriod * VideoFrame ELSE ReptPeriod

Thought(c, now) ==
  CASE c.next = 0 \/ now < c.next -> c
    [] c.next # 0 /\ now >= c.next /\ Repeats(c) -> Strobed(c, now, Period)
    [] OTHER -> Disarmed(c)

Becomes(c) == keyCard' = c /\ keyAlarm' = c.next

(* The slice begins: the commands queued for the card, and its think.      *)
DrainCommands ==
  /\ keyCommands # <<>> /\ shell = "running"
  /\ LET told == FoldLeft(LAMBDA c, command : Commanded(c, command, keyClock), keyCard, keyCommands)
     IN Becomes(Thought(told, keyClock))
  /\ keyCommands' = <<>>
  /\ pressedAt' = IF \E i \in DOMAIN keyCommands : keyCommands[i][1] = "press"
                  THEN keyClock ELSE pressedAt
  /\ UNCHANGED <<keyboardModel, keyClock, hostVars>>

(* The program runs; an alarm that fell due wakes the card.                *)
RunFor(cycles) ==
  /\ keyCommands = <<>> /\ shell = "running"
  /\ keyClock + cycles <= MaxCycles
  /\ keyClock' = keyClock + cycles
  /\ IF keyAlarm # 0 /\ keyAlarm <= keyClock'
     THEN Becomes(Thought(keyCard, keyClock'))
     ELSE UNCHANGED <<keyCard, keyAlarm>>
  /\ UNCHANGED <<keyboardModel, keyCommands, pressedAt, hostVars>>

(* Any access that resets the strobe.                                      *)
ClearStrobe ==
  /\ keyCard.strobe /\ shell = "running"
  /\ keyCard' = [keyCard EXCEPT !.strobe = FALSE]
  /\ UNCHANGED <<keyboardModel, keyAlarm, keyClock, keyCommands, pressedAt, hostVars>>

-----------------------------------------------------------------------------
(* The host.                                                               *)

Counted == hostEvents < MaxHostEvents /\ hostEvents' = hostEvents + 1

Queue(command) == keyCommands' = Append(keyCommands, command)

(* frontend_handle_key_event and the two switches of a custom map.         *)
CloseSwitch(key) == appleKeys' = appleKeys \cup {SwitchOf(key)}
OpenSwitch(key) == appleKeys' = appleKeys \ {SwitchOf(key)}

ToStick(key) == keypadIsStick /\ key \in KeypadKeys

KeyDown(key) ==
  /\ Counted /\ key \notin hands /\ hands' = hands \cup {key}
  /\ CASE ~ focused -> UNCHANGED <<keyCommands, appleKeys, typed, shell>>
       [] focused /\ shell = "modal" ->           \* any key ends a help screen
            shell' = "running" /\ UNCHANGED <<keyCommands, appleKeys, typed>>
       [] focused /\ shell # "modal" /\ key \in AppleKeys ->
            CloseSwitch(key) /\ typed' = typed \cup {key} /\ UNCHANGED <<keyCommands, shell>>
       [] focused /\ shell = "running" /\ key = "rept" ->
            Queue(<<"rept", TRUE>>) /\ typed' = typed \cup {key} /\ UNCHANGED <<appleKeys, shell>>
       [] focused /\ shell = "running" /\ key \in MatrixKeys /\ ~ ToStick(key) ->
            Queue(<<"press", key>>) /\ typed' = typed \cup {key} /\ UNCHANGED <<appleKeys, shell>>
       [] OTHER -> UNCHANGED <<keyCommands, appleKeys, typed, shell>>
  /\ missed' = missed \ typed'
  /\ UNCHANGED <<keyboardModel, cardVars, focused, keypadIsStick>>

(* A release is handled in every mode, but not in a modal loop, which      *)
(* throws it away, nor by the stick the keypad has become.                 *)
KeyUp(key) ==
  /\ Counted /\ key \in hands /\ hands' = hands \ {key}
  /\ LET heard == focused /\ shell # "modal" /\ ~ ToStick(key)
     IN /\ CASE heard /\ key \in AppleKeys -> OpenSwitch(key) /\ UNCHANGED keyCommands
             [] heard /\ key = "rept" -> Queue(<<"rept", FALSE>>) /\ UNCHANGED appleKeys
             [] heard /\ key \in MatrixKeys -> Queue(<<"release", key>>) /\ UNCHANGED appleKeys
             [] OTHER -> UNCHANGED <<keyCommands, appleKeys>>
        /\ missed' = IF heard THEN missed \ {key} ELSE missed \cup (typed \cap {key})
  /\ typed' = typed \ {key}
  /\ UNCHANGED <<keyboardModel, cardVars, shell, focused, keypadIsStick>>

(* keyboard_release_host_modifiers.  The command leaves REPT as it is; a   *)
(* modal loop throws the event away.                                       *)
LoseFocus ==
  /\ Counted /\ focused /\ focused' = FALSE
  /\ IF shell = "modal"
     THEN missed' = missed \cup typed /\ UNCHANGED <<keyCommands, appleKeys>>
     ELSE /\ Queue(<<"release all">>) /\ appleKeys' = {}
          /\ missed' = (missed \cup typed) \cap {"rept"}
  /\ typed' = {}
  /\ UNCHANGED <<keyboardModel, cardVars, shell, keypadIsStick, hands>>

GainFocus ==
  /\ Counted /\ ~ focused /\ focused' = TRUE
  /\ UNCHANGED <<keyboardModel, cardVars, keyCommands, shell, keypadIsStick, appleKeys,
                 hands, typed, missed>>

(* The Pause key, and the help screens and menus of the function keys.     *)
ChangeMode(mode) ==
  /\ Counted /\ focused /\ shell # mode /\ shell # "modal" /\ shell' = mode
  /\ UNCHANGED <<keyboardModel, cardVars, keyCommands, focused, keypadIsStick, appleKeys,
                 hands, typed, missed>>

(* joy_frontend_initialize, when a controller comes or goes.               *)
ReinitialiseSticks ==
  /\ Counted /\ shell # "modal" /\ keypadIsStick' = ~ keypadIsStick
  /\ UNCHANGED <<keyboardModel, cardVars, keyCommands, shell, focused, appleKeys, hands,
                 typed, missed>>

(* A power cycle clears the card, a loaded state its hands as well.        *)
PowerCycleKeys ==
  /\ Counted /\ shell # "modal" /\ Becomes(CardAtPowerOn)
  /\ UNCHANGED <<keyboardModel, keyClock, keyCommands, shell, focused, keypadIsStick,
                 appleKeys, hands, typed, missed, pressedAt>>

LoadKeyboard(strobe) ==
  /\ Counted /\ shell # "modal"
  /\ Becomes([keyCard EXCEPT !.strobe = strobe, !.held = <<>>, !.rept = FALSE, !.next = 0])
  /\ UNCHANGED <<keyboardModel, keyClock, keyCommands, shell, focused, keypadIsStick,
                 appleKeys, hands, typed, missed, pressedAt>>

HostStep ==
  \/ \E key \in HostKeys : KeyDown(key) \/ KeyUp(key)
  \/ LoseFocus \/ GainFocus
  \/ \E mode \in {"running", "paused", "modal"} : ChangeMode(mode)
  \/ ReinitialiseSticks \/ PowerCycleKeys
  \/ \E strobe \in BOOLEAN : LoadKeyboard(strobe)

KeyboardNext ==
  DrainCommands \/ ClearStrobe \/ HostStep \/ \E cycles \in Spans : RunFor(cycles)
KeyboardSpec == KeyboardInit /\ [][KeyboardNext]_keyboardVars

-----------------------------------------------------------------------------
(* No key stays down when the hand is off it, through focus changes,       *)
(* pauses, resets, loads and a stick coming or going, once the commands    *)
(* are delivered: every key the card holds and every closed switch has a   *)
(* key down or one whose release no handler saw; the card repeats exactly  *)
(* while it should (a //e while a key is held, a II with REPT down as      *)
(* well), and the alarm it set is the one it waits for.                    *)
NoKeyStaysDown ==
  keyCommands = <<>> =>
    /\ Range(keyCard.held) \subseteq typed \cup missed
    /\ keyCard.rept => "rept" \in typed \cup missed
    /\ \A s \in appleKeys : \E key \in (typed \cup missed) \cap AppleKeys : SwitchOf(key) = s
    /\ keyCard.next # 0 <=> Repeats(keyCard)
    /\ keyAlarm = keyCard.next

FirstRepeat(at) ==
  /\ at > pressedAt + (RepeatDelay - 1) * VideoFrame
  /\ at <= pressedAt + (RepeatDelay + RepeatPhase) * VideoFrame
  /\ at % (RepeatPhase * VideoFrame) = 0

LaterRepeat(at) ==
  /\ at > pressedAt + (RepeatDelay - 1) * VideoFrame
  /\ at <= keyClock + RepeatPeriod * VideoFrame
  /\ at % VideoFrame = 0

(* The repeat keeps its time: a //e's first strobe comes at an edge of the *)
(* flash counter, no sooner than the delay less the frame the press fell   *)
(* in and no later than a phase after it, a later one within a period of   *)
(* now; a II's within a period of its oscillator; and none is overdue,     *)
(* however long the program ran before the card was woken.                 *)
RepeatKeepsTime ==
  keyCard.next # 0 =>
    /\ keyCard.next > keyClock
    /\ keyboardModel = "apple2e" => FirstRepeat(keyCard.next) \/ LaterRepeat(keyCard.next)
    /\ keyboardModel # "apple2e" => keyCard.next <= keyClock + ReptPeriod

\* What the typist relies on: a key is down while the hand is on it, and repeats at
\* its own pace and at no other.
KeysFollowTheHand == NoKeyStaysDown /\ RepeatKeepsTime
=============================================================================
