---------------------------- MODULE TerminalInput ----------------------------
(* The terminal frontend's input (TuiInput.cpp): keystrokes and the terminal's *)
(* answers arrive as one stream of bytes that reads cut anywhere; the program  *)
(* asks the terminal for the mouse while the machine has a card for it. A run   *)
(* of parameter bytes is one token.                                             *)
EXTENDS DiskPicker, TLC

CONSTANTS
  Finals,          \* tokens that are bytes 0x40 to 0x7E
  HighBytes,       \* tokens with the eighth bit; "lead" and "tail" among them
  ShiftedTokens,   \* parameters that hold ";2"
  MaxEscape,       \* max_escape_length
  Scenes,          \* [scene -> [keys |-> keystrokes typed, count |-> how many, split |-> reads cut them, card,
                   \*  capture, terminals |-> [kind, size, pixels]: 1016 and the cell's size in it]]
  LoadedCards,     \* [present, button, fromSave]: the mouse card of a saved state
  HardDiskSlot

(* A keystroke is its bytes and what the help text promises for it; "" for a   *)
(* key without a promise. "doubtful" bytes begin another keystroke too.         *)
VARIABLES
  scene, typed,
  pipe,            \* sent by the terminal, not yet read
  inputQueue,
  processing,      \* in the loop of process_sequences
  heldKeys, keyboard,  \* held_keys; what the machine was told
  ui,              \* [help, mode, restart, interrupted, over]
  pointer,         \* [tracking, pixels, setting, cell, leftHeld]
  mouseCard,       \* [present, button, fromSave]: the button is still the saved one
  terminal, toTerminal,  \* the other end and what it has not yet heard
  last,            \* [means, did]: the keystroke taken last and what it did
  doubt            \* a keystroke came late or can be read as another

terminalVars == <<pickerVars, scene, typed, pipe, inputQueue, processing, heldKeys, keyboard, ui,
                  pointer, mouseCard, terminal, toTerminal, last, doubt>>
Unlisted == -1

----------------------------------------------------------------------------
(* What a key asks for, by the sequence it sends.                               *)
Ss3Keys ==
  [P |-> "help", Q |-> "reset", R |-> "floppy1", S |-> "floppy2", T |-> "swap", U |-> "fullscreen",
   V |-> "debugger", W |-> "screenshot", X |-> "video",
   A |-> "up", B |-> "down", C |-> "right", D |-> "left", H |-> "home", F |-> "end"]
ConsoleKeys ==
  [A |-> "help", B |-> "reset", C |-> "floppy1", D |-> "floppy2", E |-> "swap", F |-> "fullscreen",
   G |-> "debugger", H |-> "screenshot", I |-> "video", J |-> "load", K |-> "save", L |-> "quit"]
PlainFinals ==
  [P |-> "pause", N |-> "turbo", H |-> "home", F |-> "end",
   A |-> "up", B |-> "down", C |-> "right", D |-> "left"]
ShiftableFinals ==
  [Q |-> <<"reset", "restart">>, R |-> <<"floppy1", "hard1">>, S |-> <<"floppy2", "hard2">>,
   W |-> <<"screenshot", "config">>, X |-> <<"video", "render">>]
RxvtCtrlKeys == ("12" :> "reset") @@ ("21" :> "soft reset")
RxvtShiftKeys ==
  ("12" :> "restart") @@ ("13" :> "hard1") @@ ("25" :> "hard1") @@ ("14" :> "hard2") @@ ("26" :> "hard2")
  @@ ("17" :> "rocker") @@ ("28" :> "rocker") @@ ("19" :> "config") @@ ("32" :> "config")
  @@ ("20" :> "render") @@ ("33" :> "render") @@ ("23" :> "save") @@ ("34" :> "save")
TildeModified ==
  ("12;2" :> "restart") @@ ("13;2" :> "hard1") @@ ("25" :> "hard1") @@ ("25;2" :> "hard1")
  @@ ("14;2" :> "hard2") @@ ("26" :> "hard2") @@ ("26;2" :> "hard2")
  @@ ("17;2" :> "rocker") @@ ("28" :> "rocker") @@ ("28;2" :> "rocker")
  @@ ("19;2" :> "config") @@ ("32" :> "config") @@ ("32;2" :> "config")
  @@ ("20;2" :> "render") @@ ("33" :> "render") @@ ("33;2" :> "render") @@ ("21;5" :> "soft reset")
  @@ ("23;2" :> "save") @@ ("34" :> "save") @@ ("34;2" :> "save")
TildeEditing ==
  ("3" :> "delete") @@ ("5" :> "page up") @@ ("6" :> "page down") @@ ("1" :> "home") @@ ("7" :> "home")
  @@ ("4" :> "end") @@ ("8" :> "end")
TildeFunctions ==
  ("11" :> "help") @@ ("12" :> "reset") @@ ("13" :> "floppy1") @@ ("14" :> "floppy2") @@ ("15" :> "swap")
  @@ ("17" :> "fullscreen") @@ ("18" :> "debugger") @@ ("19" :> "screenshot") @@ ("20" :> "video")
  @@ ("21" :> "load") @@ ("23" :> "save") @@ ("24" :> "quit")
TildeKeys == TildeModified @@ TildeEditing @@ TildeFunctions

Asked(table, token, otherwise) == IF token \in DOMAIN table THEN table[token] ELSE otherwise
(* A key of no meaning still closes the help, unless it is a modified one or a *)
(* final byte the program does not know.                                        *)
CsiKey(final, token) ==
  CASE final = "~" -> IF token \in {"", "noise"} \cup ShiftedTokens THEN Asked(TildeKeys, token, "nothing")
                      ELSE Asked(TildeKeys, token, "unknown")
    [] final = "^" -> Asked(RxvtCtrlKeys, token, "nothing")
    [] final = "@" -> Asked(RxvtShiftKeys, token, "nothing")
    [] final \in DOMAIN ShiftableFinals -> ShiftableFinals[final][IF token \in ShiftedTokens THEN 2 ELSE 1]
    [] OTHER -> Asked(PlainFinals, final, "nothing")

----------------------------------------------------------------------------
(* The keyboard. A key is let up at the next poll; the Open Apple key with it.  *)
release_held_keys ==
  /\ heldKeys' = << >>
  /\ keyboard' = [down |-> keyboard.down \ {h.code : h \in Range(heldKeys)},
                  openApple |-> keyboard.openApple /\ ~\E h \in Range(heldKeys) : h.openApple]
terminal_byte_to_apple(b) == CASE b = "del" -> "left" [] OTHER -> b
map_key(code, openApple) ==
  /\ keyboard' = [down |-> keyboard.down \cup {code}, openApple |-> keyboard.openApple \/ openApple]
  /\ heldKeys' = Append(heldKeys, [code |-> code, openApple |-> openApple])
KeepKeyboard == UNCHANGED <<heldKeys, keyboard>>

----------------------------------------------------------------------------
(* The mouse. The terminal hears what is written to it in order.                *)
Write(words) == toTerminal' = toTerminal \o words
tracking_wanted(card) == card.present /\ Scenes[scene].capture
read_cell_size_from_window == terminal.size = "window"
mouse_frontend_button(card, down) ==
  IF card.present THEN [card EXCEPT !.button = down, !.fromSave = FALSE] ELSE card

(* What decide_report_unit makes of the pointer, and what it writes.            *)
Decided_unasked(p) ==      \* a broken Decided: pixels by the size of a cell alone
  IF ~p.pixels /\ p.cell /\ p.setting # Unlisted THEN [p EXCEPT !.pixels = TRUE] ELSE p
Decided(p) ==
  CASE p.pixels -> p
    [] p.cell /\ ~p.pixels /\ p.setting \in {1, 2, 3} -> [p EXCEPT !.pixels = TRUE]
    [] ~p.cell /\ ~p.pixels /\ p.setting \in {1, 3} -> [p EXCEPT !.setting = 2]
    [] OTHER -> p
DecisionSays(p) ==
  CASE ~p.pixels /\ p.cell /\ p.setting = 2 -> <<"1016h">>
    [] ~p.pixels /\ ~p.cell /\ p.setting \in {1, 3} -> <<"1016l">>
    [] OTHER -> << >>
decide_report_unit(p) == pointer' = Decided(p) /\ Write(DecisionSays(p))

Started ==
  [tracking |-> TRUE, pixels |-> FALSE, setting |-> Unlisted, cell |-> read_cell_size_from_window, leftHeld |-> FALSE]
StartWords == <<"1003h", "1016$p", "16t">>      \* 1003 and 1006 go together
StopWords == <<"1016l", "1003l">>
start_tracking(card) == pointer' = Started /\ Write(StartWords) /\ mouseCard' = card
Stopped(p) == [p EXCEPT !.tracking = FALSE, !.pixels = FALSE, !.leftHeld = FALSE]
stop_tracking(card) ==
  IF ~pointer.tracking THEN UNCHANGED <<pointer, toTerminal>> /\ mouseCard' = card
  ELSE /\ pointer' = Stopped(pointer) /\ Write(StopWords)
       /\ mouseCard' = IF pointer.leftHeld THEN mouse_frontend_button(card, FALSE) ELSE card
follow_machine(card) ==
  IF tracking_wanted(card) = pointer.tracking THEN UNCHANGED <<pointer, toTerminal>> /\ mouseCard' = card
  ELSE IF pointer.tracking THEN stop_tracking(card) ELSE start_tracking(card)

(* A motion moves the card's pointer and nothing here.                          *)
MouseReports == ("<press" :> "M") @@ ("<motion" :> "M") @@ ("<release" :> "m")
handle_mouse_report(final, token) ==
  /\ UNCHANGED toTerminal
  /\ CASE token = "<press" /\ final = "M" /\ ~pointer.leftHeld ->
            pointer' = [pointer EXCEPT !.leftHeld = TRUE] /\ mouseCard' = mouse_frontend_button(mouseCard, TRUE)
       [] token = "<release" /\ final = "m" /\ pointer.leftHeld ->
            pointer' = [pointer EXCEPT !.leftHeld = FALSE] /\ mouseCard' = mouse_frontend_button(mouseCard, FALSE)
       [] OTHER -> UNCHANGED <<pointer, mouseCard>>
ModeReports == ("?1016;0$" :> 0) @@ ("?1016;1$" :> 1) @@ ("?1016;2$" :> 2) @@ ("?1016;3$" :> 3) @@ ("?1016;4$" :> 4)
handle_terminal_reply(final, token) ==
  /\ UNCHANGED mouseCard
  /\ CASE final = "y" /\ token \in DOMAIN ModeReports ->
            decide_report_unit([pointer EXCEPT !.setting = ModeReports[token]])
       [] final = "t" /\ token = "6;h;w" -> decide_report_unit([pointer EXCEPT !.cell = TRUE])
       [] OTHER -> UNCHANGED <<pointer, toTerminal>>
KeepMouse == UNCHANGED <<pointer, mouseCard, toTerminal>>

----------------------------------------------------------------------------
(* What the keys do.                                                            *)
KeepPicker == UNCHANGED pickerVars
Ui(u) == ui' = u /\ KeepKeyboard
Browse(slot, drive) ==
  Ui([ui EXCEPT !.help = FALSE]) /\ tui_disk_select_open(slot, drive) /\ UNCHANGED hostDisk /\ KeepMouse
swap_drives ==
  LET swapped == [d \in DOMAIN drives |-> IF d[1] = "disk" THEN drives[<<"disk", 1 - d[2]>>] ELSE drives[d]]
  IN  /\ drives' = swapped
      /\ recorded' = [d \in DOMAIN recorded |-> IF d[1] = "disk" THEN swapped[d] ELSE recorded[d]]
      /\ UNCHANGED <<hostDisk, picker, startDirs, trail>> /\ Ui(ui) /\ KeepMouse
toggle_debugger == [ui EXCEPT !.mode = IF @ = "debug" THEN "running" ELSE "debug"]
toggle_pause ==
  [ui EXCEPT !.mode = CASE @ = "running" -> "paused" [] @ = "paused" -> "running" [] OTHER -> @]
load_state ==
  /\ \/ follow_machine(mouseCard)                                     \* nothing to load
     \/ \E card \in LoadedCards : follow_machine(card)
  /\ Ui(ui) /\ KeepPicker
(* Functions of the machine, the screen and the configuration, which other      *)
(* modules hold.                                                                *)
OthersCommands ==
  {"fullscreen", "screenshot", "video", "save", "turbo", "config", "render", "rocker", "nothing"}
Commanded(did) ==
  CASE did = "help" -> Ui([ui EXCEPT !.help = ~@]) /\ KeepMouse /\ KeepPicker
    [] did \in {"reset", "soft reset"} -> Ui([ui EXCEPT !.mode = "running"]) /\ KeepMouse /\ KeepPicker
    [] did = "restart" -> Ui([ui EXCEPT !.restart = TRUE]) /\ KeepMouse /\ KeepPicker
    [] did = "quit" -> Ui([ui EXCEPT !.interrupted = TRUE]) /\ KeepMouse /\ KeepPicker
    [] did = "debugger" -> Ui(toggle_debugger) /\ KeepMouse /\ KeepPicker
    [] did = "pause" -> Ui(toggle_pause) /\ KeepMouse /\ KeepPicker
    [] did = "floppy1" -> Browse(6, 0)
    [] did = "floppy2" -> Browse(6, 1)
    [] did = "hard1" -> Browse(HardDiskSlot, 0)
    [] did = "hard2" -> Browse(HardDiskSlot, 1)
    [] did = "swap" -> swap_drives
    [] did = "load" -> load_state
    [] did = "unknown" -> Ui([ui EXCEPT !.help = FALSE]) /\ KeepMouse /\ KeepPicker
    [] did \in OthersCommands -> Ui(ui) /\ KeepMouse /\ KeepPicker

(* The other keys go to whatever has the screen: the chooser, the help, the     *)
(* debugger, the Apple.                                                         *)
View ==
  CASE picker.active -> "picker" [] ui.help /\ ~picker.active -> "help"
    [] ui.mode = "debug" /\ ~ui.help /\ ~picker.active -> "debugger" [] OTHER -> "apple"
PickerKey(key) ==
  CASE key \in {"up", "left"} -> PickerBecomes(Moved(picker, -1))
    [] key \in {"down", "right"} -> PickerBecomes(Moved(picker, 1))
    [] key = "page up" -> PickerBecomes(Paged(picker, -1))
    [] key = "page down" -> PickerBecomes(Paged(picker, 1))
    [] key = "home" -> PickerBecomes(Homed(picker))
    [] key = "end" -> PickerBecomes(Ended(picker))
    [] key = "esc" -> PickerBecomes(ClosedPicker(picker))
    [] key = "cr" -> disk_browser_confirm
    [] key = "letter" -> PickerBecomes(Jumped(picker, 1))
    [] OTHER -> PickerBecomes(picker)
ScreenOnlyKeys == {"home", "end", "page up", "page down"}
(* An ESC that no byte follows is not the debugger's (toApple).                 *)
ViewKey(key, openApple, toApple) ==
  /\ KeepMouse
  /\ \/ View = "picker" /\ PickerKey(key) /\ UNCHANGED hostDisk /\ Ui(ui)
     \/ View = "help" /\ KeepPicker /\ Ui(IF key \in ScreenOnlyKeys THEN ui ELSE [ui EXCEPT !.help = FALSE])
     \/ View = "debugger" /\ ~toApple /\ KeepPicker /\ Ui(ui)
     \/ (View = "apple" \/ (toApple /\ View = "debugger")) /\ KeepPicker /\ UNCHANGED ui
        /\ IF key \in ScreenOnlyKeys THEN KeepKeyboard ELSE map_key(key, openApple)
ViewKeys == {"up", "down", "left", "right", "home", "end", "page up", "page down", "delete"}
KeyPressed(key) == IF key \in ViewKeys THEN ViewKey(key, FALSE, FALSE) ELSE Commanded(key)

----------------------------------------------------------------------------
(* The bytes at the head of the queue, and how many of them a keystroke takes.  *)
KeyByte(q, n) == IF n <= Len(q) THEN q[n].b ELSE "none"
utf8_continuation_count(b) == IF b = "lead" THEN 1 ELSE 0
utf8_sequence_at(q) == KeyByte(q, 1) = "lead" /\ KeyByte(q, 2) = "tail"
(* Where reading the queue must wait a moment for what may belong to its head.  *)
WantsMore(q) == Len(q) = 1 /\ (KeyByte(q, 1) = "esc" \/ utf8_continuation_count(KeyByte(q, 1)) > 0)
IsCsi(q) == KeyByte(q, 1) = "esc" /\ KeyByte(q, 2) = "[" /\ KeyByte(q, 3) # "["
CsiEnd(q) ==      \* the first byte that can end it, or where the search stops
  LET ends == {n \in 3 .. Len(q) : q[n].b \in Finals \/ n > MaxEscape}
  IN  IF ends = {} THEN Len(q) + 1 ELSE CHOOSE n \in ends : \A k \in ends : n <= k
CsiToken(q, end) == CASE end = 3 -> "" [] end = 4 -> q[3].b [] OTHER -> "noise"

(* The queue after its first n bytes; the loop ends with it.                    *)
Take(q, n, did) ==
  /\ inputQueue' = SubSeq(q, n + 1, Len(q)) /\ processing' = (n < Len(q))
  /\ last' = [means |-> q[1].means, did |-> did]
Breaks(q) ==      \* the rest of the keystroke comes with a later read
  /\ inputQueue' = q /\ processing' = FALSE
  /\ Ui(ui) /\ KeepMouse /\ KeepPicker /\ UNCHANGED last

LoneEscape(q) == q[1].b = "esc" /\ Len(q) = 1 /\ Take(q, 1, "key") /\ ViewKey("esc", FALSE, TRUE)
Ss3(q) ==
  /\ KeyByte(q, 1) = "esc" /\ KeyByte(q, 2) = "O"
  /\ IF Len(q) < 3 THEN Breaks(q)
     ELSE \E key \in {Asked(Ss3Keys, q[3].b, "unknown")} : Take(q, 3, key) /\ KeyPressed(key)
Console(q) ==
  /\ KeyByte(q, 1) = "esc" /\ KeyByte(q, 2) = "[" /\ KeyByte(q, 3) = "["
  /\ IF Len(q) < 4 THEN Breaks(q)
     ELSE \E key \in {Asked(ConsoleKeys, q[4].b, "unknown")} : Take(q, 4, key) /\ KeyPressed(key)
Csi(q) ==
  /\ IsCsi(q)
  /\ LET end == CsiEnd(q)
         token == CsiToken(q, end)
     IN  \/ /\ end <= Len(q) /\ KeyByte(q, end) \in Finals
            /\ IF KeyByte(q, 3) \in DOMAIN MouseReports
               THEN Take(q, end, "report") /\ handle_mouse_report(q[end].b, token) /\ Ui(ui) /\ KeepPicker
               ELSE IF KeyByte(q, end) \in {"y", "t"}
               THEN Take(q, end, "reply") /\ handle_terminal_reply(q[end].b, token) /\ Ui(ui) /\ KeepPicker
               ELSE \E key \in {CsiKey(q[end].b, token)} : Take(q, end, key) /\ KeyPressed(key)
         \/ /\ end <= Len(q) /\ KeyByte(q, end) \notin Finals      \* too long to be one: the ESC goes alone
            /\ Take(q, 1, "nothing") /\ Ui(ui) /\ KeepMouse /\ KeepPicker
         \/ end > Len(q) /\ Breaks(q)
AltKey(q) ==
  /\ q[1].b = "esc" /\ Len(q) >= 2 /\ q[2].b \notin {"O", "[", "esc"} \cup HighBytes
  /\ Take(q, 2, "key") /\ KeepMouse /\ KeepPicker
  /\ IF View = "apple" THEN map_key(terminal_byte_to_apple(q[2].b), TRUE) /\ UNCHANGED ui ELSE Ui(ui)
EscapeKey(q) ==
  /\ q[1].b = "esc" /\ KeyByte(q, 2) \in {"esc"} \cup HighBytes
  /\ Take(q, 1, "key") /\ ViewKey("esc", FALSE, FALSE)
Utf8Character(q) == utf8_sequence_at(q) /\ Take(q, 2, "nothing") /\ Ui(ui) /\ KeepMouse /\ KeepPicker
PlainByte(q) ==
  /\ q[1].b # "esc" /\ ~utf8_sequence_at(q)
  /\ Take(q, 1, "key")
  /\ ViewKey(terminal_byte_to_apple(q[1].b), q[1].b \in HighBytes, FALSE)

(* A keystroke whose rest is still on its way when the wait ends, and one that  *)
(* others begin with, cannot be told from what they look like.                  *)
Torn(q, rest) == WantsMore(q) /\ rest # << >> /\ Head(rest).means = ""
(* A question the terminal is asked while an answer to an earlier one is on its *)
(* way: the old answer is taken for the new.                                    *)
Unanswered ==
  \/ "1016$p" \in Range(toTerminal)
  \/ \E n \in DOMAIN (inputQueue \o pipe) : (inputQueue \o pipe)[n].b \in DOMAIN ModeReports
AsksAgain == Unanswered /\ pointer'.tracking /\ pointer'.setting = Unlisted /\ Len(toTerminal') > Len(toTerminal)
process_sequences ==
  /\ processing
  /\ \E k \in IF ~WantsMore(inputQueue) THEN {0} ELSE IF Scenes[scene].split THEN 0 .. Len(pipe) ELSE {Len(pipe)} :
     \E q \in {inputQueue \o SubSeq(pipe, 1, k)} :
       /\ pipe' = SubSeq(pipe, k + 1, Len(pipe))
       /\ \/ LoneEscape(q) \/ Ss3(q) \/ Console(q) \/ Csi(q) \/ AltKey(q) \/ EscapeKey(q)
          \/ Utf8Character(q) \/ PlainByte(q)
       /\ doubt' = (doubt \/ Torn(q, pipe') \/ (q[1].means = "doubtful" /\ Len(q) > 1) \/ AsksAgain)
  /\ UNCHANGED <<scene, typed, terminal>>

----------------------------------------------------------------------------
(* The frame loop (Main.cpp) and the session around it.                         *)
Running == ~ui.over /\ ~ui.interrupted /\ ~ui.restart
tui_input_poll ==
  /\ ~processing /\ Running
  /\ release_held_keys
  /\ \E k \in IF Scenes[scene].split THEN 0 .. Len(pipe) ELSE {Len(pipe)} :
       /\ inputQueue' = inputQueue \o SubSeq(pipe, 1, k) /\ pipe' = SubSeq(pipe, k + 1, Len(pipe))
       /\ processing' = (k > 0)
  /\ UNCHANGED <<scene, typed, ui, pointer, mouseCard, terminal, toTerminal, last, doubt>> /\ KeepPicker
(* A resize counts as a keystroke, once the terminal has heard everything.      *)
tui_input_on_resize ==
  /\ ~processing /\ Running /\ pointer.tracking /\ toTerminal = << >> /\ typed < Scenes[scene].count
  /\ LET p == [pointer EXCEPT !.cell = @ \/ read_cell_size_from_window]
     IN  pointer' = Decided(p) /\ Write(Append(DecisionSays(p), "16t"))
  /\ typed' = typed + 1
  /\ UNCHANGED <<scene, pipe, inputQueue, processing, ui, mouseCard, terminal, last, doubt>>
  /\ KeepKeyboard /\ KeepPicker
(* What a handler of SIGSEGV writes, and what the program writes at its end.    *)
restore_terminal == StopWords
SessionEnds(words) ==      \* tui_input_shutdown: keys held are not let up
  /\ inputQueue' = << >> /\ heldKeys' = << >> /\ keyboard' = [down |-> {}, openApple |-> FALSE]
  /\ Write((IF pointer.tracking THEN StopWords ELSE << >>) \o words)
  /\ doubt' = (doubt \/ AsksAgain \/ (inputQueue # << >> /\ pipe # << >> /\ Head(pipe).means = ""))
Restart ==      \* a new machine, as configured
  /\ ~processing /\ ~ui.over /\ ui.restart /\ ~ui.interrupted
  /\ mouseCard' = Scenes[scene].card
  /\ pointer' = IF tracking_wanted(Scenes[scene].card) THEN Started ELSE Stopped(pointer)
  /\ SessionEnds(IF tracking_wanted(Scenes[scene].card) THEN StartWords ELSE << >>)
  /\ ui' = [ui EXCEPT !.mode = "running", !.restart = FALSE, !.help = FALSE]
  /\ UNCHANGED <<scene, typed, pipe, processing, terminal, last>> /\ KeepPicker
Quit ==
  /\ ~processing /\ ~ui.over /\ ui.interrupted
  /\ pointer' = Stopped(pointer) /\ SessionEnds(restore_terminal)
  /\ mouseCard' = IF pointer.leftHeld THEN mouse_frontend_button(mouseCard, FALSE) ELSE mouseCard
  /\ ui' = [ui EXCEPT !.over = TRUE]
  /\ UNCHANGED <<scene, typed, pipe, processing, terminal, last>> /\ KeepPicker
fatal_signal_handler ==
  /\ ~ui.over /\ typed = Scenes[scene].count /\ Scenes[scene].capture
  /\ Write(restore_terminal) /\ ui' = [ui EXCEPT !.over = TRUE] /\ processing' = FALSE
  /\ pointer' = Stopped(pointer)      \* the program is gone
  /\ UNCHANGED <<scene, typed, pipe, inputQueue, mouseCard, terminal, last, doubt>> /\ KeepKeyboard /\ KeepPicker

----------------------------------------------------------------------------
(* The other end: what the user does and what the terminal makes of it.         *)
Sent(bytes, means) == [n \in 1 .. Len(bytes) |-> [b |-> bytes[n], means |-> IF n = 1 THEN means ELSE ""]]
Type ==
  /\ ~processing /\ Running /\ typed < Scenes[scene].count
  /\ Scenes[scene].split \/ pipe = << >>      \* a bound
  /\ \E key \in Scenes[scene].keys :
       /\ key.bytes[1] = "esc" /\ Len(key.bytes) > 2 /\ key.bytes[3] \in DOMAIN MouseReports => terminal.mouse
       /\ pipe' = pipe \o Sent(key.bytes, key.means)
  /\ typed' = typed + 1
  /\ UNCHANGED <<scene, inputQueue, processing, ui, pointer, mouseCard, terminal, toTerminal, last, doubt>>
  /\ KeepKeyboard /\ KeepPicker
Setting ==
  CASE terminal.kind = "unknown" -> "?1016;0$" [] terminal.kind = "always" -> "?1016;3$"
    [] terminal.kind = "never" -> "?1016;4$"
    [] OTHER -> IF terminal.pixels THEN "?1016;1$" ELSE "?1016;2$"
Reply(word) ==
  CASE word = "1016$p" /\ terminal.kind # "silent" -> Sent(<<"esc", "[", Setting, "y">>, "answer")
    [] word = "16t" /\ terminal.size = "reply" -> Sent(<<"esc", "[", "6;h;w", "t">>, "answer")
    [] OTHER -> << >>
TerminalHears ==
  /\ ~processing /\ toTerminal # << >>
  /\ toTerminal' = Tail(toTerminal)
  /\ pipe' = pipe \o Reply(Head(toTerminal))
  /\ terminal' = CASE Head(toTerminal) = "1003h" -> [terminal EXCEPT !.mouse = TRUE]
                   [] Head(toTerminal) = "1003l" -> [terminal EXCEPT !.mouse = FALSE]
                   [] Head(toTerminal) = "1016h" /\ terminal.kind = "either" -> [terminal EXCEPT !.pixels = TRUE]
                   [] Head(toTerminal) = "1016l" /\ terminal.kind = "either" -> [terminal EXCEPT !.pixels = FALSE]
                   [] OTHER -> terminal
  /\ UNCHANGED <<scene, typed, inputQueue, processing, ui, pointer, mouseCard, last, doubt>>
  /\ KeepKeyboard /\ KeepPicker
FolderChanges ==
  /\ picker.active /\ ~processing /\ pipe = << >> /\ HostChanges
  /\ UNCHANGED <<scene, typed, pipe, inputQueue, processing, heldKeys, keyboard, ui, pointer, mouseCard,
                 terminal, toTerminal, last, doubt>>

TerminalInit ==
  /\ PickerInit /\ scene \in DOMAIN Scenes /\ typed = 0
  /\ pipe = << >> /\ inputQueue = << >> /\ processing = FALSE
  /\ heldKeys = << >> /\ keyboard = [down |-> {}, openApple |-> FALSE]
  /\ ui = [help |-> FALSE, mode |-> "running", restart |-> FALSE, interrupted |-> FALSE, over |-> FALSE]
  /\ mouseCard = Scenes[scene].card
  /\ \E t \in Scenes[scene].terminals :
       terminal = [kind |-> t.kind, size |-> t.size, pixels |-> t.pixels, mouse |-> FALSE]
  /\ pointer = IF tracking_wanted(Scenes[scene].card) THEN Started ELSE [Started EXCEPT !.tracking = FALSE, !.cell = FALSE]
  /\ toTerminal = IF tracking_wanted(Scenes[scene].card) THEN StartWords ELSE << >>
  /\ last = [means |-> "", did |-> ""] /\ doubt = FALSE
TerminalNext ==
  \/ process_sequences \/ tui_input_poll \/ tui_input_on_resize \/ Restart \/ Quit \/ fatal_signal_handler
  \/ Type \/ TerminalHears \/ FolderChanges

----------------------------------------------------------------------------
HelpPromises ==
  {"help", "reset", "soft reset", "restart", "quit", "floppy1", "floppy2", "swap", "hard1", "hard2", "fullscreen",
   "rocker", "debugger", "screenshot", "config", "video", "render", "load", "save", "pause", "turbo"}
KeystrokesAreTakenWhole ==
  /\ inputQueue # << >> => Head(inputQueue).means # ""
  /\ inputQueue = << >> /\ pipe # << >> => Head(pipe).means # ""
  /\ last.means \in HelpPromises => last.did = last.means
HeldKeysComeUp ==
  /\ keyboard.down = {h.code : h \in Range(heldKeys)}
  /\ keyboard.openApple = \E h \in Range(heldKeys) : h.openApple
ButtonFollowsTheHand ==
  mouseCard.present /\ ~mouseCard.fromSave /\ ~ui.over => mouseCard.button = pointer.leftHeld
Settled ==
  /\ ~processing /\ toTerminal = << >> /\ ~doubt
  /\ \A n \in DOMAIN (inputQueue \o pipe) : (inputQueue \o pipe)[n].means # "answer"
ReportsAreInTheUnitTheyAreReadIn ==
  pointer.tracking /\ Settled /\ (terminal.kind = "always" => pointer.cell) => pointer.pixels = terminal.pixels
TerminalIsGivenBack ==
  ui.over /\ toTerminal = << >> => ~terminal.mouse /\ (terminal.kind = "either" => ~terminal.pixels)

(* Wherever reads cut the stream, the terminal's keystrokes are taken whole, in *)
(* every encoding with the effect the help promises; what is pressed for a      *)
(* keystroke is let up by the next poll; the machine's button is the hand's;    *)
(* once question and answer have met, positions are read in the unit the        *)
(* terminal sends; and a program that ends or crashes leaves the terminal       *)
(* without its mouse (TuiInput.cpp, TuiTerminal.cpp). A keystroke that is late  *)
(* or is the beginning of another may be mistaken, and from then on (doubt).    *)
TerminalIsFollowed ==
  /\ doubt \/ KeystrokesAreTakenWhole
  /\ HeldKeysComeUp
  /\ ButtonFollowsTheHand
  /\ ReportsAreInTheUnitTheyAreReadIn
  /\ TerminalIsGivenBack
  /\ PickerFollowsItsFolder
=============================================================================
