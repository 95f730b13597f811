------------------------------ MODULE CardSlots ------------------------------
(***************************************************************************)
(* The slots: which cards the configuration puts where, the registry of    *)
(* the cards, the queue of commands that frontends send them, and what a   *)
(* save state may replace and reload (apple2/peripherals/Peripheral.cpp    *)
(* and Peripheral_Internal.cpp, apple2/Snapshot.cpp).  A card is its       *)
(* identifier; `life` numbers its instances.  What the cards do with a     *)
(* command is their own modules'.                                          *)
(***************************************************************************)
EXTENDS Integers, Sequences, FiniteSets

CONSTANTS Built,      \* the expansion cards of this build
          Settings,   \* configurations: the table, the two keys, the request
          MaxCommands,  \* bound: commands sent in a behaviour
          MaxLoads      \* bound: save states loaded in a behaviour

ASSUME CardSlotsAssumption ==
    Built \subseteq {"printer", "ssc", "mouse", "mockingboard", "disk", "harddisk", "clock"}

VARIABLES setting,    \* the configuration the machine was started from
          board,      \* slot |-> the cards of active_peripherals, front first
          life,       \* slot |-> how many cards its expansion slot has had
          override,   \* legacy_override, None or the slot's two cards
          requested,  \* requested_slot
          mouseSlot,  \* the slot the mouse frontend sends to
          sent,       \* every command sent, in order
          waiting,    \* command_queue: positions in `sent`
          draining,   \* the batch think swapped out, still to be delivered
          taken,      \* per command, who executed it
          parts,      \* part |-> whether its state is live, reset or a file's
          slotFiles,  \* the manifests of the save states written so far
          loads       \* results of the loads so far

slotVars == <<setting, board, life, override, requested, mouseSlot, sent, waiting, draining,
              taken, parts, slotFiles, loads>>

None == "none"
Absent == "absent"
Expansion == 1 .. 7
InternalDevices == <<"speaker", "keyboard", "joystick">>

(* Every shipped card's compatible_slots is all of 1..7.                   *)
DefaultSlot(card) ==
    CASE card = "printer" -> 1 [] card = "ssc" -> 2 [] card = "mouse" -> 4
      [] card = "mockingboard" -> 4 [] card = "disk" -> 6 [] card = "harddisk" -> 7
      [] card = "clock" -> -1

-----------------------------------------------------------------------------
(* register_internal: what slot s holds before the run request is served.  *)

NamedCard(c, s) ==
    IF c.table[s] # Absent THEN c.table[s]
    ELSE CASE s = 1 -> "printer" [] s = 2 -> "ssc" [] s = 4 -> "mockingboard" [] s = 6 -> "disk"
           [] s = 7 /\ c.harddisk_key -> "harddisk"
           [] OTHER -> None

FoundCard(card) == IF card \in Built THEN card ELSE None      \* peripheral_find_internal

MouseKeyRules(c, s) == s = 4 /\ c.mouse_key /\ "mouse" \in Built

SlotsConfigured(c) ==
    [s \in Expansion |-> IF MouseKeyRules(c, s) THEN "mouse" ELSE FoundCard(NamedCard(c, s))]

LegacyOverride(c) ==
    IF MouseKeyRules(c, 4) /\ FoundCard(NamedCard(c, 4)) # "mouse"
    THEN [slot |-> 4, displaced |-> FoundCard(NamedCard(c, 4))]
    ELSE [slot |-> 0, displaced |-> None]

(* apply_run_request: the card's own slot, or the next lower free one that *)
(* its firmware can be reached in.                                         *)
TakesRequest(c, at, s, preferred) ==
    at[s] = None /\ (s = preferred \/ s # 3 \/ ~c.apple2e)

RequestSlot(c, at) ==
    LET holders == {s \in Expansion : at[s] = c.request}
        preferred == IF DefaultSlot(c.request) \in Expansion THEN DefaultSlot(c.request) ELSE 7
        free == {s \in 1 .. preferred : TakesRequest(c, at, s, preferred)}
    IN IF FoundCard(c.request) = None THEN -1
       ELSE IF holders # {} THEN CHOOSE s \in holders : \A t \in holders : s <= t
       ELSE IF free # {} THEN CHOOSE s \in free : \A t \in free : t <= s
       ELSE -1

Placed(c) ==
    LET at == SlotsConfigured(c) s == RequestSlot(c, SlotsConfigured(c))
    IN IF s = -1 THEN at ELSE [at EXCEPT ![s] = c.request]

AsBoard(at) ==
    [s \in 0 .. 7 |-> IF s = 0 THEN InternalDevices ELSE IF at[s] = None THEN <<>> ELSE <<at[s]>>]

SlotOf(b, card) ==                                        \* peripheral_slot_of
    LET holders == {s \in 0 .. 7 : \E i \in DOMAIN b[s] : b[s][i] = card}
    IN IF holders = {} THEN -1 ELSE CHOOSE s \in holders : \A t \in holders : s <= t

FrontCard(b, s) == IF b[s] = <<>> THEN None ELSE Head(b[s])

AllParts(state) ==
    [memory |-> state, cpu |-> state, video |-> state, keyboard |-> state,
     slot |-> [s \in 0 .. 7 |-> state]]

-----------------------------------------------------------------------------
(* Starting: peripheral_manager_init, then the placement.                  *)

Started(c) ==
    /\ setting = c
    /\ board = AsBoard(Placed(c))
    /\ override = LegacyOverride(c)
    /\ requested = RequestSlot(c, SlotsConfigured(c))
    /\ mouseSlot = SlotOf(AsBoard(Placed(c)), "mouse")

SlotsInit ==
    /\ \E c \in Settings : Started(c)
    /\ life = [s \in 0 .. 7 |-> 1]
    /\ sent = <<>> /\ waiting = <<>> /\ draining = <<>> /\ taken = <<>>
    /\ parts = AllParts("live")
    /\ slotFiles = {} /\ loads = <<>>

(* peripheral_command and peripheral_command_by_id, as the frontends use   *)
(* them: keys to slot 0 and disks to the disk card's slot go to whoever is *)
(* there; the mouse's moves name the card, in the slot last looked up.     *)
Send(slot, target) ==
    /\ Len(sent) < MaxCommands
    /\ target # None => \E i \in DOMAIN board[slot] : board[slot][i] = target
    /\ sent' = Append(sent, [slot |-> slot, target |-> target, life |-> life[slot]])
    /\ waiting' = Append(waiting, Len(sent) + 1)
    /\ taken' = Append(taken, {})
    /\ UNCHANGED <<setting, board, life, override, requested, mouseSlot, draining, parts,
                   slotFiles, loads>>

SendKey == Send(0, None)

SendMouse == mouseSlot # -1 /\ Send(mouseSlot, "mouse")

(* peripheral_drain_command_queue: the whole queue becomes one batch, and  *)
(* a command sent from here on waits for the next.                         *)
TakeBatch ==
    /\ draining = <<>> /\ waiting # <<>>
    /\ draining' = waiting
    /\ waiting' = <<>>
    /\ UNCHANGED <<setting, board, life, override, requested, mouseSlot, sent, taken, parts,
                   slotFiles, loads>>

\* (A plausible bug: a command goes to whatever card the slot holds by then.)
Addressed_slot_only(command, card) == TRUE

Addressed(command, card) == command.target = None \/ command.target = card

Deliver ==
    /\ draining # <<>>
    /\ LET n == Head(draining) command == sent[n]
       IN taken' = [taken EXCEPT ![n] =
                      {[card |-> board[command.slot][i], life |-> life[command.slot]] :
                         i \in {j \in DOMAIN board[command.slot] :
                                  Addressed(command, board[command.slot][j])}}]
    /\ draining' = Tail(draining)
    /\ UNCHANGED <<setting, board, life, override, requested, mouseSlot, sent, waiting, parts,
                   slotFiles, loads>>

-----------------------------------------------------------------------------
(* Save states, taken and loaded between frames.                           *)

Names(b) == [s \in Expansion |-> FrontCard(b, s)]             \* peripheral_get_manifest

SaveState ==
    /\ draining = <<>>
    /\ slotFiles' = slotFiles \cup {Names(board)}
    /\ slotFiles' # slotFiles
    /\ UNCHANGED <<setting, board, life, override, requested, mouseSlot, sent, waiting, draining,
                   taken, parts, loads>>

(* manifest_admits: the slot of the legacy key may name the other of the   *)
(* key's two cards, every other slot has to name the card it holds.        *)
SwapWanted(names, b, s) ==
    /\ s = override.slot
    /\ {names[s], FrontCard(b, s)} = {"mouse", override.displaced}

Admits(names, b) == \A s \in Expansion : names[s] = FrontCard(b, s) \/ SwapWanted(names, b, s)

(* apply_legacy_swap                                                       *)
CardsSwapped(names, b) ==
    [s \in 0 .. 7 |-> IF s \in Expansion /\ names[s] # FrontCard(b, s)
                      THEN IF names[s] = None THEN <<>> ELSE <<names[s]>>
                      ELSE b[s]]

(* What the last loop leaves in slot s: the trailer's state, else the      *)
(* fixed region's; a card that refuses it stays at reset, and so does the  *)
(* disk card, which neither holds.                                         *)
SlotAfterLoad(trailer, refused, b, s) ==
    IF b[s] = <<>> \/ s = 6 \/ (~trailer /\ s \in refused) THEN "reset" ELSE "file"

\* (A plausible bug: a card whose part is missing is not reset.)
SlotsLoaded_over_live(trailer, refused, b) ==
    [AllParts("file") EXCEPT
       !.slot = [s \in 0 .. 7 |-> IF SlotAfterLoad(trailer, refused, b, s) = "file"
                                  THEN "file" ELSE parts.slot[s]]]

SlotsLoaded(trailer, refused, b) ==
    [AllParts("file") EXCEPT !.slot = [s \in 0 .. 7 |-> SlotAfterLoad(trailer, refused, b, s)]]

(* snapshot_deserialize, and save_state_load's look for the mouse after it *)
LoadSlots(names, trailer, sane, refused) ==
    /\ draining = <<>> /\ Len(loads) < MaxLoads
    /\ IF Admits(names, board) /\ sane
       THEN LET b == CardsSwapped(names, board)
            IN /\ board' = b
               /\ life' = [s \in 0 .. 7 |-> IF b[s] = board[s] THEN life[s] ELSE life[s] + 1]
               /\ parts' = SlotsLoaded(trailer, refused, b)
               /\ mouseSlot' = SlotOf(b, "mouse")
               /\ loads' = Append(loads, "loaded")
       ELSE /\ loads' = Append(loads, "refused")
            /\ UNCHANGED <<board, life, parts, mouseSlot>>
    /\ UNCHANGED <<setting, override, requested, sent, waiting, draining, taken, slotFiles>>

(* A file written before the mouse key was set, and one of a machine with  *)
(* something else in a slot.                                               *)
Earlier == Names(AsBoard(Placed([setting EXCEPT !.mouse_key = FALSE])))

Foreign(b) == [Names(b) EXCEPT ![7] = IF @ = None THEN "clock" ELSE None]

LoadAny ==
    \E names \in slotFiles \cup {Earlier, Foreign(board)}, trailer, sane \in BOOLEAN, refused \in {{}, {4}} :
       /\ sane \/ trailer
       /\ LoadSlots(names, trailer, sane, refused)

Run ==
    /\ parts # AllParts("live")
    /\ parts' = AllParts("live")
    /\ UNCHANGED <<setting, board, life, override, requested, mouseSlot, sent, waiting, draining,
                   taken, slotFiles, loads>>

SlotsNext ==
    SendKey \/ SendMouse \/ TakeBatch \/ Deliver \/ SaveState \/ LoadAny \/ Run

SlotsSpec == SlotsInit /\ [][SlotsNext]_slotVars

-----------------------------------------------------------------------------
Cards == Built \cup {"speaker", "keyboard", "joystick"}

SlotsTypeOK ==
    /\ \A s \in 0 .. 7 : \A i \in DOMAIN board[s] : board[s][i] \in Cards
    /\ \A s \in Expansion : Len(board[s]) <= 1
    /\ requested \in {-1} \cup Expansion /\ mouseSlot \in {-1} \cup Expansion

(* The configuration rules: every built card it names is in its slot, the  *)
(* card asked for this run is in the machine whenever a slot could take    *)
(* it, displaces nothing, sits where its firmware is reached, and no free  *)
(* slot nearer its own was passed over.                                    *)
ConfigurationRules ==
    loads = <<>> =>
      /\ LET configured == SlotsConfigured(setting)
         IN \A s \in Expansion : configured[s] # None => FrontCard(board, s) = configured[s]
      /\ requested # -1 =>
            /\ FrontCard(board, requested) = setting.request
            /\ (requested = 3 /\ setting.apple2e) => SlotsConfigured(setting)[3] = setting.request
      /\ setting.request \in Built /\ (\A s \in Expansion : FrontCard(board, s) # setting.request) =>
            \A s \in Expansion : FrontCard(board, s) = None =>
              (s = 3 /\ setting.apple2e) \/ s > DefaultSlot(setting.request)

(* A command that names a card is executed by no other, also when the card *)
(* is replaced between the sending and the frame that delivers it; a card  *)
(* that is still there executes each of its commands, one at a time, in    *)
(* the order they were sent; and the mouse's frontend sends to where the   *)
(* mouse is.                                                               *)
CommandsFindTheirCard ==
    /\ \A n \in DOMAIN sent : sent[n].target # None =>
          \A t \in taken[n] : t.card = sent[n].target
    /\ \A n \in DOMAIN sent :
          \/ \E i \in DOMAIN waiting : waiting[i] = n
          \/ \E i \in DOMAIN draining : draining[i] = n
          \/ life[sent[n].slot] = sent[n].life => taken[n] # {}
    /\ LET left == draining \o waiting
       IN \A i \in DOMAIN left : left[i] = Len(sent) - Len(left) + i
    /\ mouseSlot = SlotOf(board, "mouse")

(* Every save state this session wrote can be loaded for the rest of it,   *)
(* also after loads that swapped the card of the legacy key.               *)
OwnFilesStayLoadable == \A names \in slotFiles : Admits(names, board)

(* A load happens wholly or not at all: a refused file leaves every part   *)
(* and every card as it was; after a loaded one the slots hold the cards   *)
(* the file names and no part still has what it had before.                *)
LoadIsWhole ==
    [][loads' # loads =>
         IF loads'[Len(loads')] = "refused" THEN UNCHANGED <<board, life, parts, mouseSlot>>
         ELSE /\ \E names \in slotFiles \cup {Earlier} : Names(board') = names
              /\ \A s \in 0 .. 7 : parts'.slot[s] # "live"
              /\ {parts'.memory, parts'.cpu, parts'.video, parts'.keyboard} = {"file"}]_slotVars

\* The slots over a session: the cards are where the configuration put them, the
\* commands reach the card they name, and every file the session saved still loads.
SlotsAreKept ==
    /\ SlotsTypeOK
    /\ ConfigurationRules
    /\ CommandsFindTheirCard
    /\ OwnFilesStayLoadable
=============================================================================
