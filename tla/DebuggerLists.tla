--------------------------- MODULE DebuggerLists ---------------------------
(* The debugger's lists of breakpoints, watches, zero page pointers and        *)
(* bookmarks: an array of slots and a count beside it that decides what may    *)
(* be added and whether there is anything to clear (Debugger_Breakpoints.cpp,  *)
(* Debugger_Cmd_ZeroPage.cpp, Debugger_Bookmarks.cpp).                         *)
EXTENDS Integers, Sequences, SequencesExt, FiniteSets

CONSTANTS
  ListSlots,       \* MAX_BREAKPOINTS, MAX_WATCHES ...: slots of every list
  IoAddresses,     \* I/O addresses among the numbers: not to be watched
  ListArguments,   \* sequences of numbers that reach a command as its arguments
  MaxListSteps     \* commands: a bound of the model

ASSUME ListsAssumption == ListSlots \in Nat /\ ListArguments \subseteq Seq(Nat)

VARIABLES
  debugLists,      \* [list -> [slots, count]]
  pointed,         \* history: P0 to P4 have set a pointer without counting it
  listSteps

listVars == <<debugLists, pointed, listSteps>>

ListKinds == {"breakpoints", "watches", "zeropage", "bookmarks"}
Slot == 0 .. ListSlots - 1
EmptySlot == [set |-> FALSE, enabled |-> FALSE, address |-> 0]
SetIn(list) == {i \in Slot : list.slots[i].set}
FirstFree(list) ==
  IF SetIn(list) = Slot THEN ListSlots
  ELSE CHOOSE i \in Slot \ SetIn(list) : \A j \in Slot \ SetIn(list) : i <= j

ListsInit ==
  /\ debugLists = [k \in ListKinds |-> [slots |-> [i \in Slot |-> EmptySlot], count |-> 0]]
  /\ pointed = FALSE /\ listSteps = 0
ListStep == listSteps < MaxListSteps /\ listSteps' = listSteps + 1
ListBecomes(kind, list) == debugLists' = [debugLists EXCEPT ![kind] = list]

----------------------------------------------------------------------------
(* Additions. Every argument of BP takes a breakpoint the first free slot.     *)
(* The other lists take one argument for an address, to go to the first free   *)
(* slot; of more, the first is the slot, and the addresses go there and to the *)
(* slots after it, whatever they hold, up to the last one or a full count: a   *)
(* slot written twice is counted twice. A watch of I/O ends its command.       *)
CmdBreakpointAddCommonArg(list, address) ==
  LET i == FirstFree(list)
  IN  IF i = ListSlots THEN list
      ELSE [slots |-> [list.slots EXCEPT ![i] = [set |-> TRUE, enabled |-> TRUE, address |-> address]],
            count |-> list.count + 1]
CmdBreakpointAddPC(named) ==
  /\ ListStep /\ UNCHANGED pointed
  /\ ListBecomes("breakpoints", FoldLeft(CmdBreakpointAddCommonArg, debugLists["breakpoints"], named))
AddedAt(kind, list, i, address) ==
  IF i \in Slot /\ list.count < ListSlots
  THEN [slots |-> [list.slots EXCEPT ![i] = [set |-> TRUE, address |-> address,
                                             enabled |-> kind # "bookmarks" \/ @.enabled]],
        count |-> list.count + 1]
  ELSE list
AddTo(kind, named) ==       \* CmdWatchAdd, CmdZeroPageAdd, CmdBookmarkAdd
  LET list == debugLists[kind]
      first == IF Len(named) > 1 THEN named[1] ELSE FirstFree(list)
      addresses == IF Len(named) > 1 THEN Tail(named) ELSE named
      added == FoldLeft(LAMBDA t, address :
                 IF t.refused \/ (kind = "watches" /\ address \in IoAddresses)
                 THEN [t EXCEPT !.refused = TRUE]
                 ELSE LET now == AddedAt(kind, t.list, t.slot, address)
                      IN  [t EXCEPT !.list = now, !.slot = IF now = t.list THEN @ ELSE @ + 1],
                 [list |-> list, slot |-> first, refused |-> FALSE], addresses)
  IN  /\ named # << >> /\ ListStep /\ UNCHANGED pointed
      /\ ListBecomes(kind, added.list)

(* Clearing. *)
bwz_RemoveOne_uncounted(list, i) ==      \* a broken bwz_RemoveOne: an empty slot counts
  [slots |-> [list.slots EXCEPT ![i] = EmptySlot], count |-> list.count - 1]
bwz_RemoveOne(list, i) ==
  IF list.slots[i].set
  THEN [slots |-> [list.slots EXCEPT ![i] = EmptySlot], count |-> list.count - 1]
  ELSE list
bwz_ClearViaArgs(list, named) ==
  FoldLeft(LAMBDA l, i : IF i \in Slot THEN bwz_RemoveOne(l, i) ELSE l, list, named)
bwz_RemoveAll == [slots |-> [i \in Slot |-> EmptySlot], count |-> 0]
Clear(kind, named) ==
  /\ ListStep /\ UNCHANGED pointed
  /\ LET list == debugLists[kind]
     IN  CASE list.count = 0 -> UNCHANGED debugLists
           [] list.count # 0 /\ named = << >> ->
                IF kind = "zeropage" THEN UNCHANGED debugLists ELSE ListBecomes(kind, bwz_RemoveAll)
           [] OTHER -> ListBecomes(kind, bwz_ClearViaArgs(list, named))
CmdBookmarkClear(unset) ==          \* the slots named, or all of them; the count stays
  LET list == debugLists["bookmarks"]
  IN  /\ ListStep /\ UNCHANGED pointed
      /\ ListBecomes("bookmarks",
           [list EXCEPT !.slots = [i \in Slot |-> [list.slots[i] EXCEPT !.set = @ /\ i \notin unset]]])

(* bwz_EnableDisableViaArgs: set or not. *)
EnableDisable(kind, named, on) ==
  LET list == debugLists[kind]
  IN  /\ kind # "bookmarks" /\ list.count # 0
      /\ ListStep /\ UNCHANGED pointed
      /\ ListBecomes(kind, [list EXCEPT !.slots =
           [i \in Slot |-> [list.slots[i] EXCEPT !.enabled = IF \E k \in DOMAIN named : named[k] = i THEN on ELSE @]]])

(* P0 to P4: an address sets the pointer without counting it. *)
CmdZeroPagePointer(i, address) ==
  /\ ListStep /\ pointed' = TRUE
  /\ ListBecomes("zeropage", [debugLists["zeropage"] EXCEPT
       !.slots[i] = [set |-> TRUE, enabled |-> TRUE, address |-> address]])
CmdZeroPagePointerOff(i) ==
  /\ ListStep /\ UNCHANGED pointed
  /\ ListBecomes("zeropage", [debugLists["zeropage"] EXCEPT !.slots[i].enabled = FALSE])

ListsNext ==
  \/ \E named \in ListArguments :
       \/ CmdBreakpointAddPC(named)
       \/ \E kind \in ListKinds \ {"breakpoints"} : AddTo(kind, named)
       \/ \E kind \in ListKinds \ {"bookmarks"} : Clear(kind, named)
       \/ \E kind \in ListKinds, on \in BOOLEAN : EnableDisable(kind, named, on)
  \/ \E i \in Slot : CmdZeroPagePointer(i, 0) \/ CmdZeroPagePointerOff(i)
  \/ \E unset \in {{0}, Slot} : CmdBookmarkClear(unset)
ListsSpec == ListsInit /\ [][ListsNext]_listVars

----------------------------------------------------------------------------
(* What a count says is true: a breakpoint is refused only when every slot is  *)
(* taken; "there are none defined" is said only where none is, as long as no   *)
(* pointer was set behind the count; and no count leaves the slots.            *)
ListsTellTheTruth ==
  \A kind \in ListKinds :
    LET list == debugLists[kind]
        size == Cardinality(SetIn(list))
    IN  /\ kind = "breakpoints" => list.count = size
        /\ kind # "zeropage" \/ ~pointed => size <= list.count /\ list.count <= ListSlots
============================================================================
