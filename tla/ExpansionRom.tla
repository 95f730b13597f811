----------------------------- MODULE ExpansionRom -----------------------------
(***************************************************************************)
(* apple2/Memory.cpp: the 2K window at $C800-$CFFF.  Every card with an    *)
(* expansion ROM shares it with the internal ROM of a //e; a read of the   *)
(* card's own page ($Cs00) selects it, and a read of $CFFF releases it.    *)
(* io_read_cxxx copies the winner's ROM into the image at the first read   *)
(* of the window and remembers in expansion_rom_type and                   *)
(* peripheral_rom_slot what is there, so as not to copy it again.  The      *)
(* machine is a //e: a ][ has none of the switches.                        *)
(***************************************************************************)
EXTENDS Integers, FiniteSetsExt

CONSTANTS
  Slots,        \* the slots whose page the program reads
  RomCards,     \* the slots of cards with an expansion ROM
  HandlerCards  \* the slots of cards that answer their page themselves

ASSUME ExpansionRomAssumption ==
  /\ Slots \subseteq 1 .. 7
  /\ RomCards \subseteq Slots
  /\ HandlerCards \subseteq Slots \ RomCards

VARIABLES
  slotCx, slotC3, \* MF_SLOTCXROM and MF_SLOTC3ROM of mem_mode
  ioSelect,       \* io_select, as the set of slots whose bit is set
  ioInternal,     \* io_select_internal_rom
  romType,        \* expansion_rom_type
  romSlot,        \* peripheral_rom_slot, 0 when none
  window,         \* what the image holds at $C800: a slot, Zeros, InternalRom
  claims,         \* history: slots whose own page was read since the last $CFFF
  claimed,        \* history: internal page $C3 was read since the last $CFFF
  fresh,          \* history: $CFFF was read since the image was last refilled
  answer          \* history: what the last read of the window returned

switches == <<slotCx, slotC3>>
latches == <<ioSelect, ioInternal>>
contents == <<romType, romSlot, window>>
history == <<claims, claimed, fresh>>
romVars == <<switches, latches, contents, history, answer>>

RomTypes == {"null", "peripheral", "internal"}

\* What a byte of the window can come from besides the card of a slot.
Zeros == 0
InternalRom == 8
FloatingBus == 9

RomTypeOK ==
  /\ slotCx \in BOOLEAN /\ slotC3 \in BOOLEAN
  /\ ioSelect \subseteq RomCards
  /\ ioInternal \in BOOLEAN
  /\ romType \in RomTypes
  /\ romSlot \in RomCards \cup {0}
  /\ window \in RomCards \cup {Zeros, InternalRom}
  /\ claims \subseteq RomCards
  /\ claimed \in BOOLEAN /\ fresh \in BOOLEAN
  /\ answer \in RomCards \cup {Zeros, InternalRom, FloatingBus}

RomInit ==
  /\ slotCx = TRUE /\ slotC3 = FALSE
  /\ ioSelect = {} /\ ioInternal = FALSE
  /\ romType = "null" /\ romSlot = 0 /\ window = InternalRom
  /\ claims = {} /\ claimed = FALSE /\ fresh = TRUE
  /\ answer = FloatingBus

-----------------------------------------------------------------------------
\* The 6502's reads.

\* The slot pages, not the internal ROM, answer at $C100-$C7FF.
SlotPages == slotCx

\* io_map_dispatch hands the read of $Cs00 to io_read_cxxx, not to the card.
Dispatched(s) == s \notin HandlerCards \/ ~ slotCx \/ (s = 3 /\ ~ slotC3)

Selects(s) == s \in RomCards /\ (s = 3 => slotC3)

Select(s) ==
  /\ ioSelect' = IF SlotPages /\ Selects(s) THEN ioSelect \cup {s} ELSE ioSelect
  /\ ioInternal' = (ioInternal \/ ~ SlotPages \/ (~ Selects(s) /\ ~ slotC3))

\* On the bus a card is selected when its page is read and its page answers.
Claim(s) ==
  /\ claims' = IF s \in RomCards /\ SlotPages /\ (s = 3 => slotC3)
               THEN claims \cup {s} ELSE claims
  /\ claimed' = (claimed \/ (s = 3 /\ ~ slotC3))

ReadSlotPage(s) ==
  /\ IF Dispatched(s) THEN Select(s) ELSE UNCHANGED latches
  /\ Claim(s)
  /\ UNCHANGED <<switches, contents, fresh, answer>>

Show(type, slot, rom) == romType' = type /\ romSlot' = slot /\ window' = rom

\* The lowest selected slot wins.
Winner == Min(ioSelect)

\* Mutant: the internal ROM goes in front of a selected card.
EnableInternalFirst ==
  IF ioInternal /\ romType # "internal" THEN Show("internal", 0, InternalRom)
  ELSE IF SlotPages /\ ioSelect # {} /\ romSlot # Winner /\ ~ ioInternal
       THEN Show("peripheral", Winner, Winner)
       ELSE UNCHANGED contents

Enable ==
  IF SlotPages /\ ioSelect # {}
  THEN IF romSlot # Winner THEN Show("peripheral", Winner, Winner)
       ELSE UNCHANGED contents
  ELSE IF ioInternal /\ romType # "internal" THEN Show("internal", 0, InternalRom)
       ELSE UNCHANGED contents

\* A read of $C800-$CFFE.
ReadWindow ==
  /\ Enable
  /\ answer' = IF romType' = "null" THEN FloatingBus ELSE window'
  /\ UNCHANGED <<switches, latches, history>>

Release == IF slotCx THEN Show("null", 0, Zeros)
           ELSE romSlot' = 0 /\ UNCHANGED <<romType, window>>

ReadCFFF ==
  /\ ioSelect' = {} /\ ioInternal' = FALSE
  /\ Release
  /\ claims' = {} /\ claimed' = FALSE
  /\ fresh' = (fresh \/ slotCx)
  /\ UNCHANGED <<switches, answer>>

\* mem_set_paging for $C006, $C007, $C00A and $C00B.
SetSlotC3(on) ==
  /\ slotC3' = on
  /\ UNCHANGED <<slotCx, latches, contents, history, answer>>

Toggle(on) == IF on THEN Show("null", 0, Zeros) ELSE Show("internal", 0, InternalRom)

SetSlotCx(on) ==
  /\ slotCx' = on
  /\ IF on # slotCx THEN Toggle(on) ELSE UNCHANGED contents
  /\ UNCHANGED <<slotC3, latches, history, answer>>

-----------------------------------------------------------------------------
\* Resets and save states.

\* linapple_reset_soft on a //e: the switches alone.
SoftReset ==
  /\ slotCx' = TRUE /\ slotC3' = FALSE
  /\ UNCHANGED <<latches, contents, history, answer>>

\* mem_reset and mem_set_snapshot: the image is refilled, the window from the
\* internal ROM, but the latches and the record of its contents stay.
Refill(cx, c3) ==
  /\ slotCx' = cx /\ slotC3' = c3
  /\ window' = InternalRom
  /\ claims' = {} /\ claimed' = FALSE /\ fresh' = FALSE
  /\ UNCHANGED <<latches, romType, romSlot, answer>>

PowerCycle == Refill(TRUE, FALSE)
RomLoadState == \E cx, c3 \in BOOLEAN : Refill(cx, c3)

RomNext ==
  \/ \E s \in Slots : ReadSlotPage(s)
  \/ ReadWindow
  \/ ReadCFFF
  \/ \E on \in BOOLEAN : SetSlotC3(on) \/ SetSlotCx(on)
  \/ SoftReset
  \/ PowerCycle
  \/ RomLoadState

RomSpec == RomInit /\ [][RomNext]_romVars

-----------------------------------------------------------------------------
\* What is recorded of the window agrees with what it holds, and a card whose
\* ROM is there is still selected: nobody reads a ROM released by $CFFF.
WindowIsWhatItSays ==
  fresh =>
    /\ romType = "peripheral" <=> romSlot # 0
    /\ romType = "peripheral" => window = romSlot /\ romSlot \in ioSelect
    /\ romType = "internal" => window = InternalRom
    /\ ~ slotCx => romType = "internal"

\* What a read of the window may return.
Answers ==
  IF ~ SlotPages THEN {InternalRom}
  ELSE IF claims # {} THEN {Min(claims)}
  ELSE IF claimed THEN {InternalRom} ELSE {InternalRom, FloatingBus}

\* A read of $C800-$CFFE answers from the lowest card whose page was read since
\* $CFFF, or from the internal ROM when that has been switched in, whatever was
\* in the window before.
SelectedRomAnswers == [][ReadWindow /\ fresh => answer' \in Answers]_romVars
=============================================================================
